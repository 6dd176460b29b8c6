----------------------------- MODULE LobbyProofs -----------------------------
(***************************************************************************)
(* Proofs about the creation of public games.  The types hold for any      *)
(* pages and faults.  That a form makes one game, the one asked for, needs *)
(* what lobby.js takes for granted and the runs lobby_edited and           *)
(* lobby_refused show to be necessary: hypotheses of the theorems, named   *)
(* below.                                                                  *)
(***************************************************************************)
EXTENDS LobbyProps, FiniteSetTheorems, TLAPS

\* The visitor uses one page of the lobby; localStorage holds one request.
OneTab == \A v, w \in Pages : v = w

\* The visitor does not change the form while its request is not settled.
FormKept == "edit" \notin Acts

\* A request is refused for what it asks for: not for how often it is repeated,
\* nor because the owner disabled public creation meanwhile.
RefusedForGood == "too many" \notin Faults /\ "disabling" \notin Acts

\* A page waits for the answer to a request of its own.
RealRequests ==
    \A v \in Pages : posts[v].kind # "none" => posts[v].request \in [form: Forms, nonce: Nonces]

TInv == LobbyTypeOK /\ RealRequests

\* Games are rows of the table, or were never created.
GameRows == \A g \in GameIds : games[g].status = "none" => games[g] = NoRow

\* A nonce in use was drawn, for one form.
DrawnNonces ==
    /\ \A g \in GameIds : /\ games[g].form # NoForm => games[g].nonce \in drawn
                          /\ games[g].nonce # NoNonce => games[g].form # NoForm
    /\ \A r \in orphans : r.form \in Forms /\ r.nonce \in drawn
    /\ \A v \in Pages : pages[v].nonce # NoNonce =>
          /\ pages[v].nonce \in drawn
          /\ \A g \in GameIds : games[g].nonce = pages[v].nonce
                                   => games[g].form = pages[v].form
          /\ \A r \in orphans : r.nonce = pages[v].nonce => r.form = pages[v].form

\* The request that is not settled, which the page and localStorage remember.
Unsettled(v) == [form |-> pages[v].form, nonce |-> pages[v].nonce]

PageRows ==
    \A v \in Pages :
        /\ stored = IF pages[v].nonce = NoNonce THEN NoPending ELSE Unsettled(v)
        /\ pages[v].nonce # NoNonce => pages[v].form \in Forms \ done
        /\ posts[v].kind # "none" =>
              pages[v].nonce # NoNonce /\ posts[v].request = Unsettled(v)

\* An answer that announces a game announces the one with its nonce.
GameAnswers ==
    \A v \in Pages :
        /\ posts[v].kind # "game" => posts[v].game = NoGame
        /\ posts[v].kind = "game" => posts[v].game \in Existing(posts[v].request)

LInv == TInv /\ GameRows /\ DrawnNonces /\ PageRows /\ GameAnswers

\* A game whose form is not done is that of the request that is not settled.
UnsettledGames ==
    \A g \in GameIds : games[g].form # NoForm =>
        games[g].form \in done \/ \E v \in Pages : games[g].nonce = pages[v].nonce

\* A request nobody waits for is the one that is not settled, or creates nothing.
StaleOrphans ==
    \A r \in orphans : \/ \E v \in Pages : r = Unsettled(v)
                       \/ Existing(r) # {} \/ Refuses(r)

\* A refused request has made no game, and none of its copies will make one.
RefusedAnswers ==
    \A v \in Pages : posts[v].kind = "refused" =>
        /\ Existing(posts[v].request) = {}
        /\ orphans # {} => Refuses(posts[v].request)

GInv == setting.public /\ UnsettledGames /\ StaleOrphans /\ RefusedAnswers /\ OneGamePerForm

----------------------------------------------------------------------------
(* Types, for any pages, faults and acts.                                   *)


LEMMA LobbyBounds ==
    /\ MaxGames \in Nat /\ GameIds \subseteq Nat /\ NoGame \notin GameIds
    /\ NoForm \notin Forms /\ NoNonce \notin Nonces
    /\ Haircuts # {}
  <1>1. MaxGames \in Nat /\ NoForm \notin Forms /\ NoNonce \notin Nonces /\ Haircuts # {}
    BY LobbyAssumption, Zenon
  <1>2. GameIds \subseteq Nat /\ NoGame \notin GameIds
    BY <1>1 DEF GameIds, NoGame
  <1> QED
    BY <1>1, <1>2

LEMMA PendingTyped ==
    /\ NoPending \in Pending
    /\ \A r \in Pending : /\ r = [form |-> r.form, nonce |-> r.nonce]
                          /\ r.form \in Forms \cup {NoForm} /\ r.nonce \in Nonces \cup {NoNonce}
    /\ \A f \in Forms, n \in Nonces : [form |-> f, nonce |-> n] \in Pending
  BY DEF Pending, NoPending

LEMMA OpenedTyped ==
  ASSUME LobbyTypeOK, NEW r \in Pending, NEW haircut \in Haircuts
  PROVE  /\ Opened(r, haircut) \in Page
         /\ Opened(r, haircut).form = r.form /\ Opened(r, haircut).nonce = r.nonce
         /\ ~Opened(r, haircut).creating
         /\ Opened(r, haircut).link = NoGame
  BY PendingTyped DEF Opened, Page

\* What create_game does to the table.
LEMMA CreatesChange ==
  ASSUME LobbyTypeOK, NEW r \in Pending, NEW g \in GameIds, Creates(r, g)
  PROVE  /\ games' \in [GameIds -> Game]
         /\ \/ Existing(r) # {} /\ g \in Existing(r) /\ UNCHANGED games
            \/ /\ Existing(r) = {} /\ games[g].status = "none"
               /\ games'[g] = [status |-> "active", recent |-> TRUE,
                               form |-> r.form, nonce |-> r.nonce]
               /\ \A h \in GameIds \ {g} : games'[h] = games[h]
  <1>1. games \in [GameIds -> Game]
    BY DEF LobbyTypeOK
  <1>2. CASE Existing(r) # {}
    BY <1>1, <1>2 DEF Creates
  <1>3. CASE Existing(r) = {}
    <2>1. /\ games[g].status = "none"
          /\ games' = [games EXCEPT ![g] = [status |-> "active", recent |-> TRUE,
                                            form |-> r.form, nonce |-> r.nonce]]
      BY <1>3 DEF Creates, NextGame
    <2>2. [status |-> "active", recent |-> TRUE, form |-> r.form, nonce |-> r.nonce] \in Game
      BY PendingTyped DEF Game
    <2> QED
      BY <1>1, <1>3, <2>1, <2>2
  <1> QED
    BY <1>2, <1>3

LEMMA PostChange ==
  ASSUME LobbyTypeOK, NEW v \in Pages, NEW kind, NEW g, Answer(v, kind, g)
  PROVE  /\ \A w \in Pages \ {v} : posts'[w] = posts[w]
         /\ posts'[v] = [kind |-> kind, request |-> posts[v].request, game |-> g]
         /\ DOMAIN posts' = Pages
         /\ posts' = [w \in Pages |-> posts'[w]]
  <1> DEFINE post == [posts[v] EXCEPT !.kind = kind]
             middle == [posts EXCEPT ![v] = post]
             answer == [post EXCEPT !.game = g]
  <1>1. posts \in [Pages -> Post] /\ posts[v] \in Post
    BY DEF LobbyTypeOK
  <1>2. post = [kind |-> kind, request |-> posts[v].request, game |-> posts[v].game]
    BY <1>1 DEF Post
  <1> HIDE DEF post
  <1>3. answer = [kind |-> kind, request |-> posts[v].request, game |-> g]
    BY <1>2
  <1>4. middle[v] = post /\ DOMAIN middle = Pages /\ \A w \in Pages \ {v} : middle[w] = posts[w]
    BY <1>1
  <1>5. posts' = [middle EXCEPT ![v] = [middle[v] EXCEPT !.game = g]]
    BY DEF Answer, post
  <1>6. posts' = [middle EXCEPT ![v] = answer]
    BY <1>4, <1>5
  <1> HIDE DEF middle, answer
  <1> QED
    BY <1>3, <1>4, <1>6

LEMMA AnswerTyped ==
  ASSUME LobbyTypeOK, NEW v \in Pages, posts[v].kind = "asked",
         NEW kind \in {"game", "refused", "failed"}, NEW g \in GameIds \cup {NoGame},
         Answer(v, kind, g), UNCHANGED pages
  PROVE  /\ posts' \in [Pages -> Post]
         /\ \A w \in Pages : pages'[w].creating <=> posts'[w].kind # "none"
  <1>1. /\ posts \in [Pages -> Post]
        /\ \A w \in Pages : pages[w].creating <=> posts[w].kind # "none"
    BY DEF LobbyTypeOK
  <1> DEFINE answer == [kind |-> kind, request |-> posts[v].request, game |-> g]
  <1>2. answer \in Post /\ answer.kind = kind
    BY <1>1 DEF Post
  <1>3. /\ \A w \in Pages \ {v} : posts'[w] = posts[w]
        /\ posts'[v] = answer
        /\ posts' = [w \in Pages |-> posts'[w]]
    BY PostChange
  <1> HIDE DEF answer
  <1>4. \A w \in Pages : posts'[w] \in Post
    BY <1>1, <1>2, <1>3
  <1>5. posts' \in [Pages -> Post]
    BY <1>3, <1>4
  <1> QED
    BY <1>1, <1>2, <1>3, <1>5

LEMMA AbandonTyped ==
  ASSUME LobbyTypeOK, NEW v \in Pages, Abandon(v)
  PROVE  /\ posts' \in [Pages -> Post]
         /\ posts'[v] = NoPost /\ NoPost.kind = "none"
         /\ \A w \in Pages \ {v} : posts'[w] = posts[w]
         /\ orphans' \subseteq Pending
         /\ orphans' \subseteq orphans \cup {posts[v].request}
         /\ posts[v].kind # "asked" => UNCHANGED orphans
  <1>1. posts \in [Pages -> Post] /\ orphans \subseteq Pending
    BY DEF LobbyTypeOK
  <1>2. NoPost \in Post /\ NoPost.kind = "none"
    BY PendingTyped DEF NoPost, Post
  <1>3. posts[v].request \in Pending
    BY <1>1 DEF Post
  <1> QED
    BY <1>1, <1>2, <1>3 DEF Abandon

LEMMA LobbyTypePage ==
  ASSUME TInv, NEW v \in Pages, PageStep(v)
  PROVE  TInv'
  <1>1. /\ setting \in [public: BOOLEAN, haircut: Haircuts]
        /\ games \in [GameIds -> Game]
        /\ pages \in [Pages -> Page]
        /\ stored \in Pending
        /\ posts \in [Pages -> Post]
        /\ orphans \subseteq Pending
        /\ drawn \subseteq Nonces
        /\ done \subseteq Forms
    BY DEF TInv, LobbyTypeOK
  <1>2. \A w \in Pages : pages[w].creating <=> posts[w].kind # "none"
    BY DEF TInv, LobbyTypeOK
  <1>3. LobbyTypeOK /\ RealRequests
    BY DEF TInv
  \* Only what a page shows changes, in the page.
  <1>4. ASSUME NEW page \in Page, pages' = [pages EXCEPT ![v] = page],
               page.creating = pages[v].creating,
               UNCHANGED <<setting, games, stored, posts, orphans, drawn, done>>
        PROVE  TInv'
    BY <1>1, <1>2, <1>3, <1>4 DEF TInv, LobbyTypeOK, RealRequests
  <1>5. ASSUME NEW f \in Forms, Edit(v, f) PROVE TInv'
    <2> DEFINE page == [pages[v] EXCEPT !.form = f]
    <2>1. page \in Page /\ page.creating = pages[v].creating
      BY <1>1 DEF Page
    <2>2. pages' = [pages EXCEPT ![v] = page]
      BY <1>5 DEF Edit
    <2> HIDE DEF page
    <2> QED
      BY <1>4, <1>5, <2>1, <2>2 DEF Edit
  <1>6. ASSUME NEW n \in Nonces, Submit(v, n) PROVE TInv'
    <2> DEFINE pending == [form |-> pages[v].form, nonce |-> n]
               post == [kind |-> "asked", request |-> pending, game |-> NoGame]
               page == [pages[v] EXCEPT !.creating = TRUE, !.nonce = n, !.link = NoGame]
    <2>1. /\ pages' = [pages EXCEPT ![v] = page]
          /\ stored' = pending
          /\ posts' = [posts EXCEPT ![v] = post]
          /\ drawn' = drawn \cup {n}
          /\ pages[v].form \in Forms
          /\ UNCHANGED <<setting, games, orphans, done>>
      BY <1>6 DEF Submit
    <2>2. page \in Page /\ page.creating
      BY <1>1 DEF Page
    <2>3. pending \in Pending /\ pending \in [form: Forms, nonce: Nonces]
      BY <2>1, PendingTyped
    <2>4. post \in Post /\ post.kind = "asked" /\ post.request = pending
      BY <2>3 DEF Post
    <2> HIDE DEF page, post, pending
    <2> QED
      BY <1>1, <1>2, <1>3, <2>1, <2>2, <2>3, <2>4 DEF TInv, LobbyTypeOK, RealRequests
  <1>7. ASSUME AnswerArrives(v) PROVE TInv'
    <2> DEFINE page == [pages[v] EXCEPT !.creating = FALSE, !.link = posts[v].game,
                                        !.nonce = IF Settles(posts[v].kind) THEN NoNonce ELSE @]
    <2>1. /\ pages' = [pages EXCEPT ![v] = page]
          /\ stored' \in {stored, NoPending}
          /\ done' \in {done, done \cup {posts[v].request.form}}
          /\ posts' = [posts EXCEPT ![v] = NoPost]
          /\ posts[v].kind # "none"
          /\ UNCHANGED <<setting, games, orphans, drawn>>
      BY <1>7 DEF AnswerArrives
    <2>2. page \in Page /\ ~page.creating
      BY <1>1 DEF Page, Post
    <2>3. NoPost \in Post /\ NoPost.kind = "none"
      BY PendingTyped DEF NoPost, Post
    <2>4. posts[v].request.form \in Forms
      BY <1>3, <2>1 DEF RealRequests
    <2>5. done' \subseteq Forms /\ stored' \in Pending
      BY <1>1, <2>1, <2>4, PendingTyped
    <2> HIDE DEF page
    <2> QED
      BY <1>1, <1>2, <1>3, <2>1, <2>2, <2>3, <2>5 DEF TInv, LobbyTypeOK, RealRequests
  \* A page that does not wait any longer.
  <1>8. ASSUME NEW page \in Page, ~page.creating, pages' = [pages EXCEPT ![v] = page],
               Abandon(v), UNCHANGED <<setting, games, stored, drawn, done>>
        PROVE  TInv'
    BY <1>1, <1>2, <1>3, <1>8, AbandonTyped DEF TInv, LobbyTypeOK, RealRequests
  <1>9. ASSUME AnswerLost(v) PROVE TInv'
    <2> DEFINE page == [pages[v] EXCEPT !.creating = FALSE]
    <2>1. page \in Page /\ ~page.creating
      BY <1>1 DEF Page
    <2>2. pages' = [pages EXCEPT ![v] = page]
      BY <1>9 DEF AnswerLost
    <2> HIDE DEF page
    <2> QED
      BY <1>8, <1>9, <2>1, <2>2 DEF AnswerLost
  <1>10. ASSUME Reload(v) PROVE TInv'
    <2>1. /\ pages' = [pages EXCEPT ![v] = Opened(stored, setting.haircut)]
          /\ Abandon(v) /\ UNCHANGED <<setting, games, stored, drawn, done>>
      BY <1>10 DEF Reload
    <2>2. setting.haircut \in Haircuts
      BY <1>1
    <2>3. Opened(stored, setting.haircut) \in Page /\ ~Opened(stored, setting.haircut).creating
      BY <1>1, <1>3, <2>2, OpenedTyped
    <2> QED
      BY <1>8, <2>1, <2>3
  <1>11. ASSUME SnapshotArrives(v) PROVE TInv'
    <2> DEFINE page == [pages[v] EXCEPT !.can = TRUE, !.haircut = setting.haircut]
    <2>1. page \in Page /\ page.creating = pages[v].creating
      BY <1>1 DEF Page
    <2>2. pages' = [pages EXCEPT ![v] = page]
      BY <1>1, <1>11 DEF SnapshotArrives
    <2> HIDE DEF page
    <2> QED
      BY <1>4, <1>11, <2>1, <2>2 DEF SnapshotArrives
  <1>12. ASSUME Disconnected(v) PROVE TInv'
    <2> DEFINE page == [pages[v] EXCEPT !.can = FALSE]
    <2>1. page \in Page /\ page.creating = pages[v].creating
      BY <1>1 DEF Page
    <2>2. pages' = [pages EXCEPT ![v] = page]
      BY <1>12 DEF Disconnected
    <2> HIDE DEF page
    <2> QED
      BY <1>4, <1>12, <2>1, <2>2 DEF Disconnected
  <1> QED
    BY <1>5, <1>6, <1>7, <1>9, <1>10, <1>11, <1>12 DEF PageStep

LEMMA LobbyTypeServer ==
  ASSUME TInv, ServerStep
  PROVE  TInv'
  <1>1. LobbyTypeOK /\ RealRequests /\ posts \in [Pages -> Post]
    BY DEF TInv, LobbyTypeOK
  <1>2. ASSUME NEW v \in Pages, posts[v].kind = "asked",
               NEW kind \in {"game", "refused", "failed"}, NEW g \in GameIds \cup {NoGame},
               Answer(v, kind, g), games' \in [GameIds -> Game],
               UNCHANGED <<setting, pages, stored, orphans, drawn, done>>
        PROVE  TInv'
    <2>1. RealRequests'
      <3>1. /\ \A w \in Pages \ {v} : posts'[w] = posts[w]
            /\ posts'[v] = [kind |-> kind, request |-> posts[v].request, game |-> g]
        BY <1>1, <1>2, PostChange
      <3> QED
        BY <1>1, <1>2, <3>1 DEF RealRequests
    <2> QED
      BY <1>1, <1>2, <2>1, AnswerTyped DEF TInv, LobbyTypeOK
  <1>3. games \in [GameIds -> Game]
    BY <1>1 DEF LobbyTypeOK
  <1>4. ASSUME NEW v \in Pages, CreateGame(v) PROVE TInv'
    <2> DEFINE r == posts[v].request
    <2>1. /\ posts[v].kind = "asked"
          /\ UNCHANGED <<setting, pages, stored, orphans, drawn, done>>
      BY <1>4 DEF CreateGame
    <2>2. CASE Answer(v, "refused", NoGame) /\ UNCHANGED games
      BY <1>2, <1>3, <2>1, <2>2
    <2>3. ASSUME NEW g \in GameIds, Creates(r, g), Answer(v, "game", g) PROVE TInv'
      <3>1. r \in Pending
        BY <1>1 DEF Post
      <3>2. games' \in [GameIds -> Game]
        BY <1>1, <2>3, <3>1, CreatesChange
      <3> QED
        BY <1>2, <2>1, <2>3, <3>2
    <2> QED
      BY <1>4, <2>2, <2>3 DEF CreateGame
  <1>5. ASSUME NEW v \in Pages, Fails(v) PROVE TInv'
    BY <1>2, <1>3, <1>5 DEF Fails
  <1>6. ASSUME NEW r \in orphans, ServeOrphan(r) PROVE TInv'
    <2>1. r \in Pending
      BY <1>1 DEF LobbyTypeOK
    <2>2. games' \in [GameIds -> Game]
      BY <1>1, <1>3, <1>6, <2>1, CreatesChange DEF ServeOrphan
    <2> QED
      BY <1>1, <1>6, <2>2 DEF ServeOrphan, TInv, LobbyTypeOK, RealRequests
  <1> QED
    BY <1>4, <1>5, <1>6 DEF ServerStep

LEMMA LobbyTypeElsewhere ==
  ASSUME TInv, Elsewhere
  PROVE  TInv'
  <1>1. LobbyTypeOK /\ RealRequests /\ games \in [GameIds -> Game]
    BY DEF TInv, LobbyTypeOK
  <1>2. ASSUME NEW public \in BOOLEAN, NEW haircut \in Haircuts, SaveSettings(public, haircut)
        PROVE  TInv'
    BY <1>1, <1>2 DEF SaveSettings, TInv, LobbyTypeOK, RealRequests
  <1>3. ASSUME games' \in [GameIds -> Game],
               UNCHANGED <<setting, pages, stored, posts, orphans, drawn, done>>
        PROVE  TInv'
    BY <1>1, <1>3 DEF TInv, LobbyTypeOK, RealRequests
  <1>4. ASSUME NEW g \in GameIds, StrangerCreates(g) PROVE TInv'
    <2>1. games' \in [GameIds -> Game]
      BY <1>1, <1>4 DEF StrangerCreates, Game
    <2> QED
      BY <1>3, <1>4, <2>1 DEF StrangerCreates
  <1>5. ASSUME NEW g \in GameIds, Expires(g) PROVE TInv'
    <2>1. \/ games' = [games EXCEPT ![g].status = "expired"]
          \/ games' = [games EXCEPT ![g].recent = FALSE]
      BY <1>5 DEF Expires
    <2>2. games' \in [GameIds -> Game]
      BY <1>1, <2>1 DEF Game
    <2> QED
      BY <1>3, <1>5, <2>2 DEF Expires
  <1> QED
    BY <1>2, <1>4, <1>5 DEF Elsewhere

LEMMA LobbyTypeStep == TInv /\ [LobbyNext]_vars => TInv'
  <1>1. TInv /\ UNCHANGED vars => TInv'
    BY DEF TInv, LobbyTypeOK, RealRequests, vars
  <1> QED
    BY <1>1, LobbyTypePage, LobbyTypeServer, LobbyTypeElsewhere DEF LobbyNext

LEMMA LobbyTypeInit == LobbyInit => TInv
  <1> SUFFICES ASSUME LobbyInit PROVE TInv
    OBVIOUS
  <1>1. setting \in [public: BOOLEAN, haircut: Haircuts]
    BY DEF LobbyInit
  <1>2. NoRow \in Game
    BY DEF NoRow, Game
  <1>3. Opened(NoPending, setting.haircut) \in Page /\ ~Opened(NoPending, setting.haircut).creating
    BY <1>1, PendingTyped DEF Opened, Page
  <1>4. NoPost \in Post /\ NoPost.kind = "none"
    BY PendingTyped DEF NoPost, Post
  <1>5. NoPending \in Pending
    BY PendingTyped
  <1> QED
    BY <1>1, <1>2, <1>3, <1>4, <1>5 DEF LobbyInit, TInv, LobbyTypeOK, RealRequests

\* The pages, the requests and the table stay well formed, for any number of pages
\* and whatever fails; in particular a page is busy exactly while it waits.
THEOREM LobbyTypeCorrect == LobbySpec => []LobbyTypeOK
  <1>1. TInv => LobbyTypeOK
    BY DEF TInv
  <1> QED
    BY LobbyTypeInit, LobbyTypeStep, <1>1, PTL DEF LobbySpec

----------------------------------------------------------------------------
(* What a page does, when it is the only one.                               *)

\* It goes on with the request that is not settled, and may stop waiting for it.
PageSame(v) ==
    /\ pages'[v].form = pages[v].form /\ pages'[v].nonce = pages[v].nonce
    /\ \/ UNCHANGED <<posts, orphans>>
       \/ /\ posts'[v] = NoPost
          /\ \/ UNCHANGED orphans
             \/ posts[v].kind # "none" /\ orphans' = orphans \cup {posts[v].request}
    /\ UNCHANGED <<setting, games, stored, drawn, done>>

\* It has no request that is not settled, and gets another form.
PageFresh(v) ==
    /\ pages[v].nonce = NoNonce /\ pages'[v].nonce = NoNonce
    /\ posts[v].kind = "none"
    /\ posts'[v].kind = "none" /\ posts'[v].game = NoGame
    /\ UNCHANGED <<setting, games, stored, orphans, drawn, done>>

\* It settles its request.
PageSettles(v) == Settles(posts[v].kind) /\ AnswerArrives(v)

LEMMA PageKinds ==
  ASSUME OneTab, FormKept, LInv, NEW v \in Pages, PageStep(v)
  PROVE  \/ PageSame(v) \/ PageFresh(v) \/ PageSettles(v)
         \/ \E n \in Nonces : Submit(v, n)
  <1>1. LobbyTypeOK /\ pages \in [Pages -> Page] /\ posts \in [Pages -> Post] /\ stored \in Pending
    BY DEF LInv, TInv, LobbyTypeOK
  <1>2. /\ stored = IF pages[v].nonce = NoNonce THEN NoPending ELSE Unsettled(v)
        /\ pages[v].nonce # NoNonce => pages[v].form \in Forms \ done
        /\ posts[v].kind # "none" => pages[v].nonce # NoNonce
        /\ posts[v].kind = "none" => posts[v].game = NoGame
    BY DEF LInv, PageRows, GameAnswers
  <1>3. NoPost.kind = "none" /\ NoPost.game = NoGame
    BY DEF NoPost
  <1>4. ASSUME NEW f \in Forms, Edit(v, f) PROVE PageFresh(v)
    <2>1. pages[v].form \in done \cup {NoForm}
      BY <1>4 DEF Edit, FormKept
    <2>2. pages[v].nonce = NoNonce /\ posts[v].kind = "none" /\ posts[v].game = NoGame
      BY <1>2, <2>1, LobbyBounds
    <2>3. pages'[v].nonce = pages[v].nonce
      BY <1>1, <1>4 DEF Edit, Page
    <2> QED
      BY <1>4, <2>2, <2>3 DEF Edit, PageFresh
  <1>5. ASSUME AnswerArrives(v) PROVE PageSame(v) \/ PageSettles(v)
    <2>1. CASE Settles(posts[v].kind)
      BY <1>5, <2>1 DEF PageSettles
    <2>2. CASE ~Settles(posts[v].kind)
      <3> DEFINE page == [pages[v] EXCEPT !.creating = FALSE, !.link = posts[v].game,
                                          !.nonce = IF Settles(posts[v].kind) THEN NoNonce ELSE @]
      <3>1. /\ pages' = [pages EXCEPT ![v] = page]
            /\ posts' = [posts EXCEPT ![v] = NoPost]
            /\ stored' = stored
            /\ UNCHANGED <<setting, games, orphans, drawn>>
        BY <1>5, <2>2 DEF AnswerArrives
      <3>2. done' = done
        BY <1>5, <2>2 DEF AnswerArrives, Settles
      <3>3. page.form = pages[v].form /\ page.nonce = pages[v].nonce
        BY <1>1, <2>2 DEF Page
      <3> HIDE DEF page
      <3>4. pages'[v] = page /\ posts'[v] = NoPost
        BY <1>1, <3>1
      <3> QED
        BY <3>1, <3>2, <3>3, <3>4 DEF PageSame
    <2> QED
      BY <2>1, <2>2
  <1>6. Abandon(v) => /\ posts'[v] = NoPost
                      /\ \/ UNCHANGED orphans
                         \/ posts[v].kind # "none" /\ orphans' = orphans \cup {posts[v].request}
    BY <1>1 DEF Abandon
  <1>7. ASSUME AnswerLost(v) PROVE PageSame(v)
    <2>1. pages'[v].form = pages[v].form /\ pages'[v].nonce = pages[v].nonce
      BY <1>1, <1>7 DEF AnswerLost, Page
    <2> QED
      BY <1>6, <1>7, <2>1 DEF AnswerLost, PageSame
  <1>8. ASSUME Reload(v) PROVE PageSame(v) \/ PageFresh(v)
    <2>1. /\ Abandon(v) /\ UNCHANGED <<setting, games, stored, drawn, done>>
          /\ pages'[v] = Opened(stored, setting.haircut)
      BY <1>1, <1>8 DEF Reload
    <2>2. pages'[v].form = stored.form /\ pages'[v].nonce = stored.nonce
      BY <2>1 DEF Opened
    <2>3. CASE pages[v].nonce = NoNonce
      <3>1. pages'[v].nonce = NoNonce
        BY <1>2, <2>2, <2>3 DEF NoPending
      <3>2. posts[v].kind = "none"
        BY <1>2, <2>3
      <3>3. UNCHANGED orphans /\ posts'[v] = NoPost
        BY <1>6, <2>1, <3>2
      <3> QED
        BY <1>3, <2>1, <2>3, <3>1, <3>2, <3>3 DEF PageFresh
    <2>4. CASE pages[v].nonce # NoNonce
      <3>1. pages'[v].form = pages[v].form /\ pages'[v].nonce = pages[v].nonce
        BY <1>2, <2>2, <2>4 DEF Unsettled
      <3> QED
        BY <1>6, <2>1, <3>1 DEF PageSame
    <2> QED
      BY <2>3, <2>4
  <1>9. ASSUME SnapshotArrives(v) PROVE PageSame(v)
    <2> DEFINE page == [pages[v] EXCEPT !.can = TRUE, !.haircut = setting.haircut]
    <2>1. page.form = pages[v].form /\ page.nonce = pages[v].nonce
      BY <1>1 DEF Page
    <2>2. pages' = [pages EXCEPT ![v] = page]
      BY <1>1, <1>9 DEF SnapshotArrives
    <2> HIDE DEF page
    <2> QED
      BY <1>1, <1>9, <2>1, <2>2 DEF SnapshotArrives, PageSame
  <1>10. ASSUME Disconnected(v) PROVE PageSame(v)
    <2>1. pages'[v].form = pages[v].form /\ pages'[v].nonce = pages[v].nonce
      BY <1>1, <1>10 DEF Disconnected, Page
    <2> QED
      BY <1>10, <2>1 DEF Disconnected, PageSame
  <1> QED
    BY <1>4, <1>5, <1>7, <1>8, <1>9, <1>10 DEF PageStep

LEMMA SubmitChange ==
  ASSUME LobbyTypeOK, NEW v \in Pages, NEW n \in Nonces, Submit(v, n)
  PROVE  /\ pages[v].form \in Forms \ done
         /\ IF pages[v].nonce # NoNonce THEN n = pages[v].nonce ELSE n \notin drawn
         /\ pages'[v].form = pages[v].form /\ pages'[v].nonce = n
         /\ pages'[v].link = NoGame
         /\ posts'[v].kind = "asked" /\ posts'[v].game = NoGame
         /\ posts'[v].request = [form |-> pages[v].form, nonce |-> n]
         /\ stored' = [form |-> pages[v].form, nonce |-> n]
         /\ drawn' = drawn \cup {n}
         /\ posts[v].kind = "none"
         /\ UNCHANGED <<setting, games, orphans, done>>
  <1>1. /\ pages \in [Pages -> Page] /\ posts \in [Pages -> Post]
        /\ pages[v].creating <=> posts[v].kind # "none"
    BY DEF LobbyTypeOK
  <1> DEFINE pending == [form |-> pages[v].form, nonce |-> n]
             post == [kind |-> "asked", request |-> pending, game |-> NoGame]
             page == [pages[v] EXCEPT !.creating = TRUE, !.nonce = n, !.link = NoGame]
  <1>2. /\ pages' = [pages EXCEPT ![v] = page]
        /\ posts' = [posts EXCEPT ![v] = post]
    BY DEF Submit
  <1>3. page.form = pages[v].form /\ page.nonce = n /\ page.link = NoGame
    BY <1>1 DEF Page
  <1>4. post.kind = "asked" /\ post.game = NoGame /\ post.request = pending
    OBVIOUS
  <1>5. pages'[v].form = pages[v].form /\ pages'[v].nonce = n /\ pages'[v].link = NoGame
    <2> HIDE DEF page
    <2> QED
      BY <1>1, <1>2, <1>3
  <1>6. posts'[v].kind = "asked" /\ posts'[v].game = NoGame /\ posts'[v].request = pending
    <2> HIDE DEF post
    <2> QED
      BY <1>1, <1>2, <1>4
  <1> QED
    BY <1>1, <1>5, <1>6 DEF Submit, RequestNonce

LEMMA SettlesChange ==
  ASSUME LobbyTypeOK, NEW v \in Pages, PageSettles(v)
  PROVE  /\ posts[v].kind \in {"game", "refused"}
         /\ pages'[v].form = pages[v].form /\ pages'[v].nonce = NoNonce
         /\ pages'[v].link = posts[v].game
         /\ posts'[v].kind = "none" /\ posts'[v].game = NoGame
         /\ stored' = NoPending
         /\ done' = IF posts[v].kind = "game" THEN done \cup {posts[v].request.form} ELSE done
         /\ UNCHANGED <<setting, games, orphans, drawn>>
  <1>1. pages \in [Pages -> Page] /\ posts \in [Pages -> Post]
    BY DEF LobbyTypeOK
  <1>2. Settles(posts[v].kind) /\ AnswerArrives(v)
    BY DEF PageSettles
  <1> DEFINE page == [pages[v] EXCEPT !.creating = FALSE, !.link = posts[v].game,
                                      !.nonce = IF Settles(posts[v].kind) THEN NoNonce ELSE @]
  <1>3. pages' = [pages EXCEPT ![v] = page]
    BY <1>2 DEF AnswerArrives
  <1>4. page.form = pages[v].form /\ page.nonce = NoNonce /\ page.link = posts[v].game
    BY <1>1, <1>2 DEF Page
  <1>5. /\ pages'[v].form = pages[v].form /\ pages'[v].nonce = NoNonce
        /\ pages'[v].link = posts[v].game
    <2> HIDE DEF page
    <2> QED
      BY <1>1, <1>3, <1>4
  <1>6. posts'[v] = NoPost
    BY <1>1, <1>2 DEF AnswerArrives
  <1>7. posts'[v].kind = "none" /\ posts'[v].game = NoGame
    BY <1>6 DEF NoPost
  <1> QED
    BY <1>2, <1>5, <1>7 DEF AnswerArrives, Settles

----------------------------------------------------------------------------
(* Nonces: each stands for one form, in the page, in localStorage, in every *)
(* copy of its request and in the table.                                    *)

LInvRows == GameRows /\ DrawnNonces /\ PageRows /\ GameAnswers

LEMMA SamePage ==
  ASSUME OneTab, LInv, NEW v \in Pages, PageSame(v)
  PROVE  LInvRows'
  <1>1. TInv /\ GameRows /\ DrawnNonces /\ PageRows /\ GameAnswers
    BY DEF LInv
  <1>2. \A w \in Pages : w = v
    BY DEF OneTab
  <1>3. /\ pages'[v].form = pages[v].form /\ pages'[v].nonce = pages[v].nonce
        /\ UNCHANGED <<setting, games, stored, drawn, done>>
    BY DEF PageSame
  <1>4. posts'[v] = posts[v] \/ (posts'[v].kind = "none" /\ posts'[v].game = NoGame)
    BY DEF PageSame, NoPost
  <1>5. Unsettled(v)' = Unsettled(v)
    BY <1>3 DEF Unsettled
  <1>6. \A r \in orphans' : r \in orphans \/ (posts[v].kind # "none" /\ r = Unsettled(v))
    BY <1>1 DEF PageSame, PageRows
  <1>7. GameRows'
    BY <1>1, <1>3 DEF GameRows
  <1>8. PageRows'
    BY <1>1, <1>2, <1>3, <1>4, <1>5 DEF PageRows
  <1>9. GameAnswers'
    BY <1>1, <1>2, <1>3, <1>4 DEF GameAnswers, Existing
  <1>10. posts[v].kind # "none" => /\ Unsettled(v).form = pages[v].form /\ pages[v].form \in Forms
                                   /\ Unsettled(v).nonce = pages[v].nonce
                                   /\ pages[v].nonce \in drawn
    BY <1>1 DEF PageRows, DrawnNonces, Unsettled
  <1>11. DrawnNonces'
    BY <1>1, <1>2, <1>3, <1>6, <1>10 DEF DrawnNonces
  <1> QED
    BY <1>7, <1>8, <1>9, <1>11 DEF LInvRows

LEMMA FreshPage ==
  ASSUME OneTab, LInv, NEW v \in Pages, PageFresh(v)
  PROVE  LInvRows'
  <1>1. TInv /\ GameRows /\ DrawnNonces /\ PageRows /\ GameAnswers
    BY DEF LInv
  <1>2. \A w \in Pages : w = v
    BY DEF OneTab
  <1>3. GameRows'
    BY <1>1 DEF GameRows, PageFresh
  <1>4. PageRows'
    BY <1>1, <1>2 DEF PageRows, PageFresh
  <1>5. GameAnswers'
    BY <1>2 DEF GameAnswers, PageFresh
  <1>6. DrawnNonces'
    BY <1>1, <1>2 DEF DrawnNonces, PageFresh
  <1> QED
    BY <1>3, <1>4, <1>5, <1>6 DEF LInvRows

LEMMA SettledPage ==
  ASSUME OneTab, LInv, NEW v \in Pages, PageSettles(v)
  PROVE  LInvRows'
  <1>1. TInv /\ LobbyTypeOK /\ GameRows /\ DrawnNonces /\ PageRows /\ GameAnswers
    BY DEF LInv, TInv
  <1>2. \A w \in Pages : w = v
    BY DEF OneTab
  <1>3. /\ pages'[v].nonce = NoNonce
        /\ posts'[v].kind = "none" /\ posts'[v].game = NoGame
        /\ stored' = NoPending
        /\ UNCHANGED <<games, orphans, drawn>>
    BY <1>1, SettlesChange
  <1>4. GameRows'
    BY <1>1, <1>3 DEF GameRows
  <1>5. PageRows'
    BY <1>2, <1>3 DEF PageRows
  <1>6. GameAnswers'
    BY <1>2, <1>3 DEF GameAnswers
  <1>7. DrawnNonces'
    BY <1>1, <1>2, <1>3 DEF DrawnNonces
  <1> QED
    BY <1>4, <1>5, <1>6, <1>7 DEF LInvRows

LEMMA SubmittedPage ==
  ASSUME OneTab, LInv, NEW v \in Pages, NEW n \in Nonces, Submit(v, n)
  PROVE  LInvRows'
  <1>1. TInv /\ LobbyTypeOK /\ GameRows /\ DrawnNonces /\ PageRows /\ GameAnswers
    BY DEF LInv, TInv
  <1>2. \A w \in Pages : w = v
    BY DEF OneTab
  <1>3. n # NoNonce
    BY LobbyBounds
  <1>4. /\ pages[v].form \in Forms \ done
        /\ IF pages[v].nonce # NoNonce THEN n = pages[v].nonce ELSE n \notin drawn
        /\ pages'[v].form = pages[v].form /\ pages'[v].nonce = n
        /\ posts'[v].kind = "asked" /\ posts'[v].game = NoGame
        /\ posts'[v].request = [form |-> pages[v].form, nonce |-> n]
        /\ stored' = [form |-> pages[v].form, nonce |-> n]
        /\ drawn' = drawn \cup {n}
        /\ UNCHANGED <<games, orphans, done>>
    BY <1>1, SubmitChange
  <1>5. Unsettled(v)' = [form |-> pages[v].form, nonce |-> n]
    BY <1>4 DEF Unsettled
  <1>6. GameRows'
    BY <1>1, <1>4 DEF GameRows
  <1>7. PageRows'
    BY <1>2, <1>3, <1>4, <1>5 DEF PageRows
  <1>8. GameAnswers'
    BY <1>2, <1>4 DEF GameAnswers
  <1>9. DrawnNonces'
    <2>1. \A g \in GameIds : games[g].nonce = n => games[g].form = pages[v].form
      BY <1>1, <1>3, <1>4 DEF DrawnNonces
    <2>2. \A r \in orphans : r.nonce = n => r.form = pages[v].form
      BY <1>1, <1>4 DEF DrawnNonces
    <2> QED
      BY <1>1, <1>2, <1>4, <2>1, <2>2 DEF DrawnNonces
  <1> QED
    BY <1>6, <1>7, <1>8, <1>9 DEF LInvRows

\* The table takes a game with the nonce and the form of a request, or is asked
\* for one it has.
LEMMA TableTakes ==
  ASSUME OneTab, LInv, NEW r, NEW g \in GameIds, Creates(r, g),
         r \in orphans \/ \E v \in Pages : posts[v].kind = "asked" /\ r = posts[v].request,
         UNCHANGED <<pages, stored, drawn, done>>, orphans' \subseteq orphans
  PROVE  /\ GameRows' /\ DrawnNonces'
         /\ g \in Existing(r)'
         /\ \A h \in GameIds : games[h].status # "none" => games'[h] = games[h]
         /\ r \in Pending /\ r.form \in Forms /\ r.nonce \in drawn
  <1>1. TInv /\ LobbyTypeOK /\ GameRows /\ DrawnNonces /\ PageRows
    BY DEF LInv, TInv
  <1>2. r \in Pending /\ r.form \in Forms /\ r.nonce \in drawn /\ r.nonce # NoNonce
    <2>1. CASE r \in orphans
      BY <1>1, <2>1, LobbyBounds DEF DrawnNonces, LobbyTypeOK
    <2>2. ASSUME NEW v \in Pages, posts[v].kind = "asked", r = posts[v].request
          PROVE  r \in Pending /\ r.form \in Forms /\ r.nonce \in drawn /\ r.nonce # NoNonce
      <3>1. r \in [form: Forms, nonce: Nonces]
        BY <1>1, <2>2 DEF TInv, RealRequests
      <3>2. pages[v].nonce # NoNonce /\ r = Unsettled(v)
        BY <1>1, <2>2 DEF PageRows
      <3>3. r.nonce = pages[v].nonce
        BY <3>2 DEF Unsettled
      <3> QED
        BY <1>1, <3>1, <3>2, <3>3 DEF DrawnNonces, Pending
    <2> QED
      BY <2>1, <2>2
  <1>3. CASE Existing(r) # {} /\ g \in Existing(r) /\ UNCHANGED games
    <2>1. GameRows' /\ DrawnNonces'
      BY <1>1, <1>3 DEF GameRows, DrawnNonces
    <2>2. Existing(r)' = Existing(r)
      BY <1>3 DEF Existing
    <2> QED
      BY <1>2, <1>3, <2>1, <2>2
  <1>4. CASE /\ Existing(r) = {} /\ games[g].status = "none"
             /\ games'[g] = [status |-> "active", recent |-> TRUE,
                             form |-> r.form, nonce |-> r.nonce]
             /\ \A h \in GameIds \ {g} : games'[h] = games[h]
    <2>1. games'[g].status = "active" /\ games'[g].form = r.form /\ games'[g].nonce = r.nonce
      BY <1>4
    <2>2. GameRows'
      BY <1>1, <1>4, <2>1 DEF GameRows
    <2>3. ASSUME NEW v \in Pages, pages[v].nonce # NoNonce, r.nonce = pages[v].nonce
          PROVE  r.form = pages[v].form
      <3>1. CASE r \in orphans
        BY <1>1, <2>3, <3>1 DEF DrawnNonces
      <3>2. CASE \E w \in Pages : posts[w].kind = "asked" /\ r = posts[w].request
        <4>1. r = Unsettled(v)
          BY <1>1, <3>2 DEF PageRows, OneTab
        <4> QED
          BY <4>1 DEF Unsettled
      <3> QED
        BY <3>1, <3>2
    <2>4. DrawnNonces'
      BY <1>1, <1>2, <1>4, <2>1, <2>3, LobbyBounds DEF DrawnNonces
    <2>5. g \in Existing(r)'
      BY <2>1 DEF Existing
    <2> QED
      BY <1>2, <1>4, <2>2, <2>4, <2>5
  <1> QED
    BY <1>1, <1>2, <1>3, <1>4, CreatesChange

\* A game in the table keeps its nonce and its form.
LEMMA GamesKept ==
  ASSUME LInv, Elsewhere
  PROVE  /\ \A g \in GameIds : /\ games'[g].form = games[g].form
                               /\ games'[g].nonce = games[g].nonce
                               /\ games[g].status # "none" => games'[g].status # "none"
                               /\ games[g].nonce # NoNonce => games[g].status # "none"
         /\ GameRows'
         /\ UNCHANGED <<pages, stored, posts, orphans, drawn, done>>
  <1>1. games \in [GameIds -> Game] /\ GameRows
    BY DEF LInv, TInv, LobbyTypeOK
  <1>2. \A g \in GameIds : games[g].nonce # NoNonce => games[g].status # "none"
    BY <1>1 DEF GameRows, NoRow
  <1>3. ASSUME NEW g \in GameIds, StrangerCreates(g)
        PROVE  /\ \A h \in GameIds : /\ games'[h].form = games[h].form
                                     /\ games'[h].nonce = games[h].nonce
                                     /\ games[h].status # "none" => games'[h].status # "none"
               /\ GameRows'
    BY <1>1, <1>3 DEF StrangerCreates, GameRows, Game
  <1>4. ASSUME NEW g \in GameIds, Expires(g)
        PROVE  /\ \A h \in GameIds : /\ games'[h].form = games[h].form
                                     /\ games'[h].nonce = games[h].nonce
                                     /\ games[h].status # "none" => games'[h].status # "none"
               /\ GameRows'
    <2>1. CASE games[g].status = "active" /\ games' = [games EXCEPT ![g].status = "expired"]
      BY <1>1, <2>1 DEF GameRows, Game
    <2>2. CASE games[g].recent /\ games' = [games EXCEPT ![g].recent = FALSE]
      <3>1. games[g].status # "none"
        BY <1>1, <2>2 DEF GameRows, NoRow
      <3> QED
        BY <1>1, <2>2, <3>1 DEF GameRows, Game
    <2> QED
      BY <1>4, <2>1, <2>2 DEF Expires
  <1>5. ASSUME NEW public \in BOOLEAN, NEW haircut \in Haircuts, SaveSettings(public, haircut)
        PROVE  UNCHANGED games
    BY <1>5 DEF SaveSettings
  <1>6. UNCHANGED games => GameRows'
    BY <1>1 DEF GameRows
  <1>7. UNCHANGED <<pages, stored, posts, orphans, drawn, done>>
    BY DEF Elsewhere, SaveSettings, StrangerCreates, Expires
  <1>8. CASE \E g \in GameIds : StrangerCreates(g) \/ Expires(g)
    BY <1>2, <1>3, <1>4, <1>7, <1>8
  <1>9. CASE UNCHANGED games
    BY <1>2, <1>6, <1>7, <1>9
  <1> QED
    BY <1>5, <1>8, <1>9 DEF Elsewhere

LEMMA ElsewhereRows ==
  ASSUME LInv, Elsewhere
  PROVE  LInvRows'
  <1>1. GameRows /\ DrawnNonces /\ PageRows /\ GameAnswers /\ LobbyTypeOK
    BY DEF LInv, TInv
  <1>2. /\ \A g \in GameIds : /\ games'[g].form = games[g].form
                              /\ games'[g].nonce = games[g].nonce
                              /\ games[g].status # "none" => games'[g].status # "none"
        /\ GameRows'
        /\ UNCHANGED <<pages, stored, posts, orphans, drawn, done>>
    BY GamesKept
  <1>3. DrawnNonces'
    BY <1>1, <1>2 DEF DrawnNonces
  <1>4. PageRows'
    BY <1>1, <1>2 DEF PageRows, Unsettled
  <1>5. GameAnswers'
    BY <1>1, <1>2 DEF GameAnswers, Existing
  <1> QED
    BY <1>2, <1>3, <1>4, <1>5 DEF LInvRows

LEMMA ServerRows ==
  ASSUME OneTab, LInv, ServerStep
  PROVE  LInvRows'
  <1>1. GameRows /\ DrawnNonces /\ PageRows /\ GameAnswers /\ LobbyTypeOK
    BY DEF LInv, TInv
  <1>2. \A v, w \in Pages : v = w
    BY DEF OneTab
  \* The answer is a refusal or an error.
  <1>3. ASSUME NEW v \in Pages, posts[v].kind = "asked", NEW kind \in {"refused", "failed"},
               Answer(v, kind, NoGame),
               UNCHANGED <<games, pages, stored, orphans, drawn, done>>
        PROVE  LInvRows'
    <2>1. posts'[v] = [kind |-> kind, request |-> posts[v].request, game |-> NoGame]
      BY <1>1, <1>3, PostChange
    <2>2. posts'[v].kind = kind /\ posts'[v].request = posts[v].request /\ posts'[v].game = NoGame
      BY <2>1
    <2>3. GameRows' /\ DrawnNonces'
      BY <1>1, <1>3 DEF GameRows, DrawnNonces
    <2>4. PageRows'
      BY <1>1, <1>2, <1>3, <2>2 DEF PageRows, Unsettled
    <2>5. GameAnswers'
      BY <1>2, <1>3, <2>2 DEF GameAnswers
    <2> QED
      BY <2>3, <2>4, <2>5 DEF LInvRows
  <1>4. ASSUME NEW v \in Pages, NEW g \in GameIds, posts[v].kind = "asked",
               Creates(posts[v].request, g), Answer(v, "game", g),
               UNCHANGED <<pages, stored, orphans, drawn, done>>
        PROVE  LInvRows'
    <2>1. posts'[v] = [kind |-> "game", request |-> posts[v].request, game |-> g]
      BY <1>1, <1>4, PostChange
    <2>2. posts'[v].kind = "game" /\ posts'[v].request = posts[v].request /\ posts'[v].game = g
      BY <2>1
    <2>3. PICK r \in Pending : r = posts[v].request
      BY <1>1 DEF LobbyTypeOK, Post
    <2>4. GameRows' /\ DrawnNonces' /\ g \in Existing(r)'
      BY <1>4, <2>3, TableTakes
    <2>5. PageRows'
      BY <1>1, <1>2, <1>4, <2>2 DEF PageRows, Unsettled
    <2>6. GameAnswers'
      BY <1>2, <2>2, <2>3, <2>4 DEF GameAnswers
    <2> QED
      BY <2>4, <2>5, <2>6 DEF LInvRows
  <1>5. ASSUME NEW v \in Pages, CreateGame(v) PROVE LInvRows'
    BY <1>3, <1>4, <1>5 DEF CreateGame
  <1>6. ASSUME NEW v \in Pages, Fails(v) PROVE LInvRows'
    BY <1>3, <1>6 DEF Fails
  <1>7. ASSUME NEW r \in orphans, ServeOrphan(r) PROVE LInvRows'
    <2>1. /\ orphans' \subseteq orphans
          /\ UNCHANGED <<setting, pages, stored, posts, drawn, done>>
      BY <1>7 DEF ServeOrphan
    <2>2. /\ GameRows' /\ DrawnNonces'
          /\ \A h \in GameIds : games[h].status # "none" => games'[h] = games[h]
      <3>1. CASE UNCHANGED games
        BY <1>1, <2>1, <3>1 DEF GameRows, DrawnNonces
      <3>2. ASSUME NEW g \in GameIds, Creates(r, g)
            PROVE  /\ GameRows' /\ DrawnNonces'
                   /\ \A h \in GameIds : games[h].status # "none" => games'[h] = games[h]
        BY <2>1, <3>2, TableTakes
      <3> QED
        BY <1>7, <3>1, <3>2 DEF ServeOrphan
    <2>3. PageRows'
      BY <1>1, <2>1 DEF PageRows, Unsettled
    <2>4. GameAnswers'
      BY <1>1, <2>1, <2>2 DEF GameAnswers, Existing
    <2> QED
      BY <2>2, <2>3, <2>4 DEF LInvRows
  <1> QED
    BY <1>5, <1>6, <1>7 DEF ServerStep

LEMMA LobbyStep ==
  ASSUME OneTab, FormKept, LInv, [LobbyNext]_vars
  PROVE  LInv'
  <1>1. TInv'
    BY LobbyTypeStep DEF LInv
  <1>2. ASSUME NEW v \in Pages, PageStep(v) PROVE LInvRows'
    BY <1>2, PageKinds, SamePage, FreshPage, SettledPage, SubmittedPage
  <1>3. ASSUME UNCHANGED vars PROVE LInvRows'
    BY <1>3 DEF vars, LInv, LInvRows, GameRows, DrawnNonces, PageRows, GameAnswers, Existing,
                Unsettled
  <1>4. LInvRows'
    BY <1>2, <1>3, ServerRows, ElsewhereRows DEF LobbyNext
  <1> QED
    BY <1>1, <1>4 DEF LInv, LInvRows

LEMMA LobbyInitInv == LobbyInit => LInv
  <1> SUFFICES ASSUME LobbyInit PROVE LInv
    OBVIOUS
  <1>1. TInv
    BY LobbyTypeInit
  <1>2. GameRows /\ DrawnNonces
    BY LobbyBounds DEF LobbyInit, GameRows, DrawnNonces, NoRow, Opened, NoPending
  <1>3. PageRows /\ GameAnswers
    BY LobbyBounds DEF LobbyInit, PageRows, GameAnswers, NoPost, Opened, NoPending
  <1> QED
    BY <1>1, <1>2, <1>3 DEF LInv

\* A page starts to announce a game when the answer to its request arrives.
LEMMA AnnouncedAsked ==
  ASSUME OneTab, FormKept, LInv, [LobbyNext]_vars,
         NEW v \in Pages, pages'[v].link # NoGame, pages[v].link = NoGame
  PROVE  games[pages'[v].link].form = posts[v].request.form
  <1>1. LobbyTypeOK /\ DrawnNonces /\ PageRows /\ GameAnswers /\ pages \in [Pages -> Page]
    BY DEF LInv, TInv, LobbyTypeOK
  <1>2. PICK w \in Pages : PageStep(w)
    <2>1. UNCHANGED vars => UNCHANGED pages
      BY DEF vars
    <2>2. ServerStep => UNCHANGED pages
      BY DEF ServerStep, CreateGame, Fails, ServeOrphan
    <2>3. Elsewhere => UNCHANGED pages
      BY DEF Elsewhere, SaveSettings, StrangerCreates, Expires
    <2> QED
      BY <2>1, <2>2, <2>3 DEF LobbyNext
  <1>3. PageStep(v)
    BY <1>2 DEF OneTab
  <1>4. AnswerArrives(v)
    <2>1. ASSUME NEW f \in Forms, Edit(v, f) PROVE pages'[v].link = pages[v].link
      BY <1>1, <2>1 DEF Edit, Page
    <2>2. ASSUME NEW n \in Nonces, Submit(v, n) PROVE pages'[v].link = NoGame
      BY <1>1, <2>2, SubmitChange
    <2>3. ASSUME AnswerLost(v) \/ Disconnected(v) PROVE pages'[v].link = pages[v].link
      BY <1>1, <2>3 DEF AnswerLost, Disconnected, Page
    <2>4. ASSUME Reload(v) PROVE pages'[v].link = NoGame
      BY <1>1, <2>4 DEF Reload, Opened
    <2>5. ASSUME SnapshotArrives(v) PROVE pages'[v].link = pages[v].link
      BY <1>1, <2>5 DEF SnapshotArrives, Page
    <2> QED
      BY <1>3, <2>1, <2>2, <2>3, <2>4, <2>5 DEF PageStep
  <1>5. pages'[v].link = posts[v].game
    <2> DEFINE page == [pages[v] EXCEPT !.creating = FALSE, !.link = posts[v].game,
                                        !.nonce = IF Settles(posts[v].kind) THEN NoNonce ELSE @]
    <2>1. page.link = posts[v].game
      BY <1>1 DEF Page
    <2>2. pages' = [pages EXCEPT ![v] = page]
      BY <1>4 DEF AnswerArrives
    <2> HIDE DEF page
    <2> QED
      BY <1>1, <2>1, <2>2
  <1>6. posts[v].game \in GameIds /\ games[posts[v].game].nonce = posts[v].request.nonce
    BY <1>1, <1>5 DEF GameAnswers, Existing
  <1>7. posts[v].kind = "game"
    BY <1>1, <1>5 DEF GameAnswers
  <1>8. pages[v].nonce # NoNonce /\ posts[v].request = Unsettled(v)
    BY <1>1, <1>7 DEF PageRows
  <1>9. posts[v].request.nonce = pages[v].nonce /\ posts[v].request.form = pages[v].form
    BY <1>8 DEF Unsettled
  <1>10. games[posts[v].game].form = pages[v].form
    BY <1>1, <1>6, <1>8, <1>9 DEF DrawnNonces
  <1> QED
    BY <1>5, <1>9, <1>10

\* lobby.js with one page open, and a form that is not changed while its request
\* is not settled: the page announces the game that was asked for, whatever is
\* lost, refused, repeated or served late.
THEOREM AnnouncesWhatWasAsked == OneTab /\ FormKept => (LobbySpec => GameAsAsked)
  <1>1. OneTab /\ FormKept /\ LInv /\ [LobbyNext]_vars => LInv'
    BY LobbyStep
  <1>2. OneTab /\ FormKept /\ LInv /\ [LobbyNext]_vars =>
           [\A v \in Pages : pages'[v].link # NoGame /\ pages[v].link = NoGame
               => games[pages'[v].link].form = posts[v].request.form]_vars
    BY AnnouncedAsked
  <1> SUFFICES ASSUME OneTab, FormKept PROVE LobbySpec => GameAsAsked
    OBVIOUS
  <1> QED
    BY LobbyInitInv, <1>1, <1>2, PTL DEF LobbySpec, GameAsAsked

----------------------------------------------------------------------------
(* One game for a form.                                                     *)

LEMMA CrowdFinite == IsFiniteSet(Crowd) /\ Cardinality(Crowd) \in Nat
  <1>1. IsFiniteSet(GameIds)
    BY FS_Interval, LobbyBounds DEF GameIds
  <1> QED
    BY <1>1, FS_Subset, FS_CardinalityType DEF Crowd

\* The table only takes games: none is removed, expires or ages.
TableGrows ==
    \A g \in GameIds : games[g].status # "none" => games'[g] = games[g]

\* A request refused for what it asks for is refused for ever, if the settings and
\* the table have no time to change.
LEMMA RefusalLasts ==
  ASSUME LInv, TableGrows, UNCHANGED setting, setting.public,
         NEW r, Refuses(r)
  PROVE  Existing(r)' # {} \/ Refuses(r)'
  <1> SUFFICES ASSUME Existing(r)' = {} PROVE Refuses(r)'
    OBVIOUS
  <1>1. GameRows
    BY DEF LInv
  <1>2. Existing(r) = {}
    BY DEF Existing, TableGrows
  <1>3. CASE Fee[r.form] + setting.haircut > MaxTotalHaircut
    BY <1>3 DEF Refuses
  <1>4. CASE Cardinality(Crowd) >= Limit
    <2>1. Crowd \subseteq Crowd'
      BY <1>1 DEF Crowd, TableGrows, GameRows, NoRow
    <2>2. IsFiniteSet(Crowd')
      <3>1. IsFiniteSet(GameIds)
        BY FS_Interval, LobbyBounds DEF GameIds
      <3> QED
        BY <3>1, FS_Subset DEF Crowd
    <2>3. Cardinality(Crowd) <= Cardinality(Crowd') /\ Cardinality(Crowd') \in Nat
      BY <2>1, <2>2, FS_Subset, FS_CardinalityType
    <2>4. Limit \in Nat
      BY LobbyAssumption, Zenon
    <2>5. Cardinality(Crowd') >= Limit
      BY <1>4, <2>3, <2>4, CrowdFinite
    <2> QED
      BY <2>5 DEF Refuses
  <1> QED
    BY <1>2, <1>3, <1>4 DEF Refuses

\* While a page or the server works on a request, the table only grows.
LEMMA BusyTableGrows ==
  ASSUME LInv, [LobbyNext]_vars, ~Quiet \/ ~Elsewhere
  PROVE  TableGrows
  <1>1. LobbyTypeOK /\ games \in [GameIds -> Game] /\ GameRows
    BY DEF LInv, TInv, LobbyTypeOK
  <1>2. UNCHANGED games => TableGrows
    BY DEF TableGrows
  <1>3. ASSUME NEW r \in Pending, NEW g \in GameIds, Creates(r, g) PROVE TableGrows
    BY <1>1, <1>3, CreatesChange DEF TableGrows
  <1>4. CASE ServerStep
    <2>1. ASSUME NEW v \in Pages, CreateGame(v) PROVE TableGrows
      <3>1. posts[v].request \in Pending
        BY <1>1 DEF LobbyTypeOK, Post
      <3> QED
        BY <1>2, <1>3, <2>1, <3>1 DEF CreateGame
    <2>2. ASSUME NEW r \in orphans, ServeOrphan(r) PROVE TableGrows
      <3>1. r \in Pending
        BY <1>1 DEF LobbyTypeOK
      <3> QED
        BY <1>2, <1>3, <2>2, <3>1 DEF ServeOrphan
    <2> QED
      BY <1>2, <1>4, <2>1, <2>2 DEF ServerStep, Fails
  <1>5. CASE Elsewhere
    <2>1. ASSUME NEW g \in GameIds, StrangerCreates(g) PROVE TableGrows
      BY <1>1, <2>1 DEF StrangerCreates, NextGame, TableGrows
    <2>2. ASSUME NEW g \in GameIds PROVE ~Expires(g)
      BY <1>5 DEF Expires
    <2>3. ASSUME NEW public \in BOOLEAN, NEW haircut \in Haircuts, SaveSettings(public, haircut)
          PROVE  UNCHANGED games
      BY <2>3 DEF SaveSettings
    <2> QED
      BY <1>2, <1>5, <2>1, <2>2, <2>3 DEF Elsewhere
  <1>6. ASSUME NEW v \in Pages, PageStep(v) PROVE UNCHANGED games
    BY <1>6 DEF PageStep, Edit, Submit, AnswerArrives, AnswerLost, Reload, SnapshotArrives,
                Disconnected
  <1>7. CASE UNCHANGED vars
    BY <1>2, <1>7 DEF vars
  <1> QED
    BY <1>2, <1>4, <1>5, <1>6, <1>7 DEF LobbyNext

LEMMA SettingKept ==
  ASSUME LInv, [LobbyNext]_vars, orphans # {}
  PROVE  UNCHANGED setting
  <1>1. ASSUME NEW v \in Pages, PageStep(v) PROVE UNCHANGED setting
    BY <1>1 DEF PageStep, Edit, Submit, AnswerArrives, AnswerLost, Reload, SnapshotArrives,
                Disconnected
  <1>2. ServerStep => UNCHANGED setting
    BY DEF ServerStep, CreateGame, Fails, ServeOrphan
  <1>3. Elsewhere => UNCHANGED setting
    BY DEF Elsewhere, SaveSettings, StrangerCreates, Expires
  <1>4. UNCHANGED vars => UNCHANGED setting
    BY DEF vars
  <1> QED
    BY <1>1, <1>2, <1>3, <1>4 DEF LobbyNext

LEMMA StaysPublic ==
  ASSUME RefusedForGood, setting.public, [LobbyNext]_vars
  PROVE  setting'.public
  <1>1. ASSUME NEW public \in BOOLEAN, NEW haircut \in Haircuts, SaveSettings(public, haircut)
        PROVE  setting'.public
    BY <1>1 DEF SaveSettings, RefusedForGood
  <1>2. UNCHANGED setting => setting'.public
    OBVIOUS
  <1>3. ASSUME NEW v \in Pages, PageStep(v) PROVE UNCHANGED setting
    BY <1>3 DEF PageStep, Edit, Submit, AnswerArrives, AnswerLost, Reload, SnapshotArrives,
                Disconnected
  <1>4. ServerStep => UNCHANGED setting
    BY DEF ServerStep, CreateGame, Fails, ServeOrphan
  <1>5. ASSUME NEW g \in GameIds, StrangerCreates(g) \/ Expires(g) PROVE UNCHANGED setting
    BY <1>5 DEF StrangerCreates, Expires
  <1>6. UNCHANGED vars => UNCHANGED setting
    BY DEF vars
  <1> QED
    BY <1>1, <1>2, <1>3, <1>4, <1>5, <1>6 DEF LobbyNext, Elsewhere

\* What a step leaves to a request that is refused, or has its game.
LEMMA BarredKept ==
  ASSUME LInv, [LobbyNext]_vars, setting.public, orphans # {},
         NEW r, Existing(r) # {} \/ Refuses(r)
  PROVE  Existing(r)' # {} \/ Refuses(r)'
  <1>1. TableGrows /\ UNCHANGED setting
    BY BusyTableGrows, SettingKept DEF Quiet
  <1>2. CASE Existing(r) # {}
    BY <1>1, <1>2 DEF Existing, TableGrows
  <1>3. CASE Refuses(r)
    BY <1>1, <1>3, RefusalLasts
  <1> QED
    BY <1>2, <1>3

\* The server makes a game for the request that is not settled, once.
Made(v, g) ==
    /\ pages[v].nonce # NoNonce
    /\ Existing(Unsettled(v)) = {} /\ ~Refuses(Unsettled(v))
    /\ games'[g].form = pages[v].form /\ games'[g].nonce = pages[v].nonce
    /\ \A h \in GameIds \ {g} : games'[h] = games[h]

LEMMA ServerMakes ==
  ASSUME OneTab, LInv, GInv, ServerStep
  PROVE  UNCHANGED games \/ \E v \in Pages, g \in GameIds : Made(v, g)
  <1>1. LobbyTypeOK /\ DrawnNonces /\ PageRows /\ StaleOrphans
    BY DEF LInv, TInv, GInv
  <1>2. ASSUME NEW v \in Pages, NEW r, NEW g \in GameIds, r = Unsettled(v), r \in Pending,
               pages[v].nonce # NoNonce, ~Refuses(r), Creates(r, g)
        PROVE  UNCHANGED games \/ Made(v, g)
    <2>1. CASE UNCHANGED games
      BY <2>1
    <2>2. CASE /\ Existing(r) = {}
               /\ games'[g] = [status |-> "active", recent |-> TRUE,
                               form |-> r.form, nonce |-> r.nonce]
               /\ \A h \in GameIds \ {g} : games'[h] = games[h]
      <3>1. games'[g].form = r.form /\ games'[g].nonce = r.nonce
        BY <2>2
      <3>2. r.form = pages[v].form /\ r.nonce = pages[v].nonce
        BY <1>2 DEF Unsettled
      <3> QED
        BY <1>2, <2>2, <3>1, <3>2 DEF Made
    <2> QED
      BY <1>1, <1>2, <2>1, <2>2, CreatesChange
  <1>3. ASSUME NEW v \in Pages, CreateGame(v)
        PROVE  UNCHANGED games \/ \E g \in GameIds : Made(v, g)
    <2>1. PICK r \in Pending : r = posts[v].request
      BY <1>1 DEF LobbyTypeOK, Post
    <2>2. r = Unsettled(v) /\ pages[v].nonce # NoNonce
      BY <1>1, <1>3, <2>1 DEF CreateGame, PageRows
    <2>3. UNCHANGED games \/ \E g \in GameIds : ~Refuses(r) /\ Creates(r, g)
      BY <1>3, <2>1 DEF CreateGame
    <2> QED
      BY <1>2, <2>2, <2>3
  <1>4. ASSUME NEW r \in orphans, ServeOrphan(r)
        PROVE  UNCHANGED games \/ \E v \in Pages, g \in GameIds : Made(v, g)
    <2>1. CASE UNCHANGED games
      BY <2>1
    <2>2. ASSUME NEW g \in GameIds, ~Refuses(r), Creates(r, g)
          PROVE  UNCHANGED games \/ \E v \in Pages : Made(v, g)
      <3>1. CASE Existing(r) # {}
        BY <2>2, <3>1 DEF Creates
      <3>2. ASSUME NEW v \in Pages, r = Unsettled(v) PROVE UNCHANGED games \/ Made(v, g)
        <4>1. r.nonce = pages[v].nonce /\ r.nonce \in drawn /\ drawn \subseteq Nonces
          BY <1>1, <3>2 DEF Unsettled, DrawnNonces, LobbyTypeOK
        <4>2. pages[v].nonce # NoNonce /\ r \in Pending
          BY <1>1, <4>1, LobbyBounds DEF LobbyTypeOK
        <4> QED
          BY <1>2, <2>2, <3>2, <4>2
      <3> QED
        BY <1>1, <2>2, <3>1, <3>2 DEF StaleOrphans
    <2> QED
      BY <1>4, <2>1, <2>2 DEF ServeOrphan
  <1> QED
    BY <1>3, <1>4 DEF ServerStep, Fails

LEMMA NoSecondGame ==
  ASSUME OneTab, LInv, GInv, NEW v \in Pages, NEW g \in GameIds, Made(v, g),
         UNCHANGED <<pages, done>>
  PROVE  UnsettledGames' /\ OneGamePerForm'
  <1>1. LobbyTypeOK /\ GameRows /\ DrawnNonces /\ PageRows /\ UnsettledGames /\ OneGamePerForm
    BY DEF LInv, TInv, GInv
  <1>2. /\ pages[v].nonce # NoNonce /\ Existing(Unsettled(v)) = {}
        /\ games'[g].form = pages[v].form /\ games'[g].nonce = pages[v].nonce
        /\ \A h \in GameIds \ {g} : games'[h] = games[h]
    BY DEF Made
  <1>3. \A h \in GameIds : games[h].nonce # pages[v].nonce
    BY <1>1, <1>2 DEF Existing, Unsettled, GameRows, NoRow
  <1>4. pages[v].form \in Forms \ done
    BY <1>1, <1>2 DEF PageRows
  <1>5. \A h \in GameIds : games[h].form # pages[v].form
    BY <1>1, <1>3, <1>4, LobbyBounds DEF UnsettledGames, OneTab
  <1>6. UnsettledGames'
    BY <1>1, <1>2 DEF UnsettledGames
  <1>7. OneGamePerForm'
    BY <1>1, <1>2, <1>5 DEF OneGamePerForm
  <1> QED
    BY <1>6, <1>7

LEMMA GamesStep ==
  ASSUME OneTab, FormKept, LInv, GInv, [LobbyNext]_vars
  PROVE  UnsettledGames' /\ OneGamePerForm'
  <1> DEFINE Single == UnsettledGames' /\ OneGamePerForm'
  <1>1. /\ LobbyTypeOK /\ GameRows /\ DrawnNonces /\ PageRows /\ GameAnswers
        /\ UnsettledGames /\ OneGamePerForm /\ RefusedAnswers
    BY DEF LInv, TInv, GInv
  <1>2. \A v, w \in Pages : v = w
    BY DEF OneTab
  <1>3. \A g \in GameIds : games[g].form # NoForm => games[g].nonce \in drawn /\ games[g].nonce # NoNonce
    BY <1>1, LobbyBounds DEF DrawnNonces, LobbyTypeOK
  <1>4. UNCHANGED games => OneGamePerForm'
    BY <1>1 DEF OneGamePerForm
  <1>5. ASSUME NEW v \in Pages, PageSame(v) PROVE Single
    BY <1>1, <1>2, <1>4, <1>5 DEF PageSame, UnsettledGames
  <1>6. ASSUME NEW v \in Pages, PageFresh(v) PROVE Single
    BY <1>1, <1>2, <1>3, <1>4, <1>6 DEF PageFresh, UnsettledGames
  <1>7. ASSUME NEW v \in Pages, NEW n \in Nonces, Submit(v, n) PROVE Single
    <2>1. /\ IF pages[v].nonce # NoNonce THEN n = pages[v].nonce ELSE n \notin drawn
          /\ pages'[v].nonce = n
          /\ UNCHANGED <<games, done>>
      BY <1>1, <1>7, SubmitChange
    <2> QED
      BY <1>1, <1>2, <1>3, <1>4, <2>1 DEF UnsettledGames
  <1>8. ASSUME NEW v \in Pages, PageSettles(v) PROVE Single
    <2>1. /\ posts[v].kind \in {"game", "refused"}
          /\ done' = IF posts[v].kind = "game" THEN done \cup {posts[v].request.form} ELSE done
          /\ UNCHANGED games
      BY <1>1, <1>8, SettlesChange
    <2>2. pages[v].nonce # NoNonce /\ posts[v].request = Unsettled(v)
      BY <1>1, <2>1 DEF PageRows
    <2>3. posts[v].request.form = pages[v].form /\ posts[v].request.nonce = pages[v].nonce
      BY <2>2 DEF Unsettled
    <2>4. ASSUME NEW g \in GameIds, games[g].nonce = pages[v].nonce
          PROVE  games[g].form \in done'
      <3>1. games[g].form = pages[v].form /\ games[g].status # "none"
        BY <1>1, <2>2, <2>4 DEF DrawnNonces, GameRows, NoRow
      <3>2. g \in Existing(posts[v].request)
        BY <2>3, <2>4, <3>1 DEF Existing
      <3>3. posts[v].kind = "game"
        BY <1>1, <2>1, <3>2 DEF RefusedAnswers
      <3> QED
        BY <2>1, <2>3, <3>1, <3>3
    <2>5. done \subseteq done'
      BY <2>1
    <2>6. UnsettledGames'
      BY <1>1, <1>2, <2>1, <2>4, <2>5 DEF UnsettledGames
    <2> QED
      BY <1>4, <2>1, <2>6
  <1>9. CASE ServerStep
    <2>1. UNCHANGED <<pages, done>>
      BY <1>9 DEF ServerStep, CreateGame, Fails, ServeOrphan
    <2>2. CASE UNCHANGED games
      BY <1>1, <1>4, <2>1, <2>2 DEF UnsettledGames
    <2> QED
      BY <1>9, <2>1, <2>2, ServerMakes, NoSecondGame
  <1>10. CASE Elsewhere
    <2>1. /\ \A g \in GameIds : games'[g].form = games[g].form /\ games'[g].nonce = games[g].nonce
          /\ UNCHANGED <<pages, done>>
      BY <1>10, GamesKept
    <2> QED
      BY <1>1, <2>1 DEF UnsettledGames, OneGamePerForm
  <1>11. CASE UNCHANGED vars
    BY <1>1, <1>11 DEF vars, UnsettledGames, OneGamePerForm
  <1> HIDE DEF Single
  <1>12. ASSUME NEW v \in Pages, PageStep(v) PROVE Single
    BY <1>5, <1>6, <1>7, <1>8, <1>12, PageKinds
  <1>13. Single
    BY <1>9, <1>10, <1>11, <1>12 DEF LobbyNext, Single
  <1> QED
    BY <1>13 DEF Single

LEMMA OrphansStep ==
  ASSUME OneTab, FormKept, LInv, GInv, [LobbyNext]_vars
  PROVE  StaleOrphans'
  <1> DEFINE Barred(r) == Existing(r) # {} \/ Refuses(r)
  <1>1. /\ LobbyTypeOK /\ DrawnNonces /\ PageRows /\ GameAnswers
        /\ StaleOrphans /\ RefusedAnswers /\ setting.public
    BY DEF LInv, TInv, GInv
  <1>2. \A v, w \in Pages : v = w
    BY DEF OneTab
  <1>3. ASSUME NEW r \in orphans, Existing(r) # {} \/ Refuses(r)
        PROVE  Existing(r)' # {} \/ Refuses(r)'
    BY <1>1, <1>3, BarredKept
  <1>4. ASSUME NEW r \in orphans, NEW v \in Pages, r = Unsettled(v)
        PROVE  r.nonce = pages[v].nonce /\ r.form = pages[v].form /\ pages[v].nonce # NoNonce
    <2>1. r.nonce = pages[v].nonce /\ r.form = pages[v].form
      BY <1>4 DEF Unsettled
    <2> QED
      BY <1>1, <2>1, LobbyBounds DEF DrawnNonces, LobbyTypeOK
  \* A request that is still the one of the page, or was barred already.
  <1>5. ASSUME orphans' \subseteq orphans,
               \A v \in Pages : pages[v].nonce # NoNonce => Unsettled(v)' = Unsettled(v)
        PROVE  StaleOrphans'
    <2> SUFFICES ASSUME NEW r \in orphans'
                 PROVE  \/ \E v \in Pages : r = Unsettled(v)'
                        \/ Existing(r)' # {} \/ Refuses(r)'
      BY DEF StaleOrphans
    <2>1. r \in orphans
      BY <1>5
    <2> QED
      BY <1>1, <1>3, <1>4, <1>5, <2>1 DEF StaleOrphans
  <1>6. ASSUME NEW v \in Pages, PageSame(v) PROVE StaleOrphans'
    <2>1. Unsettled(v)' = Unsettled(v)
      BY <1>6 DEF PageSame, Unsettled
    <2>2. orphans' \subseteq orphans \/ (posts[v].kind # "none" /\ orphans' = orphans \cup {posts[v].request})
      BY <1>6 DEF PageSame
    <2>3. posts[v].kind # "none" => posts[v].request = Unsettled(v)
      BY <1>1 DEF PageRows
    <2> SUFFICES ASSUME NEW r \in orphans'
                 PROVE  \/ \E w \in Pages : r = Unsettled(w)'
                        \/ Existing(r)' # {} \/ Refuses(r)'
      BY DEF StaleOrphans
    <2>4. CASE r \notin orphans
      BY <2>1, <2>2, <2>3, <2>4
    <2>5. CASE r \in orphans
      BY <1>1, <1>2, <1>3, <2>1, <2>5 DEF StaleOrphans
    <2> QED
      BY <2>4, <2>5
  <1>7. ASSUME NEW v \in Pages, PageFresh(v) PROVE StaleOrphans'
    BY <1>2, <1>5, <1>7 DEF PageFresh
  <1>8. ASSUME NEW v \in Pages, NEW n \in Nonces, Submit(v, n) PROVE StaleOrphans'
    <2>1. /\ pages[v].nonce # NoNonce => n = pages[v].nonce
          /\ pages'[v].form = pages[v].form /\ pages'[v].nonce = n
          /\ orphans' = orphans
      BY <1>1, <1>8, SubmitChange
    <2>2. pages[v].nonce # NoNonce => Unsettled(v)' = Unsettled(v)
      BY <2>1 DEF Unsettled
    <2> QED
      BY <1>2, <1>5, <2>1, <2>2
  <1>9. ASSUME NEW v \in Pages, PageSettles(v) PROVE StaleOrphans'
    <2>1. posts[v].kind \in {"game", "refused"} /\ UNCHANGED orphans
      BY <1>1, <1>9, SettlesChange
    <2>2. posts[v].request = Unsettled(v)
      BY <1>1, <2>1 DEF PageRows
    <2> SUFFICES ASSUME NEW r \in orphans PROVE Existing(r)' # {} \/ Refuses(r)'
      BY <2>1 DEF StaleOrphans
    <2>3. ASSUME r = Unsettled(v) PROVE Existing(r) # {} \/ Refuses(r)
      BY <1>1, <2>1, <2>2, <2>3 DEF GameAnswers, RefusedAnswers
    <2> QED
      BY <1>1, <1>2, <1>3, <2>3 DEF StaleOrphans
  <1>10. CASE ServerStep \/ Elsewhere \/ UNCHANGED vars
    <2>1. orphans' \subseteq orphans /\ UNCHANGED pages
      BY <1>10 DEF ServerStep, CreateGame, Fails, ServeOrphan, Elsewhere, SaveSettings,
                   StrangerCreates, Expires, vars
    <2> QED
      BY <1>5, <2>1 DEF Unsettled
  <1>11. ASSUME NEW v \in Pages, PageStep(v) PROVE StaleOrphans'
    BY <1>6, <1>7, <1>8, <1>9, <1>11, PageKinds
  <1> QED
    BY <1>10, <1>11 DEF LobbyNext

\* The copies of a refused request are refused as well, while any is left.
LEMMA RefusedStep ==
  ASSUME OneTab, FormKept, RefusedForGood, LInv, GInv, [LobbyNext]_vars
  PROVE  RefusedAnswers'
  <1>1. /\ LobbyTypeOK /\ GameRows /\ DrawnNonces /\ PageRows /\ RefusedAnswers /\ setting.public
    BY DEF LInv, TInv, GInv
  <1>2. \A v, w \in Pages : v = w
    BY DEF OneTab
  \* An answer that was a refusal already.
  <1>3. ASSUME NEW v \in Pages, posts[v].kind = "refused", posts'[v] = posts[v],
               orphans' \subseteq orphans, Existing(posts[v].request)' = {}
        PROVE  RefusedAnswers'
    <2>1. PICK r : r = posts[v].request
      OBVIOUS
    <2>2. Existing(r)' = {}
      BY <1>3, <2>1
    <2>3. orphans # {} => Refuses(r)
      BY <1>1, <1>3, <2>1 DEF RefusedAnswers
    <2>4. orphans' # {} => Refuses(r)'
      BY <1>1, <1>3, <2>2, <2>3, BarredKept
    <2> QED
      BY <1>2, <1>3, <2>1, <2>2, <2>4 DEF RefusedAnswers
  <1>4. ASSUME NEW v \in Pages, posts'[v].kind # "refused" PROVE RefusedAnswers'
    BY <1>2, <1>4 DEF RefusedAnswers
  \* Nothing happens to the answer or to the table.
  <1>5. ASSUME NEW v \in Pages, posts'[v] = posts[v], UNCHANGED <<games, orphans>>
        PROVE  RefusedAnswers'
    <2>1. CASE posts[v].kind = "refused"
      <3>1. Existing(posts[v].request)' = {}
        BY <1>1, <1>5, <2>1 DEF RefusedAnswers, Existing
      <3> QED
        BY <1>3, <1>5, <2>1, <3>1
    <2>2. CASE posts[v].kind # "refused"
      BY <1>4, <1>5, <2>2
    <2> QED
      BY <2>1, <2>2
  <1>6. ASSUME NEW v \in Pages, PageStep(v) PROVE RefusedAnswers'
    <2>1. CASE PageSame(v)
      <3>1. (posts'[v] = posts[v] /\ UNCHANGED <<games, orphans>>) \/ posts'[v].kind = "none"
        BY <2>1 DEF PageSame, NoPost
      <3> QED
        BY <1>4, <1>5, <3>1
    <2>2. CASE PageFresh(v)
      BY <1>4, <2>2 DEF PageFresh
    <2>3. ASSUME NEW n \in Nonces, Submit(v, n) PROVE RefusedAnswers'
      BY <1>1, <1>4, <2>3, SubmitChange
    <2>4. CASE PageSettles(v)
      BY <1>1, <1>4, <2>4, SettlesChange
    <2> QED
      BY <1>6, <2>1, <2>2, <2>3, <2>4, PageKinds
  <1>7. ASSUME NEW v \in Pages, CreateGame(v) PROVE RefusedAnswers'
    <2>1. ASSUME Refuses(posts[v].request), Answer(v, "refused", NoGame), UNCHANGED games
          PROVE  RefusedAnswers'
      <3>1. posts'[v] = [kind |-> "refused", request |-> posts[v].request, game |-> NoGame]
        BY <1>1, <2>1, PostChange
      <3>2. posts'[v].request = posts[v].request
        BY <3>1
      <3>3. Existing(posts[v].request) = {}
        BY <1>1, <2>1 DEF Refuses
      <3>4. UNCHANGED <<setting, orphans>>
        BY <1>7 DEF CreateGame
      <3> QED
        BY <1>2, <2>1, <3>2, <3>3, <3>4 DEF RefusedAnswers, Refuses, Existing, Crowd
    <2>2. ASSUME NEW g \in GameIds, Answer(v, "game", g) PROVE RefusedAnswers'
      <3>1. posts'[v] = [kind |-> "game", request |-> posts[v].request, game |-> g]
        BY <1>1, <2>2, PostChange
      <3> QED
        BY <1>4, <3>1
    <2> QED
      BY <1>7, <2>1, <2>2 DEF CreateGame
  <1>8. ASSUME NEW v \in Pages, Fails(v) PROVE RefusedAnswers'
    <2>1. Answer(v, "failed", NoGame)
      BY <1>8 DEF Fails, RefusedForGood
    <2>2. posts'[v] = [kind |-> "failed", request |-> posts[v].request, game |-> NoGame]
      BY <1>1, <2>1, PostChange
    <2> QED
      BY <1>4, <2>2
  <1>9. ASSUME NEW r \in orphans, ServeOrphan(r) PROVE RefusedAnswers'
    <2>1. orphans' \subseteq orphans /\ UNCHANGED posts /\ ServerStep
      BY <1>9 DEF ServeOrphan, ServerStep
    <2>2. ASSUME NEW v \in Pages, posts[v].kind = "refused"
          PROVE  Existing(posts[v].request)' = {}
      <3>1. Existing(posts[v].request) = {} /\ Refuses(posts[v].request)
        BY <1>1, <1>9, <2>2 DEF RefusedAnswers
      <3>2. posts[v].request = Unsettled(v)
        BY <1>1, <2>2 DEF PageRows
      <3>3. \A w \in Pages, g \in GameIds : ~Made(w, g)
        BY <1>2, <3>1, <3>2 DEF Made
      <3>4. UNCHANGED games
        BY <2>1, <3>3, ServerMakes
      <3> QED
        BY <2>1, <3>1, <3>4 DEF Existing
    <2> QED
      BY <1>2, <1>3, <2>1, <2>2 DEF RefusedAnswers
  <1>10. ASSUME Elsewhere, NEW v \in Pages PROVE RefusedAnswers'
    <2>1. UNCHANGED <<posts, orphans>>
      BY <1>10, GamesKept
    <2>2. CASE posts[v].kind # "refused"
      BY <1>4, <2>1, <2>2
    <2>3. CASE posts[v].kind = "refused"
      <3>1. PICK r : r = posts[v].request
        OBVIOUS
      <3>2. Existing(r) = {} /\ r.nonce # NoNonce
        <4>1. pages[v].nonce # NoNonce /\ r = Unsettled(v)
          BY <1>1, <2>3, <3>1 DEF PageRows
        <4>2. r.nonce = pages[v].nonce
          BY <4>1 DEF Unsettled
        <4>3. Existing(r) = {}
          BY <1>1, <2>3, <3>1 DEF RefusedAnswers
        <4> QED
          BY <4>1, <4>2, <4>3
      <3>3. \A g \in GameIds : games'[g].nonce = games[g].nonce
        BY <1>10, GamesKept
      <3>4. \A g \in GameIds : games[g].nonce # r.nonce
        BY <1>1, <3>2 DEF Existing, GameRows, NoRow
      <3>5. Existing(r)' = {}
        BY <3>3, <3>4 DEF Existing
      <3> QED
        BY <1>3, <2>1, <2>3, <3>1, <3>5
    <2> QED
      BY <2>2, <2>3
  <1>11. CASE UNCHANGED vars
    BY <1>1, <1>5, <1>11 DEF vars, RefusedAnswers
  <1>12. CASE Pages = {}
    BY <1>12 DEF RefusedAnswers
  <1>13. CASE ServerStep
    BY <1>7, <1>8, <1>9, <1>13 DEF ServerStep
  <1> QED
    BY <1>6, <1>10, <1>11, <1>12, <1>13 DEF LobbyNext

LEMMA SingleStep ==
  ASSUME OneTab, FormKept, RefusedForGood, LInv, GInv, [LobbyNext]_vars
  PROVE  GInv'
  <1>1. setting'.public
    BY StaysPublic DEF GInv
  <1> QED
    BY <1>1, GamesStep, OrphansStep, RefusedStep DEF GInv

\* README "Creation is idempotent", under the three conditions at the head of this
\* module: whatever is lost, fails, is repeated after a reload or served late, the
\* table never holds two games of one form.
THEOREM FormMakesOneGame ==
  OneTab /\ FormKept /\ RefusedForGood => (LobbySpec => []OneGamePerForm)
  <1>1. LobbyInit => GInv
    <2> SUFFICES ASSUME LobbyInit PROVE GInv
      OBVIOUS
    <2>1. setting.public
      BY DEF LobbyInit
    <2>2. \A g \in GameIds : games[g].form = NoForm
      BY DEF LobbyInit, NoRow
    <2>3. orphans = {} /\ \A v \in Pages : posts[v].kind = "none"
      BY DEF LobbyInit, NoPost
    <2> QED
      BY <2>1, <2>2, <2>3
      DEF GInv, UnsettledGames, StaleOrphans, RefusedAnswers, OneGamePerForm
  <1>2. OneTab /\ FormKept /\ RefusedForGood /\ LInv /\ GInv /\ [LobbyNext]_vars => LInv' /\ GInv'
    BY LobbyStep, SingleStep
  <1>3. GInv => OneGamePerForm
    BY DEF GInv
  <1> SUFFICES ASSUME OneTab, FormKept, RefusedForGood PROVE LobbySpec => []OneGamePerForm
    OBVIOUS
  <1> QED
    BY LobbyInitInv, <1>1, <1>2, <1>3, PTL DEF LobbySpec
=============================================================================
