-------------------------------- MODULE Lobby --------------------------------
(***************************************************************************)
(* Creating a public game: lobby.js in the pages of one visitor's browser  *)
(* and create_game (lobby.py) behind its route (views.py).                 *)
(*                                                                         *)
(* A page makes its request with a nonce, which it keeps with the form in  *)
(* localStorage until the request is answered for certain.  A request      *)
(* whose page has given up on it goes on in the server all the same.       *)
(* create_game holds the row of the owner's settings and is one step.      *)
(*                                                                         *)
(* A form stands for one game the visitor wants, whatever its fields.      *)
(***************************************************************************)
EXTENDS Integers, FiniteSets

CONSTANTS
    Pages,       \* the open lobby pages of one browser
    Forms,       \* the games the visitor wants
    Fee,         \* Fee[f]: the creator fee of form f, in percent
    Nonces,
    NoForm, NoNonce,
    Haircuts,    \* the admin fees the owner may set
    Limit,       \* active or recent public games of an owner (50)
    MaxGames,    \* bound: games ever created
    Faults,      \* what may go wrong
    Acts         \* what the visitor and the owner may do besides

ASSUME LobbyAssumption ==
    /\ Fee \in [Forms -> 0 .. 50]
    /\ NoForm \notin Forms /\ NoNonce \notin Nonces
    /\ Haircuts \subseteq 0 .. 50 /\ Haircuts # {}
    /\ Limit \in Nat \ {0} /\ MaxGames \in Nat
    /\ Faults \subseteq {"answer lost", "server fails", "too many", "reload"}
    /\ Acts \subseteq {"edit", "others", "settings", "disabling", "expiry"}

MaxTotalHaircut == 50
GameIds == 1 .. MaxGames
NoGame  == 0

VARIABLES
    setting,  \* settings_native: public creation and the admin fee
    games,    \* public arenas, in creation order
    pages,    \* the variables of each page
    stored,   \* localStorage: the form whose request is not settled
    posts,    \* the request each page waits for
    orphans,  \* requests no page waits for any more
    drawn,    \* nonces used so far
    done      \* forms whose game the visitor has been given

vars == <<setting, games, pages, stored, posts, orphans, drawn, done>>

Pending == [form: Forms, nonce: Nonces] \cup {[form |-> NoForm, nonce |-> NoNonce]}
NoPending == [form |-> NoForm, nonce |-> NoNonce]

Game == [status: {"none", "active", "expired"},
         recent: BOOLEAN,                     \* created within the last hour
         form: Forms \cup {NoForm},           \* NoForm: a stranger's
         nonce: Nonces \cup {NoNonce}]
NoRow == [status |-> "none", recent |-> FALSE, form |-> NoForm, nonce |-> NoNonce]

Page == [form: Forms \cup {NoForm}, nonce: Nonces \cup {NoNonce},
         creating: BOOLEAN,
         link: GameIds \cup {NoGame},         \* "Your game is ready", or hidden
         can: BOOLEAN,                        \* state.canCreate
         haircut: Haircuts]                   \* state.adminHaircut

\* A request, or the answer on its way to the page.
Post == [kind: {"none", "asked", "game", "refused", "failed"},
         request: Pending, game: GameIds \cup {NoGame}]
NoPost == [kind |-> "none", request |-> NoPending, game |-> NoGame]

LobbyTypeOK ==
    /\ setting \in [public: BOOLEAN, haircut: Haircuts]
    /\ games \in [GameIds -> Game]
    /\ pages \in [Pages -> Page]
    /\ stored \in Pending
    /\ posts \in [Pages -> Post]
    /\ \A v \in Pages : pages[v].creating <=> posts[v].kind # "none"
    /\ orphans \subseteq Pending
    /\ drawn \subseteq Nonces
    /\ done \subseteq Forms

\* What lobby.js starts with: the form of a request that was not settled.
Opened(pending, haircut) ==
    [form |-> pending.form, nonce |-> pending.nonce, creating |-> FALSE,
     link |-> NoGame, can |-> FALSE, haircut |-> haircut]

LobbyInit ==
    /\ setting \in [public: {TRUE}, haircut: Haircuts]
    /\ games = [g \in GameIds |-> NoRow]
    /\ pages = [v \in Pages |-> Opened(NoPending, setting.haircut)]
    /\ stored = NoPending
    /\ posts = [v \in Pages |-> NoPost]
    /\ orphans = {}
    /\ drawn = {}
    /\ done = {}

----------------------------------------------------------------------------
(* create_game.                                                             *)

\* Mutant of Existing: the nonce of a request is not looked up.
NeverExisting(r) == {}

Existing(r) == {g \in GameIds : games[g].status # "none" /\ games[g].nonce = r.nonce}

Crowd == {g \in GameIds : games[g].status = "active" \/ games[g].recent}

NextGame(g) == /\ games[g].status = "none"
               /\ \A h \in GameIds : games[h].status = "none" => g <= h

\* Mutant of Refuses: a full lobby refuses before it looks for the game.
RefusesFirst(r) ==
    \/ ~setting.public
    \/ Cardinality(Crowd) >= Limit
    \/ Existing(r) = {} /\ Fee[r.form] + setting.haircut > MaxTotalHaircut

Refuses(r) ==
    \/ ~setting.public
    \/ /\ Existing(r) = {}
       /\ \/ Fee[r.form] + setting.haircut > MaxTotalHaircut
          \/ Cardinality(Crowd) >= Limit

\* What create_game does and answers for a request r: the effect on games, and
\* the game given.
Creates(r, g) ==
    IF Existing(r) # {} THEN g \in Existing(r) /\ UNCHANGED games
    ELSE /\ NextGame(g)
         /\ games' = [games EXCEPT ![g] = [status |-> "active", recent |-> TRUE,
                                           form |-> r.form, nonce |-> r.nonce]]

Answer(v, kind, g) == posts' = [posts EXCEPT ![v].kind = kind, ![v].game = g]

CreateGame(v) ==
    LET r == posts[v].request
    IN  /\ posts[v].kind = "asked"
        /\ \/ Refuses(r) /\ Answer(v, "refused", NoGame) /\ UNCHANGED games
           \/ ~Refuses(r) /\ \E g \in GameIds : Creates(r, g) /\ Answer(v, "game", g)
        /\ UNCHANGED <<setting, pages, stored, orphans, drawn, done>>

\* 429 after too many requests of one address within a minute, a refusal like any
\* other; 503 when nothing could be committed.
Fails(v) ==
    \E fault \in Faults \cap {"too many", "server fails"} :
        /\ posts[v].kind = "asked"
        /\ Answer(v, IF fault = "too many" THEN "refused" ELSE "failed", NoGame)
        /\ UNCHANGED <<setting, games, pages, stored, orphans, drawn, done>>

\* A request nobody waits for is served, or fails.
ServeOrphan(r) ==
    /\ r \in orphans
    /\ orphans' = orphans \ {r}
    /\ \/ Refuses(r) /\ UNCHANGED games
       \/ ~Refuses(r) /\ \E g \in GameIds : Creates(r, g)
    /\ UNCHANGED <<setting, pages, stored, posts, drawn, done>>

----------------------------------------------------------------------------
(* The page.                                                                *)

\* The visitor fills the form: one page for each game wanted.
Edit(v, f) ==
    /\ pages[v].form \in done \cup {NoForm} \/ "edit" \in Acts
    /\ f \notin done \cup {pages[w].form : w \in Pages}
    /\ pages' = [pages EXCEPT ![v].form = f]
    /\ UNCHANGED <<setting, games, stored, posts, orphans, drawn, done>>

RequestNonce(v, n) ==
    IF pages[v].nonce # NoNonce THEN n = pages[v].nonce ELSE n \in Nonces \ drawn

\* onsubmit; the browser holds back a fee above what the page knows is allowed.
Submit(v, n) ==
    LET page    == pages[v]
        pending == [form |-> page.form, nonce |-> n]
    IN  /\ page.can /\ ~page.creating
        /\ page.form \in Forms \ done
        /\ Fee[page.form] + page.haircut <= MaxTotalHaircut
        /\ RequestNonce(v, n)
        /\ pages' = [pages EXCEPT ![v] = [page EXCEPT !.creating = TRUE, !.nonce = n,
                                                      !.link = NoGame]]
        /\ stored' = pending
        /\ posts' = [posts EXCEPT ![v] = [kind |-> "asked", request |-> pending,
                                          game |-> NoGame]]
        /\ drawn' = drawn \cup {n}
        /\ UNCHANGED <<setting, games, orphans, done>>

\* Mutant of Settles: the nonce of a game that was created is used again.
SettlesRefused(kind) == kind = "refused"

\* Answers below 500 end the request: its nonce and what is stored are cleared.
Settles(kind) == kind \in {"game", "refused"}

AnswerArrives(v) ==
    LET post == posts[v]
        page == pages[v]
    IN  /\ post.kind \in {"game", "refused", "failed"}
        /\ pages' = [pages EXCEPT ![v] =
              [page EXCEPT !.creating = FALSE, !.link = post.game,
                           !.nonce = IF Settles(post.kind) THEN NoNonce ELSE @]]
        /\ stored' = IF Settles(post.kind) THEN NoPending ELSE stored
        /\ done' = IF post.kind = "game" THEN done \cup {post.request.form} ELSE done
        /\ posts' = [posts EXCEPT ![v] = NoPost]
        /\ UNCHANGED <<setting, games, orphans, drawn>>

\* The page no longer waits for the request; the server may still get to it.
Abandon(v) ==
    /\ posts' = [posts EXCEPT ![v] = NoPost]
    /\ orphans' = IF posts[v].kind = "asked" THEN orphans \cup {posts[v].request}
                  ELSE orphans

\* Mutant of AnswerLost: the page does not notice and goes on waiting.
LostForGood(v) ==
    /\ "answer lost" \in Faults
    /\ posts[v].kind # "none"
    /\ Abandon(v)
    /\ UNCHANGED <<setting, games, pages, stored, drawn, done>>

\* The connection fails: fetch throws and the request is kept.
AnswerLost(v) ==
    /\ "answer lost" \in Faults
    /\ posts[v].kind # "none"
    /\ Abandon(v)
    /\ pages' = [pages EXCEPT ![v].creating = FALSE]
    /\ UNCHANGED <<setting, games, stored, drawn, done>>

Reload(v) ==
    /\ "reload" \in Faults
    /\ Abandon(v)
    /\ pages' = [pages EXCEPT ![v] = Opened(stored, setting.haircut)]
    /\ UNCHANGED <<setting, games, stored, drawn, done>>

\* A snapshot, on the websocket or read: what the page knows of the settings.
SnapshotArrives(v) ==
    /\ setting.public
    /\ pages' = [pages EXCEPT ![v].can = TRUE, ![v].haircut = setting.haircut]
    /\ UNCHANGED <<setting, games, stored, posts, orphans, drawn, done>>

\* The socket closes, as it does when the lobby is disabled.
Disconnected(v) ==
    /\ pages[v].can
    /\ "answer lost" \in Faults \/ ~setting.public
    /\ pages' = [pages EXCEPT ![v].can = FALSE]
    /\ UNCHANGED <<setting, games, stored, posts, orphans, drawn, done>>

----------------------------------------------------------------------------
(* The owner, other visitors and time.                                      *)

\* No request outlives its page for as long as the owner takes between two changes.
SaveSettings(public, haircut) ==
    /\ "settings" \in Acts
    /\ public \/ "disabling" \in Acts
    /\ orphans = {}
    /\ setting' = [public |-> public, haircut |-> haircut]
    /\ UNCHANGED <<games, pages, stored, posts, orphans, drawn, done>>

StrangerCreates(g) ==
    /\ "others" \in Acts
    /\ setting.public
    /\ Cardinality(Crowd) < Limit
    /\ NextGame(g)
    /\ games' = [games EXCEPT ![g].status = "active", ![g].recent = TRUE]
    /\ UNCHANGED <<setting, pages, stored, posts, orphans, drawn, done>>

\* Minutes pass: longer than any request takes.
Quiet == orphans = {} /\ \A v \in Pages : posts[v].kind = "none"

\* expire_game after ten idle minutes, and the end of the hour of a game.
Expires(g) ==
    /\ "expiry" \in Acts
    /\ Quiet
    /\ \/ games[g].status = "active" /\ games' = [games EXCEPT ![g].status = "expired"]
       \/ games[g].recent /\ games' = [games EXCEPT ![g].recent = FALSE]
    /\ UNCHANGED <<setting, pages, stored, posts, orphans, drawn, done>>

----------------------------------------------------------------------------
PageStep(v) ==
    \/ \E f \in Forms : Edit(v, f)
    \/ \E n \in Nonces : Submit(v, n)
    \/ AnswerArrives(v)
    \/ AnswerLost(v)
    \/ Reload(v)
    \/ SnapshotArrives(v)
    \/ Disconnected(v)

ServerStep ==
    \/ \E v \in Pages : CreateGame(v) \/ Fails(v)
    \/ \E r \in orphans : ServeOrphan(r)

Elsewhere ==
    \/ \E public \in BOOLEAN, haircut \in Haircuts : SaveSettings(public, haircut)
    \/ \E g \in GameIds : StrangerCreates(g) \/ Expires(g)

LobbyNext == (\E v \in Pages : PageStep(v)) \/ ServerStep \/ Elsewhere

LobbySpec == LobbyInit /\ [][LobbyNext]_vars

(***************************************************************************)
(* The lobby reconnects every five seconds and pushes a snapshot; a        *)
(* request is served or its connection fails; neither the database nor the *)
(* connection fails the same visitor for ever.  The visitor tries again.   *)
(***************************************************************************)
FairLobbySpec ==
    /\ LobbySpec
    /\ \A v \in Pages :
          /\ WF_vars(SnapshotArrives(v))
          /\ SF_vars(\E n \in Nonces : Submit(v, n))
          /\ SF_vars(CreateGame(v))
          /\ WF_vars(AnswerArrives(v))
          /\ SF_vars(posts[v].kind = "game" /\ AnswerArrives(v))
=============================================================================
