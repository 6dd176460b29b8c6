------------------------------ MODULE PlayerPage ------------------------------
(***************************************************************************)
(* The game page: public.js in each open tab, with client.js (HTTP) and    *)
(* transport.js (the websocket), before the sale of entries (EntryDesk)    *)
(* and the ledger.                                                         *)
(*                                                                         *)
(* JavaScript runs one callback at a time, so an action is a callback: a   *)
(* click, an answer, a message, a timer.  What a tab knows comes in three  *)
(* ways that overtake each other: states pushed on the websocket, in       *)
(* order; answers to reads; the answers to its own requests.  All the tabs *)
(* of a browser share its localStorage and so the player session.          *)
(*                                                                         *)
(* The match is reduced to what it does to the ledger: GameServer models   *)
(* it.  The reconciliation is left to EntryDesk: here no event is lost.    *)
(***************************************************************************)
EXTENDS EntryDesk, FiniteSetsExt

CONSTANTS
    Tabs,        \* the open tabs of one browser
    FirstPlayer, \* the session the browser starts with
    InboxDepth,  \* bound: states on the way on one websocket
    PageFaults,  \* what may go wrong with a page
    Acts         \* what the player does besides paying and respawning

ASSUME PageAssumption ==
    /\ Tabs = Requests
    /\ FirstPlayer \in Players
    /\ InboxDepth \in Nat \ {0}
    /\ PageFaults \subseteq {"socket drops", "read lost", "answer lost", "leave fails",
                             "admission fails", "engine fails", "reload"}
    /\ Acts \subseteq {"play", "leave", "join again"}

VARIABLES
    tabs,    \* the variable `arena' of public.js and what the page shows
    stored,  \* localStorage: the session and the nonce of the invoice request
    drawn,   \* nonces and sessions are random: these have been used
    socket,  \* the websocket of each tab: none, connecting or open
    inbox,   \* states and errors on their way to each tab
    admits,  \* tabs whose admit message is on its way to the server
    reads,   \* getPublicGame: none, asked, or the answer on its way
    leaves   \* leaveGame: none, asked, begun, or the answer on its way

pageVars == <<tabs, stored, drawn, socket, inbox, admits, reads, leaves>>
allVars  == <<vars, deskVars, pageVars>>

\* response.player of public_state, or its absence.
View == [status: {"none", "alive", "dead", "leaving", "left"}, lives: Nat, auto: BOOLEAN,
         life: LifeIds \cup {NoId}]
NoView == [status |-> "none", lives |-> 0, auto |-> FALSE, life |-> NoId]

\* What public_state tells a browser.
State == [leave: {"none", "leaving", "left"},
          closed: BOOLEAN,
          nonce: Nonces \cup {NoNonce},          \* entryNonce
          player: View,
          invoice: Entries \cup {NoEntry},       \* its live invoice
          expired: BOOLEAN]                      \* invoiceExpired

\* A page whose first read fails is unavailable; one that gets no engine is parked.
Phases == {"opening", "unavailable", "loading", "starting", "ready", "parked"}

Tab == [phase: Phases,
        session: Players,
        nonce: Nonces \cup {NoNonce},            \* arena.invoiceNonce
        player: View,                            \* arena.player
        closed: BOOLEAN,                         \* arena.game.status
        joining: BOOLEAN, admitting: BOOLEAN,
        leaving: BOOLEAN, left: BOOLEAN, leaveBusy: BOOLEAN,
        seat: LifeIds \cup {NoId},               \* arena.enginePlayerId
        overlay: BOOLEAN, form: BOOLEAN, resume: BOOLEAN,   \* visible?
        dialog: BOOLEAN,                         \* "Leave with sats?" is open
        shown: Entries \cup {NoEntry}]           \* the invoice on the page

\* Something on its way: a state, or only the fact that there is something.
NoState == [leave |-> "none", closed |-> FALSE, nonce |-> NoNonce, player |-> NoView,
            invoice |-> NoEntry, expired |-> FALSE]
Mail(kind) == [kind |-> kind, state |-> NoState]
Told(s)    == [kind |-> "state", state |-> s]
MailOf(kinds) == [kind: kinds, state: State]

PageTypeOK ==
    /\ DeskTypeOK
    /\ tabs \in [Tabs -> Tab]
    /\ stored \in [session: Players, nonce: Nonces \cup {NoNonce}]
    /\ drawn \subseteq Nonces \cup Players
    /\ socket \in [Tabs -> {"none", "connecting", "open"}]
    /\ inbox \in [Tabs -> Seq(MailOf({"state", "error"}))]
    /\ admits \subseteq Tabs
    /\ reads \in [Tabs -> MailOf({"none", "asked", "state"})]
    /\ leaves \in [Tabs -> MailOf({"none", "asked", "begun", "state"})]

\* A page that has just been opened with what localStorage holds.
Opened(session, nonce) ==
    [phase |-> "opening", session |-> session, nonce |-> nonce, player |-> NoView,
     closed |-> FALSE, joining |-> FALSE, admitting |-> FALSE, leaving |-> FALSE,
     left |-> FALSE, leaveBusy |-> FALSE, seat |-> NoId, overlay |-> TRUE,
     form |-> TRUE, resume |-> FALSE, dialog |-> FALSE, shown |-> NoEntry]

PageInit ==
    /\ DeskInit
    /\ tabs = [t \in Tabs |-> Opened(FirstPlayer, NoNonce)]
    /\ stored = [session |-> FirstPlayer, nonce |-> NoNonce]
    /\ drawn = {FirstPlayer}
    /\ socket = [t \in Tabs |-> "none"]
    /\ inbox = [t \in Tabs |-> <<>>]
    /\ admits = {}
    /\ reads = [t \in Tabs |-> Mail("asked")]
    /\ leaves = [t \in Tabs |-> Mail("none")]

----------------------------------------------------------------------------
(* public_state: what the server tells the session p.                       *)

\* The paid entry with lives, else the newest one.
ChosenEntry(p) ==
    LET funded == {e \in EntriesOf(p) : Funded(e)}
    IN  Max(IF funded # {} THEN funded ELSE EntriesOf(p))

Balance(p) == MapThenSumSet(LAMBDA e : entries[e].remaining, EntriesOf(p))

LivesOf(p) == {l \in LifeIds : lives[l].player = p}

\* A seated life has been renewed within 30 seconds (connected_until) as long as
\* its match runs, which is all the match that is modelled here.
ViewOf(p) ==
    LET life == IF LivesOf(p) = {} THEN NoId ELSE Max(LivesOf(p))
        was  == IF life = NoId THEN "none" ELSE lives[life].status
    IN  [status |-> IF participants[p] \in {"leaving", "left"} THEN participants[p]
                    ELSE IF was \in {"alive", "dead"} THEN was
                    ELSE IF Balance(p) = 0 THEN "dead" ELSE "left",
         lives  |-> Balance(p),
         auto   |-> /\ arena.active
                    /\ participants[p] = "playing"
                    /\ Balance(p) > 0
                    /\ life = NoId \/ lives[life].entry # ChosenEntry(p),
         life   |-> IF was = "alive" THEN life ELSE NoId]

StateOf(p) ==
    LET known == EntriesOf(p) # {}
        e     == ChosenEntry(p)
        paid  == known /\ entries[e].status = "paid"
    IN  [leave   |-> IF participants[p] \in {"leaving", "left"} THEN participants[p]
                     ELSE "none",
         closed  |-> ~arena.active,
         nonce   |-> IF known THEN nonces[e] ELSE NoNonce,
         player  |-> IF paid THEN ViewOf(p) ELSE NoView,
         invoice |-> IF known /\ Live(e) /\ entries[e].status = "pending" /\ arena.active
                     THEN e ELSE NoEntry,
         expired |-> known /\ ~paid /\ ~Live(e)]

----------------------------------------------------------------------------
(* applyState, as a function of the tab and the response.                   *)

\* Mutant of CanRespawn: a player who holds lives and has not played yet must pay.
CanRespawnOnce(tab) == tab.player.status = "dead" /\ tab.player.lives > 0

CanRespawn(tab) == tab.player.status \in {"dead", "left"} /\ tab.player.lives > 0

\* showEntry: the form, or only the overlay when the arena is closed.
ShowEntry(tab) == [tab EXCEPT !.overlay = TRUE, !.form = ~tab.closed,
                              !.shown = NoEntry, !.resume = FALSE]

\* Mutant of ShowInvoice: whatever has happened since, the invoice is shown.
ShowAlways(tab, e) == [tab EXCEPT !.nonce = nonces[e], !.form = FALSE, !.shown = e]

\* showInvoice: not to a session that is leaving, has left or has lives.
ShowInvoice(tab, e) ==
    IF tab.leaving \/ tab.left THEN tab
    ELSE IF tab.closed THEN ShowEntry(tab)
    ELSE IF tab.player.lives > 0 \/ tab.player.status = "alive" THEN tab
    ELSE [tab EXCEPT !.nonce = nonces[e], !.form = FALSE, !.shown = e]

\* Mutant of Retire: whatever the tab asks for is taken for settled.
RetireAny(tab, nonce) == [tab EXCEPT !.nonce = NoNonce]

\* retireInvoiceNonce: only the request the server spoke of.
Retire(tab, nonce) == IF tab.nonce = nonce THEN [tab EXCEPT !.nonce = NoNonce] ELSE tab

\* The engine of the tab is told to connect to the seat of a life.
SyncMatch(tab) ==
    IF tab.phase = "ready" /\ tab.player.life # tab.seat
    THEN [tab EXCEPT !.seat = tab.player.life, !.form = FALSE, !.shown = NoEntry,
                     !.resume = FALSE]
    ELSE tab

\* Nothing but the refund is left to show.
Departing(tab, s) ==
    [tab EXCEPT !.leaving = TRUE, !.left = (s.leave = "left"), !.admitting = FALSE,
                !.overlay = TRUE, !.form = FALSE, !.shown = NoEntry, !.resume = FALSE,
                !.seat = IF s.leave = "left" THEN NoId ELSE @]

\* An entry paid for is entered with at once, unless that was asked already.
AdmitsNow(tab, s) ==
    /\ s.player.status # "alive"
    /\ s.player.auto
    /\ tab.phase = "ready"
    /\ ~tab.admitting

\* Mutant of Known: the form is shown only to those who have not just played.
KnownBefore(tab, was) ==
    IF was = "alive" \/ (tab.joining /\ ~CanRespawn(tab)) THEN [tab EXCEPT !.seat = NoId]
    ELSE ShowEntry(tab)

\* The player is known and not playing: the form, unless a request is under way.
Known(tab, was) ==
    LET gone == IF was = "alive" THEN [tab EXCEPT !.seat = NoId] ELSE tab
    IN  IF tab.joining /\ ~CanRespawn(tab) THEN gone ELSE ShowEntry(gone)

\* Mutant of About: a page with a request of its own waits for nothing else.
AboutNew(tab, s) == tab.nonce = NoNonce

\* Is a response about the request this tab has made?
About(tab, s) == tab.nonce = NoNonce \/ s.nonce = tab.nonce

\* An open arena and a session that is not leaving.
Staying(tab, s) ==
    LET paid == IF s.player # NoView THEN Retire(tab, s.nonce) ELSE tab
        new  == [paid EXCEPT !.player = s.player]
    IN  IF s.player.status = "alive"
        THEN [SyncMatch([new EXCEPT !.form = FALSE, !.shown = NoEntry])
                 EXCEPT !.admitting = FALSE]
        ELSE IF AdmitsNow(tab, s) THEN [new EXCEPT !.admitting = TRUE]
        ELSE IF s.player # NoView THEN Known(new, tab.player.status)
        ELSE IF s.invoice # NoEntry
             THEN IF ~tab.joining \/ About(tab, s) THEN ShowInvoice(new, s.invoice) ELSE new
        ELSE IF s.expired /\ ~tab.joining /\ About(tab, s)
             THEN Retire(ShowEntry(new), s.nonce)
        ELSE new

\* Mutant of Ignored: a tab that has left listens to every response.
Listens(tab, s) == FALSE

\* A response from before the end of the leave.
Ignored(tab, s) == tab.left /\ s.leave # "left"

ApplyState(tab, s) ==
    LET new == [tab EXCEPT !.player = s.player, !.closed = s.closed]
    IN  IF Ignored(tab, s) THEN tab
        ELSE IF s.leave # "none" \/ tab.leaving THEN Departing(new, s)
        ELSE IF s.closed THEN ShowEntry([new EXCEPT !.seat = NoId, !.admitting = FALSE])
        ELSE Staying([tab EXCEPT !.closed = FALSE], s)

\* The page reloads itself when the arena closes under an open connection.
Reloads(tab, s) ==
    /\ ~Ignored(tab, s)
    /\ s.leave = "none" /\ ~tab.leaving
    /\ s.closed
    /\ tab.phase # "opening"

----------------------------------------------------------------------------
(* Callbacks that apply a response.                                         *)

\* What a change of the nonce in memory writes to localStorage.
Stores(t, tab) == stored' = [stored EXCEPT !.nonce =
                                IF tab.nonce # tabs[t].nonce THEN tab.nonce ELSE @]

\* The tab starts over from what is stored; what was under way is forgotten.
Reopen(t, store) ==
    /\ tabs' = [tabs EXCEPT ![t] = Opened(store.session, store.nonce)]
    /\ stored' = store
    /\ socket' = [socket EXCEPT ![t] = "none"]
    /\ inbox' = [inbox EXCEPT ![t] = <<>>]
    /\ admits' = admits \ {t}
    /\ reads' = [reads EXCEPT ![t] = Mail("asked")]
    /\ leaves' = [leaves EXCEPT ![t] = Mail("none")]
    /\ UNCHANGED drawn

\* `tab' is the tab with the response at hand already taken from it.
Apply(t, tab, s) ==
    LET new == ApplyState(tab, s)
    IN  /\ tabs' = [tabs EXCEPT ![t] = new]
        /\ Stores(t, new)
        /\ admits' = IF ~Ignored(tab, s) /\ s.leave = "none" /\ ~tab.leaving /\ ~s.closed
                        /\ AdmitsNow(tab, s) /\ socket[t] = "open"
                     THEN admits \cup {t} ELSE admits
        /\ UNCHANGED drawn

\* A state pushed on the websocket.
StateArrives(t) ==
    /\ inbox[t] # <<>>
    /\ Head(inbox[t]).kind = "state"
    /\ IF Reloads(tabs[t], Head(inbox[t]).state) THEN Reopen(t, stored)
       ELSE /\ Apply(t, tabs[t], Head(inbox[t]).state)
            /\ inbox' = [inbox EXCEPT ![t] = Tail(@)]
            /\ UNCHANGED <<socket, reads, leaves>>
    /\ UNCHANGED <<vars, deskVars>>

\* The page's onError: an admission refused, or the connection lost.
Failed(tab) == IF tab.phase = "parked" THEN tab
               ELSE [tab EXCEPT !.admitting = FALSE, !.overlay = TRUE]

ErrorArrives(t) ==
    /\ inbox[t] # <<>>
    /\ Head(inbox[t]).kind = "error"
    /\ tabs' = [tabs EXCEPT ![t] = Failed(@)]
    /\ inbox' = [inbox EXCEPT ![t] = Tail(@)]
    /\ UNCHANGED <<vars, deskVars, stored, drawn, socket, admits, reads, leaves>>

\* Where init goes on once the first state is applied.
AfterOpening(tab) ==
    [tab EXCEPT !.phase = IF tab.leaving \/ tab.left \/ tab.closed THEN "parked"
                          ELSE "loading"]

\* The end of confirmLeave when its read came after a failed request.
LeaveOver(tab) == [tab EXCEPT !.leaveBusy = FALSE]

ReadArrives(t) ==
    LET s     == reads[t].state
        tab   == IF leaves[t].kind = "none" THEN LeaveOver(tabs[t]) ELSE tabs[t]
        first == tabs[t].phase = "opening"
    IN  /\ reads[t].kind = "state"
        /\ IF Reloads(tab, s) THEN Reopen(t, stored)
           ELSE /\ reads' = [reads EXCEPT ![t] = Mail("none")]
                /\ UNCHANGED <<inbox, leaves>>
                /\ IF first
                   THEN LET new == AfterOpening(ApplyState(tab, s))
                        IN  /\ tabs' = [tabs EXCEPT ![t] = new]
                            /\ Stores(t, new)
                            /\ socket' = [socket EXCEPT ![t] =
                                  IF new.closed /\ ~new.leaving THEN "none" ELSE "connecting"]
                            /\ UNCHANGED <<admits, drawn>>
                   ELSE Apply(t, tab, s) /\ UNCHANGED socket
        /\ UNCHANGED <<vars, deskVars>>

\* The answer of leaveGame.
LeaveArrives(t) ==
    /\ leaves[t].kind = "state"
    /\ Apply(t, LeaveOver(tabs[t]), leaves[t].state)
    /\ leaves' = [leaves EXCEPT ![t] = Mail("none")]
    /\ UNCHANGED <<vars, deskVars, socket, inbox, reads>>

----------------------------------------------------------------------------
(* Opening the page, the engine and the websocket.                          *)

Connected(t) == socket[t] = "open"

\* The page goes no further: its player can leave or reload, not join.
Parks(t) ==
    /\ tabs' = [tabs EXCEPT ![t].phase = "parked"]
    /\ UNCHANGED reads

\* init when the assets are there.
AssetsLoad(t) ==
    LET tab   == tabs[t]
        stops == tab.closed \/ tab.leaving \/ tab.left
    IN  /\ tab.phase = "loading"
        /\ \/ /\ ~stops
              /\ tabs' = [tabs EXCEPT ![t].phase = "starting"]
              /\ UNCHANGED reads
           \/ stops /\ Parks(t)
           \/ "engine fails" \in PageFaults /\ Parks(t)
        /\ UNCHANGED <<vars, deskVars, stored, drawn, socket, inbox, admits, leaves>>

\* init when the engine runs: the state is read again, and the match is joined with
\* what it says.  (Without an engine init throws; one that stops later, 152-158, is
\* not modelled.)
EngineStarts(t) ==
    /\ tabs[t].phase = "starting"
    /\ \/ /\ tabs' = [tabs EXCEPT ![t].phase = "ready"]
          /\ reads' = [reads EXCEPT ![t] = Mail("asked")]
       \/ "engine fails" \in PageFaults /\ Parks(t)
    /\ UNCHANGED <<vars, deskVars, stored, drawn, socket, inbox, admits, leaves>>

\* arenaReady: the engine has entered the match with the life of its seat.
EngineEnters(t) ==
    /\ tabs[t].phase = "ready"
    /\ tabs[t].seat # NoId
    /\ tabs[t].player.status = "alive"
    /\ ~tabs[t].closed
    /\ ~tabs[t].resume
    /\ tabs' = [tabs EXCEPT ![t].resume = TRUE]
    /\ UNCHANGED <<vars, deskVars, stored, drawn, socket, inbox, admits, reads, leaves>>

SocketOpens(t) ==
    /\ socket[t] = "connecting"
    /\ socket' = [socket EXCEPT ![t] = "open"]
    /\ UNCHANGED <<vars, deskVars, tabs, stored, drawn, inbox, admits, reads, leaves>>

\* The page connects again two or three seconds later.
SocketDrops(t) ==
    /\ "socket drops" \in PageFaults
    /\ Connected(t)
    /\ socket' = [socket EXCEPT ![t] = "connecting"]
    /\ inbox' = [inbox EXCEPT ![t] = <<>>]
    /\ admits' = admits \ {t}
    /\ tabs' = [tabs EXCEPT ![t] = Failed(@)]
    /\ UNCHANGED <<vars, deskVars, stored, drawn, reads, leaves>>

Reload(t) ==
    /\ "reload" \in PageFaults
    /\ Reopen(t, stored)
    /\ UNCHANGED <<vars, deskVars>>

----------------------------------------------------------------------------
(* The server's side of the page.                                           *)

\* Connection.states: after every change, on request and every 15 seconds.  How soon
\* the state gets through is left open.
PushState(t) ==
    /\ Connected(t)
    /\ Len(inbox[t]) < InboxDepth
    /\ inbox' = [inbox EXCEPT ![t] = Append(@, Told(StateOf(tabs[t].session)))]
    /\ UNCHANGED <<vars, deskVars, tabs, stored, drawn, socket, admits, reads, leaves>>

ServeRead(t) ==
    /\ reads[t].kind = "asked"
    /\ reads' = [reads EXCEPT ![t] = Told(StateOf(tabs[t].session))]
    /\ UNCHANGED <<vars, deskVars, tabs, stored, drawn, socket, inbox, admits, leaves>>

\* A page whose first read fails stays without a connection until it is reloaded.
ReadFails(t) ==
    LET tab == IF leaves[t].kind = "none" THEN LeaveOver(tabs[t]) ELSE tabs[t]
    IN  /\ "read lost" \in PageFaults
        /\ reads[t].kind # "none"
        /\ reads' = [reads EXCEPT ![t] = Mail("none")]
        /\ tabs' = [tabs EXCEPT ![t] = [tab EXCEPT
                       !.phase = IF @ = "opening" THEN "unavailable" ELSE @]]
        /\ UNCHANGED <<vars, deskVars, stored, drawn, socket, inbox, admits, leaves>>

Seated(p) == \E l \in UsableOf(p) : lives[l].status = "alive" /\ lives[l].run = 1

\* attach: the life of the connection, or a new one of the oldest funded entry.
Attached(p) ==
    \/ Seated(p) /\ UNCHANGED vars
    \/ ~Seated(p) /\ \E l \in LifeIds, s \in Slots : ResumeLife(p, 1, l, s) \/ NewLife(p, 1, l, s)

\* The life is held by another connection of the session, there is none to be had or
\* the arena is full; or no match can be had (capacity, an engine that does not
\* start, ten admissions in ten seconds).
NotAttached(p) ==
    /\ \/ Seated(p) \/ ~Admissible(p, 1) \/ Cardinality(AliveLives) >= MaxPlayers
       \/ "admission fails" \in PageFaults
    /\ UNCHANGED vars

ServeAdmit(t) ==
    LET p == tabs[t].session
    IN  /\ t \in admits
        /\ admits' = admits \ {t}
        /\ \/ Attached(p) /\ UNCHANGED inbox
           \/ /\ NotAttached(p)
              /\ Len(inbox[t]) < InboxDepth
              /\ inbox' = [inbox EXCEPT ![t] = Append(@, Mail("error"))]
        /\ UNCHANGED <<deskVars, tabs, stored, drawn, socket, reads, leaves>>

\* request_leave; a session that is leaving or has left is only asked again.  (It is
\* refused without a paid entry, and the dialog opens to those who have had one.)
ServeLeave(t) ==
    LET p == tabs[t].session
    IN  /\ leaves[t].kind = "asked"
        /\ \/ /\ RequestLeave(p)
              /\ leaves' = [leaves EXCEPT ![t] = Mail("begun")]
           \/ /\ participants[p] \in {"leaving", "left"}
              /\ leaves' = [leaves EXCEPT ![t] = Mail("begun")]
              /\ UNCHANGED vars
        /\ UNCHANGED <<deskVars, tabs, stored, drawn, socket, inbox, admits, reads>>

\* finish_leave succeeded and the state is read.
AnswerLeave(t) ==
    /\ leaves[t].kind = "begun"
    /\ participants[tabs[t].session] = "left"
    /\ leaves' = [leaves EXCEPT ![t] = Told(StateOf(tabs[t].session))]
    /\ UNCHANGED <<vars, deskVars, tabs, stored, drawn, socket, inbox, admits, reads>>

----------------------------------------------------------------------------
(* Clicks.                                                                  *)

\* The overlay's buttons; the dialog is modal.
Clickable(tab) == tab.overlay /\ ~tab.dialog

\* What join checks, and that its button can be seen.
MayJoin(tab) ==
    /\ tab.phase = "ready"
    /\ Clickable(tab) /\ tab.form
    /\ ~tab.joining /\ ~tab.leaving /\ ~tab.left /\ ~tab.closed

\* join with lives left: nothing is sent while the socket is not open.
JoinRespawn(t) ==
    /\ MayJoin(tabs[t])
    /\ CanRespawn(tabs[t])
    /\ Connected(t)
    /\ admits' = admits \cup {t}
    /\ UNCHANGED <<vars, deskVars, tabs, stored, drawn, socket, inbox, reads, leaves>>

\* A request not known to be settled is made again, with the same nonce.
RequestNonce(t, n) ==
    IF tabs[t].nonce # NoNonce THEN n = tabs[t].nonce ELSE n \in Nonces \ drawn

JoinPay(t, n) ==
    /\ MayJoin(tabs[t])
    /\ ~CanRespawn(tabs[t])
    /\ RequestNonce(t, n)
    /\ Step(t, [NoRequest EXCEPT !.pc = "reserve", !.player = tabs[t].session,
                                 !.nonce = n])
    /\ At(t, "idle")
    /\ tabs' = [tabs EXCEPT ![t].joining = TRUE, ![t].nonce = n]
    /\ stored' = [stored EXCEPT !.nonce = IF tabs[t].nonce = NoNonce THEN n ELSE @]
    /\ drawn' = drawn \cup {n}
    /\ UNCHANGED <<vars, nonces, hashes, wallet, events, recovery, crashes>>
    /\ UNCHANGED <<socket, inbox, admits, reads, leaves>>

\* The end of join without an invoice: its player sees why.
NotJoined(tab) ==
    [tab EXCEPT !.joining = FALSE,
                !.overlay = @ \/ /\ tab.shown = NoEntry
                                 /\ tab.player.lives = 0 /\ tab.player.status # "alive"]

\* createEntry answers; a page without a socket reads the state itself.
JoinAnswered(t) ==
    LET i   == requests[t].invoice
        new == IF i = NoId THEN NotJoined(tabs[t])
               ELSE [ShowInvoice(tabs[t], wallet[i].entry) EXCEPT !.joining = FALSE]
    IN  /\ tabs[t].joining
        /\ Answered(t)
        /\ tabs' = [tabs EXCEPT ![t] = new]
        /\ Stores(t, new)
        /\ reads' = IF i # NoId /\ ~Connected(t) THEN [reads EXCEPT ![t] = Mail("asked")] ELSE reads
        /\ UNCHANGED <<drawn, socket, inbox, admits, leaves>>

\* The request is aborted after 30 seconds; the server goes on with it.
JoinAborts(t) ==
    /\ "answer lost" \in PageFaults
    /\ tabs[t].joining
    /\ tabs' = [tabs EXCEPT ![t] = NotJoined(@)]
    /\ UNCHANGED <<vars, deskVars, stored, drawn, socket, inbox, admits, reads, leaves>>

AnswerUnheard(t) ==
    /\ ~tabs[t].joining
    /\ Answered(t)
    /\ UNCHANGED pageVars

\* Enter arena and Escape: the overlay hides while a life is played.
EnterArena(t) ==
    LET tab == tabs[t]
    IN  /\ Clickable(tab) /\ tab.resume
        /\ tab.player.status = "alive" /\ ~tab.leaving /\ ~tab.left
        /\ tabs' = [tabs EXCEPT ![t].overlay = FALSE]
        /\ UNCHANGED <<vars, deskVars, stored, drawn, socket, inbox, admits, reads, leaves>>

Escape(t) ==
    /\ ~tabs[t].overlay
    /\ tabs[t].player.status = "alive"
    /\ tabs' = [tabs EXCEPT ![t].overlay = TRUE]
    /\ UNCHANGED <<vars, deskVars, stored, drawn, socket, inbox, admits, reads, leaves>>

\* Leave with sats: the button shows to those with lives, who are asked once more.
ShowLeave(t) ==
    LET tab == tabs[t]
    IN  /\ Clickable(tab)
        /\ tab.player.lives > 0
        /\ ~tab.leaving /\ ~tab.leaveBusy
        /\ tabs' = [tabs EXCEPT ![t].dialog = TRUE]
        /\ UNCHANGED <<vars, deskVars, stored, drawn, socket, inbox, admits, reads, leaves>>

KeepPlaying(t) ==
    /\ tabs[t].dialog
    /\ tabs' = [tabs EXCEPT ![t].dialog = FALSE]
    /\ UNCHANGED <<vars, deskVars, stored, drawn, socket, inbox, admits, reads, leaves>>

\* Confirmed in the dialog, whatever became of the lives since it was opened; or the
\* check of a leave under way.
ConfirmLeave(t) ==
    LET tab == tabs[t]
    IN  /\ tab.dialog \/ (Clickable(tab) /\ tab.leaving)
        /\ ~tab.leaveBusy /\ ~tab.left
        /\ tabs' = [tabs EXCEPT ![t] = [tab EXCEPT !.dialog = FALSE, !.leaveBusy = TRUE,
                          !.leaving = TRUE, !.admitting = FALSE, !.resume = FALSE]]
        /\ leaves' = [leaves EXCEPT ![t] = Mail("asked")]
        /\ UNCHANGED <<vars, deskVars, stored, drawn, socket, inbox, admits, reads>>

\* An error or no answer in time: the page asks for the state instead.
LeaveFails(t) ==
    /\ "leave fails" \in PageFaults
    /\ leaves[t].kind # "none"
    /\ leaves' = [leaves EXCEPT ![t] = Mail("none")]
    /\ reads' = [reads EXCEPT ![t] = Mail("asked")]
    /\ UNCHANGED <<vars, deskVars, tabs, stored, drawn, socket, inbox, admits>>

\* A fresh session is stored and the page reloads.
JoinAgain(t, p) ==
    /\ tabs[t].left /\ Clickable(tabs[t])
    /\ p \in Players \ drawn
    /\ tabs' = [tabs EXCEPT ![t] = Opened(p, NoNonce)]
    /\ stored' = [session |-> p, nonce |-> NoNonce]
    /\ drawn' = drawn \cup {p}
    /\ socket' = [socket EXCEPT ![t] = "none"]
    /\ inbox' = [inbox EXCEPT ![t] = <<>>]
    /\ reads' = [reads EXCEPT ![t] = Mail("asked")]
    /\ leaves' = [leaves EXCEPT ![t] = Mail("none")]
    /\ admits' = admits \ {t}
    /\ UNCHANGED <<vars, deskVars>>

----------------------------------------------------------------------------
Clicks(t) ==
    \/ JoinRespawn(t)
    \/ \E n \in Nonces : JoinPay(t, n)
    \/ "play" \in Acts /\ (EnterArena(t) \/ Escape(t))
    \/ "leave" \in Acts /\ (ShowLeave(t) \/ KeepPlaying(t) \/ ConfirmLeave(t))
    \/ "join again" \in Acts /\ \E p \in Players : JoinAgain(t, p)

Callbacks(t) ==
    \/ StateArrives(t)
    \/ ErrorArrives(t)
    \/ ReadArrives(t)
    \/ ReadFails(t)
    \/ LeaveArrives(t)
    \/ LeaveFails(t)
    \/ JoinAnswered(t)
    \/ JoinAborts(t)
    \/ AssetsLoad(t)
    \/ EngineStarts(t)
    \/ EngineEnters(t)
    \/ SocketOpens(t)
    \/ SocketDrops(t)
    \/ Reload(t)

Server(t) ==
    \/ PushState(t)
    \/ ServeRead(t)
    \/ ServeAdmit(t)
    \/ ServeLeave(t)
    \/ AnswerLeave(t)
    \/ AnswerUnheard(t)
    \/ Serve(t) /\ UNCHANGED pageVars

\* The player can pay what the server could show, now or later.
PayKnown(i) == /\ i \in DOMAIN wallet
               /\ hashes[wallet[i].entry] = i
               /\ Pay(i)

InFlight(t) == {m \in {reads[t], leaves[t]} \cup {inbox[t][i] : i \in DOMAIN inbox[t]} :
                   m.kind = "state"}

\* An invoice lives for five minutes.  No request lasts that long (20 seconds at
\* the wallet, 30 in client.js), no message from before it is still on its way, and
\* a page with a connection has been pushed the state since (15 seconds).
UpToDate(t) == ApplyState(tabs[t], StateOf(tabs[t].session)).shown = tabs[t].shown

OnTime(e) ==
    /\ \A t \in Tabs : requests[t].entry # e
    /\ \A t \in Tabs : \A m \in InFlight(t) : m.state.nonce = nonces[e]
    /\ \A t \in Tabs : Connected(t) => UpToDate(t)

\* The wallet, the clock, the match and the owner.
World ==
    /\ \/ \E i \in Invoices : PayKnown(i) \/ Notified(i)
       \/ /\ \/ \E e \in Entries : OnTime(e) /\ InvoiceExpires(e)
             \/ \E v \in LifeIds : ConsumeDeath(1, v, NoId)
             \/ \E p \in Players : FinishLeave(p, 1)
             \/ "closure" \in DeskFaults /\ CloseGame
          /\ UNCHANGED deskVars
    /\ UNCHANGED pageVars

PageNext == World \/ \E t \in Tabs : Clicks(t) \/ Callbacks(t) \/ Server(t)

PageSpec == PageInit /\ [][PageNext]_allVars

(***************************************************************************)
(* The event loops of the browser and the server run what is due.  States  *)
(* are pushed every 15 seconds, so one gets through sooner or later however *)
(* often the connection drops; the listener is told of every payment.      *)
(* Nothing is assumed of the player: FairPageSpec does not click.          *)
(***************************************************************************)
FairPageSpec ==
    /\ PageSpec
    /\ \A t \in Tabs :
          /\ SF_allVars(StateArrives(t)) /\ SF_allVars(PushState(t))
          /\ WF_allVars(ErrorArrives(t)) /\ WF_allVars(ReadArrives(t))
          /\ WF_allVars(JoinAnswered(t)) /\ WF_allVars(AnswerUnheard(t))
          /\ WF_allVars(AssetsLoad(t))   /\ WF_allVars(EngineStarts(t))
          /\ WF_allVars(SocketOpens(t))
          /\ WF_allVars(ServeRead(t))    /\ SF_allVars(ServeAdmit(t))
          /\ WF_allVars(Serve(t) /\ UNCHANGED pageVars)
    /\ \A i \in Invoices : WF_allVars(Notified(i) /\ UNCHANGED pageVars)

\* And the player clicks the button that is there again and again.
BuyerPageSpec ==
    /\ FairPageSpec
    /\ \A t \in Tabs : SF_allVars(\E n \in Nonces : JoinPay(t, n))
=============================================================================
