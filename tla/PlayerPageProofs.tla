--------------------------- MODULE PlayerPageProofs ---------------------------
(***************************************************************************)
(* Proofs about the game page.  The pages of a browser are clients of the  *)
(* desk: what EntryDeskProofs shows holds behind them.  What a page may    *)
(* believe rests on what is still on its way to it: an old message was     *)
(* true when it was sent, and what it says of an entry that is over stays  *)
(* true however late it comes.                                             *)
(***************************************************************************)
EXTENDS PlayerPageProps, EntryDeskProofs

----------------------------------------------------------------------------
(* What the desk promises besides DInv.                                     *)

\* An invoice that can still be paid in time belongs to an entry not yet paid.
LiveIsOpen == \A e \in Entries : Live(e) => Open(e)

\* Every entry has the nonce of the request that made it.
EntriesNamed == \A e \in Entries : entries[e].status # "none" => nonces[e] \in Nonces

RequestsNamed == \A c \in Requests : At(c, "reserve") => requests[c].nonce \in Nonces

SaleInv == LiveIsOpen /\ EntriesNamed /\ RequestsNamed

\* The request n of player p is over: its entry was paid or has expired.
Over(p, n) == SameNonce(p, n) # {} /\ \A e \in SameNonce(p, n) : ~Live(e)

Own(p, e) == e \in Entries /\ entries[e].player = p

----------------------------------------------------------------------------
(* What a tab looks like, and what may be on its way to it.                 *)

Fields == {"phase", "session", "nonce", "player", "closed", "joining", "admitting", "leaving",
           "left", "leaveBusy", "seat", "overlay", "form", "resume", "dialog",
           "shown"}

\* Nothing comes back to a page that has left, and a page that offers an invoice
\* has not left, knows of no closure and does not play.
TabRow(tab) ==
    /\ DOMAIN tab = Fields
    /\ tab.shown # NoEntry => ~tab.left /\ ~tab.closed /\ tab.player.status # "alive"
    /\ tab.left => ~tab.form /\ ~tab.resume /\ tab.shown = NoEntry /\ tab.seat = NoId

\* The invoice on the page is one of its session.
ShownIsOwn ==
    \A t \in Tabs : tabs[t].shown # NoEntry => Own(tabs[t].session, tabs[t].shown)

\* A state told to player p: of an entry paid or expired it says so for good.
TrueOf(p, s) ==
    /\ (s.player # NoView \/ s.expired) => Over(p, s.nonce)
    /\ s.invoice # NoEntry => Own(p, s.invoice)

\* The request a tab waits for is one of its session.
JoinRow(t) == tabs[t].joining => ~At(t, "idle") /\ requests[t].player = tabs[t].session

Stream(q) == \E S : q \in Seq(S)

PageTables ==
    /\ DOMAIN tabs = Tabs
    /\ DOMAIN inbox = Tabs /\ DOMAIN reads = Tabs /\ DOMAIN leaves = Tabs
    /\ DOMAIN stored = {"session", "nonce"} /\ stored.session \in Players

TabRows ==
    /\ PageTables
    /\ \A t \in Tabs : /\ TabRow(tabs[t])
                       /\ tabs[t].session \in Players
                       /\ JoinRow(t)
                       /\ Stream(inbox[t])
    /\ ShownIsOwn

MailIsTrue == \A t \in Tabs : \A m \in InFlight(t) : TrueOf(tabs[t].session, m.state)

PageInv == IInv /\ SInv /\ DInv /\ SaleInv /\ TabRows /\ MailIsTrue

----------------------------------------------------------------------------
(* The pages are clients of the desk.                                       *)

LEMMA TabsAreRequests == Tabs = Requests /\ FirstPlayer \in Players
  BY PageAssumption

LEMMA WorldDesk == World => [DeskNext]_<<vars, deskVars>>
  <1>1. ASSUME NEW i \in Invoices, PayKnown(i) \/ Notified(i) PROVE DeskNext
    BY <1>1 DEF PayKnown, DeskNext, Payments
  <1>2. ASSUME NEW e \in Entries, InvoiceExpires(e), UNCHANGED deskVars PROVE DeskNext
    BY <1>2 DEF DeskNext, Elsewhere
  <1>3. ASSUME NEW v \in LifeIds, ConsumeDeath(1, v, NoId), UNCHANGED deskVars PROVE DeskNext
    BY <1>3 DEF DeskNext, Elsewhere
  <1>4. ASSUME NEW p \in Players, FinishLeave(p, 1), UNCHANGED deskVars PROVE DeskNext
    BY <1>4 DEF DeskNext, Elsewhere
  <1>5. ASSUME "closure" \in DeskFaults, CloseGame, UNCHANGED deskVars PROVE DeskNext
    BY <1>5 DEF DeskNext, Elsewhere
  <1> QED
    BY <1>1, <1>2, <1>3, <1>4, <1>5 DEF World

LEMMA ClicksDesk ==
  ASSUME TabRows, NEW t \in Tabs, Clicks(t)
  PROVE  [DeskNext]_<<vars, deskVars>>
  <1>1. CASE UNCHANGED <<vars, deskVars>>
    BY <1>1
  <1>2. ASSUME NEW n \in Nonces, JoinPay(t, n) PROVE DeskNext
    <2>1. Ask(t, tabs[t].session, n)
      BY <1>2 DEF JoinPay, Ask
    <2> QED
      BY <2>1, TabsAreRequests DEF TabRows, DeskNext
  <1>3. ASSUME JoinRespawn(t) \/ EnterArena(t) \/ Escape(t) \/ ShowLeave(t) \/ KeepPlaying(t)
                  \/ ConfirmLeave(t) \/ \E p \in Players : JoinAgain(t, p)
        PROVE  UNCHANGED <<vars, deskVars>>
    BY <1>3 DEF JoinRespawn, EnterArena, Escape, ShowLeave, KeepPlaying, ConfirmLeave, JoinAgain
  <1> QED
    BY <1>1, <1>2, <1>3 DEF Clicks

LEMMA CallbacksDesk ==
  ASSUME NEW t \in Tabs, Callbacks(t)
  PROVE  [DeskNext]_<<vars, deskVars>>
  <1>1. CASE JoinAnswered(t)
    BY <1>1, TabsAreRequests DEF JoinAnswered, DeskNext
  <1>2. ASSUME \/ StateArrives(t) \/ ErrorArrives(t) \/ ReadArrives(t) \/ ReadFails(t)
               \/ LeaveArrives(t) \/ LeaveFails(t) \/ JoinAborts(t)
        PROVE  UNCHANGED <<vars, deskVars>>
    BY <1>2 DEF StateArrives, ErrorArrives, ReadArrives, ReadFails, LeaveArrives, LeaveFails,
                JoinAborts
  <1>3. ASSUME \/ AssetsLoad(t) \/ EngineStarts(t) \/ EngineEnters(t)
               \/ SocketOpens(t) \/ SocketDrops(t) \/ Reload(t)
        PROVE  UNCHANGED <<vars, deskVars>>
    BY <1>3 DEF AssetsLoad, EngineStarts, EngineEnters, SocketOpens, SocketDrops, Reload
  <1> QED
    BY <1>1, <1>2, <1>3 DEF Callbacks

LEMMA ServerDesk ==
  ASSUME TabRows, NEW t \in Tabs, Server(t)
  PROVE  [DeskNext]_<<vars, deskVars>>
  <1>1. CASE PushState(t) \/ ServeRead(t) \/ AnswerLeave(t)
    BY <1>1 DEF PushState, ServeRead, AnswerLeave
  <1>2. CASE AnswerUnheard(t) \/ Serve(t)
    BY <1>2, TabsAreRequests DEF AnswerUnheard, DeskNext
  <1>3. CASE ServeAdmit(t)
    <2>1. tabs[t].session \in Players /\ UNCHANGED deskVars
      BY <1>3 DEF ServeAdmit, TabRows
    <2>2. \/ UNCHANGED vars
          \/ \E l \in LifeIds, s \in Slots :
                ResumeLife(tabs[t].session, 1, l, s) \/ NewLife(tabs[t].session, 1, l, s)
      BY <1>3 DEF ServeAdmit, Attached, NotAttached
    <2> QED
      BY <2>1, <2>2 DEF DeskNext, Elsewhere
  <1>4. CASE ServeLeave(t)
    <2>1. tabs[t].session \in Players /\ UNCHANGED deskVars
      BY <1>4 DEF ServeLeave, TabRows
    <2>2. UNCHANGED vars \/ RequestLeave(tabs[t].session)
      BY <1>4 DEF ServeLeave
    <2> QED
      BY <2>1, <2>2 DEF DeskNext, Elsewhere
  <1> QED
    BY <1>1, <1>2, <1>3, <1>4 DEF Server

\* Every step of a page, its server and the world is one of the desk or leaves it alone.
LEMMA PageDeskStep ==
  ASSUME TabRows, [PageNext]_allVars
  PROVE  [DeskNext]_<<vars, deskVars>>
  <1>1. CASE UNCHANGED allVars
    BY <1>1 DEF allVars
  <1> QED
    BY <1>1, WorldDesk, ClicksDesk, CallbacksDesk, ServerDesk DEF PageNext

----------------------------------------------------------------------------
(* The rows behind the messages only move one way.                          *)

\* What a step of the desk may do to the rows: a live row is an open one it was
\* or a new one, which bears the nonce of its request.
LEMMA LiveRows ==
  ASSUME IInv, DInv, [DeskNext]_<<vars, deskVars>>
  PROVE  \/ /\ \A e \in Entries : Live(e)' => Live(e) /\ (Open(e) => Open(e)')
            /\ \A e \in Entries : entries'[e].player = entries[e].player
            /\ \A e \in Entries : entries'[e].status # "none" => entries[e].status # "none"
            /\ UNCHANGED nonces
         \/ \E c \in Requests : ReserveNew(c)
  <1> DEFINE Lower ==
         /\ \A e \in Entries : Live(e)' => Live(e) /\ (Open(e) => Open(e)')
         /\ \A e \in Entries : entries'[e].player = entries[e].player
         /\ \A e \in Entries : entries'[e].status # "none" => entries[e].status # "none"
         /\ UNCHANGED nonces
  <1>1. DeskTypeOK /\ entries \in [Entries -> Entry]
    BY DEF DInv, IInv, TypeOK
  <1>2. UNCHANGED <<entries, nonces>> => Lower
    BY DEF Live, Open
  <1>3. ASSUME NEW e \in Entries, NEW i \in DOMAIN wallet, RecordedFor(e, i) PROVE Lower
    <2>1. RecordInvoice(e) => Lower
      BY <1>1, <1>3 DEF RecordedFor, RecordInvoice, Entry, Live, Open, OpenStatus
    <2> QED
      BY <1>2, <1>3, <2>1 DEF RecordedFor, Record, vars
  <1>4. ASSUME NEW i \in DOMAIN wallet, Credits(i) PROVE Lower
    <2>1. wallet[i].entry \in Entries /\ UNCHANGED nonces
      BY <1>1, <1>4, WalletTyped DEF Credits
    <2>2. ASSUME NEW e \in Entries, Open(e),
                 SettleEntry(e) \/ SettleWhileLeaving(e) \/ SettleAfterLeave(e)
          PROVE  Lower
      <3>1. \E n \in {0, LivesPerEntry} : entries' = [entries EXCEPT ![e] = Credited(@, n)]
        BY <2>2 DEF SettleEntry, SettleWhileLeaving, SettleAfterLeave
      <3> QED
        BY <1>1, <2>1, <2>2, <3>1 DEF Credited, Entry, Live, Open, OpenStatus
    <2> QED
      BY <1>2, <1>4, <2>1, <2>2 DEF Credits, Settled, vars
  <1>5. ASSUME Elsewhere PROVE Lower
    <2>1. UNCHANGED nonces
      BY <1>5 DEF Elsewhere, deskVars
    <2>2. ASSUME NEW e \in Entries, InvoiceExpires(e) PROVE Lower
      BY <1>1, <2>1, <2>2 DEF InvoiceExpires, Entry, Live, Open
    <2>3. ASSUME NEW v \in LifeIds, ConsumeDeath(1, v, NoId) PROVE Lower
      BY <1>1, <2>1, <2>3 DEF ConsumeDeath, Entry, Live, Open
    <2>4. ASSUME NEW p \in Players, FinishLeave(p, 1) PROVE Lower
      BY <1>1, <2>1, <2>4 DEF FinishLeave, Entry, Live, Open
    <2>5. ASSUME NEW p \in Players, NEW l \in LifeIds, NEW s \in Slots,
                 ResumeLife(p, 1, l, s) \/ NewLife(p, 1, l, s)
          PROVE  Lower
      BY <1>2, <2>1, <2>5 DEF ResumeLife, NewLife
    <2>6. ASSUME CloseGame \/ \E p \in Players : RequestLeave(p) PROVE Lower
      BY <1>2, <2>1, <2>6 DEF CloseGame, RequestLeave
    <2> QED
      BY <1>5, <2>2, <2>3, <2>4, <2>5, <2>6 DEF Elsewhere
  <1>6. UNCHANGED <<vars, nonces>> => Lower
    BY <1>2 DEF vars
  <1> HIDE DEF Lower
  <1>7. ASSUME \/ UNCHANGED <<vars, nonces, hashes, wallet>>
               \/ \E c \in Requests : IssuedFor(c)
               \/ \E i \in DOMAIN wallet, status \in {"paid", "lapsed"} : Marked(i, status)
        PROVE  Lower
    BY <1>6, <1>7 DEF IssuedFor, Marked
  <1>8. Lower \/ \E c \in Requests : ReserveNew(c)
    BY <1>3, <1>4, <1>5, <1>7, DeskKinds
  <1> QED
    BY <1>8 DEF Lower

\* The row of a request is new, and is the first of its player with that nonce.
LEMMA NewRow ==
  ASSUME IInv, DInv, NEW c \in Requests, ReserveNew(c)
  PROVE  \E d \in Entries :
            /\ entries[d].status = "none"
            /\ requests[c].player \in Players
            /\ SameNonce(requests[c].player, requests[c].nonce) = {}
            /\ entries'[d] = [player |-> requests[c].player, status |-> "creating",
                              remaining |-> 0, payable |-> TRUE]
            /\ nonces'[d] = requests[c].nonce
            /\ \A e \in Entries \ {d} : entries'[e] = entries[e] /\ nonces'[e] = nonces[e]
  <1>1. entries \in [Entries -> Entry] /\ nonces \in [Entries -> Nonces \cup {NoNonce}]
    BY DEF IInv, TypeOK, DInv, DeskTypeOK
  <1>2. PICK d \in Entries :
           /\ ReserveEntry(requests[c].player, d)
           /\ nonces' = [nonces EXCEPT ![d] = requests[c].nonce]
    BY DEF ReserveNew
  <1>3. requests[c].player \in Players
    BY DEF ReserveNew, DInv, RequestRows, RequestRow
  <1> QED
    BY <1>1, <1>2, <1>3 DEF ReserveNew, ReserveEntry, NextRow

\* Only Ask brings a request to its first step.
LEMMA NamedStep ==
  ASSUME IInv, DInv, RequestsNamed, [DeskNext]_<<vars, deskVars>>
  PROVE  RequestsNamed'
  <1>1. DeskTypeOK
    BY DEF DInv
  <1>2. ASSUME NEW c \in Requests, NEW row, Step(c, row),
               row.pc # "reserve" \/ row.nonce \in Nonces
        PROVE  RequestsNamed'
    <2>1. requests'[c] = row /\ \A d \in Requests \ {c} : requests'[d] = requests[d]
      BY <1>1, <1>2, StepChange
    <2> QED
      BY <1>2, <2>1 DEF RequestsNamed, At
  <1>3. ASSUME NEW c \in Requests, Refuse(c) PROVE RequestsNamed'
    BY <1>2, <1>3 DEF Refuse, NoRequest
  <1>4. UNCHANGED requests => RequestsNamed'
    BY DEF RequestsNamed, At
  <1>5. ASSUME NEW c \in Requests, NEW p \in Players, NEW n \in Nonces, Ask(c, p, n)
        PROVE  RequestsNamed'
    BY <1>2, <1>5 DEF Ask, NoRequest
  <1>6. ASSUME NEW c \in Requests, NEW e, Shown(c, e) PROVE RequestsNamed'
    <2>1. requests[c] \in Request
      BY <1>1 DEF DeskTypeOK
    <2>2. Step(c, [requests[c] EXCEPT !.pc = "arena", !.nonce = NoNonce,
                                      !.entry = e, !.invoice = hashes[e]]) => RequestsNamed'
      BY <1>2, <2>1 DEF Request
    <2> QED
      BY <1>3, <1>6, <2>2 DEF Shown
  <1>7. ASSUME NEW c \in Requests, NEW pc, pc # "reserve", Advance(c, pc) PROVE RequestsNamed'
    <2>1. requests[c] \in Request
      BY <1>1 DEF DeskTypeOK
    <2> QED
      BY <1>2, <1>7, <2>1 DEF Advance, Request
  <1>8. ASSUME NEW c \in Requests, Serve(c) \/ Answered(c) PROVE RequestsNamed'
    <2>1. requests[c] \in Request
      BY <1>1 DEF DeskTypeOK
    <2>2. CASE ReserveNew(c)
      BY <1>2, <2>1, <2>2 DEF ReserveNew, Request
    <2>3. CASE ReserveExisting(c) \/ ReadRow(c)
      BY <1>6, <2>3 DEF ReserveExisting, ReadRow
    <2>4. CASE ReserveRefused(c) \/ WalletFails(c) \/ RecordFails(c)
      BY <1>3, <2>4 DEF ReserveRefused, WalletFails, RecordFails
    <2>5. CASE WalletIssues(c)
      BY <1>2, <2>1, <2>5 DEF WalletIssues, Request
    <2>6. CASE RecordIssued(c) \/ CheckArena(c) \/ CheckPlayer(c)
      BY <1>3, <1>7, <2>6 DEF RecordIssued, CheckArena, CheckPlayer
    <2>7. CASE Answered(c)
      BY <1>2, <2>7 DEF Answered, NoRequest
    <2> QED
      BY <1>8, <2>2, <2>3, <2>4, <2>5, <2>6, <2>7 DEF Serve
  <1>9. CASE DeskCrashes
    BY <1>9 DEF DeskCrashes, RequestsNamed, At, NoRequest
  <1>10. CASE \/ \E i \in Invoices : Pay(i) \/ Lapse(i) \/ Notified(i) \/ LoseEvent(i)
              \/ ReadBatch \/ SettleFound \/ Deferred
              \/ \E row \in recovery.rows : LookUp(row)
    BY <1>4, <1>10 DEF Pay, Lapse, Notified, LoseEvent, ReadBatch, SettleFound, Deferred, LookUp
  <1>11. CASE Elsewhere \/ UNCHANGED <<vars, deskVars>>
    BY <1>4, <1>11 DEF Elsewhere, deskVars
  <1> QED
    BY <1>5, <1>8, <1>9, <1>10, <1>11 DEF DeskNext, Payments

LEMMA SaleStep ==
  ASSUME IInv, DInv, SaleInv, [DeskNext]_<<vars, deskVars>>
  PROVE  SaleInv'
  <1>1. CASE \E c \in Requests : ReserveNew(c)
    <2>1. PICK c \in Requests : ReserveNew(c)
      BY <1>1
    <2>2. requests[c].nonce \in Nonces
      BY <2>1 DEF SaleInv, RequestsNamed, ReserveNew
    <2>3. PICK d \in Entries :
             /\ entries'[d] = [player |-> requests[c].player, status |-> "creating",
                               remaining |-> 0, payable |-> TRUE]
             /\ nonces'[d] = requests[c].nonce
             /\ \A e \in Entries \ {d} : entries'[e] = entries[e] /\ nonces'[e] = nonces[e]
      BY <2>1, NewRow
    <2>4. LiveIsOpen'
      BY <2>3 DEF SaleInv, LiveIsOpen, Live, Open, OpenStatus
    <2>5. EntriesNamed'
      BY <2>2, <2>3 DEF SaleInv, EntriesNamed
    <2>6. RequestsNamed'
      BY NamedStep DEF SaleInv
    <2> QED
      BY <2>4, <2>5, <2>6 DEF SaleInv
  <1>2. CASE ~ \E c \in Requests : ReserveNew(c)
    BY <1>2, LiveRows, NamedStep DEF SaleInv, LiveIsOpen, EntriesNamed
  <1> QED
    BY <1>1, <1>2

LEMMA OwnKept ==
  ASSUME IInv, DInv, [DeskNext]_<<vars, deskVars>>, NEW p \in Players, NEW e, Own(p, e)
  PROVE  Own(p, e)' /\ nonces'[e] = nonces[e]
  <1>1. entries[e].status # "none"
    BY PlayerAssumption DEF IInv, EntryRows, Own
  <1>2. entries'[e].player = p
    BY <1>1, DeskLedgerKept DEF Own
  <1>3. ASSUME NEW c \in Requests, ReserveNew(c) PROVE nonces'[e] = nonces[e]
    BY <1>1, <1>3, NewRow DEF Own
  <1> QED
    BY <1>2, <1>3, LiveRows DEF Own

\* A request that is over stays over: no second row has its nonce.
LEMMA OverKept ==
  ASSUME IInv, DInv, [DeskNext]_<<vars, deskVars>>, NEW p \in Players, NEW n, Over(p, n)
  PROVE  Over(p, n)'
  <1>1. SameNonce(p, n)' # {}
    BY OwnKept DEF Over, SameNonce, EntriesOf, Own
  <1>2. ASSUME NEW e \in Entries, entries'[e].player = p, nonces'[e] = n PROVE ~Live(e)'
    <2>1. CASE ~ \E c \in Requests : ReserveNew(c)
      BY <1>2, <2>1, LiveRows DEF Over, SameNonce, EntriesOf
    <2>2. ASSUME NEW c \in Requests, ReserveNew(c) PROVE ~Live(e)'
      <3>1. PICK d \in Entries :
               /\ SameNonce(requests[c].player, requests[c].nonce) = {}
               /\ entries'[d] = [player |-> requests[c].player, status |-> "creating",
                                 remaining |-> 0, payable |-> TRUE]
               /\ nonces'[d] = requests[c].nonce
               /\ \A x \in Entries \ {d} : entries'[x] = entries[x] /\ nonces'[x] = nonces[x]
        BY <2>2, NewRow
      <3>2. e # d
        BY <1>2, <3>1 DEF Over
      <3> QED
        BY <1>2, <3>1, <3>2 DEF Over, SameNonce, EntriesOf, Live
    <2> QED
      BY <2>1, <2>2
  <1> QED
    BY <1>1, <1>2 DEF Over, SameNonce, EntriesOf

LEMMA TruthKept ==
  ASSUME IInv, DInv, [DeskNext]_<<vars, deskVars>>, NEW p \in Players, NEW s, TrueOf(p, s)
  PROVE  TrueOf(p, s)'
  BY OwnKept, OverKept DEF TrueOf

----------------------------------------------------------------------------
(* What the server says is true when it says it.                            *)

LEMMA LargestIsMember ==
  ASSUME NEW S, S \subseteq Entries, S # {}
  PROVE  Max(S) \in S
  <1>1. PICK n \in S : \A m \in S : m <= n
    BY HasLargest
  <1>2. S \subseteq Nat
    BY DEF Entries
  <1>3. \A m \in S : n >= m
    BY <1>1, <1>2
  <1> QED
    BY <1>1, <1>3 DEF Max

LEMMA ChosenIsOwn ==
  ASSUME NEW p \in Players, EntriesOf(p) # {}
  PROVE  ChosenEntry(p) \in EntriesOf(p)
  <1> DEFINE funded == {e \in EntriesOf(p) : Funded(e)}
             S == IF funded # {} THEN funded ELSE EntriesOf(p)
  <1>1. S \subseteq EntriesOf(p) /\ S # {}
    OBVIOUS
  <1>2. EntriesOf(p) \subseteq Entries
    BY DEF EntriesOf
  <1>3. ChosenEntry(p) = Max(S)
    BY DEF ChosenEntry
  <1> HIDE DEF S
  <1> QED
    BY <1>1, <1>2, <1>3, LargestIsMember

\* No other entry of a player has the nonce of an entry the server speaks of.
LEMMA NonceIsItsOwn ==
  ASSUME IInv, DInv, SaleInv, NEW p \in Players, NEW e \in EntriesOf(p)
  PROVE  nonces[e] \in Nonces /\ SameNonce(p, nonces[e]) = {e}
  <1>1. e \in Entries /\ entries[e].player = p
    BY DEF EntriesOf
  <1>2. entries[e].status # "none"
    BY <1>1, PlayerAssumption DEF IInv, EntryRows
  <1>3. nonces[e] \in Nonces
    BY <1>1, <1>2 DEF SaleInv, EntriesNamed
  <1>4. nonces[e] # NoNonce
    BY <1>3, DeskAssumption
  <1>5. \A d \in EntriesOf(p) : nonces[d] = nonces[e] => d = e
    BY <1>1, <1>4 DEF DInv, NonceNamesOneEntry, EntriesOf
  <1> QED
    BY <1>3, <1>5 DEF SameNonce

LEMMA StateIsTrue ==
  ASSUME IInv, DInv, SaleInv, NEW p \in Players
  PROVE  TrueOf(p, StateOf(p))
  <1> DEFINE known == EntriesOf(p) # {}
             e     == ChosenEntry(p)
             paid  == known /\ entries[e].status = "paid"
             s     == StateOf(p)
  <1>1. /\ s.nonce = (IF known THEN nonces[e] ELSE NoNonce)
        /\ s.player # NoView => paid
        /\ s.expired => known /\ ~Live(e)
        /\ s.invoice # NoEntry => known /\ s.invoice = e
    BY DEF StateOf
  <1>2. ASSUME known
        PROVE  /\ Own(p, e)
               /\ SameNonce(p, nonces[e]) = {e}
               /\ paid => ~Live(e)
    <2>1. e \in EntriesOf(p)
      BY <1>2, ChosenIsOwn
    <2>2. e \in Entries /\ Own(p, e)
      BY <2>1 DEF EntriesOf, Own
    <2>3. SameNonce(p, nonces[e]) = {e}
      BY <2>1, NonceIsItsOwn
    <2>4. paid => ~Live(e)
      BY <2>2 DEF SaleInv, LiveIsOpen, Open, OpenStatus
    <2> QED
      BY <2>2, <2>3, <2>4
  <1> HIDE DEF s, e
  <1> QED
    BY <1>1, <1>2 DEF TrueOf, Over, s

----------------------------------------------------------------------------
(* A request keeps its player from the click to the answer.                 *)

LEMMA ServePlayer ==
  ASSUME DInv, NEW c \in Requests, Serve(c)
  PROVE  /\ requests'[c].player = requests[c].player
         /\ ~At(c, "idle")'
         /\ \A d \in Requests \ {c} : requests'[d] = requests[d]
  <1> DEFINE Goal == /\ requests'[c].player = requests[c].player
                     /\ ~At(c, "idle")'
                     /\ \A d \in Requests \ {c} : requests'[d] = requests[d]
             q == requests[c]
  <1>1. DeskTypeOK /\ q \in Request
    BY DEF DInv, DeskTypeOK
  <1>2. ASSUME NEW row, Step(c, row), row.player = q.player, row.pc # "idle" PROVE Goal
    BY <1>1, <1>2, StepChange DEF At
  <1>3. ASSUME Refuse(c) PROVE Goal
    BY <1>2, <1>3 DEF Refuse, NoRequest
  <1>4. ASSUME NEW e, Shown(c, e) PROVE Goal
    <2>1. ASSUME NEW i, Step(c, [q EXCEPT !.pc = "arena", !.nonce = NoNonce,
                                          !.entry = e, !.invoice = i])
          PROVE  Goal
      BY <1>1, <1>2, <2>1 DEF Request
    <2> QED
      BY <1>3, <1>4, <2>1 DEF Shown
  <1>5. ASSUME NEW pc, pc # "idle", Advance(c, pc) PROVE Goal
    BY <1>1, <1>2, <1>5 DEF Advance, Request
  <1>6. CASE ReserveNew(c)
    BY <1>1, <1>2, <1>6 DEF ReserveNew, Request
  <1>7. CASE ReserveExisting(c) \/ ReadRow(c)
    BY <1>4, <1>7 DEF ReserveExisting, ReadRow
  <1>8. CASE ReserveRefused(c) \/ WalletFails(c) \/ RecordFails(c)
    BY <1>3, <1>8 DEF ReserveRefused, WalletFails, RecordFails
  <1>9. CASE WalletIssues(c)
    BY <1>1, <1>2, <1>9 DEF WalletIssues, Request
  <1>10. CASE RecordIssued(c) \/ CheckArena(c) \/ CheckPlayer(c)
    BY <1>3, <1>5, <1>10 DEF RecordIssued, CheckArena, CheckPlayer
  <1> QED
    BY <1>6, <1>7, <1>8, <1>9, <1>10 DEF Serve

LEMMA WorldRequests == World => UNCHANGED requests
  BY DEF World, PayKnown, Pay, Notified, deskVars

----------------------------------------------------------------------------
(* What a callback makes of its tab.                                        *)

\* The response s says that the request n is over.
Settles(s, n) == s.nonce = n /\ (s.player # NoView \/ s.expired)

\* The tab stays what it was to the player: the same session, left if it had left,
\* and it gives up a nonce only when the response settles it.
Follows(tab, s, new) ==
    /\ TabRow(new)
    /\ new.session = tab.session
    /\ new.joining = tab.joining
    /\ tab.left => new.left
    /\ new.shown \in {NoEntry, tab.shown, s.invoice}
    /\ new.nonce = NoNonce =>
          \/ tab.nonce = NoNonce
          \/ Settles(s, tab.nonce)
          \/ s.invoice # NoEntry /\ nonces[s.invoice] = NoNonce

LEMMA ShowEntryTab ==
  ASSUME NEW tab, DOMAIN tab = Fields
  PROVE  LET new == ShowEntry(tab)
         IN  /\ DOMAIN new = Fields
             /\ new.session = tab.session /\ new.nonce = tab.nonce
             /\ new.player = tab.player /\ new.closed = tab.closed
             /\ new.joining = tab.joining /\ new.left = tab.left
             /\ new.leaving = tab.leaving /\ new.seat = tab.seat
             /\ new.shown = NoEntry
  BY DEF ShowEntry, Fields

LEMMA RetireTab ==
  ASSUME NEW tab, NEW n, DOMAIN tab = Fields
  PROVE  LET new == Retire(tab, n)
         IN  /\ DOMAIN new = Fields
             /\ new.session = tab.session
             /\ new.nonce = tab.nonce \/ tab.nonce = n
             /\ new.player = tab.player /\ new.closed = tab.closed
             /\ new.joining = tab.joining /\ new.left = tab.left
             /\ new.leaving = tab.leaving
             /\ new.shown = tab.shown
  BY DEF Retire, Fields

LEMMA SyncMatchTab ==
  ASSUME NEW tab, DOMAIN tab = Fields
  PROVE  LET new == SyncMatch(tab)
         IN  /\ DOMAIN new = Fields
             /\ new.session = tab.session /\ new.nonce = tab.nonce
             /\ new.player = tab.player /\ new.closed = tab.closed
             /\ new.joining = tab.joining /\ new.left = tab.left
             /\ new.shown \in {NoEntry, tab.shown}
  BY DEF SyncMatch, Fields

LEMMA ShowInvoiceTab ==
  ASSUME NEW tab, NEW e, DOMAIN tab = Fields
  PROVE  LET new == ShowInvoice(tab, e)
         IN  /\ DOMAIN new = Fields
             /\ new.session = tab.session
             /\ new.nonce \in {tab.nonce, nonces[e]}
             /\ new.player = tab.player /\ new.closed = tab.closed
             /\ new.joining = tab.joining /\ new.left = tab.left
             /\ \/ new = tab
                \/ new.shown = NoEntry /\ ~tab.left
                \/ new.shown = e /\ ~tab.left /\ ~tab.closed /\ tab.player.status # "alive"
  <1>1. CASE tab.leaving \/ tab.left
    BY <1>1 DEF ShowInvoice
  <1>2. CASE ~(tab.leaving \/ tab.left) /\ tab.closed
    BY <1>2, ShowEntryTab DEF ShowInvoice
  <1>3. CASE ~(tab.leaving \/ tab.left) /\ ~tab.closed
    BY <1>3 DEF ShowInvoice, Fields
  <1> QED
    BY <1>1, <1>2, <1>3

LEMMA KnownTab ==
  ASSUME NEW tab, NEW was, DOMAIN tab = Fields
  PROVE  LET new == Known(tab, was)
         IN  /\ DOMAIN new = Fields
             /\ new.session = tab.session /\ new.nonce = tab.nonce
             /\ new.player = tab.player /\ new.closed = tab.closed
             /\ new.joining = tab.joining /\ new.left = tab.left
             /\ new.shown \in {NoEntry, tab.shown}
  <1> DEFINE gone == IF was = "alive" THEN [tab EXCEPT !.seat = NoId] ELSE tab
  <1>1. /\ DOMAIN gone = Fields
        /\ gone.session = tab.session /\ gone.nonce = tab.nonce
        /\ gone.player = tab.player /\ gone.closed = tab.closed
        /\ gone.joining = tab.joining /\ gone.left = tab.left
        /\ gone.shown = tab.shown
    BY DEF Fields
  <1>2. Known(tab, was) = gone \/ Known(tab, was) = ShowEntry(gone)
    BY DEF Known
  <1> HIDE DEF gone
  <1> QED
    BY <1>1, <1>2, ShowEntryTab

\* The response reaches an open arena and a session that is not leaving.
LEMMA StayingTab ==
  ASSUME NEW tab, NEW s, TabRow(tab), ~tab.left, ~tab.closed
  PROVE  Follows(tab, s, Staying(tab, s))
  <1> DEFINE paid  == IF s.player # NoView THEN Retire(tab, s.nonce) ELSE tab
             new   == [paid EXCEPT !.player = s.player]
             taken == Staying(tab, s)
             Same(x) == /\ DOMAIN x = Fields
                        /\ x.session = tab.session /\ x.joining = tab.joining
                        /\ x.player = s.player /\ ~x.closed /\ ~x.left
             Kept(x) == x.nonce = tab.nonce \/ (s.nonce = tab.nonce /\ s.player # NoView)
  <1>0. DOMAIN tab = Fields
    BY DEF TabRow
  <1>1. /\ DOMAIN paid = Fields
        /\ paid.session = tab.session /\ paid.joining = tab.joining
        /\ ~paid.closed /\ ~paid.left
        /\ paid.shown = tab.shown
        /\ Kept(paid)
    BY <1>0, RetireTab
  <1> HIDE DEF paid
  <1>2. Same(new) /\ Kept(new) /\ new.shown = tab.shown
    BY <1>1 DEF Fields
  <1>3. CASE s.player.status = "alive"
    <2> DEFINE bare == [new EXCEPT !.form = FALSE, !.shown = NoEntry]
    <2>1. Same(bare) /\ Kept(bare) /\ bare.shown = NoEntry
      BY <1>2 DEF Fields
    <2>2. taken = [SyncMatch(bare) EXCEPT !.admitting = FALSE]
      BY <1>3 DEF Staying, paid
    <2> HIDE DEF bare, new
    <2>3. Same(SyncMatch(bare)) /\ Kept(SyncMatch(bare)) /\ SyncMatch(bare).shown = NoEntry
      BY <2>1, SyncMatchTab
    <2>4. Same(taken) /\ Kept(taken) /\ taken.shown = NoEntry
      BY <2>2, <2>3 DEF Fields
    <2> HIDE DEF taken
    <2> QED
      BY <2>4 DEF Follows, TabRow, Settles, taken
  <1>4. CASE s.player.status # "alive"
    <2>1. ASSUME NEW x, taken = x, Same(x), Kept(x), x.shown \in {NoEntry, tab.shown}
          PROVE  Follows(tab, s, taken)
      BY <1>4, <2>1 DEF Follows, TabRow, Settles
    <2>2. CASE AdmitsNow(tab, s)
      <3> DEFINE x == [new EXCEPT !.admitting = TRUE]
      <3>1. taken = x
        BY <1>4, <2>2 DEF Staying, paid
      <3>2. Same(x) /\ Kept(x) /\ x.shown = tab.shown
        BY <1>2 DEF Fields
      <3> HIDE DEF x, taken
      <3> QED
        BY <2>1, <3>1, <3>2 DEF taken
    <2>3. CASE ~AdmitsNow(tab, s) /\ s.player # NoView
      <3> DEFINE x == Known(new, tab.player.status)
      <3>1. taken = x
        BY <1>4, <2>3 DEF Staying, paid
      <3> HIDE DEF new
      <3>2. Same(x) /\ Kept(x) /\ x.shown \in {NoEntry, tab.shown}
        BY <1>2, KnownTab
      <3> HIDE DEF x, taken
      <3> QED
        BY <2>1, <3>1, <3>2 DEF taken
    <2>4. CASE /\ ~AdmitsNow(tab, s) /\ s.player = NoView /\ s.invoice # NoEntry
               /\ ~tab.joining \/ About(tab, s)
      <3> DEFINE x == ShowInvoice(new, s.invoice)
      <3>1. taken = x
        BY <1>4, <2>4 DEF Staying, paid
      <3> HIDE DEF new
      <3>2. /\ Same(x)
            /\ Kept(x) \/ x.nonce = nonces[s.invoice]
            /\ x.shown \in {NoEntry, tab.shown, s.invoice}
        BY <1>2, ShowInvoiceTab
      <3> HIDE DEF x, taken
      <3> QED
        BY <1>4, <2>4, <3>1, <3>2 DEF Follows, TabRow, Settles, taken
    <2>5. CASE /\ ~AdmitsNow(tab, s) /\ s.player = NoView /\ s.invoice # NoEntry
               /\ ~(~tab.joining \/ About(tab, s))
      <3>1. taken = new
        BY <1>4, <2>5 DEF Staying, paid
      <3> HIDE DEF new, taken
      <3> QED
        BY <1>2, <2>1, <3>1 DEF taken
    <2>6. CASE /\ ~AdmitsNow(tab, s) /\ s.player = NoView /\ s.invoice = NoEntry
               /\ s.expired /\ ~tab.joining /\ About(tab, s)
      <3> DEFINE x == Retire(ShowEntry(new), s.nonce)
      <3>1. taken = x
        BY <1>4, <2>6 DEF Staying, paid
      <3>2. Same(ShowEntry(new)) /\ Kept(ShowEntry(new)) /\ ShowEntry(new).shown = NoEntry
        BY <1>2, ShowEntryTab
      <3>3. /\ Same(x) /\ x.shown = NoEntry
            /\ Kept(x) \/ s.nonce = tab.nonce
        BY <3>2, RetireTab
      <3> HIDE DEF x, taken
      <3> QED
        BY <1>4, <2>6, <3>1, <3>3 DEF Follows, TabRow, Settles, taken
    <2>7. CASE /\ ~AdmitsNow(tab, s) /\ s.player = NoView /\ s.invoice = NoEntry
               /\ ~(s.expired /\ ~tab.joining /\ About(tab, s))
      <3>1. taken = new
        BY <1>4, <2>7 DEF Staying, paid
      <3> HIDE DEF new, taken
      <3> QED
        BY <1>2, <2>1, <3>1 DEF taken
    <2> QED
      BY <2>2, <2>3, <2>4, <2>5, <2>6, <2>7
  <1> QED
    BY <1>3, <1>4

\* Whatever the response and however old it is.
LEMMA AppliedTab ==
  ASSUME NEW tab, NEW s, TabRow(tab)
  PROVE  Follows(tab, s, ApplyState(tab, s))
  <1> DEFINE new == [tab EXCEPT !.player = s.player, !.closed = s.closed]
             taken == ApplyState(tab, s)
  <1>0. DOMAIN tab = Fields
    BY DEF TabRow
  <1>1. /\ DOMAIN new = Fields
        /\ new.session = tab.session /\ new.nonce = tab.nonce
        /\ new.joining = tab.joining /\ new.left = tab.left
    BY <1>0 DEF Fields
  <1>2. CASE Ignored(tab, s)
    BY <1>2 DEF ApplyState, Follows
  <1>3. CASE ~Ignored(tab, s) /\ (s.leave # "none" \/ tab.leaving)
    <2>1. taken = Departing(new, s)
      BY <1>3 DEF ApplyState
    <2>2. tab.left => s.leave = "left"
      BY <1>3 DEF Ignored
    <2> HIDE DEF new, taken
    <2>3. /\ DOMAIN taken = Fields
          /\ taken.session = tab.session /\ taken.nonce = tab.nonce
          /\ taken.joining = tab.joining /\ taken.left = (s.leave = "left")
          /\ ~taken.form /\ ~taken.resume /\ taken.shown = NoEntry
          /\ s.leave = "left" => taken.seat = NoId
      BY <1>1, <2>1 DEF Departing, Fields
    <2> QED
      BY <2>2, <2>3 DEF Follows, TabRow, taken
  <1>4. CASE ~Ignored(tab, s) /\ s.leave = "none" /\ ~tab.leaving
    <2>1. ~tab.left
      BY <1>4 DEF Ignored
    <2>2. CASE s.closed
      <3> DEFINE bare == [new EXCEPT !.seat = NoId, !.admitting = FALSE]
      <3>1. taken = ShowEntry(bare)
        BY <1>4, <2>2 DEF ApplyState
      <3>2. /\ DOMAIN bare = Fields
            /\ bare.session = tab.session /\ bare.nonce = tab.nonce
            /\ bare.joining = tab.joining /\ bare.left = tab.left
        BY <1>1 DEF Fields
      <3> HIDE DEF bare, taken
      <3> QED
        BY <2>1, <3>1, <3>2, ShowEntryTab DEF Follows, TabRow, taken
    <2>3. CASE ~s.closed
      <3> DEFINE bare == [tab EXCEPT !.closed = FALSE]
      <3>1. taken = Staying(bare, s)
        BY <1>4, <2>3 DEF ApplyState
      <3>2. /\ DOMAIN bare = Fields /\ ~bare.closed /\ ~bare.left
            /\ bare.session = tab.session /\ bare.nonce = tab.nonce
            /\ bare.joining = tab.joining /\ bare.shown = tab.shown
            /\ bare.player = tab.player
        BY <1>0, <2>1 DEF Fields
      <3> HIDE DEF bare, taken
      <3>3. TabRow(bare)
        BY <3>2 DEF TabRow
      <3>4. Follows(bare, s, taken)
        BY <3>1, <3>2, <3>3, StayingTab
      <3> QED
        BY <2>1, <3>2, <3>4 DEF Follows, taken
    <2> QED
      BY <2>2, <2>3
  <1> QED
    BY <1>2, <1>3, <1>4

----------------------------------------------------------------------------
(* What is on its way to a tab.                                             *)

Box(q) == {q[i] : i \in DOMAIN q}

LEMMA FlightIsBox ==
  ASSUME NEW t \in Tabs
  PROVE  InFlight(t) = {m \in {reads[t], leaves[t]} \cup Box(inbox[t]) : m.kind = "state"}
  BY DEF InFlight, Box

LEMMA HeadBox ==
  ASSUME NEW q, Stream(q), q # <<>>
  PROVE  Head(q) \in Box(q) /\ Box(Tail(q)) \subseteq Box(q) /\ Stream(Tail(q))
  <1>1. PICK S : q \in Seq(S)
    BY DEF Stream
  <1>2. /\ Head(q) = q[1] /\ Len(q) \in Nat /\ DOMAIN q = 1 .. Len(q) /\ Len(q) # 0
        /\ Tail(q) \in Seq(S)
        /\ DOMAIN Tail(q) = 1 .. Len(q) - 1
        /\ \A i \in 1 .. Len(q) - 1 : Tail(q)[i] = q[i + 1]
    BY <1>1
  <1>3. Head(q) \in Box(q)
    BY <1>2 DEF Box
  <1>4. ASSUME NEW i \in 1 .. Len(q) - 1 PROVE Tail(q)[i] \in Box(q)
    BY <1>2 DEF Box
  <1> QED
    BY <1>2, <1>3, <1>4 DEF Box, Stream

LEMMA AppendBox ==
  ASSUME NEW q, NEW m, Stream(q)
  PROVE  Box(Append(q, m)) \subseteq Box(q) \cup {m} /\ Stream(Append(q, m))
  <1>1. PICK S : q \in Seq(S)
    BY DEF Stream
  <1> DEFINE T == S \cup {m}
  <1>2. q \in Seq(T) /\ m \in T
    BY <1>1
  <1> HIDE DEF T
  <1>3. /\ Append(q, m) \in Seq(T)
        /\ Len(q) \in Nat /\ DOMAIN q = 1 .. Len(q)
        /\ DOMAIN Append(q, m) = 1 .. Len(q) + 1
        /\ \A i \in 1 .. Len(q) : Append(q, m)[i] = q[i]
        /\ Append(q, m)[Len(q) + 1] = m
    BY <1>2
  <1>4. ASSUME NEW i \in 1 .. Len(q) + 1 PROVE Append(q, m)[i] \in Box(q) \cup {m}
    <2>1. CASE i \in 1 .. Len(q)
      BY <1>3, <2>1 DEF Box
    <2>2. CASE i = Len(q) + 1
      BY <1>3, <2>2
    <2> QED
      BY <1>3, <2>1, <2>2
  <1> QED
    BY <1>3, <1>4 DEF Box, Stream

LEMMA MayAppend ==
  ASSUME NEW q, NEW m, NEW r, Stream(q), r \in {q, Append(q, m)}
  PROVE  Box(r) \subseteq Box(q) \cup {m} /\ Stream(r)
  BY AppendBox

LEMMA EmptyBox == Box(<<>>) = {} /\ Stream(<<>>)
  <1>1. <<>> \in Seq({}) /\ DOMAIN <<>> = {}
    OBVIOUS
  <1> QED
    BY <1>1 DEF Box, Stream

----------------------------------------------------------------------------
(* What a step may do to a tab.                                             *)

\* The tab stays sound; it forgets a nonce only when the request is over.
Sound(t, new) ==
    /\ TabRow(new)
    /\ new.session = tabs[t].session
    /\ tabs[t].left => new.left
    /\ new.shown # NoEntry => Own(new.session, new.shown)
    /\ new.nonce = NoNonce => tabs[t].nonce = NoNonce \/ Over(new.session, tabs[t].nonce)

GoesOn(t) ==
    /\ Sound(t, tabs'[t])
    /\ JoinRow(t)'
    /\ Stream(inbox'[t])
    /\ \A m \in InFlight(t)' : TrueOf(tabs[t].session, m.state)
    /\ tabs[t].left => t \notin admits' \ admits

StartsOver(t) ==
    /\ \E p \in Players : \E n : tabs'[t] = Opened(p, n)
    /\ Stream(inbox'[t])
    /\ InFlight(t)' = {}

TabStep(t) == GoesOn(t) \/ StartsOver(t)

\* Nothing of the tab changes but the place of its request.
Idle(t) ==
    /\ tabs'[t] = tabs[t]
    /\ inbox'[t] = inbox[t] /\ reads'[t] = reads[t] /\ leaves'[t] = leaves[t]
    /\ t \in admits' => t \in admits
    /\ requests'[t].player = requests[t].player
    /\ At(t, "idle")' => At(t, "idle")

\* A step of one tab is none of the others.
OthersIdle(t) == PageTables' /\ \A u \in Tabs \ {t} : Idle(u)

LEMMA SameTab ==
  ASSUME TabRows, NEW t \in Tabs
  PROVE  Sound(t, tabs[t])
  BY DEF TabRows, Sound, ShownIsOwn

LEMMA IdleTab ==
  ASSUME TabRows, MailIsTrue, NEW t \in Tabs, Idle(t)
  PROVE  GoesOn(t)
  <1>1. InFlight(t)' = InFlight(t)
    BY DEF Idle, InFlight
  <1>2. JoinRow(t)'
    BY DEF Idle, TabRows, JoinRow
  <1>3. Sound(t, tabs'[t])
    BY SameTab DEF Idle
  <1> QED
    BY <1>1, <1>2, <1>3 DEF GoesOn, MailIsTrue, Idle, TabRows

\* A response on its way, however late it is applied, leaves the tab sound.
LEMMA HeardTab ==
  ASSUME IInv, DInv, SaleInv, TabRows, MailIsTrue,
         NEW t \in Tabs, NEW m \in InFlight(t), NEW tab, NEW new,
         Sound(t, tab), tab.nonce = tabs[t].nonce,
         Follows(tab, m.state, new)
  PROVE  Sound(t, new)
  <1> DEFINE s == m.state
             p == tabs[t].session
  <1>1. p \in Players /\ TrueOf(p, s)
    BY DEF TabRows, MailIsTrue
  <1>2. s.invoice # NoEntry => Own(p, s.invoice) /\ nonces[s.invoice] # NoNonce
    <2>1. s.invoice # NoEntry => s.invoice \in EntriesOf(p)
      BY <1>1 DEF TrueOf, Own, EntriesOf
    <2>2. s.invoice # NoEntry => nonces[s.invoice] \in Nonces
      <3> HIDE DEF s
      <3> QED
        BY <1>1, <2>1, NonceIsItsOwn
    <2> QED
      BY <1>1, <2>2, DeskAssumption DEF TrueOf
  <1>3. Settles(s, tabs[t].nonce) => Over(p, tabs[t].nonce)
    BY <1>1 DEF TrueOf, Settles
  <1> HIDE DEF s
  <1> QED
    BY <1>2, <1>3 DEF Sound, Follows, s

----------------------------------------------------------------------------
(* The steps of a tab, one by one.                                          *)

\* What a step of the pages starts from.
Before == IInv /\ DInv /\ SaleInv /\ TabRows /\ MailIsTrue

LEMMA RestartStep ==
  ASSUME Before, NEW t \in Tabs, NEW store, Reopen(t, store), UNCHANGED requests,
         DOMAIN store = {"session", "nonce"}, store.session \in Players
  PROVE  OthersIdle(t) /\ TabStep(t)
  <1>1. PageTables
    BY DEF Before, TabRows
  <1>2. OthersIdle(t)
    BY <1>1 DEF Reopen, OthersIdle, PageTables, Idle, At
  <1>3. /\ tabs'[t] = Opened(store.session, store.nonce) /\ inbox'[t] = <<>>
        /\ reads'[t] = Mail("asked") /\ leaves'[t] = Mail("none")
    BY <1>1 DEF Reopen, PageTables
  <1>4. InFlight(t)' = {}
    BY <1>3, EmptyBox DEF InFlight, Box, Mail
  <1> QED
    BY <1>2, <1>3, <1>4, EmptyBox DEF TabStep, StartsOver

\* A response at hand is applied.
LEMMA ApplyStep ==
  ASSUME Before, NEW t \in Tabs, NEW m \in InFlight(t), NEW tab, Apply(t, tab, m.state),
         Sound(t, tab), tab.nonce = tabs[t].nonce, tab.joining = tabs[t].joining,
         UNCHANGED requests
  PROVE  /\ Sound(t, tabs'[t]) /\ JoinRow(t)'
         /\ tabs[t].left => t \notin admits' \ admits
         /\ \A u \in Tabs \ {t} : tabs'[u] = tabs[u] /\ (u \in admits' => u \in admits)
         /\ DOMAIN tabs' = Tabs
         /\ DOMAIN stored' = {"session", "nonce"} /\ stored'.session \in Players
  <1> DEFINE new == ApplyState(tab, m.state)
  <1>1. PageTables /\ JoinRow(t)
    BY DEF Before, TabRows
  <1>2. Follows(tab, m.state, new)
    BY AppliedTab DEF Sound
  <1>3. Sound(t, new)
    BY <1>2, HeardTab DEF Before
  <1>4. tabs' = [tabs EXCEPT ![t] = new]
    BY DEF Apply
  <1>5. stored' = [stored EXCEPT !.nonce = stored'.nonce]
    BY <1>1 DEF Apply, Stores, PageTables
  <1>6. tabs[t].left => t \notin admits' \ admits
    BY DEF Apply, Ignored, Sound
  <1>7. \A u \in Tabs \ {t} : u \in admits' => u \in admits
    BY DEF Apply
  <1> HIDE DEF new
  <1>8. tabs'[t] = new /\ DOMAIN tabs' = Tabs /\ \A u \in Tabs \ {t} : tabs'[u] = tabs[u]
    BY <1>1, <1>4 DEF PageTables
  <1>9. DOMAIN stored' = {"session", "nonce"} /\ stored'.session \in Players
    BY <1>1, <1>5 DEF PageTables
  <1>10. JoinRow(t)'
    BY <1>1, <1>2, <1>3, <1>8 DEF JoinRow, Follows, Sound, At
  <1> QED
    BY <1>3, <1>6, <1>7, <1>8, <1>9, <1>10

\* What is taken from the mail, or only kept, was true.
LEMMA LessMail ==
  ASSUME Before, NEW t \in Tabs,
         {reads'[t], leaves'[t]} \cup Box(inbox'[t])
            \subseteq {reads[t], leaves[t], Mail("none"), Mail("asked"), Mail("begun"), Mail("error")}
                         \cup Box(inbox[t])
  PROVE  \A m \in InFlight(t)' : TrueOf(tabs[t].session, m.state)
  <1>1. InFlight(t)' \subseteq InFlight(t)
    BY DEF InFlight, Box, Mail
  <1> QED
    BY <1>1 DEF Before, MailIsTrue

LEMMA StateArrivesStep ==
  ASSUME Before, NEW t \in Tabs, StateArrives(t)
  PROVE  OthersIdle(t) /\ TabStep(t)
  <1> DEFINE m == Head(inbox[t])
  <1>1. PageTables /\ Stream(inbox[t]) /\ UNCHANGED requests
    BY DEF Before, TabRows, StateArrives, deskVars
  <1>2. CASE Reloads(tabs[t], m.state)
    <2>1. Reopen(t, stored)
      BY <1>2 DEF StateArrives
    <2> QED
      BY <1>1, <2>1, RestartStep DEF PageTables
  <1>3. CASE ~Reloads(tabs[t], m.state)
    <2>1. /\ Apply(t, tabs[t], m.state)
          /\ inbox' = [inbox EXCEPT ![t] = Tail(@)]
          /\ UNCHANGED <<socket, reads, leaves>>
      BY <1>3 DEF StateArrives
    <2>2. m \in Box(inbox[t]) /\ Box(Tail(inbox[t])) \subseteq Box(inbox[t]) /\ Stream(Tail(inbox[t]))
      BY <1>1, HeadBox DEF StateArrives
    <2>3. m \in InFlight(t)
      BY <2>2, FlightIsBox DEF StateArrives
    <2>4. inbox'[t] = Tail(inbox[t]) /\ DOMAIN inbox' = Tabs
             /\ \A u \in Tabs \ {t} : inbox'[u] = inbox[u]
      BY <1>1, <2>1 DEF PageTables
    <2> HIDE DEF m
    <2>5. /\ Sound(t, tabs'[t]) /\ JoinRow(t)'
          /\ tabs[t].left => t \notin admits' \ admits
          /\ \A u \in Tabs \ {t} : tabs'[u] = tabs[u] /\ (u \in admits' => u \in admits)
          /\ DOMAIN tabs' = Tabs
          /\ DOMAIN stored' = {"session", "nonce"} /\ stored'.session \in Players
      BY <1>1, <2>1, <2>3, SameTab, ApplyStep DEF Before
    <2>6. \A x \in InFlight(t)' : TrueOf(tabs[t].session, x.state)
      BY <2>1, <2>2, <2>4, LessMail
    <2>7. OthersIdle(t)
      BY <1>1, <2>1, <2>4, <2>5 DEF OthersIdle, PageTables, Idle, At
    <2> QED
      BY <2>2, <2>4, <2>5, <2>6, <2>7 DEF TabStep, GoesOn
  <1> QED
    BY <1>2, <1>3

LEMMA LeaveArrivesStep ==
  ASSUME Before, NEW t \in Tabs, LeaveArrives(t)
  PROVE  OthersIdle(t) /\ TabStep(t)
  <1> DEFINE tab == LeaveOver(tabs[t])
             m == leaves[t]
  <1>1. PageTables /\ Stream(inbox[t]) /\ UNCHANGED requests
    BY DEF Before, TabRows, LeaveArrives, deskVars
  <1>2. /\ Apply(t, tab, m.state)
        /\ leaves' = [leaves EXCEPT ![t] = Mail("none")]
        /\ UNCHANGED <<socket, inbox, reads>>
    BY DEF LeaveArrives
  <1>3. m \in InFlight(t)
    BY FlightIsBox DEF LeaveArrives
  <1>4. Sound(t, tab) /\ tab.nonce = tabs[t].nonce /\ tab.joining = tabs[t].joining
    BY SameTab DEF Before, Sound, TabRow, LeaveOver, Fields
  <1> HIDE DEF tab, m
  <1>5. /\ Sound(t, tabs'[t]) /\ JoinRow(t)'
        /\ tabs[t].left => t \notin admits' \ admits
        /\ \A u \in Tabs \ {t} : tabs'[u] = tabs[u] /\ (u \in admits' => u \in admits)
        /\ DOMAIN tabs' = Tabs
        /\ DOMAIN stored' = {"session", "nonce"} /\ stored'.session \in Players
    BY <1>1, <1>2, <1>3, <1>4, ApplyStep
  <1>6. leaves'[t] = Mail("none") /\ DOMAIN leaves' = Tabs
           /\ \A u \in Tabs \ {t} : leaves'[u] = leaves[u]
    BY <1>1, <1>2 DEF PageTables
  <1>7. \A x \in InFlight(t)' : TrueOf(tabs[t].session, x.state)
    BY <1>2, <1>6, LessMail
  <1>8. OthersIdle(t)
    BY <1>1, <1>2, <1>5, <1>6 DEF OthersIdle, PageTables, Idle, At
  <1> QED
    BY <1>1, <1>2, <1>5, <1>7, <1>8 DEF TabStep, GoesOn

\* The read that opens the page decides how it goes on; a later one is applied.
LEMMA ReadArrivesStep ==
  ASSUME Before, NEW t \in Tabs, ReadArrives(t)
  PROVE  OthersIdle(t) /\ TabStep(t)
  <1> DEFINE s   == reads[t].state
             tab == IF leaves[t].kind = "none" THEN LeaveOver(tabs[t]) ELSE tabs[t]
             m   == reads[t]
  <1>1. PageTables /\ Stream(inbox[t]) /\ UNCHANGED requests /\ JoinRow(t)
    BY DEF Before, TabRows, ReadArrives, deskVars
  <1>2. m \in InFlight(t)
    BY FlightIsBox DEF ReadArrives
  <1>3. Sound(t, tab) /\ tab.nonce = tabs[t].nonce /\ tab.joining = tabs[t].joining
    <2>1. Sound(t, tabs[t]) /\ DOMAIN tabs[t] = Fields
      BY SameTab DEF Before, Sound, TabRow
    <2> QED
      BY <2>1 DEF Sound, TabRow, LeaveOver, Fields
  <1>4. CASE Reloads(tab, s)
    <2>1. Reopen(t, stored)
      BY <1>4 DEF ReadArrives
    <2> QED
      BY <1>1, <2>1, RestartStep DEF PageTables
  <1>5. CASE ~Reloads(tab, s)
    <2>1. reads' = [reads EXCEPT ![t] = Mail("none")] /\ UNCHANGED <<inbox, leaves>>
      BY <1>5 DEF ReadArrives
    <2>2. reads'[t] = Mail("none") /\ DOMAIN reads' = Tabs
             /\ \A u \in Tabs \ {t} : reads'[u] = reads[u]
      BY <1>1, <2>1 DEF PageTables
    <2>3. \A x \in InFlight(t)' : TrueOf(tabs[t].session, x.state)
      BY <2>1, <2>2, LessMail
    <2> DEFINE Applied ==
           /\ Sound(t, tabs'[t]) /\ JoinRow(t)'
           /\ tabs[t].left => t \notin admits' \ admits
           /\ \A u \in Tabs \ {t} : tabs'[u] = tabs[u] /\ (u \in admits' => u \in admits)
           /\ DOMAIN tabs' = Tabs
           /\ DOMAIN stored' = {"session", "nonce"} /\ stored'.session \in Players
    <2>4. ASSUME tabs[t].phase = "opening" PROVE Applied
      <3> DEFINE heard == ApplyState(tab, s)
                 new   == AfterOpening(heard)
      <3>1. /\ tabs' = [tabs EXCEPT ![t] = new]
            /\ stored' = [stored EXCEPT !.nonce = stored'.nonce]
            /\ UNCHANGED admits
        BY <1>1, <1>5, <2>4 DEF ReadArrives, Stores, PageTables
      <3>2. Follows(tab, s, heard) /\ Sound(t, heard)
        BY <1>2, <1>3, AppliedTab, HeardTab DEF Before, Sound
      <3> HIDE DEF heard
      <3>3. Sound(t, new) /\ new.joining = tabs[t].joining
        BY <1>3, <3>2 DEF Sound, Follows, TabRow, AfterOpening, Fields
      <3> HIDE DEF new
      <3>4. tabs'[t] = new /\ DOMAIN tabs' = Tabs /\ \A u \in Tabs \ {t} : tabs'[u] = tabs[u]
        BY <1>1, <3>1 DEF PageTables
      <3>5. JoinRow(t)'
        BY <1>1, <3>3, <3>4 DEF JoinRow, Sound, At
      <3>6. DOMAIN stored' = {"session", "nonce"} /\ stored'.session \in Players
        BY <1>1, <3>1 DEF PageTables
      <3> QED
        BY <3>1, <3>3, <3>4, <3>5, <3>6
    <2>5. ASSUME tabs[t].phase # "opening" PROVE Applied
      <3>1. Apply(t, tab, m.state)
        BY <1>5, <2>5 DEF ReadArrives
      <3> HIDE DEF tab, m
      <3> QED
        BY <1>1, <1>2, <1>3, <3>1, ApplyStep
    <2>6. Applied
      BY <2>4, <2>5
    <2>7. OthersIdle(t)
      BY <1>1, <2>1, <2>2, <2>6 DEF OthersIdle, PageTables, Idle, At
    <2> QED
      BY <1>1, <2>1, <2>3, <2>6, <2>7 DEF TabStep, GoesOn
  <1> QED
    BY <1>4, <1>5

\* A callback or a click that only changes its tab.
LEMMA TabOnlyStep ==
  ASSUME Before, NEW t \in Tabs, NEW new, tabs' = [tabs EXCEPT ![t] = new],
         Sound(t, new), new.joining => tabs[t].joining,
         OthersIdle(t), UNCHANGED requests, Stream(inbox'[t]),
         {reads'[t], leaves'[t]} \cup Box(inbox'[t])
            \subseteq {reads[t], leaves[t], Mail("none"), Mail("asked"), Mail("begun"), Mail("error")}
                         \cup Box(inbox[t]),
         t \in admits' => t \in admits
  PROVE  TabStep(t)
  <1>1. PageTables /\ JoinRow(t)
    BY DEF Before, TabRows
  <1>2. tabs'[t] = new
    BY <1>1 DEF PageTables
  <1>3. JoinRow(t)'
    BY <1>1, <1>2 DEF JoinRow, Sound, At
  <1> QED
    BY <1>2, <1>3, LessMail DEF TabStep, GoesOn

\* A step of the server, the network or the player that leaves the tab as it is.
LEMMA TabSameStep ==
  ASSUME Before, NEW t \in Tabs, tabs'[t] = tabs[t], Stream(inbox'[t]),
         \A m \in InFlight(t)' : TrueOf(tabs[t].session, m.state),
         tabs[t].left => t \notin admits' \ admits,
         requests'[t].player = requests[t].player, At(t, "idle")' => At(t, "idle")
  PROVE  TabStep(t)
  <1>1. JoinRow(t)'
    BY DEF Before, TabRows, JoinRow
  <1>2. Sound(t, tabs'[t])
    BY SameTab DEF Before
  <1> QED
    BY <1>1, <1>2 DEF TabStep, GoesOn

LEMMA TabOf ==
  ASSUME Before, NEW t \in Tabs
  PROVE  /\ PageTables /\ Stream(inbox[t]) /\ JoinRow(t)
         /\ Sound(t, tabs[t]) /\ DOMAIN tabs[t] = Fields
         /\ tabs[t].session \in Players
  BY SameTab DEF Before, TabRows, TabRow

LEMMA ErrorArrivesStep ==
  ASSUME Before, NEW t \in Tabs, ErrorArrives(t)
  PROVE  OthersIdle(t) /\ TabStep(t)
  <1> DEFINE new == Failed(tabs[t])
  <1>1. /\ tabs' = [tabs EXCEPT ![t] = new]
        /\ inbox' = [inbox EXCEPT ![t] = Tail(@)]
        /\ UNCHANGED <<requests, stored, admits, reads, leaves>>
    BY DEF ErrorArrives, deskVars
  <1>2. Sound(t, new) /\ new.joining = tabs[t].joining
    BY TabOf DEF Sound, TabRow, Failed, Fields
  <1>3. OthersIdle(t)
    BY <1>1, TabOf DEF OthersIdle, PageTables, Idle, At
  <1>4. inbox'[t] = Tail(inbox[t]) /\ Box(Tail(inbox[t])) \subseteq Box(inbox[t])
           /\ Stream(Tail(inbox[t]))
    BY <1>1, TabOf, HeadBox DEF ErrorArrives, PageTables
  <1> HIDE DEF new
  <1> QED
    BY <1>1, <1>2, <1>3, <1>4, TabOnlyStep

LEMMA ReadFailsStep ==
  ASSUME Before, NEW t \in Tabs, ReadFails(t)
  PROVE  OthersIdle(t) /\ TabStep(t)
  <1> DEFINE tab == IF leaves[t].kind = "none" THEN LeaveOver(tabs[t]) ELSE tabs[t]
             new == [tab EXCEPT !.phase = IF @ = "opening" THEN "unavailable" ELSE @]
  <1>1. /\ tabs' = [tabs EXCEPT ![t] = new]
        /\ reads' = [reads EXCEPT ![t] = Mail("none")]
        /\ UNCHANGED <<requests, stored, admits, inbox, leaves>>
    BY DEF ReadFails, deskVars
  <1>2. Sound(t, new) /\ new.joining = tabs[t].joining
    <2>1. Sound(t, tab) /\ tab.joining = tabs[t].joining
      BY TabOf DEF Sound, TabRow, LeaveOver, Fields
    <2> HIDE DEF tab
    <2> QED
      BY <2>1 DEF Sound, TabRow, Fields
  <1>3. OthersIdle(t)
    BY <1>1, TabOf DEF OthersIdle, PageTables, Idle, At
  <1>4. reads'[t] = Mail("none") /\ Stream(inbox'[t])
    BY <1>1, TabOf DEF PageTables
  <1> HIDE DEF new
  <1> QED
    BY <1>1, <1>2, <1>3, <1>4, TabOnlyStep

LEMMA LeaveFailsStep ==
  ASSUME Before, NEW t \in Tabs, LeaveFails(t)
  PROVE  OthersIdle(t) /\ TabStep(t)
  <1>1. /\ leaves' = [leaves EXCEPT ![t] = Mail("none")]
        /\ reads' = [reads EXCEPT ![t] = Mail("asked")]
        /\ UNCHANGED <<requests, tabs, stored, admits, inbox>>
    BY DEF LeaveFails, deskVars
  <1>2. OthersIdle(t)
    BY <1>1, TabOf DEF OthersIdle, PageTables, Idle, At
  <1>3. reads'[t] = Mail("asked") /\ leaves'[t] = Mail("none") /\ Stream(inbox'[t])
    BY <1>1, TabOf DEF PageTables
  <1> QED
    BY <1>1, <1>2, <1>3, LessMail, TabSameStep DEF At

\* The end of a request without an invoice.
LEMMA NotJoinedTab ==
  ASSUME NEW t \in Tabs, Sound(t, tabs[t])
  PROVE  Sound(t, NotJoined(tabs[t])) /\ ~NotJoined(tabs[t]).joining
  <1>1. DOMAIN tabs[t] = Fields
    BY DEF Sound, TabRow
  <1>2. PICK b : NotJoined(tabs[t]) = [tabs[t] EXCEPT !.joining = FALSE, !.overlay = b]
    BY <1>1 DEF NotJoined
  <1> QED
    BY <1>1, <1>2 DEF Sound, TabRow, Fields

LEMMA JoinAbortsStep ==
  ASSUME Before, NEW t \in Tabs, JoinAborts(t)
  PROVE  OthersIdle(t) /\ TabStep(t)
  <1> DEFINE new == NotJoined(tabs[t])
  <1>1. /\ tabs' = [tabs EXCEPT ![t] = new]
        /\ UNCHANGED <<requests, stored, admits, inbox, reads, leaves>>
    BY TabOf DEF JoinAborts, deskVars, PageTables
  <1>2. Sound(t, new) /\ ~new.joining
    BY TabOf, NotJoinedTab
  <1>3. OthersIdle(t)
    BY <1>1, TabOf DEF OthersIdle, PageTables, Idle, At
  <1> HIDE DEF new
  <1> QED
    BY <1>1, <1>2, <1>3, TabOf, TabOnlyStep

LEMMA EngineStep ==
  ASSUME Before, NEW t \in Tabs, AssetsLoad(t) \/ EngineStarts(t) \/ EngineEnters(t)
  PROVE  OthersIdle(t) /\ TabStep(t)
  <1>1. CASE AssetsLoad(t) \/ EngineStarts(t)
    <2>1. PICK phase : tabs' = [tabs EXCEPT ![t].phase = phase]
      BY <1>1 DEF AssetsLoad, EngineStarts, Parks
    <2> DEFINE new == [tabs[t] EXCEPT !.phase = phase]
    <2>2. /\ tabs' = [tabs EXCEPT ![t] = new]
          /\ UNCHANGED <<requests, stored, admits, inbox, leaves>>
          /\ UNCHANGED reads \/ reads' = [reads EXCEPT ![t] = Mail("asked")]
      BY <1>1, <2>1, TabOf DEF AssetsLoad, EngineStarts, Parks, deskVars, PageTables
    <2>3. Sound(t, new) /\ new.joining = tabs[t].joining
      BY TabOf DEF Sound, TabRow, Fields
    <2> HIDE DEF new
    <2>4. OthersIdle(t)
      BY <2>2, TabOf DEF OthersIdle, PageTables, Idle, At
    <2>5. reads'[t] \in {reads[t], Mail("asked")}
      BY <2>2, TabOf DEF PageTables
    <2> QED
      BY <2>2, <2>3, <2>4, <2>5, TabOf, TabOnlyStep
  <1>2. CASE EngineEnters(t)
    <2> DEFINE new == [tabs[t] EXCEPT !.resume = TRUE]
    <2>1. /\ tabs' = [tabs EXCEPT ![t] = new]
          /\ UNCHANGED <<requests, stored, admits, inbox, reads, leaves>>
      BY <1>2, TabOf DEF EngineEnters, deskVars, PageTables
    <2>2. Sound(t, new) /\ new.joining = tabs[t].joining
      BY <1>2, TabOf DEF EngineEnters, Sound, TabRow, Fields
    <2> HIDE DEF new
    <2>3. OthersIdle(t)
      BY <2>1, TabOf DEF OthersIdle, PageTables, Idle, At
    <2> QED
      BY <2>1, <2>2, <2>3, TabOf, TabOnlyStep
  <1> QED
    BY <1>1, <1>2

\* The answer of a request reaches the page that waits for it.
LEMMA JoinAnsweredStep ==
  ASSUME Before, NEW t \in Tabs, JoinAnswered(t)
  PROVE  OthersIdle(t) /\ TabStep(t)
  <1> DEFINE i     == requests[t].invoice
             e     == wallet[i].entry
             shown == ShowInvoice(tabs[t], e)
             new   == IF i = NoId THEN NotJoined(tabs[t]) ELSE [shown EXCEPT !.joining = FALSE]
  <1>1. DeskTypeOK /\ t \in Requests /\ tabs[t].joining /\ At(t, "answered")
    BY TabsAreRequests DEF JoinAnswered, Answered, Before, DInv
  <1>2. /\ tabs' = [tabs EXCEPT ![t] = new]
        /\ stored' = [stored EXCEPT !.nonce = stored'.nonce]
        /\ UNCHANGED <<admits, inbox, leaves>>
        /\ UNCHANGED reads \/ reads' = [reads EXCEPT ![t] = Mail("asked")]
    BY TabOf DEF JoinAnswered, Stores, PageTables
  <1>3. \A d \in Requests \ {t} : requests'[d] = requests[d]
    BY <1>1, StepChange DEF JoinAnswered, Answered
  <1>4. ASSUME i # NoId PROVE Own(tabs[t].session, e) /\ nonces[e] # NoNonce
    <2>1. i \in DOMAIN wallet /\ e \in Entries /\ entries[e].player = requests[t].player
      BY <1>1, <1>4, WalletTyped DEF Before, DInv, RequestRows, RequestRow, Creditable, At
    <2>2. Own(tabs[t].session, e) /\ e \in EntriesOf(tabs[t].session)
      BY <1>1, <2>1, TabOf DEF JoinRow, Own, EntriesOf
    <2>3. nonces[e] \in Nonces
      <3> HIDE DEF e
      <3> QED
        BY <2>2, TabOf, NonceIsItsOwn DEF Before
    <2> QED
      BY <2>2, <2>3, DeskAssumption
  <1>5. ASSUME i # NoId PROVE Sound(t, shown)
    <2>1. Own(tabs[t].session, e) /\ nonces[e] # NoNonce
      BY <1>4, <1>5
    <2> HIDE DEF e
    <2> QED
      BY <2>1, TabOf, ShowInvoiceTab DEF Sound, TabRow
  <1>6. Sound(t, new) /\ ~new.joining
    <2>1. CASE i = NoId
      BY <2>1, TabOf, NotJoinedTab
    <2>2. CASE i # NoId
      <3>1. Sound(t, shown)
        BY <1>5, <2>2
      <3> HIDE DEF shown
      <3> QED
        BY <2>2, <3>1 DEF Sound, TabRow, Fields
    <2> QED
      BY <2>1, <2>2
  <1> HIDE DEF new
  <1>7. tabs'[t] = new /\ Stream(inbox'[t]) /\ reads'[t] \in {reads[t], Mail("asked")}
    BY <1>2, TabOf DEF PageTables
  <1>8. OthersIdle(t)
    BY <1>2, <1>3, TabOf, TabsAreRequests DEF OthersIdle, PageTables, Idle, At
  <1> QED
    BY <1>2, <1>6, <1>7, <1>8, LessMail DEF TabStep, GoesOn, JoinRow

LEMMA SocketStep ==
  ASSUME Before, NEW t \in Tabs, SocketOpens(t) \/ SocketDrops(t) \/ Reload(t)
  PROVE  OthersIdle(t) /\ TabStep(t)
  <1>1. CASE SocketOpens(t)
    <2>1. UNCHANGED <<requests, tabs, stored, admits, inbox, reads, leaves>>
      BY <1>1 DEF SocketOpens, deskVars
    <2>2. OthersIdle(t)
      BY <2>1, TabOf DEF OthersIdle, PageTables, Idle, At
    <2> QED
      BY <2>1, <2>2, TabOf, LessMail, TabSameStep DEF At
  <1>2. CASE SocketDrops(t)
    <2> DEFINE new == Failed(tabs[t])
    <2>1. /\ tabs' = [tabs EXCEPT ![t] = new]
          /\ inbox' = [inbox EXCEPT ![t] = <<>>]
          /\ admits' = admits \ {t}
          /\ UNCHANGED <<requests, stored, reads, leaves>>
      BY <1>2 DEF SocketDrops, deskVars
    <2>2. Sound(t, new) /\ new.joining = tabs[t].joining
      BY TabOf DEF Sound, TabRow, Failed, Fields
    <2>3. OthersIdle(t)
      BY <2>1, TabOf DEF OthersIdle, PageTables, Idle, At
    <2>4. inbox'[t] = <<>>
      BY <2>1, TabOf DEF PageTables
    <2> HIDE DEF new
    <2> QED
      BY <2>1, <2>2, <2>3, <2>4, EmptyBox, TabOnlyStep
  <1>3. CASE Reload(t)
    BY <1>3, TabOf, RestartStep DEF Reload, PageTables, deskVars
  <1> QED
    BY <1>1, <1>2, <1>3

LEMMA CallbackStep ==
  ASSUME Before, NEW t \in Tabs, Callbacks(t)
  PROVE  OthersIdle(t) /\ TabStep(t)
  BY StateArrivesStep, ErrorArrivesStep, ReadArrivesStep, ReadFailsStep, LeaveArrivesStep,
     LeaveFailsStep, JoinAnsweredStep, JoinAbortsStep, EngineStep, SocketStep
  DEF Callbacks

----------------------------------------------------------------------------
(* The steps of the server.                                                 *)

\* The state the server sends is what it believes now.
LEMMA SpeaksStep ==
  ASSUME Before, NEW t \in Tabs, PushState(t) \/ ServeRead(t) \/ AnswerLeave(t)
  PROVE  OthersIdle(t) /\ TabStep(t)
  <1> DEFINE p == tabs[t].session
             m == Told(StateOf(p))
  <1>1. TrueOf(p, m.state)
    BY TabOf, StateIsTrue DEF Before, Told
  <1>2. UNCHANGED <<requests, tabs, stored, admits>>
    BY DEF PushState, ServeRead, AnswerLeave, deskVars
  <1>3. OthersIdle(t)
    BY <1>2, TabOf DEF PushState, ServeRead, AnswerLeave, OthersIdle, PageTables, Idle, At
  <1>4. /\ reads'[t] \in {reads[t], m} /\ leaves'[t] \in {leaves[t], m}
        /\ inbox'[t] \in {inbox[t], Append(inbox[t], m)}
    <2> HIDE DEF m
    <2>1. CASE PushState(t)
      <3>1. inbox' = [inbox EXCEPT ![t] = Append(@, m)] /\ UNCHANGED <<reads, leaves>>
        BY <2>1 DEF PushState, m
      <3> QED
        BY <3>1, TabOf DEF PageTables
    <2>2. CASE ServeRead(t)
      <3>1. reads' = [reads EXCEPT ![t] = m] /\ UNCHANGED <<inbox, leaves>>
        BY <2>2 DEF ServeRead, m
      <3> QED
        BY <3>1, TabOf DEF PageTables
    <2>3. CASE AnswerLeave(t)
      <3>1. leaves' = [leaves EXCEPT ![t] = m] /\ UNCHANGED <<inbox, reads>>
        BY <2>3 DEF AnswerLeave, m
      <3> QED
        BY <3>1, TabOf DEF PageTables
    <2> QED
      BY <2>1, <2>2, <2>3
  <1> HIDE DEF m
  <1>5. Box(inbox'[t]) \subseteq Box(inbox[t]) \cup {m} /\ Stream(inbox'[t])
    BY <1>4, TabOf, MayAppend
  <1>6. InFlight(t)' \subseteq InFlight(t) \cup {m}
    BY <1>4, <1>5 DEF InFlight, Box
  <1>7. \A x \in InFlight(t)' : TrueOf(p, x.state)
    BY <1>1, <1>6 DEF Before, MailIsTrue
  <1> QED
    BY <1>2, <1>3, <1>5, <1>7, TabSameStep DEF At

LEMMA AdmitStep ==
  ASSUME Before, NEW t \in Tabs, ServeAdmit(t)
  PROVE  OthersIdle(t) /\ TabStep(t)
  <1>1. /\ admits' = admits \ {t}
        /\ UNCHANGED <<requests, tabs, stored, reads, leaves>>
        /\ UNCHANGED inbox \/ inbox' = [inbox EXCEPT ![t] = Append(@, Mail("error"))]
    BY DEF ServeAdmit, deskVars
  <1>2. OthersIdle(t)
    BY <1>1, TabOf DEF OthersIdle, PageTables, Idle, At
  <1>3. inbox'[t] \in {inbox[t], Append(inbox[t], Mail("error"))}
    BY <1>1, TabOf DEF PageTables
  <1>4. Box(inbox'[t]) \subseteq Box(inbox[t]) \cup {Mail("error")} /\ Stream(inbox'[t])
    BY <1>3, TabOf, MayAppend
  <1>5. \A m \in InFlight(t)' : TrueOf(tabs[t].session, m.state)
    BY <1>1, <1>4, LessMail
  <1> QED
    BY <1>1, <1>2, <1>4, <1>5, TabSameStep DEF At

LEMMA ServerStep ==
  ASSUME Before, NEW t \in Tabs, Server(t)
  PROVE  OthersIdle(t) /\ TabStep(t)
  <1>0. t \in Requests /\ DInv /\ DeskTypeOK
    BY TabsAreRequests DEF Before, DInv
  <1>1. CASE ServeLeave(t)
    <2>1. /\ leaves' = [leaves EXCEPT ![t] = Mail("begun")]
          /\ UNCHANGED <<requests, tabs, stored, admits, inbox, reads>>
      BY <1>1 DEF ServeLeave, deskVars
    <2>2. OthersIdle(t)
      BY <2>1, TabOf DEF OthersIdle, PageTables, Idle, At
    <2>3. leaves'[t] = Mail("begun") /\ Stream(inbox'[t])
      BY <2>1, TabOf DEF PageTables
    <2> QED
      BY <2>1, <2>2, <2>3, LessMail, TabSameStep DEF At
  <1>2. CASE AnswerUnheard(t)
    <2>1. UNCHANGED pageVars /\ ~tabs[t].joining
      BY <1>2 DEF AnswerUnheard
    <2>2. \A d \in Requests \ {t} : requests'[d] = requests[d]
      BY <1>0, <1>2, StepChange DEF AnswerUnheard, Answered
    <2>3. OthersIdle(t)
      BY <2>1, <2>2, TabOf, TabsAreRequests DEF pageVars, OthersIdle, PageTables, Idle, At
    <2> QED
      BY <2>1, <2>3, TabOf, LessMail DEF pageVars, TabStep, GoesOn, JoinRow
  <1>3. CASE Serve(t) /\ UNCHANGED pageVars
    <2>1. /\ requests'[t].player = requests[t].player
          /\ ~At(t, "idle")'
          /\ \A d \in Requests \ {t} : requests'[d] = requests[d]
      BY <1>0, <1>3, ServePlayer
    <2>2. OthersIdle(t)
      BY <1>3, <2>1, TabOf, TabsAreRequests DEF pageVars, OthersIdle, PageTables, Idle, At
    <2> QED
      BY <1>3, <2>1, <2>2, TabOf, LessMail, TabSameStep DEF pageVars
  <1> QED
    BY <1>1, <1>2, <1>3, SpeaksStep, AdmitStep DEF Server

----------------------------------------------------------------------------
(* The clicks.                                                              *)

LEMMA JoinPayStep ==
  ASSUME Before, NEW t \in Tabs, NEW n \in Nonces, JoinPay(t, n)
  PROVE  OthersIdle(t) /\ TabStep(t)
  <1> DEFINE new == [tabs[t] EXCEPT !.joining = TRUE, !.nonce = n]
             row == [NoRequest EXCEPT !.pc = "reserve", !.player = tabs[t].session, !.nonce = n]
  <1>1. t \in Requests /\ DeskTypeOK /\ ~tabs[t].left
    BY TabsAreRequests DEF Before, DInv, JoinPay, MayJoin
  <1>2. /\ tabs' = [tabs EXCEPT ![t] = new]
        /\ stored' = [stored EXCEPT !.nonce = stored'.nonce]
        /\ UNCHANGED <<admits, inbox, reads, leaves>>
    BY TabOf DEF JoinPay, PageTables
  <1>3. requests'[t] = row /\ \A d \in Requests \ {t} : requests'[d] = requests[d]
    BY <1>1, StepChange DEF JoinPay
  <1>4. row.pc = "reserve" /\ row.player = tabs[t].session
    BY DEF NoRequest
  <1>5. Sound(t, new)
    BY <1>1, TabOf, DeskAssumption DEF Sound, TabRow, Fields
  <1> HIDE DEF new, row
  <1>6. tabs'[t] = new /\ Stream(inbox'[t])
    BY <1>2, TabOf DEF PageTables
  <1>7. JoinRow(t)'
    BY <1>3, <1>4, <1>5, <1>6 DEF JoinRow, Sound, At
  <1>8. OthersIdle(t)
    BY <1>2, <1>3, TabOf, TabsAreRequests DEF OthersIdle, PageTables, Idle, At
  <1> QED
    BY <1>2, <1>5, <1>6, <1>7, <1>8, LessMail DEF TabStep, GoesOn

LEMMA ClickStep ==
  ASSUME Before, NEW t \in Tabs, Clicks(t)
  PROVE  OthersIdle(t) /\ TabStep(t)
  <1>1. CASE JoinRespawn(t)
    <2>1. /\ admits' = admits \cup {t} /\ ~tabs[t].left
          /\ UNCHANGED <<requests, tabs, stored, inbox, reads, leaves>>
      BY <1>1 DEF JoinRespawn, MayJoin, deskVars
    <2>2. OthersIdle(t)
      BY <2>1, TabOf DEF OthersIdle, PageTables, Idle, At
    <2> QED
      BY <2>1, <2>2, TabOf, LessMail, TabSameStep DEF At
  <1>2. ASSUME NEW b \in BOOLEAN,
               \/ tabs' = [tabs EXCEPT ![t].overlay = b]
               \/ tabs' = [tabs EXCEPT ![t].dialog = b],
               UNCHANGED <<requests, stored, admits, inbox, reads, leaves>>
        PROVE  OthersIdle(t) /\ TabStep(t)
    <2>1. PICK new \in {[tabs[t] EXCEPT !.overlay = b], [tabs[t] EXCEPT !.dialog = b]} :
             tabs' = [tabs EXCEPT ![t] = new]
      BY <1>2, TabOf DEF PageTables
    <2>2. Sound(t, new) /\ new.joining = tabs[t].joining
      BY <2>1, TabOf DEF Sound, TabRow, Fields
    <2>3. OthersIdle(t)
      BY <1>2, <2>1, TabOf DEF OthersIdle, PageTables, Idle, At
    <2> QED
      BY <1>2, <2>1, <2>2, <2>3, TabOf, TabOnlyStep
  <1>3. CASE EnterArena(t) \/ Escape(t) \/ ShowLeave(t) \/ KeepPlaying(t)
    BY <1>2, <1>3 DEF EnterArena, Escape, ShowLeave, KeepPlaying, deskVars
  <1>4. CASE ConfirmLeave(t)
    <2> DEFINE new == [tabs[t] EXCEPT !.dialog = FALSE, !.leaveBusy = TRUE, !.leaving = TRUE,
                                      !.admitting = FALSE, !.resume = FALSE]
    <2>1. /\ tabs' = [tabs EXCEPT ![t] = new]
          /\ leaves' = [leaves EXCEPT ![t] = Mail("asked")]
          /\ UNCHANGED <<requests, stored, admits, inbox, reads>>
      BY <1>4 DEF ConfirmLeave, deskVars
    <2>2. Sound(t, new) /\ new.joining = tabs[t].joining
      BY TabOf DEF Sound, TabRow, Fields
    <2> HIDE DEF new
    <2>3. OthersIdle(t)
      BY <2>1, TabOf DEF OthersIdle, PageTables, Idle, At
    <2>4. leaves'[t] = Mail("asked")
      BY <2>1, TabOf DEF PageTables
    <2> QED
      BY <2>1, <2>2, <2>3, <2>4, TabOf, TabOnlyStep
  <1>5. ASSUME NEW p \in Players, JoinAgain(t, p) PROVE OthersIdle(t) /\ TabStep(t)
    <2>1. /\ tabs' = [tabs EXCEPT ![t] = Opened(p, NoNonce)]
          /\ stored' = [session |-> p, nonce |-> NoNonce]
          /\ inbox' = [inbox EXCEPT ![t] = <<>>]
          /\ reads' = [reads EXCEPT ![t] = Mail("asked")]
          /\ leaves' = [leaves EXCEPT ![t] = Mail("none")]
          /\ admits' = admits \ {t}
          /\ UNCHANGED requests
      BY <1>5 DEF JoinAgain, deskVars
    <2>2. OthersIdle(t)
      BY <2>1, TabOf DEF OthersIdle, PageTables, Idle, At
    <2>3. /\ tabs'[t] = Opened(p, NoNonce) /\ inbox'[t] = <<>>
          /\ reads'[t] = Mail("asked") /\ leaves'[t] = Mail("none")
      BY <2>1, TabOf DEF PageTables
    <2>4. InFlight(t)' = {}
      BY <2>3, EmptyBox DEF InFlight, Box, Mail
    <2> QED
      BY <2>2, <2>3, <2>4, EmptyBox DEF TabStep, StartsOver
  <1> QED
    BY <1>1, <1>3, <1>4, <1>5, JoinPayStep DEF Clicks

----------------------------------------------------------------------------
(* Every step, and the invariant.                                           *)

LEMMA WorldStep ==
  ASSUME Before, World
  PROVE  PageTables' /\ \A t \in Tabs : TabStep(t)
  <1>1. UNCHANGED requests /\ UNCHANGED pageVars
    BY WorldRequests DEF World
  <1>2. \A t \in Tabs : Idle(t)
    BY <1>1 DEF pageVars, Idle, At
  <1>3. PageTables'
    BY <1>1 DEF Before, TabRows, PageTables, pageVars
  <1> QED
    BY <1>2, <1>3, IdleTab DEF Before, TabStep

\* Whatever happens, every tab goes on soundly or starts over.
LEMMA TabsStep ==
  ASSUME Before, [PageNext]_allVars
  PROVE  PageTables' /\ \A t \in Tabs : TabStep(t)
  <1>1. ASSUME NEW t \in Tabs, Clicks(t) \/ Callbacks(t) \/ Server(t)
        PROVE  PageTables' /\ \A u \in Tabs : TabStep(u)
    <2>1. OthersIdle(t) /\ TabStep(t)
      BY <1>1, ClickStep, CallbackStep, ServerStep
    <2>2. \A u \in Tabs \ {t} : TabStep(u)
      BY <2>1, IdleTab DEF OthersIdle, Before, TabStep
    <2> QED
      BY <2>1, <2>2 DEF OthersIdle
  <1>2. CASE UNCHANGED allVars
    <2>1. UNCHANGED requests /\ UNCHANGED pageVars
      BY <1>2 DEF allVars, deskVars
    <2>2. \A t \in Tabs : Idle(t)
      BY <2>1 DEF pageVars, Idle, At
    <2>3. PageTables'
      BY <2>1 DEF Before, TabRows, PageTables, pageVars
    <2> QED
      BY <2>2, <2>3, IdleTab DEF Before, TabStep
  <1> QED
    BY <1>1, <1>2, WorldStep DEF PageNext

\* A tab that starts over waits for nothing and shows nothing.
LEMMA OpenedTab ==
  ASSUME NEW p, NEW n
  PROVE  LET new == Opened(p, n)
         IN  /\ TabRow(new) /\ new.session = p /\ new.shown = NoEntry
             /\ ~new.joining /\ new.phase = "opening"
  BY DEF Opened, TabRow, Fields

LEMMA PageStep ==
  ASSUME PageInv, [PageNext]_allVars
  PROVE  PageInv'
  <1>1. Before
    BY DEF PageInv, Before
  <1>2. [DeskNext]_<<vars, deskVars>>
    BY PageDeskStep DEF PageInv
  <1>3. IInv' /\ SInv' /\ DInv' /\ SaleInv'
    BY <1>2, DeskStep, SaleStep DEF PageInv
  <1>4. PageTables' /\ \A t \in Tabs : TabStep(t)
    BY <1>1, TabsStep
  <1>5. ASSUME NEW t \in Tabs, GoesOn(t)
        PROVE  /\ TabRow(tabs[t])' /\ (tabs[t].session \in Players)'
               /\ JoinRow(t)' /\ Stream(inbox[t])'
               /\ (tabs[t].shown # NoEntry => Own(tabs[t].session, tabs[t].shown))'
               /\ (\A m \in InFlight(t) : TrueOf(tabs[t].session, m.state))'
    <2>1. PICK p \in Players : p = tabs[t].session /\ p = tabs'[t].session
      BY <1>1, <1>5, TabOf DEF GoesOn, Sound
    <2>2. ASSUME NEW m \in InFlight(t)' PROVE TrueOf(p, m.state)'
      BY <1>2, <1>5, <2>1, TruthKept DEF PageInv, GoesOn
    <2>3. ASSUME NEW e, e = tabs'[t].shown, e # NoEntry PROVE Own(p, e)'
      BY <1>2, <1>5, <2>1, <2>3, OwnKept DEF PageInv, GoesOn, Sound
    <2>4. (tabs[t].shown # NoEntry => Own(tabs[t].session, tabs[t].shown))'
      BY <2>1, <2>3 DEF Own
    <2>5. (\A m \in InFlight(t) : TrueOf(tabs[t].session, m.state))'
      BY <2>1, <2>2 DEF TrueOf, Over, Own, SameNonce, EntriesOf
    <2>6. TabRow(tabs[t])' /\ (tabs[t].session \in Players)'
      BY <1>5, <2>1 DEF GoesOn, Sound, TabRow
    <2> QED
      BY <1>5, <2>4, <2>5, <2>6 DEF GoesOn
  <1>6. ASSUME NEW t \in Tabs, StartsOver(t)
        PROVE  /\ TabRow(tabs[t])' /\ (tabs[t].session \in Players)'
               /\ JoinRow(t)' /\ Stream(inbox[t])'
               /\ (tabs[t].shown = NoEntry)'
               /\ InFlight(t)' = {}
    BY <1>6, OpenedTab DEF StartsOver, JoinRow, TabRow
  <1>7. TabRows'
    BY <1>4, <1>5, <1>6 DEF TabStep, TabRows, ShownIsOwn
  <1>8. MailIsTrue'
    BY <1>4, <1>5, <1>6 DEF TabStep, MailIsTrue
  <1> QED
    BY <1>3, <1>7, <1>8 DEF PageInv

LEMMA PageInitInv == PageInit => PageInv
  <1> SUFFICES ASSUME PageInit PROVE PageInv
    OBVIOUS
  <1>1. DeskInit /\ IInv /\ SInv /\ DInv
    BY DeskInitInv DEF PageInit
  <1>2. SaleInv
    BY <1>1 DEF DeskInit, SaleInv, LiveIsOpen, EntriesNamed, RequestsNamed, Live, At, NoRequest
  <1>3. PageTables
    BY TabsAreRequests DEF PageInit, PageTables
  <1>4. \A t \in Tabs : /\ tabs[t] = Opened(FirstPlayer, NoNonce)
                        /\ inbox[t] = <<>> /\ InFlight(t) = {}
    BY EmptyBox DEF PageInit, InFlight, Box, Mail
  <1>5. TabRows
    BY <1>3, <1>4, EmptyBox, OpenedTab, TabsAreRequests DEF TabRows, ShownIsOwn, JoinRow
  <1> QED
    BY <1>1, <1>2, <1>4, <1>5 DEF PageInv, MailIsTrue

----------------------------------------------------------------------------
(* What holds of every history of the pages of a browser.                   *)

\* However answers, states and clicks overtake each other, the books agree, every
\* tab is sound and what is still on its way to one was true when it was said.
THEOREM PageInvariance == PageSpec => []PageInv
  BY PageInitInv, PageStep, PTL DEF PageSpec

\* The pages, the network between and the server do nothing to the sale of entries
\* that requests of arbitrary clients could not do: the pages implement EntryDesk,
\* and each of its theorems holds behind them.
THEOREM PageUsesDesk == PageSpec => DeskSpec
  <1>1. PageInit => DeskInit
    BY DEF PageInit
  <1>2. PageInv /\ [PageNext]_allVars => [DeskNext]_<<vars, deskVars>>
    BY PageDeskStep DEF PageInv
  <1> QED
    BY PageInvariance, <1>1, <1>2, PTL DEF PageSpec, DeskSpec

\* showInvoice (public.js): however late the answer with the invoice comes, a page
\* that has left, knows of a closed arena or plays offers no invoice for money.
THEOREM OffersAreSound == PageSpec => []OfferIsSound
  <1>1. PageInv => OfferIsSound
    BY DEF PageInv, TabRows, TabRow, OfferIsSound
  <1> QED
    BY PageInvariance, <1>1, PTL

\* The invoice on a page is one of the session the page is in, whichever requests
\* and states were under way when it was shown: what is paid is not lost.
THEOREM OffersAreOwn == PageSpec => []ShownIsOwn
  <1>1. PageInv => ShownIsOwn
    BY DEF PageInv, TabRows
  <1> QED
    BY PageInvariance, <1>1, PTL

\* "Retire only the specific request confirmed paid or expired by the server"
\* (public.js:280): when a page forgets a nonce, no entry of its session with that
\* nonce can be paid any more, however old the response that said so.
THEOREM RetiredIsSettled == PageSpec => RetiresOnlySettled
  <1> DEFINE Keeps(t) ==
         (/\ tabs[t].nonce # NoNonce
          /\ tabs'[t].nonce = NoNonce
          /\ tabs'[t].phase # "opening")
            => \A e \in EntriesOf(tabs[t].session) : nonces[e] = tabs[t].nonce => ~Live(e)
  <1>1. ASSUME PageInv, [PageNext]_allVars, NEW t \in Tabs PROVE Keeps(t)
    <2>1. TabStep(t)
      BY <1>1, TabsStep DEF PageInv, Before
    <2>2. CASE StartsOver(t)
      BY <2>2, OpenedTab DEF StartsOver
    <2>3. CASE GoesOn(t)
      BY <2>3 DEF GoesOn, Sound, Over, SameNonce
    <2> QED
      BY <2>1, <2>2, <2>3 DEF TabStep
  <1>2. PageInv /\ [PageNext]_allVars => [\A t \in Tabs : Keeps(t)]_allVars
    BY <1>1
  <1> QED
    BY PageInvariance, <1>2, PTL DEF PageSpec, RetiresOnlySettled

\* A page that has left stays so until its player joins again: no late state, read
\* or answer brings the game, the form or an invoice back, or admits the player.
THEOREM LeavingIsFinal == PageSpec => LeftIsFinal
  <1> DEFINE Keeps(t) ==
         (tabs[t].left /\ tabs'[t].phase # "opening")
            => /\ tabs'[t].left
               /\ ~tabs'[t].form /\ ~tabs'[t].resume /\ tabs'[t].shown = NoEntry
               /\ tabs'[t].seat = NoId
               /\ t \notin admits' \ admits
  <1>1. ASSUME PageInv, [PageNext]_allVars, NEW t \in Tabs PROVE Keeps(t)
    <2>1. TabStep(t)
      BY <1>1, TabsStep DEF PageInv, Before
    <2>2. CASE StartsOver(t)
      BY <2>2, OpenedTab DEF StartsOver
    <2>3. CASE GoesOn(t)
      BY <2>3 DEF GoesOn, Sound, TabRow
    <2> QED
      BY <2>1, <2>2, <2>3 DEF TabStep
  <1>2. PageInv /\ [PageNext]_allVars => [\A t \in Tabs : Keeps(t)]_allVars
    BY <1>1
  <1> QED
    BY PageInvariance, <1>2, PTL DEF PageSpec, LeftIsFinal

\* Behind the pages as well, an answer names an invoice its player's entry waits for.
THEOREM PageAnswersAreCreditable == PageSpec => []ShownIsCreditable
  BY PageUsesDesk, AnswersAreCreditable, PTL

\* And the entries the pages buy are accounts: a payment buys its lives once.
THEOREM PageImplementsAccount == PageSpec => ImplementsAccount
  BY PageUsesDesk, DeskImplementsAccount, PTL
=============================================================================
