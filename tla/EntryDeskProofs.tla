---------------------------- MODULE EntryDeskProofs ----------------------------
(***************************************************************************)
(* Proofs about the sale of entries.  The desk is a client of the ledger:  *)
(* each of its steps is a step of LifeLedger or leaves the tables alone,   *)
(* so what LifeLedgerProofs shows of the ledger holds here as well.  DInv  *)
(* relates the wallet, the hashes in the ledger and what each request has  *)
(* in hand.                                                                *)
(***************************************************************************)
EXTENDS EntryDeskProps, LifeLedgerProofs, SequenceTheorems, WellFoundedInduction

\* An invoice is issued for a row in use.
WalletRows == \A i \in DOMAIN wallet : entries[wallet[i].entry].status # "none"

\* The hash in a row is that of an invoice issued for it.
HashRows ==
    \A e \in Entries : hashes[e] # NoId =>
        hashes[e] \in DOMAIN wallet /\ wallet[hashes[e]].entry = e

\* What is about to be settled has been paid.
PaidNotes ==
    /\ \A i \in events : wallet[i].status = "paid"
    /\ recovery.settling # NoId =>
          /\ recovery.settling \in DOMAIN wallet
          /\ wallet[recovery.settling].status = "paid"

\* The row of the player waits for the invoice of the request.
Creditable(c) ==
    LET i == requests[c].invoice
    IN  /\ i \in DOMAIN wallet
        /\ hashes[wallet[i].entry] = i
        /\ entries[wallet[i].entry].player = requests[c].player

\* A request is a player's and holds a row of that player.  Until it has the
\* invoice it asks for the row has none, and until it answers the invoice it
\* has in hand is the one of the row.
RequestRow(c) ==
    /\ At(c, "reserve") => requests[c].player \in Players
    /\ requests[c].pc \in {"create", "record", "read"} =>
          /\ requests[c].entry \in Entries
          /\ entries[requests[c].entry].player = requests[c].player
          /\ entries[requests[c].entry].status # "none"
    /\ At(c, "create") => \A i \in DOMAIN wallet : wallet[i].entry # requests[c].entry
    /\ At(c, "record") =>
          /\ requests[c].invoice \in DOMAIN wallet
          /\ wallet[requests[c].invoice].entry = requests[c].entry
    /\ requests[c].pc \in {"arena", "player", "answered"} /\ requests[c].invoice # NoId
          => Creditable(c)

RequestRows == \A c \in Requests : RequestRow(c)

\* No two requests are about to have an invoice issued for one row.
OneIssuer ==
    \A c, d \in Requests :
        At(c, "create") /\ At(d, "create") /\ requests[c].entry = requests[d].entry => c = d

DInv ==
    /\ DeskTypeOK
    /\ NonceNamesOneEntry
    /\ WalletRows /\ HashRows /\ OneInvoicePerEntry /\ CreditIsPaid
    /\ PaidNotes
    /\ RequestRows /\ OneIssuer

----------------------------------------------------------------------------
(* The desk is a client of the ledger.                                      *)

LEMMA DeskBounds == 1 \in RunIds /\ MaxInvoices \in Nat /\ MaxCrashes \in Nat
  BY DeskAssumption, Zenon

LEMMA DeskLedgerInit == DeskInit => IInv /\ SInv
  <1> SUFFICES ASSUME DeskInit PROVE IInv /\ SInv
    OBVIOUS
  <1>1. TypeOK
    <2>1. runs \in [RunIds -> Run]
      BY BoundAssumption DEF DeskInit, Run
    <2>2. arena \in Arena
      <3>1. 1 \in 0 .. MaxRuns
        BY BoundAssumption, DeskBounds DEF RunIds
      <3>2. arena = [active |-> TRUE, admin_closed |-> FALSE, run_id |-> 1,
                     leased |-> TRUE, idle |-> "null"]
        BY DEF DeskInit
      <3> QED
        BY <3>1, <3>2 DEF Arena
    <2>3. lives \in [LifeIds -> Life] /\ entries \in [Entries -> Entry]
      BY BoundAssumption DEF DeskInit, Life, Entry
    <2>4. /\ participants \in [Players -> Participant]
          /\ payouts \in [LifeIds -> 0 .. MaxLives]
          /\ refunds \in [Entries -> 0 .. LivesPerEntry]
      BY Ranges DEF DeskInit, Participant, NoId
    <2> QED
      BY <2>1, <2>2, <2>3, <2>4 DEF TypeOK
  <1>2. \A e \in Entries : Cardinality(DeadOf(e)) = 0
    <2>1. \A e \in Entries : DeadOf(e) = {}
      BY DEF DeskInit, DeadOf
    <2> QED
      BY <2>1, FS_EmptySet
  <1>3. LivesConserved
    <2>1. \A e \in Entries : /\ entries[e].remaining = 0
                             /\ entries[e].status = "none"
                             /\ refunds[e] = 0
      BY DEF DeskInit
    <2> QED
      BY <1>2, <2>1 DEF LivesConserved
  <1>4. EntryRows /\ LifeRows /\ RefundedHasLeft /\ LeaverIsSettled
    BY DEF DeskInit, EntryRows, LifeRows, RefundedHasLeft, LeaverIsSettled
  <1>5. OneUsableLife /\ FundedLife
    BY DEF DeskInit, OneUsableLife, FundedLife, UsableOf, UsableStatus, Usable
  <1>6. SlotsExclusive /\ EndedRunIsEmpty /\ PayoutsJustified
    BY DEF DeskInit, SlotsExclusive, EndedRunIsEmpty, PayoutsJustified, AliveIn, AliveLives
  <1>7. RunRows /\ ClosureIsFinal /\ ExpiredArenaOwesNothing
    BY DEF DeskInit, RunRows, ClosureIsFinal, ExpiredArenaOwesNothing, RunIds
  <1>8. OneLiveInvoice
    BY DEF DeskInit, OneLiveInvoice, EntriesOf, Live
  <1>9. \A r \in RunIds : Cardinality(DeadIn(r)) <= runs[r].sequence
    <2>1. \A r \in RunIds : DeadIn(r) = {} /\ runs[r].sequence = 0
      BY DEF DeskInit, DeadIn
    <2> QED
      BY <2>1, FS_EmptySet
  <1> QED
    BY <1>1, <1>3, <1>4, <1>5, <1>6, <1>7, <1>8, <1>9
    DEF IInv, SInv, DeathsAreJournaled, DeadIn

LEMMA ElsewhereLedger == Elsewhere => Next
  <1>1. 1 \in RunIds /\ NoId \in LifeIds \cup {NoId}
    BY DeskAssumption
  <1> QED
    BY <1>1 DEF Elsewhere, Next, EntryStep, LifeStep, LeaveStep, ArenaStep

LEMMA WalletTyped ==
  ASSUME DeskTypeOK
  PROVE  /\ Len(wallet) \in Nat
         /\ DOMAIN wallet = 1 .. Len(wallet)
         /\ DOMAIN wallet \subseteq Invoices
         /\ \A i \in DOMAIN wallet :
               /\ wallet[i].entry \in Entries
               /\ wallet[i].status \in {"open", "paid", "lapsed"}
               /\ wallet[i] = [entry |-> wallet[i].entry, status |-> wallet[i].status]
         /\ NoId \notin DOMAIN wallet
  <1> DEFINE Row == [entry: Entries, status: {"open", "paid", "lapsed"}]
  <1>1. wallet \in Seq(Row) /\ Len(wallet) <= MaxInvoices
    BY DEF DeskTypeOK
  <1>2. Len(wallet) \in Nat /\ DOMAIN wallet = 1 .. Len(wallet) /\ wallet \in [1 .. Len(wallet) -> Row]
    BY <1>1, LenProperties
  <1>3. \A i \in DOMAIN wallet : wallet[i] \in Row
    BY <1>2
  <1>4. \A i \in DOMAIN wallet :
           /\ wallet[i].entry \in Entries
           /\ wallet[i].status \in {"open", "paid", "lapsed"}
           /\ wallet[i] = [entry |-> wallet[i].entry, status |-> wallet[i].status]
    BY <1>3
  <1>5. NoId \notin DOMAIN wallet
    BY <1>2 DEF NoId
  <1>6. DOMAIN wallet \subseteq Invoices
    BY <1>1, <1>2, DeskBounds DEF Invoices
  <1> QED
    BY <1>2, <1>4, <1>5, <1>6

\* The settlement of a payment of the wallet is one of settle_entry's three.
LEMMA SettledLedger ==
  ASSUME DeskTypeOK, NEW i \in DOMAIN wallet, Settled(i)
  PROVE  EntryStep \/ UNCHANGED vars
  <1>1. wallet[i].entry \in Entries
    BY WalletTyped
  <1> QED
    BY <1>1 DEF Settled, EntryStep

LEMMA RecordLedger ==
  ASSUME NEW e \in Entries, NEW i, Record(e, i)
  PROVE  EntryStep \/ UNCHANGED vars
  BY DEF Record, EntryStep

\* Every step of the desk is one transaction of the ledger or none.
LEMMA DeskLedgerStep ==
  ASSUME DInv, [DeskNext]_<<vars, deskVars>>
  PROVE  [Next]_vars
  <1>0. DeskTypeOK
    BY DEF DInv
  <1>1. ASSUME NEW c \in Requests, ReserveNew(c) PROVE EntryStep
    BY <1>1 DEF ReserveNew, EntryStep, DInv, RequestRows, RequestRow
  <1>2. ASSUME NEW c \in Requests, RecordIssued(c) PROVE EntryStep \/ UNCHANGED vars
    BY <1>2, RecordLedger DEF RecordIssued, DInv, RequestRows, RequestRow, At
  <1>3. ASSUME NEW i \in Invoices, Notified(i) PROVE EntryStep \/ UNCHANGED vars
    BY <1>0, <1>3, SettledLedger DEF Notified, DeskTypeOK
  <1>4. ASSUME SettleFound PROVE EntryStep \/ UNCHANGED vars
    BY <1>0, <1>4, SettledLedger DEF SettleFound, DInv, PaidNotes
  <1>5. ASSUME NEW row \in recovery.rows, LookUp(row) PROVE EntryStep \/ UNCHANGED vars
    <2>1. row.id \in Entries
      BY <1>0 DEF DeskTypeOK, Recovery
    <2> QED
      BY <1>5, <2>1, RecordLedger DEF LookUp
  <1>6. ASSUME NEW c \in Requests,
               \/ ReserveExisting(c) \/ ReserveRefused(c) \/ WalletIssues(c) \/ WalletFails(c)
               \/ RecordFails(c) \/ ReadRow(c) \/ CheckArena(c) \/ CheckPlayer(c) \/ Answered(c)
        PROVE  UNCHANGED vars
    BY <1>6 DEF ReserveExisting, ReserveRefused, WalletIssues, WalletFails, RecordFails, ReadRow,
                CheckArena, CheckPlayer, Answered
  <1>7. ASSUME NEW c \in Requests, NEW p \in Players, NEW n \in Nonces, Ask(c, p, n)
        PROVE  UNCHANGED vars
    BY <1>7 DEF Ask
  <1>8. ASSUME \/ \E i \in Invoices : Pay(i) \/ Lapse(i) \/ LoseEvent(i)
               \/ ReadBatch \/ Deferred \/ DeskCrashes
        PROVE  UNCHANGED vars
    BY <1>8 DEF Pay, Lapse, LoseEvent, ReadBatch, Deferred, DeskCrashes
  <1>9. CASE UNCHANGED <<vars, deskVars>>
    BY <1>9
  <1>10. EntryStep => Next
    BY DEF Next
  <1> QED
    BY <1>1, <1>2, <1>3, <1>4, <1>5, <1>6, <1>7, <1>8, <1>9, <1>10, ElsewhereLedger
    DEF DeskNext, Serve, Payments

----------------------------------------------------------------------------
(* What a step does to the tables the desk reads.                           *)

LEMMA SettleRows ==
  ASSUME IInv, NEW e \in Entries, SettleEntry(e) \/ SettleWhileLeaving(e) \/ SettleAfterLeave(e)
  PROVE  /\ entries'[e].player = entries[e].player
         /\ entries'[e].status = "paid"
         /\ \A d \in Entries \ {e} : entries'[d] = entries[d]
  <1>1. entries \in [Entries -> Entry]
    BY DEF IInv, TypeOK
  <1>2. \E n \in {0, LivesPerEntry} : entries' = [entries EXCEPT ![e] = Credited(@, n)]
    BY DEF SettleEntry, SettleWhileLeaving, SettleAfterLeave
  <1> QED
    BY <1>1, <1>2 DEF Credited, Entry

\* The row of an entry in use keeps its player and never returns to "none".
LEMMA EntryKept ==
  ASSUME IInv, [Next]_vars
  PROVE  \A e \in Entries : entries[e].status # "none" =>
            /\ entries'[e].player = entries[e].player
            /\ entries'[e].status # "none"
            /\ entries[e].status = "paid" => entries'[e].status = "paid"
  <1> DEFINE Kept == \A e \in Entries : entries[e].status # "none" =>
                        /\ entries'[e].player = entries[e].player
                        /\ entries'[e].status # "none"
                        /\ entries[e].status = "paid" => entries'[e].status = "paid"
  <1>1. entries \in [Entries -> Entry]
    BY DEF IInv, TypeOK
  <1>2. UNCHANGED entries => Kept
    OBVIOUS
  <1>3. ASSUME NEW p \in Players, NEW e \in Entries, ReserveEntry(p, e) PROVE Kept
    BY <1>1, <1>3 DEF ReserveEntry, NextRow
  <1>4. ASSUME NEW e \in Entries, RecordInvoice(e) PROVE Kept
    BY <1>1, <1>4 DEF RecordInvoice, Entry
  <1>5. ASSUME NEW e \in Entries, InvoiceExpires(e) PROVE Kept
    BY <1>1, <1>5 DEF InvoiceExpires, Entry
  <1>6. ASSUME NEW e \in Entries, SettleEntry(e) \/ SettleWhileLeaving(e) \/ SettleAfterLeave(e)
        PROVE  Kept
    BY <1>6, SettleRows
  <1>7. ASSUME NEW r \in RunIds, NEW v \in LifeIds, NEW k \in LifeIds \cup {NoId},
               ConsumeDeath(r, v, k)
        PROVE  Kept
    BY <1>7, KillRows
  <1>8. ASSUME NEW p \in Players, NEW r \in RunIds \cup {NoId}, FinishLeave(p, r) PROVE Kept
    BY <1>1, <1>8 DEF FinishLeave, Entry
  <1>9. ASSUME UNCHANGED vars \/ ArenaStep \/ \E p \in Players : RequestLeave(p) PROVE Kept
    BY <1>2, <1>9 DEF vars, ArenaStep, LeaseArena, StartRun, RecoverRun, StopRun, LeaseExpires,
                      CloseGame, ExpireGame, RequestLeave
  <1>10. ASSUME NEW p \in Players, NEW r \in RunIds, NEW l \in LifeIds, NEW s \in Slots,
                ResumeLife(p, r, l, s) \/ NewLife(p, r, l, s)
         PROVE  Kept
    BY <1>2, <1>10 DEF ResumeLife, NewLife
  <1>11. ASSUME NEW r \in RunIds, NEW v \in LifeIds, SkipDeath(r, v) PROVE Kept
    BY <1>2, <1>11 DEF SkipDeath
  <1> HIDE DEF Kept
  <1>12. Kept
    BY <1>3, <1>4, <1>5, <1>6, <1>7, <1>8, <1>9, <1>10, <1>11
    DEF Next, EntryStep, LifeStep, LeaveStep
  <1> QED
    BY <1>12 DEF Kept

\* No row changes its player and none becomes paid.
SameRows ==
    \A e \in Entries : /\ entries'[e].player = entries[e].player
                       /\ entries'[e].status = "paid" => entries[e].status = "paid"

LEMMA ElsewhereRows ==
  ASSUME IInv, Elsewhere
  PROVE  SameRows
  <1>1. entries \in [Entries -> Entry]
    BY DEF IInv, TypeOK
  <1>2. ASSUME NEW e \in Entries, InvoiceExpires(e) PROVE SameRows
    BY <1>1, <1>2 DEF InvoiceExpires, Entry, SameRows
  <1>3. ASSUME NEW v \in LifeIds, ConsumeDeath(1, v, NoId) PROVE SameRows
    BY <1>3, KillRows, DeskBounds DEF SameRows
  <1>4. ASSUME NEW p \in Players, FinishLeave(p, 1) PROVE SameRows
    BY <1>1, <1>4 DEF FinishLeave, Entry, SameRows
  <1>5. UNCHANGED entries => SameRows
    BY DEF SameRows
  <1>6. ASSUME NEW p \in Players, NEW l \in LifeIds, NEW s \in Slots,
               ResumeLife(p, 1, l, s) \/ NewLife(p, 1, l, s)
        PROVE  SameRows
    BY <1>5, <1>6 DEF ResumeLife, NewLife
  <1>7. ASSUME CloseGame \/ \E p \in Players : RequestLeave(p) PROVE SameRows
    BY <1>5, <1>7 DEF CloseGame, RequestLeave
  <1> QED
    BY <1>2, <1>3, <1>4, <1>6, <1>7 DEF Elsewhere

\* record_invoice writes the hash of an invoice into a row that has none.
LEMMA RecordChange ==
  ASSUME IInv, DeskTypeOK, NEW e \in Entries, NEW i \in Invoices, Record(e, i)
  PROVE  /\ SameRows
         /\ hashes' \in [Entries -> Invoices \cup {NoId}]
         /\ \A d \in Entries : hashes'[d] # hashes[d] => d = e /\ hashes[e] = NoId /\ hashes'[e] = i
  <1>1. entries \in [Entries -> Entry] /\ hashes \in [Entries -> Invoices \cup {NoId}]
    BY DEF IInv, TypeOK, DeskTypeOK
  <1>2. CASE UNCHANGED <<vars, hashes>>
    BY <1>1, <1>2 DEF vars, SameRows
  <1>3. CASE RecordInvoice(e) /\ hashes[e] = NoId /\ hashes' = [hashes EXCEPT ![e] = i]
    <2>1. SameRows
      BY <1>1, <1>3 DEF RecordInvoice, Entry, SameRows
    <2> QED
      BY <1>1, <1>3, <2>1
  <1> QED
    BY <1>2, <1>3 DEF Record

\* settle_entry writes the hash of the payment and pays the row, or does nothing.
LEMMA SettledChange ==
  ASSUME IInv, DeskTypeOK, NEW i \in DOMAIN wallet, Settled(i)
  PROVE  LET e == wallet[i].entry
         IN  /\ hashes' \in [Entries -> Invoices \cup {NoId}]
             /\ \A d \in Entries : entries'[d].player = entries[d].player
             /\ \A d \in Entries : hashes'[d] # hashes[d] =>
                   d = e /\ hashes[e] = NoId /\ hashes'[e] = i
             /\ \A d \in Entries : entries'[d].status = "paid" /\ entries[d].status # "paid" =>
                   d = e /\ hashes'[e] = i
  <1> DEFINE e == wallet[i].entry
  <1>1. entries \in [Entries -> Entry] /\ hashes \in [Entries -> Invoices \cup {NoId}]
    BY DEF IInv, TypeOK, DeskTypeOK
  <1>2. e \in Entries /\ i \in Invoices
    BY WalletTyped
  <1>3. CASE UNCHANGED <<vars, hashes>>
    BY <1>1, <1>3 DEF vars
  <1>4. CASE /\ Matches(i)
             /\ SettleEntry(e) \/ SettleWhileLeaving(e) \/ SettleAfterLeave(e)
             /\ hashes' = [hashes EXCEPT ![e] = i]
    <2>1. \A d \in Entries : /\ entries'[d].player = entries[d].player
                             /\ d # e => entries'[d] = entries[d]
      BY <1>2, <1>4, SettleRows
    <2>2. hashes[e] \in {NoId, i}
      BY <1>4 DEF Matches
    <2>3. \A d \in Entries : hashes'[d] = IF d = e THEN i ELSE hashes[d]
      BY <1>1, <1>2, <1>4
    <2>4. hashes' \in [Entries -> Invoices \cup {NoId}]
      BY <1>1, <1>2, <1>4
    <2> QED
      BY <1>2, <2>1, <2>2, <2>3, <2>4
  <1> QED
    BY <1>3, <1>4 DEF Settled

\* The wallet issues one more invoice.
LEMMA IssuedChange ==
  ASSUME DeskTypeOK, NEW e \in Entries, Len(wallet) < MaxInvoices, wallet' = Issued(e)
  PROVE  /\ wallet' \in Seq([entry: Entries, status: {"open", "paid", "lapsed"}])
         /\ Len(wallet') <= MaxInvoices
         /\ DOMAIN wallet' = DOMAIN wallet \cup {Len(wallet) + 1}
         /\ Len(wallet) + 1 \in Invoices \ DOMAIN wallet
         /\ \A i \in DOMAIN wallet : wallet'[i] = wallet[i]
         /\ wallet'[Len(wallet) + 1].entry = e
  <1> DEFINE Row == [entry: Entries, status: {"open", "paid", "lapsed"}]
             new == [entry |-> e, status |-> "open"]
  <1>1. wallet \in Seq(Row) /\ new \in Row
    BY DEF DeskTypeOK
  <1>2. wallet' = Append(wallet, new)
    BY DEF Issued
  <1> HIDE DEF Row
  <1>3. /\ wallet' \in Seq(Row)
        /\ Len(wallet') = Len(wallet) + 1
        /\ \A i \in 1 .. Len(wallet) : wallet'[i] = wallet[i]
        /\ wallet'[Len(wallet) + 1] = new
    BY <1>1, <1>2, AppendProperties
  <1>4. /\ Len(wallet) \in Nat /\ DOMAIN wallet = 1 .. Len(wallet)
        /\ DOMAIN wallet' = 1 .. Len(wallet')
    BY <1>1, <1>3, LenProperties
  <1> QED
    BY <1>3, <1>4, DeskBounds DEF Invoices, Row

\* The wallet changes the status of an invoice.
LEMMA StatusChange ==
  ASSUME DeskTypeOK, NEW i \in DOMAIN wallet, NEW status \in {"paid", "lapsed"},
         wallet' = [wallet EXCEPT ![i].status = status]
  PROVE  /\ wallet' \in Seq([entry: Entries, status: {"open", "paid", "lapsed"}])
         /\ Len(wallet') = Len(wallet)
         /\ DOMAIN wallet' = DOMAIN wallet
         /\ \A j \in DOMAIN wallet :
               /\ wallet'[j].entry = wallet[j].entry
               /\ wallet'[j].status = IF j = i THEN status ELSE wallet[j].status
               /\ j # i => wallet'[j] = wallet[j]
  <1> DEFINE Row == [entry: Entries, status: {"open", "paid", "lapsed"}]
             new == [wallet[i] EXCEPT !.status = status]
  <1>1. wallet \in Seq(Row) /\ DOMAIN wallet = 1 .. Len(wallet)
    BY WalletTyped DEF DeskTypeOK
  <1>2. wallet[i] \in Row
    BY <1>1, ElementOfSeq
  <1>3. new \in Row /\ new.entry = wallet[i].entry /\ new.status = status
    BY <1>2
  <1>4. wallet' = [wallet EXCEPT ![i] = new]
    OBVIOUS
  <1> HIDE DEF Row, new
  <1>5. /\ wallet' \in Seq(Row)
        /\ Len(wallet') = Len(wallet)
        /\ \A j \in 1 .. Len(wallet) : wallet'[j] = IF j = i THEN new ELSE wallet[j]
    BY <1>1, <1>3, <1>4, ExceptSeq
  <1>6. DOMAIN wallet' = 1 .. Len(wallet')
    BY <1>5, LenProperties
  <1> QED
    BY <1>1, <1>3, <1>5, <1>6 DEF Row

----------------------------------------------------------------------------
(* The kinds of steps, by the tables they write.                            *)

\* The wallet issues an invoice for the row of request c, which it has not yet.
IssuedFor(c) ==
    /\ At(c, "create") /\ ~At(c, "create")'
    /\ Len(wallet) < MaxInvoices
    /\ wallet' = Issued(requests[c].entry)
    /\ \A d \in Requests \ {c} : requests'[d] = requests[d]
    /\ UNCHANGED <<vars, nonces, hashes>>

\* The wallet marks an open invoice as paid or lapsed.
Marked(i, status) ==
    /\ wallet[i].status = "open"
    /\ wallet' = [wallet EXCEPT ![i].status = status]
    /\ UNCHANGED <<vars, nonces, hashes, requests>>

\* The hash of invoice i is recorded in the row it was issued for.
RecordedFor(e, i) ==
    /\ wallet[i].entry = e
    /\ Record(e, i)
    /\ UNCHANGED <<nonces, wallet>>

\* A payment the wallet has received is settled.
Credits(i) ==
    /\ wallet[i].status = "paid"
    /\ Settled(i)
    /\ UNCHANGED <<nonces, wallet, requests>>

LEMMA StepChange ==
  ASSUME DeskTypeOK, NEW c \in Requests, NEW row, Step(c, row)
  PROVE  /\ requests'[c] = row
         /\ \A d \in Requests \ {c} : requests'[d] = requests[d]
  BY DEF DeskTypeOK, Step

LEMMA RefuseChange ==
  ASSUME DeskTypeOK, NEW c \in Requests, Refuse(c)
  PROVE  /\ requests'[c] = [pc |-> "answered", player |-> requests[c].player, nonce |-> NoNonce,
                            entry |-> NoEntry, invoice |-> NoId]
         /\ \A d \in Requests \ {c} : requests'[d] = requests[d]
  <1>1. requests'[c] = [NoRequest EXCEPT !.pc = "answered", !.player = requests[c].player]
    BY StepChange DEF Refuse
  <1> QED
    BY <1>1, StepChange DEF Refuse, NoRequest

LEMMA IssuedKind ==
  ASSUME DInv, NEW c \in Requests, WalletIssues(c) \/ WalletFails(c)
  PROVE  IssuedFor(c) \/ UNCHANGED <<vars, nonces, hashes, wallet>>
  <1>1. DeskTypeOK /\ requests \in [Requests -> Request]
    BY DEF DInv, DeskTypeOK
  <1>2. CASE WalletIssues(c)
    <2>1. /\ Step(c, [requests[c] EXCEPT !.pc = "record", !.invoice = Len(wallet) + 1])
          /\ At(c, "create") /\ Len(wallet) < MaxInvoices
          /\ wallet' = Issued(requests[c].entry)
          /\ UNCHANGED <<vars, nonces, hashes>>
      BY <1>2 DEF WalletIssues
    <2>2. /\ requests'[c] = [requests[c] EXCEPT !.pc = "record", !.invoice = Len(wallet) + 1]
          /\ \A d \in Requests \ {c} : requests'[d] = requests[d]
      BY <1>1, <2>1, StepChange
    <2>3. requests'[c].pc = "record"
      BY <1>1, <2>2 DEF Request
    <2> QED
      BY <2>1, <2>2, <2>3 DEF IssuedFor, At
  <1>3. CASE WalletFails(c)
    <2>1. requests'[c].pc = "answered" /\ \A d \in Requests \ {c} : requests'[d] = requests[d]
      <3>1. Refuse(c)
        BY <1>3 DEF WalletFails
      <3>2. requests'[c] = [pc |-> "answered", player |-> requests[c].player, nonce |-> NoNonce,
                            entry |-> NoEntry, invoice |-> NoId]
        BY <1>1, <3>1, RefuseChange
      <3> QED
        BY <1>1, <3>1, <3>2, RefuseChange
    <2> QED
      BY <1>3, <2>1 DEF WalletFails, IssuedFor, At
  <1> QED
    BY <1>2, <1>3

LEMMA LookUpKind ==
  ASSUME DInv, NEW row \in recovery.rows, LookUp(row)
  PROVE  \/ UNCHANGED <<vars, nonces, hashes, wallet>>
         \/ \E e \in Entries, i \in DOMAIN wallet : RecordedFor(e, i)
  <1>1. row.id \in Entries
    BY DEF DInv, DeskTypeOK, Recovery
  <1>2. ASSUME NEW i \in Found(row), row.hash = NoId
        PROVE  i \in DOMAIN wallet /\ wallet[i].entry = row.id
    BY <1>2 DEF Found
  <1> QED
    BY <1>1, <1>2 DEF LookUp, RecordedFor

LEMMA DeskKinds ==
  ASSUME DInv, [DeskNext]_<<vars, deskVars>>
  PROVE  \/ UNCHANGED <<vars, nonces, hashes, wallet>>
         \/ \E c \in Requests : ReserveNew(c) \/ IssuedFor(c)
         \/ \E i \in DOMAIN wallet, status \in {"paid", "lapsed"} : Marked(i, status)
         \/ \E e \in Entries, i \in DOMAIN wallet : RecordedFor(e, i)
         \/ \E i \in DOMAIN wallet : Credits(i)
         \/ Elsewhere
  <1>1. ASSUME NEW c \in Requests, RecordIssued(c)
        PROVE  \E e \in Entries, i \in DOMAIN wallet : RecordedFor(e, i)
    BY <1>1 DEF RecordIssued, RecordedFor, DInv, RequestRows, RequestRow, At
  <1>2. ASSUME NEW i \in Invoices, Notified(i) PROVE i \in DOMAIN wallet /\ Credits(i)
    BY <1>2 DEF Notified, Credits, DInv, DeskTypeOK, PaidNotes
  <1>3. ASSUME SettleFound PROVE \E i \in DOMAIN wallet : Credits(i)
    BY <1>3 DEF SettleFound, Credits, DInv, PaidNotes
  <1>4. ASSUME NEW i \in Invoices, Pay(i) \/ Lapse(i)
        PROVE  i \in DOMAIN wallet /\ (Marked(i, "paid") \/ Marked(i, "lapsed"))
    BY <1>4 DEF Pay, Lapse, Marked
  <1>5. ASSUME NEW c \in Requests,
               \/ ReserveExisting(c) \/ ReserveRefused(c) \/ RecordFails(c) \/ ReadRow(c)
               \/ CheckArena(c) \/ CheckPlayer(c) \/ Answered(c)
        PROVE  UNCHANGED <<vars, nonces, hashes, wallet>>
    BY <1>5 DEF ReserveExisting, ReserveRefused, RecordFails, ReadRow, CheckArena, CheckPlayer,
                Answered
  <1>6. ASSUME NEW c \in Requests, NEW p \in Players, NEW n \in Nonces, Ask(c, p, n)
        PROVE  UNCHANGED <<vars, nonces, hashes, wallet>>
    BY <1>6 DEF Ask
  <1>7. ASSUME (\E i \in Invoices : LoseEvent(i)) \/ ReadBatch \/ Deferred \/ DeskCrashes
        PROVE  UNCHANGED <<vars, nonces, hashes, wallet>>
    BY <1>7 DEF LoseEvent, ReadBatch, Deferred, DeskCrashes
  <1>8. CASE UNCHANGED <<vars, deskVars>>
    BY <1>8 DEF deskVars
  <1>9. CASE Elsewhere
    BY <1>9
  <1>10. CASE Payments
    BY <1>2, <1>3, <1>4, <1>7, <1>10, LookUpKind DEF Payments
  <1>11. ASSUME NEW c \in Requests, Serve(c)
         PROVE  \/ UNCHANGED <<vars, nonces, hashes, wallet>>
                \/ ReserveNew(c) \/ IssuedFor(c)
                \/ \E e \in Entries, i \in DOMAIN wallet : RecordedFor(e, i)
    BY <1>1, <1>5, <1>11, IssuedKind DEF Serve
  <1> QED
    BY <1>5, <1>6, <1>8, <1>9, <1>10, <1>11 DEF DeskNext

----------------------------------------------------------------------------
(* The tables only grow.                                                    *)

\* A hash once recorded stays, and an invoice keeps its row and its payment.
Grows ==
    /\ \A e \in Entries : hashes[e] # NoId => hashes'[e] = hashes[e]
    /\ \A i \in DOMAIN wallet :
          /\ i \in DOMAIN wallet'
          /\ wallet'[i].entry = wallet[i].entry
          /\ wallet[i].status = "paid" => wallet'[i].status = "paid"

LEMMA DeskGrows ==
  ASSUME IInv, DInv, [DeskNext]_<<vars, deskVars>>
  PROVE  Grows
  <1>1. DeskTypeOK
    BY DEF DInv
  <1>2. ASSUME UNCHANGED <<hashes, wallet>> PROVE Grows
    BY <1>2 DEF Grows
  <1>3. ASSUME NEW c \in Requests, IssuedFor(c) PROVE Grows
    <2>1. requests[c].entry \in Entries
      BY <1>3 DEF IssuedFor, DInv, RequestRows, RequestRow, At
    <2> QED
      BY <1>1, <1>3, <2>1, IssuedChange DEF IssuedFor, Grows
  <1>4. ASSUME NEW i \in DOMAIN wallet, NEW status \in {"paid", "lapsed"}, Marked(i, status)
        PROVE  Grows
    BY <1>1, <1>4, StatusChange DEF Marked, Grows
  <1>5. ASSUME NEW e \in Entries, NEW i \in DOMAIN wallet, RecordedFor(e, i) PROVE Grows
    BY <1>1, <1>5, RecordChange, WalletTyped DEF RecordedFor, Grows
  <1>6. ASSUME NEW i \in DOMAIN wallet, Credits(i) PROVE Grows
    BY <1>1, <1>6, SettledChange DEF Credits, Grows
  <1> QED
    BY <1>2, <1>3, <1>4, <1>5, <1>6, DeskKinds DEF ReserveNew, Elsewhere, deskVars

----------------------------------------------------------------------------
(* Nonces, and the books of the wallet and the ledger.                      *)

LEMMA DeskLedgerKept ==
  ASSUME IInv, DInv, [DeskNext]_<<vars, deskVars>>
  PROVE  \A e \in Entries : entries[e].status # "none" =>
            /\ entries'[e].player = entries[e].player
            /\ entries'[e].status # "none"
            /\ entries[e].status = "paid" => entries'[e].status = "paid"
  BY DeskLedgerStep, EntryKept

\* Only a request whose nonce the player has not used yet makes a row.
LEMMA NonceStep ==
  ASSUME IInv, DInv, [DeskNext]_<<vars, deskVars>>
  PROVE  NonceNamesOneEntry'
  <1>1. DeskTypeOK /\ NonceNamesOneEntry
    BY DEF DInv
  <1>2. ASSUME UNCHANGED nonces, \A e \in Entries : entries'[e].player = entries[e].player
        PROVE  NonceNamesOneEntry'
    BY <1>1, <1>2 DEF NonceNamesOneEntry
  <1>3. ASSUME NEW c \in Requests, ReserveNew(c) PROVE NonceNamesOneEntry'
    <2>1. PICK e \in Entries :
             /\ ReserveEntry(requests[c].player, e)
             /\ nonces' = [nonces EXCEPT ![e] = requests[c].nonce]
      BY <1>3 DEF ReserveNew
    <2>2. \A d \in Entries :
             /\ entries'[d].player = IF d = e THEN requests[c].player ELSE entries[d].player
             /\ nonces'[d] = IF d = e THEN requests[c].nonce ELSE nonces[d]
      BY <1>1, <2>1 DEF ReserveEntry, IInv, TypeOK, DeskTypeOK
    <2>3. \A d \in Entries : entries[d].player = requests[c].player => nonces[d] # requests[c].nonce
      BY <1>3 DEF ReserveNew, SameNonce, EntriesOf
    <2> QED
      BY <1>1, <2>2, <2>3 DEF NonceNamesOneEntry
  <1>4. ASSUME NEW e \in Entries, NEW i \in DOMAIN wallet, RecordedFor(e, i)
        PROVE  NonceNamesOneEntry'
    <2>1. i \in Invoices /\ Record(e, i) /\ UNCHANGED nonces
      BY <1>1, <1>4, WalletTyped DEF RecordedFor
    <2>2. SameRows
      BY <1>1, <2>1, RecordChange
    <2> QED
      BY <1>2, <2>1, <2>2 DEF SameRows
  <1>5. ASSUME NEW i \in DOMAIN wallet, Credits(i) PROVE NonceNamesOneEntry'
    BY <1>1, <1>2, <1>5, SettledChange DEF Credits
  <1>6. CASE Elsewhere
    <2>1. SameRows /\ UNCHANGED nonces
      BY <1>6, ElsewhereRows DEF Elsewhere, deskVars
    <2> QED
      BY <1>2, <2>1 DEF SameRows
  <1>7. UNCHANGED <<vars, nonces>> => NonceNamesOneEntry'
    BY <1>2 DEF vars
  <1> QED
    BY <1>3, <1>4, <1>5, <1>6, <1>7, DeskKinds DEF IssuedFor, Marked

\* The rows and the invoices agree: an invoice is issued once, for a row in use
\* that has none, and no row is paid without a payment.
LEMMA BooksStep ==
  ASSUME IInv, DInv, [DeskNext]_<<vars, deskVars>>
  PROVE  WalletRows' /\ HashRows' /\ OneInvoicePerEntry' /\ CreditIsPaid'
  <1> DEFINE Books == WalletRows' /\ HashRows' /\ OneInvoicePerEntry' /\ CreditIsPaid'
  <1>1. /\ DeskTypeOK /\ WalletRows /\ HashRows /\ OneInvoicePerEntry /\ CreditIsPaid
        /\ RequestRows
    BY DEF DInv
  <1>2. \A i \in DOMAIN wallet : wallet[i].entry \in Entries
    BY <1>1, WalletTyped
  <1>3. \A e \in Entries : entries[e].status # "none" => entries'[e].status # "none"
    BY DeskLedgerKept
  <1>4. /\ \A e \in Entries : hashes[e] # NoId => hashes'[e] = hashes[e]
        /\ \A i \in DOMAIN wallet :
              /\ i \in DOMAIN wallet'
              /\ wallet'[i].entry = wallet[i].entry
              /\ wallet[i].status = "paid" => wallet'[i].status = "paid"
    BY DeskGrows DEF Grows
  <1>5. ASSUME UNCHANGED <<wallet, hashes>>,
               \A e \in Entries : entries'[e].status = "paid" => entries[e].status = "paid"
        PROVE  Books
    BY <1>1, <1>2, <1>3, <1>5 DEF WalletRows, HashRows, OneInvoicePerEntry, CreditIsPaid
  <1>6. ASSUME NEW c \in Requests, ReserveNew(c) PROVE Books
    <2>1. PICK e \in Entries : ReserveEntry(requests[c].player, e)
      BY <1>6 DEF ReserveNew
    <2>2. entries'[e].status = "creating" /\ \A d \in Entries \ {e} : entries'[d] = entries[d]
      BY <2>1 DEF ReserveEntry, IInv, TypeOK
    <2>3. UNCHANGED <<wallet, hashes>>
      BY <1>6 DEF ReserveNew
    <2> QED
      BY <1>5, <2>2, <2>3
  <1>7. ASSUME NEW c \in Requests, IssuedFor(c) PROVE Books
    <2> DEFINE e == requests[c].entry
               new == Len(wallet) + 1
    <2>1. /\ e \in Entries /\ entries[e].status # "none"
          /\ \A i \in DOMAIN wallet : wallet[i].entry # e
      BY <1>1, <1>7 DEF IssuedFor, RequestRows, RequestRow, At
    <2>2. UNCHANGED <<vars, hashes>> /\ wallet' = Issued(e) /\ Len(wallet) < MaxInvoices
      BY <1>7 DEF IssuedFor
    <2>3. /\ DOMAIN wallet' = DOMAIN wallet \cup {new}
          /\ \A i \in DOMAIN wallet : wallet'[i] = wallet[i]
          /\ wallet'[new].entry = e
      BY <1>1, <2>1, <2>2, IssuedChange
    <2>4. UNCHANGED entries
      BY <2>2 DEF vars
    <2> HIDE DEF new, e
    <2>5. WalletRows'
      BY <1>1, <2>1, <2>3, <2>4 DEF WalletRows
    <2>6. HashRows' /\ CreditIsPaid'
      BY <1>1, <2>2, <2>3, <2>4 DEF HashRows, CreditIsPaid
    <2>7. OneInvoicePerEntry'
      BY <1>1, <2>1, <2>3 DEF OneInvoicePerEntry
    <2> QED
      BY <2>5, <2>6, <2>7
  <1>8. ASSUME NEW i \in DOMAIN wallet, NEW status \in {"paid", "lapsed"}, Marked(i, status)
        PROVE  Books
    <2>1. /\ UNCHANGED <<entries, hashes>>
          /\ wallet[i].status = "open"
          /\ wallet' = [wallet EXCEPT ![i].status = status]
      BY <1>8 DEF Marked, vars
    <2>2. /\ DOMAIN wallet' = DOMAIN wallet
          /\ \A j \in DOMAIN wallet : /\ wallet'[j].entry = wallet[j].entry
                                      /\ j # i => wallet'[j] = wallet[j]
      BY <1>1, <2>1, StatusChange
    <2>3. WalletRows' /\ HashRows' /\ OneInvoicePerEntry'
      BY <1>1, <2>1, <2>2 DEF WalletRows, HashRows, OneInvoicePerEntry
    <2>4. CreditIsPaid'
      BY <1>1, <2>1, <2>2 DEF CreditIsPaid
    <2> QED
      BY <2>3, <2>4
  <1>9. ASSUME NEW e \in Entries, NEW i \in DOMAIN wallet, RecordedFor(e, i) PROVE Books
    <2>1. i \in Invoices /\ Record(e, i) /\ wallet[i].entry = e /\ UNCHANGED wallet
      BY <1>1, <1>9, WalletTyped DEF RecordedFor
    <2>2. /\ SameRows
          /\ \A d \in Entries : hashes'[d] # hashes[d] =>
                d = e /\ hashes[e] = NoId /\ hashes'[e] = i
      BY <1>1, <2>1, RecordChange
    <2>3. WalletRows' /\ OneInvoicePerEntry'
      BY <1>1, <1>2, <1>3, <2>1 DEF WalletRows, OneInvoicePerEntry
    <2>4. HashRows'
      BY <1>1, <2>1, <2>2 DEF HashRows
    <2>5. CreditIsPaid'
      <3>1. \A d \in Entries : entries'[d].status = "paid" => entries[d].status = "paid"
        BY <2>2 DEF SameRows
      <3>2. NoId \notin DOMAIN wallet
        BY <1>1, WalletTyped
      <3> QED
        BY <1>1, <1>4, <2>1, <3>1, <3>2 DEF CreditIsPaid
    <2> QED
      BY <2>3, <2>4, <2>5
  <1>10. ASSUME NEW i \in DOMAIN wallet, Credits(i) PROVE Books
    <2> DEFINE e == wallet[i].entry
    <2>1. wallet[i].status = "paid" /\ Settled(i) /\ UNCHANGED wallet
      BY <1>10 DEF Credits
    <2>2. /\ \A d \in Entries : hashes'[d] # hashes[d] =>
                d = e /\ hashes[e] = NoId /\ hashes'[e] = i
          /\ \A d \in Entries : entries'[d].status = "paid" /\ entries[d].status # "paid" =>
                d = e /\ hashes'[e] = i
      BY <1>1, <2>1, SettledChange
    <2>3. WalletRows' /\ OneInvoicePerEntry'
      BY <1>1, <1>2, <1>3, <2>1 DEF WalletRows, OneInvoicePerEntry
    <2>4. HashRows'
      BY <1>1, <2>1, <2>2 DEF HashRows
    <2>5. wallet[i] = [entry |-> e, status |-> "paid"] /\ NoId \notin DOMAIN wallet
      BY <1>1, <2>1, WalletTyped
    <2>6. CreditIsPaid'
      BY <1>1, <1>4, <2>1, <2>2, <2>5 DEF CreditIsPaid
    <2> QED
      BY <2>3, <2>4, <2>6
  <1>11. ASSUME Elsewhere PROVE Books
    <2>1. SameRows /\ UNCHANGED <<wallet, hashes>>
      BY <1>11, ElsewhereRows DEF Elsewhere, deskVars
    <2> QED
      BY <1>5, <2>1 DEF SameRows
  <1>12. UNCHANGED <<vars, nonces, hashes, wallet>> => Books
    BY <1>5 DEF vars
  <1> HIDE DEF Books
  <1>13. Books
    BY <1>6, <1>7, <1>8, <1>9, <1>10, <1>11, <1>12, DeskKinds
  <1> QED
    BY <1>13 DEF Books

----------------------------------------------------------------------------
(* The requests, and the payments on their way to the ledger.               *)

LEMMA PaidNotesStep ==
  ASSUME IInv, DInv, [DeskNext]_<<vars, deskVars>>
  PROVE  PaidNotes'
  <1>1. DeskTypeOK /\ PaidNotes
    BY DEF DInv
  <1>2. \A i \in DOMAIN wallet :
           /\ i \in DOMAIN wallet'
           /\ wallet[i].status = "paid" => wallet'[i].status = "paid"
    BY DeskGrows DEF Grows
  <1>3. events \subseteq DOMAIN wallet
    BY <1>1 DEF DeskTypeOK
  \* Nothing new is about to be settled.
  <1>4. ASSUME events' \subseteq events, recovery'.settling \in {recovery.settling, NoId}
        PROVE  PaidNotes'
    BY <1>1, <1>2, <1>3, <1>4 DEF PaidNotes
  <1>5. recovery \in Recovery
    BY <1>1 DEF DeskTypeOK
  <1>6. ASSUME NEW i \in Invoices, Pay(i) PROVE PaidNotes'
    <2>1. /\ i \in DOMAIN wallet
          /\ wallet' = [wallet EXCEPT ![i].status = "paid"]
          /\ events' = events \cup {i}
          /\ UNCHANGED recovery
      BY <1>6 DEF Pay
    <2>2. wallet'[i].status = "paid"
      BY <1>1, <2>1, StatusChange
    <2> QED
      BY <1>1, <1>2, <1>3, <2>1, <2>2 DEF PaidNotes
  <1>7. ASSUME NEW row \in recovery.rows, LookUp(row) PROVE PaidNotes'
    <2>1. UNCHANGED events
      BY <1>7 DEF LookUp
    <2>2. recovery.settling = NoId
      BY <1>7 DEF LookUp, NextRowOf
    <2>3. CASE recovery' = [recovery EXCEPT !.rows = @ \ {row}]
      BY <1>4, <1>5, <2>1, <2>3 DEF Recovery
    <2>4. ASSUME NEW i \in Found(row),
                 recovery' = [recovery EXCEPT !.rows = @ \ {row},
                                              !.settling = IF Success(i) THEN i ELSE NoId]
          PROVE  PaidNotes'
      <3>1. recovery'.settling = IF Success(i) THEN i ELSE NoId
        BY <1>5, <2>4 DEF Recovery
      <3>2. i \in DOMAIN wallet
        BY DEF Found
      <3> QED
        BY <1>1, <1>2, <1>3, <2>1, <3>1, <3>2 DEF PaidNotes, Success
    <2> QED
      BY <1>7, <2>3, <2>4 DEF LookUp
  <1>8. ASSUME ReadBatch PROVE PaidNotes'
    <2>1. UNCHANGED events
      BY <1>8 DEF ReadBatch
    <2>2. recovery'.settling = recovery.settling
      BY <1>5, <1>8 DEF ReadBatch, Recovery
    <2> QED
      BY <1>4, <2>1, <2>2
  <1>9. ASSUME SettleFound \/ Deferred PROVE PaidNotes'
    <2>1. UNCHANGED events
      BY <1>9 DEF SettleFound, Deferred
    <2>2. recovery'.settling \in {recovery.settling, NoId}
      BY <1>5, <1>9 DEF SettleFound, Deferred, Recovery
    <2> QED
      BY <1>4, <2>1, <2>2
  <1>10. ASSUME DeskCrashes PROVE PaidNotes'
    BY <1>4, <1>10 DEF DeskCrashes, NoRecovery
  <1>11. ASSUME NEW i \in Invoices, Lapse(i) \/ Notified(i) \/ LoseEvent(i) PROVE PaidNotes'
    BY <1>4, <1>11 DEF Lapse, Notified, LoseEvent
  <1>12. ASSUME UNCHANGED <<events, recovery>> PROVE PaidNotes'
    BY <1>4, <1>12
  <1>13. ASSUME NEW c \in Requests, Serve(c) \/ Answered(c) PROVE PaidNotes'
    BY <1>12, <1>13 DEF Serve, ReserveNew, ReserveExisting, ReserveRefused, WalletIssues, WalletFails,
                        RecordIssued, RecordFails, ReadRow, CheckArena, CheckPlayer, Answered
  <1>14. ASSUME NEW c \in Requests, NEW p \in Players, NEW n \in Nonces, Ask(c, p, n)
         PROVE  PaidNotes'
    BY <1>12, <1>14 DEF Ask
  <1>15. CASE Elsewhere \/ UNCHANGED <<vars, deskVars>>
    BY <1>12, <1>15 DEF Elsewhere, deskVars
  <1> QED
    BY <1>6, <1>7, <1>8, <1>9, <1>10, <1>11, <1>13, <1>14, <1>15 DEF DeskNext, Payments

\* A request that does not move keeps what it has in hand.
LEMMA RequestKept ==
  ASSUME IInv, DInv, [DeskNext]_<<vars, deskVars>>,
         NEW c \in Requests, requests'[c] = requests[c],
         At(c, "create") => \A i \in DOMAIN wallet' : wallet'[i].entry # requests[c].entry
  PROVE  RequestRow(c)'
  <1> DEFINE q == requests[c]
  <1>1. DeskTypeOK /\ RequestRow(c) /\ WalletRows
    BY DEF DInv, RequestRows
  <1>2. \A e \in Entries : entries[e].status # "none" =>
           entries'[e].player = entries[e].player /\ entries'[e].status # "none"
    BY DeskLedgerKept
  <1>3. Grows
    BY DeskGrows
  <1>4. q.pc \in {"create", "record", "read"} =>
           /\ q.entry \in Entries
           /\ entries'[q.entry].player = q.player
           /\ entries'[q.entry].status # "none"
    BY <1>1, <1>2 DEF RequestRow
  <1>5. At(c, "record") => q.invoice \in DOMAIN wallet' /\ wallet'[q.invoice].entry = q.entry
    BY <1>1, <1>3 DEF RequestRow, Grows
  <1>6. Creditable(c) => Creditable(c)'
    <2> SUFFICES ASSUME Creditable(c) PROVE Creditable(c)'
      OBVIOUS
    <2> DEFINE i == q.invoice
    <2>1. /\ i \in DOMAIN wallet
          /\ hashes[wallet[i].entry] = i
          /\ entries[wallet[i].entry].player = q.player
      BY DEF Creditable
    <2>2. wallet[i].entry \in Entries /\ i # NoId /\ entries[wallet[i].entry].status # "none"
      BY <1>1, <2>1, WalletTyped DEF WalletRows
    <2> QED
      BY <1>2, <1>3, <2>1, <2>2 DEF Grows, Creditable
  <1> QED
    BY <1>1, <1>4, <1>5, <1>6 DEF RequestRow, At

\* One request moves, the wallet issues nothing, and nobody but it starts to ask
\* for an invoice.
LEMMA RequestMoves ==
  ASSUME IInv, DInv, [DeskNext]_<<vars, deskVars>>,
         NEW c \in Requests, \A d \in Requests \ {c} : requests'[d] = requests[d],
         \A i \in DOMAIN wallet' : i \in DOMAIN wallet /\ wallet'[i].entry = wallet[i].entry,
         RequestRow(c)',
         At(c, "create")' =>
            \A d \in Requests \ {c} : At(d, "create") => requests[d].entry # requests'[c].entry
  PROVE  RequestRows' /\ OneIssuer'
  <1>1. RequestRows /\ OneIssuer
    BY DEF DInv
  <1>2. ASSUME NEW d \in Requests \ {c} PROVE RequestRow(d)'
    <2>1. At(d, "create") => \A i \in DOMAIN wallet' : wallet'[i].entry # requests[d].entry
      BY <1>1, <1>2 DEF RequestRows, RequestRow
    <2> QED
      BY <1>2, <2>1, RequestKept
  <1>3. OneIssuer'
    BY <1>1 DEF OneIssuer, At
  <1> QED
    BY <1>2, <1>3 DEF RequestRows

LEMMA RequestsTyped ==
  ASSUME DeskTypeOK, NEW c \in Requests, NEW row, Step(c, row), requests'[c] \in Request
  PROVE  requests' \in [Requests -> Request]
  <1>1. requests \in [Requests -> Request]
    BY DEF DeskTypeOK
  <1>2. requests'[c] = row
    BY StepChange
  <1> QED
    BY <1>1, <1>2 DEF Step

\* What create_entry answers for a row it has looked up: its invoice, or nothing.
LEMMA ShownRow ==
  ASSUME IInv, DInv, NEW c \in Requests, NEW e \in Entries, Shown(c, e),
         entries[e].player = requests[c].player,
         UNCHANGED <<entries, hashes, wallet>>
  PROVE  /\ requests' \in [Requests -> Request]
         /\ \A d \in Requests \ {c} : requests'[d] = requests[d]
         /\ ~At(c, "create")'
         /\ RequestRow(c)'
  <1>1. DeskTypeOK /\ HashRows /\ requests[c] \in Request
    BY DEF DInv, DeskTypeOK
  <1>2. CASE Refuse(c)
    <2>1. /\ requests'[c] = [pc |-> "answered", player |-> requests[c].player, nonce |-> NoNonce,
                            entry |-> NoEntry, invoice |-> NoId]
          /\ \A d \in Requests \ {c} : requests'[d] = requests[d]
      BY <1>1, <1>2, RefuseChange
    <2>2. requests'[c] \in Request /\ requests'[c].pc = "answered" /\ requests'[c].invoice = NoId
      BY <1>1, <2>1 DEF Request, Steps
    <2>3. requests' \in [Requests -> Request]
      BY <1>1, <1>2, <2>2, RequestsTyped DEF Refuse
    <2> QED
      BY <2>1, <2>2, <2>3 DEF RequestRow, At
  <1>3. CASE /\ hashes[e] # NoId
             /\ Step(c, [requests[c] EXCEPT !.pc = "arena", !.nonce = NoNonce,
                                            !.entry = e, !.invoice = hashes[e]])
    <2>1. /\ requests'[c] = [requests[c] EXCEPT !.pc = "arena", !.nonce = NoNonce,
                                                !.entry = e, !.invoice = hashes[e]]
          /\ \A d \in Requests \ {c} : requests'[d] = requests[d]
      BY <1>1, <1>3, StepChange
    <2>2. hashes[e] \in Invoices
      BY <1>1, <1>3 DEF DeskTypeOK
    <2>3. /\ requests'[c] \in Request
          /\ requests'[c].pc = "arena" /\ requests'[c].invoice = hashes[e]
          /\ requests'[c].player = requests[c].player
      BY <1>1, <2>1, <2>2 DEF Request, Steps
    <2>4. hashes[e] \in DOMAIN wallet /\ wallet[hashes[e]].entry = e
      BY <1>1, <1>3 DEF HashRows
    <2>5. Creditable(c)'
      BY <2>3, <2>4 DEF Creditable
    <2>6. requests' \in [Requests -> Request]
      BY <1>1, <1>3, <2>3, RequestsTyped
    <2> QED
      BY <2>1, <2>3, <2>5, <2>6 DEF RequestRow, At
  <1> QED
    BY <1>2, <1>3 DEF Shown

LEMMA RefusedRow ==
  ASSUME DInv, NEW c \in Requests, Refuse(c)
  PROVE  /\ requests' \in [Requests -> Request]
         /\ \A d \in Requests \ {c} : requests'[d] = requests[d]
         /\ ~At(c, "create")'
         /\ RequestRow(c)'
  <1>1. DeskTypeOK /\ requests[c] \in Request
    BY DEF DInv, DeskTypeOK
  <1>2. /\ requests'[c] = [pc |-> "answered", player |-> requests[c].player, nonce |-> NoNonce,
                          entry |-> NoEntry, invoice |-> NoId]
        /\ \A d \in Requests \ {c} : requests'[d] = requests[d]
    BY <1>1, RefuseChange
  <1>3. requests'[c] \in Request /\ requests'[c].pc = "answered" /\ requests'[c].invoice = NoId
    BY <1>1, <1>2 DEF Request, Steps
  <1>4. requests' \in [Requests -> Request]
    BY <1>1, <1>3, RequestsTyped DEF Refuse
  <1> QED
    BY <1>2, <1>3, <1>4 DEF RequestRow, At

\* The steps of create_entry that leave the wallet alone.
LEMMA ServeStep ==
  ASSUME IInv, DInv, NEW c \in Requests, [DeskNext]_<<vars, deskVars>>,
         \/ ReserveNew(c) \/ ReserveExisting(c) \/ ReserveRefused(c)
         \/ RecordIssued(c) \/ RecordFails(c) \/ ReadRow(c)
         \/ CheckArena(c) \/ CheckPlayer(c)
  PROVE  requests' \in [Requests -> Request] /\ RequestRows' /\ OneIssuer'
  <1> DEFINE Moved == requests' \in [Requests -> Request] /\ RequestRows' /\ OneIssuer'
             p == requests[c].player
  <1>1. DeskTypeOK /\ requests[c] \in Request /\ RequestRow(c) /\ WalletRows
    BY DEF DInv, DeskTypeOK, RequestRows
  <1>2. ASSUME requests' \in [Requests -> Request],
               \A d \in Requests \ {c} : requests'[d] = requests[d],
               RequestRow(c)', ~At(c, "create")', UNCHANGED wallet
        PROVE  Moved
    BY <1>2, RequestMoves
  <1>3. ASSUME Refuse(c), UNCHANGED wallet PROVE Moved
    BY <1>2, <1>3, RefusedRow
  <1>4. ASSUME ReserveNew(c) PROVE Moved
    <2>1. PICK e \in Entries :
             /\ ReserveEntry(p, e)
             /\ Step(c, [requests[c] EXCEPT !.pc = "create", !.nonce = NoNonce, !.entry = e])
      BY <1>4 DEF ReserveNew
    <2>2. /\ requests'[c] = [requests[c] EXCEPT !.pc = "create", !.nonce = NoNonce, !.entry = e]
          /\ \A d \in Requests \ {c} : requests'[d] = requests[d]
      BY <1>1, <2>1, StepChange
    <2>3. /\ requests'[c] \in Request
          /\ requests'[c].pc = "create" /\ requests'[c].entry = e /\ requests'[c].player = p
      BY <1>1, <2>2 DEF Request, Steps
    <2>4. entries[e].status = "none" /\ entries'[e].player = p /\ entries'[e].status = "creating"
      BY <2>1 DEF ReserveEntry, NextRow, IInv, TypeOK
    <2>5. UNCHANGED wallet
      BY <1>4 DEF ReserveNew
    <2>6. RequestRow(c)'
      BY <1>1, <2>3, <2>4, <2>5 DEF RequestRow, WalletRows, At
    <2>7. \A d \in Requests : At(d, "create") => requests[d].entry # e
      BY <2>4 DEF DInv, RequestRows, RequestRow, At
    <2>8. requests' \in [Requests -> Request]
      BY <1>1, <2>1, <2>3, RequestsTyped
    <2>9. RequestRows' /\ OneIssuer'
      BY <2>2, <2>3, <2>5, <2>6, <2>7, RequestMoves
    <2> QED
      BY <2>8, <2>9
  <1>5. ASSUME ReserveExisting(c) PROVE Moved
    <2>1. PICK e \in Existing(p, requests[c].nonce) : Shown(c, e)
      BY <1>5 DEF ReserveExisting
    <2>2. e \in Entries /\ entries[e].player = p
      BY DEF Existing, SameNonce, EntriesOf
    <2>3. UNCHANGED <<entries, hashes, wallet>>
      BY <1>5 DEF ReserveExisting, vars
    <2> QED
      BY <1>2, <2>1, <2>2, <2>3, ShownRow
  <1>6. ASSUME ReadRow(c) PROVE Moved
    <2>1. Shown(c, requests[c].entry) /\ UNCHANGED <<entries, hashes, wallet>>
      BY <1>6 DEF ReadRow, vars
    <2>2. requests[c].entry \in Entries /\ entries[requests[c].entry].player = p
      BY <1>1, <1>6 DEF ReadRow, RequestRow, At
    <2> QED
      BY <1>2, <2>1, <2>2, ShownRow
  <1>7. ASSUME RecordIssued(c) PROVE Moved
    <2>1. /\ Step(c, [requests[c] EXCEPT !.pc = "read"])
          /\ UNCHANGED wallet /\ At(c, "record")
      BY <1>7 DEF RecordIssued, Advance
    <2>2. /\ requests'[c] = [requests[c] EXCEPT !.pc = "read"]
          /\ \A d \in Requests \ {c} : requests'[d] = requests[d]
      BY <1>1, <2>1, StepChange
    <2>3. /\ requests'[c] \in Request
          /\ requests'[c].pc = "read" /\ requests'[c].player = p
          /\ requests'[c].entry = requests[c].entry
      BY <1>1, <2>2 DEF Request, Steps
    <2>4. RequestRow(c)'
      BY <1>1, <2>1, <2>3, DeskLedgerKept DEF RequestRow, At
    <2>5. requests' \in [Requests -> Request]
      BY <1>1, <2>1, <2>3, RequestsTyped
    <2> QED
      BY <1>2, <2>1, <2>2, <2>3, <2>4, <2>5 DEF At
  \* The answer is held back or passed on.
  <1>8. ASSUME NEW pc \in {"player", "answered"}, Advance(c, pc),
               requests[c].pc \in {"arena", "player"},
               UNCHANGED <<entries, hashes, wallet>>
        PROVE  Moved
    <2>1. /\ requests'[c] = [requests[c] EXCEPT !.pc = pc]
          /\ \A d \in Requests \ {c} : requests'[d] = requests[d]
      BY <1>1, <1>8, StepChange DEF Advance
    <2>2. /\ requests'[c] \in Request
          /\ requests'[c].pc = pc /\ requests'[c].player = p
          /\ requests'[c].invoice = requests[c].invoice
      BY <1>1, <1>8, <2>1 DEF Request, Steps
    <2>3. requests[c].invoice # NoId => Creditable(c)
      BY <1>1, <1>8 DEF RequestRow
    <2>4. RequestRow(c)'
      BY <1>8, <2>2, <2>3 DEF RequestRow, Creditable, At
    <2>5. requests' \in [Requests -> Request]
      BY <1>1, <1>8, <2>2, RequestsTyped DEF Advance
    <2> QED
      BY <1>2, <1>8, <2>1, <2>2, <2>4, <2>5 DEF At
  <1>9. ASSUME CheckArena(c) \/ CheckPlayer(c) PROVE Moved
    <2>1. UNCHANGED <<entries, hashes, wallet>>
      BY <1>9 DEF CheckArena, CheckPlayer, vars
    <2>2. requests[c].pc \in {"arena", "player"}
      BY <1>9 DEF CheckArena, CheckPlayer, At
    <2>3. Refuse(c) \/ Advance(c, "player") \/ Advance(c, "answered")
      BY <1>9 DEF CheckArena, CheckPlayer
    <2> QED
      BY <1>3, <1>8, <2>1, <2>2, <2>3
  <1>10. ASSUME ReserveRefused(c) \/ RecordFails(c) PROVE Moved
    BY <1>3, <1>10 DEF ReserveRefused, RecordFails
  <1> HIDE DEF Moved
  <1>11. Moved
    BY <1>4, <1>5, <1>6, <1>7, <1>9, <1>10
  <1> QED
    BY <1>11 DEF Moved

\* The wallet issues an invoice for request c: every other request that waits for
\* one waits for that of another row.
LEMMA RequestIssued ==
  ASSUME IInv, DInv, [DeskNext]_<<vars, deskVars>>,
         NEW c \in Requests, IssuedFor(c), RequestRow(c)'
  PROVE  RequestRows' /\ OneIssuer'
  <1> DEFINE e == requests[c].entry
             new == Len(wallet) + 1
  <1>1. DeskTypeOK /\ RequestRows /\ OneIssuer
    BY DEF DInv
  <1>2. /\ At(c, "create") /\ ~At(c, "create")'
        /\ Len(wallet) < MaxInvoices /\ wallet' = Issued(e)
        /\ \A d \in Requests \ {c} : requests'[d] = requests[d]
    BY DEF IssuedFor
  <1>3. e \in Entries
    BY <1>1, <1>2 DEF RequestRows, RequestRow, At
  <1>4. /\ DOMAIN wallet' = DOMAIN wallet \cup {new}
        /\ \A i \in DOMAIN wallet : wallet'[i] = wallet[i]
        /\ wallet'[new].entry = e
    BY <1>1, <1>2, <1>3, IssuedChange
  <1> HIDE DEF new
  <1>5. ASSUME NEW d \in Requests \ {c} PROVE RequestRow(d)'
    <2>1. At(d, "create") => requests[d].entry # e
      BY <1>1, <1>2, <1>5 DEF OneIssuer
    <2>2. At(d, "create") => \A i \in DOMAIN wallet : wallet[i].entry # requests[d].entry
      BY <1>1 DEF RequestRows, RequestRow
    <2>3. At(d, "create") => \A i \in DOMAIN wallet' : wallet'[i].entry # requests[d].entry
      BY <1>4, <2>1, <2>2
    <2> QED
      BY <1>2, <1>5, <2>3, RequestKept
  <1>6. OneIssuer'
    BY <1>1, <1>2 DEF OneIssuer, At
  <1> QED
    BY <1>5, <1>6 DEF RequestRows

LEMMA WalletStep ==
  ASSUME IInv, DInv, [DeskNext]_<<vars, deskVars>>,
         NEW c \in Requests, WalletIssues(c) \/ WalletFails(c)
  PROVE  requests' \in [Requests -> Request] /\ RequestRows' /\ OneIssuer'
  <1>1. DeskTypeOK /\ requests[c] \in Request /\ RequestRow(c)
    BY DEF DInv, DeskTypeOK, RequestRows
  <1>2. CASE WalletIssues(c)
    <2> DEFINE new == Len(wallet) + 1
               e == requests[c].entry
    <2>1. /\ Step(c, [requests[c] EXCEPT !.pc = "record", !.invoice = new])
          /\ At(c, "create")
          /\ Len(wallet) < MaxInvoices
          /\ wallet' = Issued(e)
          /\ UNCHANGED vars
      BY <1>2 DEF WalletIssues
    <2>2. /\ requests'[c] = [requests[c] EXCEPT !.pc = "record", !.invoice = new]
          /\ \A d \in Requests \ {c} : requests'[d] = requests[d]
      BY <1>1, <2>1, StepChange
    <2>3. e \in Entries /\ entries[e].player = requests[c].player /\ entries[e].status # "none"
      BY <1>1, <2>1 DEF RequestRow, At
    <2>4. new \in Invoices /\ new \in DOMAIN wallet' /\ wallet'[new].entry = e
      BY <1>1, <2>1, <2>3, IssuedChange
    <2>5. UNCHANGED entries
      BY <2>1 DEF vars
    <2> HIDE DEF new
    <2>6. /\ requests'[c] \in Request
          /\ requests'[c].pc = "record" /\ requests'[c].player = requests[c].player
          /\ requests'[c].entry = e /\ requests'[c].invoice = new
      BY <1>1, <2>2, <2>4 DEF Request, Steps
    <2>7. RequestRow(c)'
      BY <2>3, <2>4, <2>5, <2>6 DEF RequestRow, At
    <2>8. requests' \in [Requests -> Request]
      BY <1>1, <2>1, <2>6, RequestsTyped DEF new
    <2>9. IssuedFor(c)
      BY <1>2, <2>1, <2>2, <2>6 DEF IssuedFor, WalletIssues, At
    <2> QED
      BY <2>7, <2>8, <2>9, RequestIssued
  <1>3. CASE WalletFails(c)
    <2>1. Refuse(c)
      BY <1>3 DEF WalletFails
    <2>2. /\ requests' \in [Requests -> Request]
          /\ \A d \in Requests \ {c} : requests'[d] = requests[d]
          /\ ~At(c, "create")'
          /\ RequestRow(c)'
      BY <2>1, RefusedRow
    <2>3. CASE IssuedFor(c)
      BY <2>2, <2>3, RequestIssued
    <2>4. CASE UNCHANGED wallet
      BY <2>2, <2>4, RequestMoves
    <2> QED
      BY <1>3, <2>3, <2>4, IssuedKind
  <1> QED
    BY <1>2, <1>3

LEMMA RequestsStep ==
  ASSUME IInv, DInv, [DeskNext]_<<vars, deskVars>>
  PROVE  requests' \in [Requests -> Request] /\ RequestRows' /\ OneIssuer'
  <1> DEFINE Moved == requests' \in [Requests -> Request] /\ RequestRows' /\ OneIssuer'
  <1>1. DeskTypeOK /\ requests \in [Requests -> Request] /\ RequestRows /\ OneIssuer
    BY DEF DInv, DeskTypeOK
  <1>2. ASSUME NEW c \in Requests, Serve(c) PROVE Moved
    BY <1>2, ServeStep, WalletStep DEF Serve
  <1>3. ASSUME NEW c \in Requests, NEW p \in Players, NEW n \in Nonces, Ask(c, p, n) PROVE Moved
    <2> DEFINE row == [NoRequest EXCEPT !.pc = "reserve", !.player = p, !.nonce = n]
    <2>1. Step(c, row) /\ UNCHANGED wallet
      BY <1>3 DEF Ask
    <2>2. requests'[c] = row /\ \A d \in Requests \ {c} : requests'[d] = requests[d]
      BY <1>1, <2>1, StepChange
    <2>3. requests'[c] \in Request /\ requests'[c].pc = "reserve" /\ requests'[c].player = p
      BY <2>2 DEF NoRequest, Request, Steps
    <2>4. RequestRow(c)' /\ ~At(c, "create")'
      BY <2>3 DEF RequestRow, At
    <2>5. requests' \in [Requests -> Request]
      BY <1>1, <2>1, <2>3, RequestsTyped
    <2> QED
      BY <2>1, <2>2, <2>4, <2>5, RequestMoves
  <1>4. ASSUME NEW c \in Requests, Answered(c) PROVE Moved
    <2>1. Step(c, NoRequest) /\ UNCHANGED wallet
      BY <1>4 DEF Answered
    <2>2. requests'[c] = NoRequest /\ \A d \in Requests \ {c} : requests'[d] = requests[d]
      BY <1>1, <2>1, StepChange
    <2>3. requests'[c] \in Request /\ requests'[c].pc = "idle"
      BY <2>2 DEF NoRequest, Request, Steps
    <2>4. RequestRow(c)' /\ ~At(c, "create")'
      BY <2>3 DEF RequestRow, At
    <2>5. requests' \in [Requests -> Request]
      BY <1>1, <2>1, <2>3, RequestsTyped
    <2> QED
      BY <2>1, <2>2, <2>4, <2>5, RequestMoves
  <1>5. ASSUME DeskCrashes PROVE Moved
    <2>1. requests' = [c \in Requests |-> NoRequest]
      BY <1>5 DEF DeskCrashes
    <2>2. NoRequest \in Request /\ NoRequest.pc = "idle"
      BY DEF NoRequest, Request, Steps
    <2> QED
      BY <2>1, <2>2 DEF RequestRows, RequestRow, OneIssuer, At
  \* The requests stand still while others act.
  <1>6. ASSUME UNCHANGED requests,
               \A i \in DOMAIN wallet' : i \in DOMAIN wallet /\ wallet'[i].entry = wallet[i].entry
        PROVE  Moved
    <2>1. ASSUME NEW c \in Requests PROVE RequestRow(c)'
      <3>1. At(c, "create") => \A i \in DOMAIN wallet' : wallet'[i].entry # requests[c].entry
        BY <1>1, <1>6 DEF RequestRows, RequestRow
      <3> QED
        BY <1>6, <3>1, RequestKept
    <2> QED
      BY <1>1, <1>6, <2>1 DEF RequestRows, OneIssuer, At
  <1>7. ASSUME NEW i \in Invoices, Pay(i) \/ Lapse(i) PROVE Moved
    <2>1. /\ i \in DOMAIN wallet /\ UNCHANGED requests
          /\ \/ wallet' = [wallet EXCEPT ![i].status = "paid"]
             \/ wallet' = [wallet EXCEPT ![i].status = "lapsed"]
      BY <1>7 DEF Pay, Lapse
    <2>2. /\ DOMAIN wallet' = DOMAIN wallet
          /\ \A j \in DOMAIN wallet : wallet'[j].entry = wallet[j].entry
      BY <1>1, <2>1, StatusChange
    <2> QED
      BY <1>6, <2>1, <2>2
  <1>8. ASSUME UNCHANGED <<wallet, requests>> PROVE Moved
    BY <1>6, <1>8
  <1>9. ASSUME NEW i \in Invoices, Notified(i) \/ LoseEvent(i) PROVE Moved
    BY <1>8, <1>9 DEF Notified, LoseEvent
  <1>10. ASSUME NEW row \in recovery.rows, LookUp(row) PROVE Moved
    BY <1>8, <1>10 DEF LookUp
  <1>11. ASSUME ReadBatch \/ SettleFound \/ Deferred PROVE Moved
    BY <1>8, <1>11 DEF ReadBatch, SettleFound, Deferred
  <1>12. ASSUME Elsewhere \/ UNCHANGED <<vars, deskVars>> PROVE Moved
    BY <1>8, <1>12 DEF Elsewhere, deskVars
  <1> HIDE DEF Moved
  <1>13. Moved
    BY <1>2, <1>3, <1>4, <1>5, <1>7, <1>9, <1>10, <1>11, <1>12 DEF DeskNext, Payments
  <1> QED
    BY <1>13 DEF Moved

----------------------------------------------------------------------------
(* Types, and the invariant.                                                *)

\* A batch that is not empty has a last row.
LEMMA HasLargest ==
  ASSUME NEW S, S \subseteq Entries, S # {}
  PROVE  \E n \in S : \A m \in S : m <= n
  <1> DEFINE R == OpToRel(<, Nat)
             T == {MaxEntries - n : n \in S}
  <1>1. IsWellFoundedOn(R, Nat)
    BY NatLessThanWellFounded
  <1>2. \A x, y \in Nat : x < y => <<x, y>> \in R
    BY Zenon DEF OpToRel
  <1>3. T \subseteq Nat /\ T # {}
    <2>1. \A n \in 1 .. MaxEntries : MaxEntries - n \in Nat
      BY BoundAssumption
    <2>2. T \subseteq Nat
      BY <2>1 DEF Entries
    <2> QED
      BY <2>2
  <1> HIDE DEF R
  <1>4. PICK x \in T : \A y \in T : <<y, x>> \notin R
    <2> HIDE DEF T
    <2> QED
      BY <1>1, <1>3, WFMin
  <1>5. \A y \in T : x <= y
    <2>1. \A y \in T : ~(y < x)
      BY <1>2, <1>3, <1>4
    <2> HIDE DEF T
    <2> QED
      BY <1>3, <2>1
  <1>6. PICK n \in S : x = MaxEntries - n
    OBVIOUS
  <1>7. \A m \in S : MaxEntries - n <= MaxEntries - m
    BY <1>5, <1>6
  <1> QED
    BY <1>7, BoundAssumption DEF Entries

\* The cursor of the reconciliation is the place of a row, or the beginning.
LEMMA ReadBatchTyped ==
  ASSUME DeskTypeOK, ReadBatch
  PROVE  recovery' \in Recovery
  <1> DEFINE after == {e \in Unsettled : Rank[e] > recovery.cursor}
             batch == {e \in after : Cardinality({d \in after : Rank[d] <= Rank[e]}) <= BatchSize}
             last  == {Rank[e] : e \in batch}
             rows  == {[id |-> e, hash |-> hashes[e]] : e \in batch}
             cursor == IF batch = {} THEN 0 ELSE CHOOSE n \in last : \A m \in last : m <= n
  <1>1. recovery \in Recovery /\ hashes \in [Entries -> Invoices \cup {NoId}]
    BY DEF DeskTypeOK
  <1>2. recovery' = [recovery EXCEPT !.rows = rows, !.cursor = cursor]
    BY DEF ReadBatch
  <1>3. batch \subseteq Entries
    BY DEF Unsettled
  <1>4. last \subseteq Entries
    <2>1. Rank \in [Entries -> Entries]
      BY DeskAssumption, Zenon
    <2> HIDE DEF batch
    <2> QED
      BY <1>3, <2>1
  <1>5. rows \subseteq [id: Entries, hash: Invoices \cup {NoId}]
    <2> HIDE DEF batch
    <2> QED
      BY <1>1, <1>3
  <1>6. cursor \in Nat
    <2>1. CASE batch = {}
      BY <2>1
    <2>2. CASE batch # {}
      <3> HIDE DEF batch
      <3>1. last # {}
        BY <2>2
      <3> HIDE DEF last
      <3>2. \E n \in last : \A m \in last : m <= n
        BY <1>4, <3>1, HasLargest
      <3>3. cursor \in last
        BY <2>2, <3>2
      <3> HIDE DEF cursor
      <3> QED
        BY <1>4, <3>3 DEF Entries
    <2> QED
      BY <2>1, <2>2
  <1> HIDE DEF rows, cursor
  <1> QED
    BY <1>1, <1>2, <1>5, <1>6 DEF Recovery

LEMMA RecoveryTyped ==
  ASSUME DInv, [DeskNext]_<<vars, deskVars>>
  PROVE  recovery' \in Recovery
  <1>1. DeskTypeOK /\ recovery \in Recovery
    BY DEF DInv, DeskTypeOK
  <1>2. UNCHANGED recovery => recovery' \in Recovery
    BY <1>1
  <1>3. ASSUME NEW row \in recovery.rows, LookUp(row) PROVE recovery' \in Recovery
    <2>1. CASE recovery' = [recovery EXCEPT !.rows = @ \ {row}]
      BY <1>1, <2>1 DEF Recovery
    <2>2. ASSUME NEW i \in Found(row),
                 recovery' = [recovery EXCEPT !.rows = @ \ {row},
                                              !.settling = IF Success(i) THEN i ELSE NoId]
          PROVE  recovery' \in Recovery
      <3>1. i \in Invoices
        BY <1>1, WalletTyped DEF Found
      <3>2. (IF Success(i) THEN i ELSE NoId) \in Invoices \cup {NoId}
        BY <3>1
      <3> QED
        BY <1>1, <2>2, <3>2 DEF Recovery
    <2> QED
      BY <1>3, <2>1, <2>2 DEF LookUp
  <1>4. ASSUME SettleFound \/ Deferred PROVE recovery' \in Recovery
    BY <1>1, <1>4 DEF SettleFound, Deferred, Recovery
  <1>5. ASSUME DeskCrashes PROVE recovery' \in Recovery
    BY <1>5 DEF DeskCrashes, NoRecovery, Recovery
  <1>6. ASSUME NEW i \in Invoices, Pay(i) \/ Lapse(i) \/ Notified(i) \/ LoseEvent(i)
        PROVE  UNCHANGED recovery
    BY <1>6 DEF Pay, Lapse, Notified, LoseEvent
  <1>7. ASSUME NEW c \in Requests, Serve(c) \/ Answered(c) PROVE UNCHANGED recovery
    BY <1>7 DEF Serve, ReserveNew, ReserveExisting, ReserveRefused, WalletIssues, WalletFails,
                RecordIssued, RecordFails, ReadRow, CheckArena, CheckPlayer, Answered
  <1>8. ASSUME NEW c \in Requests, NEW p \in Players, NEW n \in Nonces, Ask(c, p, n)
        PROVE  UNCHANGED recovery
    BY <1>8 DEF Ask
  <1>9. CASE Elsewhere \/ UNCHANGED <<vars, deskVars>>
    BY <1>2, <1>9 DEF Elsewhere, deskVars
  <1> QED
    BY <1>1, <1>2, <1>3, <1>4, <1>5, <1>6, <1>7, <1>8, <1>9, ReadBatchTyped DEF DeskNext, Payments

\* What the rows and the wallet are made of.
LEMMA TablesTyped ==
  ASSUME IInv, DInv, [DeskNext]_<<vars, deskVars>>
  PROVE  /\ nonces' \in [Entries -> Nonces \cup {NoNonce}]
         /\ hashes' \in [Entries -> Invoices \cup {NoId}]
         /\ wallet' \in Seq([entry: Entries, status: {"open", "paid", "lapsed"}])
         /\ Len(wallet') <= MaxInvoices
  <1> DEFINE Typed == /\ nonces' \in [Entries -> Nonces \cup {NoNonce}]
                      /\ hashes' \in [Entries -> Invoices \cup {NoId}]
                      /\ wallet' \in Seq([entry: Entries, status: {"open", "paid", "lapsed"}])
                      /\ Len(wallet') <= MaxInvoices
  <1>1. DeskTypeOK /\ requests \in [Requests -> Request]
    BY DEF DInv, DeskTypeOK
  <1>2. UNCHANGED <<nonces, hashes, wallet>> => Typed
    BY <1>1 DEF DeskTypeOK
  <1>3. ASSUME NEW c \in Requests, ReserveNew(c) PROVE Typed
    <2>1. PICK e \in Entries : nonces' = [nonces EXCEPT ![e] = requests[c].nonce]
      BY <1>3 DEF ReserveNew
    <2>2. requests[c].nonce \in Nonces \cup {NoNonce}
      BY <1>1 DEF Request
    <2>3. UNCHANGED <<hashes, wallet>>
      BY <1>3 DEF ReserveNew
    <2> QED
      BY <1>1, <2>1, <2>2, <2>3 DEF DeskTypeOK
  <1>4. ASSUME NEW c \in Requests, IssuedFor(c) PROVE Typed
    <2>1. requests[c].entry \in Entries
      BY <1>4 DEF IssuedFor, DInv, RequestRows, RequestRow, At
    <2> QED
      BY <1>1, <1>4, <2>1, IssuedChange DEF IssuedFor, DeskTypeOK
  <1>5. ASSUME NEW i \in DOMAIN wallet, NEW status \in {"paid", "lapsed"}, Marked(i, status)
        PROVE  Typed
    BY <1>1, <1>5, StatusChange DEF Marked, DeskTypeOK
  <1>6. ASSUME NEW e \in Entries, NEW i \in DOMAIN wallet, RecordedFor(e, i) PROVE Typed
    BY <1>1, <1>6, RecordChange, WalletTyped DEF RecordedFor, DeskTypeOK
  <1>7. ASSUME NEW i \in DOMAIN wallet, Credits(i) PROVE Typed
    BY <1>1, <1>7, SettledChange DEF Credits, DeskTypeOK
  <1>8. Elsewhere => Typed
    BY <1>2 DEF Elsewhere, deskVars
  <1> HIDE DEF Typed
  <1>9. Typed
    BY <1>2, <1>3, <1>4, <1>5, <1>6, <1>7, <1>8, DeskKinds
  <1> QED
    BY <1>9 DEF Typed

LEMMA DeskTypeStep ==
  ASSUME IInv, DInv, [DeskNext]_<<vars, deskVars>>
  PROVE  DeskTypeOK'
  <1>1. TypeOK'
    BY DeskLedgerStep, InvStep DEF IInv
  <1>2. events' \subseteq DOMAIN wallet'
    <2>1. events \subseteq DOMAIN wallet /\ DOMAIN wallet \subseteq DOMAIN wallet'
      BY DeskGrows DEF Grows, DInv, DeskTypeOK
    <2>2. events' \subseteq events \/ \E i \in DOMAIN wallet : events' = events \cup {i}
      <3>1. ASSUME NEW i \in Invoices, Pay(i) \/ Lapse(i) \/ Notified(i) \/ LoseEvent(i)
            PROVE  events' \subseteq events \/ \E j \in DOMAIN wallet : events' = events \cup {j}
        BY <3>1 DEF Pay, Lapse, Notified, LoseEvent
      <3>2. ASSUME DeskCrashes PROVE events' \subseteq events
        BY <3>2 DEF DeskCrashes
      <3>3. ASSUME \/ ReadBatch \/ SettleFound \/ Deferred
                   \/ \E row \in recovery.rows : LookUp(row)
            PROVE  UNCHANGED events
        BY <3>3 DEF ReadBatch, SettleFound, Deferred, LookUp
      <3>4. ASSUME NEW c \in Requests, Serve(c) \/ Answered(c) PROVE UNCHANGED events
        BY <3>4 DEF Serve, ReserveNew, ReserveExisting, ReserveRefused, WalletIssues, WalletFails,
                    RecordIssued, RecordFails, ReadRow, CheckArena, CheckPlayer, Answered
      <3>5. ASSUME NEW c \in Requests, NEW p \in Players, NEW n \in Nonces, Ask(c, p, n)
            PROVE  UNCHANGED events
        BY <3>5 DEF Ask
      <3>6. Elsewhere \/ UNCHANGED <<vars, deskVars>> => UNCHANGED events
        BY DEF Elsewhere, deskVars
      <3> QED
        BY <3>1, <3>2, <3>3, <3>4, <3>5, <3>6 DEF DeskNext, Payments
    <2> QED
      BY <2>1, <2>2
  <1>3. crashes' \in 0 .. MaxCrashes
    <2>1. crashes \in 0 .. MaxCrashes
      BY DEF DInv, DeskTypeOK
    <2>2. DeskCrashes \/ UNCHANGED crashes
      <3>1. ASSUME NEW i \in Invoices, Pay(i) \/ Lapse(i) \/ Notified(i) \/ LoseEvent(i)
            PROVE  UNCHANGED crashes
        BY <3>1 DEF Pay, Lapse, Notified, LoseEvent
      <3>2. ASSUME \/ ReadBatch \/ SettleFound \/ Deferred
                   \/ \E row \in recovery.rows : LookUp(row)
            PROVE  UNCHANGED crashes
        BY <3>2 DEF ReadBatch, SettleFound, Deferred, LookUp
      <3>3. ASSUME NEW c \in Requests, Serve(c) \/ Answered(c) PROVE UNCHANGED crashes
        BY <3>3 DEF Serve, ReserveNew, ReserveExisting, ReserveRefused, WalletIssues, WalletFails,
                    RecordIssued, RecordFails, ReadRow, CheckArena, CheckPlayer, Answered
      <3>4. ASSUME NEW c \in Requests, NEW p \in Players, NEW n \in Nonces, Ask(c, p, n)
            PROVE  UNCHANGED crashes
        BY <3>4 DEF Ask
      <3>5. Elsewhere \/ UNCHANGED <<vars, deskVars>> => UNCHANGED crashes
        BY DEF Elsewhere, deskVars
      <3> QED
        BY <3>1, <3>2, <3>3, <3>4, <3>5 DEF DeskNext, Payments
    <2> QED
      BY <2>1, <2>2, DeskBounds DEF DeskCrashes
  <1> QED
    BY <1>1, <1>2, <1>3, TablesTyped, RequestsStep, RecoveryTyped DEF DeskTypeOK

LEMMA DeskStep ==
  ASSUME IInv, SInv, DInv, [DeskNext]_<<vars, deskVars>>
  PROVE  IInv' /\ SInv' /\ DInv'
  <1>1. [Next]_vars
    BY DeskLedgerStep
  <1>2. IInv' /\ SInv'
    BY <1>1, InvStep, SafetyStep
  <1>3. DeskTypeOK'
    BY DeskTypeStep
  <1> QED
    BY <1>2, <1>3, NonceStep, BooksStep, PaidNotesStep, RequestsStep DEF DInv

LEMMA DeskInitInv == DeskInit => IInv /\ SInv /\ DInv
  <1> SUFFICES ASSUME DeskInit PROVE IInv /\ SInv /\ DInv
    OBVIOUS
  <1>1. IInv /\ SInv
    BY DeskLedgerInit
  <1>2. wallet = <<>> /\ DOMAIN wallet = {} /\ Len(wallet) = 0
    BY DEF DeskInit
  <1>3. DeskTypeOK
    <2>1. NoRequest \in Request
      BY DEF NoRequest, Request, Steps
    <2>2. NoRecovery \in Recovery
      BY DEF NoRecovery, Recovery
    <2>3. wallet \in Seq([entry: Entries, status: {"open", "paid", "lapsed"}])
      BY <1>2
    <2>4. Len(wallet) <= MaxInvoices /\ 0 \in 0 .. MaxCrashes
      BY <1>2, DeskBounds
    <2> QED
      BY <1>1, <2>1, <2>2, <2>3, <2>4 DEF DeskTypeOK, DeskInit, IInv
  <1>4. NonceNamesOneEntry
    BY DEF DeskInit, NonceNamesOneEntry
  <1>5. WalletRows /\ HashRows /\ OneInvoicePerEntry /\ CreditIsPaid
    BY <1>2 DEF DeskInit, WalletRows, HashRows, OneInvoicePerEntry, CreditIsPaid
  <1>6. PaidNotes
    BY DEF DeskInit, PaidNotes, NoRecovery
  <1>7. RequestRows /\ OneIssuer
    <2>1. \A c \in Requests : requests[c].pc = "idle"
      BY DEF DeskInit, NoRequest
    <2> QED
      BY <2>1 DEF RequestRows, RequestRow, OneIssuer, At
  <1> QED
    BY <1>1, <1>3, <1>4, <1>5, <1>6, <1>7 DEF DInv

----------------------------------------------------------------------------
(* What holds of every history of the desk.                                 *)

\* However requests, payments, the reconciliation, crashes of the worker and the
\* rest of the game interleave, the books of the ledger and of the wallet agree.
THEOREM DeskInvariance == DeskSpec => [](IInv /\ SInv /\ DInv)
  <1>1. IInv /\ SInv /\ DInv /\ [DeskNext]_<<vars, deskVars>> => (IInv /\ SInv /\ DInv)'
    BY DeskStep
  <1> QED
    BY DeskInitInv, <1>1, PTL DEF DeskSpec

\* The desk keeps every table, request and batch well formed; in particular no
\* payment is announced or recorded that the wallet does not have.
THEOREM DeskTypeCorrect == DeskSpec => []DeskTypeOK
  <1>1. DInv => DeskTypeOK
    BY DEF DInv
  <1> QED
    BY DeskInvariance, <1>1, PTL

\* README "Entry creation is idempotent": no interleaving of requests makes two
\* entries of one player with the same nonce.
THEOREM EntryIsIdempotent == DeskSpec => []NonceNamesOneEntry
  <1>1. DInv => NonceNamesOneEntry
    BY DEF DInv
  <1> QED
    BY DeskInvariance, <1>1, PTL

\* Whatever fails, and however often a request is repeated, the wallet issues at
\* most one invoice for an entry.
THEOREM InvoiceIssuedOnce == DeskSpec => []OneInvoicePerEntry
  <1>1. DInv => OneInvoicePerEntry
    BY DEF DInv
  <1> QED
    BY DeskInvariance, <1>1, PTL

\* The invoice in an answer is the one that the entry of the player who asked
\* waits for, although create_entry holds no lock between its reads.
THEOREM AnswersAreCreditable == DeskSpec => []ShownIsCreditable
  <1>1. DInv => ShownIsCreditable
    BY DEF DInv, RequestRows, RequestRow, Creditable, ShownIsCreditable, At
  <1> QED
    BY DeskInvariance, <1>1, PTL

\* No entry is paid without a paid invoice that was issued for it, so one payment
\* never pays for two entries.
THEOREM CreditsArePaid == DeskSpec => []CreditIsPaid
  <1>1. DInv => CreditIsPaid
    BY DEF DInv
  <1> QED
    BY DeskInvariance, <1>1, PTL

\* Everything the desk does to the tables is one transaction of the ledger.
THEOREM DeskUsesLedger == DeskSpec => [][Next]_vars
  <1>1. DInv /\ [DeskNext]_<<vars, deskVars>> => [Next]_vars
    BY DeskLedgerStep
  <1> QED
    BY DeskInvariance, <1>1, PTL DEF DeskSpec

\* With real invoices the entries are still accounts: a payment buys its lives once.
THEOREM DeskImplementsAccount == DeskSpec => ImplementsAccount
  <1>1. DeskInit => Account!AccountInit
    BY AccountStart DEF DeskInit, DeadOf
  <1> QED
    BY DeskInvariance, DeskUsesLedger, AccountStep, <1>1, PTL
    DEF DeskSpec, ImplementsAccount, Account!AccountSpec

\* What is sent out because of an entry is covered by the invoice that paid it.
THEOREM DeskSolvency == DeskSpec => []Solvent
  BY DeskInvariance, SalesCoverPayouts, PTL
=============================================================================
