--------------------------- MODULE LifeLedgerProofs ---------------------------
(***************************************************************************)
(* Proofs, for every value of the constants, of the promises of            *)
(* LifeLedger.  IInv is the inductive invariant of the core ones: the      *)
(* promises themselves and the ownership facts about rows that make them   *)
(* inductive.  The promises about seats, kills, invoices and closed arenas *)
(* rest on it and on a second one, SInv, which adds to them where the      *)
(* lease of the arena stands among the runs.                               *)
(***************************************************************************)
EXTENDS LifeLedgerProps, FiniteSetTheorems, TLAPS

\* A row in use belongs to a session; a row not in use belongs to none.
EntryRows ==
    \A e \in Entries :
        /\ entries[e].status # "none" => entries[e].player \in Players
        /\ entries[e].status = "none" => entries[e].player = NoPlayer

\* A life belongs to the player of the paid entry it was taken from.
LifeRows ==
    \A l \in LifeIds :
        lives[l].status # "none" =>
            /\ lives[l].player \in Players
            /\ lives[l].entry \in Entries
            /\ entries[lives[l].entry].player = lives[l].player
            /\ entries[lives[l].entry].status = "paid"

\* Only finish_leave refunds a life, and it ends the session.
RefundedHasLeft ==
    \A l \in LifeIds : lives[l].status = "refunded" => participants[lives[l].player] = "left"

IInv ==
    /\ TypeOK
    /\ EntryRows
    /\ LifeRows
    /\ RefundedHasLeft
    /\ OneUsableLife
    /\ FundedLife
    /\ LeaverIsSettled
    /\ LivesConserved

----------------------------------------------------------------------------
(* Every transaction preserves the types.                                   *)

LEMMA Ranges ==
    /\ 0 \in 0 .. LivesPerEntry
    /\ LivesPerEntry \in 0 .. LivesPerEntry
    /\ 0 \in 0 .. MaxLives
    /\ Entries \subseteq 0 .. MaxEntries
    /\ RunIds \subseteq 0 .. MaxRuns
    /\ Slots \subseteq 0 .. MaxPlayers
    /\ LifeIds \subseteq 0 .. MaxLives
  BY BoundAssumption DEF Entries, RunIds, Slots, LifeIds

LEMMA TypeInit == Init => TypeOK
  BY BoundAssumption, FeeAssumption
  DEF Init, NothingPlayed, TypeOK, Participant, Entry, Life, Run, Arena, NoId

LEMMA TypeEntryStep == TypeOK /\ EntryStep => TypeOK'
  <1> SUFFICES ASSUME TypeOK, EntryStep PROVE TypeOK'
    OBVIOUS
  <1> USE DEF TypeOK
  <1>1. ASSUME NEW p \in Players, NEW e \in Entries, ReserveEntry(p, e) PROVE TypeOK'
    BY <1>1, Ranges DEF ReserveEntry, Participant, Entry
  <1>2. ASSUME NEW e \in Entries, RecordInvoice(e) PROVE TypeOK'
    BY <1>2 DEF RecordInvoice, Entry
  <1>3. ASSUME NEW e \in Entries, InvoiceExpires(e) PROVE TypeOK'
    BY <1>3 DEF InvoiceExpires, Entry
  <1>4. ASSUME NEW e \in Entries, SettleEntry(e) PROVE TypeOK'
    <2>1. entries' \in [Entries -> Entry]
      BY <1>4, Ranges DEF SettleEntry, Credited, Entry
    <2>2. arena' \in Arena
      BY <1>4 DEF SettleEntry, Reactivated, Arena
    <2> QED
      BY <1>4, <2>1, <2>2 DEF SettleEntry
  <1>5. ASSUME NEW e \in Entries, SettleWhileLeaving(e) PROVE TypeOK'
    BY <1>5, Ranges DEF SettleWhileLeaving, Credited, Entry
  <1>6. ASSUME NEW e \in Entries, SettleAfterLeave(e) PROVE TypeOK'
    <2>1. entries' \in [Entries -> Entry]
      BY <1>6 DEF SettleAfterLeave, Credited, Entry
    <2>2. refunds' \in [Entries -> 0 .. LivesPerEntry]
      BY <1>6, Ranges DEF SettleAfterLeave
    <2> QED
      BY <1>6, <2>1, <2>2 DEF SettleAfterLeave
  <1> QED
    BY <1>1, <1>2, <1>3, <1>4, <1>5, <1>6 DEF EntryStep

LEMMA TypeLifeStep == TypeOK /\ LifeRows /\ LifeStep => TypeOK'
  <1> SUFFICES ASSUME TypeOK, LifeRows, LifeStep PROVE TypeOK'
    OBVIOUS
  <1> USE DEF TypeOK
  <1>1. ASSUME NEW p \in Players, NEW r \in RunIds, NEW l \in LifeIds, NEW s \in Slots,
               ResumeLife(p, r, l, s)
        PROVE  TypeOK'
    <2>1. lives' \in [LifeIds -> Life]
      <3>1. [lives[l] EXCEPT !.status = "alive", !.run = r, !.slot = s] \in Life
        BY Ranges DEF Life
      <3> QED
        BY <1>1, <3>1 DEF ResumeLife
    <2>2. arena' \in Arena
      BY <1>1 DEF ResumeLife, Arena
    <2> QED
      BY <1>1, <2>1, <2>2 DEF ResumeLife
  <1>2. ASSUME NEW p \in Players, NEW r \in RunIds, NEW l \in LifeIds, NEW s \in Slots,
               NewLife(p, r, l, s)
        PROVE  TypeOK'
    <2>1. lives' \in [LifeIds -> Life]
      <3>1. PICK e \in Entries :
               lives' = [lives EXCEPT ![l] = [player |-> p, entry |-> e, run |-> r,
                                              status |-> "alive", slot |-> s]]
        BY <1>2 DEF NewLife
      <3>2. [player |-> p, entry |-> e, run |-> r, status |-> "alive", slot |-> s] \in Life
        BY Ranges DEF Life
      <3> QED
        BY <3>1, <3>2
    <2>2. arena' \in Arena
      BY <1>2 DEF NewLife, Arena
    <2> QED
      BY <1>2, <2>1, <2>2 DEF NewLife
  <1>3. ASSUME NEW r \in RunIds, NEW v \in LifeIds, NEW k \in LifeIds \cup {NoId},
               ConsumeDeath(r, v, k)
        PROVE  TypeOK'
    <2>1. lives[v].entry \in Entries
      BY <1>3 DEF ConsumeDeath, LifeRows
    <2>2. entries[lives[v].entry].remaining - 1 \in 0 .. LivesPerEntry
      BY <1>3, <2>1, BoundAssumption DEF ConsumeDeath, Entry
    <2>3. entries' \in [Entries -> Entry]
      BY <1>3, <2>1, <2>2 DEF ConsumeDeath, Entry
    <2>4. CreditedKiller(r, v, k) \in 0 .. MaxLives
      BY Ranges DEF CreditedKiller, NoId
    <2>5. payouts' \in [LifeIds -> 0 .. MaxLives]
      BY <1>3, <2>4 DEF ConsumeDeath
    <2>6. lives' \in [LifeIds -> Life]
      BY <1>3 DEF ConsumeDeath, Life
    <2>7. runs' \in [RunIds -> Run]
      <3>1. runs[r].sequence + 1 \in 0 .. MaxSequence
        BY <1>3, BoundAssumption DEF ConsumeDeath, Run
      <3> QED
        BY <1>3, <3>1 DEF ConsumeDeath, Run
    <2> QED
      BY <1>3, <2>3, <2>5, <2>6, <2>7 DEF ConsumeDeath
  <1>4. ASSUME NEW r \in RunIds, NEW v \in LifeIds, SkipDeath(r, v) PROVE TypeOK'
    <2>1. runs[r].sequence + 1 \in 0 .. MaxSequence
      BY <1>4, BoundAssumption DEF SkipDeath, Run
    <2> QED
      BY <1>4, <2>1 DEF SkipDeath, Run
  <1> QED
    BY <1>1, <1>2, <1>3, <1>4 DEF LifeStep

LEMMA TypeLeaveStep == TypeOK /\ LeaveStep => TypeOK'
  <1> SUFFICES ASSUME TypeOK, LeaveStep PROVE TypeOK'
    OBVIOUS
  <1> USE DEF TypeOK
  <1>1. ASSUME NEW p \in Players, RequestLeave(p) PROVE TypeOK'
    BY <1>1 DEF RequestLeave, Participant
  <1>2. ASSUME NEW p \in Players, NEW r \in RunIds \cup {NoId}, FinishLeave(p, r)
        PROVE  TypeOK'
    <2>1. refunds' \in [Entries -> 0 .. LivesPerEntry]
      BY <1>2 DEF FinishLeave, Entry
    <2>2. entries' \in [Entries -> Entry]
      BY <1>2, Ranges DEF FinishLeave, Entry
    <2>3. lives' \in [LifeIds -> Life]
      BY <1>2 DEF FinishLeave, Life
    <2>4. participants' \in [Players -> Participant]
      BY <1>2 DEF FinishLeave, Participant
    <2> QED
      BY <1>2, <2>1, <2>2, <2>3, <2>4 DEF FinishLeave
  <1> QED
    BY <1>1, <1>2 DEF LeaveStep

LEMMA TypeArenaStep == TypeOK /\ ArenaStep => TypeOK'
  <1> SUFFICES ASSUME TypeOK, ArenaStep PROVE TypeOK'
    OBVIOUS
  <1> USE DEF TypeOK
  <1>1. ASSUME NEW r \in RunIds, LeaseArena(r) PROVE TypeOK'
    BY <1>1, Ranges DEF LeaseArena, Arena
  <1>2. ASSUME NEW r \in RunIds, StartRun(r) PROVE TypeOK'
    BY <1>2 DEF StartRun, Run
  <1>3. ASSUME NEW r \in RunIds, ReleaseLives(r) PROVE lives' \in [LifeIds -> Life]
    BY <1>3 DEF ReleaseLives, Life
  <1>4. ASSUME NEW r \in RunIds, RecoverRun(r) PROVE TypeOK'
    BY <1>3, <1>4 DEF RecoverRun, Run
  <1>5. ASSUME NEW r \in RunIds, StopRun(r) PROVE TypeOK'
    <2>1. runs' \in [RunIds -> Run]
      BY <1>5 DEF StopRun, Run
    <2>2. arena' \in Arena
      BY <1>5 DEF StopRun, Arena
    <2> QED
      BY <1>3, <1>5, <2>1, <2>2 DEF StopRun
  <1>6. ASSUME LeaseExpires \/ CloseGame \/ ExpireGame PROVE TypeOK'
    BY <1>6 DEF LeaseExpires, CloseGame, ExpireGame, Arena
  <1> QED
    BY <1>1, <1>2, <1>4, <1>5, <1>6 DEF ArenaStep

----------------------------------------------------------------------------
(* Counting the deaths of an entry.                                         *)

LEMMA DeadFinite == \A e \in Entries : IsFiniteSet(DeadOf(e)) /\ Cardinality(DeadOf(e)) \in Nat
  <1> TAKE e \in Entries
  <1>1. IsFiniteSet(LifeIds)
    BY FS_Interval, BoundAssumption DEF LifeIds
  <1>2. IsFiniteSet(DeadOf(e))
    BY <1>1, FS_Subset DEF DeadOf
  <1> QED
    BY <1>2, FS_CardinalityType

\* A step that changes no dead life and kills none leaves every count alone.
LEMMA SameDead ==
  ASSUME \A l \in LifeIds : /\ lives'[l].status = "dead" <=> lives[l].status = "dead"
                            /\ lives[l].status = "dead" => lives'[l].entry = lives[l].entry
  PROVE  \A e \in Entries : DeadOf(e)' = DeadOf(e)
  BY DEF DeadOf, LifeIds

\* The death of v adds one to the count of its own entry and of no other.
LEMMA OneMoreDead ==
  ASSUME TypeOK, NEW v \in LifeIds,
         lives[v].status # "dead",
         lives' = [lives EXCEPT ![v].status = "dead"]
  PROVE  \A e \in Entries :
            Cardinality(DeadOf(e)') = IF lives[v].entry = e THEN Cardinality(DeadOf(e)) + 1
                                                            ELSE Cardinality(DeadOf(e))
  <1> TAKE e \in Entries
  <1>0. lives \in [LifeIds -> Life]
    BY DEF TypeOK
  <1>1. \A l \in LifeIds : /\ lives'[l].status = IF l = v THEN "dead" ELSE lives[l].status
                           /\ lives'[l].entry = lives[l].entry
    BY <1>0 DEF Life
  <1>2. CASE lives[v].entry = e
    <2>1. DeadOf(e)' = DeadOf(e) \cup {v} /\ v \notin DeadOf(e)
      BY <1>1, <1>2 DEF DeadOf, LifeIds
    <2> QED
      BY <1>2, <2>1, DeadFinite, FS_AddElement
  <1>3. CASE lives[v].entry # e
    <2>1. DeadOf(e)' = DeadOf(e)
      BY <1>1, <1>3 DEF DeadOf, LifeIds
    <2> QED
      BY <1>3, <2>1
  <1> QED
    BY <1>2, <1>3

----------------------------------------------------------------------------
(* The transactions on entries preserve the inductive invariant.            *)

LEMMA Frame ==
  ASSUME IInv, TypeOK', UNCHANGED <<participants, entries, lives, refunds>>
  PROVE  IInv'
  BY DEF IInv, EntryRows, LifeRows, RefundedHasLeft, OneUsableLife, FundedLife, LeaverIsSettled,
         LivesConserved, UsableOf, EntriesOf, Usable, Funded, DeadOf

\* What an entry row may do while no life row changes: it keeps or gains its
\* owner, and nothing is taken from a paid entry.
LEMMA EntryFrame ==
  ASSUME IInv, TypeOK', UNCHANGED lives,
         EntryRows', LivesConserved',
         \A p \in Players : participants[p] = "left" <=> participants'[p] = "left",
         \A e \in Entries : entries[e].status = "paid" => entries'[e] = entries[e],
         \A p \in Players : participants[p] = "left" =>
            \A e \in Entries : entries'[e].player = p => entries'[e].remaining = 0
  PROVE  IInv'
  <1>1. LifeRows'
    BY DEF IInv, LifeRows
  <1>2. RefundedHasLeft'
    BY DEF IInv, RefundedHasLeft, LifeRows
  <1>3. OneUsableLife'
    BY DEF IInv, OneUsableLife, UsableOf
  <1>4. FundedLife'
    BY DEF IInv, FundedLife, Usable, Funded
  <1>5. LeaverIsSettled'
    BY DEF IInv, LeaverIsSettled, UsableOf, EntriesOf
  <1> QED
    BY <1>1, <1>2, <1>3, <1>4, <1>5 DEF IInv

\* The count of an entry that is not paid for is zero.
LEMMA UnpaidIsEmpty ==
  ASSUME IInv, NEW e \in Entries, entries[e].status # "paid"
  PROVE  entries[e].remaining = 0 /\ Cardinality(DeadOf(e)) = 0 /\ refunds[e] = 0
  <1>1. entries[e].remaining \in Nat /\ refunds[e] \in Nat /\ Cardinality(DeadOf(e)) \in Nat
    BY DeadFinite, BoundAssumption DEF IInv, TypeOK, Entry
  <1>2. entries[e].remaining + Cardinality(DeadOf(e)) + refunds[e] = 0
    BY DEF IInv, LivesConserved
  <1> QED
    BY <1>1, <1>2

LEMMA InvEntryStep == IInv /\ EntryStep => IInv'
  <1> SUFFICES ASSUME IInv, EntryStep PROVE IInv'
    OBVIOUS
  <1>1. TypeOK'
    BY TypeEntryStep DEF IInv
  <1>2. /\ participants \in [Players -> Participant]
        /\ entries \in [Entries -> Entry]
        /\ refunds \in [Entries -> 0 .. LivesPerEntry]
    BY DEF IInv, TypeOK
  <1>3. ASSUME NEW p \in Players, NEW e \in Entries, ReserveEntry(p, e) PROVE IInv'
    <2>1. entries[e].status = "none" /\ UNCHANGED <<lives, refunds>>
      BY <1>3 DEF ReserveEntry, NextRow
    <2>2. entries' = [entries EXCEPT ![e] = [player |-> p, status |-> "creating",
                                             remaining |-> 0, payable |-> TRUE]]
      BY <1>3 DEF ReserveEntry
    <2>3. EntryRows'
      BY <1>2, <2>1, <2>2 DEF IInv, EntryRows, Entry
    <2>4. LivesConserved'
      BY <1>2, <2>1, <2>2, UnpaidIsEmpty DEF IInv, LivesConserved, DeadOf, Entry
    <2>5. /\ participants[p] # "left"
          /\ participants' = [participants EXCEPT ![p] = "playing"]
      BY <1>3 DEF ReserveEntry, MayReserve
    <2>6. \A q \in Players : participants[q] = "left" <=> participants'[q] = "left"
      BY <1>2, <2>5
    <2>7. \A q \in Players : participants[q] = "left" =>
             \A d \in Entries : entries'[d].player = q => entries'[d].remaining = 0
      BY <1>2, <2>2, <2>5 DEF IInv, LeaverIsSettled, EntriesOf
    <2> QED
      BY <1>1, <1>2, <2>1, <2>2, <2>3, <2>4, <2>6, <2>7, EntryFrame
  <1>4. ASSUME NEW e \in Entries, RecordInvoice(e) \/ InvoiceExpires(e) PROVE IInv'
    <2>1. UNCHANGED <<participants, lives, refunds>>
      BY <1>4 DEF RecordInvoice, InvoiceExpires
    <2>2. \A d \in Entries : /\ entries'[d].player = entries[d].player
                             /\ entries'[d].remaining = entries[d].remaining
                             /\ entries'[d].status = "paid" <=> entries[d].status = "paid"
                             /\ entries'[d].status = "none" <=> entries[d].status = "none"
      BY <1>2, <1>4 DEF RecordInvoice, InvoiceExpires, Entry
    <2>3. EntryRows'
      BY <2>2 DEF IInv, EntryRows
    <2>4. LifeRows'
      BY <2>1, <2>2 DEF IInv, LifeRows
    <2>5. RefundedHasLeft' /\ OneUsableLife'
      BY <2>1 DEF IInv, RefundedHasLeft, OneUsableLife, UsableOf
    <2>6. FundedLife'
      BY <2>1, <2>2 DEF IInv, FundedLife, Usable, Funded
    <2>7. LeaverIsSettled'
      BY <2>1, <2>2 DEF IInv, LeaverIsSettled, UsableOf, EntriesOf
    <2>8. LivesConserved'
      BY <2>1, <2>2 DEF IInv, LivesConserved, DeadOf
    <2> QED
      BY <1>1, <2>3, <2>4, <2>5, <2>6, <2>7, <2>8 DEF IInv
  <1>5. ASSUME NEW e \in Entries, SettleEntry(e) \/ SettleWhileLeaving(e) PROVE IInv'
    <2>1. /\ entries[e].status \in {"creating", "pending"}
          /\ participants[entries[e].player] # "left"
          /\ entries' = [entries EXCEPT ![e] = Credited(@, LivesPerEntry)]
          /\ UNCHANGED <<participants, lives, refunds>>
      BY <1>5 DEF SettleEntry, SettleWhileLeaving, Open, OpenStatus
    <2>2. \A d \in Entries :
             IF d = e THEN /\ entries'[d].player = entries[d].player
                           /\ entries'[d].status = "paid"
                           /\ entries'[d].remaining = LivesPerEntry
                      ELSE entries'[d] = entries[d]
      BY <1>2, <2>1 DEF Credited, Entry
    <2>3. EntryRows'
      BY <2>1, <2>2 DEF IInv, EntryRows
    <2>4. LivesConserved'
      BY <2>1, <2>2, UnpaidIsEmpty, BoundAssumption DEF IInv, LivesConserved, DeadOf
    <2>5. \A q \in Players : participants[q] = "left" =>
             \A d \in Entries : entries'[d].player = q => entries'[d].remaining = 0
      BY <2>1, <2>2 DEF IInv, LeaverIsSettled, EntriesOf
    <2> QED
      BY <1>1, <2>1, <2>2, <2>3, <2>4, <2>5, EntryFrame
  <1>6. ASSUME NEW e \in Entries, SettleAfterLeave(e) PROVE IInv'
    <2>1. /\ entries[e].status \in {"creating", "pending"}
          /\ entries' = [entries EXCEPT ![e] = Credited(@, 0)]
          /\ refunds' = [refunds EXCEPT ![e] = LivesPerEntry]
          /\ UNCHANGED <<participants, lives>>
      BY <1>6 DEF SettleAfterLeave, Open, OpenStatus
    <2>2. \A d \in Entries :
             IF d = e THEN /\ entries'[d].player = entries[d].player
                           /\ entries'[d].status = "paid"
                           /\ entries'[d].remaining = 0
                           /\ refunds'[d] = LivesPerEntry
                      ELSE entries'[d] = entries[d] /\ refunds'[d] = refunds[d]
      BY <1>2, <2>1 DEF Credited, Entry
    <2>3. EntryRows'
      BY <2>1, <2>2 DEF IInv, EntryRows
    <2>4. LivesConserved'
      BY <2>1, <2>2, UnpaidIsEmpty, BoundAssumption DEF IInv, LivesConserved, DeadOf
    <2>5. \A q \in Players : participants[q] = "left" =>
             \A d \in Entries : entries'[d].player = q => entries'[d].remaining = 0
      BY <2>1, <2>2 DEF IInv, LeaverIsSettled, EntriesOf
    <2> QED
      BY <1>1, <2>1, <2>2, <2>3, <2>4, <2>5, EntryFrame
  <1> QED
    BY <1>3, <1>4, <1>5, <1>6 DEF EntryStep

----------------------------------------------------------------------------
(* The transactions on lives.                                               *)

\* One life row l becomes a usable life of p, in a funded entry of p, and no
\* other life of p was usable.
LEMMA UsableFrame ==
  ASSUME IInv, TypeOK', UNCHANGED <<participants, entries, refunds>>,
         NEW p \in Players, NEW l \in LifeIds,
         participants[p] # "left",
         lives[l].status \in {"none", "alive", "left"},
         \A m \in LifeIds \ {l} : lives'[m] = lives[m],
         lives'[l].player = p, lives'[l].status = "alive",
         lives'[l].entry \in Entries, Funded(lives'[l].entry),
         entries[lives'[l].entry].player = p,
         UsableOf(p) \subseteq {l},
         lives[l].status # "none" => lives[l].player = p
  PROVE  IInv'
  <1>1. EntryRows'
    BY DEF IInv, EntryRows
  <1>2. LifeRows'
    BY DEF IInv, LifeRows, Funded
  <1>3. RefundedHasLeft'
    BY DEF IInv, RefundedHasLeft
  <1>4. OneUsableLife'
    BY DEF IInv, OneUsableLife, UsableOf, UsableStatus, LifeIds
  <1>5. FundedLife'
    BY DEF IInv, FundedLife, Usable, Funded
  <1>6. LeaverIsSettled'
    BY DEF IInv, LeaverIsSettled, UsableOf, EntriesOf, LifeIds
  <1>7. LivesConserved'
    <2>1. \A e \in Entries : DeadOf(e)' = DeadOf(e)
      BY SameDead
    <2> QED
      BY <2>1 DEF IInv, LivesConserved
  <1> QED
    BY <1>1, <1>2, <1>3, <1>4, <1>5, <1>6, <1>7 DEF IInv

LEMMA InvResumeLife ==
  ASSUME IInv, NEW p \in Players, NEW r \in RunIds, NEW l \in LifeIds, NEW s \in Slots,
         ResumeLife(p, r, l, s), TypeOK'
  PROVE  IInv'
  <1>1. /\ participants[p] = "playing"
        /\ lives[l].player = p
        /\ lives[l].status \in {"alive", "left"}
        /\ UNCHANGED <<participants, entries, refunds>>
        /\ lives' = [lives EXCEPT ![l] = [@ EXCEPT !.status = "alive", !.run = r, !.slot = s]]
    BY DEF ResumeLife, Admissible, Current, UsableOf, UsableStatus
  <1>2. lives \in [LifeIds -> Life]
    BY DEF IInv, TypeOK
  <1>3. /\ \A m \in LifeIds \ {l} : lives'[m] = lives[m]
        /\ lives'[l].player = p
        /\ lives'[l].status = "alive"
        /\ lives'[l].entry = lives[l].entry
    BY <1>1, <1>2 DEF Life
  <1>4. /\ lives[l].entry \in Entries
        /\ Funded(lives[l].entry)
        /\ entries[lives[l].entry].player = p
    BY <1>1 DEF IInv, FundedLife, Usable, UsableStatus
  <1>5. UsableOf(p) \subseteq {l}
    BY DEF IInv, OneUsableLife, ResumeLife, Current, UsableOf
  <1> QED
    BY <1>1, <1>3, <1>4, <1>5, UsableFrame

LEMMA InvNewLife ==
  ASSUME IInv, NEW p \in Players, NEW r \in RunIds, NEW l \in LifeIds, NEW s \in Slots,
         NewLife(p, r, l, s), TypeOK'
  PROVE  IInv'
  <1>1. PICK e \in Entries :
           /\ OldestFunded(p, e)
           /\ lives' = [lives EXCEPT ![l] = [player |-> p, entry |-> e, run |-> r,
                                             status |-> "alive", slot |-> s]]
    BY DEF NewLife
  <1>2. /\ participants[p] = "playing"
        /\ lives[l].status = "none"
        /\ UNCHANGED <<participants, entries, refunds>>
        /\ Funded(e) /\ entries[e].player = p
    BY <1>1 DEF NewLife, Admissible, NextRow, OldestFunded, EntriesOf
  <1>3. lives \in [LifeIds -> Life]
    BY DEF IInv, TypeOK
  <1>4. /\ \A m \in LifeIds \ {l} : lives'[m] = lives[m]
        /\ lives'[l].player = p
        /\ lives'[l].status = "alive"
        /\ lives'[l].entry = e
    BY <1>1, <1>3
  <1>5. UsableOf(p) = {}
    <2>1. ASSUME NEW m \in UsableOf(p) PROVE FALSE
      <3>1. \A n \in UsableOf(p) : n = m
        BY <2>1 DEF IInv, OneUsableLife
      <3>2. Current(p, m)
        BY <2>1, <3>1 DEF Current, UsableOf, LifeIds
      <3> QED
        BY <2>1, <3>2 DEF NewLife, UsableOf
    <2> QED
      BY <2>1
  <1> QED
    BY <1>1, <1>2, <1>4, <1>5, UsableFrame

LEMMA InvConsumeDeath ==
  ASSUME IInv, NEW r \in RunIds, NEW v \in LifeIds, NEW k \in LifeIds \cup {NoId},
         ConsumeDeath(r, v, k), TypeOK'
  PROVE  IInv'
  <1> DEFINE e == lives[v].entry
  <1>1. /\ lives[v].status \notin {"none", "dead"}
        /\ entries[e].remaining > 0
        /\ entries' = [entries EXCEPT ![e].remaining = @ - 1]
        /\ lives' = [lives EXCEPT ![v].status = "dead"]
        /\ UNCHANGED <<participants, refunds>>
    BY DEF ConsumeDeath
  <1>2. /\ lives[v].player \in Players
        /\ e \in Entries
        /\ entries[e].player = lives[v].player
        /\ entries[e].status = "paid"
    BY <1>1 DEF IInv, LifeRows
  <1>3. TypeOK
    BY DEF IInv
  <1>4. \A d \in Entries : /\ entries'[d].player = entries[d].player
                           /\ entries'[d].status = entries[d].status
                           /\ entries'[d].remaining = IF d = e THEN entries[d].remaining - 1
                                                               ELSE entries[d].remaining
    BY <1>1, <1>2, <1>3 DEF TypeOK, Entry
  <1>5. \A l \in LifeIds : /\ lives'[l].player = lives[l].player
                           /\ lives'[l].entry = lives[l].entry
                           /\ lives'[l].status = IF l = v THEN "dead" ELSE lives[l].status
    BY <1>1, <1>3 DEF TypeOK, Life
  \* A refunded life belongs to a player who left, whose entries are empty.
  <1>6. participants[lives[v].player] # "left"
    BY <1>1, <1>2 DEF IInv, LeaverIsSettled, EntriesOf
  <1>7. Usable(v)
    BY <1>1, <1>3, <1>6 DEF IInv, RefundedHasLeft, TypeOK, Life, Usable, UsableStatus
  <1>8. EntryRows'
    BY <1>4 DEF IInv, EntryRows
  <1>9. LifeRows'
    BY <1>1, <1>2, <1>4, <1>5 DEF IInv, LifeRows
  <1>10. RefundedHasLeft'
    BY <1>1, <1>5 DEF IInv, RefundedHasLeft
  <1>11. OneUsableLife'
    BY <1>5 DEF IInv, OneUsableLife, UsableOf, UsableStatus
  \* The only usable life of the victim's player was the victim.
  <1>12. FundedLife'
    <2>1. SUFFICES ASSUME NEW l \in LifeIds, Usable(l)'
                   PROVE  /\ lives[l].entry \in Entries
                          /\ Funded(lives[l].entry)'
                          /\ entries[lives[l].entry].player = lives[l].player
      BY <1>4, <1>5 DEF FundedLife
    <2>2. Usable(l) /\ l # v
      BY <1>5, <2>1 DEF Usable, UsableStatus
    <2>3. /\ lives[l].entry \in Entries
          /\ Funded(lives[l].entry)
          /\ entries[lives[l].entry].player = lives[l].player
      BY <2>2 DEF IInv, FundedLife
    <2>4. lives[l].entry # e
      BY <1>2, <1>7, <2>2, <2>3 DEF IInv, OneUsableLife, UsableOf, Usable
    <2> QED
      BY <1>4, <1>5, <2>3, <2>4 DEF Funded
  <1>13. LeaverIsSettled'
    BY <1>1, <1>2, <1>4, <1>5, <1>6 DEF IInv, LeaverIsSettled, UsableOf, EntriesOf, UsableStatus
  <1>14. LivesConserved'
    <2>1. \A d \in Entries :
             Cardinality(DeadOf(d)') = IF e = d THEN Cardinality(DeadOf(d)) + 1
                                                ELSE Cardinality(DeadOf(d))
      BY <1>1, <1>3, OneMoreDead
    <2>2. \A d \in Entries : /\ entries[d].remaining \in Nat
                             /\ refunds[d] \in Nat
                             /\ Cardinality(DeadOf(d)) \in Nat
      BY <1>3, DeadFinite, BoundAssumption DEF TypeOK, Entry
    <2> QED
      BY <1>1, <1>4, <2>1, <2>2 DEF IInv, LivesConserved
  <1> QED
    BY <1>8, <1>9, <1>10, <1>11, <1>12, <1>13, <1>14 DEF IInv

LEMMA InvLifeStep == IInv /\ LifeStep => IInv'
  <1> SUFFICES ASSUME IInv, LifeStep PROVE IInv'
    OBVIOUS
  <1>1. TypeOK'
    BY TypeLifeStep DEF IInv
  <1>2. ASSUME NEW r \in RunIds, NEW v \in LifeIds, SkipDeath(r, v) PROVE IInv'
    BY <1>1, <1>2, Frame DEF SkipDeath
  <1> QED
    BY <1>1, <1>2, InvResumeLife, InvNewLife, InvConsumeDeath DEF LifeStep

----------------------------------------------------------------------------
(* Leaving, and the steps of the arena row.                                 *)

LEMMA InvFinishLeave ==
  ASSUME IInv, NEW p \in Players, NEW revoked \in RunIds \cup {NoId},
         FinishLeave(p, revoked), TypeOK'
  PROVE  IInv'
  <1> DEFINE owed == {e \in EntriesOf(p) : Funded(e)}
  <1>1. TypeOK
    BY DEF IInv
  <1>2. /\ participants[p] = "leaving"
        /\ \A e \in owed : refunds[e] = 0
        /\ refunds' = [e \in Entries |-> IF e \in owed THEN entries[e].remaining ELSE refunds[e]]
        /\ entries' = [e \in Entries |-> IF e \in owed THEN [entries[e] EXCEPT !.remaining = 0]
                                                       ELSE entries[e]]
        /\ lives' = [l \in LifeIds |->
                        IF l \in UsableOf(p) THEN [lives[l] EXCEPT !.status = "refunded"]
                                             ELSE lives[l]]
        /\ participants' = [participants EXCEPT ![p] = "left"]
    BY DEF FinishLeave
  <1>3. \A e \in Entries : /\ entries'[e].player = entries[e].player
                           /\ entries'[e].status = entries[e].status
                           /\ entries'[e].remaining = IF e \in owed THEN 0 ELSE entries[e].remaining
    BY <1>1, <1>2 DEF TypeOK, Entry
  <1>4. \A l \in LifeIds :
           /\ lives'[l].player = lives[l].player
           /\ lives'[l].entry = lives[l].entry
           /\ lives'[l].status = IF l \in UsableOf(p) THEN "refunded" ELSE lives[l].status
    BY <1>1, <1>2 DEF TypeOK, Life
  <1>5. \A q \in Players : participants'[q] = IF q = p THEN "left" ELSE participants[q]
    BY <1>1, <1>2 DEF TypeOK
  <1>6. EntryRows'
    BY <1>3 DEF IInv, EntryRows
  <1>7. LifeRows'
    BY <1>3, <1>4 DEF IInv, LifeRows, UsableOf, UsableStatus
  <1>8. RefundedHasLeft'
    BY <1>4, <1>5 DEF IInv, RefundedHasLeft, LifeRows, UsableOf
  <1>9. OneUsableLife'
    BY <1>4 DEF IInv, OneUsableLife, UsableOf, UsableStatus
  <1>10. FundedLife'
    <2>1. SUFFICES ASSUME NEW l \in LifeIds, Usable(l)'
                   PROVE  /\ lives[l].entry \in Entries
                          /\ Funded(lives[l].entry)'
                          /\ entries[lives[l].entry].player = lives[l].player
      BY <1>3, <1>4 DEF FundedLife
    <2>2. Usable(l) /\ lives[l].player # p
      BY <1>4, <2>1 DEF Usable, UsableOf, UsableStatus
    <2>3. /\ lives[l].entry \in Entries
          /\ Funded(lives[l].entry)
          /\ entries[lives[l].entry].player = lives[l].player
      BY <2>2 DEF IInv, FundedLife
    <2> QED
      BY <1>3, <1>4, <2>2, <2>3 DEF Funded, EntriesOf
  <1>11. LeaverIsSettled'
    <2>1. UsableOf(p)' = {}
      BY <1>4 DEF UsableOf, UsableStatus
    <2>2. \A e \in EntriesOf(p) : entries'[e].remaining = 0
      BY <1>1, <1>3, UnpaidIsEmpty, BoundAssumption DEF EntriesOf, Funded, TypeOK, Entry
    <2>3. \A q \in Players : UsableOf(q)' \subseteq UsableOf(q) /\ EntriesOf(q)' = EntriesOf(q)
      BY <1>3, <1>4 DEF UsableOf, EntriesOf, UsableStatus
    <2>4. \A e \in Entries : entries[e].remaining = 0 => entries'[e].remaining = 0
      BY <1>3
    <2> QED
      BY <1>5, <2>1, <2>2, <2>3, <2>4 DEF IInv, LeaverIsSettled, EntriesOf
  <1>12. LivesConserved'
    <2>1. \A e \in Entries : DeadOf(e)' = DeadOf(e)
      BY <1>4, SameDead DEF UsableOf, UsableStatus
    <2>2. \A e \in Entries : entries[e].remaining \in Nat /\ Cardinality(DeadOf(e)) \in Nat
      BY <1>1, DeadFinite DEF TypeOK, Entry
    <2>3. \A e \in Entries : entries'[e].remaining + refunds'[e] = entries[e].remaining + refunds[e]
      BY <1>1, <1>2, <1>3, <2>2 DEF TypeOK
    <2>4. \A e \in Entries : /\ entries'[e].remaining \in Nat /\ refunds'[e] \in Nat
                             /\ refunds[e] \in Nat
      BY <1>1 DEF TypeOK, Entry
    <2>5. \A e \in Entries :
             entries'[e].remaining + Cardinality(DeadOf(e)) + refunds'[e]
                = entries[e].remaining + Cardinality(DeadOf(e)) + refunds[e]
      BY <2>2, <2>3, <2>4
    <2> QED
      BY <1>3, <2>1, <2>5 DEF IInv, LivesConserved
  <1> QED
    BY <1>6, <1>7, <1>8, <1>9, <1>10, <1>11, <1>12 DEF IInv

LEMMA InvLeaveStep == IInv /\ LeaveStep => IInv'
  <1> SUFFICES ASSUME IInv, LeaveStep PROVE IInv'
    OBVIOUS
  <1>1. TypeOK'
    BY TypeLeaveStep DEF IInv
  <1>2. ASSUME NEW p \in Players, RequestLeave(p) PROVE IInv'
    <2>1. /\ participants[p] = "playing"
          /\ participants' = [participants EXCEPT ![p] = "leaving"]
          /\ UNCHANGED <<entries, lives, refunds>>
      BY <1>2 DEF RequestLeave
    <2>2. \A q \in Players : participants'[q] = "left" <=> participants[q] = "left"
      BY <2>1 DEF IInv, TypeOK
    <2>3. /\ EntryRows' /\ LifeRows' /\ OneUsableLife' /\ FundedLife' /\ LivesConserved'
      BY <2>1 DEF IInv, EntryRows, LifeRows, OneUsableLife, FundedLife, LivesConserved,
                  UsableOf, Usable, Funded, DeadOf
    <2>4. RefundedHasLeft' /\ LeaverIsSettled'
      BY <2>1, <2>2 DEF IInv, RefundedHasLeft, LeaverIsSettled, LifeRows, UsableOf, EntriesOf
    <2> QED
      BY <1>1, <2>3, <2>4 DEF IInv
  <1> QED
    BY <1>1, <1>2, InvFinishLeave DEF LeaveStep

\* The end of a run turns live lives into left ones, which are usable too.
LEMMA InvReleaseLives ==
  ASSUME IInv, NEW r \in RunIds, ReleaseLives(r), TypeOK',
         UNCHANGED <<participants, entries, refunds>>
  PROVE  IInv'
  <1>1. \A l \in LifeIds :
           /\ lives'[l].player = lives[l].player
           /\ lives'[l].entry = lives[l].entry
           /\ lives'[l].status = IF l \in AliveIn(r) THEN "left" ELSE lives[l].status
    BY DEF IInv, TypeOK, Life, ReleaseLives
  <1>2. \A l \in AliveIn(r) : lives[l].status = "alive"
    BY DEF AliveIn, AliveLives
  <1>3. \A p \in Players : UsableOf(p)' = UsableOf(p)
    BY <1>1, <1>2 DEF UsableOf, UsableStatus
  <1>4. \A e \in Entries : DeadOf(e)' = DeadOf(e)
    BY <1>1, <1>2, SameDead
  <1>5. EntryRows'
    BY DEF IInv, EntryRows
  <1>6. LifeRows' /\ RefundedHasLeft'
    BY <1>1, <1>2 DEF IInv, LifeRows, RefundedHasLeft
  <1>7. OneUsableLife' /\ LeaverIsSettled'
    BY <1>3 DEF IInv, OneUsableLife, LeaverIsSettled, EntriesOf
  <1>8. FundedLife'
    BY <1>1, <1>2 DEF IInv, FundedLife, Usable, UsableStatus, Funded
  <1>9. LivesConserved'
    BY <1>4 DEF IInv, LivesConserved
  <1> QED
    BY <1>5, <1>6, <1>7, <1>8, <1>9 DEF IInv

LEMMA InvArenaStep == IInv /\ ArenaStep => IInv'
  <1> SUFFICES ASSUME IInv, ArenaStep PROVE IInv'
    OBVIOUS
  <1>1. TypeOK'
    BY TypeArenaStep DEF IInv
  <1>2. ASSUME NEW r \in RunIds, LeaseArena(r) \/ StartRun(r) PROVE IInv'
    BY <1>1, <1>2, Frame DEF LeaseArena, StartRun
  <1>3. ASSUME NEW r \in RunIds, RecoverRun(r) \/ StopRun(r) PROVE IInv'
    BY <1>1, <1>3, InvReleaseLives DEF RecoverRun, StopRun
  <1>4. ASSUME LeaseExpires \/ CloseGame \/ ExpireGame PROVE IInv'
    BY <1>1, <1>4, Frame DEF LeaseExpires, CloseGame, ExpireGame
  <1> QED
    BY <1>2, <1>3, <1>4 DEF ArenaStep

----------------------------------------------------------------------------
(* The theorems.                                                            *)

LEMMA InvInit == Init => IInv
  <1> SUFFICES ASSUME Init PROVE IInv
    OBVIOUS
  <1>1. TypeOK
    BY TypeInit
  <1>2. \A e \in Entries : DeadOf(e) = {}
    BY DEF Init, NothingPlayed, DeadOf
  <1>3. LivesConserved
    <2>1. \A e \in Entries : /\ entries[e].remaining = 0
                             /\ entries[e].status = "none"
                             /\ refunds[e] = 0
      BY DEF Init, NothingPlayed
    <2>2. \A e \in Entries : Cardinality(DeadOf(e)) = 0
      BY <1>2, FS_EmptySet
    <2> QED
      BY <2>1, <2>2 DEF LivesConserved
  <1> QED
    BY <1>1, <1>3, PlayerAssumption
    DEF IInv, Init, NothingPlayed, EntryRows, LifeRows, RefundedHasLeft, OneUsableLife, FundedLife,
        LeaverIsSettled, UsableOf, UsableStatus, EntriesOf, Usable

LEMMA InvStutter == IInv /\ UNCHANGED vars => IInv'
  <1> SUFFICES ASSUME IInv, UNCHANGED vars PROVE IInv'
    OBVIOUS
  <1>1. TypeOK'
    BY DEF vars, IInv, TypeOK
  <1> QED
    BY <1>1, Frame DEF vars

LEMMA InvStep == IInv /\ [Next]_vars => IInv'
  BY InvEntryStep, InvLifeStep, InvLeaveStep, InvArenaStep, InvStutter DEF Next

\* The tables keep their types and the inductive invariant holds in every
\* reachable state of the ledger, whatever the number of players, entries,
\* lives and runs and whoever calls the transactions, in any order.
THEOREM Invariance == Spec => []IInv
  BY InvInit, InvStep, PTL DEF Spec

\* Type correctness of the ledger.
THEOREM TypeCorrect == Spec => []TypeOK
  BY Invariance, PTL DEF IInv

\* No life is lost, invented, spent twice, or both spent and refunded.
THEOREM Conservation == Spec => []LivesConserved
  BY Invariance, PTL DEF IInv

\* A player never holds two usable lives, and each usable life is funded.
THEOREM OneFundedLife == Spec => [](OneUsableLife /\ FundedLife)
  BY Invariance, PTL DEF IInv

\* Once a leave is complete the session owns no life and no balance for good.
THEOREM LeaveSettles == Spec => []LeaverIsSettled
  BY Invariance, PTL DEF IInv

\* No transaction touches the row of a dead or refunded life.
LEMMA RetiredKept ==
  ASSUME IInv, [Next]_vars
  PROVE  \A l \in LifeIds : lives[l].status \in {"dead", "refunded"} => lives'[l] = lives[l]
  <1> DEFINE Kept == \A l \in LifeIds :
                        lives[l].status \in {"dead", "refunded"} => lives'[l] = lives[l]
  <1>1. lives \in [LifeIds -> Life]
    BY DEF IInv, TypeOK
  <1>2. CASE EntryStep
    BY <1>2 DEF EntryStep, ReserveEntry, RecordInvoice, InvoiceExpires, SettleEntry,
                SettleWhileLeaving, SettleAfterLeave
  <1>3. CASE LifeStep
    <2>1. ASSUME NEW p \in Players, NEW r \in RunIds, NEW l \in LifeIds, NEW s \in Slots,
                 ResumeLife(p, r, l, s) \/ NewLife(p, r, l, s)
          PROVE  Kept
      BY <1>1, <2>1 DEF ResumeLife, NewLife, Current, UsableOf, UsableStatus, NextRow
    <2>2. ASSUME NEW r \in RunIds, NEW v \in LifeIds, NEW k \in LifeIds \cup {NoId},
                 ConsumeDeath(r, v, k)
          PROVE  Kept
      <3>1. /\ lives[v].status \notin {"none", "dead"}
            /\ entries[lives[v].entry].remaining > 0
            /\ lives' = [lives EXCEPT ![v].status = "dead"]
        BY <2>2 DEF ConsumeDeath
      <3>2. lives[v].status # "refunded"
        BY <3>1 DEF IInv, RefundedHasLeft, LifeRows, LeaverIsSettled, EntriesOf
      <3> QED
        BY <1>1, <3>1, <3>2
    <2>3. ASSUME NEW r \in RunIds, NEW v \in LifeIds, SkipDeath(r, v) PROVE Kept
      BY <2>3 DEF SkipDeath
    <2> QED
      BY <1>3, <2>1, <2>2, <2>3 DEF LifeStep
  <1>4. CASE LeaveStep
    BY <1>1, <1>4 DEF LeaveStep, RequestLeave, FinishLeave, UsableOf, UsableStatus
  <1>5. CASE ArenaStep
    BY <1>1, <1>5 DEF ArenaStep, LeaseArena, StartRun, RecoverRun, StopRun, ReleaseLives,
                      AliveIn, AliveLives, LeaseExpires, CloseGame, ExpireGame
  <1>6. CASE UNCHANGED vars
    BY <1>6 DEF vars
  <1> QED
    BY <1>2, <1>3, <1>4, <1>5, <1>6 DEF Next

\* A dead or refunded life keeps its row for ever: it is never played, killed or
\* refunded again.
THEOREM Retirement == Spec => RetiredForGood
  <1>1. IInv /\ [Next]_vars
           => [\A l \in LifeIds : lives[l].status \in {"dead", "refunded"} =>
                  lives'[l] = lives[l]]_vars
    BY RetiredKept
  <1> QED
    BY Invariance, <1>1, PTL DEF Spec, RetiredForGood

----------------------------------------------------------------------------
(* The ledger implements the accounts.                                      *)

LEMMA AccountSame ==
  ASSUME UNCHANGED <<entries, refunds>>, \A e \in Entries : DeadOf(e)' = DeadOf(e)
  PROVE  UNCHANGED Account!accountVars
  BY DEF Account!accountVars, Sold, Held, Spent

LEMMA AccountEntryStep ==
  ASSUME IInv, EntryStep
  PROVE  Account!AccountNext \/ UNCHANGED Account!accountVars
  <1>0. /\ entries \in [Entries -> Entry]
        /\ refunds \in [Entries -> 0 .. LivesPerEntry]
    BY DEF IInv, TypeOK
  <1>1. UNCHANGED lives
    BY DEF EntryStep, ReserveEntry, RecordInvoice, InvoiceExpires, SettleEntry,
           SettleWhileLeaving, SettleAfterLeave
  <1>2. Spent' = Spent
    BY <1>1 DEF Spent, DeadOf
  <1>3. ASSUME NEW p \in Players, NEW e \in Entries, ReserveEntry(p, e)
        PROVE  UNCHANGED Account!accountVars
    <2>1. /\ entries[e].status = "none"
          /\ entries' = [entries EXCEPT ![e] = [player |-> p, status |-> "creating",
                                                remaining |-> 0, payable |-> TRUE]]
          /\ UNCHANGED refunds
      BY <1>3 DEF ReserveEntry, NextRow
    <2>2. entries[e].remaining = 0
      BY <2>1, UnpaidIsEmpty
    <2> QED
      BY <1>0, <1>2, <2>1, <2>2 DEF Account!accountVars, Sold, Held
  <1>4. ASSUME NEW e \in Entries, RecordInvoice(e) \/ InvoiceExpires(e)
        PROVE  UNCHANGED Account!accountVars
    <2>1. \A d \in Entries : /\ entries'[d].remaining = entries[d].remaining
                             /\ entries'[d].status = "paid" <=> entries[d].status = "paid"
      BY <1>0, <1>4 DEF RecordInvoice, InvoiceExpires, Entry
    <2>2. UNCHANGED refunds
      BY <1>4 DEF RecordInvoice, InvoiceExpires
    <2> QED
      BY <1>2, <2>1, <2>2 DEF Account!accountVars, Sold, Held
  <1>5. ASSUME NEW e \in Entries, SettleEntry(e) \/ SettleWhileLeaving(e)
        PROVE  Account!Buy(e)
    <2>1. /\ entries[e].status \in {"creating", "pending"}
          /\ entries' = [entries EXCEPT ![e] = Credited(@, LivesPerEntry)]
          /\ UNCHANGED refunds
      BY <1>5 DEF SettleEntry, SettleWhileLeaving, Open, OpenStatus
    <2>2. ~Sold[e] /\ Sold' = [Sold EXCEPT ![e] = TRUE]
      BY <1>0, <2>1 DEF Sold, Credited, Entry
    <2>3. Held' = [Held EXCEPT ![e] = LivesPerEntry]
      BY <1>0, <2>1 DEF Held, Credited, Entry
    <2> QED
      BY <1>2, <2>1, <2>2, <2>3 DEF Account!Buy
  <1>6. ASSUME NEW e \in Entries, SettleAfterLeave(e) PROVE Account!BuyBack(e)
    <2>1. /\ entries[e].status \in {"creating", "pending"}
          /\ entries' = [entries EXCEPT ![e] = Credited(@, 0)]
          /\ refunds' = [refunds EXCEPT ![e] = LivesPerEntry]
      BY <1>6 DEF SettleAfterLeave, Open, OpenStatus
    <2>2. entries[e].remaining = 0
      BY <2>1, UnpaidIsEmpty
    <2>3. ~Sold[e] /\ Sold' = [Sold EXCEPT ![e] = TRUE]
      BY <1>0, <2>1 DEF Sold, Credited, Entry
    <2>4. Held' = Held
      BY <1>0, <2>1, <2>2 DEF Held, Credited, Entry
    <2> QED
      BY <1>2, <2>1, <2>3, <2>4 DEF Account!BuyBack
  <1> QED
    BY <1>3, <1>4, <1>5, <1>6 DEF EntryStep, Account!AccountNext

LEMMA AccountLifeStep ==
  ASSUME IInv, LifeStep
  PROVE  Account!AccountNext \/ UNCHANGED Account!accountVars
  <1>0. TypeOK
    BY DEF IInv
  <1>1. ASSUME NEW p \in Players, NEW r \in RunIds, NEW l \in LifeIds, NEW s \in Slots,
               ResumeLife(p, r, l, s) \/ NewLife(p, r, l, s)
        PROVE  UNCHANGED Account!accountVars
    <2>1. lives[l].status \in {"none", "alive", "left"}
      BY <1>1 DEF ResumeLife, NewLife, Current, UsableOf, UsableStatus, NextRow
    <2>2. lives'[l].status = "alive" /\ \A m \in LifeIds \ {l} : lives'[m] = lives[m]
      <3>1. CASE ResumeLife(p, r, l, s)
        BY <1>0, <3>1 DEF ResumeLife, TypeOK, Life
      <3>2. CASE NewLife(p, r, l, s)
        <4>1. PICK e \in Entries :
                 lives' = [lives EXCEPT ![l] = [player |-> p, entry |-> e, run |-> r,
                                                status |-> "alive", slot |-> s]]
          BY <3>2 DEF NewLife
        <4> QED
          BY <1>0, <4>1 DEF TypeOK
      <3> QED
        BY <1>1, <3>1, <3>2
    <2>3. \A e \in Entries : DeadOf(e)' = DeadOf(e)
      BY <2>1, <2>2, SameDead
    <2>4. UNCHANGED <<entries, refunds>>
      BY <1>1 DEF ResumeLife, NewLife
    <2> QED
      BY <2>3, <2>4, AccountSame
  <1>2. ASSUME NEW r \in RunIds, NEW v \in LifeIds, NEW k \in LifeIds \cup {NoId},
               ConsumeDeath(r, v, k)
        PROVE  \E e \in Entries : Account!Spend(e)
    <2> DEFINE e == lives[v].entry
    <2>1. /\ lives[v].status \notin {"none", "dead"}
          /\ entries[e].remaining > 0
          /\ entries' = [entries EXCEPT ![e].remaining = @ - 1]
          /\ lives' = [lives EXCEPT ![v].status = "dead"]
          /\ UNCHANGED refunds
      BY <1>2 DEF ConsumeDeath
    <2>2. e \in Entries
      BY <2>1 DEF IInv, LifeRows
    <2>3. Sold' = Sold
      BY <1>0, <2>1, <2>2 DEF Sold, TypeOK, Entry
    <2>4. Held[e] > 0 /\ Held' = [Held EXCEPT ![e] = @ - 1]
      <3>1. \A d \in Entries : entries'[d].remaining = IF d = e THEN entries[d].remaining - 1
                                                              ELSE entries[d].remaining
        BY <1>0, <2>1, <2>2 DEF TypeOK, Entry
      <3> QED
        BY <2>1, <2>2, <3>1 DEF Held
    <2>5. \A d \in Entries :
             Cardinality(DeadOf(d)') = IF e = d THEN Cardinality(DeadOf(d)) + 1
                                                ELSE Cardinality(DeadOf(d))
      BY <1>0, <2>1, OneMoreDead
    <2>6. Spent' = [Spent EXCEPT ![e] = @ + 1]
      BY <2>2, <2>5 DEF Spent
    <2> QED
      BY <2>1, <2>2, <2>3, <2>4, <2>6 DEF Account!Spend
  <1>3. ASSUME NEW r \in RunIds, NEW v \in LifeIds, SkipDeath(r, v)
        PROVE  UNCHANGED Account!accountVars
    BY <1>3, AccountSame DEF SkipDeath, DeadOf
  <1> QED
    BY <1>1, <1>2, <1>3 DEF LifeStep, Account!AccountNext

LEMMA AccountLeaveStep ==
  ASSUME IInv, LeaveStep
  PROVE  Account!AccountNext \/ UNCHANGED Account!accountVars
  <1>0. TypeOK
    BY DEF IInv
  <1>1. ASSUME NEW p \in Players, RequestLeave(p) PROVE UNCHANGED Account!accountVars
    BY <1>1, AccountSame DEF RequestLeave, DeadOf
  <1>2. ASSUME NEW p \in Players, NEW revoked \in RunIds \cup {NoId}, FinishLeave(p, revoked)
        PROVE  \E S \in SUBSET Entries : Account!Refund(S)
    <2> DEFINE owed == {e \in EntriesOf(p) : Funded(e)}
    <2>1. owed \in SUBSET Entries
      BY DEF EntriesOf
    <2>2. /\ refunds' = [e \in Entries |-> IF e \in owed THEN entries[e].remaining ELSE refunds[e]]
          /\ entries' = [e \in Entries |-> IF e \in owed THEN [entries[e] EXCEPT !.remaining = 0]
                                                         ELSE entries[e]]
          /\ lives' = [l \in LifeIds |->
                          IF l \in UsableOf(p) THEN [lives[l] EXCEPT !.status = "refunded"]
                                               ELSE lives[l]]
      BY <1>2 DEF FinishLeave
    <2>3. \A e \in owed : Held[e] > 0
      BY <2>1 DEF Held, Funded
    <2>4. Held' = [e \in Entries |-> IF e \in owed THEN 0 ELSE Held[e]] /\ Sold' = Sold
      BY <1>0, <2>2 DEF Held, Sold, TypeOK, Entry
    <2>5. refunds' = [e \in Entries |-> IF e \in owed THEN Held[e] ELSE refunds[e]]
      BY <2>2 DEF Held
    <2>6. \A l \in LifeIds :
             /\ lives'[l].entry = lives[l].entry
             /\ lives'[l].status = IF l \in UsableOf(p) THEN "refunded" ELSE lives[l].status
      BY <1>0, <2>2 DEF TypeOK, Life
    <2>7. \A e \in Entries : DeadOf(e)' = DeadOf(e)
      BY <2>6, SameDead DEF UsableOf, UsableStatus
    <2>8. Spent' = Spent
      BY <2>7 DEF Spent
    <2>9. Account!Refund(owed)
      BY <2>3, <2>4, <2>5, <2>8 DEF Account!Refund
    <2> QED
      BY <2>1, <2>9
  <1> QED
    BY <1>1, <1>2 DEF LeaveStep, Account!AccountNext

LEMMA AccountArenaStep ==
  ASSUME IInv, ArenaStep
  PROVE  UNCHANGED Account!accountVars
  <1>1. UNCHANGED <<entries, refunds>>
    BY DEF ArenaStep, LeaseArena, StartRun, RecoverRun, StopRun, LeaseExpires, CloseGame,
           ExpireGame
  <1>2. UNCHANGED lives \/ \E r \in RunIds : ReleaseLives(r)
    BY DEF ArenaStep, LeaseArena, StartRun, RecoverRun, StopRun, LeaseExpires, CloseGame,
           ExpireGame
  <1>3. \A e \in Entries : DeadOf(e)' = DeadOf(e)
    <2>1. CASE UNCHANGED lives
      BY <2>1 DEF DeadOf
    <2>2. ASSUME NEW r \in RunIds, ReleaseLives(r)
          PROVE  \A e \in Entries : DeadOf(e)' = DeadOf(e)
      BY <2>2, SameDead DEF IInv, TypeOK, Life, ReleaseLives, AliveIn, AliveLives
    <2> QED
      BY <1>2, <2>1, <2>2
  <1> QED
    BY <1>1, <1>3, AccountSame

LEMMA AccountStart ==
  ASSUME \A e \in Entries : entries[e].status # "paid" /\ entries[e].remaining = 0,
         \A e \in Entries : DeadOf(e) = {},
         refunds = [e \in Entries |-> 0]
  PROVE  Account!AccountInit
  <1>1. Spent = [e \in Entries |-> 0]
    BY FS_EmptySet DEF Spent
  <1>2. Sold = [e \in Entries |-> FALSE] /\ Held = [e \in Entries |-> 0]
    BY DEF Sold, Held
  <1> QED
    BY <1>1, <1>2 DEF Account!AccountInit

LEMMA AccountStep == IInv /\ [Next]_vars => [Account!AccountNext]_(Account!accountVars)
  <1>1. UNCHANGED vars => UNCHANGED Account!accountVars
    BY AccountSame DEF vars, DeadOf
  <1> QED
    BY <1>1, AccountEntryStep, AccountLifeStep, AccountLeaveStep, AccountArenaStep DEF Next

\* Seen entry by entry, every behaviour of the ledger is a behaviour of the
\* accounts: a paid entry holds LivesPerEntry lives, and each transaction spends
\* one of them or refunds all that are left.
THEOREM Refinement == Spec => ImplementsAccount
  <1>1. Init => Account!AccountInit
    BY AccountStart DEF Init, NothingPlayed, DeadOf
  <1> QED
    BY Invariance, AccountStep, <1>1, PTL DEF Spec, ImplementsAccount, Account!AccountSpec

----------------------------------------------------------------------------
(* Solvency: rounding down once per row never pays out more than was paid.  *)

LEMMA FloorBound ==
  ASSUME NEW n \in Nat, NEW d \in Nat \ {0}
  PROVE  n \div d \in Nat /\ d * (n \div d) <= n
  OBVIOUS

LEMMA FloorSumBound ==
  ASSUME NEW n \in Nat, NEW m \in Nat, NEW d \in Nat \ {0}
  PROVE  (n \div d) + (m \div d) \in Nat /\ d * ((n \div d) + (m \div d)) <= n + m
  BY FloorBound

\* The budget of one entry: `kills' prizes of n-th parts and one refund of `back'
\* parts, each split between two recipients, out of an amount cut in `parts'.
LEMMA Budget ==
  ASSUME NEW amount \in Nat, NEW net \in Nat, NEW fee \in Nat, net + fee <= 100,
         NEW parts \in Nat \ {0}, NEW kills \in Nat, NEW back \in Nat, kills + back <= parts
  PROVE  LET d == 100 * parts
         IN  (kills * (((amount * net) \div d) + ((amount * fee) \div d)))
               + (((back * amount * net) \div d) + ((back * amount * fee) \div d)) <= amount
  <1> DEFINE d == 100 * parts
             prize == ((amount * net) \div d) + ((amount * fee) \div d)
             refund == ((back * amount * net) \div d) + ((back * amount * fee) \div d)
  <1>1. d \in Nat \ {0}
    OBVIOUS
  <1>2. /\ amount * net \in Nat /\ amount * fee \in Nat
        /\ back * amount * net \in Nat /\ back * amount * fee \in Nat
    OBVIOUS
  <1>3. prize \in Nat /\ d * prize <= (amount * net) + (amount * fee)
    BY <1>1, <1>2, FloorSumBound
  <1>4. refund \in Nat /\ d * refund <= (back * amount * net) + (back * amount * fee)
    BY <1>1, <1>2, FloorSumBound
  <1>5. (amount * net) + (amount * fee) <= 100 * amount
    OBVIOUS
  <1>6. (back * amount * net) + (back * amount * fee) <= 100 * (back * amount)
    OBVIOUS
  <1> HIDE DEF prize, refund
  <1>7. kills * (d * prize) <= kills * (100 * amount)
    <2>1. d * prize <= 100 * amount /\ d * prize \in Nat
      BY <1>1, <1>2, <1>3, <1>5
    <2> HIDE DEF d
    <2> QED
      BY <2>1
  <1>8. (kills + back) * (100 * amount) <= parts * (100 * amount)
    OBVIOUS
  <1>9. d * ((kills * prize) + refund) <= d * amount
    <2>1. d * ((kills * prize) + refund) = (kills * (d * prize)) + (d * refund)
      BY <1>1, <1>3, <1>4
    <2>2. d * refund <= 100 * (back * amount)
      BY <1>1, <1>2, <1>4, <1>6
    <2>3. (kills * (100 * amount)) + (100 * (back * amount)) = (kills + back) * (100 * amount)
      OBVIOUS
    <2>4. parts * (100 * amount) = d * amount
      OBVIOUS
    <2>5. /\ kills * (d * prize) \in Nat /\ d * refund \in Nat
          /\ kills * (100 * amount) \in Nat /\ 100 * (back * amount) \in Nat
          /\ d * amount \in Nat
      BY <1>1, <1>3, <1>4
    <2> QED
      BY <1>7, <1>8, <2>1, <2>2, <2>3, <2>4, <2>5
  <1>10. (kills * prize) + refund <= amount
    <2>1. (kills * prize) + refund \in Nat
      BY <1>3, <1>4
    <2> HIDE DEF d
    <2> QED
      BY <1>1, <1>9, <2>1
  <1> QED
    BY <1>10 DEF prize, refund

LEMMA SalesCoverPayouts == IInv => Solvent
  <1> SUFFICES ASSUME IInv, NEW e \in Entries
               PROVE  OwedFor(e) <= IF entries[e].status = "paid" THEN EntryAmount ELSE 0
    BY DEF Solvent
  <1>1. /\ IsFiniteSet(DeadOf(e)) /\ Cardinality(DeadOf(e)) \in Nat
        /\ entries[e].remaining \in Nat /\ refunds[e] \in Nat
    BY DeadFinite, BoundAssumption DEF IInv, TypeOK, Entry
  <1>2. /\ Cardinality(PaidKills(e)) \in Nat
        /\ Cardinality(PaidKills(e)) <= Cardinality(DeadOf(e))
    BY <1>1, FS_Subset, FS_CardinalityType DEF PaidKills
  <1>3. /\ CreatorFee \in Nat /\ 100 - Haircut - CreatorFee \in Nat
        /\ (100 - Haircut - CreatorFee) + CreatorFee <= 100
    BY FeeAssumption DEF CreatorFee
  <1>4. CASE entries[e].status = "paid"
    <2>1. Cardinality(PaidKills(e)) + refunds[e] <= LivesPerEntry
      BY <1>1, <1>2, <1>4, BoundAssumption DEF IInv, LivesConserved
    <2> DEFINE net == 100 - Haircut - CreatorFee
               kills == Cardinality(PaidKills(e))
               back == refunds[e]
               d == 100 * LivesPerEntry
               owed == (kills * (((EntryAmount * net) \div d)
                                   + ((EntryAmount * CreatorFee) \div d)))
                         + (((back * EntryAmount * net) \div d)
                              + ((back * EntryAmount * CreatorFee) \div d))
    <2>2. OwedFor(e) = owed
      BY DEF OwedFor, PrizeAmount, CreatorAmount, RefundAmount, CreatorRefund
    <2>3. /\ net \in Nat /\ CreatorFee \in Nat /\ net + CreatorFee <= 100
          /\ kills \in Nat /\ back \in Nat /\ kills + back <= LivesPerEntry
          /\ EntryAmount \in Nat /\ LivesPerEntry \in Nat \ {0}
      BY <1>1, <1>2, <1>3, <2>1, FeeAssumption, BoundAssumption
    <2> HIDE DEF net, kills, back
    <2>4. owed <= EntryAmount
      BY <2>3, Budget
    <2> QED
      BY <1>4, <2>2, <2>4
  <1>5. CASE entries[e].status # "paid"
    <2>1. Cardinality(PaidKills(e)) = 0 /\ refunds[e] = 0
      BY <1>1, <1>2, <1>5, UnpaidIsEmpty
    <2>2. 0 \div (100 * LivesPerEntry) = 0
      BY BoundAssumption
    <2>3. RefundAmount(0) = 0 /\ CreatorRefund(0) = 0
      BY <1>3, <2>2, FeeAssumption DEF RefundAmount, CreatorRefund
    <2>4. PrizeAmount + CreatorAmount \in Nat
      BY <1>3, FloorSumBound, FeeAssumption, BoundAssumption DEF PrizeAmount, CreatorAmount
    <2> QED
      BY <1>5, <2>1, <2>3, <2>4 DEF OwedFor
  <1> QED
    BY <1>4, <1>5

\* What the wallet sends out because of one entry (prizes, creator fees and
\* refunds together) never exceeds what was paid for it.
THEOREM Solvency == Spec => []Solvent
  BY Invariance, SalesCoverPayouts, PTL

----------------------------------------------------------------------------
(* Seats, kills, invoices and closed arenas.                                *)

\* Runs are leased in the order of their numbers, and the arena is not on lease
\* to a run that is over.
RunRows ==
    /\ \A r \in RunIds : runs[r].status \in {"stopped", "recovered"} =>
          ~ (arena.leased /\ arena.run_id = r)
    /\ \A r \in RunIds : arena.run_id < r => runs[r].status = "none"

SInv ==
    /\ SlotsExclusive
    /\ EndedRunIsEmpty
    /\ RunRows
    /\ PayoutsJustified
    /\ DeathsAreJournaled
    /\ OneLiveInvoice
    /\ ClosureIsFinal
    /\ ExpiredArenaOwesNothing

----------------------------------------------------------------------------
(* What the transactions do to the life rows.                               *)

\* The life l takes slot s for player p in run r.
SeatGiven(p, r, l, s) == ResumeLife(p, r, l, s) \/ NewLife(p, r, l, s)

LEMMA SeatTaken ==
  ASSUME IInv, NEW p \in Players, NEW r \in RunIds, NEW l \in LifeIds, NEW s \in Slots,
         SeatGiven(p, r, l, s)
  PROVE  /\ arena.active /\ arena.leased /\ arena.run_id = r
         /\ LowestFreeSlot(s)
         /\ lives[l].status \in {"none", "alive", "left"}
         /\ lives[l].status # "none" => lives[l].player = p
         /\ lives'[l].status = "alive"
         /\ lives'[l].player = p
         /\ lives'[l].run = r
         /\ lives'[l].slot = s
         /\ \A m \in LifeIds \ {l} : lives'[m] = lives[m]
         /\ arena' = [arena EXCEPT !.idle = "null"]
         /\ UNCHANGED <<participants, entries, runs, payouts, refunds>>
  <1>1. lives \in [LifeIds -> Life]
    BY DEF IInv, TypeOK
  <1>2. CASE ResumeLife(p, r, l, s)
    <2>1. lives[l].player = p /\ lives[l].status \in {"alive", "left"}
      BY <1>2 DEF ResumeLife, Current, UsableOf, UsableStatus
    <2>2. lives' = [lives EXCEPT ![l] = [@ EXCEPT !.status = "alive", !.run = r, !.slot = s]]
      BY <1>2 DEF ResumeLife
    <2>3. /\ lives'[l].status = "alive" /\ lives'[l].player = p
          /\ lives'[l].run = r /\ lives'[l].slot = s
          /\ \A m \in LifeIds \ {l} : lives'[m] = lives[m]
      BY <1>1, <2>1, <2>2 DEF Life
    <2> QED
      BY <1>2, <2>1, <2>3 DEF ResumeLife, Admissible
  <1>3. CASE NewLife(p, r, l, s)
    <2>1. PICK e \in Entries :
             lives' = [lives EXCEPT ![l] = [player |-> p, entry |-> e, run |-> r,
                                            status |-> "alive", slot |-> s]]
      BY <1>3 DEF NewLife
    <2>2. /\ lives'[l].status = "alive" /\ lives'[l].player = p
          /\ lives'[l].run = r /\ lives'[l].slot = s
          /\ \A m \in LifeIds \ {l} : lives'[m] = lives[m]
      BY <1>1, <2>1
    <2> QED
      BY <1>3, <2>2 DEF NewLife, Admissible, NextRow
  <1> QED
    BY <1>2, <1>3 DEF SeatGiven

LEMMA KillRows ==
  ASSUME IInv, NEW r \in RunIds, NEW v \in LifeIds, NEW k \in LifeIds \cup {NoId},
         ConsumeDeath(r, v, k)
  PROVE  /\ lives[v].run = r
         /\ lives[v].status \notin {"none", "dead"}
         /\ \A l \in LifeIds : /\ lives'[l].player = lives[l].player
                               /\ lives'[l].run = lives[l].run
                               /\ lives'[l].slot = lives[l].slot
                               /\ lives'[l].status = IF l = v THEN "dead" ELSE lives[l].status
         /\ \A e \in Entries :
               /\ entries'[e].player = entries[e].player
               /\ entries'[e].status = entries[e].status
               /\ entries'[e].payable = entries[e].payable
               /\ entries'[e].remaining > 0 => entries[e].remaining > 0
         /\ \A q \in RunIds :
               /\ runs'[q].status = runs[q].status
               /\ runs'[q].sequence = IF q = r THEN runs[q].sequence + 1 ELSE runs[q].sequence
         /\ UNCHANGED <<participants, arena>>
  <1>1. TypeOK
    BY DEF IInv
  <1>2. lives[v].run = r /\ lives[v].status \notin {"none", "dead"}
    BY DEF ConsumeDeath
  <1>3. \A l \in LifeIds : /\ lives'[l].player = lives[l].player
                           /\ lives'[l].run = lives[l].run
                           /\ lives'[l].slot = lives[l].slot
                           /\ lives'[l].status = IF l = v THEN "dead" ELSE lives[l].status
    BY <1>1 DEF ConsumeDeath, TypeOK, Life
  <1>4. lives[v].entry \in Entries
    BY <1>2 DEF IInv, LifeRows
  <1>5. \A e \in Entries :
           /\ entries'[e].player = entries[e].player
           /\ entries'[e].status = entries[e].status
           /\ entries'[e].payable = entries[e].payable
           /\ entries'[e].remaining > 0 => entries[e].remaining > 0
    BY <1>1, <1>4 DEF ConsumeDeath, TypeOK, Entry
  <1>6. \A q \in RunIds :
           /\ runs'[q].status = runs[q].status
           /\ runs'[q].sequence = IF q = r THEN runs[q].sequence + 1 ELSE runs[q].sequence
    BY <1>1 DEF ConsumeDeath, TypeOK, Run
  <1> QED
    BY <1>2, <1>3, <1>5, <1>6 DEF ConsumeDeath

LEMMA RefundRows ==
  ASSUME IInv, NEW p \in Players, NEW revoked \in RunIds \cup {NoId}, FinishLeave(p, revoked)
  PROVE  /\ \A l \in LifeIds :
               /\ lives'[l].player = lives[l].player
               /\ lives'[l].run = lives[l].run
               /\ lives'[l].slot = lives[l].slot
               /\ lives'[l].status = IF l \in UsableOf(p) THEN "refunded" ELSE lives[l].status
         /\ \A e \in Entries :
               /\ entries'[e].player = entries[e].player
               /\ entries'[e].payable = entries[e].payable
               /\ entries'[e].remaining =
                     IF e \in EntriesOf(p) /\ Funded(e) THEN 0 ELSE entries[e].remaining
         /\ \A q \in Players : participants'[q] = IF q = p THEN "left" ELSE participants[q]
         /\ UNCHANGED <<runs, arena, payouts>>
  BY DEF FinishLeave, IInv, TypeOK, Life, Entry

LEMMA ReleaseRows ==
  ASSUME IInv, NEW r \in RunIds, ReleaseLives(r)
  PROVE  \A l \in LifeIds :
            /\ lives'[l].player = lives[l].player
            /\ lives'[l].run = lives[l].run
            /\ lives'[l].slot = lives[l].slot
            /\ lives'[l].status = IF lives[l].status = "alive" /\ lives[l].run = r
                                  THEN "left" ELSE lives[l].status
  BY DEF ReleaseLives, AliveIn, AliveLives, IInv, TypeOK, Life

\* The transactions that leave the life rows alone.
QuietStep ==
    \/ EntryStep
    \/ \E r \in RunIds, v \in LifeIds : SkipDeath(r, v)
    \/ \E p \in Players : RequestLeave(p)
    \/ \E r \in RunIds : LeaseArena(r) \/ StartRun(r)
    \/ LeaseExpires \/ CloseGame \/ ExpireGame

LEMMA QuietRows == QuietStep => UNCHANGED <<lives, payouts>>
  BY DEF QuietStep, EntryStep, ReserveEntry, RecordInvoice, InvoiceExpires, SettleEntry,
         SettleWhileLeaving, SettleAfterLeave, SkipDeath, RequestLeave, LeaseArena, StartRun,
         LeaseExpires, CloseGame, ExpireGame

\* Every step is one of these six: it writes no life row, seats a life, kills
\* one, refunds those of a player, or releases those of a run.
LEMMA StepKinds ==
  ASSUME [Next]_vars
  PROVE  \/ UNCHANGED vars
         \/ QuietStep
         \/ \E p \in Players, r \in RunIds, l \in LifeIds, s \in Slots : SeatGiven(p, r, l, s)
         \/ \E r \in RunIds, v \in LifeIds, k \in LifeIds \cup {NoId} : ConsumeDeath(r, v, k)
         \/ \E p \in Players, r \in RunIds \cup {NoId} : FinishLeave(p, r)
         \/ \E r \in RunIds : RecoverRun(r) \/ StopRun(r)
  BY DEF Next, LifeStep, LeaveStep, ArenaStep, QuietStep, SeatGiven

\* A row in use stays in use and keeps its player.
LEMMA RowsKept ==
  ASSUME IInv, [Next]_vars
  PROVE  \A l \in LifeIds : lives[l].status # "none" =>
            lives'[l].status # "none" /\ lives'[l].player = lives[l].player
  <1> DEFINE Kept == \A l \in LifeIds : lives[l].status # "none" =>
                        lives'[l].status # "none" /\ lives'[l].player = lives[l].player
  <1>1. ASSUME UNCHANGED vars \/ QuietStep PROVE Kept
    BY <1>1, QuietRows DEF vars
  <1>2. ASSUME NEW p \in Players, NEW r \in RunIds, NEW l \in LifeIds, NEW s \in Slots,
               SeatGiven(p, r, l, s)
        PROVE  Kept
    BY <1>2, SeatTaken
  <1>3. ASSUME NEW r \in RunIds, NEW v \in LifeIds, NEW k \in LifeIds \cup {NoId},
               ConsumeDeath(r, v, k)
        PROVE  Kept
    BY <1>3, KillRows
  <1>4. ASSUME NEW p \in Players, NEW r \in RunIds \cup {NoId}, FinishLeave(p, r) PROVE Kept
    BY <1>4, RefundRows
  <1>5. ASSUME NEW r \in RunIds, RecoverRun(r) \/ StopRun(r) PROVE Kept
    BY <1>5, ReleaseRows DEF RecoverRun, StopRun
  <1> HIDE DEF Kept
  <1>6. Kept
    BY <1>1, <1>2, <1>3, <1>4, <1>5, StepKinds
  <1> QED
    BY <1>6 DEF Kept

----------------------------------------------------------------------------
(* Seats.                                                                   *)

\* Seats are only given up: no life takes a slot or changes its run.
LEMMA SeatsGivenUp ==
  ASSUME IInv, EndedRunIsEmpty, SlotsExclusive,
         \A l \in LifeIds : lives'[l].status = "alive" =>
            /\ lives[l].status = "alive"
            /\ lives'[l].slot = lives[l].slot
            /\ lives'[l].run = lives[l].run
  PROVE  SlotsExclusive' /\ \A r \in RunIds : AliveIn(r)' \subseteq AliveIn(r)
  BY DEF SlotsExclusive, AliveIn, AliveLives

LEMMA SlotsStep ==
  ASSUME IInv, EndedRunIsEmpty, SlotsExclusive, [Next]_vars
  PROVE  SlotsExclusive'
  <1>1. ASSUME UNCHANGED vars \/ QuietStep PROVE SlotsExclusive'
    BY <1>1, QuietRows DEF vars, SlotsExclusive, AliveLives
  <1>2. ASSUME NEW p \in Players, NEW r \in RunIds, NEW l \in LifeIds, NEW s \in Slots,
               SeatGiven(p, r, l, s)
        PROVE  SlotsExclusive'
    <2>1. /\ lives'[l].slot = s
          /\ \A m \in LifeIds \ {l} : lives'[m] = lives[m]
      BY <1>2, SeatTaken
    <2>2. \A m \in AliveLives : lives[m].slot # s
      BY <1>2, SeatTaken DEF LowestFreeSlot
    <2>3. \A m \in AliveLives' \ {l} : m \in AliveLives /\ lives'[m].slot = lives[m].slot
      BY <2>1 DEF AliveLives, LifeIds
    <2> QED
      BY <2>1, <2>2, <2>3 DEF SlotsExclusive
  <1>3. ASSUME NEW r \in RunIds, NEW v \in LifeIds, NEW k \in LifeIds \cup {NoId},
               ConsumeDeath(r, v, k)
        PROVE  SlotsExclusive'
    BY <1>3, KillRows, SeatsGivenUp
  <1>4. ASSUME NEW p \in Players, NEW r \in RunIds \cup {NoId}, FinishLeave(p, r)
        PROVE  SlotsExclusive'
    BY <1>4, RefundRows, SeatsGivenUp
  <1>5. ASSUME NEW r \in RunIds, RecoverRun(r) \/ StopRun(r) PROVE SlotsExclusive'
    BY <1>5, ReleaseRows, SeatsGivenUp DEF RecoverRun, StopRun
  <1> QED
    BY <1>1, <1>2, <1>3, <1>4, <1>5, StepKinds

\* The runs and the lease move together: a run ends with its lease, and only the
\* run the arena is leased to can start.
LEMMA RunRowsStep ==
  ASSUME IInv, RunRows, [Next]_vars
  PROVE  RunRows'
  <1>1. /\ runs \in [RunIds -> Run] /\ arena \in Arena
        /\ arena.run_id \in Int /\ \A r \in RunIds : r \in Int
    BY DEF IInv, TypeOK, Arena, RunIds
  <1>2. ASSUME UNCHANGED runs, arena'.run_id = arena.run_id, arena'.leased => arena.leased
        PROVE  RunRows'
    BY <1>2 DEF RunRows
  <1>3. ASSUME UNCHANGED vars \/ EntryStep \/ LeaveStep \/ LeaseExpires \/ CloseGame \/ ExpireGame
        PROVE  RunRows'
    <2>1. UNCHANGED runs
      BY <1>3 DEF vars, EntryStep, ReserveEntry, RecordInvoice, InvoiceExpires, SettleEntry,
                  SettleWhileLeaving, SettleAfterLeave, LeaveStep, RequestLeave, FinishLeave,
                  LeaseExpires, CloseGame, ExpireGame
    <2>2. arena'.run_id = arena.run_id /\ (arena'.leased => arena.leased)
      BY <1>1, <1>3 DEF vars, EntryStep, ReserveEntry, RecordInvoice, InvoiceExpires, SettleEntry,
                  SettleWhileLeaving, SettleAfterLeave, LeaveStep, RequestLeave, FinishLeave,
                  LeaseExpires, CloseGame, ExpireGame, Reactivated, Arena
    <2> QED
      BY <1>2, <2>1, <2>2
  <1>4. ASSUME NEW p \in Players, NEW r \in RunIds, NEW l \in LifeIds, NEW s \in Slots,
               SeatGiven(p, r, l, s)
        PROVE  RunRows'
    <2>1. arena'.run_id = arena.run_id /\ arena'.leased = arena.leased /\ UNCHANGED runs
      BY <1>1, <1>4, SeatTaken DEF Arena
    <2> QED
      BY <1>2, <2>1
  <1>5. ASSUME NEW r \in RunIds, NEW v \in LifeIds,
               SkipDeath(r, v) \/ \E k \in LifeIds \cup {NoId} : ConsumeDeath(r, v, k)
        PROVE  RunRows'
    <2>1. UNCHANGED arena /\ \A q \in RunIds : runs'[q].status = runs[q].status
      BY <1>1, <1>5 DEF SkipDeath, ConsumeDeath, Run
    <2> QED
      BY <2>1 DEF RunRows
  <1>6. ASSUME NEW r \in RunIds, LeaseArena(r) PROVE RunRows'
    <2>1. arena'.run_id = arena.run_id + 1 /\ UNCHANGED runs
      BY <1>1, <1>6 DEF LeaseArena, Arena
    <2> QED
      BY <1>1, <2>1 DEF RunRows
  <1>7. ASSUME NEW r \in RunIds, StartRun(r) PROVE RunRows'
    <2>1. /\ r = arena.run_id /\ UNCHANGED arena
          /\ \A q \in RunIds : runs'[q].status = IF q = r THEN "running" ELSE runs[q].status
      BY <1>1, <1>7 DEF StartRun, Run
    <2> QED
      BY <1>1, <2>1 DEF RunRows
  <1>8. ASSUME NEW r \in RunIds, RecoverRun(r) PROVE RunRows'
    <2>1. /\ runs[r].status = "running"
          /\ arena.run_id # r \/ ~arena.leased
          /\ UNCHANGED arena
          /\ \A q \in RunIds : runs'[q].status = IF q = r THEN "recovered" ELSE runs[q].status
      BY <1>1, <1>8 DEF RecoverRun, Run
    <2> QED
      BY <2>1 DEF RunRows
  <1>9. ASSUME NEW r \in RunIds, StopRun(r) PROVE RunRows'
    <2>1. /\ runs[r].status # "none"
          /\ arena'.run_id = arena.run_id
          /\ arena'.leased => arena.leased /\ arena.run_id # r
          /\ \A q \in RunIds : runs'[q].status = IF q = r THEN "stopped" ELSE runs[q].status
      BY <1>1, <1>9 DEF StopRun, Run, Arena
    <2> QED
      BY <2>1 DEF RunRows
  <1> QED
    BY <1>3, <1>4, <1>5, <1>6, <1>7, <1>8, <1>9 DEF Next, LifeStep, ArenaStep, SeatGiven

\* Nobody is seated in a run that is over, and a run that ends empties itself.
LEMMA EndedStep ==
  ASSUME IInv, SlotsExclusive, EndedRunIsEmpty, RunRows, [Next]_vars
  PROVE  EndedRunIsEmpty'
  <1> DEFINE Ended(r) == runs[r].status \in {"stopped", "recovered"}
  <1>1. ASSUME \A l \in LifeIds : lives'[l].status = "alive" =>
                  /\ lives[l].status = "alive"
                  /\ lives'[l].slot = lives[l].slot
                  /\ lives'[l].run = lives[l].run,
               \A r \in RunIds : Ended(r)' => Ended(r) \/ AliveIn(r)' = {}
        PROVE  EndedRunIsEmpty'
    BY <1>1, SeatsGivenUp DEF EndedRunIsEmpty
  <1>2. ASSUME UNCHANGED vars \/ QuietStep PROVE EndedRunIsEmpty'
    <2>1. UNCHANGED lives
      BY <1>2, QuietRows DEF vars
    <2>2. \A r \in RunIds : Ended(r)' => Ended(r)
      <3>0. runs \in [RunIds -> Run]
        BY DEF IInv, TypeOK
      <3>1. CASE \E r \in RunIds, v \in LifeIds : SkipDeath(r, v)
        BY <3>0, <3>1 DEF SkipDeath, Run
      <3>2. CASE \E r \in RunIds : LeaseArena(r) \/ StartRun(r)
        BY <3>0, <3>2 DEF LeaseArena, StartRun, Run
      <3>3. CASE UNCHANGED runs
        BY <3>3
      <3> QED
        BY <1>2, <3>1, <3>2, <3>3
           DEF vars, QuietStep, EntryStep, ReserveEntry, RecordInvoice, InvoiceExpires,
               SettleEntry, SettleWhileLeaving, SettleAfterLeave, RequestLeave, LeaseExpires,
               CloseGame, ExpireGame
    <2> QED
      BY <1>1, <2>1, <2>2
  <1>3. ASSUME NEW p \in Players, NEW r \in RunIds, NEW l \in LifeIds, NEW s \in Slots,
               SeatGiven(p, r, l, s)
        PROVE  EndedRunIsEmpty'
    <2>1. ~Ended(r) /\ UNCHANGED runs
      BY <1>3, SeatTaken DEF RunRows
    <2>2. /\ lives'[l].run = r
          /\ \A m \in LifeIds \ {l} : lives'[m] = lives[m]
      BY <1>3, SeatTaken
    <2> QED
      BY <2>1, <2>2 DEF EndedRunIsEmpty, AliveIn, AliveLives, LifeIds
  <1>4. ASSUME NEW r \in RunIds, NEW v \in LifeIds, NEW k \in LifeIds \cup {NoId},
               ConsumeDeath(r, v, k)
        PROVE  EndedRunIsEmpty'
    BY <1>1, <1>4, KillRows
  <1>5. ASSUME NEW p \in Players, NEW r \in RunIds \cup {NoId}, FinishLeave(p, r)
        PROVE  EndedRunIsEmpty'
    BY <1>1, <1>5, RefundRows
  <1>6. ASSUME NEW r \in RunIds, RecoverRun(r) \/ StopRun(r) PROVE EndedRunIsEmpty'
    <2>1. \A l \in LifeIds : /\ lives'[l].run = lives[l].run
                             /\ lives'[l].slot = lives[l].slot
                             /\ lives'[l].status = "alive" =>
                                   lives[l].status = "alive" /\ lives[l].run # r
      BY <1>6, ReleaseRows DEF RecoverRun, StopRun
    <2>2. AliveIn(r)' = {}
      BY <2>1 DEF AliveIn, AliveLives
    <2>3. \A q \in RunIds \ {r} : runs'[q] = runs[q]
      BY <1>6 DEF RecoverRun, StopRun, IInv, TypeOK
    <2> QED
      BY <1>1, <2>1, <2>2, <2>3
  <1> QED
    BY <1>2, <1>3, <1>4, <1>5, <1>6, StepKinds

----------------------------------------------------------------------------
(* Kills.                                                                   *)

\* A payout once queued names a dead life and its killer for ever.
LEMMA PayoutsStep ==
  ASSUME IInv, PayoutsJustified, [Next]_vars
  PROVE  PayoutsJustified'
  <1>1. payouts \in [LifeIds -> 0 .. MaxLives]
    BY DEF IInv, TypeOK
  <1>2. ASSUME UNCHANGED payouts PROVE PayoutsJustified'
    BY <1>2, RowsKept, RetiredKept DEF PayoutsJustified
  <1>3. ASSUME NEW r \in RunIds, NEW v \in LifeIds, NEW k \in LifeIds \cup {NoId},
               ConsumeDeath(r, v, k)
        PROVE  PayoutsJustified'
    <2>1. /\ lives[v].status # "none"
          /\ lives'[v].status = "dead"
      BY <1>3, KillRows
    <2>2. \A l \in LifeIds \ {v} : payouts'[l] = payouts[l]
      BY <1>1, <1>3 DEF ConsumeDeath
    <2>3. payouts'[v] = IF payouts[v] = NoId THEN CreditedKiller(r, v, k) ELSE payouts[v]
      BY <1>1, <1>3 DEF ConsumeDeath
    <2>4. CreditedKiller(r, v, k) # NoId =>
             /\ CreditedKiller(r, v, k) \in LifeIds \ {v}
             /\ lives[CreditedKiller(r, v, k)].status # "none"
             /\ lives[CreditedKiller(r, v, k)].player # lives[v].player
      BY DEF CreditedKiller
    <2> QED
      BY <2>1, <2>2, <2>3, <2>4, RowsKept, RetiredKept DEF PayoutsJustified
  <1>4. ASSUME NEW p \in Players, NEW r \in RunIds, NEW l \in LifeIds, NEW s \in Slots,
               SeatGiven(p, r, l, s)
        PROVE  UNCHANGED payouts
    BY <1>4, SeatTaken
  <1>5. ASSUME NEW p \in Players, NEW r \in RunIds \cup {NoId}, FinishLeave(p, r)
        PROVE  UNCHANGED payouts
    BY <1>5, RefundRows
  <1>6. ASSUME NEW r \in RunIds, RecoverRun(r) \/ StopRun(r) PROVE UNCHANGED payouts
    BY <1>6 DEF RecoverRun, StopRun
  <1>7. UNCHANGED vars \/ QuietStep => UNCHANGED payouts
    BY QuietRows DEF vars
  <1> QED
    BY <1>2, <1>3, <1>4, <1>5, <1>6, <1>7, StepKinds
\* The deaths the ledger has recorded in run r.
DeadIn(r) == {l \in LifeIds : lives[l].status = "dead" /\ lives[l].run = r}

\* Only consume_death records a death, and it advances the journal of the run.
LEMMA DeathsStep ==
  ASSUME IInv, DeathsAreJournaled, [Next]_vars
  PROVE  DeathsAreJournaled'
  <1>1. TypeOK
    BY DEF IInv
  <1>2. \A r \in RunIds : /\ IsFiniteSet(DeadIn(r)) /\ Cardinality(DeadIn(r)) \in Nat
                          /\ Cardinality(DeadIn(r)) <= runs[r].sequence
                          /\ runs[r].sequence \in Nat
    <2>1. IsFiniteSet(LifeIds)
      BY FS_Interval, BoundAssumption DEF LifeIds
    <2>2. \A r \in RunIds : IsFiniteSet(DeadIn(r))
      BY <2>1, FS_Subset DEF DeadIn
    <2>3. \A r \in RunIds : Cardinality(DeadIn(r)) <= runs[r].sequence
      BY DEF DeathsAreJournaled, DeadIn
    <2> QED
      BY <1>1, <2>2, <2>3, FS_CardinalityType, BoundAssumption DEF TypeOK, Run
  <1>3. ASSUME \A l \in LifeIds : lives'[l].status = "dead" => lives[l].status = "dead",
               \A r \in RunIds : runs'[r].sequence = runs[r].sequence
                                 \/ runs'[r].sequence = runs[r].sequence + 1
        PROVE  DeathsAreJournaled'
    <2>1. \A r \in RunIds : DeadIn(r)' = DeadIn(r)
      BY <1>3, RetiredKept DEF DeadIn
    <2>2. \A r \in RunIds : Cardinality(DeadIn(r)') <= runs'[r].sequence
      BY <1>2, <1>3, <2>1
    <2> QED
      BY <2>2 DEF DeathsAreJournaled, DeadIn
  <1>4. ASSUME NEW r \in RunIds, NEW v \in LifeIds, NEW k \in LifeIds \cup {NoId},
               ConsumeDeath(r, v, k)
        PROVE  DeathsAreJournaled'
    <2>1. DeadIn(r)' = DeadIn(r) \cup {v} /\ v \notin DeadIn(r)
      BY <1>4, KillRows DEF DeadIn
    <2>2. \A q \in RunIds \ {r} : DeadIn(q)' = DeadIn(q)
      BY <1>4, KillRows DEF DeadIn
    <2>3. Cardinality(DeadIn(r)') = Cardinality(DeadIn(r)) + 1
      BY <1>2, <2>1, FS_AddElement
    <2>4. \A q \in RunIds : Cardinality(DeadIn(q)') <= runs'[q].sequence
      <3>1. \A q \in RunIds :
               runs'[q].sequence = IF q = r THEN runs[q].sequence + 1 ELSE runs[q].sequence
        BY <1>4, KillRows
      <3> QED
        BY <1>2, <2>2, <2>3, <3>1
    <2> QED
      BY <2>4 DEF DeathsAreJournaled, DeadIn
  <1>5. ASSUME UNCHANGED vars \/ QuietStep PROVE DeathsAreJournaled'
    <2>1. UNCHANGED lives
      BY <1>5, QuietRows DEF vars
    <2>2. \A r \in RunIds : runs'[r].sequence = runs[r].sequence
                            \/ runs'[r].sequence = runs[r].sequence + 1
      <3>1. ASSUME NEW r \in RunIds, NEW v \in LifeIds, SkipDeath(r, v)
            PROVE  \A q \in RunIds : runs'[q].sequence \in {runs[q].sequence, runs[q].sequence + 1}
        BY <1>1, <3>1 DEF SkipDeath, TypeOK, Run
      <3>2. ASSUME NEW r \in RunIds, StartRun(r)
            PROVE  \A q \in RunIds : runs'[q].sequence = runs[q].sequence
        BY <1>1, <3>2 DEF StartRun, TypeOK, Run
      <3>3. \/ UNCHANGED runs
            \/ \E r \in RunIds : StartRun(r)
            \/ \E r \in RunIds, v \in LifeIds : SkipDeath(r, v)
        BY <1>5 DEF vars, QuietStep, EntryStep, ReserveEntry, RecordInvoice, InvoiceExpires,
                    SettleEntry, SettleWhileLeaving, SettleAfterLeave, RequestLeave, LeaseArena,
                    LeaseExpires, CloseGame, ExpireGame
      <3> QED
        BY <3>1, <3>2, <3>3
    <2> QED
      BY <1>3, <2>1, <2>2
  <1>6. ASSUME NEW p \in Players, NEW r \in RunIds, NEW l \in LifeIds, NEW s \in Slots,
               SeatGiven(p, r, l, s)
        PROVE  DeathsAreJournaled'
    BY <1>3, <1>6, SeatTaken DEF LifeIds
  <1>7. ASSUME NEW p \in Players, NEW r \in RunIds \cup {NoId}, FinishLeave(p, r)
        PROVE  DeathsAreJournaled'
    BY <1>3, <1>7, RefundRows
  <1>8. ASSUME NEW r \in RunIds, RecoverRun(r) \/ StopRun(r) PROVE DeathsAreJournaled'
    <2>1. \A q \in RunIds : runs'[q].sequence = runs[q].sequence
      BY <1>1, <1>8 DEF RecoverRun, StopRun, TypeOK, Run
    <2> QED
      BY <1>3, <1>8, <2>1, ReleaseRows DEF RecoverRun, StopRun
  <1> QED
    BY <1>4, <1>5, <1>6, <1>7, <1>8, StepKinds

----------------------------------------------------------------------------
(* Entries and the closing of the arena.                                    *)

\* What a step does to the entry rows: it reserves one, or every other row keeps
\* its player, no invoice becomes payable again, and only a settlement for a
\* player who has not left credits lives.
LEMMA EntryChange ==
  ASSUME IInv, [Next]_vars
  PROVE  \/ \E p \in Players, e \in Entries : ReserveEntry(p, e)
         \/ \E e \in Entries : SettleEntry(e)
         \/ \A e \in Entries :
               /\ entries'[e].player = entries[e].player
               /\ entries'[e].payable => entries[e].payable
               /\ entries'[e].remaining > 0 =>
                     entries[e].remaining > 0 \/ SettleWhileLeaving(e)
  <1> DEFINE Quiet == \A e \in Entries :
                         /\ entries'[e].player = entries[e].player
                         /\ entries'[e].payable => entries[e].payable
                         /\ entries'[e].remaining > 0 =>
                               entries[e].remaining > 0 \/ SettleWhileLeaving(e)
  <1>1. entries \in [Entries -> Entry]
    BY DEF IInv, TypeOK
  <1>2. UNCHANGED entries => Quiet
    OBVIOUS
  <1>3. ASSUME NEW e \in Entries,
               RecordInvoice(e) \/ InvoiceExpires(e) \/ SettleWhileLeaving(e) \/ SettleAfterLeave(e)
        PROVE  Quiet
    <2>1. /\ entries'[e].player = entries[e].player
          /\ entries'[e].payable => entries[e].payable
          /\ \A d \in Entries \ {e} : entries'[d] = entries[d]
      BY <1>1, <1>3 DEF RecordInvoice, InvoiceExpires, SettleWhileLeaving, SettleAfterLeave,
                        Credited, Entry
    <2>2. entries'[e].remaining > 0 => entries[e].remaining > 0 \/ SettleWhileLeaving(e)
      <3>1. CASE RecordInvoice(e) \/ InvoiceExpires(e)
        BY <1>1, <3>1 DEF RecordInvoice, InvoiceExpires, Entry
      <3>2. CASE SettleAfterLeave(e)
        <4>1. entries'[e].remaining = 0
          BY <1>1, <3>2 DEF SettleAfterLeave, Credited, Entry
        <4> QED
          BY <4>1
      <3> QED
        BY <1>3, <3>1, <3>2
    <2> QED
      BY <2>1, <2>2
  <1>4. ASSUME NEW r \in RunIds, NEW v \in LifeIds, NEW k \in LifeIds \cup {NoId},
               ConsumeDeath(r, v, k)
        PROVE  Quiet
    BY <1>4, KillRows
  <1>5. ASSUME NEW p \in Players, NEW r \in RunIds \cup {NoId}, FinishLeave(p, r) PROVE Quiet
    BY <1>5, RefundRows
  <1>6. ASSUME UNCHANGED vars \/ ArenaStep \/ \E p \in Players : RequestLeave(p) PROVE Quiet
    BY <1>2, <1>6 DEF vars, ArenaStep, LeaseArena, StartRun, RecoverRun, StopRun, LeaseExpires,
                      CloseGame, ExpireGame, RequestLeave
  <1>7. ASSUME NEW p \in Players, NEW r \in RunIds, NEW l \in LifeIds, NEW s \in Slots,
               ResumeLife(p, r, l, s) \/ NewLife(p, r, l, s)
        PROVE  Quiet
    BY <1>2, <1>7 DEF ResumeLife, NewLife
  <1>8. ASSUME NEW r \in RunIds, NEW v \in LifeIds, SkipDeath(r, v) PROVE Quiet
    BY <1>2, <1>8 DEF SkipDeath
  <1> HIDE DEF Quiet
  <1>9. \/ \E p \in Players, e \in Entries : ReserveEntry(p, e)
        \/ \E e \in Entries : SettleEntry(e)
        \/ Quiet
    BY <1>3, <1>4, <1>5, <1>6, <1>7, <1>8 DEF Next, EntryStep, LifeStep, LeaveStep
  <1> QED
    BY <1>9 DEF Quiet

\* A row is reserved only for a player none of whose invoices is payable.
LEMMA InvoicesStep ==
  ASSUME IInv, OneLiveInvoice, [Next]_vars
  PROVE  OneLiveInvoice'
  <1>1. entries \in [Entries -> Entry]
    BY DEF IInv, TypeOK
  <1>2. ASSUME \A e \in Entries : /\ entries'[e].player = entries[e].player
                                  /\ entries'[e].payable => entries[e].payable
        PROVE  OneLiveInvoice'
    BY <1>2 DEF OneLiveInvoice, EntriesOf, Live
  <1>3. ASSUME NEW p \in Players, NEW e \in Entries, ReserveEntry(p, e) PROVE OneLiveInvoice'
    <2>1. /\ \A d \in Entries : entries[d].player = p => ~entries[d].payable
          /\ entries'[e].player = p
          /\ \A d \in Entries \ {e} : entries'[d] = entries[d]
      BY <1>1, <1>3 DEF ReserveEntry, MayReserve, EntriesOf, Live
    <2> QED
      BY <2>1 DEF OneLiveInvoice, EntriesOf, Live
  <1>4. ASSUME NEW e \in Entries, SettleEntry(e) PROVE OneLiveInvoice'
    BY <1>1, <1>2, <1>4 DEF SettleEntry, Credited, Entry
  <1> QED
    BY <1>2, <1>3, <1>4, EntryChange

\* Only settle_entry sets active, and not in an arena its owner closed.
LEMMA ClosureStep ==
  ASSUME IInv, ClosureIsFinal, [Next]_vars
  PROVE  ClosureIsFinal'
  <1>1. arena \in Arena
    BY DEF IInv, TypeOK
  <1>2. ASSUME NEW e \in Entries, SettleEntry(e) PROVE ClosureIsFinal'
    BY <1>1, <1>2 DEF SettleEntry, Reactivated, ClosureIsFinal, Arena
  <1>3. ASSUME ArenaStep PROVE ClosureIsFinal'
    BY <1>1, <1>3 DEF ArenaStep, LeaseArena, StartRun, RecoverRun, StopRun, LeaseExpires,
                      CloseGame, ExpireGame, ClosureIsFinal, Arena
  <1>4. ASSUME NEW p \in Players, NEW r \in RunIds, NEW l \in LifeIds, NEW s \in Slots,
               ResumeLife(p, r, l, s) \/ NewLife(p, r, l, s)
        PROVE  ClosureIsFinal'
    BY <1>1, <1>4 DEF ResumeLife, NewLife, ClosureIsFinal, Arena
  <1>5. UNCHANGED arena => ClosureIsFinal'
    BY DEF ClosureIsFinal
  <1> QED
    BY <1>2, <1>3, <1>4, <1>5
    DEF Next, vars, EntryStep, ReserveEntry, RecordInvoice, InvoiceExpires, SettleWhileLeaving,
        SettleAfterLeave, LifeStep, ConsumeDeath, SkipDeath, LeaveStep, RequestLeave, FinishLeave

\* An arena that closes by itself has nothing outstanding, so every usable life
\* would be unfunded; what is credited later belongs to a session on its way out.
LEMMA ExpiredStep ==
  ASSUME IInv, IInv', ClosureIsFinal, ExpiredArenaOwesNothing, [Next]_vars
  PROVE  ExpiredArenaOwesNothing'
  <1> DEFINE Expired == ~arena.active /\ ~arena.admin_closed
  <1>1. TypeOK
    BY DEF IInv
  \* While the arena is expired, no life becomes usable.
  <1>2. ASSUME Expired,
               \A l \in LifeIds : Usable(l)' => Usable(l),
               \A e \in Entries : entries'[e].remaining > 0 =>
                  participants'[entries'[e].player] = "leaving"
        PROVE  ExpiredArenaOwesNothing'
    BY <1>2 DEF ExpiredArenaOwesNothing
  <1>3. ASSUME Expired, UNCHANGED <<entries, participants>>,
               \A l \in LifeIds : Usable(l)' => Usable(l)
        PROVE  ExpiredArenaOwesNothing'
    BY <1>3 DEF ExpiredArenaOwesNothing
  <1>4. Expired => \A e \in Entries : entries[e].remaining > 0 =>
                      participants[entries[e].player] = "leaving"
    BY DEF ExpiredArenaOwesNothing
  <1>5. ASSUME Expired, EntryStep, Expired' PROVE ExpiredArenaOwesNothing'
    <2>1. \A l \in LifeIds : Usable(l)' => Usable(l)
      BY <1>5, QuietRows DEF QuietStep, Usable
    <2>2. ASSUME NEW e \in Entries, RecordInvoice(e) \/ InvoiceExpires(e)
          PROVE  \A d \in Entries : entries'[d].remaining > 0 =>
                    participants'[entries'[d].player] = "leaving"
      <3>1. /\ UNCHANGED participants
            /\ \A d \in Entries : /\ entries'[d].remaining = entries[d].remaining
                                  /\ entries'[d].player = entries[d].player
        <4>1. CASE RecordInvoice(e)
          BY <1>1, <4>1 DEF RecordInvoice, TypeOK, Entry
        <4>2. CASE InvoiceExpires(e)
          BY <1>1, <4>2 DEF InvoiceExpires, TypeOK, Entry
        <4> QED
          BY <2>2, <4>1, <4>2
      <3> QED
        BY <1>4, <1>5, <3>1
    <2>3. ASSUME NEW e \in Entries, SettleWhileLeaving(e)
          PROVE  \A d \in Entries : entries'[d].remaining > 0 =>
                    participants'[entries'[d].player] = "leaving"
      <3>1. /\ participants[entries[e].player] = "leaving"
            /\ UNCHANGED participants
            /\ entries'[e].player = entries[e].player
            /\ \A d \in Entries \ {e} : entries'[d] = entries[d]
        BY <1>1, <2>3 DEF SettleWhileLeaving, Credited, TypeOK, Entry
      <3> QED
        BY <1>4, <1>5, <3>1
    <2>4. ASSUME NEW e \in Entries, SettleAfterLeave(e)
          PROVE  \A d \in Entries : entries'[d].remaining > 0 =>
                    participants'[entries'[d].player] = "leaving"
      <3>1. /\ UNCHANGED participants
            /\ entries'[e].remaining = 0
            /\ \A d \in Entries \ {e} : entries'[d] = entries[d]
        BY <1>1, <2>4 DEF SettleAfterLeave, Credited, TypeOK, Entry
      <3> QED
        BY <1>4, <1>5, <3>1
    <2>5. ~ \E p \in Players, e \in Entries : ReserveEntry(p, e)
      BY <1>5 DEF ReserveEntry, MayReserve
    <2>6. ~ \E e \in Entries : SettleEntry(e)
      BY <1>1, <1>5 DEF SettleEntry, Reactivated, TypeOK, Arena
    <2>7. \E e \in Entries : \/ RecordInvoice(e) \/ InvoiceExpires(e)
                             \/ SettleWhileLeaving(e) \/ SettleAfterLeave(e)
      BY <1>5, <2>5, <2>6 DEF EntryStep
    <2> QED
      BY <1>2, <1>5, <2>1, <2>2, <2>3, <2>4, <2>7
  <1>6. ASSUME Expired, NEW r \in RunIds, NEW v \in LifeIds, NEW k \in LifeIds \cup {NoId},
               ConsumeDeath(r, v, k)
        PROVE  ExpiredArenaOwesNothing'
    <2>1. \A l \in LifeIds : Usable(l)' => Usable(l)
      BY <1>6, KillRows DEF Usable, UsableStatus
    <2>2. \A e \in Entries : /\ entries'[e].player = entries[e].player
                             /\ entries'[e].remaining > 0 => entries[e].remaining > 0
      BY <1>6, KillRows
    <2>3. UNCHANGED participants
      BY <1>6, KillRows
    <2> QED
      BY <1>2, <1>4, <1>6, <2>1, <2>2, <2>3
  <1>7. ASSUME Expired, NEW p \in Players, RequestLeave(p) PROVE ExpiredArenaOwesNothing'
    <2>1. /\ UNCHANGED <<entries, lives>>
          /\ \A q \in Players : participants'[q] = IF q = p THEN "leaving" ELSE participants[q]
      BY <1>1, <1>7 DEF RequestLeave, TypeOK
    <2>2. \A e \in Entries : entries[e].remaining > 0 => entries[e].player \in Players
      BY UnpaidIsEmpty DEF IInv, EntryRows
    <2>3. \A e \in Entries : entries'[e].remaining > 0 =>
             participants'[entries'[e].player] = "leaving"
      BY <1>4, <1>7, <2>1, <2>2
    <2> QED
      BY <1>2, <1>7, <2>1, <2>3 DEF Usable
  <1>8. ASSUME Expired, NEW p \in Players, NEW r \in RunIds \cup {NoId}, FinishLeave(p, r)
        PROVE  ExpiredArenaOwesNothing'
    <2>1. \A l \in LifeIds : Usable(l)' => Usable(l)
      BY <1>8, RefundRows DEF Usable, UsableStatus
    <2>2. ASSUME NEW e \in Entries, entries'[e].remaining > 0
          PROVE  participants'[entries'[e].player] = "leaving"
      <3>1. /\ entries'[e].player = entries[e].player
            /\ entries'[e].remaining =
                  IF e \in EntriesOf(p) /\ Funded(e) THEN 0 ELSE entries[e].remaining
        BY <1>8, RefundRows
      <3>2. entries[e].remaining > 0 /\ ~(e \in EntriesOf(p) /\ Funded(e))
        BY <2>2, <3>1
      <3>3. Funded(e) /\ entries[e].player \in Players
        BY <3>2, UnpaidIsEmpty DEF Funded, IInv, EntryRows
      <3>4. entries[e].player # p
        BY <3>2, <3>3 DEF EntriesOf
      <3>5. \A q \in Players : participants'[q] = IF q = p THEN "left" ELSE participants[q]
        BY <1>8, RefundRows
      <3> QED
        BY <1>4, <1>8, <3>1, <3>2, <3>3, <3>4, <3>5
    <2> QED
      BY <1>2, <1>8, <2>1, <2>2
  <1>9. ASSUME Expired, NEW r \in RunIds, RecoverRun(r) \/ StopRun(r)
        PROVE  ExpiredArenaOwesNothing'
    <2>1. \A l \in LifeIds : Usable(l)' => Usable(l)
      BY <1>9, ReleaseRows DEF RecoverRun, StopRun, Usable, UsableStatus
    <2> QED
      BY <1>3, <1>9, <2>1 DEF RecoverRun, StopRun
  <1>10. ASSUME Expired,
                UNCHANGED vars \/ LeaseExpires \/ CloseGame \/ ExpireGame
                   \/ (\E r \in RunIds : LeaseArena(r) \/ StartRun(r))
                   \/ (\E r \in RunIds, v \in LifeIds : SkipDeath(r, v))
         PROVE  ExpiredArenaOwesNothing'
    BY <1>3, <1>10 DEF vars, LeaseExpires, CloseGame, ExpireGame, LeaseArena, StartRun, SkipDeath,
                       Usable
  \* Nobody is seated in a closed arena.
  <1>11. Expired => ~ \E p \in Players, r \in RunIds, l \in LifeIds, s \in Slots :
                       ResumeLife(p, r, l, s) \/ NewLife(p, r, l, s)
    BY DEF ResumeLife, NewLife, Admissible
  <1>12. CASE Expired /\ Expired'
    BY <1>5, <1>6, <1>7, <1>8, <1>9, <1>10, <1>11, <1>12
    DEF Next, LifeStep, LeaveStep, ArenaStep
  \* The only step that expires an arena is the maintenance of the lobby.
  <1>13. CASE ~Expired /\ Expired'
    <2>1. arena.active /\ ~arena.admin_closed
      <3>1. arena.admin_closed => arena'.admin_closed
        BY <1>1 DEF Next, EntryStep, ReserveEntry, RecordInvoice, InvoiceExpires, SettleEntry,
             SettleWhileLeaving, SettleAfterLeave, Reactivated, LifeStep, ResumeLife, NewLife,
             ConsumeDeath, SkipDeath, LeaveStep, RequestLeave, FinishLeave, ArenaStep, LeaseArena,
             StartRun, RecoverRun, StopRun, LeaseExpires, CloseGame, ExpireGame, vars, TypeOK, Arena
      <3> QED
        BY <1>13, <3>1
    <2>2. ExpireGame
      BY <1>1, <1>13, <2>1
      DEF Next, EntryStep, ReserveEntry, RecordInvoice, InvoiceExpires, SettleEntry,
             SettleWhileLeaving, SettleAfterLeave, Reactivated, LifeStep, ResumeLife, NewLife,
             ConsumeDeath, SkipDeath, LeaveStep, RequestLeave, FinishLeave, ArenaStep, LeaseArena,
             StartRun, RecoverRun, StopRun, LeaseExpires, CloseGame, vars, TypeOK, Arena
    <2>3. Outstanding = {} /\ UNCHANGED <<entries, lives>>
      BY <1>1, <1>13, <2>1, <2>2 DEF ExpireGame, TypeOK, Arena
    <2>4. \A e \in Entries : ~(entries[e].remaining > 0)
      BY <2>3 DEF Outstanding
    <2>5. \A l \in LifeIds : ~Usable(l)
      BY <2>4 DEF IInv, FundedLife, Funded
    <2> QED
      BY <2>3, <2>4, <2>5 DEF ExpiredArenaOwesNothing, Usable
  <1>14. CASE ~Expired'
    BY <1>14 DEF ExpiredArenaOwesNothing
  <1> QED
    BY <1>12, <1>13, <1>14

----------------------------------------------------------------------------
(* The theorems.                                                            *)

LEMMA SafetyInit == Init => SInv
  <1> SUFFICES ASSUME Init PROVE SInv
    OBVIOUS
  <1>1. SlotsExclusive /\ EndedRunIsEmpty
    BY DEF Init, NothingPlayed, SlotsExclusive, EndedRunIsEmpty, AliveIn, AliveLives
  <1>2. RunRows /\ ClosureIsFinal /\ ExpiredArenaOwesNothing
    BY DEF Init, NothingPlayed, RunRows, ClosureIsFinal, ExpiredArenaOwesNothing
  <1>3. PayoutsJustified
    BY DEF Init, NothingPlayed, PayoutsJustified
  <1>4. OneLiveInvoice
    BY DEF Init, OneLiveInvoice, EntriesOf, Live
  <1>5. \A r \in RunIds : DeadIn(r) = {} /\ runs[r].sequence = 0
    BY DEF Init, NothingPlayed, DeadIn
  <1>6. \A r \in RunIds : Cardinality(DeadIn(r)) <= runs[r].sequence
    BY <1>5, FS_EmptySet
  <1> QED
    BY <1>1, <1>2, <1>3, <1>4, <1>6 DEF SInv, DeathsAreJournaled, DeadIn

LEMMA SafetyStep == IInv /\ IInv' /\ SInv /\ [Next]_vars => SInv'
  <1> SUFFICES ASSUME IInv, IInv', SInv, [Next]_vars PROVE SInv'
    OBVIOUS
  <1> QED
    BY SlotsStep, RunRowsStep, EndedStep, PayoutsStep, DeathsStep, InvoicesStep, ClosureStep,
       ExpiredStep DEF SInv

\* The second inductive invariant holds in every reachable state of the ledger.
THEOREM Safety == Spec => []SInv
  BY Invariance, SafetyInit, SafetyStep, PTL DEF Spec

\* Who plays holds one life and one slot, and nobody is alive in a run that is
\* over, for any number of players, slots, lives, runs and leaves.
THEOREM SeatsExclusive == Spec => []OneSeatEach
  <1>1. IInv /\ SInv => OneSeatEach
    BY DEF IInv, SInv, OneSeatEach
  <1> QED
    BY Invariance, Safety, <1>1, PTL

\* Every recorded death has a journal event of its own, and a prize goes only to
\* the life of another player for a death that is recorded.
THEOREM KillsAreJustified == Spec => []KillsJustified
  <1>1. SInv => KillsJustified
    BY DEF SInv, KillsJustified
  <1> QED
    BY Safety, <1>1, PTL

\* A player is never asked to pay two unexpired invoices.
THEOREM InvoiceNotDoubled == Spec => []OneLiveInvoice
  <1>1. SInv => OneLiveInvoice
    BY DEF SInv
  <1> QED
    BY Safety, <1>1, PTL

\* A closed arena stays closed, and one that expired owes no life to a player who
\* can still play.
THEOREM ClosingKeepsLives == Spec => []ClosingIsFair
  <1>1. SInv => ClosingIsFair
    BY DEF SInv, ClosingIsFair
  <1> QED
    BY Safety, <1>1, PTL
=============================================================================
