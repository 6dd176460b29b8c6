----------------------------- MODULE LifeLedger -----------------------------
(***************************************************************************)
(* The paid-life ledger of one QuakeJS arena: the tables and the           *)
(* transactions of crud.py and leaving.py.                                 *)
(*                                                                         *)
(* Every transaction begins with an UPDATE of the arena row (Tx.lock_arena *)
(* takes the row lock in PostgreSQL, `transaction' takes the database      *)
(* write lock in SQLite) and either commits or rolls back, so each one is  *)
(* a single action here, and a path that raises is a disabled action.  The *)
(* callers are arbitrary: any transaction may be called whenever its own   *)
(* guards let it through.  GameServer constrains the callers.              *)
(*                                                                         *)
(* Time appears as two events, an unpaid invoice expires and the lease of  *)
(* the arena runs out, and as choices of the lobby maintenance.            *)
(***************************************************************************)
EXTENDS Integers, FiniteSets

CONSTANTS
    Players,        \* the participant sessions (browser tokens)
    NoPlayer,       \* the player of an unused row
    MaxEntries,     \* bound: entries ever created
    MaxLives,       \* bound: lives ever created
    MaxRuns,        \* bound: engine runs ever started
    MaxSequence,    \* bound: journal events per run
    MaxPlayers,     \* MAX_PLAYERS, the slots of the arena
    LivesPerEntry,  \* the lives one entry buys (5)
    EntryAmount,    \* arenas.entry_amount, in sats
    Haircut,        \* arenas.haircut, in percent
    CreatorHaircut, \* arenas.creator_haircut, in percent
    IsPublic        \* arenas.is_public: created from the lobby

ASSUME PlayerAssumption == NoPlayer \notin Players
ASSUME BoundAssumption ==
    /\ MaxEntries \in Nat
    /\ MaxLives \in Nat
    /\ MaxRuns \in Nat
    /\ MaxSequence \in Nat
    /\ MaxPlayers \in Nat
    /\ LivesPerEntry \in Nat \ {0}
ASSUME FeeAssumption ==
    /\ EntryAmount \in Nat
    /\ Haircut \in 0 .. 100
    /\ CreatorHaircut \in 0 .. 100
    /\ Haircut + CreatorHaircut <= 100
    /\ IsPublic \in BOOLEAN

Entries == 1 .. MaxEntries
LifeIds == 1 .. MaxLives
RunIds  == 1 .. MaxRuns
Slots   == 1 .. MaxPlayers
NoId    == 0

VARIABLES
    participants, \* leave_state of each session, "absent" before its first entry
    entries,      \* the entries table, by creation order
    lives,        \* the lives table, by creation order
    runs,         \* the runs table
    arena,        \* the arena row
    payouts,      \* killer credited by the payouts row of each victim, or NoId
    refunds       \* lives refunded by the refund_payouts row of each entry

vars == <<participants, entries, lives, runs, arena, payouts, refunds>>

UsableStatus == {"alive", "left"}
OpenStatus   == {"creating", "pending"}

Participant == {"absent", "playing", "leaving", "left"}
Entry == [player: Players \cup {NoPlayer},
          status: {"none", "creating", "pending", "paid"},
          remaining: 0 .. LivesPerEntry,
          payable: BOOLEAN]  \* unpaid, and expires_at is in the future
Life == [player: Players \cup {NoPlayer},
         entry: 0 .. MaxEntries,
         run: 0 .. MaxRuns,
         status: {"none", "alive", "left", "dead", "refunded"},
         slot: 0 .. MaxPlayers]
Run == [status: {"none", "running", "stopped", "recovered"},
        sequence: 0 .. MaxSequence]
Arena == [active: BOOLEAN,
          admin_closed: BOOLEAN,
          run_id: 0 .. MaxRuns,
          leased: BOOLEAN,
          idle: {"null", "since"}]

TypeOK ==
    /\ participants \in [Players -> Participant]
    /\ entries \in [Entries -> Entry]
    /\ lives \in [LifeIds -> Life]
    /\ runs \in [RunIds -> Run]
    /\ arena \in Arena
    /\ payouts \in [LifeIds -> 0 .. MaxLives]
    /\ refunds \in [Entries -> 0 .. LivesPerEntry]

\* No life has been played in the arena yet.
NothingPlayed ==
    /\ lives = [l \in LifeIds |-> [player |-> NoPlayer, entry |-> 0, run |-> 0,
                                   status |-> "none", slot |-> 0]]
    /\ runs = [r \in RunIds |-> [status |-> "none", sequence |-> 0]]
    /\ arena = [active |-> TRUE, admin_closed |-> FALSE, run_id |-> 0,
                leased |-> FALSE,
                idle |-> IF IsPublic THEN "since" ELSE "null"]
    /\ payouts = [l \in LifeIds |-> NoId]
    /\ refunds = [e \in Entries |-> 0]

Init ==
    /\ participants = [p \in Players |-> "absent"]
    /\ entries = [e \in Entries |-> [player |-> NoPlayer, status |-> "none",
                                     remaining |-> 0, payable |-> FALSE]]
    /\ NothingPlayed

----------------------------------------------------------------------------
(* Selections the transactions make.                                        *)

\* Mutant of Open: a second notification settles a paid entry again.
OpenOrPaid(e) == entries[e].status # "none"

Open(e)   == entries[e].status \in OpenStatus
Live(e)   == entries[e].payable
Funded(e) == entries[e].status = "paid" /\ entries[e].remaining > 0

EntriesOf(p) == {e \in Entries : entries[e].player = p}
UsableOf(p)  == {l \in LifeIds : lives[l].player = p /\ lives[l].status \in UsableStatus}
AliveLives   == {l \in LifeIds : lives[l].status = "alive"}
AliveIn(r)   == {l \in AliveLives : lives[l].run = r}

\* The next unused row of a table whose rows are used in creation order.
NextRow(table, i) == /\ table[i].status = "none"
                     /\ \A j \in DOMAIN table : table[j].status = "none" => i <= j

\* COUNT(DISTINCT player_id) over live lives and live unpaid invoices.
Occupants == {lives[l].player : l \in AliveLives}
                \cup {entries[e].player : e \in {d \in Entries : Live(d)}}

\* Mutant of OldestFunded: the balance is not checked.
OldestPaid(p, e) ==
    /\ e \in EntriesOf(p)
    /\ entries[e].status = "paid"
    /\ \A d \in EntriesOf(p) : entries[d].status = "paid" => e <= d

\* The oldest paid entry of p that still holds lives.
OldestFunded(p, e) ==
    /\ e \in EntriesOf(p)
    /\ Funded(e)
    /\ \A d \in EntriesOf(p) : Funded(d) => e <= d

\* The newest alive or left life of p.
Current(p, l) == l \in UsableOf(p) /\ \A m \in UsableOf(p) : m <= l

\* Mutant of LowestFreeSlot: only the lives of the current run hold slots.
LowestFreeSlotOfRun(s) ==
    LET used == {lives[l].slot : l \in AliveIn(arena.run_id)}
    IN  s \in Slots \ used /\ \A t \in Slots \ used : s <= t

\* The lowest slot no live life of the arena holds, whatever its run.
LowestFreeSlot(s) ==
    LET used == {lives[l].slot : l \in AliveLives}
    IN  s \in Slots \ used /\ \A t \in Slots \ used : s <= t

----------------------------------------------------------------------------
(* Entries and their invoices.                                              *)

\* Mutant of MayReserve: an unexpired invoice does not stop a second one.
MayReserveAgain(p) ==
    /\ arena.active
    /\ participants[p] \in {"absent", "playing"}
    /\ \A d \in EntriesOf(p) : entries[d].remaining = 0
    /\ Cardinality(Occupants) < MaxPlayers

\* A player with lives is told to respawn, one with a live invoice is given that
\* invoice again, and a full arena takes no one.
MayReserve(p) ==
    /\ arena.active
    /\ participants[p] \in {"absent", "playing"}
    /\ \A d \in EntriesOf(p) : entries[d].remaining = 0 /\ ~Live(d)
    /\ Cardinality(Occupants) < MaxPlayers

ReserveEntry(p, e) ==
    /\ MayReserve(p)
    /\ NextRow(entries, e)
    /\ participants' = [participants EXCEPT ![p] = "playing"]
    /\ entries' = [entries EXCEPT ![e] = [player |-> p, status |-> "creating",
                                          remaining |-> 0, payable |-> TRUE]]
    /\ UNCHANGED <<lives, runs, arena, payouts, refunds>>

RecordInvoice(e) ==
    /\ entries[e].status = "creating"
    /\ entries' = [entries EXCEPT ![e].status = "pending"]
    /\ UNCHANGED <<participants, lives, runs, arena, payouts, refunds>>

InvoiceExpires(e) ==
    /\ Live(e)
    /\ entries' = [entries EXCEPT ![e].payable = FALSE]
    /\ UNCHANGED <<participants, lives, runs, arena, payouts, refunds>>

\* An entry row that has been paid for and holds n lives.
Credited(row, n) == [row EXCEPT !.status = "paid", !.remaining = n, !.payable = FALSE]

\* Mutant of Reactivated: a late payment reopens a closed arena.
ReactivatedAlways == [arena EXCEPT !.active = TRUE, !.idle = "since"]

\* A late payment reopens an arena that expired, not one its owner closed.
Reactivated ==
    IF arena.admin_closed THEN arena ELSE [arena EXCEPT !.active = TRUE, !.idle = "since"]

(***************************************************************************)
(* A settled payment of the entry's wallet, amount and hash.  It may come  *)
(* before record_invoice, after the invoice expired, after the arena was   *)
(* closed and after the player left.                                       *)
(***************************************************************************)
SettleEntry(e) ==
    /\ Open(e)
    /\ participants[entries[e].player] = "playing"
    /\ entries' = [entries EXCEPT ![e] = Credited(@, LivesPerEntry)]
    /\ arena' = Reactivated
    /\ UNCHANGED <<participants, lives, runs, payouts, refunds>>

\* The player is leaving: finish_leave will refund the new lives.
SettleWhileLeaving(e) ==
    /\ Open(e)
    /\ participants[entries[e].player] = "leaving"
    /\ entries' = [entries EXCEPT ![e] = Credited(@, LivesPerEntry)]
    /\ UNCHANGED <<participants, lives, runs, arena, payouts, refunds>>

\* Mutant of SettleAfterLeave: the lives are credited to a player who left.
SettleForLeaver(e) ==
    /\ Open(e)
    /\ participants[entries[e].player] = "left"
    /\ entries' = [entries EXCEPT ![e] = Credited(@, LivesPerEntry)]
    /\ UNCHANGED <<participants, lives, runs, arena, payouts, refunds>>

\* The player has left: settle_entry calls refund_entry in its transaction.
SettleAfterLeave(e) ==
    /\ Open(e)
    /\ participants[entries[e].player] = "left"
    /\ refunds[e] = 0
    /\ entries' = [entries EXCEPT ![e] = Credited(@, 0)]
    /\ refunds' = [refunds EXCEPT ![e] = LivesPerEntry]
    /\ UNCHANGED <<participants, lives, runs, arena, payouts>>

----------------------------------------------------------------------------
(* Lives.                                                                   *)

\* The guards of allocate_life that both of its writes share.
Admissible(p, r) ==
    /\ arena.active
    /\ arena.run_id = r
    /\ arena.leased
    /\ participants[p] = "playing"
    /\ \E e \in Entries : OldestFunded(p, e)

\* A life left by an earlier run, or still alive in one, moves to run r.
ResumeLife(p, r, l, s) ==
    /\ Admissible(p, r)
    /\ Current(p, l)
    /\ ~ (lives[l].status = "alive" /\ lives[l].run = r)
    /\ LowestFreeSlot(s)
    /\ lives' = [lives EXCEPT ![l] = [@ EXCEPT !.status = "alive", !.run = r, !.slot = s]]
    /\ arena' = [arena EXCEPT !.idle = "null"]
    /\ UNCHANGED <<participants, entries, runs, payouts, refunds>>

NewLife(p, r, l, s) ==
    /\ Admissible(p, r)
    /\ ~ \E m \in LifeIds : Current(p, m)
    /\ LowestFreeSlot(s)
    /\ NextRow(lives, l)
    /\ \E e \in Entries :
          /\ OldestFunded(p, e)
          /\ lives' = [lives EXCEPT ![l] = [player |-> p, entry |-> e, run |-> r,
                                            status |-> "alive", slot |-> s]]
    /\ arena' = [arena EXCEPT !.idle = "null"]
    /\ UNCHANGED <<participants, entries, runs, payouts, refunds>>

\* Mutant of CreditedKiller: a second life of the victim can earn the prize.
CreditedOther(r, v, k) ==
    IF k \in LifeIds /\ lives[k].status # "none" /\ lives[k].run = r /\ k # v
    THEN k ELSE NoId

\* The killer the ledger credits for the death of v in run r, or NoId.
CreditedKiller(r, v, k) ==
    IF /\ k \in LifeIds
       /\ lives[k].status # "none"
       /\ lives[k].run = r
       /\ k # v
       /\ lives[k].player # lives[v].player
    THEN k ELSE NoId

\* The next journal event of run r ends the life v; k is the killer or NoId.
ConsumeDeath(r, v, k) ==
    /\ runs[r].status # "none"
    /\ runs[r].sequence < MaxSequence
    /\ lives[v].run = r
    /\ lives[v].status \notin {"none", "dead"}
    /\ entries[lives[v].entry].remaining > 0
    /\ entries' = [entries EXCEPT ![lives[v].entry].remaining = @ - 1]
    /\ lives' = [lives EXCEPT ![v].status = "dead"]
    /\ payouts' = [payouts EXCEPT ![v] = IF @ = NoId THEN CreditedKiller(r, v, k) ELSE @]
    /\ runs' = [runs EXCEPT ![r].sequence = @ + 1]
    /\ UNCHANGED <<participants, arena, refunds>>

\* The next event names a life that is already dead: only the sequence moves.
SkipDeath(r, v) ==
    /\ runs[r].status # "none"
    /\ runs[r].sequence < MaxSequence
    /\ lives[v].run = r
    /\ lives[v].status = "dead"
    /\ runs' = [runs EXCEPT ![r].sequence = @ + 1]
    /\ UNCHANGED <<participants, entries, lives, arena, payouts, refunds>>

(***************************************************************************)
(* Amounts, in whole sats, rounded down once per payout row.               *)
(***************************************************************************)
CreatorFee == IF IsPublic THEN CreatorHaircut ELSE 0

\* Mutant of PrizeAmount: the creator's fee is not taken from the prize.
PrizeBeforeCreatorFee == (EntryAmount * (100 - Haircut)) \div (100 * LivesPerEntry)

PrizeAmount   == (EntryAmount * (100 - Haircut - CreatorFee)) \div (100 * LivesPerEntry)
CreatorAmount == (EntryAmount * CreatorFee) \div (100 * LivesPerEntry)

\* Refund of n unused lives: the player's part and the creator's part.
RefundAmount(n)  == (n * EntryAmount * (100 - Haircut - CreatorFee)) \div (100 * LivesPerEntry)
CreatorRefund(n) == (n * EntryAmount * CreatorFee) \div (100 * LivesPerEntry)

----------------------------------------------------------------------------
(* Leaving.                                                                 *)

RequestLeave(p) ==
    /\ participants[p] = "playing"
    /\ \E e \in EntriesOf(p) : entries[e].status = "paid"
    /\ participants' = [participants EXCEPT ![p] = "leaving"]
    /\ UNCHANGED <<entries, lives, runs, arena, payouts, refunds>>

\* `revoked' is the run whose admission of p the caller has revoked, or NoId.
FinishLeave(p, revoked) ==
    LET owed == {e \in EntriesOf(p) : Funded(e)}
    IN  /\ participants[p] = "leaving"
        /\ \A l \in UsableOf(p) : lives[l].status = "alive" => lives[l].run = revoked
        /\ \A e \in owed : refunds[e] = 0
        /\ refunds' = [e \in Entries |->
                          IF e \in owed THEN entries[e].remaining ELSE refunds[e]]
        /\ entries' = [e \in Entries |->
                          IF e \in owed THEN [entries[e] EXCEPT !.remaining = 0]
                                        ELSE entries[e]]
        /\ lives' = [l \in LifeIds |->
                        IF l \in UsableOf(p) THEN [lives[l] EXCEPT !.status = "refunded"]
                                             ELSE lives[l]]
        /\ participants' = [participants EXCEPT ![p] = "left"]
        /\ UNCHANGED <<runs, arena, payouts>>

----------------------------------------------------------------------------
(* Runs, the lease and the arena.                                           *)

\* UPDATE lives SET status='left' WHERE run_id=r AND status='alive'.
ReleaseLives(r) ==
    lives' = [l \in LifeIds |->
                 IF l \in AliveIn(r) THEN [lives[l] EXCEPT !.status = "left"] ELSE lives[l]]

LeaseArena(r) ==
    /\ arena.active
    /\ ~arena.leased
    /\ r = arena.run_id + 1
    /\ arena' = [arena EXCEPT !.run_id = r, !.leased = TRUE]
    /\ UNCHANGED <<participants, entries, lives, runs, payouts, refunds>>

\* The run row is inserted once no earlier run is left to recover.
StartRun(r) ==
    /\ r = arena.run_id
    /\ runs[r].status = "none"
    /\ \A old \in RunIds : runs[old].status # "running"
    /\ runs' = [runs EXCEPT ![r].status = "running"]
    /\ UNCHANGED <<participants, entries, lives, arena, payouts, refunds>>

RecoverRun(r) ==
    /\ runs[r].status = "running"
    /\ arena.run_id # r \/ ~arena.leased
    /\ ReleaseLives(r)
    /\ runs' = [runs EXCEPT ![r].status = "recovered"]
    /\ UNCHANGED <<participants, entries, arena, payouts, refunds>>

StopRun(r) ==
    /\ runs[r].status # "none"
    /\ ReleaseLives(r)
    /\ runs' = [runs EXCEPT ![r].status = "stopped"]
    /\ arena' = IF arena.run_id = r THEN [arena EXCEPT !.leased = FALSE] ELSE arena
    /\ UNCHANGED <<participants, entries, payouts, refunds>>

LeaseExpires ==
    /\ arena.leased
    /\ arena' = [arena EXCEPT !.leased = FALSE]
    /\ UNCHANGED <<participants, entries, lives, runs, payouts, refunds>>

CloseGame ==
    /\ ~arena.admin_closed
    /\ arena' = [arena EXCEPT !.active = FALSE, !.admin_closed = TRUE]
    /\ UNCHANGED <<participants, entries, lives, runs, payouts, refunds>>

Outstanding == {e \in Entries : entries[e].remaining > 0 \/ Live(e)}

(***************************************************************************)
(* One visit of the lobby maintenance.  An alive life counts as playing    *)
(* while its connected_until is in the future, which depends on the last   *)
(* renewal: with an alive life in the arena both outcomes are possible.    *)
(* Whether ten minutes have passed since idle_since is a choice as well.   *)
(***************************************************************************)
ExpireGame ==
    /\ IsPublic
    /\ arena.active
    /\ \/ /\ AliveLives # {}
          /\ arena' = [arena EXCEPT !.idle = "null"]
       \/ /\ arena.idle = "null"
          /\ arena' = [arena EXCEPT !.idle = "since"]
       \/ /\ arena.idle = "since"
          /\ Outstanding = {}
          /\ arena' = [arena EXCEPT !.active = FALSE]
    /\ UNCHANGED <<participants, entries, lives, runs, payouts, refunds>>

----------------------------------------------------------------------------
EntryStep ==
    \/ \E p \in Players, e \in Entries : ReserveEntry(p, e)
    \/ \E e \in Entries : \/ RecordInvoice(e)
                          \/ InvoiceExpires(e)
                          \/ SettleEntry(e)
                          \/ SettleWhileLeaving(e)
                          \/ SettleAfterLeave(e)

LifeStep ==
    \/ \E p \in Players, r \in RunIds, l \in LifeIds, s \in Slots :
          ResumeLife(p, r, l, s) \/ NewLife(p, r, l, s)
    \/ \E r \in RunIds, v \in LifeIds, k \in LifeIds \cup {NoId} : ConsumeDeath(r, v, k)
    \/ \E r \in RunIds, v \in LifeIds : SkipDeath(r, v)

LeaveStep ==
    \/ \E p \in Players : RequestLeave(p)
    \/ \E p \in Players, r \in RunIds \cup {NoId} : FinishLeave(p, r)

ArenaStep ==
    \/ \E r \in RunIds : LeaseArena(r) \/ StartRun(r) \/ RecoverRun(r) \/ StopRun(r)
    \/ LeaseExpires
    \/ CloseGame
    \/ ExpireGame

Next == EntryStep \/ LifeStep \/ LeaveStep \/ ArenaStep

Spec == Init /\ [][Next]_vars
=============================================================================
