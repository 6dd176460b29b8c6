--------------------------- MODULE LifeLedgerProps ---------------------------
(***************************************************************************)
(* What the ledger promises, whatever the order of its transactions.       *)
(***************************************************************************)
EXTENDS LifeLedger

DeadOf(e) == {l \in LifeIds : lives[l].status = "dead" /\ lives[l].entry = e}

Usable(l) == lives[l].status \in UsableStatus

----------------------------------------------------------------------------
(* Safety.                                                                  *)

\* Each life a player paid for is accounted for exactly once: it is still
\* held by the entry, was consumed by one recorded death, or was refunded; an
\* unpaid invoice holds and has spent nothing (settle_entry, consume_death,
\* refund_entry).
LivesConserved ==
    \A e \in Entries :
        entries[e].remaining + Cardinality(DeadOf(e)) + refunds[e]
            = IF entries[e].status = "paid" THEN LivesPerEntry ELSE 0

\* A player never holds two usable lives, so one balance is never played twice
\* at once (allocate_life resumes the current life instead of inserting one).
OneUsableLife ==
    \A p \in Players : \A l, m \in UsableOf(p) : l = m

\* A usable life always has a paid life behind it, in an entry of its own
\* player: "Consumed life has no funded entry." can never stop the journal of a
\* usable life (consume_death).
FundedLife ==
    \A l \in LifeIds : Usable(l) =>
        /\ lives[l].entry \in Entries
        /\ Funded(lives[l].entry)
        /\ entries[lives[l].entry].player = lives[l].player

\* A player who has left owns nothing any more: no usable life, no balance,
\* even when an invoice of theirs settles afterwards (finish_leave and the
\* refund in settle_entry).
LeaverIsSettled ==
    \A p \in Players : participants[p] = "left" =>
        /\ UsableOf(p) = {}
        /\ \A e \in EntriesOf(p) : entries[e].remaining = 0

\* The slots of live lives are distinct: two players never share one engine
\* admission (allocate_life).
SlotsExclusive ==
    /\ \A l, m \in AliveLives : lives[l].slot = lives[m].slot => l = m
    /\ \A l \in AliveLives : lives[l].slot \in Slots

\* A run that is stopped or recovered has no live life left, and the lives it
\* released are never taken back by it: they come back in another run.
EndedRunIsEmpty ==
    \A r \in RunIds : runs[r].status \in {"stopped", "recovered"} => AliveIn(r) = {}

\* Who plays holds one seat, and a run that is over holds none: one life each, one
\* slot each, over any number of runs, leaves and resumed lives.
OneSeatEach == OneUsableLife /\ SlotsExclusive /\ EndedRunIsEmpty

\* A prize is queued only for a death in the ledger, and goes to a life of
\* another player (consume_death).
PayoutsJustified ==
    \A v \in LifeIds : payouts[v] # NoId =>
        /\ lives[v].status = "dead"
        /\ payouts[v] \in LifeIds \ {v}
        /\ lives[payouts[v]].status # "none"
        /\ lives[payouts[v]].player # lives[v].player

\* Every consumed life is backed by a journal event of its own: the deaths
\* recorded in a run never outnumber the events applied from its journal.
DeathsAreJournaled ==
    \A r \in RunIds :
        Cardinality({l \in LifeIds : lives[l].status = "dead" /\ lives[l].run = r})
            <= runs[r].sequence

\* No money moves for a death the engine did not write, nor for a player's own.
KillsJustified == PayoutsJustified /\ DeathsAreJournaled

\* A player has at most one unexpired unpaid invoice, so a client that asks
\* again is never shown a second one to pay (reserve_entry).
OneLiveInvoice ==
    \A p \in Players : \A d, e \in EntriesOf(p) : Live(d) /\ Live(e) => d = e

\* An explicit closure is never undone by a late payment (settle_entry).
ClosureIsFinal == arena.admin_closed => ~arena.active

\* An arena that expired by itself owes no life to a player who can still play:
\* what a late payment adds to it belongs to a session that is leaving
\* (expire_game, settle_entry).
ExpiredArenaOwesNothing ==
    ~arena.active /\ ~arena.admin_closed =>
        /\ \A l \in LifeIds : ~Usable(l)
        /\ \A e \in Entries : entries[e].remaining > 0 =>
              participants[entries[e].player] = "leaving"

\* What closes an arena keeps it closed and leaves nobody with lives they cannot
\* play, whatever is paid afterwards.
ClosingIsFair == ClosureIsFinal /\ ExpiredArenaOwesNothing

----------------------------------------------------------------------------
(* Money.  Amounts are whole sats, rounded down once per row.               *)

PaidKills(e) == {l \in DeadOf(e) : payouts[l] # NoId}

\* What the wallet that sold entry e sends out because of it.
OwedFor(e) == (Cardinality(PaidKills(e)) * (PrizeAmount + CreatorAmount))
                + (RefundAmount(refunds[e]) + CreatorRefund(refunds[e]))

\* The prizes, creator fees and refunds of one entry never exceed what was paid
\* for it: the wallet that received the entry can always cover them.
Solvent ==
    \A e \in Entries : OwedFor(e) <= IF entries[e].status = "paid" THEN EntryAmount ELSE 0

----------------------------------------------------------------------------
(* Action properties.                                                       *)

\* A consumed or refunded life never becomes usable, or dead, again.
RetiredForGood ==
    [][\A l \in LifeIds : lives[l].status \in {"dead", "refunded"} =>
          lives'[l] = lives[l]]_vars

----------------------------------------------------------------------------
(* Refinement.                                                              *)

Sold  == [e \in Entries |-> entries[e].status = "paid"]
Held  == [e \in Entries |-> entries[e].remaining]
Spent == [e \in Entries |-> Cardinality(DeadOf(e))]

Account == INSTANCE EntryAccount
              WITH sold <- Sold, held <- Held, spent <- Spent, refunded <- refunds

\* Every history of the ledger is a history of the entries as accounts: each
\* transaction buys one entry, spends one life, refunds all the lives of a
\* player at once, or leaves every account alone.
ImplementsAccount == Account!AccountSpec
=============================================================================
