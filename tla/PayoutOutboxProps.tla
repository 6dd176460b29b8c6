-------------------------- MODULE PayoutOutboxProps --------------------------
(***************************************************************************)
(* What the outbox promises to players and to the owner of the wallet.     *)
(***************************************************************************)
EXTENDS PayoutOutbox

\* A payout is sent at most once, whatever the number of loops, crashes, lost
\* leases and lost answers (process_payout 255-296).
SentOnce == \A p \in Rows : sends[p] <= 1

\* A payment made for a row is found again under the row: the row names the hash
\* and never forgets it, so a crash cannot orphan the money (update_payout).
SentIsRemembered ==
    \A h \in Hashes : payments[h].owner \in Rows =>
        /\ rows[payments[h].owner].hash = h
        /\ rows[payments[h].owner].status \in {"sending", "pending", "paid", "failed"}

\* Two rows never hold the same invoice, although a provider may hand it out
\* twice before either is paid (payout_invoice_claims).
InvoiceUsedOnce ==
    \A p, q \in Rows : rows[p].hash # Nobody /\ rows[p].hash = rows[q].hash => p = q

\* The owner can believe the final statuses: paid means this row's payment went
\* through, failed means that it did not and never will, so paying a failed row
\* by hand pays it once (reconcile_payout).
VerdictIsTrue ==
    \A p \in Rows :
        LET mine == {h \in Hashes : payments[h].owner = p}
        IN  /\ rows[p].status = "paid" => \E h \in mine : payments[h].status = "success"
            /\ rows[p].status = "failed" => \A h \in mine : payments[h].status = "failed"

\* A final status and a chosen invoice stay as they are, even under a loop that
\* wakes up with an old copy of the row (update_payout's claim).
Irrevocable ==
    [][\A p \in Rows :
          /\ rows[p].status \in {"paid", "failed"} => rows'[p].status = rows[p].status
          /\ rows[p].hash # Nobody => rows'[p].hash = rows[p].hash
          /\ rows[p].status # "queued" => rows'[p].status # "queued"]_outboxVars

----------------------------------------------------------------------------
(* Liveness.  A loop that runs does its next step; claim_payout serves the   *)
(* row that is due longest, so a row that keeps becoming free is claimed;    *)
(* the limit on a provider's answer is shorter than the limit on the work,   *)
(* so a fetch is not cut short for ever (payments.py 220-223); LNbits        *)
(* answers a status check from its own tables.                               *)

Fetched(p)    == \E w \in Workers : /\ loops[w].row = p
                                    /\ PreparationFails(w) \/ \E h \in Hashes : Prepare(w, h)
Reconciled(p) == \E w \in Workers : loops[w].row = p /\ ReconcilePayout(w)
Claimed(p)    == \E w \in Workers : ClaimPayout(w, p)

FairOutbox ==
    /\ \A w \in Workers : WF_outboxVars(LoopStep(w))
    /\ \A p \in Rows : /\ WF_outboxVars(BecomesDue(p))
                       /\ WF_outboxVars(LeaseRunsOut(p))
                       /\ SF_outboxVars(Claimed(p))
                       /\ SF_outboxVars(Fetched(p))
                       /\ SF_outboxVars(Reconciled(p))

FairOutboxSpec == OutboxSpec /\ FairOutbox

\* Money that went out is eventually recorded as paid.
PaymentIsRecorded ==
    \A p \in Rows, h \in Hashes :
        payments[h] = [owner |-> p, status |-> "success"] ~> rows[p].status = "paid"

\* A payout does not stay queued for ever: it gets an invoice, or fails visibly.
QueueDrains == \A p \in Rows : rows[p].status = "queued" ~> rows[p].status # "queued"
=============================================================================
