---------------------------- MODULE PayoutOutbox ----------------------------
(***************************************************************************)
(* The payout worker of payments.py: prizes, creator fees and refunds are  *)
(* rows of an outbox, sent over Lightning by loops that lease one row at a *)
(* time.  Sending cannot be undone and its outcome may be lost, so a row   *)
(* that was ever `sending' is only reconciled, never sent again.           *)
(*                                                                         *)
(* The LNbits wallet and the Lightning address providers are external:     *)
(* providers hand out invoices, possibly the same one twice, and others    *)
(* may pay an invoice we were given.                                       *)
(***************************************************************************)
EXTENDS Naturals

CONSTANTS
    Rows,        \* rows of payouts, creator_payouts and refund_payouts
    Hashes,      \* payment hashes of the providers' invoices
    Workers,     \* payout loops
    Nobody,      \* no row, no hash, no worker
    Foreign,     \* the owner of a payment that is not one of ours
    MaxAttempts  \* invoice preparations per row (8)

ASSUME OutboxAssumption ==
    /\ Nobody \notin Rows \cup Hashes \cup Workers
    /\ Foreign \notin Rows \cup {Nobody}
    /\ MaxAttempts \in Nat \ {0}

VARIABLES
    rows,      \* the outbox: due is next_attempt <= now, leased is claimed_until > now
    claims,    \* payout_invoice_claims: the row that may pay each hash
    payments,  \* LNbits' payments by hash
    loops,     \* the loops: program counter, row, the row's fields as read
    sends      \* history: payments created for each row

outboxVars == <<rows, claims, payments, loops, sends>>

Working  == {"queued", "prepared", "sending", "pending"}
Statuses == Working \cup {"paid", "failed"}
Unpaid   == [owner |-> Nobody, status |-> "none"]
IdleLoop == [pc |-> "idle", row |-> Nobody, hash |-> Nobody, outcome |-> "none"]

Row     == [status: Statuses, hash: Hashes \cup {Nobody}, attempts: 0 .. MaxAttempts,
            due: BOOLEAN, leased: BOOLEAN, claim: Workers \cup {Nobody}]
Payment == [owner: Rows \cup {Nobody, Foreign},
            status: {"none", "pending", "success", "failed"}]
Loop    == [pc: {"idle", "fetch", "send", "pay", "record", "reconcile", "release"},
            row: Rows \cup {Nobody}, hash: Hashes \cup {Nobody},
            outcome: Statuses \cup {"none"}]

OutboxTypeOK ==
    /\ rows \in [Rows -> Row]
    /\ claims \in [Hashes -> Rows \cup {Nobody}]
    /\ payments \in [Hashes -> Payment]
    /\ loops \in [Workers -> Loop]
    /\ sends \in [Rows -> Nat]

\* Rows are queued by consume_death and refund_entry.
OutboxInit ==
    /\ rows = [p \in Rows |-> [status |-> "queued", hash |-> Nobody, attempts |-> 0,
                               due |-> TRUE, leased |-> FALSE, claim |-> Nobody]]
    /\ claims = [h \in Hashes |-> Nobody]
    /\ payments = [h \in Hashes |-> Unpaid]
    /\ loops = [w \in Workers |-> IdleLoop]
    /\ sends = [p \in Rows |-> 0]

----------------------------------------------------------------------------
\* Mutant of Leasable: a row that was claimed once is never claimed again.
LeasableUnclaimed(p) ==
    rows[p].status \in Working /\ rows[p].due /\ ~rows[p].leased /\ rows[p].claim = Nobody

Leasable(p) == rows[p].status \in Working /\ rows[p].due /\ ~rows[p].leased

\* Mutant of FirstStep: what may have been sent gets a new invoice.
FirstStepReplaces(status) ==
    CASE status = "prepared" -> "send" [] OTHER -> "fetch"

\* What process_payout does with a row it finds in this status.
FirstStep(status) ==
    CASE status = "queued"   -> "fetch"
      [] status = "prepared" -> "send"
      [] OTHER               -> "reconcile"

\* claim_payout: the row is leased under a fresh claim.
ClaimPayout(w, p) ==
    /\ loops[w].pc = "idle"
    /\ Leasable(p)
    /\ rows' = [rows EXCEPT ![p].leased = TRUE, ![p].claim = w]
    /\ loops' = [loops EXCEPT ![w] = [pc |-> FirstStep(rows[p].status), row |-> p,
                                      hash |-> rows[p].hash, outcome |-> "none"]]
    /\ UNCHANGED <<claims, payments, sends>>

\* Mutant of Holds: an update does not compare the claim.
HoldsAlways(w) == loops[w].row \in Rows

\* "Payout lease was lost." unless the row still carries the claim of the loop.
Holds(w) == loops[w].row \in Rows /\ rows[loops[w].row].claim = w

\* update_payout: the row gets a status, and later ones of its fields.
UpdatePayout(w, status, due) ==
    /\ Holds(w)
    /\ rows' = [rows EXCEPT ![loops[w].row].status = status, ![loops[w].row].due = due]

\* Mutant of MayUse: the invoice was checked with LNbits only.
MayUseUnclaimed(w, h) == payments[h] = Unpaid

\* The invoice is new to LNbits and claimed by no other row.
MayUse(w, h) == payments[h] = Unpaid /\ claims[h] \in {Nobody, loops[w].row}

\* The provider answers with an invoice.
Prepare(w, h) ==
    LET p == loops[w].row
    IN  /\ loops[w].pc = "fetch"
        /\ Holds(w)
        /\ MayUse(w, h)
        /\ claims' = [claims EXCEPT ![h] = p]
        /\ rows' = [rows EXCEPT ![p].status = "prepared", ![p].hash = h]
        /\ loops' = [loops EXCEPT ![w].pc = "send", ![w].hash = h]
        /\ UNCHANGED <<payments, sends>>

GivesUp(attempts) == attempts >= MaxAttempts

\* It does not, or with one that cannot be used: retry later, at most so often.
PreparationFails(w) ==
    LET p == loops[w].row
        n == rows[p].attempts + 1
    IN  /\ loops[w].pc = "fetch"
        /\ Holds(w)
        /\ rows' = [rows EXCEPT ![p].status = IF GivesUp(n) THEN "failed" ELSE "queued",
                                ![p].attempts = n,
                                ![p].due = FALSE]
        /\ loops' = [loops EXCEPT ![w].pc = "release"]
        /\ UNCHANGED <<claims, payments, sends>>

\* Committed before LNbits is asked to pay.
BeginSending(w) ==
    /\ loops[w].pc = "send"
    /\ UpdatePayout(w, "sending", rows[loops[w].row].due)
    /\ loops' = [loops EXCEPT ![w].pc = "pay"]
    /\ UNCHANGED <<claims, payments, sends>>

\* pay_invoice creates a payment and reports it, or raises before or after.
PayInvoice(w) ==
    LET h == loops[w].hash
        p == loops[w].row
    IN  /\ loops[w].pc = "pay"
        /\ payments[h] = Unpaid
        /\ \E status \in {"pending", "success", "failed"} :
              /\ payments' = [payments EXCEPT ![h] = [owner |-> p, status |-> status]]
              /\ \E outcome \in {"pending"} \cup (IF status = "success" THEN {"paid"} ELSE {}) :
                    loops' = [loops EXCEPT ![w].pc = "record", ![w].outcome = outcome]
        /\ sends' = [sends EXCEPT ![p] = @ + 1]
        /\ UNCHANGED <<rows, claims>>

\* pay_invoice raises without a payment, or hands back one that exists.
PayInvoiceRefused(w) ==
    /\ loops[w].pc = "pay"
    /\ \E outcome \in {"pending"} \cup (IF payments[loops[w].hash] = Unpaid THEN {} ELSE {"failed"}) :
          loops' = [loops EXCEPT ![w].pc = "record", ![w].outcome = outcome]
    /\ UNCHANGED <<rows, claims, payments, sends>>

RecordOutcome(w) ==
    /\ loops[w].pc = "record"
    /\ UpdatePayout(w, loops[w].outcome, FALSE)
    /\ loops' = [loops EXCEPT ![w].pc = "release"]
    /\ UNCHANGED <<claims, payments, sends>>

\* Mutant of Verdict: an invoice LNbits does not know is taken for a failure.
VerdictUnknownFails(p, payment) ==
    CASE payment.owner # p                                -> "failed"
      [] payment.owner = p /\ payment.status = "success"  -> "paid"
      [] payment.owner = p /\ payment.status = "failed"   -> "failed"
      [] OTHER                                            -> "pending"

\* What reconcile_payout makes of the payment it finds under the row's hash.
Verdict(p, payment) ==
    CASE payment.owner \notin {p, Nobody}                 -> "failed"
      [] payment.owner = p /\ payment.status = "success"  -> "paid"
      [] payment.owner = p /\ payment.status = "failed"   -> "failed"
      [] OTHER                                            -> "pending"

\* A payment from another wallet is not found under the row's wallet.
ReconcilePayout(w) ==
    LET payment == payments[loops[w].hash]
    IN  /\ loops[w].pc = "reconcile"
        /\ \E status \in {Verdict(loops[w].row, payment)}
                            \cup (IF payment.owner = Foreign THEN {"pending"} ELSE {}) :
              UpdatePayout(w, status, FALSE)
        /\ loops' = [loops EXCEPT ![w].pc = "release"]
        /\ UNCHANGED <<claims, payments, sends>>

LeaseLost(w) ==
    /\ loops[w].pc \in {"fetch", "send", "record", "reconcile", "release"}
    /\ ~Holds(w)
    /\ loops' = [loops EXCEPT ![w] = IdleLoop]
    /\ UNCHANGED <<rows, claims, payments, sends>>

\* The 60 second limit, or an error, ends the work on the row where it is.
WorkEnds(w) ==
    /\ loops[w].pc \in {"fetch", "send", "pay", "record", "reconcile"}
    /\ loops' = [loops EXCEPT ![w].pc = "release"]
    /\ UNCHANGED <<rows, claims, payments, sends>>

\* The finally of payout_loop gives the lease back and defers the row.
Release(w) ==
    /\ loops[w].pc = "release"
    /\ Holds(w)
    /\ rows' = [rows EXCEPT ![loops[w].row].leased = FALSE,
                            ![loops[w].row].due = IF rows[loops[w].row].status \in Working
                                                  THEN FALSE ELSE @]
    /\ loops' = [loops EXCEPT ![w] = IdleLoop]
    /\ UNCHANGED <<claims, payments, sends>>

\* The process dies, or the release fails with the database.
LoopDies(w) ==
    /\ loops[w].pc # "idle"
    /\ loops' = [loops EXCEPT ![w] = IdleLoop]
    /\ UNCHANGED <<rows, claims, payments, sends>>

----------------------------------------------------------------------------
(* The clock and the Lightning network.                                     *)

BecomesDue(p) ==
    /\ ~rows[p].due
    /\ rows[p].status \in Working
    /\ rows' = [rows EXCEPT ![p].due = TRUE]
    /\ UNCHANGED <<claims, payments, loops, sends>>

\* After 90 seconds, even under a loop that is stalled rather than dead.
LeaseRunsOut(p) ==
    /\ rows[p].leased
    /\ rows' = [rows EXCEPT ![p].leased = FALSE]
    /\ UNCHANGED <<claims, payments, loops, sends>>

PaymentSettles(h) ==
    /\ payments[h].status = "pending"
    /\ \E status \in {"success", "failed"} :
          payments' = [payments EXCEPT ![h].status = status]
    /\ UNCHANGED <<rows, claims, loops, sends>>

\* Someone else pays an invoice its provider gave out twice.
ForeignPayment(h) ==
    /\ payments[h] = Unpaid
    /\ payments' = [payments EXCEPT ![h] = [owner |-> Foreign, status |-> "success"]]
    /\ UNCHANGED <<rows, claims, loops, sends>>

LoopStep(w) ==
    \/ \E h \in Hashes : Prepare(w, h)
    \/ PreparationFails(w) \/ BeginSending(w) \/ PayInvoice(w) \/ PayInvoiceRefused(w)
    \/ RecordOutcome(w) \/ ReconcilePayout(w) \/ LeaseLost(w) \/ Release(w)

OutboxNext ==
    \/ \E w \in Workers : \/ LoopStep(w) \/ WorkEnds(w) \/ LoopDies(w)
                          \/ \E p \in Rows : ClaimPayout(w, p)
    \/ \E p \in Rows : BecomesDue(p) \/ LeaseRunsOut(p)
    \/ \E h \in Hashes : PaymentSettles(h) \/ ForeignPayment(h)

OutboxSpec == OutboxInit /\ [][OutboxNext]_outboxVars
=============================================================================
