-------------------------- MODULE PayoutOutboxProofs --------------------------
(***************************************************************************)
(* Proofs, for any number of rows, loops, invoices and attempts, of the    *)
(* safety of PayoutOutbox.  OutboxInv is the inductive invariant: what a   *)
(* loop still knows of a row it read before, with and without the claim.   *)
(***************************************************************************)
EXTENDS PayoutOutboxProps, TLAPS

\* The statuses after the point of no return.
Started == {"sending", "pending", "paid", "failed"}

\* A row has no invoice while it is queued, and one of its own from `prepared' on;
\* a failed row may have none.
RowShape(p) ==
    /\ rows[p].status = "queued" => rows[p].hash = Nobody /\ rows[p].attempts < MaxAttempts
    /\ rows[p].status \in {"prepared", "sending", "pending", "paid"} => rows[p].hash \in Hashes
    /\ rows[p].hash # Nobody => claims[rows[p].hash] = p

\* The status a row ends with is true, and remains so: a failed row has no invoice,
\* or one that someone else paid, or whose payment failed.
FinalIsTrue(p) ==
    /\ rows[p].status = "paid" =>
          /\ payments[rows[p].hash].owner = p
          /\ payments[rows[p].hash].status = "success"
    /\ rows[p].status = "failed" /\ rows[p].hash # Nobody =>
          /\ payments[rows[p].hash].owner # Nobody
          /\ payments[rows[p].hash].owner = p => payments[rows[p].hash].status = "failed"

\* The history counts the payments of a row.
SendsCounted(p) == sends[p] = IF \E h \in Hashes : payments[h].owner = p THEN 1 ELSE 0

\* What a loop knows without the claim: the row's invoice, and that the point of
\* no return stays behind.
LoopShape(w) ==
    /\ loops[w].pc # "idle" => loops[w].row \in Rows
    /\ loops[w].pc \in {"send", "pay", "record", "reconcile"} =>
          loops[w].hash \in Hashes /\ rows[loops[w].row].hash = loops[w].hash
    /\ loops[w].pc \in {"pay", "record"} => rows[loops[w].row].status \in Started

\* What it knows under the claim: the status is the one it read or wrote last.
StatusWhenHeld(pc) ==
    CASE pc = "fetch"           -> {"queued"}
      [] pc = "send"            -> {"prepared"}
      [] pc \in {"pay", "record"} -> {"sending"}
      [] pc = "reconcile"       -> {"sending", "pending"}
      [] OTHER                  -> Statuses
HeldStatus(w) == Holds(w) => rows[loops[w].row].status \in StatusWhenHeld(loops[w].pc)

\* The outcome a loop is about to record is true, and remains so.
OutcomeIsTrue(w) ==
    loops[w].pc = "record" =>
        /\ loops[w].outcome \in {"pending", "paid", "failed"}
        /\ loops[w].outcome = "paid" =>
              /\ payments[loops[w].hash].owner = loops[w].row
              /\ payments[loops[w].hash].status = "success"
        /\ loops[w].outcome = "failed" =>
              payments[loops[w].hash].owner \notin {Nobody, loops[w].row}

\* A loop about to pay is the first to pay for its row.
PaysFirst(w) == loops[w].pc = "pay" => payments[loops[w].hash].owner # loops[w].row

OnePayer ==
    \A u, w \in Workers :
        loops[u].pc = "pay" /\ loops[w].pc = "pay" /\ loops[u].row = loops[w].row => u = w

NoGhosts == \A h \in Hashes : payments[h].owner = Nobody => payments[h].status = "none"

RowInv(p)  == RowShape(p) /\ FinalIsTrue(p) /\ SendsCounted(p)
LoopInv(w) == LoopShape(w) /\ HeldStatus(w) /\ OutcomeIsTrue(w) /\ PaysFirst(w)

OutboxInv ==
    /\ OutboxTypeOK
    /\ \A p \in Rows : RowInv(p)
    /\ \A w \in Workers : LoopInv(w)
    /\ OnePayer
    /\ NoGhosts
    /\ SentIsRemembered

----------------------------------------------------------------------------
(* What one step may do to the data of a loop that does not take it.        *)

\* An invoice stays with its row, and nothing comes back from beyond the point of
\* no return.
RowsAdvance ==
    \A p \in Rows :
        /\ rows[p].hash # Nobody => rows'[p].hash = rows[p].hash
        /\ rows[p].status \in Started => rows'[p].status \in Started

\* A payment keeps its owner, and its status once it is final.
PaymentsAdvance ==
    \A h \in Hashes : payments[h].owner # Nobody =>
        /\ payments'[h].owner = payments[h].owner
        /\ payments[h].status \in {"success", "failed"} => payments'[h].status = payments[h].status

\* The row of a loop that holds it is left alone.
KeepsHeld(u) ==
    Holds(u)' => Holds(u) /\ rows'[loops[u].row].status = rows[loops[u].row].status

LEMMA OtherLoop ==
    ASSUME NEW u \in Workers, LoopInv(u), loops'[u] = loops[u],
           RowsAdvance, PaymentsAdvance, KeepsHeld(u), PaysFirst(u)'
    PROVE  LoopInv(u)'
  <1>1. LoopShape(u)'
    BY OutboxAssumption DEF LoopInv, LoopShape, RowsAdvance
  <1>2. HeldStatus(u)'
    BY DEF LoopInv, HeldStatus, KeepsHeld
  <1>3. OutcomeIsTrue(u)'
    BY OutboxAssumption DEF LoopInv, LoopShape, OutcomeIsTrue, PaymentsAdvance
  <1> QED
    BY <1>1, <1>2, <1>3 DEF LoopInv

\* A loop that gives up its row, or is about to, depends on nothing.
LEMMA RestingLoop ==
    ASSUME NEW u \in Workers, loops'[u] = IdleLoop \/ (loops'[u].pc = "release" /\ loops'[u].row \in Rows),
           OutboxTypeOK'
    PROVE  LoopInv(u)'
  <1>1. loops'[u].pc \in {"idle", "release"} /\ (loops'[u].pc # "idle" => loops'[u].row \in Rows)
    BY DEF IdleLoop
  <1>2. HeldStatus(u)'
    BY <1>1 DEF HeldStatus, StatusWhenHeld, Holds, OutboxTypeOK, Row
  <1> QED
    BY <1>1, <1>2 DEF LoopInv, LoopShape, OutcomeIsTrue, PaysFirst

----------------------------------------------------------------------------
(* The network.                                                             *)

LEMMA InvOutboxInit == OutboxInit => OutboxInv
  <1> SUFFICES ASSUME OutboxInit PROVE OutboxInv
    OBVIOUS
  <1> USE OutboxAssumption DEF OutboxInit, IdleLoop, Unpaid
  <1>1. OutboxTypeOK
    BY DEF OutboxTypeOK, Statuses, Working, Row, Loop, Payment
  <1>2. ASSUME NEW p \in Rows PROVE RowInv(p)
    BY DEF RowInv, RowShape, FinalIsTrue, SendsCounted
  <1>3. ASSUME NEW w \in Workers PROVE LoopInv(w)
    BY DEF LoopInv, LoopShape, HeldStatus, OutcomeIsTrue, PaysFirst, Holds
  <1>4. OnePayer /\ NoGhosts /\ SentIsRemembered
    BY DEF OnePayer, NoGhosts, SentIsRemembered
  <1> QED
    BY <1>1, <1>2, <1>3, <1>4 DEF OutboxInv

LEMMA InvPaymentSettles ==
    ASSUME OutboxInv, NEW h \in Hashes, PaymentSettles(h)
    PROVE  OutboxInv'
  <1> USE DEF OutboxInv
  <1>2. /\ payments[h].status = "pending"
        /\ UNCHANGED <<rows, claims, loops, sends>>
    BY DEF PaymentSettles
  <1>3. payments' \in [Hashes -> Payment]
    BY DEF OutboxTypeOK, Payment, PaymentSettles
  <1>4. \A g \in Hashes :
           /\ payments'[g].owner = payments[g].owner
           /\ payments[g].status # "pending" => payments'[g].status = payments[g].status
           /\ g # h => payments'[g].status = payments[g].status
    BY <1>2 DEF OutboxTypeOK, Payment, PaymentSettles
  <1>5. OutboxTypeOK' /\ OnePayer' /\ NoGhosts' /\ SentIsRemembered'
    BY <1>2, <1>3, <1>4 DEF OutboxTypeOK, OnePayer, NoGhosts, SentIsRemembered
  <1>6. ASSUME NEW p \in Rows PROVE RowInv(p)'
    <2>1. RowShape(p)' /\ FinalIsTrue(p)'
      BY <1>2, <1>4 DEF RowInv, RowShape, FinalIsTrue, OutboxTypeOK, Row
    <2>2. SendsCounted(p)'
      BY <1>2, <1>4 DEF RowInv, SendsCounted
    <2> QED
      BY <2>1, <2>2 DEF RowInv
  <1>7. ASSUME NEW u \in Workers PROVE LoopInv(u)'
    <2>1. PaymentsAdvance /\ RowsAdvance /\ KeepsHeld(u)
      BY <1>2, <1>4 DEF PaymentsAdvance, RowsAdvance, KeepsHeld, Holds
    <2>2. PaysFirst(u)'
      BY <1>2, <1>4 DEF PaysFirst, LoopInv, LoopShape
    <2> QED
      BY <1>2, <2>1, <2>2, OtherLoop
  <1> QED
    BY <1>5, <1>6, <1>7

LEMMA InvForeignPayment ==
    ASSUME OutboxInv, NEW h \in Hashes, ForeignPayment(h)
    PROVE  OutboxInv'
  <1> USE OutboxAssumption DEF OutboxInv
  <1>1. /\ payments' = [payments EXCEPT ![h] = [owner |-> Foreign, status |-> "success"]]
        /\ payments[h].owner = Nobody
        /\ UNCHANGED <<rows, claims, loops, sends>>
    BY DEF ForeignPayment, Unpaid
  <1>2. payments' \in [Hashes -> Payment]
    BY <1>1 DEF OutboxTypeOK, Payment
  <1>3. /\ payments'[h].owner = Foreign
        /\ \A g \in Hashes \ {h} : payments'[g] = payments[g]
    BY <1>1 DEF OutboxTypeOK
  <1>4. OutboxTypeOK' /\ OnePayer' /\ NoGhosts' /\ SentIsRemembered'
    BY <1>1, <1>2, <1>3 DEF OutboxTypeOK, OnePayer, NoGhosts, SentIsRemembered
  <1>5. ASSUME NEW p \in Rows PROVE RowInv(p)'
    <2>1. RowShape(p)' /\ FinalIsTrue(p)'
      BY <1>1, <1>3 DEF RowInv, RowShape, FinalIsTrue, OutboxTypeOK, Row
    <2>2. SendsCounted(p)'
      BY <1>1, <1>3 DEF RowInv, SendsCounted
    <2> QED
      BY <2>1, <2>2 DEF RowInv
  <1>6. ASSUME NEW u \in Workers PROVE LoopInv(u)'
    <2>1. PaymentsAdvance /\ RowsAdvance /\ KeepsHeld(u)
      BY <1>1, <1>3 DEF PaymentsAdvance, RowsAdvance, KeepsHeld, Holds
    <2>2. PaysFirst(u)'
      BY <1>1, <1>3 DEF PaysFirst, LoopInv, LoopShape
    <2> QED
      BY <1>1, <2>1, <2>2, OtherLoop
  <1> QED
    BY <1>4, <1>5, <1>6

----------------------------------------------------------------------------
(* The steps that change nothing a loop relies on.                          *)

\* The fields of the rows that the invariant reads.
SameRows ==
    \A p \in Rows : /\ rows'[p].status = rows[p].status
                    /\ rows'[p].hash = rows[p].hash
                    /\ rows'[p].attempts = rows[p].attempts
                    /\ rows'[p].claim = rows[p].claim

\* A loop goes on as it is, or rests.
GoesOnOrRests(u) ==
    \/ loops'[u] = loops[u]
    \/ loops'[u] = IdleLoop
    \/ loops'[u].pc = "release" /\ loops'[u].row \in Rows

LEMMA InvSameRows ==
    ASSUME OutboxInv, OutboxTypeOK', SameRows, UNCHANGED <<claims, payments, sends>>,
           \A u \in Workers : GoesOnOrRests(u)
    PROVE  OutboxInv'
  <1> USE OutboxAssumption DEF OutboxInv, SameRows
  <1>1. ASSUME NEW p \in Rows PROVE RowInv(p)'
    BY DEF RowInv, RowShape, FinalIsTrue, SendsCounted
  <1>2. RowsAdvance /\ PaymentsAdvance
    BY DEF RowsAdvance, PaymentsAdvance
  <1>3. ASSUME NEW u \in Workers PROVE LoopInv(u)'
    <2>1. CASE loops'[u] = loops[u]
      <3>1. KeepsHeld(u)
        BY <2>1 DEF KeepsHeld, Holds
      <3>2. PaysFirst(u)'
        BY <2>1 DEF PaysFirst, LoopInv
      <3> QED
        BY <1>2, <2>1, <3>1, <3>2, OtherLoop
    <2>2. CASE loops'[u] # loops[u]
      BY <2>2, RestingLoop DEF GoesOnOrRests
    <2> QED
      BY <2>1, <2>2
  <1>4. OnePayer'
    <2>1. \A u \in Workers : loops'[u].pc = "pay" => loops'[u] = loops[u]
      BY DEF GoesOnOrRests, IdleLoop
    <2> QED
      BY <2>1 DEF OnePayer
  <1>5. NoGhosts' /\ SentIsRemembered'
    BY DEF NoGhosts, SentIsRemembered, OutboxTypeOK, Payment
  <1> QED
    BY <1>1, <1>3, <1>4, <1>5

LEMMA InvClock ==
    ASSUME OutboxInv, NEW p \in Rows, BecomesDue(p) \/ LeaseRunsOut(p)
    PROVE  OutboxInv'
  <1> USE DEF OutboxInv, OutboxTypeOK
  <1>1. rows' \in [Rows -> Row] /\ SameRows
    <2>1. CASE BecomesDue(p)
      BY <2>1 DEF BecomesDue, Row, SameRows
    <2>2. CASE LeaseRunsOut(p)
      BY <2>2 DEF LeaseRunsOut, Row, SameRows
    <2> QED
      BY <2>1, <2>2
  <1>2. UNCHANGED <<claims, payments, loops, sends>>
    BY DEF BecomesDue, LeaseRunsOut
  <1> QED
    BY <1>1, <1>2, InvSameRows DEF GoesOnOrRests

LEMMA InvGivesUp ==
    ASSUME OutboxInv, NEW w \in Workers, LeaseLost(w) \/ WorkEnds(w) \/ LoopDies(w)
    PROVE  OutboxInv'
  <1> USE DEF OutboxInv, OutboxTypeOK
  <1>1. UNCHANGED <<rows, claims, payments, sends>>
    BY DEF LeaseLost, WorkEnds, LoopDies
  <1>2. \/ loops' = [loops EXCEPT ![w] = IdleLoop]
        \/ loops' = [loops EXCEPT ![w].pc = "release"] /\ loops[w].row \in Rows
    BY DEF LeaseLost, WorkEnds, LoopDies, LoopInv, LoopShape
  <1>3. IdleLoop \in Loop
    BY DEF IdleLoop, Loop
  <1>4. loops' \in [Workers -> Loop] /\ \A u \in Workers : GoesOnOrRests(u)
    <2>1. CASE loops' = [loops EXCEPT ![w] = IdleLoop]
      BY <1>3, <2>1 DEF GoesOnOrRests
    <2>2. CASE loops' = [loops EXCEPT ![w].pc = "release"] /\ loops[w].row \in Rows
      <3>1. [loops[w] EXCEPT !.pc = "release"] \in Loop
        BY DEF Loop
      <3> QED
        BY <2>2, <3>1 DEF GoesOnOrRests, Loop
    <2> QED
      BY <1>2, <2>1, <2>2
  <1>5. OutboxTypeOK' /\ SameRows
    BY <1>1, <1>4 DEF SameRows
  <1> QED
    BY <1>1, <1>4, <1>5, InvSameRows

LEMMA InvRelease ==
    ASSUME OutboxInv, NEW w \in Workers, Release(w)
    PROVE  OutboxInv'
  <1> USE DEF OutboxInv, OutboxTypeOK
  <1>1. UNCHANGED <<claims, payments, sends>> /\ loops' = [loops EXCEPT ![w] = IdleLoop]
    BY DEF Release
  <1>2. PICK q \in Rows, flag \in BOOLEAN :
           rows' = [rows EXCEPT ![q] = [rows[q] EXCEPT !.leased = FALSE, !.due = flag]]
    BY DEF Release, Holds, Row
  <1>3. [rows[q] EXCEPT !.leased = FALSE, !.due = flag] \in Row
    BY DEF Row
  <1>4. rows' \in [Rows -> Row] /\ SameRows
    BY <1>2, <1>3 DEF SameRows, Row
  <1>5. loops' \in [Workers -> Loop] /\ \A u \in Workers : GoesOnOrRests(u)
    BY <1>1 DEF GoesOnOrRests, IdleLoop, Loop
  <1> QED
    BY <1>1, <1>4, <1>5, InvSameRows

----------------------------------------------------------------------------
(* The steps of a loop.                                                     *)

\* A step changes only a row that its loop holds afterwards.
TouchesOwn(w) == \A p \in Rows : rows'[p] = rows[p] \/ rows'[p].claim = w

LEMMA OthersUndisturbed ==
    ASSUME OutboxInv, NEW w \in Workers, RowsAdvance, PaymentsAdvance, TouchesOwn(w),
           \A u \in Workers \ {w} : loops'[u] = loops[u] /\ PaysFirst(u)'
    PROVE  \A u \in Workers \ {w} : LoopInv(u)'
  <1> SUFFICES ASSUME NEW u \in Workers \ {w} PROVE LoopInv(u)'
    OBVIOUS
  <1>1. KeepsHeld(u)
    BY DEF KeepsHeld, Holds, TouchesOwn
  <1> QED
    BY <1>1, OtherLoop DEF OutboxInv

\* A step that makes no payment leaves the promise of the other payers alone.
LEMMA SamePayments ==
    ASSUME OutboxInv, NEW w \in Workers, payments' = payments,
           \A u \in Workers \ {w} : loops'[u] = loops[u]
    PROVE  /\ PaymentsAdvance
           /\ NoGhosts'
           /\ \A u \in Workers \ {w} : loops'[u] = loops[u] /\ PaysFirst(u)'
           /\ loops'[w].pc # "pay" => OnePayer'
  BY DEF OutboxInv, PaymentsAdvance, NoGhosts, LoopInv, PaysFirst, OnePayer

LEMMA InvClaimPayout ==
    ASSUME OutboxInv, NEW w \in Workers, NEW p \in Rows, ClaimPayout(w, p)
    PROVE  OutboxInv'
  <1> USE OutboxAssumption DEF OutboxInv
  <1> DEFINE row == [rows[p] EXCEPT !.leased = TRUE, !.claim = w]
             new == [pc |-> FirstStep(rows[p].status), row |-> p,
                     hash |-> rows[p].hash, outcome |-> "none"]
  <1>1. rows' = [rows EXCEPT ![p] = row]
    BY DEF ClaimPayout, OutboxTypeOK
  <1>2. loops' = [loops EXCEPT ![w] = new]
    BY DEF ClaimPayout
  <1>3. rows[p].status \in Working /\ UNCHANGED <<claims, payments, sends>>
    BY DEF ClaimPayout, Leasable
  <1>4. /\ FirstStep(rows[p].status) \in {"fetch", "send", "reconcile"}
        /\ FirstStep(rows[p].status) = "fetch" => rows[p].status = "queued"
        /\ FirstStep(rows[p].status) = "send" => rows[p].status = "prepared"
        /\ FirstStep(rows[p].status) = "reconcile" => rows[p].status \in {"sending", "pending"}
    BY <1>3 DEF FirstStep, Working
  <1>5. row \in Row
    BY DEF OutboxTypeOK, Row
  <1>6. new \in Loop
    BY <1>4 DEF OutboxTypeOK, Row, Loop
  <1>7. OutboxTypeOK'
    BY <1>1, <1>2, <1>3, <1>5, <1>6 DEF OutboxTypeOK
  <1>8. /\ \A q \in Rows : /\ rows'[q].status = rows[q].status
                           /\ rows'[q].hash = rows[q].hash
                           /\ rows'[q].attempts = rows[q].attempts
        /\ rows'[p].claim = w
        /\ \A q \in Rows \ {p} : rows'[q] = rows[q]
    BY <1>1 DEF OutboxTypeOK, Row
  <1>9. /\ loops'[w].pc = FirstStep(rows[p].status)
        /\ loops'[w].row = p
        /\ loops'[w].hash = rows[p].hash
        /\ \A u \in Workers \ {w} : loops'[u] = loops[u]
    BY <1>2 DEF OutboxTypeOK
  <1> HIDE DEF row, new
  <1>10. ASSUME NEW q \in Rows PROVE RowInv(q)'
    <2>1. RowShape(q)' /\ FinalIsTrue(q)'
      BY <1>3, <1>8 DEF RowInv, RowShape, FinalIsTrue
    <2>2. SendsCounted(q)'
      BY <1>3 DEF RowInv, SendsCounted
    <2> QED
      BY <2>1, <2>2 DEF RowInv
  <1>11. RowsAdvance /\ TouchesOwn(w)
    BY <1>8 DEF RowsAdvance, TouchesOwn
  <1>12. LoopInv(w)'
    <2>1. RowShape(p) /\ rows[p].hash \in Hashes \cup {Nobody}
      BY DEF RowInv, OutboxTypeOK, Row
    <2>2. LoopShape(w)'
      BY <1>4, <1>8, <1>9, <2>1 DEF LoopShape, RowShape
    <2>3. HeldStatus(w)'
      BY <1>4, <1>8, <1>9 DEF HeldStatus, StatusWhenHeld
    <2> QED
      BY <1>4, <1>9, <2>2, <2>3 DEF LoopInv, OutcomeIsTrue, PaysFirst
  <1>13. SentIsRemembered'
    BY <1>3, <1>8 DEF SentIsRemembered
  <1> QED
    BY <1>3, <1>4, <1>7, <1>9, <1>10, <1>11, <1>12, <1>13, SamePayments, OthersUndisturbed

\* What remains to be shown of a step that updates the row its loop holds.
LEMMA InvUpdate ==
    ASSUME OutboxInv, NEW w \in Workers, NEW p \in Rows, NEW row \in Row, NEW loop \in Loop,
           p = loops[w].row,
           rows' = [rows EXCEPT ![p] = row], row.claim = w,
           rows[p].hash # Nobody => row.hash = rows[p].hash,
           rows[p].status \in Started => row.status \in Started,
           loops' = [loops EXCEPT ![w] = loop],
           UNCHANGED <<payments, sends>>,
           claims' \in [Hashes -> Rows \cup {Nobody}],
           \A q \in Rows \ {p} : rows[q].hash # Nobody => claims'[rows[q].hash] = q,
           RowShape(p)', FinalIsTrue(p)', LoopInv(w)', OnePayer'
    PROVE  OutboxInv'
  <1> USE OutboxAssumption DEF OutboxInv
  <1>1. OutboxTypeOK'
    BY DEF OutboxTypeOK
  <1>2. /\ rows'[p] = row
        /\ \A q \in Rows \ {p} : rows'[q] = rows[q]
        /\ \A u \in Workers \ {w} : loops'[u] = loops[u]
    BY DEF OutboxTypeOK
  <1>3. ASSUME NEW q \in Rows PROVE RowInv(q)'
    <2>1. SendsCounted(q)'
      BY DEF RowInv, SendsCounted
    <2>2. CASE q = p
      BY <2>1, <2>2 DEF RowInv
    <2>3. CASE q # p
      <3>1. RowShape(q)' /\ FinalIsTrue(q)'
        BY <1>2, <2>3 DEF RowInv, RowShape, FinalIsTrue
      <3> QED
        BY <2>1, <3>1 DEF RowInv
    <2> QED
      BY <2>2, <2>3
  <1>4. RowsAdvance /\ TouchesOwn(w)
    BY <1>2 DEF RowsAdvance, TouchesOwn
  <1>5. SentIsRemembered'
    BY <1>2 DEF SentIsRemembered, Started, OutboxTypeOK, Payment
  <1> QED
    BY <1>1, <1>2, <1>3, <1>4, <1>5, SamePayments, OthersUndisturbed

LEMMA InvPreparationFails ==
    ASSUME OutboxInv, NEW w \in Workers, PreparationFails(w)
    PROVE  OutboxInv'
  <1> USE OutboxAssumption DEF OutboxInv
  <1> DEFINE p == loops[w].row
             n == rows[p].attempts + 1
             row == [rows[p] EXCEPT !.status = IF GivesUp(n) THEN "failed" ELSE "queued",
                                    !.attempts = n, !.due = FALSE]
             loop == [loops[w] EXCEPT !.pc = "release"]
  <1>1. p \in Rows /\ rows[p].claim = w /\ loops[w].pc = "fetch"
    BY DEF PreparationFails, Holds
  <1>2. rows[p].status = "queued" /\ rows[p].hash = Nobody /\ rows[p].attempts < MaxAttempts
    BY <1>1 DEF LoopInv, HeldStatus, StatusWhenHeld, Holds, RowInv, RowShape
  <1>3. rows[p] \in Row /\ loops[w] \in Loop
    BY <1>1 DEF OutboxTypeOK
  <1>4. row \in Row /\ loop \in Loop
    <2>1. n \in 0 .. MaxAttempts
      BY <1>2, <1>3 DEF Row
    <2> HIDE DEF n
    <2> QED
      BY <1>3, <2>1 DEF Row, Loop, Statuses, Working
  <1>5. /\ rows' = [rows EXCEPT ![p] = row]
        /\ loops' = [loops EXCEPT ![w] = loop]
        /\ UNCHANGED <<claims, payments, sends>>
    BY DEF PreparationFails
  <1>6. /\ rows'[p] = row
        /\ loops'[w] = loop
        /\ \A u \in Workers \ {w} : loops'[u] = loops[u]
    BY <1>1, <1>5 DEF OutboxTypeOK
  <1>7. /\ row.claim = w /\ row.hash = Nobody
        /\ row.status \in {"queued", "failed"}
        /\ row.status = "queued" => row.attempts < MaxAttempts
        /\ loop.pc = "release" /\ loop.row = p
    BY <1>1, <1>2, <1>3 DEF Row, Loop, GivesUp
  <1> HIDE DEF row, loop
  <1>8. RowShape(p)' /\ FinalIsTrue(p)'
    BY <1>6, <1>7 DEF RowShape, FinalIsTrue
  <1>9. OutboxTypeOK'
    BY <1>4, <1>5 DEF OutboxTypeOK
  <1>10. LoopInv(w)'
    BY <1>1, <1>6, <1>7, <1>9, RestingLoop
  <1>11. OnePayer'
    BY <1>5, <1>6, <1>7, SamePayments
  <1>12. \A q \in Rows \ {p} : rows[q].hash # Nobody => claims'[rows[q].hash] = q
    BY <1>5 DEF RowInv, RowShape
  <1>13. rows[p].status \notin Started
    BY <1>2 DEF Started
  <1> QED
    BY <1>1, <1>2, <1>4, <1>5, <1>7, <1>8, <1>9, <1>10, <1>11, <1>12, <1>13, InvUpdate
       DEF OutboxTypeOK

LEMMA InvPrepare ==
    ASSUME OutboxInv, NEW w \in Workers, NEW h \in Hashes, Prepare(w, h)
    PROVE  OutboxInv'
  <1> USE OutboxAssumption DEF OutboxInv
  <1> DEFINE p == loops[w].row
             row == [rows[p] EXCEPT !.status = "prepared", !.hash = h]
             loop == [loops[w] EXCEPT !.pc = "send", !.hash = h]
  <1>1. p \in Rows /\ rows[p].claim = w /\ loops[w].pc = "fetch"
    BY DEF Prepare, Holds
  <1>2. rows[p].status = "queued" /\ rows[p].hash = Nobody
    BY <1>1 DEF LoopInv, HeldStatus, StatusWhenHeld, Holds, RowInv, RowShape
  <1>3. rows[p] \in Row /\ loops[w] \in Loop
    BY <1>1 DEF OutboxTypeOK
  <1>4. row \in Row /\ loop \in Loop
    BY <1>3 DEF Row, Loop, Statuses, Working
  <1>5. /\ rows' = [rows EXCEPT ![p] = row]
        /\ loops' = [loops EXCEPT ![w] = loop]
        /\ UNCHANGED <<payments, sends>>
    BY DEF Prepare
  <1>6. claims' = [claims EXCEPT ![h] = p] /\ claims[h] \in {Nobody, p}
    BY DEF Prepare, MayUse
  <1>7. /\ rows'[p] = row
        /\ loops'[w] = loop
        /\ claims'[h] = p
        /\ \A g \in Hashes \ {h} : claims'[g] = claims[g]
    BY <1>1, <1>5, <1>6 DEF OutboxTypeOK
  <1>8. /\ row.claim = w /\ row.hash = h /\ row.status = "prepared"
        /\ loop.pc = "send" /\ loop.row = p /\ loop.hash = h
    BY <1>1, <1>3 DEF Row, Loop
  <1> HIDE DEF row, loop
  <1>9. RowShape(p)' /\ FinalIsTrue(p)'
    BY <1>7, <1>8 DEF RowShape, FinalIsTrue
  <1>10. LoopInv(w)'
    BY <1>1, <1>7, <1>8
    DEF LoopInv, LoopShape, HeldStatus, StatusWhenHeld, OutcomeIsTrue, PaysFirst
  <1>11. OnePayer'
    <2>1. \A u \in Workers \ {w} : loops'[u] = loops[u]
      BY <1>5 DEF OutboxTypeOK
    <2> QED
      BY <1>5, <1>7, <1>8, <2>1, SamePayments
  <1>12. \A q \in Rows \ {p} : rows[q].hash # Nobody => claims'[rows[q].hash] = q
    BY <1>1, <1>6, <1>7 DEF RowInv, RowShape, OutboxTypeOK, Row
  <1>13. rows[p].status \notin Started
    BY <1>2 DEF Started
  <1>14. claims' \in [Hashes -> Rows \cup {Nobody}]
    BY <1>1, <1>6 DEF OutboxTypeOK
  <1> QED
    BY <1>1, <1>2, <1>4, <1>5, <1>8, <1>9, <1>10, <1>11, <1>12, <1>13, <1>14, InvUpdate
       DEF OutboxTypeOK

LEMMA InvBeginSending ==
    ASSUME OutboxInv, NEW w \in Workers, BeginSending(w)
    PROVE  OutboxInv'
  <1> USE OutboxAssumption DEF OutboxInv
  <1> DEFINE p == loops[w].row
             row == [rows[p] EXCEPT !.status = "sending"]
             loop == [loops[w] EXCEPT !.pc = "pay"]
  <1>1. p \in Rows /\ rows[p].claim = w /\ loops[w].pc = "send"
    BY DEF BeginSending, UpdatePayout, Holds
  <1>2. /\ rows[p].status = "prepared"
        /\ rows[p].hash \in Hashes
        /\ loops[w].hash = rows[p].hash
        /\ claims[rows[p].hash] = p
    BY <1>1 DEF LoopInv, LoopShape, HeldStatus, StatusWhenHeld, Holds, RowInv, RowShape
  <1>3. rows[p] \in Row /\ loops[w] \in Loop
    BY <1>1 DEF OutboxTypeOK
  <1>4. row \in Row /\ loop \in Loop
    BY <1>3 DEF Row, Loop, Statuses, Working
  <1>5. /\ rows' = [rows EXCEPT ![p] = row]
        /\ loops' = [loops EXCEPT ![w] = loop]
        /\ UNCHANGED <<claims, payments, sends>>
    <2>1. rows' = [rows EXCEPT ![p].status = "sending", ![p].due = rows[p].due]
      BY DEF BeginSending, UpdatePayout
    <2>2. row = [rows[p] EXCEPT !.status = "sending", !.due = rows[p].due]
      BY <1>3 DEF Row
    <2> QED
      BY <2>1, <2>2 DEF BeginSending
  <1>6. /\ rows'[p] = row
        /\ loops'[w] = loop
        /\ \A u \in Workers \ {w} : loops'[u] = loops[u]
    BY <1>1, <1>5 DEF OutboxTypeOK
  <1>7. /\ row.claim = w /\ row.hash = rows[p].hash /\ row.status = "sending"
        /\ loop.pc = "pay" /\ loop.row = p /\ loop.hash = rows[p].hash
    BY <1>1, <1>2, <1>3 DEF Row, Loop
  <1> HIDE DEF row, loop
  <1>8. RowShape(p)' /\ FinalIsTrue(p)'
    BY <1>2, <1>5, <1>6, <1>7 DEF RowShape, FinalIsTrue
  <1>9. PaysFirst(w)'
    BY <1>1, <1>2, <1>5, <1>6, <1>7 DEF PaysFirst, SentIsRemembered
  <1>10. LoopInv(w)'
    BY <1>1, <1>2, <1>6, <1>7, <1>9
    DEF LoopInv, LoopShape, HeldStatus, StatusWhenHeld, OutcomeIsTrue, Started
  <1>11. OnePayer'
    <2>1. \A u \in Workers : loops[u].pc = "pay" => loops[u].row # p
      BY <1>2 DEF LoopInv, LoopShape, Started
    <2> QED
      BY <1>6, <1>7, <2>1 DEF OnePayer
  <1>12. \A q \in Rows \ {p} : rows[q].hash # Nobody => claims'[rows[q].hash] = q
    BY <1>5 DEF RowInv, RowShape
  <1>13. rows[p].status \notin Started
    BY <1>2 DEF Started
  <1> QED
    BY <1>1, <1>2, <1>4, <1>5, <1>7, <1>8, <1>10, <1>11, <1>12, <1>13, InvUpdate
       DEF OutboxTypeOK

\* A loop writes down the end, or the uncertainty, of a payment.
LEMMA InvConclude ==
    ASSUME OutboxInv, NEW w \in Workers, loops[w].pc \in {"record", "reconcile"},
           NEW final \in {"pending", "paid", "failed"},
           UpdatePayout(w, final, FALSE),
           loops' = [loops EXCEPT ![w].pc = "release"],
           UNCHANGED <<claims, payments, sends>>,
           final = "paid" => /\ payments[loops[w].hash].owner = loops[w].row
                             /\ payments[loops[w].hash].status = "success",
           final = "failed" => /\ payments[loops[w].hash].owner # Nobody
                               /\ payments[loops[w].hash].owner = loops[w].row
                                     => payments[loops[w].hash].status = "failed"
    PROVE  OutboxInv'
  <1> USE OutboxAssumption DEF OutboxInv
  <1> DEFINE p == loops[w].row
             row == [rows[p] EXCEPT !.status = final, !.due = FALSE]
             loop == [loops[w] EXCEPT !.pc = "release"]
  <1>1. p \in Rows /\ rows[p].claim = w
    BY DEF UpdatePayout, Holds
  <1>2. /\ rows[p].status \in {"sending", "pending"}
        /\ rows[p].hash \in Hashes
        /\ loops[w].hash = rows[p].hash
        /\ claims[rows[p].hash] = p
    BY <1>1 DEF LoopInv, LoopShape, HeldStatus, StatusWhenHeld, Holds, RowInv, RowShape
  <1>3. rows[p] \in Row /\ loops[w] \in Loop
    BY <1>1 DEF OutboxTypeOK
  <1>4. row \in Row /\ loop \in Loop
    BY <1>3 DEF Row, Loop, Statuses, Working
  <1>5. /\ rows' = [rows EXCEPT ![p] = row]
        /\ loops' = [loops EXCEPT ![w] = loop]
        /\ UNCHANGED <<claims, payments, sends>>
    BY DEF UpdatePayout
  <1>6. /\ rows'[p] = row
        /\ loops'[w] = loop
        /\ \A u \in Workers \ {w} : loops'[u] = loops[u]
    BY <1>1, <1>5 DEF OutboxTypeOK
  <1>7. /\ row.claim = w /\ row.hash = rows[p].hash /\ row.status = final
        /\ loop.pc = "release" /\ loop.row = p
    BY <1>1, <1>3 DEF Row, Loop
  <1> HIDE DEF row, loop
  <1>8. RowShape(p)' /\ FinalIsTrue(p)'
    BY <1>2, <1>6, <1>7 DEF RowShape, FinalIsTrue
  <1>9. OutboxTypeOK'
    BY <1>1, <1>4, <1>5 DEF OutboxTypeOK
  <1>10. LoopInv(w)'
    BY <1>1, <1>6, <1>7, <1>9, RestingLoop
  <1>11. OnePayer'
    BY <1>6, <1>7, SamePayments
  <1>12. \A q \in Rows \ {p} : rows[q].hash # Nobody => claims'[rows[q].hash] = q
    BY DEF RowInv, RowShape
  <1>13. /\ rows[p].hash # Nobody => row.hash = rows[p].hash
         /\ rows[p].status \in Started => row.status \in Started
    BY <1>7 DEF Started
  <1> QED
    BY ONLY OutboxInv, w \in Workers, <1>1, <1>4, <1>5, <1>7, <1>8, <1>10, <1>11, <1>12, <1>13,
            InvUpdate
       DEF OutboxInv, OutboxTypeOK

LEMMA InvRecordOutcome ==
    ASSUME OutboxInv, NEW w \in Workers, RecordOutcome(w)
    PROVE  OutboxInv'
  <1>1. OutcomeIsTrue(w) /\ loops[w].pc = "record"
    BY DEF OutboxInv, LoopInv, RecordOutcome
  <1> QED
    BY <1>1, InvConclude DEF OutcomeIsTrue, RecordOutcome

\* A payment is final for a row when it is its own and settled, or another's.
LEMMA VerdictMeans ==
    ASSUME NEW p \in Rows, NEW payment
    PROVE  /\ Verdict(p, payment) \in {"pending", "paid", "failed"}
           /\ Verdict(p, payment) = "paid" => payment.owner = p /\ payment.status = "success"
           /\ Verdict(p, payment) = "failed" => /\ payment.owner # Nobody
                                                /\ payment.owner = p => payment.status = "failed"
  BY OutboxAssumption DEF Verdict

LEMMA InvReconcilePayout ==
    ASSUME OutboxInv, NEW w \in Workers, ReconcilePayout(w)
    PROVE  OutboxInv'
  <1> USE OutboxAssumption
  <1> DEFINE payment == payments[loops[w].hash]
  <1>1. PICK final \in {Verdict(loops[w].row, payment)}
                           \cup (IF payment.owner = Foreign THEN {"pending"} ELSE {}) :
           UpdatePayout(w, final, FALSE)
    BY DEF ReconcilePayout
  <1>2. /\ loops[w].pc = "reconcile"
        /\ loops' = [loops EXCEPT ![w].pc = "release"]
        /\ UNCHANGED <<claims, payments, sends>>
    BY DEF ReconcilePayout
  <1>3. loops[w].row \in Rows
    BY <1>1 DEF UpdatePayout, Holds
  <1>4. /\ final \in {"pending", "paid", "failed"}
        /\ final = "paid" => payment.owner = loops[w].row /\ payment.status = "success"
        /\ final = "failed" => /\ payment.owner # Nobody
                               /\ payment.owner = loops[w].row => payment.status = "failed"
    BY <1>1, <1>3, VerdictMeans
  <1> QED
    BY <1>1, <1>2, <1>4, InvConclude

LEMMA InvPayInvoiceRefused ==
    ASSUME OutboxInv, NEW w \in Workers, PayInvoiceRefused(w)
    PROVE  OutboxInv'
  <1> USE OutboxAssumption DEF OutboxInv
  <1> DEFINE h == loops[w].hash
  <1>1. PICK final \in {"pending"} \cup (IF payments[h] = Unpaid THEN {} ELSE {"failed"}) :
           loops' = [loops EXCEPT ![w].pc = "record", ![w].outcome = final]
    BY DEF PayInvoiceRefused
  <1> DEFINE loop == [loops[w] EXCEPT !.pc = "record", !.outcome = final]
  <1>2. loops[w].pc = "pay" /\ UNCHANGED <<rows, claims, payments, sends>>
    BY DEF PayInvoiceRefused
  <1>3. loops[w].row \in Rows /\ h \in Hashes /\ loops[w] \in Loop
    BY <1>2 DEF LoopInv, LoopShape, OutboxTypeOK
  <1>4. final = "failed" => payments[h].owner \notin {Nobody, loops[w].row}
    <2>1. payments[h].owner = Nobody => payments[h] = Unpaid
      BY <1>3 DEF NoGhosts, OutboxTypeOK, Payment, Unpaid
    <2> QED
      BY <1>1, <1>2, <2>1 DEF LoopInv, PaysFirst
  <1>5. loop \in Loop /\ final \in {"pending", "failed"}
    BY <1>1, <1>3 DEF Loop, Statuses, Working
  <1>6. loops' = [loops EXCEPT ![w] = loop]
    BY <1>1
  <1>7. /\ loops'[w] = loop
        /\ \A u \in Workers \ {w} : loops'[u] = loops[u]
    BY <1>6 DEF OutboxTypeOK
  <1>8. /\ loop.pc = "record" /\ loop.outcome = final
        /\ loop.row = loops[w].row /\ loop.hash = h
    BY <1>3 DEF Loop
  <1> HIDE DEF loop
  <1>9. OutboxTypeOK'
    BY <1>2, <1>5, <1>6 DEF OutboxTypeOK
  <1>10. ASSUME NEW q \in Rows PROVE RowInv(q)'
    BY <1>2 DEF RowInv, RowShape, FinalIsTrue, SendsCounted
  <1>11. RowsAdvance /\ TouchesOwn(w) /\ SentIsRemembered'
    BY <1>2 DEF RowsAdvance, TouchesOwn, SentIsRemembered
  <1>12. LoopInv(w)'
    <2>1. LoopShape(w)'
      BY <1>2, <1>3, <1>7, <1>8 DEF LoopInv, LoopShape
    <2>2. HeldStatus(w)'
      BY <1>2, <1>3, <1>7, <1>8 DEF LoopInv, HeldStatus, StatusWhenHeld, Holds
    <2>3. OutcomeIsTrue(w)' /\ PaysFirst(w)'
      BY <1>2, <1>4, <1>5, <1>7, <1>8 DEF OutcomeIsTrue, PaysFirst
    <2> QED
      BY <2>1, <2>2, <2>3 DEF LoopInv
  <1> QED
    BY <1>2, <1>7, <1>8, <1>9, <1>10, <1>11, <1>12, SamePayments, OthersUndisturbed

LEMMA InvPayInvoice ==
    ASSUME OutboxInv, NEW w \in Workers, PayInvoice(w)
    PROVE  OutboxInv'
  <1> USE OutboxAssumption DEF OutboxInv
  <1> DEFINE h == loops[w].hash
             p == loops[w].row
  <1>1. /\ loops[w].pc = "pay"
        /\ payments[h] = Unpaid
        /\ sends' = [sends EXCEPT ![p] = @ + 1]
        /\ UNCHANGED <<rows, claims>>
    BY DEF PayInvoice
  <1>2. PICK result \in {"pending", "success", "failed"}, final \in {"pending", "paid"} :
           /\ payments' = [payments EXCEPT ![h] = [owner |-> p, status |-> result]]
           /\ final = "paid" => result = "success"
           /\ loops' = [loops EXCEPT ![w].pc = "record", ![w].outcome = final]
    BY DEF PayInvoice
  <1> DEFINE loop == [loops[w] EXCEPT !.pc = "record", !.outcome = final]
  <1>3. /\ p \in Rows /\ h \in Hashes /\ loops[w] \in Loop
        /\ rows[p].hash = h /\ claims[h] = p
        /\ rows[p].status \in Started
    BY <1>1 DEF LoopInv, LoopShape, OutboxTypeOK, RowInv, RowShape
  <1>4. loop \in Loop
    BY <1>3 DEF Loop, Statuses, Working
  <1>5. loops' = [loops EXCEPT ![w] = loop]
    BY <1>2
  <1>6. /\ loops'[w] = loop
        /\ \A u \in Workers \ {w} : loops'[u] = loops[u]
    BY <1>5 DEF OutboxTypeOK
  <1>7. /\ loop.pc = "record" /\ loop.outcome = final
        /\ loop.row = p /\ loop.hash = h
    BY <1>3 DEF Loop
  <1>8. /\ payments' \in [Hashes -> Payment]
        /\ payments'[h].owner = p /\ payments'[h].status = result
        /\ \A g \in Hashes \ {h} : payments'[g] = payments[g]
    BY <1>2, <1>3 DEF OutboxTypeOK, Payment
  <1>9. payments[h].owner = Nobody
    BY <1>1 DEF Unpaid
  <1> HIDE DEF loop
  <1>10. sends' \in [Rows -> Nat]
    BY <1>1, <1>3 DEF OutboxTypeOK
  <1>11. OutboxTypeOK'
    BY <1>1, <1>4, <1>5, <1>8, <1>10 DEF OutboxTypeOK
  <1>12. \A g \in Hashes : payments[g].owner # p
    BY <1>3, <1>9 DEF SentIsRemembered
  <1>13. ASSUME NEW q \in Rows PROVE RowInv(q)'
    <2>1. RowShape(q)'
      BY <1>1 DEF RowInv, RowShape
    <2>2. FinalIsTrue(q)'
      <3>1. rows[q].hash = h => q = p
        BY <1>3 DEF RowInv, RowShape
      <3>2. rows[p].status \notin {"paid", "failed"}
        BY <1>3, <1>9 DEF RowInv, FinalIsTrue
      <3>3. rows[q].hash \in Hashes \cup {Nobody}
        BY DEF OutboxTypeOK, Row
      <3> QED
        BY <1>1, <1>8, <3>1, <3>2, <3>3 DEF RowInv, RowShape, FinalIsTrue
    <2>3. SendsCounted(q)'
      <3>1. CASE q = p
        <4>1. sends[p] = 0
          BY <1>3, <1>12 DEF RowInv, SendsCounted
        <4>2. sends'[p] = 1
          BY <1>1, <1>3, <4>1 DEF OutboxTypeOK
        <4> QED
          BY <1>3, <1>8, <3>1, <4>2 DEF SendsCounted
      <3>2. CASE q # p
        <4>1. sends'[q] = sends[q]
          BY <1>1, <3>2 DEF OutboxTypeOK
        <4>2. (\E g \in Hashes : payments'[g].owner = q) <=> (\E g \in Hashes : payments[g].owner = q)
          BY <1>8, <1>9, <3>2
        <4> QED
          BY <4>1, <4>2 DEF RowInv, SendsCounted
      <3> QED
        BY <3>1, <3>2
    <2> QED
      BY <2>1, <2>2, <2>3 DEF RowInv
  <1>14. RowsAdvance /\ TouchesOwn(w)
    BY <1>1 DEF RowsAdvance, TouchesOwn
  <1>15. PaymentsAdvance
    BY <1>8, <1>9 DEF PaymentsAdvance
  <1>16. ASSUME NEW u \in Workers \ {w} PROVE PaysFirst(u)'
    <2>1. loops[u].pc = "pay" => loops[u].row # p
      BY <1>1 DEF OnePayer
    <2>2. loops[u].pc = "pay" =>
             /\ loops[u].hash \in Hashes
             /\ claims[loops[u].hash] = loops[u].row
             /\ payments[loops[u].hash].owner # loops[u].row
      BY DEF LoopInv, LoopShape, PaysFirst, RowInv, RowShape
    <2> QED
      BY <1>3, <1>6, <1>8, <2>1, <2>2 DEF PaysFirst
  <1>17. LoopInv(w)'
    <2>1. LoopShape(w)'
      BY <1>1, <1>3, <1>6, <1>7 DEF LoopShape
    <2>2. HeldStatus(w)'
      BY <1>1, <1>3, <1>6, <1>7 DEF LoopInv, HeldStatus, StatusWhenHeld, Holds
    <2>3. OutcomeIsTrue(w)' /\ PaysFirst(w)'
      BY <1>2, <1>6, <1>7, <1>8 DEF OutcomeIsTrue, PaysFirst
    <2> QED
      BY <2>1, <2>2, <2>3 DEF LoopInv
  <1>18. OnePayer'
    BY <1>6, <1>7 DEF OnePayer
  <1>19. NoGhosts' /\ SentIsRemembered'
    BY <1>1, <1>3, <1>8 DEF NoGhosts, SentIsRemembered, Started
  <1> QED
    BY <1>6, <1>11, <1>13, <1>14, <1>15, <1>16, <1>17, <1>18, <1>19, OthersUndisturbed

LEMMA InvOutboxNext == OutboxInv /\ [OutboxNext]_outboxVars => OutboxInv'
  <1> SUFFICES ASSUME OutboxInv, [OutboxNext]_outboxVars PROVE OutboxInv'
    OBVIOUS
  <1>1. ASSUME NEW w \in Workers, LoopStep(w) PROVE OutboxInv'
    BY <1>1, InvPrepare, InvPreparationFails, InvBeginSending, InvPayInvoice,
       InvPayInvoiceRefused, InvRecordOutcome, InvReconcilePayout, InvGivesUp, InvRelease
    DEF LoopStep
  <1>2. ASSUME NEW w \in Workers, WorkEnds(w) \/ LoopDies(w) PROVE OutboxInv'
    BY <1>2, InvGivesUp
  <1>3. ASSUME NEW w \in Workers, NEW p \in Rows, ClaimPayout(w, p) PROVE OutboxInv'
    BY <1>3, InvClaimPayout
  <1>4. ASSUME NEW p \in Rows, BecomesDue(p) \/ LeaseRunsOut(p) PROVE OutboxInv'
    BY <1>4, InvClock
  <1>5. ASSUME NEW h \in Hashes, PaymentSettles(h) \/ ForeignPayment(h) PROVE OutboxInv'
    BY <1>5, InvPaymentSettles, InvForeignPayment
  <1>6. CASE UNCHANGED outboxVars
    <2>1. UNCHANGED <<rows, claims, payments, loops, sends>>
      BY <1>6 DEF outboxVars
    <2>2. OutboxTypeOK' /\ SameRows
      BY <2>1 DEF OutboxInv, OutboxTypeOK, SameRows
    <2> QED
      BY <2>1, <2>2, InvSameRows DEF GoesOnOrRests
  <1> QED
    BY <1>1, <1>2, <1>3, <1>4, <1>5, <1>6 DEF OutboxNext

----------------------------------------------------------------------------
(* The promises.                                                            *)

\* The inductive invariant holds in every reachable state.
THEOREM OutboxInvariance == OutboxSpec => []OutboxInv
  <1> QED
    BY InvOutboxInit, InvOutboxNext, PTL DEF OutboxSpec

\* The outbox keeps its types, and no row is prepared more often than allowed.
THEOREM OutboxTypeCorrect == OutboxSpec => []OutboxTypeOK
  <1>1. OutboxInv => OutboxTypeOK
    BY DEF OutboxInv
  <1> QED
    BY <1>1, OutboxInvariance, PTL

\* No number of loops, crashes and lost leases sends a row twice (process_payout).
THEOREM NeverSentTwice == OutboxSpec => []SentOnce
  <1>1. ASSUME OutboxInv, NEW p \in Rows PROVE sends[p] <= 1
    <2>1. SendsCounted(p)
      BY <1>1 DEF OutboxInv, RowInv
    <2>2. sends[p] \in {0, 1}
      BY <2>1, Zenon DEF SendsCounted
    <2> QED
      BY <2>2
  <1>2. OutboxInv => SentOnce
    BY <1>1 DEF SentOnce
  <1> QED
    BY <1>2, OutboxInvariance, PTL

\* A payment never loses its row (update_payout).
THEOREM NeverOrphaned == OutboxSpec => []SentIsRemembered
  <1>1. OutboxInv => SentIsRemembered
    BY DEF OutboxInv
  <1> QED
    BY <1>1, OutboxInvariance, PTL

\* No two rows hold one invoice (payout_invoice_claims).
THEOREM InvoicesExclusive == OutboxSpec => []InvoiceUsedOnce
  <1>1. OutboxInv => InvoiceUsedOnce
    BY DEF OutboxInv, RowInv, RowShape, InvoiceUsedOnce
  <1> QED
    BY <1>1, OutboxInvariance, PTL

\* Paid rows are paid and failed rows are not (reconcile_payout).
THEOREM FinalStatusTrue == OutboxSpec => []VerdictIsTrue
  <1>1. ASSUME OutboxInv PROVE VerdictIsTrue
    <2>1. ASSUME NEW p \in Rows PROVE RowShape(p) /\ FinalIsTrue(p)
      BY <1>1 DEF OutboxInv, RowInv
    <2>2. ASSUME NEW p \in Rows, rows[p].status = "paid"
          PROVE  \E h \in {g \in Hashes : payments[g].owner = p} : payments[h].status = "success"
      BY <2>1, <2>2 DEF RowShape, FinalIsTrue
    <2>3. ASSUME NEW p \in Rows, rows[p].status = "failed",
                 NEW h \in {g \in Hashes : payments[g].owner = p}
          PROVE  payments[h].status = "failed"
      <3>1. rows[p].hash = h /\ h # Nobody
        BY <1>1, <2>3, OutboxAssumption DEF OutboxInv, SentIsRemembered
      <3> QED
        BY <2>1, <2>3, <3>1 DEF FinalIsTrue
    <2> QED
      BY <2>2, <2>3, Zenon DEF VerdictIsTrue
  <1>2. OutboxInv => VerdictIsTrue
    BY <1>1
  <1> QED
    BY <1>2, OutboxInvariance, PTL

\* Nothing final is taken back, by whatever loop (update_payout).
THEOREM NothingRevoked == OutboxSpec => Irrevocable
  <1> DEFINE Step == \A p \in Rows :
                /\ rows[p].status \in {"paid", "failed"} => rows'[p].status = rows[p].status
                /\ rows[p].hash # Nobody => rows'[p].hash = rows[p].hash
                /\ rows[p].status # "queued" => rows'[p].status # "queued"
  <1>1. ASSUME OutboxInv, [OutboxNext]_outboxVars PROVE Step
    <2> USE <1>1 DEF OutboxInv, OutboxTypeOK
    <2>1. ASSUME NEW w \in Workers,
                 PreparationFails(w) \/ \E h \in Hashes : Prepare(w, h)
          PROVE  Step
      <3>1. Holds(w) /\ loops[w].pc = "fetch"
        BY <2>1 DEF PreparationFails, Prepare
      <3>2. rows[loops[w].row].status = "queued" /\ rows[loops[w].row].hash = Nobody
        BY <3>1 DEF LoopInv, HeldStatus, StatusWhenHeld, Holds, RowInv, RowShape
      <3>3. \A p \in Rows \ {loops[w].row} : rows'[p] = rows[p]
        BY <2>1 DEF PreparationFails, Prepare
      <3> QED
        BY <3>2, <3>3
    <2>2. ASSUME NEW w \in Workers, NEW final \in {"sending", "pending", "paid", "failed"},
                 NEW due \in BOOLEAN, UpdatePayout(w, final, due),
                 loops[w].pc \in {"send", "record", "reconcile"}
          PROVE  Step
      <3>1. rows[loops[w].row].status \in {"prepared", "sending", "pending"}
        BY <2>2 DEF LoopInv, HeldStatus, StatusWhenHeld, UpdatePayout
      <3>2. /\ \A p \in Rows \ {loops[w].row} : rows'[p] = rows[p]
            /\ loops[w].row \in Rows
            /\ rows'[loops[w].row].status = final
            /\ rows'[loops[w].row].hash = rows[loops[w].row].hash
        BY <2>2 DEF UpdatePayout, Holds, Row
      <3> QED
        BY <3>1, <3>2
    <2>3. ASSUME NEW w \in Workers, BeginSending(w) PROVE Step
      <3>1. loops[w].row \in Rows
        BY <2>3 DEF BeginSending, UpdatePayout, Holds
      <3>2. rows[loops[w].row].due \in BOOLEAN
        BY <3>1 DEF Row
      <3> QED
        BY <2>2, <2>3, <3>2 DEF BeginSending
    <2>4. ASSUME NEW w \in Workers, RecordOutcome(w) PROVE Step
      <3>1. loops[w].pc = "record" /\ loops[w].outcome \in {"pending", "paid", "failed"}
        BY <2>4 DEF RecordOutcome, LoopInv, OutcomeIsTrue
      <3> QED
        BY <2>2, <2>4, <3>1 DEF RecordOutcome
    <2>5. ASSUME NEW w \in Workers, ReconcilePayout(w) PROVE Step
      <3>1. PICK final \in {Verdict(loops[w].row, payments[loops[w].hash])} \cup {"pending"} :
               UpdatePayout(w, final, FALSE)
        BY <2>5 DEF ReconcilePayout
      <3>2. loops[w].row \in Rows /\ loops[w].pc = "reconcile"
        BY <2>5, <3>1 DEF ReconcilePayout, UpdatePayout, Holds
      <3>3. final \in {"pending", "paid", "failed"}
        BY <3>1, <3>2, VerdictMeans
      <3> QED
        BY <2>2, <3>1, <3>2, <3>3
    <2>6. ASSUME SameRows PROVE Step
      BY <2>6 DEF SameRows
    <2>7. ASSUME UNCHANGED rows PROVE Step
      BY <2>7
    <2>8. ASSUME NEW w \in Workers, Release(w) PROVE Step
      <3>1. SameRows
        BY <2>8 DEF Release, Holds, Row, SameRows
      <3> QED
        BY <2>6, <3>1
    <2>9. ASSUME NEW w \in Workers, NEW p \in Rows, ClaimPayout(w, p) PROVE Step
      BY <2>9 DEF ClaimPayout, Row
    <2>10. ASSUME NEW p \in Rows, BecomesDue(p) \/ LeaseRunsOut(p) PROVE Step
      BY <2>10 DEF BecomesDue, LeaseRunsOut, Row
    <2>11. ASSUME NEW w \in Workers,
                  \/ PayInvoice(w) \/ PayInvoiceRefused(w) \/ LeaseLost(w)
                  \/ WorkEnds(w) \/ LoopDies(w)
           PROVE  Step
      BY <2>7, <2>11 DEF PayInvoice, PayInvoiceRefused, LeaseLost, WorkEnds, LoopDies
    <2>12. ASSUME NEW h \in Hashes, PaymentSettles(h) \/ ForeignPayment(h) PROVE Step
      BY <2>7, <2>12 DEF PaymentSettles, ForeignPayment
    <2>13. CASE UNCHANGED outboxVars
      BY <2>7, <2>13 DEF outboxVars
    <2> HIDE DEF Step
    <2> QED
      BY <2>1, <2>3, <2>4, <2>5, <2>8, <2>9, <2>10, <2>11, <2>12, <2>13 DEF OutboxNext, LoopStep
  <1>2. OutboxInv /\ [OutboxNext]_outboxVars => [Step]_outboxVars
    BY <1>1
  <1> QED
    BY <1>2, OutboxInvariance, PTL DEF OutboxSpec, Irrevocable
=============================================================================
