---------------------------- MODULE EntryAccount ----------------------------
(***************************************************************************)
(* What an entry promises its buyer, without the tables: once it is paid   *)
(* for, it holds a fixed number of lives, and each of them is spent by one *)
(* death or refunded, never both and never twice.  LifeLedger implements   *)
(* this specification.                                                     *)
(***************************************************************************)
EXTENDS Naturals

CONSTANTS Entries, LivesPerEntry

VARIABLES
    sold,     \* the entry has been paid for
    held,     \* lives the entry still holds
    spent,    \* lives consumed by a death
    refunded  \* lives given back for money

accountVars == <<sold, held, spent, refunded>>

AccountInit ==
    /\ sold = [e \in Entries |-> FALSE]
    /\ held = [e \in Entries |-> 0]
    /\ spent = [e \in Entries |-> 0]
    /\ refunded = [e \in Entries |-> 0]

Buy(e) ==
    /\ ~sold[e]
    /\ sold' = [sold EXCEPT ![e] = TRUE]
    /\ held' = [held EXCEPT ![e] = LivesPerEntry]
    /\ UNCHANGED <<spent, refunded>>

\* A payment for a player who has left is given back as it arrives.
BuyBack(e) ==
    /\ ~sold[e]
    /\ sold' = [sold EXCEPT ![e] = TRUE]
    /\ refunded' = [refunded EXCEPT ![e] = LivesPerEntry]
    /\ UNCHANGED <<held, spent>>

Spend(e) ==
    /\ held[e] > 0
    /\ held' = [held EXCEPT ![e] = @ - 1]
    /\ spent' = [spent EXCEPT ![e] = @ + 1]
    /\ UNCHANGED <<sold, refunded>>

\* A leaving player gets back every life of every entry in S.
Refund(S) ==
    /\ \A e \in S : held[e] > 0
    /\ held' = [e \in Entries |-> IF e \in S THEN 0 ELSE held[e]]
    /\ refunded' = [e \in Entries |-> IF e \in S THEN held[e] ELSE refunded[e]]
    /\ UNCHANGED <<sold, spent>>

AccountNext ==
    \/ \E e \in Entries : Buy(e) \/ BuyBack(e) \/ Spend(e)
    \/ \E S \in SUBSET Entries : Refund(S)

AccountSpec == AccountInit /\ [][AccountNext]_accountVars
=============================================================================
