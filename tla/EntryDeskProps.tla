---------------------------- MODULE EntryDeskProps ----------------------------
(* What the sale of entries promises to players. *)
EXTENDS EntryDesk

\* README "Entry creation is idempotent": a retry with the same nonce, in another
\* request or another tab, never makes a second entry.
NonceNamesOneEntry ==
    \A d, e \in Entries :
        (entries[d].player = entries[e].player /\ nonces[d] = nonces[e]
            /\ nonces[d] # NoNonce) => d = e

\* However a request fails and is repeated, the wallet issues one invoice for an
\* entry: a second one could be paid and never be credited.
OneInvoicePerEntry ==
    \A i, j \in DOMAIN wallet : wallet[i].entry = wallet[j].entry => i = j

\* An invoice given to a browser is the one its player's entry waits for, so that
\* what is paid on it is credited to the player who asked.
ShownIsCreditable ==
    \A c \in Requests :
        LET i == requests[c].invoice
        IN  At(c, "answered") /\ i # NoId =>
                /\ i \in DOMAIN wallet
                /\ hashes[wallet[i].entry] = i
                /\ entries[wallet[i].entry].player = requests[c].player

\* Lives are sold for money: a paid entry has a paid invoice of its own.
CreditIsPaid ==
    \A e \in Entries :
        entries[e].status = "paid" =>
            /\ hashes[e] \in DOMAIN wallet
            /\ wallet[hashes[e]] = [entry |-> e, status |-> "paid"]

Received(i) == i \in DOMAIN wallet /\ wallet[i].status = "paid"
CreditedFor(i) == i \in DOMAIN wallet /\ entries[wallet[i].entry].status = "paid"

\* Whatever is lost, crashes or fails, every invoice that was paid is credited, also
\* one the wallet issued behind a failed call, or whose hash could not be written
\* (payments.py:88-89): to the player, or as a refund if the player has left.
PaidIsCredited == \A i \in Invoices : Received(i) ~> CreditedFor(i)
=============================================================================
