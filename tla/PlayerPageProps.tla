--------------------------- MODULE PlayerPageProps ---------------------------
(* What the game page promises its player. *)
EXTENDS PlayerPage

Payable(e) == \E i \in DOMAIN wallet : wallet[i] = [entry |-> e, status |-> "open"]

\* However late the answer with the invoice comes: a page that has left, that knows
\* of a closed arena or that plays offers no invoice that would still take money.
OfferIsSound ==
    \A t \in Tabs :
        tabs[t].shown # NoEntry /\ Payable(tabs[t].shown) =>
            ~tabs[t].left /\ ~tabs[t].closed /\ tabs[t].player.status # "alive"

\* "Retire only the specific request confirmed paid or expired by the server"
\* (public.js:280): whatever order the answers come in, a page that forgets a
\* nonce can no longer lose a reservation or an invoice by it.
RetiresOnlySettled ==
    [][\A t \in Tabs :
         (/\ tabs[t].nonce # NoNonce
          /\ tabs'[t].nonce = NoNonce
          /\ tabs'[t].phase # "opening")
            => \A e \in EntriesOf(tabs[t].session) :
                  nonces[e] = tabs[t].nonce => ~Live(e)]_allVars

\* A page that has left stays so until its player joins again: no late state, read
\* or answer brings the game, the form or an invoice back.
LeftIsFinal ==
    [][\A t \in Tabs :
         (tabs[t].left /\ tabs'[t].phase # "opening")
            => /\ tabs'[t].left
               /\ ~tabs'[t].form /\ ~tabs'[t].resume /\ tabs'[t].shown = NoEntry
               /\ tabs'[t].seat = NoId
               /\ t \notin admits' \ admits]_allVars

\* The page hears what the server would say now.
Informed(t) == StateArrives(t) /\ Head(inbox[t]).state = StateOf(tabs[t].session)

\* A player who is not in the match, or about to be, sees the page: it is over the
\* game that "Pay again when all five are used" stands (public.html:65), and the
\* invoice and every button.
PageIsSeen ==
    [][\A t \in Tabs :
         Informed(t) => \/ tabs'[t].overlay
                        \/ tabs'[t].player.status = "alive"
                        \/ tabs'[t].admitting \/ tabs'[t].joining]_allVars

\* What is paid is played: a page open in a session that holds lives keeps getting
\* a seat in the match, showing its player the button to take one, or asking the
\* server for one, however often it is refused, its connection drops or a read is
\* lost and whichever message comes first.  A page that could not read its first
\* state or got no engine says so, and only a reload helps (public.js:453).
HasLives(t) == ~tabs[t].leaving /\ arena.active /\ Balance(tabs[t].session) > 0
InMatch(t) == tabs[t].seat # NoId /\ lives[tabs[t].seat].status = "alive"
PaidIsPlayed ==
    \A t \in Tabs :
        HasLives(t) ~> \/ InMatch(t) \/ t \in admits
                       \/ MayJoin(tabs[t]) /\ CanRespawn(tabs[t])
                       \/ tabs[t].dialog
                       \/ tabs[t].phase \in {"unavailable", "parked"}
                       \/ ~HasLives(t)

\* An invoice that has been paid, or can no longer be, goes from the page.  (While
\* the server refuses a seat the page asks again and leaves its paid invoice where
\* it is: public.js:243-246 hides nothing.)
DeadInvoiceGoes ==
    \A t \in Tabs, e \in Entries :
        tabs[t].shown = e /\ ~Live(e) ~> tabs[t].shown # e \/ t \in admits

\* The bounds of the model: no further entry, or no further nonce.
UsedUp == Nonces \subseteq drawn \/ \A e \in Entries : entries[e].status # "none"

\* "Pay again when all five are used" (templates/quakejs/public.html:65): a player
\* without lives who keeps asking is shown an invoice, whatever became of the
\* earlier ones.
BuyerIsServed ==
    \A t \in Tabs :
        MayJoin(tabs[t]) /\ ~CanRespawn(tabs[t])
            ~> \/ tabs[t].shown # NoEntry
               \/ tabs[t].seat # NoId
               \/ Balance(tabs[t].session) > 0
               \/ UsedUp

\* "Pay again when all five are used" (templates/quakejs/public.html:65): a page
\* that is told of no lives left does not go on asking for an entry the server has
\* done with, which is refused for ever (payments.py:100-101).
CanPayAgain ==
    [][\A t \in Tabs :
         (/\ Informed(t)
          /\ tabs'[t].player.status = "dead" /\ tabs'[t].player.lives = 0)
            => \A e \in EntriesOf(tabs[t].session) :
                  nonces[e] = tabs'[t].nonce => entries[e].status = "paid" \/ Live(e)]_allVars
=============================================================================
