------------------------------ MODULE EntryDesk ------------------------------
(***************************************************************************)
(* How an entry is sold: create_entry, the listener of paid invoices and   *)
(* reconcile_entries (payments.py, __init__.py) between the ledger and the *)
(* wallet of LNbits.                                                       *)
(*                                                                         *)
(* A request for an invoice is a coroutine that holds no lock while it     *)
(* waits for the wallet or the database: one action runs from one await to *)
(* the next.  The wallet is external: it may issue an invoice and fail all *)
(* the same, a paid invoice is announced once or never, and an invoice may *)
(* be paid as long as the wallet has it open, whatever the ledger thinks.  *)
(*                                                                         *)
(* Every step that touches a table is an action of LifeLedger.  One run is *)
(* under way, so that lives can be played and used up.                     *)
(***************************************************************************)
EXTENDS LifeLedger, Sequences

CONSTANTS
    Requests,     \* the HTTP requests served at the same time
    Nonces,       \* the nonces browsers choose
    NoNonce,      \* no nonce
    MaxInvoices,  \* bound: invoices the wallet ever issues
    BatchSize,    \* rows reconcile_entries reads at once (100)
    Rank,         \* Rank[e]: the place of entry e by its random id
    DeskFaults,   \* what may go wrong besides crashes of the worker
    MaxCrashes    \* bound: crashes of the worker

ASSUME DeskAssumption ==
    /\ NoNonce \notin Nonces
    /\ MaxInvoices \in Nat
    /\ BatchSize \in Nat \ {0}
    /\ Rank \in [Entries -> Entries]
    /\ \A d, e \in Entries : Rank[d] = Rank[e] => d = e
    /\ DeskFaults \subseteq {"wallet fails", "database fails", "event lost", "closure"}
    /\ MaxCrashes \in Nat
    /\ 1 \in RunIds  \* the run under way

Invoices == 1 .. MaxInvoices
NoEntry  == 0

VARIABLES
    nonces,    \* entries.nonce
    hashes,    \* entries.payment_hash: an invoice of the wallet, or NoId
    wallet,    \* the incoming payments of the wallet, in creation order
    requests,  \* what each request is doing, and its answer
    events,    \* paid invoices whose notification is on its way
    recovery,  \* reconcile_entries: the batch it read and where it is in it
    crashes    \* crashes of the worker so far

deskVars == <<nonces, hashes, wallet, requests, events, recovery, crashes>>

Steps == {"idle", "reserve", "create", "record", "read", "arena", "player", "answered"}

Request == [pc: Steps,
            player: Players \cup {NoPlayer},
            nonce: Nonces \cup {NoNonce},      \* until the row is there
            entry: Entries \cup {NoEntry},     \* the row, once there is one
            invoice: Invoices \cup {NoId}]     \* its invoice, once it is known
NoRequest == [pc |-> "idle", player |-> NoPlayer, nonce |-> NoNonce,
              entry |-> NoEntry, invoice |-> NoId]

\* A row of a batch keeps the hash it had when the batch was read.
Recovery == [cursor: Nat,
             rows: SUBSET [id: Entries, hash: Invoices \cup {NoId}],
             settling: Invoices \cup {NoId}]
NoRecovery == [cursor |-> 0, rows |-> {}, settling |-> NoId]

DeskTypeOK ==
    /\ TypeOK
    /\ nonces \in [Entries -> Nonces \cup {NoNonce}]
    /\ hashes \in [Entries -> Invoices \cup {NoId}]
    /\ wallet \in Seq([entry: Entries, status: {"open", "paid", "lapsed"}])
    /\ Len(wallet) <= MaxInvoices
    /\ requests \in [Requests -> Request]
    /\ events \subseteq DOMAIN wallet
    /\ recovery \in Recovery
    /\ crashes \in 0 .. MaxCrashes

\* One run is under way and nobody has bought an entry yet.
DeskInit ==
    /\ participants = [p \in Players |-> "absent"]
    /\ entries = [e \in Entries |-> [player |-> NoPlayer, status |-> "none",
                                     remaining |-> 0, payable |-> FALSE]]
    /\ lives = [l \in LifeIds |-> [player |-> NoPlayer, entry |-> 0, run |-> 0,
                                   status |-> "none", slot |-> 0]]
    /\ runs = [r \in RunIds |-> [status |-> IF r = 1 THEN "running" ELSE "none",
                                 sequence |-> 0]]
    /\ arena = [active |-> TRUE, admin_closed |-> FALSE, run_id |-> 1,
                leased |-> TRUE, idle |-> "null"]
    /\ payouts = [l \in LifeIds |-> NoId]
    /\ refunds = [e \in Entries |-> 0]
    /\ nonces = [e \in Entries |-> NoNonce]
    /\ hashes = [e \in Entries |-> NoId]
    /\ wallet = <<>>
    /\ requests = [c \in Requests |-> NoRequest]
    /\ events = {}
    /\ recovery = NoRecovery
    /\ crashes = 0

----------------------------------------------------------------------------
(* A request for an invoice: create_entry.                                  *)

Step(c, row)  == requests' = [requests EXCEPT ![c] = row]
At(c, pc)     == requests[c].pc = pc
Advance(c, pc) == Step(c, [requests[c] EXCEPT !.pc = pc])

\* Every error is answered alike: no invoice.
Refuse(c) == Step(c, [NoRequest EXCEPT !.pc = "answered", !.player = requests[c].player])

\* Mutant of SameNonce: the nonce of a request is not looked up.
AnyNonce(p, n) == {e \in EntriesOf(p) : Live(e)}

SameNonce(p, n) == {e \in EntriesOf(p) : nonces[e] = n}

\* The row a request is given again: the one it named, else the live one of a
\* player without lives.
Existing(p, n) ==
    IF SameNonce(p, n) # {} THEN SameNonce(p, n)
    ELSE IF \E e \in EntriesOf(p) : entries[e].remaining > 0 THEN {}
    ELSE {e \in EntriesOf(p) : Live(e)}

Accepts(p) == arena.active /\ participants[p] \in {"absent", "playing"}

Ask(c, p, n) ==
    /\ At(c, "idle")
    /\ Step(c, [NoRequest EXCEPT !.pc = "reserve", !.player = p, !.nonce = n])
    /\ UNCHANGED <<vars, nonces, hashes, wallet, events, recovery, crashes>>

ReserveNew(c) ==
    LET p == requests[c].player
        n == requests[c].nonce
    IN  /\ At(c, "reserve")
        /\ Existing(p, n) = {}
        /\ SameNonce(p, n) = {}
        /\ \E e \in Entries :
              /\ ReserveEntry(p, e)
              /\ nonces' = [nonces EXCEPT ![e] = n]
              /\ Step(c, [requests[c] EXCEPT !.pc = "create", !.nonce = NoNonce, !.entry = e])
        /\ UNCHANGED <<hashes, wallet, events, recovery, crashes>>

\* What the row itself rules out: an expired invoice, one not yet prepared.
Shown(c, e) ==
    IF (entries[e].status = "paid" \/ Live(e)) /\ hashes[e] # NoId
    THEN Step(c, [requests[c] EXCEPT !.pc = "arena", !.nonce = NoNonce,
                                     !.entry = e, !.invoice = hashes[e]])
    ELSE Refuse(c)

\* Mutant of ReserveExisting: a row reserved before gets a second invoice.
ReissueExisting(c) ==
    /\ At(c, "reserve")
    /\ Accepts(requests[c].player)
    /\ \E e \in Existing(requests[c].player, requests[c].nonce) :
          Step(c, [requests[c] EXCEPT !.pc = "create", !.entry = e])
    /\ UNCHANGED <<vars, nonces, hashes, wallet, events, recovery, crashes>>

ReserveExisting(c) ==
    /\ At(c, "reserve")
    /\ Accepts(requests[c].player)
    /\ \E e \in Existing(requests[c].player, requests[c].nonce) : Shown(c, e)
    /\ UNCHANGED <<vars, nonces, hashes, wallet, events, recovery, crashes>>

\* The arena is closed or full, the player has left or has lives to play.
ReserveRefused(c) ==
    LET p == requests[c].player
        n == requests[c].nonce
    IN  /\ At(c, "reserve")
        /\ ~Accepts(p) \/ (Existing(p, n) = {} /\ ~MayReserve(p))
        /\ Refuse(c)
        /\ UNCHANGED <<vars, nonces, hashes, wallet, events, recovery, crashes>>

Issued(e) == Append(wallet, [entry |-> e, status |-> "open"])

WalletIssues(c) ==
    /\ At(c, "create")
    /\ Len(wallet) < MaxInvoices
    /\ wallet' = Issued(requests[c].entry)
    /\ Step(c, [requests[c] EXCEPT !.pc = "record", !.invoice = Len(wallet) + 1])
    /\ UNCHANGED <<vars, nonces, hashes, events, recovery, crashes>>

\* The call fails or takes longer than ENTRY_INVOICE_TIMEOUT; the wallet may
\* have issued the invoice all the same.
WalletFails(c) ==
    /\ At(c, "create")
    /\ "wallet fails" \in DeskFaults
    /\ \/ UNCHANGED wallet
       \/ /\ Len(wallet) < MaxInvoices
          /\ wallet' = Issued(requests[c].entry)
    /\ Refuse(c)
    /\ UNCHANGED <<vars, nonces, hashes, events, recovery, crashes>>

\* record_invoice: only a row that has no invoice yet takes one.
Record(e, i) ==
    IF entries[e].status = "creating" /\ hashes[e] = NoId
    THEN /\ RecordInvoice(e)
         /\ hashes' = [hashes EXCEPT ![e] = i]
    ELSE UNCHANGED <<vars, hashes>>

\* A payment that was only just issued is not settled: settle_entry returns.
RecordIssued(c) ==
    /\ At(c, "record")
    /\ Record(requests[c].entry, requests[c].invoice)
    /\ Advance(c, "read")
    /\ UNCHANGED <<nonces, wallet, events, recovery, crashes>>

RecordFails(c) ==
    /\ At(c, "record")
    /\ "database fails" \in DeskFaults
    /\ Refuse(c)
    /\ UNCHANGED <<vars, nonces, hashes, wallet, events, recovery, crashes>>

ReadRow(c) ==
    /\ At(c, "read")
    /\ Shown(c, requests[c].entry)
    /\ UNCHANGED <<vars, nonces, hashes, wallet, events, recovery, crashes>>

\* An owner may have closed the game during the call to the wallet.
CheckArena(c) ==
    /\ At(c, "arena")
    /\ IF arena.active THEN Advance(c, "player") ELSE Refuse(c)
    /\ UNCHANGED <<vars, nonces, hashes, wallet, events, recovery, crashes>>

CheckPlayer(c) ==
    /\ At(c, "player")
    /\ IF participants[requests[c].player] = "playing"
       THEN Advance(c, "answered") ELSE Refuse(c)
    /\ UNCHANGED <<vars, nonces, hashes, wallet, events, recovery, crashes>>

\* The answer is on its way to the browser; the request is over.
Answered(c) ==
    /\ At(c, "answered")
    /\ Step(c, NoRequest)
    /\ UNCHANGED <<vars, nonces, hashes, wallet, events, recovery, crashes>>

----------------------------------------------------------------------------
(* Payments: the wallet, the listener and the reconciliation.               *)

\* Somebody pays an invoice the wallet has open.
Pay(i) ==
    /\ i \in DOMAIN wallet
    /\ wallet[i].status = "open"
    /\ wallet' = [wallet EXCEPT ![i].status = "paid"]
    /\ events' = events \cup {i}
    /\ UNCHANGED <<vars, nonces, hashes, requests, recovery, crashes>>

\* The invoice was issued after the row was reserved, for as long as the row.
Lapse(i) ==
    /\ i \in DOMAIN wallet
    /\ wallet[i].status = "open"
    /\ ~Live(wallet[i].entry)
    /\ wallet' = [wallet EXCEPT ![i].status = "lapsed"]
    /\ UNCHANGED <<vars, nonces, hashes, requests, events, recovery, crashes>>

\* settle_entry rejects a payment of another invoice than the row's.
Matches(i) == hashes[wallet[i].entry] \in {NoId, i}

Settled(i) ==
    LET e == wallet[i].entry
    IN  IF Matches(i) /\ Open(e)
        THEN /\ \/ SettleEntry(e)
                \/ SettleWhileLeaving(e)
                \/ SettleAfterLeave(e)
             /\ hashes' = [hashes EXCEPT ![e] = i]
        ELSE UNCHANGED <<vars, hashes>>

Notified(i) ==
    /\ i \in events
    /\ events' = events \ {i}
    /\ Settled(i)
    /\ UNCHANGED <<nonces, wallet, requests, recovery, crashes>>

\* The listener catches every error and leaves the entry to the reconciliation.
LoseEvent(i) ==
    /\ i \in events
    /\ "event lost" \in DeskFaults
    /\ events' = events \ {i}
    /\ UNCHANGED <<vars, nonces, hashes, wallet, requests, recovery, crashes>>

\* Mutant of Unsettled: only rows whose invoice was recorded are looked at.
Unrecorded == {e \in Entries : entries[e].status = "pending"}

Unsettled == {e \in Entries : Open(e)}

\* The next rows by id after the cursor; after the last batch it starts over.
ReadBatch ==
    LET after == {e \in Unsettled : Rank[e] > recovery.cursor}
        batch == {e \in after :
                     Cardinality({d \in after : Rank[d] <= Rank[e]}) <= BatchSize}
        last  == {Rank[e] : e \in batch}
    IN  /\ recovery.rows = {} /\ recovery.settling = NoId
        /\ recovery' = [recovery EXCEPT
              !.rows   = {[id |-> e, hash |-> hashes[e]] : e \in batch},
              !.cursor = IF batch = {} THEN 0
                         ELSE CHOOSE n \in last : \A m \in last : m <= n]
        /\ UNCHANGED <<vars, nonces, hashes, wallet, requests, events, crashes>>

\* Mutant of Found: a row without a hash takes any payment.
FoundInWallet(row) == {i \in DOMAIN wallet : row.hash \in {NoId, i}}

\* The payment of a row: by its hash, else by the id the wallet was given.
Found(row) ==
    {i \in DOMAIN wallet : IF row.hash # NoId THEN i = row.hash
                                              ELSE wallet[i].entry = row.id}

\* Mutant of Success: the payment is not asked whether it succeeded.
AnyStatus(i) == TRUE

Success(i) == wallet[i].status = "paid"

NextRowOf(row) ==
    /\ recovery.settling = NoId
    /\ row \in recovery.rows
    /\ \A other \in recovery.rows : Rank[row.id] <= Rank[other.id]

\* The payment is read once: its status may be old when it is settled.
LookUp(row) ==
    /\ NextRowOf(row)
    /\ \/ /\ Found(row) = {}
          /\ recovery' = [recovery EXCEPT !.rows = @ \ {row}]
          /\ UNCHANGED <<vars, hashes>>
       \/ \E i \in Found(row) :
          /\ IF row.hash = NoId THEN Record(row.id, i) ELSE UNCHANGED <<vars, hashes>>
          /\ recovery' = [recovery EXCEPT
                             !.rows = @ \ {row},
                             !.settling = IF Success(i) THEN i ELSE NoId]
    /\ UNCHANGED <<nonces, wallet, requests, events, crashes>>

SettleFound ==
    /\ recovery.settling # NoId
    /\ Settled(recovery.settling)
    /\ recovery' = [recovery EXCEPT !.settling = NoId]
    /\ UNCHANGED <<nonces, wallet, requests, events, crashes>>

\* An error of the wallet or the database defers the row to the next round.
Deferred ==
    /\ "database fails" \in DeskFaults
    /\ \/ \E row \in recovery.rows :
             /\ NextRowOf(row)
             /\ recovery' = [recovery EXCEPT !.rows = @ \ {row}]
       \/ /\ recovery.settling # NoId
          /\ recovery' = [recovery EXCEPT !.settling = NoId]
    /\ UNCHANGED <<vars, nonces, hashes, wallet, requests, events, crashes>>

\* The worker dies and is started again: what was in memory is gone.
DeskCrashes ==
    /\ crashes < MaxCrashes
    /\ crashes' = crashes + 1
    /\ requests' = [c \in Requests |-> NoRequest]
    /\ events' = {}
    /\ recovery' = NoRecovery
    /\ UNCHANGED <<vars, nonces, hashes, wallet>>

----------------------------------------------------------------------------
(* The rest of the ledger, seen from the desk: time, play and leaving.      *)

Elsewhere ==
    /\ \/ \E e \in Entries : InvoiceExpires(e)
       \/ \E p \in Players, l \in LifeIds, s \in Slots :
             ResumeLife(p, 1, l, s) \/ NewLife(p, 1, l, s)
       \/ \E v \in LifeIds : ConsumeDeath(1, v, NoId)
       \/ \E p \in Players : RequestLeave(p) \/ FinishLeave(p, 1)
       \/ "closure" \in DeskFaults /\ CloseGame
    /\ UNCHANGED deskVars

Serve(c) ==
    \/ ReserveNew(c)
    \/ ReserveExisting(c)
    \/ ReserveRefused(c)
    \/ WalletIssues(c)
    \/ WalletFails(c)
    \/ RecordIssued(c)
    \/ RecordFails(c)
    \/ ReadRow(c)
    \/ CheckArena(c)
    \/ CheckPlayer(c)

Payments ==
    \/ \E i \in Invoices : Pay(i) \/ Lapse(i) \/ Notified(i) \/ LoseEvent(i)
    \/ ReadBatch
    \/ \E row \in recovery.rows : LookUp(row)
    \/ SettleFound
    \/ Deferred
    \/ DeskCrashes

DeskNext ==
    \/ \E c \in Requests, p \in Players, n \in Nonces : Ask(c, p, n)
    \/ \E c \in Requests : Serve(c) \/ Answered(c)
    \/ Payments
    \/ Elsewhere

DeskSpec == DeskInit /\ [][DeskNext]_<<vars, deskVars>>

(***************************************************************************)
(* The reconciliation is a task that runs for ever and sleeps in between;  *)
(* the database fails sometimes, not always for the same row.  Nothing is  *)
(* assumed of the listener, of the browsers or of the wallet.              *)
(***************************************************************************)
LookUpOf(e) == \E row \in recovery.rows : row.id = e /\ LookUp(row)
SettleOf(e) == /\ recovery.settling # NoId
               /\ wallet[recovery.settling].entry = e
               /\ SettleFound

FairDeskSpec ==
    /\ DeskSpec
    /\ WF_<<vars, deskVars>>(ReadBatch)
    /\ \A e \in Entries : SF_<<vars, deskVars>>(LookUpOf(e)) /\ SF_<<vars, deskVars>>(SettleOf(e))
=============================================================================
