# QuakeJS for LNbits: the protocol in TLA+

QuakeJS sells lives of a Quake III deathmatch for sats. A player pays an entry,
gets a few lives, and every frag pays the killer (and the arena's creator) over
Lightning; a player who leaves gets the unused lives back as money. The game is
played by a native engine in its own process, the money is kept in the database
of an LNbits extension, and a Python server stands between them.

What can go wrong is therefore not one algorithm but the agreement of three
records of one fact: *this life is over*. The engine knows it first (memory),
writes it to a journal (file), the server applies the journal to the ledger
(database), and the payout worker turns it into money that cannot be called
back. Between any two of these a process can die, a message can be lost or
late, a player can leave, reload or open a second tab, and a lease can run out.
These modules model that agreement.

Paths below are relative to the repository (`src/`).

## 1. Inventory

| Component | Source | State | Operations |
|---|---|---|---|
| paid-life ledger | `crud.py`, `leaving.py`, `models.py` | tables `participants`, `entries`, `lives`, `runs`, `arenas`, `payouts`, `refund_payouts` | reserve_entry, record_invoice, settle_entry, allocate_life, consume_death, request_leave, finish_leave, lease_arena, start_run, recover_run, stop_run, close_game, release lives |
| engine referee | `engine/native.c` | admissions and consumed flags per slot, the run journal | admit, revoke, forfeit packets; a character dies; exit |
| match and manager | `server.py` | matches by arena (socket, replay offset, peers), `match.lock`, `manager.lock`, `worker.lock` | replay, attach, detach, stop, ensure, recover, renew, finish_leave, leave loop |
| player connections | `views.py` | one record per websocket: life, slot, match | connect, admit message, disconnect |
| payout outbox | `payments.py` | status, invoice, claim and lease of the payout rows; `payout_invoice_claims` | claim_payout, process_payout, reconcile_payout, release |
| entry invoices | `payments.py`, `__init__.py`, `crud.py` | `entries.status`, nonce, invoice; requests and batches in memory | create_entry, paid listener, reconcile_entries |
| game page | `static/public.js`, `static/client.js`, `static/arena/transport.js` | the variable `arena` of the page, what it shows, its websocket, `localStorage` | apply a state, join, respawn, leave, join again, reconnect, reload |
| lobby, arena expiry | `lobby.py`, `static/lobby.js` | `arenas.active`, `expires`, idle timestamps; the request a page has not settled | create, list, expire_game |
| settings and administration | `crud.py`, `views.py` | `settings`, arena row | owner updates |
| start and stop | `__init__.py` | background tasks | start, cancel |
| schema migrations | `migrations.py` | schema | m001 to m008 |
| other pages | `static/admin.js`, `static/index.vue`, `static/arena/touch.js`, `static/arena/loader.js` | fields of one page | owner's forms, touch controls, loading the engine |
| share cards, QR | `share.py`, `static/qr.js` | none | rendering |
| engine build, engine binary | `engine/*.mjs`, `engine/*.py`, `engine/sandbox.h`, `bin/`, `static/sources` | none at run time | build |

How they interact:

```
 lobby page --HTTP--> create_game --> arenas
 game page --HTTP--> views.py --> create_entry --> ledger (reserve, record)    wallet --> ledger (settle)
 game page --HTTP--> views.py --> ledger (leave)           ledger --state--> websocket --> game page
 game page --websocket--> views.py --> Match/Manager --socketpair--> engine --> journal file
                                        |   ^------------------------------------'  (replay)
                                        '--> ledger (allocate, consume, finish_leave, runs, lease)
 ledger (payout rows) --> payout loops --> LNbits wallet / LNURL providers
```

Hard behaviours and what makes each component correct:

* **Ledger.** Transactions of web requests, the payment listener, the match
  loop and the maintenance loop interleave in any order; a payment may settle
  after its invoice expired, after the player left, after the arena closed.
  Correct when every paid life is held, dead or refunded exactly once, a player
  never has two usable lives, a leaver keeps nothing, and no entry pays out
  more than it cost.
* **Referee.** Correct when a life is authorised at most once per run, and the
  answer to a revoke comes after every death that slot will ever journal.
* **Match and manager.** asyncio tasks switch at each await, control packets
  get lost or answered late, the engine or the worker dies at any step, leases
  end. Correct when the engine never honours a life the ledger gave up, a run
  is only closed once drained, no life is both killed and refunded, and leaves
  and deaths get through in the end.
* **Connections.** One session may have several tabs; a tab outlives the run.
  Correct when a session plays in one tab, and a disconnect costs the life that
  was being played and no other.
* **Outbox.** Sending is irrevocable, its outcome may be unknown, two loops may
  hold the same row. Correct when a row is sent at most once, is never failed
  while its money may still go, and is eventually recorded.
* **Entry invoices.** The wallet may issue an invoice and fail all the same, the
  row may not get its hash, a notification may be lost, the player may repeat the
  request from another tab, and the entry may expire meanwhile. Correct when an
  entry has one invoice, what is shown is what will be credited, and every paid
  invoice is credited in the end.
* **Game page.** What a tab knows comes as pushed states, answers to reads and
  answers to its own requests, which overtake each other; the socket drops, the
  page reloads, a second tab shares the session. Correct when no dead invoice is
  offered, no reservation is forgotten while it can be paid, a leave is final, and
  whoever holds lives gets a seat or a button for one.
* **Lobby.** A request is repeated with its nonce until it is settled; its answer may
  be lost, refused or come after the form changed or the game expired. Correct
  when a visitor gets one game per form, the one asked for, and gets it in the end.

`PROJECT.json` lists these as hazards, each at the line where it bites, with
the properties that would catch it.

## 2. Modules

| Module | Contents |
|---|---|
| `LifeLedger` | the tables and transactions of `crud.py` and `leaving.py`, and `expire_game` of `lobby.py` |
| `LifeLedgerProps` | what the ledger promises |
| `EntryAccount` | abstract specification: an entry as an account of lives |
| `LifeLedgerProofs` | TLAPS proofs about `LifeLedger`, for every value of the constants: accounting, refinement, seats, kills, invoices, closing |
| `Referee` | `native.c`: admissions, deaths, the journal, control packets |
| `GameServer` | `server.py` and the websocket of `views.py`, composed of `LifeLedger` (EXTENDS) and `Referee` (INSTANCE) |
| `GameServerProps` | what ledger, server and engine promise each other |
| `GameServerProofs` | TLAPS proofs about the arena as a whole |
| `GameOrphanProofs` | TLAPS proof that no engine plays a life that was given up |
| `GameSeatProofs` | TLAPS proofs about who keeps a seat, and what a disconnect costs |
| `PayoutOutbox`, `PayoutOutboxProps` | the payout loops of `payments.py` and what they promise |
| `PayoutOutboxProofs` | TLAPS proofs about `PayoutOutbox` |
| `EntryDesk`, `EntryDeskProps` | `create_entry`, the listener and `reconcile_entries`, composed of `LifeLedger` (EXTENDS) and the wallet; what buying promises |
| `EntryDeskProofs` | TLAPS proofs about `EntryDesk` |
| `PlayerPage`, `PlayerPageProps` | the game page in each tab, composed of `EntryDesk` (EXTENDS); what the page promises |
| `PlayerPageProofs` | TLAPS proofs about the game page |
| `Lobby`, `LobbyProps` | `create_game` and the lobby page; what creating a game promises |
| `LobbyProofs` | TLAPS proofs about `Lobby` |
| `MC*` | the constants TLC needs |

### LifeLedger

Variables are the tables, rows in creation order; a row that does not exist yet
has status `none` (an absent session: `absent`). Every function of
`crud.py` that changes state opens a transaction with an update of the arena row
(`Tx.lock_arena`), so each is one atomic action and a path that raises is a
disabled action. Time is two events, `InvoiceExpires` and `LeaseExpires`, and a
choice: whether the ten idle minutes are over when `ExpireGame` looks. `Current`
keeps the code's order (an alive life before the newest one), `OldestFunded` its
choice of entry, `LowestFreeSlot` its choice of slot.
Amounts are whole sats and rounded where `models.py` rounds.

Here the *callers* are arbitrary: any transaction may be called whenever its own
guards let it. So what the ledger promises, it promises to any server.

### Referee

One engine per run. `AdmitLife`, `RevokeLife`, `ForfeitLife` take the next
control packet and answer it; `CharacterDies` journals a death with its killer.
The `claimed` flag (which client entered with an admission) is left out: it
only decides whether a character stands in the arena, and the model lets any
authorised life die.

### GameServer

asyncio runs one task at a time. An action of the model runs from one await that
matters to the next: taking a lock and reading the journal is one action, a
transaction is one with the packet sent after it. Each operation under
`match.lock` is the record `task` with a program counter and is interleaved with
the engine, the network, the payments' and players' requests and the clock;
each operation that holds `manager.lock` without a match is the record `mgr`.
A leave, or a visit of the manager, with a match holds both locks.

Every step that touches a table does so through an action of `LifeLedger`, so
a history of the server is a history of the ledger with idle steps between:
everything proved of `LifeLedger` carries over (`GameUsesLedger`), and `GameServerProps` states
only what relates the ledger to the journal, the engine and the connections.
(`GameInit` starts after the payments, from a state the ledger reaches by
`ReserveEntry`, `RecordInvoice` and `SettleEntry`.)

Faults: `EngineCrashes`, `DropAck` (an answer later than three seconds),
`LeaseExpires` under a live match, `CloseGame` during play, `StartFails`, and
`Crash` of the worker at any step. The engine outlives the worker and
inherits `worker.lock`, so `Restart` waits for it. The constant `Faults` says
which of the first four a run includes.

`StartFails` has two ends. When the journal is there (`server.py:122`), `stop` drains it
and ends the run. When it is not, `stop` raises as well (214, 444) and the closed
match stays in `manager.matches` with its run on `running`; `worker.broken` says so.
Then either an admission pops it and fails (`EnsureDrops`, 388-389), or the next visit of
the loop fails on it and adds the arena to `manager.blocked` (`VisitBlocks`, 633):
`Available` is `check_available`, which from then on refuses admissions and leaves
until the worker restarts. `worker.waiting` are the leaves that had passed that check and
wait for `manager.lock`.

### PayoutOutbox

One row is `[status, hash, attempts, due, leased, claim]`, one loop
`[pc, row, hash, outcome]`: what it read of the row when it claimed it. The
claim token is fresh for each claim; as a loop works on one row at a time, the
loop's name stands for it. The LNbits wallet and the invoice providers are
external: a provider may hand out one invoice twice and somebody else may pay
it.

### EntryDesk

One request is `[pc, player, nonce, entry, invoice]`, the locals of one
`create_entry` coroutine; it holds no lock, so an action runs from one await to
the next. `Shown` is the check of the row that ends `reserve_entry` and
`create_entry`; `CheckArena` and `CheckPlayer` are the two reads made after the
wallet's answer, each an action since either row may change in between. The
wallet's list of payments is `wallet`; the notifications on their way are
`events`. `recovery` is the batch `reconcile_entries` read, with the hashes the
rows had then, and the payment it is about to settle. Random row ids order the
batches: `Rank`, any injection of the entries into their numbers, gives them any
order, and the runs use one that differs from the order of creation. Playing, leaving, closure and expiry of invoices are the
ledger's own actions (`Elsewhere`).

### PlayerPage

A tab is the record of what `public.js` keeps in `arena` and of what the page shows.
`ApplyState` is `applyState` as a function of the tab and the response; the
operators around it (`ShowEntry`, `ShowInvoice`, `Retire`, `SyncMatch`, `Known`,
`Staying`) are the functions it calls. `StateOf` is `public_state`, read in one
step. An action is a callback, a click or a step of the server: `inbox` are the
states pushed on the websocket, in order; `reads` and `leaves` the two kinds of
request that answer with a state; the request for an invoice is the request of
`EntryDesk` with the tab's name.

`phase` follows `init`: `opening` until the first read is answered (one that fails leaves
the page `unavailable`, without a connection, a retry or a button: `public.js:361`, 453),
`loading` the assets, `starting` the engine, `ready`; a page that gets no assets or no
engine, or whose arena is closed or session over by then, is `parked`. The engine is told
of a seat only after the read that follows its start (`EngineStarts`, then `ReadArrives`).
Leaving takes two clicks, `ShowLeave` and `ConfirmLeave`, and what the first has checked
may be over at the second. An admission may be refused for reasons of the ledger (`NotAttached`:
another tab, nothing to admit, a full arena) or, with `admission fails`, for any other: the
capacity of matches, an engine that does not start, ten requests in ten seconds.

`OnTime` lets an entry expire only when no request
for it and no message about it is older than the five minutes it lives, which
the limits of 20, 30 and 15 seconds in the code imply. The match is reduced to what it
does to the ledger, because `GameServer` models it; the reconciliation is left to
`EntryDesk`.

### Lobby

`CreateGame` is `create_game`, one step because it holds the row of the owner's
settings from its first read to its commit. `Submit` and `AnswerArrives` are
`onsubmit` of `lobby.js` before and after its await; a request whose page has
reloaded or lost the connection is an orphan the server serves later. A form is one game
the visitor wants, whatever its fields, so that "another game" and "the wrong
game" can be told apart. Minutes pass (`Expires`) and the owner saves
settings only when no request is still on its way.

### What is merged or left out, and why

* *Prepaid entries* in GameServer: payments interleave in LifeLedger.
* *Merged awaits*: two consecutive awaits of one task between which no other
  task can observe or change what either uses (a lock acquired and the read
  under it; a commit and the packet handed to the socket, whose delivery is a
  later step anyway).
* *One arena, one worker.* The match table is per arena and the workers exclude
  each other by `worker.lock`; the capacity limit over several arenas is not
  modelled.
* *Torn or foreign journal lines.* A malformed line blocks the arena for the owner.
  `JournalApplies` shows that the server and the engine never produce one together.
  The other way to a blocked arena, a match that failed before it had a journal, is
  modelled; a database that fails during `stop` is not.
* *The page.* One state read is in flight per tab; creating an entry and
  loading its answer are one action when they succeed; the engine may fail to start
  but, once started, does not stop by itself (`public.js:152-158`); countdowns and texts are left out.
* *Rate limits, HTTP routes, rendering, listing, the administration.* See "Not
  modelled" below.

## 3. What the runs check

Bounds are in the cfg files; `MaxEntries`, `MaxLives`, `MaxRuns`, `MaxSequence`,
`MaxInvoices` and `MaxGames` bound how many rows are ever created, `IpcDepth` the
packets and answers on the engine's socket together, `InboxDepth` the states on the way
to a tab, `MaxCrashes` the worker's crashes. `Faults`, `DeskFaults`,
`PageFaults` and `Acts` say what an instance lets go wrong and what it lets people
do. Deadlock checking is off in all of them: when the bounds are used up, or
everybody has left, the system rightly stops; getting stuck earlier is what the
liveness runs exclude.

| Run | Question | Instance |
|---|---|---|
| `ledger` | do balances, seats, kills and amounts hold under every order of transactions, and is every history one of entry accounts? | public arena; 2 players, 2 entries of 2 lives, 3 lives, 2 runs, 2 events; fees 10 % and 20 % of 50 sats so that every rounding is exercised |
| `game` | do engine, journal and ledger agree through deaths, disconnects, leaves and recoveries? | 2 players, 2 runs, a worker crash at any step, one line per batch so that a journal is longer than a batch |
| `game_tabs` | can the engine honour a life the ledger gave up; does a second tab ever evict the first? | 1 session with 2 tabs, 2 runs, every fault but closure, a crash |
| `game_progress` | does a leave end, or meet a blocked arena; does a death reach the ledger? | 1 player, 2 runs, all faults, a start without a journal, a crash |
| `game_stale_seat` | does a disconnect cost the life that was played, also when the engine exits between two runs? **violated**, see section 5 | 2 players, 2 runs, engine exits |
| `outbox` | is a payout sent once, remembered, and its verdict true? | 2 rows, 2 loops, 2 invoices, 2 attempts |
| `outbox_progress` | is money that went out recorded, and does the queue drain? | 1 row, 2 loops |
| `desk` | is an entry sold once, and is every payment credited? | 1 player, 2 entries, 2 nonces, one request at a time, all desk faults, a closure, a crash, batches of one |
| `page` | does a tab offer only invoices that will be honoured, and forget only what is settled? | 1 tab, 2 entries, drops, lost reads and answers, reloads |
| `page_progress` | is a leave final; is what is paid played; is the page seen? | 1 tab, one entry of 2 lives, 2 sessions; leave, join again, drops, lost reads, refused admissions, failing leaves, an engine that does not start |
| `page_two_tabs` | does a page told of no lives ask for an entry it can get? **violated**, see section 5 | 2 tabs, 2 entries, drops; a server that tells every connected tab at once |
| `lobby` | one game per form, the one asked for, and in the end? | 1 page, 2 forms, lost answers, failures, reloads, fee changes, strangers, a limit of 2 |

Why these are enough: the interesting conflicts are between two of a kind (two
players for a slot or a killer and a victim, two tabs, two runs, two rows, two
loops, two invoices, two forms), and each instance has two of the kind its
question is about. Two lives per entry separate "some lives left" from "the last
one"; three lives let a player respawn while another plays; two events per
run make order matter; a batch of one makes two journal lines, or two rows,
two batches. The outbox allows two attempts so that a retry and the final failure
both occur. A form dearer than the admin fee sometimes allows makes the
page's knowledge of the fee go stale. Runs that check only safety use symmetry
(players; rows, invoices and loops; tabs and nonces); the liveness runs use
none.

Some cfg files are larger or other instances of the same questions, kept
beside the runs and checked by hand (section 7):

| File | Instance | Checked |
|---|---|---|
| `game_blocked.cfg` | 1 player, one run, no crash | `LeaveNeedsNoRestart`, violated: section 5 |
| `game_leave.cfg` | 2 players in one run, engine exits, late answers | the journal invariants and `NoAuthorizedOrphan` |
| `desk_pair.cfg` | 2 requests at a time | `DeskTypeOK` and the safety of `EntryDesk` |
| `page_tabs.cfg` | 2 tabs | `PageTypeOK`, `RetiresOnlySettled` |
| `page_buyer.cfg` | 1 tab whose player keeps clicking | `BuyerIsServed` |
| `lobby_settings.cfg` | edits, refusals, an owner who disables the lobby | `LobbyTypeOK`, `GameAsAsked`, `AnnouncedIsOpen` |
| `page_blind.cfg`, `lobby_refused.cfg`, `lobby_edited.cfg`, `lobby_expired.cfg` | the smallest fault for each | violated: section 5 |

`TypeOK` and `OutboxTypeOK` are proved (section 4), so no run repeats them.

Every property has a mutant, listed in `PROJECT.json`: a plausible
bug in a definition (an off-by-one, a dropped guard, a swapped order) under which
the run's property fails. The mutated operators stand right before the ones they
mutate and are used by nothing else.

### What the properties say

* `LivesConserved`, `FundedLife`, `LeaverIsSettled`, `Solvent`,
  `ImplementsAccount`: the accounting (section 4).
* `OneSeatEach`: a player has one usable life, two lives never share a slot, and
  an ended run holds none. `KillsJustified`: a prize has a death and a killer of the
  same run, and every death left the engine's journal. `ClosingIsFair`: a closed
  arena stays closed, and one that expired by itself owes nothing.
* `JournalApplies`: whatever the interleaving of deaths, leaves, recoveries and
  crashes, `consume_death` can apply every line not yet applied. In the code the
  opposite blocks the arena until its owner intervenes.
* `KilledNeverRefunded`: the leave withdraws the character, *then* reads the
  journal, then refunds.
* `NoAuthorizedOrphan`: what the engine still honours is alive in the ledger, in
  this run and in this slot, even while a successor recovers the run.
* `EndedRunIsDrained`, `PrizesMatchJournal`: a run is closed only after its last
  line is applied, and deaths are paid in the journal's order, to its killers.
* `SeatEndsWithLife`, `DisconnectConsumes`: a living player's seat passes to no
  other tab; a disconnect costs the life that was played (the ledger records it, or
  the journal does and the ledger will).
* `SentOnce`, `SentIsRemembered`, `InvoiceUsedOnce`, `VerdictIsTrue`,
  `Irrevocable`: money going out.
* `NonceNamesOneEntry`, `OneInvoicePerEntry`, `ShownIsCreditable`, `CreditIsPaid`,
  `PaidIsCredited`: money coming in.
* `OfferIsSound`, `RetiresOnlySettled`: a late answer never brings back an offer,
  and no tab forgets a reservation that may still be paid. `LeftIsFinal`,
  `PageIsSeen`, `PaidIsPlayed`, `DeadInvoiceGoes`: what the player sees.
  `PaidIsPlayed` grants the page two excuses, both final until a reload: it could not
  read its first state, or it got no engine. A server that refuses the seat (a full
  arena, say) is no excuse but is asked again: `applyState` repeats the admission of an
  entry not yet played with every state (`public.js:243-246`) and shows no button for it,
  and meanwhile the paid invoice stays where it was, which `DeadInvoiceGoes` allows.
* `CanPayAgain` is checked under `PromptSpec`: nothing else happens at the server while
  a connected tab does not show what the next state would make of it or a read is
  under way. The code notifies a tab of a new invoice (`views.py:441`), of payments and
  admissions, and every 15 seconds anyway (508-525), and the page has a timer of its own
  for the expiry (`public.js:173`), so what a tab does not know it missed while its socket
  was down.
* `LeaveCompletes` ends in `left` or at a blocked arena; `LeaveNeedsNoRestart` leaves
  the second out and fails (finding 7).
* `OneGamePerForm`, `GameAsAsked`, `WantedIsCreated`: the lobby.

### Fairness

`FairGameSpec` assumes, and the code justifies:

* weak fairness of an operation that holds a lock, of recovery, of the end of
  `stop`, of the socket's end of file and of answers or their time-out (three
  seconds): coroutines that are ready run, and every await has a limit;
* strong fairness of taking a lock (`TickBegin`, the beginning of a leave, of
  `stop`, a visit that has a reason to stop the match or to block the arena): `asyncio.Lock` serves
  waiters in order, the leave loop retries every five seconds and the manager
  visits every match ten times a second;
* weak fairness of the engine's end when it has no server (its socket hangs up,
  or `stop` kills it), of the lease's end when nobody renews it (45 seconds), and
  of `Restart` (the operator starts LNbits again).

Nothing is assumed of players, of the engine's deaths, of faults or of
payments. `DeathsReachLedger` excludes histories with a worker crash: after
one, a journal is recovered only when somebody joins or leaves that arena, as
README.md:142-143 says.

`FairOutboxSpec` assumes weak fairness of a loop's own steps and of time, and
strong fairness of claiming a row (the row due longest is served first), of
the provider's answer or its failure (its limit is shorter than the limit on the
work) and of reconciling. Nothing is assumed of `PayInvoice`, of the
network, or of loops surviving. `PaymentIsRecorded` is about payments that
succeeded: a row whose loop died between the `sending` mark and the payment stays
`pending` for its owner to look at, which payments.py documents.

`FairDeskSpec` assumes weak fairness of reading the next batch and, for each row,
strong fairness of its look-up and settlement: `reconcile_entries` runs every
15 seconds for ever, and the database does not fail for the same row each
time. Nothing is assumed of the listener, the wallet or the browsers, so
`PaidIsCredited` rests on the reconciliation alone.

`FairPageSpec` assumes that the browser and the server run the callbacks that are
due (weak fairness), and strong fairness of pushing a state and of its
arrival: states are pushed every 15 seconds and after each change, the page
reconnects after two or three seconds, so one gets through however often the
connection drops. Nothing is assumed of the player: `PaidIsPlayed` asks for a
button, not for a click. `BuyerPageSpec` adds a player who clicks again and again.

`FairLobbySpec` assumes snapshots (weak), a visitor who tries again, a request that is
sooner or later served, and an answer that sooner or later gets through
(strong): neither the connection nor the database fails the same visitor for ever.

## 4. What is proved

`LifeLedgerProofs` proves, for every set of players and every value of every
bound, fee and price the settings allow (`PlayerAssumption`, `BoundAssumption`,
`FeeAssumption`):

| Theorem | Says |
|---|---|
| `Invariance` | `Spec => []IInv` |
| `TypeCorrect` | the type invariant |
| `Conservation` | `LivesConserved` |
| `OneFundedLife` | `OneUsableLife` and `FundedLife` |
| `LeaveSettles` | `LeaverIsSettled` |
| `Retirement` | `RetiredForGood` |
| `Refinement` | `LifeLedger` implements `EntryAccount` |
| `Solvency` | `Solvent` |

The argument. `IInv` is the conjunction of the type invariant, four promises and
three ownership facts. The promises lean on each other: that a death always finds
a life to take (`FundedLife`) needs that no other usable life was taken from the
same balance (`OneUsableLife`); that a refund loses nothing (`LivesConserved`)
needs to know which lives it may turn to `refunded` (`RefundedHasLeft`,
`LifeRows`); that a leaver stays settled needs that a late payment finds the
session `left` and refunds it at once. `EntryRows` and `LifeRows` are not
promises but say whose rows are whose, without which no balance can be
attributed. There is one lemma per group of transactions and, in it, one step
per transaction; `DeadFinite`, `SameDead` and `OneMoreDead` are what is needed of
cardinalities. `Refinement` maps an entry to its account by counting the dead
lives taken from it; `Solvency` adds the arithmetic of rounding
(`FloorSumBound`, `Budget`).

`PayoutOutboxProofs` proves every safety property of the outbox, for any number
of rows, loops, invoices and attempts (`OutboxAssumption`):

| Theorem | Says |
|---|---|
| `OutboxInvariance` | `OutboxSpec => []OutboxInv` |
| `OutboxTypeCorrect` | the type invariant, with it the bound on attempts |
| `NeverSentTwice` | `SentOnce` |
| `NeverOrphaned` | `SentIsRemembered` |
| `InvoicesExclusive` | `InvoiceUsedOnce` |
| `FinalStatusTrue` | `VerdictIsTrue` |
| `NothingRevoked` | `Irrevocable` |

The argument is about loops that went to sleep with an old copy of a row.
`LoopShape` is what such a loop still knows without the claim (the row's invoice
is the one it read, the point of no return stays behind); `HeldStatus` is what the
claim adds (the status is the one it read or wrote last). Hence only a row
that is `prepared` becomes `sending`, that happens once, and so at most one loop
ever stands before the payment of a row (`OnePayer`, `PaysFirst`); since the
invoice is claimed for that row alone (`RowShape`), the payment it finds there
cannot be another row's. `OutcomeIsTrue` and `FinalIsTrue` say that a verdict, once
formed, cannot become false, because payments keep their owner and their final
status. `OthersUndisturbed` shows once and for all that a step of one loop leaves
the others' knowledge intact.

The other invariants of the ledger are proved with a second inductive invariant,
`SInv`, on top of the first:

| Theorem | Says |
|---|---|
| `Safety` | `Spec => []SInv` |
| `SeatsExclusive` | `OneSeatEach` |
| `KillsAreJustified` | `KillsJustified` |
| `InvoiceNotDoubled` | `OneLiveInvoice` |
| `ClosingKeepsLives` | `ClosingIsFair` |

The invariants are almost inductive by themselves. What they lack is `RunRows`:
runs are leased in the order of their numbers and the arena is never leased to a run
that is over. Without it a life could be seated in an ended run, and
`EndedRunIsEmpty` would not survive `allocate_life`. That a slot is given to one
life only needs that `start_run` finds nobody alive in the new run.

`EntryDeskProofs` proves every safety property of the desk, for any number of
requests, nonces, invoices, faults and crashes (`DeskAssumption`):

| Theorem | Says |
|---|---|
| `DeskInvariance` | `DeskSpec => [](IInv /\ SInv /\ DInv)` |
| `DeskTypeCorrect` | the type invariant |
| `EntryIsIdempotent` | `NonceNamesOneEntry` |
| `InvoiceIssuedOnce` | `OneInvoicePerEntry` |
| `AnswersAreCreditable` | `ShownIsCreditable` |
| `CreditsArePaid` | `CreditIsPaid` |
| `DeskUsesLedger` | every step is one of `LifeLedger` or leaves the tables alone |
| `DeskImplementsAccount` | the entries implement `EntryAccount` behind the desk too |
| `DeskSolvency` | `Solvent` |

The argument is about what a coroutine that holds no lock may still believe.
`RequestRow` says it for each program counter: a request about to ask the wallet
holds a row for which no invoice exists; one with an invoice holds a row of its
player, and between the two reads and the answer the row keeps that hash.
`OneIssuer` is what makes the first of these last: no other request is about to
ask for the same row, because `reserve_entry` returns `created` once. `PaidNotes`
says that what the listener or the reconciliation is about to settle was paid, though
the row may have changed since. Nothing depends on the order of batches.

`PlayerPageProofs` proves the safety of the game page, for any number of tabs,
sessions, entries and states on the way, with every fault and everything a player
may do (`PageAssumption`, with the assumptions of the desk):

| Theorem | Says |
|---|---|
| `PageInvariance` | `PageSpec => []PageInv` |
| `PageUsesDesk` | `PageSpec => DeskSpec`: the pages implement the desk |
| `OffersAreSound` | `OfferIsSound` |
| `OffersAreOwn` | `ShownIsOwn`: the invoice on a page is one of its session |
| `RetiredIsSettled` | `RetiresOnlySettled` |
| `LeavingIsFinal` | `LeftIsFinal` |
| `PageAnswersAreCreditable`, `PageImplementsAccount` | what the desk promises, behind the pages |

The argument is about messages that arrive late. `TrueOf` says what a state told to a
player claims: that the request it names is over (its entry paid or expired), and
that the invoice it names is the player's. Both stay true for ever
(`TruthKept`): a row never becomes payable again, no second row takes its nonce
(`NonceNamesOneEntry`, for which `ReserveNew` looks the nonce up), and no row
changes its player. So every state on its way is true when it arrives (`MailIsTrue`),
whatever has overtaken it, and `applyState` needs only that, not that it is
recent. What the tab then does is a matter of `applyState` alone: `AppliedTab` shows for
any tab and any response that it stays sound (`TabRow`), shows no other
invoice than its own or the response's, gives up a nonce only when the response
settles it, and stays left if it had left. A row with a nonce (`EntriesNamed`) is why
`showInvoice` cannot erase one. The proof goes callback by callback (`TabStep`): a
step of one tab leaves the others idle, and a tab goes on or starts over.

`LobbyProofs` proves the types of `Lobby` without conditions, and its two
promises under conditions:

| Theorem | Says | If |
|---|---|---|
| `LobbyTypeCorrect` | `LobbyTypeOK` | |
| `AnnouncesWhatWasAsked` | `GameAsAsked` | `OneTab`, `FormKept` |
| `FormMakesOneGame` | `OneGamePerForm` | `OneTab`, `FormKept`, `RefusedForGood` |

The conditions are those of run `lobby`: one page (`localStorage` keeps one request),
a form that is not edited before it is settled, no refusal that a repetition could
escape. Without the second or the third the promise is false: findings 4 and
5. Everything else is arbitrary: lost answers, failures, reloads, fee
changes, strangers, expiry, any number of games and forms. The argument: the request
not yet settled is in the page and in `localStorage` (`PageRows`), and every copy
of an older one that is still on its way finds its game in the table or is refused
for good (`StaleOrphans`), so serving it late creates nothing.

`GameServerProofs` proves the agreement of ledger, journal and engine, for any
number of players, tabs, slots, runs, lives, lines, crashes and any size of batch
(`GameAssumption`, with the assumptions of the ledger), with every fault:

| Theorem | Says |
|---|---|
| `GameInvariance` | `GameSpec => []GInv` |
| `GameTypeCorrect` | `GameTypeOK` |
| `BacklogApplies` | `JournalApplies` |
| `KilledIsNotRefunded` | `KilledNeverRefunded` |
| `EndsAreDrained` | `EndedRunIsDrained` |
| `PrizesFollowJournal` | `PrizesMatchJournal` |
| `GameUsesLedger` | every step is one of `LifeLedger` or leaves the tables alone |
| `GameRetires` | `RetiredForGood` |
| `GameKeepsAccounts` | every step is one of the accounts of `EntryAccount` or leaves them alone |
| `GameSolvency` | `Solvent` |

(`GameInit` starts with entries that are sold, so it is the steps and not the
initial states that map to `EntryAccount`.) `GInv` has four layers:

* `IInv` and `SInv`, since every step is one of the ledger's;
* where the processes stand: the types, and `MatchShape`, `EngineShape`,
  `JournalShape`, `TaskShape`, `MgrShape`, `SeatShape`. They carry what makes a
  replay safe: a match has applied what it read (`match.offset` is the sequence of
  its run), nobody recovers while a match is up, an engine outlives its worker
  only in the run on lease, a run's end waits for `offset = Len(journal)`;
* what the ledger made of the journals: `EndedRunIsDrained`, `PrizesMatchJournal`,
  `DeadIsWritten` (a death in the ledger is a line that was applied) and `Backlog`
  (the lines that wait name lives of their run that are alive or dead). `Backlog`
  is what both `JournalApplies` and `KilledNeverRefunded` follow from, and
  the hard part of the proof: `finish_leave` turns lives to `refunded` and must find
  none of them in a line that waits;
* hence what the engine may *still* write: `Honoured` and `Admitting` (what is or
  will be authorised sits on its slot in the ledger, alive or dead), and for the
  leave `LeaveShape`: after the answer to its revocation no character of that player
  can die any more, and after the replay no line is left that names one. That an answer
  found on the socket really is the one to this revocation, and not a late one
  of an earlier packet, is `OneAdmission` and `Answering`: after an answer in the
  queue a slot is empty unless an admission follows, and there is at most one admission
  under way, that of the attach that waits for it.

The proof goes group by group: steps that leave the tables alone, seat a life, apply a
line, finish a leave, end a run (`QuietTables`, `SeatTables`, `LineTables`,
`LeaveTables`, `EndTables`), each with what it does to the journal layer; then each
operation of the server and of the engine with what it does to the other layers.

`GameOrphanProofs` proves the invariant of the arena that `GInv` does not imply:

| Theorem | Says | If |
|---|---|---|
| `NoOrphan` | `NoAuthorizedOrphan` | `OneBatch` |

`OneBatch` is `MaxPlayers <= BatchSize`. `replay` reads up to 256 lines
(`server.py:218`) and an arena has at most 8 players (`models.py:16`), so the code
satisfies it. It is needed: with one line per batch and three players TLC finds
a history in which a seat is given up while the line of its player's death still
waits: the same life is admitted again, and the line then consumes a life the
engine honours. The proof adds `OInv` to `GInv`:

* `Letters`, what the engine was told and wrote: a journal names a life once
  (`WrittenOnce`), the lives the engine may still end are not named in it
  (`EndsUnwritten`), nor is the one on its way to it (`FreshLetter`, `OneLetter`);
* `OpenShape`, who sits where while a match is open. `EndsGuarded` and
  `LinesGuarded`: a life the engine plays, or that a waiting line has ended, is still
  the seat of a connection of its player (or is being admitted, or its player is
  leaving), so `attach` refuses that player another seat; `EmptyRow`: when an
  attach or a detach gives a seat up, the engine has emptied that slot and no line
  it has not read is about it.

The last point is where the batch comes in. There are no more lines waiting than
slots (`FewWait`: they name different living lives, and `OnePerSlot`), hence one
batch reads them all (`ReadsAll`), and after the revocation has been answered the
engine writes no more about that slot. `SeatsCarry` shows once that the tables of
seats stay right when nobody loses a seat but those who are neither in the engine nor
in a line; the rest is one lemma per operation.

`GameSeatProofs` proves that finding 1 is the only way to lose a seat, and the only
way a tab that closes takes its life away with it. `StaleRevoke`
is the step of that finding: an admission revokes the slot its connection had in an
earlier run (`server.py:270-271`), and another connection has that slot now.

| Theorem | Says | If |
|---|---|---|
| `SeatsAreKept` | `SeatEndsWithLife` | no step is a `StaleRevoke` |
| `OneSessionKeepsSeat` | `SeatEndsWithLife` | `OneSession`: all connections are tabs of one session |
| `SeatIsPaidFor` | when the connection with a living player's seat closes and the match goes on, a line of the journal names that life | no step is a `StaleRevoke` |
| `DisconnectIsPaid` | `DisconnectConsumes` | no step is a `StaleRevoke`, and `OneTabEach`: nobody has two tabs |

`StaleRevoke` is a condition on the behaviour, not on the constants: the theorems cover
all players, tabs, engine exits, late answers and crashes as long as that one step does
not happen. The second needs no such condition, because `attach` refuses a second tab before
it revokes anything, so the slot revoked is never another connection's. `SeatInv`
is what they need besides `GInv`: a seat stands for a life of this run on that slot
which was not released (`SeatedRow`); between the revocation and the `pop` nobody else
gets the slot (`PoppingRow`: no step in between admits anybody, the match's
lock is held); what is admitted belongs to a player who has no other tab
(`AdmittingRow`); and a detach only removes its own connection (`DetachingRow`).
That a life given to a seat keeps its player, run and slot is `RowsRest`: no
transaction but `allocate_life` calls a life back, and that one none which was
admitted to the match that goes on (`AdmittedRests`).

What a disconnect costs rests on `PaidInv`, which follows a life from its admission to
its last line:

* an admission or a forfeiture on the socket is the last packet, its answer the last
  answer, and the operation under way waits for it (`PacketsAwaited`, `AcksAwaited`): the
  match's lock is held from the packet to the answer, and when neither comes the match
  is closed (`server.py:276-281`, 307-311);
* once the admission is answered, and from then on as long as the seat is held, the
  engine plays the life in that slot or the journal has its end (`AdmissionPlayed`,
  `SeatPlayed`), and no packet but the seat's own forfeiture is under way for that
  slot. This is where a `StaleRevoke` would be the exception;
* a `detach` that was answered has its line, and one that was not stops the match
  (`DetachPaid`), so the connection closes with a line or the match does not go on;
* a closed connection names no life (`ClosedEmpty`).

`DisconnectIsPaid` needs that whoever plays a life has a seat: a run starts with nobody
alive (`StartEmpty`, from `EndedRunIsEmpty`), and only an admission makes somebody alive
(`AllSeated`). This is where `OneTabEach` is used. When a session's second tab resumes a
life in a later run, the first one still names it (`server.py:355` again); closing the
first costs nothing, and should not: the second plays on with the seat. That history
violates the letter of `DisconnectConsumes`, which is why the run `game` has a tab for
each player, and `SeatIsPaidFor` is what holds for any number of tabs.

Only model-checked:

* liveness (TLAPS has no ENABLED): `LeaveCompletes`, `DeathsReachLedger`,
  `PaymentIsRecorded`, `QueueDrains`, `PaidIsCredited`, `WantedIsCreated`, and the
  four of the page;
* `PageTypeOK` (a state carries a balance, which is a sum folded over a set, and what a
  fold computes cannot be proved here), and `PageIsSeen`, which holds of one entry:
  finding 3.

## 5. Findings

Each is a statement of the repository that an instance refutes; the cfg file
named shows the shortest history.

1. **A connection outlives its run with its slot number** (`game_stale_seat`,
   `DisconnectConsumes`). README.md:38-39: *"Disconnecting, reloading or timing out
   also consumes the current admitted life"*. `Match.stop` clears `match.peers` but
   leaves `connection.life` (`server.py:355`), and the tab stays connected. When it
   asks for admission in the next run, `Match.attach` revokes and pops the slot
   number of the *old* life in the *new* match (`server.py:269-271`) without
   checking who holds that slot now. If another player was admitted there
   first, their character is withdrawn and their connection is no longer in
   `match.peers`: when it closes, `Match.detach` returns early (`server.py:291`) and
   their life costs nothing. The trace needs two players, an engine exit and a
   second run in which they are admitted in the other order. Without engine exits
   (`game`) the property holds.
2. **A tab keeps the nonce of an expired entry** (`page_two_tabs`, `CanPayAgain`).
   public.html:65: *"Pay again when all five are used."* A tab forgets a nonce only when
   the server names it (`public.js:280`), and `public_state` names the newest entry
   only (`crud.py:590`). When an entry expires while a tab has no connection, and
   another tab buys and uses up a newer entry before it has one again, the first tab
   asks with the old nonce and is refused (`payments.py:100-101`) at every click until it
   is reloaded. The history needs the drop: with `PageFaults` empty the property holds
   (129,944 states), because a connected tab is told of the expiry or of the newer entry.
3. **An invoice inside a hidden overlay** (`page_blind.cfg`, `PageIsSeen`).
   `showInvoice` does not show the overlay (`public.js:160-184`). An older invoice paid late
   gives lives while a newer one is live; when the last life dies, the newer
   invoice is shown behind the game (`public.js:256`) and no button can be seen
   until it expires. With a single entry (`page_progress`) the property holds.
4. **A refused retry forgets a request that succeeded** (`lobby_refused.cfg`,
   `OneGamePerForm`). README.md:237: *"Creation is idempotent"*. Every answer below
   500 clears the nonce (`lobby.js:186-190`), also the 429 of a retry whose first
   attempt succeeded behind a lost answer: the next submission makes a second game. Without
   refusals (`lobby`) the property holds.
5. **An edited form gets the old game** (`lobby_edited.cfg`, `GameAsAsked`).
   README.md:209: *"Visitors can choose a map, title, entry price, creator fee"*. After a lost
   answer the nonce is kept and the form can be changed; `create_game` returns the
   game of that nonce without comparing fields (`lobby.py:44-51`). Without edits
   (`lobby`), or without lost answers (`lobby_settings.cfg`), it holds.
6. **A retry is given a closed arena** (`lobby_expired.cfg`, `AnnouncedIsOpen`).
   lobby.js:203: *"Your game is ready. Share its link and join"*. A retry after the ten
   idle minutes in which `expire_game` closes the game is answered with it all the
   same (`lobby.py:50`). Without lost answers (`lobby_settings.cfg`) it holds.
7. **A start that fails early holds back every leave** (`game_blocked.cfg`,
   `LeaveNeedsNoRestart`). server.py:537-538: *"Persisted requests remain visible in the
   player's refund status. The next sweep retries"*; README.md:142: *"A missing, malformed
   or out-of-sequence journal stops admissions for owner review."* When `Match.start` fails
   before it has made the journal (`server.py:58`, 121-122), the `stop` of its handler
   raises (214, 444), line 445 is skipped and the next visit blocks the arena (633).
   `check_available` (373-374) then refuses not only admissions but a new leave
   (`views.py:458`) and every sweep over the recorded ones (462), until the worker
   restarts: nobody's lives were ever in that run, yet all who paid wait. After the restart
   they complete (`game_progress`).

## 6. Plan

1. Done: `LifeLedger` and `EntryAccount`, `Referee`, `GameServer`, `PayoutOutbox`,
   `EntryDesk`, `PlayerPage`, `Lobby`; every safety invariant of the ledger, the outbox,
   the desk, the page and the arena proved (one with the batches of the code), those of
   the lobby under its conditions, and `SeatEndsWithLife` and `DisconnectConsumes` up to
   finding 1.
2. Open: the manager over several arenas (capacity), torn journal lines, a database
   that fails during `stop`.
3. Not planned: liveness proofs (out of the prover's reach) and what follows.

### Not modelled

* *The manager over several arenas* (`server.py:358-451`, 593-652): the capacity of
  matches (the page sees it as a refused admission), an arena blocked after a malformed
  journal or because the database failed while its match was stopped. Of one arena the
  match table is modelled, with the journal that is missing after a failed start and the
  block that follows.
* *Administration* (`admin.js`, `index.vue`, the owner's routes): single-row
  updates behind the owner's key, last write wins. What reaches the rest of the system is
  an action elsewhere: `CloseGame`, `SaveSettings`.
* *Touch controls and the engine's loader* (`touch.js`, `loader.js`): state of one
  page that no message depends on.
* *The engine itself*: `static/sources/engine-source.js` is a base64 archive of
  the engine's sources, 103 897 of the repository's 106 602 lines of JavaScript: data,
  without a definition to translate. `native.c`, the part written for this extension, is
  `Referee`; `engine/*.mjs` and `*.py` build and patch the engine once.
* *Share cards and QR codes* (`share.py`, `static/qr.js`): pure rendering. A QR
  encoder is an algorithm over bits whose only reader is a camera.
* *Migrations* run once, before everything; *listing, scoreboard and rate limits*
  only read or refuse (a refusal is in `Lobby` and in `EntryDesk`).

## 7. Running

```
tlc -workers 2 -config ledger.cfg MCLifeLedger.tla
tlc -workers 2 -config game.cfg MCGameServer.tla          # and game_*.cfg
tlc -workers 2 -config outbox.cfg MCPayoutOutbox.tla      # and outbox_progress.cfg
tlc -workers 2 -config desk.cfg MCEntryDesk.tla           # and desk_pair.cfg
tlc -workers 2 -config page.cfg MCPlayerPage.tla          # and page_*.cfg
tlc -workers 2 -config lobby.cfg MCLobby.tla              # and lobby_*.cfg
tlapm LifeLedgerProofs.tla
tlapm PayoutOutboxProofs.tla
tlapm EntryDeskProofs.tla           # and PlayerPageProofs.tla
tlapm LobbyProofs.tla
tlapm GameServerProofs.tla          # and GameOrphanProofs.tla, GameSeatProofs.tla
```

Each run takes at most three to four minutes with two workers; each proof module
takes one or two, `GameServerProofs` about eight, `GameOrphanProofs` two
and `GameSeatProofs` four.
