--------------------------- MODULE GameServerProofs ---------------------------
(***************************************************************************)
(* Proofs about the whole arena: the ledger, the server and the engine of  *)
(* GameServer.  GInv is the inductive invariant.  It rests on those of the *)
(* ledger, IInv and SInv, which every step of the arena keeps because it   *)
(* is a step of LifeLedger or leaves the tables alone.                     *)
(***************************************************************************)
EXTENDS GameServerProps, LifeLedgerProofs, SequenceTheorems

----------------------------------------------------------------------------
(* The types of the engine and of the server.                               *)

Line   == [victim: LifeIds, killer: LifeIds \cup {NoId}]
Packet == [kind: Kinds, slot: Slots, life: LifeIds \cup {NoId}]
Ack    == [kind: Kinds, slot: Slots]

EngineRecord == [run: RunIds \cup {0},
                 admission: [Slots -> LifeIds \cup {NoId}],
                 consumed: [Slots -> BOOLEAN]]
MatchRecord == [run: RunIds \cup {0},
                state: {"none", "open", "closed", "stopping"},
                offset: 0 .. MaxSequence,
                peers: [Slots -> Conns \cup {NoConn}]]
TaskRecord == [op: Ops \cup {"none"},
               pc: {"idle", "apply", "tabs", "pop", "admit", "detach", "gone",
                    "renew", "withdraw", "finish", "release"},
               next: {"idle", "tabs", "pop", "gone", "renew", "finish", "release"},
               until: 0 .. MaxSequence,
               wait: Kinds \cup {"none", "failed"},
               conn: Conns \cup {NoConn},
               player: Players \cup {NoPlayer},
               slot: Slots \cup {0},
               life: LifeIds \cup {NoId}]
MgrRecord == [op: {"none", "ensure", "leave"},
              pc: {"idle", "next", "apply", "release", "start"},
              conn: Conns \cup {NoConn},
              player: Players \cup {NoPlayer},
              todo: SUBSET RunIds,
              run: RunIds \cup {0},
              offset: 0 .. MaxSequence,
              until: 0 .. MaxSequence]
SeatRecord == [phase: Phases,
               run: RunIds \cup {0},
               life: LifeIds \cup {NoId},
               slot: Slots \cup {0}]
WorkerRecord == [up: BOOLEAN, crashes: 0 .. MaxCrashes, broken: Broken, waiting: SUBSET Players]

EngineTyped ==
    /\ engine \in EngineRecord
    /\ journal \in [RunIds -> Seq(Line)]
    /\ \A r \in RunIds : Len(journal[r]) <= MaxSequence
    /\ toEngine \in Seq(Packet)
    /\ acks \in Seq(Ack)

ServerTyped ==
    /\ match \in MatchRecord
    /\ task \in TaskRecord
    /\ mgr \in MgrRecord
    /\ conns \in [Conns -> SeatRecord]
    /\ touched \in SUBSET RunIds
    /\ worker \in WorkerRecord

----------------------------------------------------------------------------
(* Where the processes stand.                                               *)

\* A connection that names a life names its slot.
SeatShape == \A c \in Conns : conns[c].life # NoId => conns[c].slot \in Slots

\* A match plays the run on lease, the only running one, and has applied to the
\* ledger what it has read of the journal.
MatchShape ==
    /\ match.run = 0 => /\ match.state = "none"
                        /\ task.op = "none"
                        /\ \A s \in Slots : match.peers[s] = NoConn
    /\ match.run # 0 =>
          /\ match.state # "none"
          /\ worker.up
          /\ mgr.op = "none"
          /\ match.run = arena.run_id
          /\ match.run \in touched
          /\ match.offset = runs[match.run].sequence
          /\ runs[match.run].status = "running"
          /\ \A r \in RunIds \ {match.run} : runs[r].status # "running"

\* An engine belongs to the match, or to a worker that has died.
EngineShape ==
    /\ engine.run = 0 => \A s \in Slots : ~Ends(s)
    /\ engine.run # 0 =>
          /\ worker.up => match.run = engine.run
          /\ engine.run = arena.run_id
          /\ engine.run \in touched
          /\ runs[engine.run].status = "running"

\* Only the runs that have started have a journal.
JournalShape ==
    \A r \in RunIds : /\ r \notin touched => journal[r] = <<>>
                      /\ runs[r].status = "none" => r \notin touched

AttachShape ==
    task.op = "attach" =>
        /\ task.conn \in Conns
        /\ conns[task.conn].phase = "attaching"
        /\ task.pc \in {"apply", "tabs", "pop", "admit"}
        /\ task.next \in {"tabs", "pop"}
        /\ task.pc = "tabs" /\ task.wait # "none" => conns[task.conn].life # NoId
        /\ task.pc = "pop" \/ task.next = "pop" => conns[task.conn].slot \in Slots
        /\ task.pc = "admit" => task.life \in LifeIds /\ task.slot \in Slots

DetachShape ==
    task.op = "detach" =>
        /\ task.conn \in Conns
        /\ conns[task.conn].slot \in Slots
        /\ task.pc \in {"apply", "detach", "gone"}
        /\ task.next = "gone"

\* stop() has waited for the engine to end.
StopShape ==
    task.op = "stop" =>
        /\ task.pc \in {"apply", "release"}
        /\ task.next = "release"
        /\ engine.run = 0
        /\ task.pc = "release" => match.offset = Len(journal[match.run])

\* The connections that wait for match.lock wait for a match.
TaskShape ==
    /\ task.op = "none" => task.pc = "idle" /\ task.wait = "none"
    /\ task.op = "tick" => task.pc \in {"apply", "renew"} /\ task.next = "renew"
    /\ task.wait \in Kinds => task.slot \in Slots
    /\ task.pc = "apply" =>
          /\ match.offset <= task.until
          /\ task.until <= Len(journal[match.run])
          /\ task.wait = "none" => match.offset < task.until
    /\ \A c \in Conns : conns[c].phase = "attaching" => conns[c].run # 0
    /\ AttachShape
    /\ DetachShape
    /\ StopShape

\* Recovery has read no further than the ledger has got.
MgrShape ==
    /\ mgr.op # "none" => worker.up
    /\ mgr.op = "none" => mgr.pc = "idle"
    /\ mgr.op # "none" => mgr.pc \in {"next", "apply", "release", "start"}
    /\ mgr.op = "ensure" => /\ mgr.conn \in Conns
                            /\ arena.run_id \in RunIds
                            /\ mgr.pc # "start" => runs[arena.run_id].status = "none"
    /\ mgr.op = "leave" => /\ mgr.player \in Players
                           /\ mgr.pc # "start"
    /\ mgr.pc = "start" => /\ arena.run_id \notin touched
                           /\ runs[arena.run_id].status = "running"
                           /\ \A r \in RunIds \ {arena.run_id} : runs[r].status # "running"
    /\ mgr.pc = "next" => mgr.offset = 0
    /\ mgr.pc \in {"apply", "release"} => /\ mgr.run \in RunIds
                                          /\ mgr.offset <= runs[mgr.run].sequence
    /\ mgr.pc = "apply" => mgr.offset < mgr.until /\ mgr.until <= Len(journal[mgr.run])
    /\ mgr.pc = "release" => mgr.offset = Len(journal[mgr.run])

----------------------------------------------------------------------------
(* What the ledger has made of the journals.                                *)

\* A life is dead because a journal line says so, and its payout goes to the
\* killer of that line.
DeadIsWritten ==
    \A l \in LifeIds : lives[l].status = "dead" =>
        /\ lives[l].run \in RunIds
        /\ \E m \in 1 .. runs[lives[l].run].sequence :
              /\ journal[lives[l].run][m].victim = l
              /\ payouts[l] # NoId => journal[lives[l].run][m].killer = payouts[l]

\* The lines that wait name lives of their run that are alive or already dead.
Backlog ==
    \A r \in RunIds : \A n \in Unapplied(r) :
        /\ lives[journal[r][n].victim].run = r
        /\ lives[journal[r][n].victim].status \in {"alive", "dead"}

----------------------------------------------------------------------------
(* What the engine may still write.                                         *)

\* The life l sits on slot s of run r, alive or dead.
Sits(l, r, s) == lives[l].run = r /\ lives[l].slot = s /\ lives[l].status \in {"alive", "dead"}

Honoured == \A s \in Slots : Ends(s) => Sits(engine.admission[s], engine.run, s)

\* An admission under way is for a life of the run of the engine that gets it.
Admits(n) == toEngine[n].kind = "admit"

Admitting ==
    engine.run # 0 =>
        \A n \in 1 .. Len(toEngine) : Admits(n) =>
            /\ toEngine[n].life \in LifeIds
            /\ Sits(toEngine[n].life, engine.run, toEngine[n].slot)

\* While a match goes on there is at most one, that of the attach which waits.
IsAdmitted(n) == acks[n].kind = "admit"

OneAdmission ==
    match.state = "open" =>
        /\ \A n \in 1 .. Len(toEngine) : Admits(n) =>
              /\ task.pc = "admit"
              /\ \A m \in 1 .. Len(toEngine) : Admits(m) => m = n
              /\ \A m \in 1 .. Len(acks) : ~IsAdmitted(m)
        /\ \A n \in 1 .. Len(acks) : IsAdmitted(n) =>
              /\ task.pc = "admit"
              /\ \A m \in 1 .. Len(acks) : IsAdmitted(m) => m = n

\* An answer to a revocation stands for an empty slot, unless the answer to an
\* admission follows.
Answering ==
    match.state = "open" =>
        \A n \in 1 .. Len(acks) :
            \/ ~Ends(acks[n].slot)
            \/ \E m \in n .. Len(acks) : IsAdmitted(m)

\* Once the engine has withdrawn a leaving player, no line will name a life of
\* that player, and at the end none that is left to read does.
LeaveShape ==
    task.op = "leave" =>
        /\ task.player \in Players
        /\ task.pc \in {"withdraw", "apply", "finish"}
        /\ task.next = "finish"
        /\ match.state = "open" \/ engine.run = 0
        /\ task.pc = "withdraw" =>
              \A l \in UsableOf(task.player) :
                  lives[l].status = "alive" /\ lives[l].run = match.run => lives[l].slot = task.slot
        /\ task.pc \in {"apply", "finish"} =>
              \A s \in Slots : Ends(s) => engine.admission[s] \notin UsableOf(task.player)
        /\ task.pc = "finish" =>
              \A n \in Unapplied(match.run) :
                  journal[match.run][n].victim \notin UsableOf(task.player)

GInv ==
    /\ IInv
    /\ SInv
    /\ EngineTyped
    /\ ServerTyped
    /\ SeatShape
    /\ MatchShape
    /\ EngineShape
    /\ JournalShape
    /\ TaskShape
    /\ MgrShape
    /\ EndedRunIsDrained
    /\ PrizesMatchJournal
    /\ DeadIsWritten
    /\ Backlog
    /\ Honoured
    /\ Admitting
    /\ OneAdmission
    /\ Answering
    /\ LeaveShape

----------------------------------------------------------------------------
(* The beginning.                                                           *)

LEMMA GameBounds ==
    /\ NoConn \notin Conns
    /\ Owner \in [Conns -> Players]
    /\ Holder \in [Entries -> Players]
    /\ BatchSize \in Nat \ {0}
    /\ MaxCrashes \in Nat
    /\ MaxSequence \in Nat
    /\ MaxRuns \in Nat
    /\ 0 \notin RunIds
    /\ 0 \notin Slots
    /\ NoId \notin LifeIds
    /\ RunIds \subseteq Nat
  <1>1. /\ NoConn \notin Conns
        /\ Owner \in [Conns -> Players]
        /\ Holder \in [Entries -> Players]
        /\ BatchSize \in Nat \ {0}
        /\ MaxCrashes \in Nat
    BY ServerAssumption, Zenon
  <1>2. MaxSequence \in Nat /\ MaxRuns \in Nat
    BY BoundAssumption
  <1>3. 0 \notin RunIds /\ 0 \notin Slots /\ NoId \notin LifeIds /\ RunIds \subseteq Nat
    BY BoundAssumption DEF RunIds, Slots, LifeIds, NoId
  <1> QED
    BY <1>1, <1>2, <1>3, Zenon

LEMMA GameLedgerInit == GameInit => IInv /\ SInv
  <1> SUFFICES ASSUME GameInit PROVE IInv /\ SInv
    OBVIOUS
  <1>0. NothingPlayed
    BY DEF GameInit
  <1>1. TypeOK
    <2>1. /\ lives \in [LifeIds -> Life]
          /\ runs \in [RunIds -> Run]
          /\ arena \in Arena
          /\ payouts \in [LifeIds -> 0 .. MaxLives]
          /\ refunds \in [Entries -> 0 .. LivesPerEntry]
      BY <1>0, Ranges, BoundAssumption, FeeAssumption DEF NothingPlayed, Life, Run, Arena, NoId
    <2>2. \A e \in Entries : Holder[e] \in Players
      BY GameBounds
    <2>3. entries \in [Entries -> Entry]
      BY <2>2, Ranges DEF GameInit, Entry
    <2>4. participants \in [Players -> Participant]
      BY DEF GameInit, Participant
    <2> QED
      BY <2>1, <2>3, <2>4 DEF TypeOK
  <1>2. \A l \in LifeIds : lives[l].status = "none" /\ payouts[l] = NoId
    BY <1>0 DEF NothingPlayed
  <1>3. \A e \in Entries : /\ entries[e].player \in Players
                           /\ entries[e].status = "paid"
                           /\ entries[e].remaining = LivesPerEntry
                           /\ entries[e].payable = FALSE
                           /\ refunds[e] = 0
    BY <1>0, GameBounds DEF GameInit, NothingPlayed
  <1>4. LivesConserved
    <2>1. \A e \in Entries : DeadOf(e) = {}
      BY <1>2 DEF DeadOf
    <2>2. \A e \in Entries : Cardinality(DeadOf(e)) = 0
      BY <2>1, FS_EmptySet
    <2> QED
      BY <1>3, <2>2, BoundAssumption DEF LivesConserved
  <1>5. EntryRows /\ LifeRows /\ RefundedHasLeft
    BY <1>2, <1>3 DEF EntryRows, LifeRows, RefundedHasLeft
  <1>6. OneUsableLife /\ FundedLife /\ LeaverIsSettled
    BY <1>2 DEF GameInit, OneUsableLife, FundedLife, LeaverIsSettled, UsableOf, UsableStatus, Usable
  <1>7. SlotsExclusive /\ EndedRunIsEmpty /\ PayoutsJustified
    BY <1>2 DEF SlotsExclusive, EndedRunIsEmpty, PayoutsJustified, AliveIn, AliveLives
  <1>8. RunRows /\ ClosureIsFinal /\ ExpiredArenaOwesNothing
    BY <1>0 DEF NothingPlayed, RunRows, ClosureIsFinal, ExpiredArenaOwesNothing
  <1>9. OneLiveInvoice
    BY <1>3 DEF OneLiveInvoice, EntriesOf, Live
  <1>10. DeathsAreJournaled
    <2>1. \A r \in RunIds : DeadIn(r) = {} /\ runs[r].sequence = 0
      BY <1>0, <1>2 DEF NothingPlayed, DeadIn
    <2>2. \A r \in RunIds : Cardinality(DeadIn(r)) <= runs[r].sequence
      BY <2>1, FS_EmptySet
    <2> QED
      BY <2>2 DEF DeathsAreJournaled, DeadIn
  <1> QED
    BY <1>1, <1>4, <1>5, <1>6, <1>7, <1>8, <1>9, <1>10 DEF IInv, SInv

LEMMA GameTypedInit == GameInit => EngineTyped /\ ServerTyped
  <1> SUFFICES ASSUME GameInit PROVE EngineTyped /\ ServerTyped
    OBVIOUS
  <1>1. engine \in EngineRecord
    BY DEF GameInit, RefereeInit, NoEngine, EngineRecord
  <1>2. /\ journal \in [RunIds -> Seq(Line)]
        /\ \A r \in RunIds : journal[r] = <<>>
        /\ toEngine \in Seq(Packet)
        /\ acks \in Seq(Ack)
    BY DEF GameInit, RefereeInit
  <1>3. match \in MatchRecord
    BY GameBounds DEF GameInit, NoMatch, MatchRecord
  <1>4. task \in TaskRecord
    BY GameBounds DEF GameInit, NoTask, TaskRecord, Ops
  <1>5. mgr \in MgrRecord
    BY GameBounds DEF GameInit, NoMgr, MgrRecord
  <1>6. conns \in [Conns -> SeatRecord]
    BY DEF GameInit, NoSeat, SeatRecord, Phases
  <1> QED
    BY <1>1, <1>2, <1>3, <1>4, <1>5, <1>6, GameBounds
       DEF GameInit, EngineTyped, ServerTyped, WorkerRecord, Broken

LEMMA GameInitInv == GameInit => GInv
  <1> SUFFICES ASSUME GameInit PROVE GInv
    OBVIOUS
  <1>1. IInv /\ SInv /\ EngineTyped /\ ServerTyped
    BY GameLedgerInit, GameTypedInit
  <1>2. /\ engine = NoEngine /\ engine.run = 0
        /\ toEngine = <<>> /\ acks = <<>>
        /\ \A r \in RunIds : journal[r] = <<>>
        /\ \A s \in Slots : engine.admission[s] = NoId
    BY DEF GameInit, RefereeInit, NoEngine
  <1>3. /\ \A l \in LifeIds : lives[l].status = "none"
        /\ \A r \in RunIds : runs[r].status = "none" /\ runs[r].sequence = 0
    BY DEF GameInit, NothingPlayed
  <1>4. \A c \in Conns : conns[c].life = NoId /\ conns[c].phase = "closed"
    BY DEF GameInit, NoSeat
  <1>5. \A s \in Slots : ~Ends(s)
    BY <1>2 DEF Ends
  <1>6. SeatShape /\ EngineShape /\ JournalShape /\ Honoured /\ Admitting
    BY <1>2, <1>3, <1>4, <1>5 DEF GameInit, SeatShape, EngineShape, JournalShape, Honoured, Admitting
  <1>7. /\ match.run = 0 /\ match.state = "none" /\ \A s \in Slots : match.peers[s] = NoConn
        /\ task.op = "none" /\ task.pc = "idle" /\ task.wait = "none"
        /\ mgr.op = "none" /\ mgr.pc = "idle"
    BY DEF GameInit, NoMatch, NoTask, NoMgr
  <1>8. MatchShape /\ MgrShape /\ OneAdmission /\ Answering /\ LeaveShape
    BY <1>7 DEF MatchShape, MgrShape, OneAdmission, Answering, LeaveShape
  <1>9. TaskShape
    BY <1>4, <1>7 DEF TaskShape, AttachShape, DetachShape, StopShape, Kinds
  <1>10. \A r \in RunIds : Unapplied(r) = {} /\ 1 .. runs[r].sequence = {}
    BY <1>2, <1>3 DEF Unapplied
  <1>11. EndedRunIsDrained /\ PrizesMatchJournal /\ DeadIsWritten /\ Backlog
    BY <1>2, <1>3, <1>10 DEF EndedRunIsDrained, PrizesMatchJournal, DeadIsWritten, Backlog
  <1> QED
    BY <1>1, <1>6, <1>8, <1>9, <1>11 DEF GInv

----------------------------------------------------------------------------
(* The arena is a client of the ledger.                                     *)

LEMMA LineTyped ==
  ASSUME EngineTyped, NEW r \in RunIds, NEW n \in 1 .. Len(journal[r])
  PROVE  journal[r][n] \in Line
  BY DEF EngineTyped

\* What the step of an operation says of its holder.
LEMMA TaskOps ==
  ASSUME GInv
  PROVE  /\ task.pc \in {"tabs", "pop", "admit"} => task.op = "attach"
         /\ task.pc \in {"detach", "gone"} => task.op = "detach"
         /\ task.pc = "renew" => task.op = "tick"
         /\ task.pc \in {"withdraw", "finish"} => task.op = "leave"
         /\ task.pc = "release" => task.op = "stop"
         /\ task.pc # "idle" \/ task.wait # "none" => task.op # "none"
  <1>1. task.op \in {"attach", "detach", "tick", "leave", "stop", "none"}
    BY DEF GInv, ServerTyped, TaskRecord, Ops
  <1>2. TaskShape /\ LeaveShape
    BY DEF GInv
  <1> QED
    BY <1>1, <1>2 DEF TaskShape, LeaveShape, AttachShape, DetachShape, StopShape

\* An operation under way has a match, and a worker without another manager.
LEMMA TaskMatch ==
  ASSUME GInv, match.run # 0 \/ task.op # "none" \/ match.state # "none"
  PROVE  /\ match.run \in RunIds
         /\ match.run # 0
         /\ match.state \in {"open", "closed", "stopping"}
         /\ worker.up
         /\ mgr.op = "none"
         /\ mgr.pc = "idle"
         /\ match.run = arena.run_id
         /\ match.run \in touched
         /\ match.offset = runs[match.run].sequence
         /\ runs[match.run].status = "running"
         /\ \A r \in RunIds \ {match.run} : runs[r].status # "running"
         /\ engine.run # 0 => engine.run = match.run
  <1>1. MatchShape /\ MgrShape /\ EngineShape
    BY DEF GInv
  <1>2. match \in MatchRecord
    BY DEF GInv, ServerTyped
  <1> QED
    BY <1>1, <1>2 DEF MatchShape, MgrShape, EngineShape, MatchRecord

\* The manager without a match works while no engine runs.
LEMMA MgrAlone ==
  ASSUME GInv, mgr.op # "none" \/ mgr.pc # "idle"
  PROVE  /\ mgr.op # "none"
         /\ worker.up
         /\ match.run = 0
         /\ match.state = "none"
         /\ task.op = "none"
         /\ task.pc = "idle"
         /\ task.wait = "none"
         /\ engine.run = 0
         /\ \A s \in Slots : ~Ends(s)
  <1>1. MatchShape /\ MgrShape /\ EngineShape /\ TaskShape
    BY DEF GInv
  <1> QED
    BY <1>1 DEF MatchShape, MgrShape, EngineShape, TaskShape

\* The next line of the journal, when there is one to apply.
LEMMA NextLine ==
  ASSUME GInv, task.pc = "apply", task.wait = "none"
  PROVE  /\ match.offset + 1 \in 1 .. Len(journal[match.run])
         /\ match.offset \in Nat
         /\ task.until \in Nat
         /\ Len(journal[match.run]) \in Nat
  <1>1. match.run \in RunIds
    BY TaskOps, TaskMatch
  <1>2. TaskShape
    BY DEF GInv
  <1>3. match.offset \in Nat /\ task.until \in Nat
    BY DEF GInv, ServerTyped, MatchRecord, TaskRecord
  <1>4. Len(journal[match.run]) \in Nat
    BY <1>1 DEF GInv, EngineTyped
  <1> QED
    BY <1>2, <1>3, <1>4 DEF TaskShape

LEMMA NextRecovered ==
  ASSUME GInv, mgr.pc = "apply"
  PROVE  /\ mgr.run \in RunIds
         /\ mgr.offset + 1 \in 1 .. Len(journal[mgr.run])
         /\ mgr.offset \in Nat
         /\ mgr.until \in Nat
         /\ Len(journal[mgr.run]) \in Nat
  <1>1. mgr.run \in RunIds /\ mgr.offset < mgr.until /\ mgr.until <= Len(journal[mgr.run])
    BY DEF GInv, MgrShape
  <1>2. mgr.offset \in Nat /\ mgr.until \in Nat
    BY DEF GInv, ServerTyped, MgrRecord
  <1>3. Len(journal[mgr.run]) \in Nat
    BY <1>1 DEF GInv, EngineTyped
  <1> QED
    BY <1>1, <1>2, <1>3

LEMMA LineLedger ==
  ASSUME EngineTyped, NEW r \in RunIds, NEW n \in 1 .. Len(journal[r]), ApplyLine(r, n)
  PROVE  [Next]_vars
  <1>1. journal[r][n] \in Line
    BY LineTyped
  <1>2. journal[r][n].victim \in LifeIds /\ journal[r][n].killer \in LifeIds \cup {NoId}
    BY <1>1 DEF Line
  <1> QED
    BY <1>2 DEF ApplyLine, Next, LifeStep

\* Every step of the arena is one transaction of the ledger or none.
LEMMA TaskLedger ==
  ASSUME GInv, TaskStep
  PROVE  [Next]_vars
  <1>1. CASE OperationFails
    BY <1>1 DEF OperationFails
  <1>2. CASE ApplyEvent
    <2>1. task.pc = "apply" /\ task.wait = "none" /\ ApplyLine(match.run, match.offset + 1)
      BY <1>2 DEF ApplyEvent
    <2>2. match.run \in RunIds /\ match.offset + 1 \in 1 .. Len(journal[match.run])
      BY <2>1, TaskOps, TaskMatch, NextLine
    <2> QED
      BY <2>1, <2>2, LineLedger DEF GInv
  <1>3. CASE DeadPeerRevoked
    BY <1>3 DEF DeadPeerRevoked
  <1>4. CASE Allocate
    <2>1. task.op = "attach"
      BY <1>4, TaskOps DEF Allocate, Allocating
    <2>2. match.run \in RunIds /\ Owner[task.conn] \in Players
      BY <2>1, TaskMatch, GameBounds DEF GInv, TaskShape, AttachShape
    <2>3. \A s : LowestFreeSlot(s) => s \in Slots
      BY DEF LowestFreeSlot
    <2> QED
      BY <1>4, <2>2, <2>3 DEF Allocate, ResumeLife, NewLife, Next, LifeStep
  <1>5. CASE (\E c \in Conns : AttachBegin(c)) \/ NothingToAttach \/ RevokeFormerLife
                \/ FormerLifeRevoked \/ CannotAllocate \/ Admitted
    BY <1>5 DEF AttachBegin, NothingToAttach, RevokeFormerLife, FormerLifeRevoked, CannotAllocate,
                Admitted
  <1>6. CASE DetachStep
    BY <1>6 DEF DetachStep, Disconnect, DetachBegin, Detached, Gone
  <1>7. CASE (\E p \in Players : LeaveBegin(p)) \/ Withdrawn
    BY <1>7 DEF LeaveBegin, Withdrawn
  <1>8. CASE LeaveEnds
    <2>1. task.op = "leave"
      BY <1>8, TaskOps DEF LeaveEnds
    <2>2. task.player \in Players /\ match.run \in RunIds
      BY <2>1, TaskMatch DEF GInv, LeaveShape
    <2> QED
      BY <1>8, <2>2 DEF LeaveEnds, Next, LeaveStep
  <1> QED
    BY <1>1, <1>2, <1>3, <1>4, <1>5, <1>6, <1>7, <1>8
    DEF TaskStep, ReplayStep, AttachStep, LeaveMatchStep

LEMMA MgrLedger ==
  ASSUME GInv, RecoveryStep
  PROVE  [Next]_vars
  <1>1. CASE \E r \in RunIds : RecoverNext(r) \/ JournalMissing(r)
    BY <1>1 DEF RecoverNext, JournalMissing
  <1>2. CASE RecoverApply
    <2>1. mgr.pc = "apply" /\ ApplyLine(mgr.run, mgr.offset + 1)
      <3>1. mgr \in MgrRecord
        BY DEF GInv, ServerTyped
      <3> QED
        BY <1>2, <3>1 DEF RecoverApply, MgrRecord
    <2> QED
      BY <2>1, NextRecovered, LineLedger DEF GInv
  <1>3. CASE Recovered
    <2>1. mgr.pc = "release" /\ RecoverRun(mgr.run)
      BY <1>3 DEF Recovered
    <2>2. mgr.run \in RunIds
      BY <2>1 DEF GInv, MgrShape
    <2> QED
      BY <2>1, <2>2 DEF Next, ArenaStep
  <1>4. CASE InsertRun
    <2>1. mgr.op = "ensure" /\ StartRun(arena.run_id)
      BY <1>4 DEF InsertRun
    <2>2. arena.run_id \in RunIds
      BY <2>1 DEF GInv, MgrShape
    <2> QED
      BY <2>1, <2>2 DEF Next, ArenaStep
  <1>5. CASE StartMatch
    BY <1>5 DEF StartMatch
  <1>6. CASE StartFails
    <2>1. mgr.pc = "start" /\ (UNCHANGED vars \/ StopRun(arena.run_id))
      BY <1>6 DEF StartFails
    <2>2. mgr.op = "ensure"
      <3>1. mgr.op \in {"none", "ensure", "leave"} /\ MgrShape
        BY DEF GInv, ServerTyped, MgrRecord
      <3> QED
        BY <2>1, <3>1 DEF MgrShape
    <2>3. arena.run_id \in RunIds
      BY <2>2 DEF GInv, MgrShape
    <2> QED
      BY <2>1, <2>3 DEF Next, ArenaStep
  <1>7. CASE LeaveRecovered
    <2>1. mgr.player \in Players
      BY <1>7 DEF LeaveRecovered, GInv, MgrShape
    <2> QED
      BY <1>7, <2>1 DEF LeaveRecovered, Next, LeaveStep
  <1> QED
    BY <1>1, <1>2, <1>3, <1>4, <1>5, <1>6, <1>7 DEF RecoveryStep

LEMMA GameLedgerStep ==
  ASSUME GInv, [GameNext]_gameVars
  PROVE  [Next]_vars
  <1>1. CASE TaskStep
    BY <1>1, TaskLedger
  <1>2. CASE RecoveryStep
    BY <1>2, MgrLedger
  <1>3. CASE MatchStep
    <2>1. CASE TickBegin \/ Renewed \/ VisitStops \/ VisitEnds \/ SocketEof \/ StopBegin
      BY <2>1 DEF TickBegin, Renewed, VisitStops, VisitEnds, SocketEof, StopBegin
    <2>2. CASE StopEnds
      <3>1. match.run \in RunIds
        BY <2>2, TaskOps, TaskMatch DEF StopEnds
      <3> QED
        BY <2>2, <3>1 DEF StopEnds, Next, ArenaStep
    <2> QED
      BY <1>3, <2>1, <2>2 DEF MatchStep
  <1>4. CASE \E c \in Conns : EnsureBegin(c)
    BY <1>4 DEF EnsureBegin, Next, ArenaStep
  <1>5. CASE LedgerStep
    BY <1>5 DEF LedgerStep, Next, ArenaStep, LeaveStep
  <1>6. CASE \/ EngineStep /\ UNCHANGED <<vars, serverVars>>
             \/ EngineTerminates \/ EngineCrashes \/ DropAck \/ Crash \/ Restart
             \/ (\E p \in Players : LeaveWithoutMatch(p))
             \/ (\E c \in Conns : Connect(c))
             \/ UnstartedStep
    BY <1>6 DEF EngineTerminates, EngineCrashes, DropAck, Crash, Restart, LeaveWithoutMatch, Connect,
                UnstartedStep, VisitBlocks, EnsureDrops
  <1>7. CASE UNCHANGED gameVars
    BY <1>7 DEF gameVars
  <1> QED
    BY <1>1, <1>2, <1>3, <1>4, <1>5, <1>6, <1>7 DEF GameNext

----------------------------------------------------------------------------
(* What a step does to the engine and to the journals.                      *)

LEMMA LineAdded ==
  ASSUME EngineTyped, NEW s \in Slots, NEW k \in LifeIds \cup {NoId},
         Running, Ends(s), journal' = Journaled(s, k)
  PROVE  /\ engine.run \in RunIds
         /\ engine.admission[s] \in LifeIds
         /\ journal' = [journal EXCEPT ![engine.run] =
                           Append(@, [victim |-> engine.admission[s], killer |-> k])]
         /\ [victim |-> engine.admission[s], killer |-> k] \in Line
  BY DEF EngineTyped, EngineRecord, Running, Ends, Journaled, Line, NoId

LEMMA AckTyped ==
  ASSUME EngineTyped, NEW n \in 1 .. Len(acks)
  PROVE  acks[n].slot \in Slots
  <1>1. acks \in Seq(Ack)
    BY DEF EngineTyped
  <1>2. acks[n] \in Ack
    BY <1>1
  <1> QED
    BY <1>2 DEF Ack

\* What an append does to the lines of the journals.
LEMMA AppendedLines ==
  ASSUME EngineTyped, NEW q \in RunIds, NEW line \in Line,
         journal' = [journal EXCEPT ![q] = Append(@, line)]
  PROVE  /\ journal' \in [RunIds -> Seq(Line)]
         /\ \A r \in RunIds :
               /\ Len(journal'[r]) = IF r = q THEN Len(journal[r]) + 1 ELSE Len(journal[r])
               /\ \A n \in 1 .. Len(journal[r]) : journal'[r][n] = journal[r][n]
         /\ journal'[q][Len(journal[q]) + 1] = line
  <1>1. journal \in [RunIds -> Seq(Line)]
    BY DEF EngineTyped
  <1>2. journal'[q] = Append(journal[q], line) /\ \A r \in RunIds \ {q} : journal'[r] = journal[r]
    BY <1>1
  <1>3. journal[q] \in Seq(Line)
    BY <1>1
  <1>4. /\ Append(journal[q], line) \in Seq(Line)
        /\ Len(Append(journal[q], line)) = Len(journal[q]) + 1
        /\ \A n \in 1 .. Len(journal[q]) : Append(journal[q], line)[n] = journal[q][n]
        /\ Append(journal[q], line)[Len(journal[q]) + 1] = line
    BY <1>3, AppendProperties
  <1> QED
    BY <1>1, <1>2, <1>4

\* The engine writes no line, or that a life it honours has ended.
Writes ==
    \/ UNCHANGED journal
    \/ \E s \in Slots, line \in Line :
          /\ Ends(s)
          /\ line.victim = engine.admission[s]
          /\ Len(journal[engine.run]) < MaxSequence
          /\ journal' = [journal EXCEPT ![engine.run] = Append(@, line)]

\* An admission the engine honours is not a new one.
StillEnds(t) == Ends(t)' => Ends(t) /\ engine'.admission[t] = engine.admission[t]

\* The engine takes a packet and answers it.
Takes(kind, s) ==
    /\ toEngine # <<>>
    /\ Head(toEngine).kind = kind
    /\ Head(toEngine).slot = s
    /\ toEngine' = Tail(toEngine)
    /\ acks' = Append(acks, [kind |-> kind, slot |-> s])
    /\ \A t \in Slots \ {s} : StillEnds(t)
    /\ kind # "admit" => ~Ends(s)'
    /\ kind = "admit" => engine'.admission[s] = Head(toEngine).life

EngineMove ==
    /\ engine.run \in RunIds
    /\ engine' \in EngineRecord
    /\ engine'.run = engine.run
    /\ Writes
    /\ \/ UNCHANGED <<toEngine, acks>> /\ \A t \in Slots : StillEnds(t)
       \/ \E s \in Slots, kind \in Kinds : Takes(kind, s)

LEMMA EngineMoves ==
  ASSUME GInv, EngineStep
  PROVE  EngineMove
  <1>0. /\ engine \in EngineRecord
        /\ toEngine \in Seq(Packet)
        /\ EngineTyped
    BY DEF GInv, EngineTyped
  <1>1. ASSUME NEW s \in Slots, Running PROVE
           /\ Revoked(s) \in EngineRecord
           /\ Revoked(s).run = engine.run
           /\ Revoked(s).admission[s] = NoId
           /\ \A t \in Slots \ {s} : /\ Revoked(s).admission[t] = engine.admission[t]
                                     /\ Revoked(s).consumed[t] = engine.consumed[t]
    BY <1>0 DEF EngineRecord, Revoked
  <1>2. toEngine # <<>> => Head(toEngine) \in Packet
    BY <1>0
  <1>3. ASSUME NEW s \in Slots, AdmitLife(s) PROVE EngineMove
    <2>1. /\ engine.run # 0 /\ toEngine # <<>>
          /\ Head(toEngine).kind = "admit" /\ Head(toEngine).slot = s
          /\ toEngine' = Tail(toEngine)
          /\ acks' = Append(acks, [kind |-> "admit", slot |-> s])
          /\ UNCHANGED journal
          /\ engine' = [engine EXCEPT !.admission[s] = Head(toEngine).life, !.consumed[s] = FALSE]
      BY <1>3 DEF AdmitLife, Answer, Running
    <2>2. Head(toEngine).life \in LifeIds \cup {NoId}
      BY <1>2, <2>1 DEF Packet
    <2>3. /\ engine' \in EngineRecord
          /\ engine'.run = engine.run
          /\ engine'.admission[s] = Head(toEngine).life
          /\ \A t \in Slots \ {s} : /\ engine'.admission[t] = engine.admission[t]
                                    /\ engine'.consumed[t] = engine.consumed[t]
      BY <1>0, <2>1, <2>2 DEF EngineRecord
    <2>4. \A t \in Slots \ {s} : StillEnds(t)
      BY <2>3 DEF Ends, StillEnds
    <2>5. engine.run \in RunIds
      BY <1>0, <2>1 DEF EngineRecord
    <2> QED
      BY <2>1, <2>3, <2>4, <2>5 DEF Kinds, EngineMove, Writes, Takes
  <1>4. ASSUME NEW s \in Slots, RevokeLife(s) PROVE EngineMove
    <2>1. /\ Running /\ engine.run # 0 /\ toEngine # <<>>
          /\ Head(toEngine).kind = "revoke" /\ Head(toEngine).slot = s
          /\ toEngine' = Tail(toEngine)
          /\ acks' = Append(acks, [kind |-> "revoke", slot |-> s])
          /\ UNCHANGED journal
          /\ engine' = Revoked(s)
      BY <1>4 DEF RevokeLife, Answer, Running
    <2>2. \A t \in Slots \ {s} : StillEnds(t)
      BY <1>1, <2>1 DEF Ends, StillEnds
    <2>3. ~Ends(s)'
      BY <1>1, <2>1 DEF Ends, StillEnds
    <2>4. engine.run \in RunIds
      BY <1>0, <2>1 DEF EngineRecord
    <2> QED
      BY <1>1, <2>1, <2>2, <2>3, <2>4 DEF Kinds, EngineMove, Writes, Takes
  <1>5. ASSUME NEW s \in Slots, ForfeitLife(s) PROVE EngineMove
    <2>1. /\ Running /\ engine.run # 0 /\ toEngine # <<>>
          /\ Head(toEngine).kind = "forfeit" /\ Head(toEngine).slot = s
          /\ toEngine' = Tail(toEngine)
          /\ acks' = Append(acks, [kind |-> "forfeit", slot |-> s])
          /\ engine' = Revoked(s)
      BY <1>5 DEF ForfeitLife, Answer, Running
    <2>2. \A t \in Slots \ {s} : StillEnds(t)
      BY <1>1, <2>1 DEF Ends, StillEnds
    <2>3. ~Ends(s)'
      BY <1>1, <2>1 DEF Ends, StillEnds
    <2>4. engine.run \in RunIds
      BY <1>0, <2>1 DEF EngineRecord
    <2>5. CASE ~Ends(s)
      BY <1>1, <1>5, <2>1, <2>2, <2>3, <2>4, <2>5 DEF Kinds, ForfeitLife, EngineMove, Writes, Takes
    <2>6. CASE Ends(s)
      <3>1. Len(journal[engine.run]) < MaxSequence /\ journal' = Journaled(s, NoId)
        BY <1>5, <2>6 DEF ForfeitLife
      <3>2. PICK line \in Line :
               /\ line.victim = engine.admission[s]
               /\ journal' = [journal EXCEPT ![engine.run] = Append(@, line)]
        BY <1>0, <2>1, <2>6, <3>1, LineAdded
      <3> QED
        BY <1>1, <2>1, <2>2, <2>3, <2>4, <2>6, <3>1, <3>2 DEF Kinds, EngineMove, Writes, Takes
    <2> QED
      BY <2>5, <2>6
  <1>6. ASSUME NEW s \in Slots, NEW k \in LifeIds \cup {NoId}, CharacterDies(s, k) PROVE EngineMove
    <2>1. /\ Running /\ engine.run # 0 /\ Ends(s)
          /\ Len(journal[engine.run]) < MaxSequence
          /\ engine' = [engine EXCEPT !.consumed[s] = TRUE]
          /\ journal' = Journaled(s, k)
          /\ UNCHANGED <<toEngine, acks>>
      BY <1>6 DEF CharacterDies, Running
    <2>2. /\ engine' \in EngineRecord
          /\ engine'.run = engine.run
          /\ engine'.admission = engine.admission
          /\ engine'.consumed[s] = TRUE
          /\ \A t \in Slots \ {s} : engine'.consumed[t] = engine.consumed[t]
      BY <1>0, <2>1 DEF EngineRecord
    <2>3. \A t \in Slots : StillEnds(t)
      BY <2>2 DEF Ends, StillEnds
    <2>4. PICK line \in Line :
             /\ line.victim = engine.admission[s]
             /\ journal' = [journal EXCEPT ![engine.run] = Append(@, line)]
      BY <1>0, <2>1, LineAdded
    <2>5. engine.run \in RunIds
      BY <1>0, <2>1 DEF EngineRecord
    <2> QED
      BY <2>1, <2>2, <2>3, <2>4, <2>5 DEF EngineMove, Writes
  <1> QED
    BY <1>3, <1>4, <1>5, <1>6 DEF EngineStep

----------------------------------------------------------------------------
(* What a step does to the lives, the runs and the engine.                  *)

\* No life row, no payout and no applied line; a run may start.
QuietTables ==
    /\ UNCHANGED <<lives, payouts>>
    /\ \A r \in RunIds :
          /\ runs'[r].sequence = runs[r].sequence
          /\ runs'[r].status # runs[r].status =>
                runs[r].status = "none" /\ runs'[r].status = "running"

\* A life takes a seat in the run of the match.
SeatTables ==
    /\ match.run \in RunIds
    /\ \E p \in Players, l \in LifeIds, s \in Slots : SeatGiven(p, match.run, l, s)

\* The next line of a journal is applied.
NextOf(r) == runs[r].sequence + 1

LineTables ==
    \E r \in RunIds :
        /\ NextOf(r) \in 1 .. Len(journal[r])
        /\ LET line == journal[r][NextOf(r)]
           IN  ConsumeDeath(r, line.victim, line.killer) \/ SkipDeath(r, line.victim)

\* A leave ends, in a match that has withdrawn the player or without an engine.
LeaveTables ==
    \/ task.pc = "finish" /\ match.run \in RunIds /\ FinishLeave(task.player, match.run)
    \/ engine.run = 0 /\ \E p \in Players : FinishLeave(p, NoId)

\* A run ends whose journal has been applied, without an engine.
EndTables ==
    /\ engine.run = 0
    /\ \E r \in RunIds : Unapplied(r) = {} /\ (StopRun(r) \/ RecoverRun(r))

LEMMA RunsTyped ==
  ASSUME GInv
  PROVE  /\ runs \in [RunIds -> Run]
         /\ \A r \in RunIds : /\ runs[r].sequence \in Nat
                              /\ Len(journal[r]) \in Nat
                              /\ runs[r].sequence <= Len(journal[r])
  <1>1. runs \in [RunIds -> Run]
    BY DEF GInv, IInv, TypeOK
  <1>2. \A r \in RunIds : runs[r].sequence \in Nat
    BY <1>1 DEF Run
  <1>3. \A r \in RunIds : Len(journal[r]) \in Nat
    BY DEF GInv, EngineTyped
  <1>4. \A r \in RunIds : runs[r].sequence <= Len(journal[r])
    BY DEF GInv, PrizesMatchJournal
  <1> QED
    BY <1>1, <1>2, <1>3, <1>4

LEMMA QuietStart ==
  ASSUME GInv, NEW r \in RunIds, StartRun(r)
  PROVE  QuietTables
  <1>1. runs \in [RunIds -> Run]
    BY RunsTyped
  <1> QED
    BY <1>1 DEF StartRun, QuietTables, Run

LEMMA LineKind ==
  ASSUME GInv, NEW r \in RunIds, NEW n \in 1 .. Len(journal[r]), ApplyLine(r, n)
  PROVE  QuietTables \/ LineTables
  <1>1. CASE n <= runs[r].sequence
    BY <1>1 DEF ApplyLine, vars, QuietTables
  <1>2. CASE ~ (n <= runs[r].sequence)
    <2>1. /\ n = NextOf(r)
          /\ ConsumeDeath(r, journal[r][n].victim, journal[r][n].killer)
                \/ SkipDeath(r, journal[r][n].victim)
      BY <1>2 DEF ApplyLine, NextOf
    <2> QED
      BY <2>1 DEF LineTables
  <1> QED
    BY <1>1, <1>2

LEMMA TaskTables ==
  ASSUME GInv, TaskStep
  PROVE  /\ UNCHANGED <<engine, journal>>
         /\ QuietTables \/ SeatTables \/ LineTables \/ LeaveTables
  <1>1. CASE ApplyEvent
    <2>1. task.pc = "apply" /\ task.wait = "none" /\ ApplyLine(match.run, match.offset + 1)
      BY <1>1 DEF ApplyEvent
    <2>2. match.run \in RunIds /\ match.offset + 1 \in 1 .. Len(journal[match.run])
      BY <2>1, TaskOps, TaskMatch, NextLine
    <2>3. QuietTables \/ LineTables
      BY <2>1, <2>2, LineKind
    <2> QED
      BY <1>1, <2>3 DEF ApplyEvent
  <1>2. CASE Allocate
    <2>1. task.op = "attach"
      BY <1>2, TaskOps DEF Allocate, Allocating
    <2>2. match.run \in RunIds /\ Owner[task.conn] \in Players
      BY <2>1, TaskMatch, GameBounds DEF GInv, TaskShape, AttachShape
    <2>3. \A s : LowestFreeSlot(s) => s \in Slots
      BY DEF LowestFreeSlot
    <2>4. \/ UNCHANGED vars
          \/ \E l \in LifeIds, s \in Slots :
                ResumeLife(Owner[task.conn], match.run, l, s)
                   \/ NewLife(Owner[task.conn], match.run, l, s)
      BY <1>2, <2>3 DEF Allocate, ResumeLife, NewLife
    <2>5. QuietTables \/ SeatTables
      BY <2>2, <2>4 DEF QuietTables, SeatTables, SeatGiven, vars
    <2> QED
      BY <1>2, <2>5 DEF Allocate
  <1>3. CASE LeaveEnds
    <2>1. task.op = "leave"
      BY <1>3, TaskOps DEF LeaveEnds
    <2>2. match.run \in RunIds
      BY <2>1, TaskMatch
    <2> QED
      BY <1>3, <2>2 DEF LeaveEnds, ipcVars, LeaveTables
  <1>4. CASE \/ OperationFails \/ DeadPeerRevoked
             \/ (\E c \in Conns : AttachBegin(c)) \/ NothingToAttach \/ RevokeFormerLife
             \/ FormerLifeRevoked \/ CannotAllocate \/ Admitted
    <2>1. UNCHANGED <<vars, engine, journal>>
      BY <1>4 DEF OperationFails, DeadPeerRevoked, AttachBegin, NothingToAttach, RevokeFormerLife,
                  FormerLifeRevoked, CannotAllocate, Admitted, ipcVars
    <2> QED
      BY <2>1 DEF vars, QuietTables
  <1>5. CASE DetachStep \/ (\E p \in Players : LeaveBegin(p)) \/ Withdrawn
    <2>1. UNCHANGED <<vars, engine, journal>>
      BY <1>5 DEF DetachStep, Disconnect, DetachBegin, Detached, Gone, LeaveBegin, Withdrawn, ipcVars
    <2> QED
      BY <2>1 DEF vars, QuietTables
  <1> QED
    BY <1>1, <1>2, <1>3, <1>4, <1>5 DEF TaskStep, ReplayStep, AttachStep, LeaveMatchStep

LEMMA MgrTables ==
  ASSUME GInv, RecoveryStep
  PROVE  /\ engine.run = 0
         /\ UNCHANGED journal
         /\ QuietTables \/ LineTables \/ LeaveTables \/ EndTables
         /\ UNCHANGED engine \/ (StartMatch /\ UNCHANGED vars)
  <1>0. MgrShape
    BY DEF GInv
  <1>1. CASE \E r \in RunIds : RecoverNext(r) \/ JournalMissing(r)
    <2>1. mgr.pc = "next" /\ UNCHANGED <<vars, engine, journal>>
      BY <1>1 DEF RecoverNext, JournalMissing, ipcVars
    <2> QED
      BY <2>1, MgrAlone DEF vars, QuietTables
  <1>2. CASE RecoverApply
    <2>1. mgr.pc = "apply" /\ ApplyLine(mgr.run, mgr.offset + 1) /\ UNCHANGED <<engine, journal>>
      <3>1. mgr \in MgrRecord
        BY DEF GInv, ServerTyped
      <3> QED
        BY <1>2, <3>1 DEF RecoverApply, MgrRecord, ipcVars
    <2>2. QuietTables \/ LineTables
      BY <2>1, NextRecovered, LineKind
    <2> QED
      BY <2>1, <2>2, MgrAlone
  <1>3. CASE Recovered
    <2>1. mgr.pc = "release" /\ RecoverRun(mgr.run) /\ UNCHANGED <<engine, journal>>
      BY <1>3 DEF Recovered, ipcVars
    <2>2. /\ mgr.run \in RunIds
          /\ mgr.offset <= runs[mgr.run].sequence
          /\ mgr.offset = Len(journal[mgr.run])
      BY <1>0, <2>1 DEF MgrShape
    <2>3. Unapplied(mgr.run) = {}
      BY <2>2, RunsTyped DEF Unapplied
    <2> QED
      BY <2>1, <2>2, <2>3, MgrAlone DEF EndTables
  <1>4. CASE InsertRun
    <2>1. mgr.op = "ensure" /\ StartRun(arena.run_id) /\ UNCHANGED <<engine, journal>>
      BY <1>4 DEF InsertRun, ipcVars
    <2>2. arena.run_id \in RunIds
      BY <1>0, <2>1 DEF MgrShape
    <2> QED
      BY <2>1, <2>2, QuietStart, MgrAlone
  <1>5. CASE StartMatch
    <2>1. mgr.pc = "start" /\ UNCHANGED <<vars, journal>>
      BY <1>5 DEF StartMatch, EngineStarts
    <2> QED
      BY <1>5, <2>1, MgrAlone DEF vars, QuietTables
  <1>6. CASE StartFails
    <2>1. /\ mgr.pc = "start"
          /\ UNCHANGED vars \/ StopRun(arena.run_id)
          /\ UNCHANGED <<engine, journal>>
      BY <1>6 DEF StartFails, ipcVars
    <2>2. mgr.op = "ensure"
      <3>1. mgr.op \in {"none", "ensure", "leave"}
        BY DEF GInv, ServerTyped, MgrRecord
      <3> QED
        BY <1>0, <2>1, <3>1 DEF MgrShape
    <2>3. arena.run_id \in RunIds /\ arena.run_id \notin touched
      BY <1>0, <2>1, <2>2 DEF MgrShape
    <2>4. Unapplied(arena.run_id) = {}
      <3>1. journal[arena.run_id] = <<>>
        BY <2>3 DEF GInv, JournalShape
      <3> QED
        BY <3>1 DEF Unapplied
    <2> QED
      BY <2>1, <2>3, <2>4, MgrAlone DEF vars, QuietTables, EndTables
  <1>7. CASE LeaveRecovered
    <2>1. /\ mgr.op # "none" /\ mgr.player \in Players
          /\ FinishLeave(mgr.player, NoId)
          /\ UNCHANGED <<engine, journal>>
      BY <1>0, <1>7 DEF LeaveRecovered, MgrShape, ipcVars
    <2> QED
      BY <2>1, MgrAlone DEF LeaveTables
  <1> QED
    BY <1>1, <1>2, <1>3, <1>4, <1>5, <1>6, <1>7 DEF RecoveryStep

\* The engine moves by itself, ends, or starts; a step of another process leaves
\* it and the journals alone.
EngineAlone ==
    /\ UNCHANGED <<vars, serverVars>>
    /\ \/ EngineMove
       \/ engine' = NoEngine /\ toEngine' = <<>> /\ UNCHANGED <<journal, acks>>

LEMMA StepTables ==
  ASSUME GInv, [GameNext]_gameVars
  PROVE  /\ QuietTables \/ SeatTables \/ LineTables \/ LeaveTables \/ EndTables
         /\ \/ UNCHANGED <<engine, journal>>
            \/ QuietTables /\ EngineAlone
            \/ QuietTables /\ StartMatch
  <1>0. UNCHANGED vars => QuietTables
    BY DEF vars, QuietTables
  <1>1. CASE TaskStep
    BY <1>1, TaskTables
  <1>2. CASE RecoveryStep
    BY <1>0, <1>2, MgrTables
  <1>3. CASE MatchStep
    <2>1. CASE TickBegin \/ Renewed \/ VisitStops \/ VisitEnds \/ SocketEof \/ StopBegin
      <3>1. UNCHANGED <<vars, engine, journal>>
        BY <2>1 DEF TickBegin, Renewed, VisitStops, VisitEnds, SocketEof, StopBegin, ipcVars
      <3> QED
        BY <1>0, <3>1
    <2>2. CASE StopEnds
      <3>1. task.pc = "release" /\ StopRun(match.run) /\ UNCHANGED <<engine, journal>>
        BY <2>2 DEF StopEnds, ipcVars
      <3>2. task.op = "stop"
        BY <3>1, TaskOps
      <3>3. match.run \in RunIds /\ match.offset = runs[match.run].sequence
        BY <3>2, TaskMatch
      <3>4. engine.run = 0 /\ match.offset = Len(journal[match.run])
        BY <3>1, <3>2 DEF GInv, TaskShape, StopShape
      <3>5. Unapplied(match.run) = {}
        BY <3>3, <3>4, RunsTyped DEF Unapplied
      <3> QED
        BY <3>1, <3>3, <3>4, <3>5 DEF EndTables
    <2> QED
      BY <1>3, <2>1, <2>2 DEF MatchStep
  <1>4. CASE \E c \in Conns : EnsureBegin(c)
    <2>1. UNCHANGED <<engine, journal>> /\ (UNCHANGED vars \/ \E r \in RunIds : LeaseArena(r))
      BY <1>4 DEF EnsureBegin, ipcVars
    <2> QED
      BY <1>0, <2>1 DEF LeaseArena, QuietTables
  <1>5. CASE LedgerStep
    BY <1>5 DEF LedgerStep, CloseGame, RequestLeave, LeaseExpires, QuietTables, ipcVars
  <1>6. CASE \/ EngineStep /\ UNCHANGED <<vars, serverVars>>
             \/ EngineTerminates \/ EngineCrashes
    <2>1. UNCHANGED <<vars, serverVars>> /\ (EngineStep \/ EngineExits)
      BY <1>6 DEF EngineTerminates, EngineCrashes
    <2> QED
      BY <1>0, <2>1, EngineMoves DEF EngineExits, EngineAlone
  <1>7. CASE \/ DropAck \/ Crash \/ Restart
             \/ (\E p \in Players : LeaveWithoutMatch(p))
             \/ (\E c \in Conns : Connect(c))
             \/ UnstartedStep
    <2>1. UNCHANGED <<vars, engine, journal>>
      BY <1>7 DEF DropAck, Crash, Restart, LeaveWithoutMatch, Connect, UnstartedStep, VisitBlocks,
                  EnsureDrops, ipcVars
    <2> QED
      BY <1>0, <2>1
  <1>8. CASE UNCHANGED gameVars
    BY <1>0, <1>8 DEF gameVars, ipcVars
  <1> QED
    BY <1>1, <1>2, <1>3, <1>4, <1>5, <1>6, <1>7, <1>8 DEF GameNext

----------------------------------------------------------------------------
(* The books: the journals and what the ledger has made of them.            *)

\* Lines are only added, by the engine, for a life it still honours.
LEMMA JournalGrows ==
  ASSUME GInv, [GameNext]_gameVars
  PROVE  /\ journal' \in [RunIds -> Seq(Line)]
         /\ \A r \in RunIds :
               /\ Len(journal'[r]) \in Nat
               /\ Len(journal'[r]) <= MaxSequence
               /\ Len(journal[r]) \in Nat
               /\ Len(journal[r]) <= Len(journal'[r])
               /\ \A n \in 1 .. Len(journal[r]) : journal'[r][n] = journal[r][n]
               /\ \A n \in 1 .. Len(journal'[r]) : n > Len(journal[r]) =>
                     /\ UNCHANGED vars
                     /\ r = engine.run
                     /\ \E s \in Slots : Ends(s) /\ journal'[r][n].victim = engine.admission[s]
  <1>0. /\ EngineTyped
        /\ journal \in [RunIds -> Seq(Line)]
        /\ \A r \in RunIds : Len(journal[r]) \in Nat /\ Len(journal[r]) <= MaxSequence
    BY DEF GInv, EngineTyped
  <1>1. CASE UNCHANGED journal
    BY <1>0, <1>1
  <1>2. CASE EngineAlone /\ EngineMove
    <2>1. engine.run \in RunIds /\ Writes /\ UNCHANGED vars
      BY <1>2 DEF EngineAlone, EngineMove
    <2>2. CASE ~ UNCHANGED journal
      <3>1. PICK s \in Slots, line \in Line :
               /\ Ends(s)
               /\ line.victim = engine.admission[s]
               /\ Len(journal[engine.run]) < MaxSequence
               /\ journal' = [journal EXCEPT ![engine.run] = Append(@, line)]
        BY <2>1, <2>2 DEF Writes
      <3>2. /\ journal' \in [RunIds -> Seq(Line)]
            /\ \A r \in RunIds :
                  /\ Len(journal'[r]) = IF r = engine.run THEN Len(journal[r]) + 1 ELSE Len(journal[r])
                  /\ \A n \in 1 .. Len(journal[r]) : journal'[r][n] = journal[r][n]
            /\ journal'[engine.run][Len(journal[engine.run]) + 1] = line
        BY <1>0, <2>1, <3>1, AppendedLines
      <3>3. ASSUME NEW r \in RunIds, NEW n \in 1 .. Len(journal'[r]), n > Len(journal[r])
            PROVE  r = engine.run /\ n = Len(journal[engine.run]) + 1
        BY <1>0, <3>2, <3>3
      <3> QED
        BY <1>0, <2>1, <3>1, <3>2, <3>3, GameBounds
    <2> QED
      BY <1>1, <2>2
  <1> QED
    BY <1>1, <1>2, StepTables DEF EngineAlone, StartMatch, EngineStarts

\* The ledger applies at most the next line of a journal, which names a death.
LineApplied(r) ==
    /\ runs'[r].sequence = NextOf(r)
    /\ NextOf(r) \in 1 .. Len(journal[r])
    /\ lives'[journal[r][NextOf(r)].victim].status = "dead"
    /\ lives'[journal[r][NextOf(r)].victim].run = r

\* The row and the payout of a dead life are final.
DeathsKept ==
    \A l \in LifeIds : lives[l].status = "dead" => lives'[l] = lives[l] /\ payouts'[l] = payouts[l]

\* The life that dies is the victim of that line, and its killer is paid.
KilledBy(l, r) ==
    /\ lives'[l].run = r
    /\ runs'[r].sequence = NextOf(r)
    /\ NextOf(r) \in 1 .. Len(journal[r])
    /\ journal[r][NextOf(r)].victim = l
    /\ payouts'[l] # NoId => journal[r][NextOf(r)].killer = payouts'[l]

DeathsApplied ==
    /\ \A r \in RunIds : runs'[r].sequence = runs[r].sequence \/ LineApplied(r)
    /\ DeathsKept
    /\ \A l \in LifeIds : lives'[l].status = "dead" =>
          lives[l].status = "dead" \/ \E r \in RunIds : KilledBy(l, r)

LEMMA DeathsMove ==
  ASSUME GInv, [GameNext]_gameVars
  PROVE  DeathsApplied
  <1>0. IInv /\ EngineTyped /\ [Next]_vars /\ PayoutsJustified
    BY GameLedgerStep DEF GInv, SInv
  <1>1. \A l \in LifeIds : lives[l].status = "dead" => lives'[l] = lives[l]
    BY <1>0, RetiredKept
  <1>2. CASE QuietTables
    BY <1>1, <1>2 DEF QuietTables, DeathsApplied, DeathsKept
  <1>3. CASE SeatTables
    <2>1. PICK p \in Players, l \in LifeIds, s \in Slots : SeatGiven(p, match.run, l, s)
      BY <1>3 DEF SeatTables
    <2>2. match.run \in RunIds
      BY <1>3 DEF SeatTables
    <2> QED
      BY <1>0, <1>1, <2>1, <2>2, SeatTaken DEF DeathsApplied, DeathsKept
  <1>4. CASE LineTables
    <2>1. PICK r \in RunIds :
             /\ NextOf(r) \in 1 .. Len(journal[r])
             /\ \/ ConsumeDeath(r, journal[r][NextOf(r)].victim, journal[r][NextOf(r)].killer)
                \/ SkipDeath(r, journal[r][NextOf(r)].victim)
      BY <1>4 DEF LineTables
    <2>2. PICK v \in LifeIds, k \in LifeIds \cup {NoId} :
             v = journal[r][NextOf(r)].victim /\ k = journal[r][NextOf(r)].killer
      <3>1. journal[r][NextOf(r)] \in Line
        BY <1>0, <2>1, LineTyped
      <3> QED
        BY <3>1 DEF Line
    <2>3. CASE SkipDeath(r, v)
      <3>1. /\ UNCHANGED <<lives, payouts>>
            /\ lives[v].status = "dead" /\ lives[v].run = r
            /\ runs' = [runs EXCEPT ![r].sequence = @ + 1]
        BY <2>3 DEF SkipDeath
      <3>2. \A q \in RunIds : runs'[q].sequence =
                                 IF q = r THEN NextOf(r) ELSE runs[q].sequence
        BY <3>1, RunsTyped DEF Run, NextOf
      <3> QED
        BY <1>1, <2>1, <2>2, <3>1, <3>2 DEF DeathsApplied, DeathsKept, LineApplied
    <2>4. CASE ConsumeDeath(r, v, k)
      <3>1. /\ lives[v].run = r
            /\ lives[v].status # "dead"
            /\ \A l \in LifeIds : /\ lives'[l].run = lives[l].run
                                  /\ lives'[l].status = IF l = v THEN "dead" ELSE lives[l].status
            /\ \A q \in RunIds : runs'[q].sequence =
                                    IF q = r THEN runs[q].sequence + 1 ELSE runs[q].sequence
        BY <1>0, <2>4, KillRows
      <3>2. payouts[v] = NoId
        BY <1>0, <3>1 DEF PayoutsJustified
      <3>3. \A l \in LifeIds : payouts'[l] = IF l = v THEN CreditedKiller(r, v, k) ELSE payouts[l]
        <4>1. payouts \in [LifeIds -> 0 .. MaxLives]
          BY <1>0 DEF IInv, TypeOK
        <4> QED
          BY <2>4, <3>2, <4>1 DEF ConsumeDeath
      <3>4. CreditedKiller(r, v, k) \in {k, NoId}
        BY DEF CreditedKiller
      <3>5. \A q \in RunIds : runs'[q].sequence = runs[q].sequence \/ LineApplied(q)
        BY <2>1, <2>2, <3>1 DEF NextOf, LineApplied
      <3>6. DeathsKept
        BY <1>1, <3>1, <3>3 DEF DeathsKept
      <3>7. KilledBy(v, r)
        BY <2>1, <2>2, <3>1, <3>3, <3>4 DEF NextOf, KilledBy
      <3> QED
        BY <3>1, <3>5, <3>6, <3>7 DEF DeathsApplied
    <2> QED
      BY <2>1, <2>2, <2>3, <2>4
  <1>5. CASE LeaveTables
    <2>1. PICK p \in Players, q \in RunIds \cup {NoId} : FinishLeave(p, q)
      <3>1. task.pc = "finish" => task.player \in Players
        BY TaskOps DEF GInv, LeaveShape
      <3> QED
        BY <1>5, <3>1 DEF LeaveTables
    <2>2. /\ \A l \in LifeIds : lives'[l].status = "dead" => lives[l].status = "dead"
          /\ UNCHANGED <<runs, payouts>>
      BY <1>0, <2>1, RefundRows
    <2> QED
      BY <1>1, <2>2 DEF DeathsApplied, DeathsKept
  <1>6. CASE EndTables
    <2>1. PICK r \in RunIds : StopRun(r) \/ RecoverRun(r)
      BY <1>6 DEF EndTables
    <2>2. ReleaseLives(r) /\ UNCHANGED payouts
      BY <2>1 DEF StopRun, RecoverRun
    <2>3. \A l \in LifeIds : lives'[l].status = "dead" => lives[l].status = "dead"
      BY <1>0, <2>2, ReleaseRows
    <2>4. \A q \in RunIds : runs'[q].sequence = runs[q].sequence
      BY <2>1, RunsTyped DEF StopRun, RecoverRun, Run
    <2> QED
      BY <1>1, <2>2, <2>3, <2>4 DEF DeathsApplied, DeathsKept
  <1> QED
    BY <1>2, <1>3, <1>4, <1>5, <1>6, StepTables

LEMMA RunsMove ==
  ASSUME GInv, [GameNext]_gameVars
  PROVE  \A r \in RunIds :
            /\ runs[r].sequence \in Nat
            /\ runs'[r].sequence \in Nat
            /\ runs[r].sequence <= runs'[r].sequence
            /\ runs'[r].sequence <= Len(journal[r])
            /\ \/ runs'[r].status = runs[r].status
               \/ runs[r].status = "none" /\ runs'[r].status = "running"
               \/ /\ engine.run = 0
                  /\ Unapplied(r) = {}
                  /\ EndTables
  <1>0. runs \in [RunIds -> Run] /\ IInv /\ EngineTyped
    BY RunsTyped DEF GInv
  <1>1. ASSUME NEW r \in RunIds
        PROVE  /\ runs[r].sequence \in Nat
               /\ runs'[r].sequence \in Nat
               /\ runs[r].sequence <= runs'[r].sequence
               /\ runs'[r].sequence <= Len(journal[r])
    <2>1. /\ runs[r].sequence \in Nat
          /\ Len(journal[r]) \in Nat
          /\ runs[r].sequence <= Len(journal[r])
      BY RunsTyped
    <2>2. runs'[r].sequence = runs[r].sequence \/ LineApplied(r)
      BY DeathsMove DEF DeathsApplied
    <2> QED
      BY <2>1, <2>2 DEF LineApplied, NextOf
  <1>2. CASE QuietTables
    BY <1>1, <1>2 DEF QuietTables
  <1>3. CASE SeatTables \/ LeaveTables
    <2>1. UNCHANGED runs
      BY <1>3 DEF SeatTables, SeatGiven, ResumeLife, NewLife, LeaveTables, FinishLeave
    <2> QED
      BY <1>1, <2>1
  <1>4. CASE LineTables
    <2>1. PICK q \in RunIds : runs' = [runs EXCEPT ![q].sequence = @ + 1]
      BY <1>4 DEF LineTables, ConsumeDeath, SkipDeath
    <2>2. \A r \in RunIds : runs'[r].status = runs[r].status
      BY <1>0, <2>1 DEF Run
    <2> QED
      BY <1>1, <2>2
  <1>5. CASE EndTables
    <2>1. PICK q \in RunIds : Unapplied(q) = {} /\ (StopRun(q) \/ RecoverRun(q))
      BY <1>5 DEF EndTables
    <2>2. \A r \in RunIds \ {q} : runs'[r] = runs[r]
      BY <1>0, <2>1 DEF StopRun, RecoverRun
    <2> QED
      BY <1>1, <1>5, <2>1, <2>2 DEF EndTables
  <1> QED
    BY <1>2, <1>3, <1>4, <1>5, StepTables

\* Only the running run has lines that wait, and a match plays that run.
LEMMA Waiting ==
  ASSUME GInv, NEW r \in RunIds, Unapplied(r) # {}
  PROVE  /\ runs[r].status = "running"
         /\ match.run # 0 => r = match.run
  <1>1. Len(journal[r]) # 0
    BY DEF Unapplied
  <1>2. runs[r].status # "none"
    BY <1>1 DEF GInv, JournalShape
  <1>3. runs[r].status \notin {"stopped", "recovered"}
    BY DEF GInv, EndedRunIsDrained
  <1>4. runs[r].status = "running"
    BY <1>2, <1>3, RunsTyped DEF Run
  <1> QED
    BY <1>4 DEF GInv, MatchShape

\* A life with a line that waits, or in a running engine, stays where it is.
LEMMA SittingKept ==
  ASSUME GInv, [GameNext]_gameVars, NEW r \in RunIds, NEW v \in LifeIds,
         lives[v].run = r, lives[v].status \in {"alive", "dead"},
         match.run # 0 => r = match.run,
         task.pc = "finish" => v \notin UsableOf(task.player),
         engine.run # 0 \/ Unapplied(r) # {}
  PROVE  /\ lives'[v].run = r
         /\ lives'[v].slot = lives[v].slot
         /\ lives'[v].player = lives[v].player
         /\ lives'[v].status \in {"alive", "dead"}
  <1>0. IInv /\ EngineTyped
    BY DEF GInv
  <1>1. CASE QuietTables
    BY <1>1 DEF QuietTables
  <1>2. CASE SeatTables
    <2>1. match.run \in RunIds
      BY <1>2 DEF SeatTables
    <2>2. PICK p \in Players, l \in LifeIds, s \in Slots : SeatGiven(p, match.run, l, s)
      BY <1>2 DEF SeatTables
    <2>3. r = match.run
      BY <2>1, GameBounds
    <2>4. v # l
      BY <2>2, <2>3 DEF SeatGiven, ResumeLife, NewLife, NextRow, Current, UsableOf, UsableStatus
    <2> QED
      BY <1>0, <2>1, <2>2, <2>4, SeatTaken
  <1>3. CASE LineTables
    <2>1. PICK q \in RunIds :
             /\ NextOf(q) \in 1 .. Len(journal[q])
             /\ \/ ConsumeDeath(q, journal[q][NextOf(q)].victim, journal[q][NextOf(q)].killer)
                \/ SkipDeath(q, journal[q][NextOf(q)].victim)
      BY <1>3 DEF LineTables
    <2>2. PICK w \in LifeIds, k \in LifeIds \cup {NoId} : ConsumeDeath(q, w, k) \/ SkipDeath(q, w)
      <3>1. journal[q][NextOf(q)] \in Line
        BY <1>0, <2>1, LineTyped
      <3> QED
        BY <2>1, <3>1 DEF Line
    <2>3. CASE SkipDeath(q, w)
      BY <2>3 DEF SkipDeath
    <2>4. CASE ConsumeDeath(q, w, k)
      BY <1>0, <2>4, KillRows
    <2> QED
      BY <2>2, <2>3, <2>4
  <1>4. CASE LeaveTables
    <2>1. CASE task.pc = "finish" /\ match.run \in RunIds /\ FinishLeave(task.player, match.run)
      <3>1. task.player \in Players
        BY <2>1, TaskOps DEF GInv, LeaveShape
      <3> QED
        BY <1>0, <2>1, <3>1, RefundRows
    <2>2. CASE engine.run = 0 /\ \E p \in Players : FinishLeave(p, NoId)
      <3>1. PICK p \in Players : FinishLeave(p, NoId)
        BY <2>2
      <3>2. v \notin UsableOf(p)
        BY <3>1, GameBounds DEF FinishLeave, UsableOf, UsableStatus, NoId
      <3> QED
        BY <1>0, <3>1, <3>2, RefundRows
    <2> QED
      BY <1>4, <2>1, <2>2 DEF LeaveTables
  <1>5. CASE EndTables
    <2>1. PICK q \in RunIds : Unapplied(q) = {} /\ ReleaseLives(q)
      BY <1>5 DEF EndTables, StopRun, RecoverRun
    <2>2. q # r
      BY <1>5, <2>1 DEF EndTables
    <2> QED
      BY <1>0, <2>1, <2>2, ReleaseRows
  <1> QED
    BY <1>1, <1>2, <1>3, <1>4, <1>5, StepTables

LEMMA PrizesStep ==
  ASSUME GInv, [GameNext]_gameVars
  PROVE  PrizesMatchJournal'
  <1>1. SUFFICES ASSUME NEW r \in RunIds
                 PROVE  /\ runs'[r].sequence <= Len(journal'[r])
                        /\ \A n \in 1 .. runs'[r].sequence :
                              LET line == journal'[r][n]
                              IN  /\ lives'[line.victim].status = "dead"
                                  /\ payouts'[line.victim] # NoId =>
                                        \E m \in 1 .. n :
                                           /\ journal'[r][m].victim = line.victim
                                           /\ journal'[r][m].killer = payouts'[line.victim]
    BY DEF PrizesMatchJournal
  <1>2. /\ runs[r].sequence \in Nat /\ runs'[r].sequence \in Nat
        /\ runs[r].sequence <= Len(journal[r])
        /\ runs'[r].sequence <= Len(journal[r])
        /\ Len(journal[r]) \in Nat /\ Len(journal'[r]) \in Nat
        /\ Len(journal[r]) <= Len(journal'[r])
        /\ \A n \in 1 .. Len(journal[r]) : journal'[r][n] = journal[r][n]
    BY RunsMove, JournalGrows, RunsTyped
  <1>3. ASSUME NEW n \in 1 .. Len(journal[r]) PROVE journal[r][n].victim \in LifeIds
    BY LineTyped DEF GInv, Line
  <1>4. DeathsApplied
    BY DeathsMove
  <1>5. ASSUME NEW n \in 1 .. runs'[r].sequence
        PROVE  /\ lives'[journal[r][n].victim].status = "dead"
               /\ payouts'[journal[r][n].victim] # NoId =>
                     \E m \in 1 .. n : /\ journal[r][m].victim = journal[r][n].victim
                                       /\ journal[r][m].killer = payouts'[journal[r][n].victim]
    <2>0. n \in 1 .. Len(journal[r])
      BY <1>2
    <2>1. PICK v \in LifeIds : v = journal[r][n].victim
      BY <1>3, <2>0
    <2>2. CASE n \in 1 .. runs[r].sequence
      <3>1. /\ lives[v].status = "dead"
            /\ payouts[v] # NoId =>
                  \E m \in 1 .. n : journal[r][m].victim = v /\ journal[r][m].killer = payouts[v]
        BY <2>1, <2>2 DEF GInv, PrizesMatchJournal
      <3>2. lives'[v] = lives[v] /\ payouts'[v] = payouts[v]
        BY <1>4, <3>1 DEF DeathsApplied, DeathsKept
      <3> QED
        BY <2>1, <3>1, <3>2
    <2>3. CASE n \notin 1 .. runs[r].sequence
      <3>1. LineApplied(r) /\ n = NextOf(r)
        BY <1>2, <1>4, <2>3 DEF DeathsApplied, LineApplied, NextOf
      <3>2. lives'[v].status = "dead" /\ lives'[v].run = r
        BY <2>1, <3>1 DEF LineApplied
      <3>3. CASE lives[v].status = "dead"
        <4>1. lives'[v] = lives[v] /\ payouts'[v] = payouts[v]
          BY <1>4, <3>3 DEF DeathsApplied, DeathsKept
        <4>2. PICK m \in 1 .. runs[r].sequence :
                 /\ journal[r][m].victim = v
                 /\ payouts[v] # NoId => journal[r][m].killer = payouts[v]
          BY <3>2, <3>3, <4>1 DEF GInv, DeadIsWritten
        <4>3. m \in 1 .. n
          BY <1>2, <2>3
        <4> QED
          BY <2>1, <3>2, <4>1, <4>2, <4>3
      <3>4. CASE lives[v].status # "dead"
        <4>1. PICK q \in RunIds : KilledBy(v, q)
          BY <1>4, <3>2, <3>4 DEF DeathsApplied
        <4>2. q = r
          BY <3>2, <4>1 DEF KilledBy
        <4>3. payouts'[v] # NoId => journal[r][n].killer = payouts'[v]
          BY <3>1, <4>1, <4>2 DEF KilledBy
        <4>4. n \in 1 .. n
          BY <2>0
        <4> QED
          BY <2>1, <3>2, <4>3, <4>4
      <3> QED
        BY <3>3, <3>4
    <2> QED
      BY <2>2, <2>3
  <1>6. ASSUME NEW n \in 1 .. runs'[r].sequence, NEW m \in 1 .. n
        PROVE  journal'[r][n] = journal[r][n] /\ journal'[r][m] = journal[r][m]
    BY <1>2
  <1>7. runs'[r].sequence <= Len(journal'[r])
    BY <1>2
  <1> QED
    BY <1>5, <1>6, <1>7

LEMMA WrittenStep ==
  ASSUME GInv, [GameNext]_gameVars
  PROVE  DeadIsWritten'
  <1>1. SUFFICES ASSUME NEW l \in LifeIds, lives'[l].status = "dead"
                 PROVE  /\ lives'[l].run \in RunIds
                        /\ \E m \in 1 .. runs'[lives'[l].run].sequence :
                              /\ journal'[lives'[l].run][m].victim = l
                              /\ payouts'[l] # NoId => journal'[lives'[l].run][m].killer = payouts'[l]
    BY DEF DeadIsWritten
  <1>2. DeathsApplied
    BY DeathsMove
  <1>3. ASSUME NEW r \in RunIds, NEW m \in 1 .. runs'[r].sequence
        PROVE  journal'[r][m] = journal[r][m]
    <2>1. m \in 1 .. Len(journal[r])
      BY RunsMove, RunsTyped
    <2> QED
      BY <2>1, JournalGrows
  <1>4. CASE lives[l].status = "dead"
    <2>1. lives'[l] = lives[l] /\ payouts'[l] = payouts[l]
      BY <1>2, <1>4 DEF DeathsApplied, DeathsKept
    <2>2. PICK m \in 1 .. runs[lives[l].run].sequence :
             /\ journal[lives[l].run][m].victim = l
             /\ payouts[l] # NoId => journal[lives[l].run][m].killer = payouts[l]
      BY <1>4 DEF GInv, DeadIsWritten
    <2>3. lives[l].run \in RunIds
      BY <1>4 DEF GInv, DeadIsWritten
    <2>4. m \in 1 .. runs'[lives[l].run].sequence
      BY <2>3, RunsMove
    <2> QED
      BY <1>3, <2>1, <2>2, <2>3, <2>4
  <1>5. CASE lives[l].status # "dead"
    <2>1. PICK r \in RunIds : KilledBy(l, r)
      BY <1>1, <1>2, <1>5 DEF DeathsApplied
    <2>2. NextOf(r) \in 1 .. runs'[r].sequence /\ lives'[l].run = r
      BY <2>1, RunsMove DEF KilledBy, NextOf
    <2> QED
      BY <1>3, <2>1, <2>2 DEF KilledBy
  <1> QED
    BY <1>4, <1>5

LEMMA BacklogStep ==
  ASSUME GInv, [GameNext]_gameVars
  PROVE  Backlog'
  <1>1. SUFFICES ASSUME NEW r \in RunIds, NEW n \in 1 .. Len(journal'[r]), n > runs'[r].sequence
                 PROVE  /\ lives'[journal'[r][n].victim].run = r
                        /\ lives'[journal'[r][n].victim].status \in {"alive", "dead"}
    BY DEF Backlog, Unapplied
  <1>2. CASE n > Len(journal[r])
    <2>1. PICK s \in Slots : /\ Ends(s)
                             /\ journal'[r][n].victim = engine.admission[s]
                             /\ r = engine.run
                             /\ UNCHANGED lives
      BY <1>2, JournalGrows DEF vars
    <2> QED
      BY <2>1 DEF GInv, Honoured, Sits
  <1>3. CASE ~ (n > Len(journal[r]))
    <2>1. n \in 1 .. Len(journal[r])
      BY <1>3, JournalGrows
    <2>2. n \in Unapplied(r)
      BY <1>1, <2>1, RunsMove DEF Unapplied
    <2>3. journal'[r][n] = journal[r][n]
      BY <2>1, JournalGrows
    <2>4. PICK v \in LifeIds : v = journal[r][n].victim
      BY <2>1, LineTyped DEF GInv, Line
    <2>5. lives[v].run = r /\ lives[v].status \in {"alive", "dead"}
      BY <2>2, <2>4 DEF GInv, Backlog
    <2>6. match.run # 0 => r = match.run
      BY <2>2, Waiting
    <2>7. task.pc = "finish" => v \notin UsableOf(task.player)
      BY <2>2, <2>4, <2>6, TaskOps, TaskMatch DEF GInv, LeaveShape
    <2> QED
      BY <2>2, <2>3, <2>4, <2>5, <2>6, <2>7, SittingKept
  <1> QED
    BY <1>2, <1>3

LEMMA DrainedStep ==
  ASSUME GInv, [GameNext]_gameVars
  PROVE  EndedRunIsDrained'
  <1>1. SUFFICES ASSUME NEW r \in RunIds, runs'[r].status \in {"stopped", "recovered"}
                 PROVE  engine'.run # r /\ Unapplied(r)' = {}
    BY DEF EndedRunIsDrained
  <1>2. engine.run # r /\ Unapplied(r) = {}
    BY <1>1, RunsMove, GameBounds DEF GInv, EndedRunIsDrained
  <1>3. engine'.run # r
    <2>1. CASE UNCHANGED engine
      BY <1>2, <2>1
    <2>2. CASE EngineAlone
      BY <1>2, <2>2, GameBounds DEF EngineAlone, EngineMove, NoEngine
    <2>3. CASE StartMatch
      <3>1. /\ mgr.pc = "start"
            /\ engine' = [NoEngine EXCEPT !.run = arena.run_id]
            /\ UNCHANGED vars
        BY <2>3 DEF StartMatch, EngineStarts
      <3>2. engine'.run = arena.run_id
        BY <3>1 DEF NoEngine
      <3>3. runs'[arena.run_id].status = "running"
        BY <3>1 DEF GInv, MgrShape, vars
      <3> QED
        BY <1>1, <3>2, <3>3
    <2> QED
      BY <2>1, <2>2, <2>3, StepTables
  <1>4. ASSUME NEW n \in 1 .. Len(journal'[r]) PROVE n <= runs'[r].sequence
    <2>1. n <= Len(journal[r])
      BY <1>2, JournalGrows
    <2>2. n <= runs[r].sequence
      BY <1>2, <2>1, RunsTyped DEF Unapplied
    <2> QED
      BY <2>2, RunsMove
  <1>5. runs'[r].sequence \in Nat /\ Len(journal'[r]) \in Nat
    BY RunsMove, JournalGrows
  <1> QED
    BY <1>3, <1>4, <1>5 DEF Unapplied

\* The life of an admission the engine honours.
LEMMA HonouredLife ==
  ASSUME GInv, NEW s \in Slots, Ends(s)
  PROVE  /\ engine.run \in RunIds
         /\ engine.run # 0
         /\ engine.admission[s] \in LifeIds
         /\ Sits(engine.admission[s], engine.run, s)
         /\ match.run # 0 => engine.run = match.run
         /\ task.pc = "finish" => engine.admission[s] \notin UsableOf(task.player)
  <1>1. engine \in EngineRecord
    BY DEF GInv, EngineTyped
  <1>2. engine.run # 0
    BY DEF GInv, EngineShape
  <1>3. engine.run \in RunIds /\ engine.admission[s] \in LifeIds
    BY <1>1, <1>2 DEF EngineRecord, Ends
  <1>4. Sits(engine.admission[s], engine.run, s)
    BY DEF GInv, Honoured
  <1>5. match.run # 0 => engine.run = match.run
    BY <1>2, TaskMatch
  <1>6. task.pc = "finish" => engine.admission[s] \notin UsableOf(task.player)
    BY TaskOps DEF GInv, LeaveShape
  <1> QED
    BY <1>2, <1>3, <1>4, <1>5, <1>6

LEMMA HonouredStep ==
  ASSUME GInv, [GameNext]_gameVars
  PROVE  Honoured'
  <1>1. SUFFICES ASSUME NEW s \in Slots, Ends(s)'
                 PROVE  Sits(engine.admission[s], engine.run, s)'
    BY DEF Honoured
  <1>2. CASE UNCHANGED engine
    <2>1. Ends(s)
      BY <1>1, <1>2 DEF Ends
    <2>2. PICK v \in LifeIds, r \in RunIds : v = engine.admission[s] /\ r = engine.run
      BY <2>1, HonouredLife
    <2>3. /\ lives[v].run = r /\ lives[v].slot = s
          /\ lives[v].status \in {"alive", "dead"}
          /\ engine.run # 0
          /\ match.run # 0 => r = match.run
          /\ task.pc = "finish" => v \notin UsableOf(task.player)
      BY <2>1, <2>2, HonouredLife DEF Sits
    <2>4. /\ lives'[v].run = r /\ lives'[v].slot = lives[v].slot
          /\ lives'[v].status \in {"alive", "dead"}
      BY <2>3, SittingKept
    <2> QED
      BY <1>2, <2>2, <2>3, <2>4 DEF Sits
  <1>3. CASE EngineAlone /\ EngineMove
    <2>1. UNCHANGED lives /\ engine'.run = engine.run
      BY <1>3 DEF EngineAlone, EngineMove, vars
    <2>2. CASE StillEnds(s)
      <3>1. Ends(s) /\ engine'.admission[s] = engine.admission[s]
        BY <1>1, <2>2 DEF StillEnds
      <3> QED
        BY <2>1, <3>1, HonouredLife DEF Sits
    <2>3. CASE \E t \in Slots, kind \in Kinds : Takes(kind, t) /\ t = s
      <3>1. PICK kind \in Kinds : Takes(kind, s)
        BY <2>3
      <3>2. /\ toEngine # <<>>
            /\ kind = "admit"
            /\ Head(toEngine).kind = "admit"
            /\ Head(toEngine).slot = s
            /\ engine'.admission[s] = Head(toEngine).life
        BY <1>1, <3>1 DEF Takes
      <3>3. toEngine \in Seq(Packet)
        BY DEF GInv, EngineTyped
      <3>4. 1 \in 1 .. Len(toEngine) /\ Head(toEngine) = toEngine[1]
        BY <3>2, <3>3
      <3>5. engine.run # 0
        BY <1>3, GameBounds DEF EngineMove
      <3>6. Sits(toEngine[1].life, engine.run, toEngine[1].slot)
        BY <3>2, <3>4, <3>5 DEF GInv, Admitting, Admits
      <3> QED
        BY <2>1, <3>2, <3>4, <3>6 DEF Sits
    <2> QED
      BY <1>3, <2>2, <2>3 DEF EngineMove, Takes
  <1>4. CASE engine' = NoEngine \/ StartMatch
    <2>1. engine'.admission[s] = NoId
      BY <1>4 DEF StartMatch, EngineStarts, NoEngine
    <2> QED
      BY <1>1, <2>1 DEF Ends
  <1> QED
    BY <1>2, <1>3, <1>4, StepTables DEF EngineAlone

----------------------------------------------------------------------------
(* The steps that operations under match.lock are made of.                  *)

\* A packet is sent, or cannot be.
Sends(kind, s, l, waiting) ==
    /\ task' \in TaskRecord
    /\ task'.op = waiting.op
    /\ task'.pc = waiting.pc
    /\ task'.next = waiting.next
    /\ task'.until = waiting.until
    /\ task'.conn = waiting.conn
    /\ task'.player = waiting.player
    /\ task'.life = waiting.life
    /\ task'.slot = s
    /\ \/ task'.wait = "failed" /\ UNCHANGED toEngine
       \/ /\ task'.wait = kind
          /\ toEngine' = Append(toEngine, [kind |-> kind, slot |-> s, life |-> l])

LEMMA ControlSends ==
  ASSUME NEW kind \in Kinds, NEW s \in Slots, NEW l \in LifeIds \cup {NoId},
         NEW waiting \in TaskRecord, Control(kind, s, l, waiting)
  PROVE  Sends(kind, s, l, waiting)
  <1>1. CASE CanSend
    <2>1. /\ task' = [waiting EXCEPT !.slot = s, !.wait = kind]
          /\ toEngine' = Append(toEngine, [kind |-> kind, slot |-> s, life |-> l])
      BY <1>1 DEF Control
    <2> QED
      BY <2>1 DEF Sends, TaskRecord
  <1>2. CASE ~CanSend
    <2>1. /\ task' = [waiting EXCEPT !.slot = s, !.wait = "failed"]
          /\ UNCHANGED toEngine
      BY <1>2 DEF Control
    <2> QED
      BY <2>1 DEF Sends, TaskRecord
  <1> QED
    BY <1>1, <1>2

\* The packets on their way after one was sent.
LEMMA PacketSent ==
  ASSUME EngineTyped, NEW pkt \in Packet, toEngine' = Append(toEngine, pkt)
  PROVE  /\ toEngine' \in Seq(Packet)
         /\ Len(toEngine) \in Nat
         /\ Len(toEngine') = Len(toEngine) + 1
         /\ \A n \in 1 .. Len(toEngine) : toEngine'[n] = toEngine[n]
         /\ toEngine'[Len(toEngine) + 1] = pkt
  <1>1. toEngine \in Seq(Packet)
    BY DEF EngineTyped
  <1> QED
    BY <1>1, AppendProperties

\* One answer less is on its way.
LEMMA AckRead ==
  ASSUME EngineTyped, acks # <<>>, acks' = Tail(acks)
  PROVE  /\ acks' \in Seq(Ack)
         /\ Len(acks) \in Nat
         /\ Len(acks') = Len(acks) - 1
         /\ 1 \in 1 .. Len(acks)
         /\ Head(acks) = acks[1]
         /\ \A n \in 1 .. Len(acks') : n + 1 \in 1 .. Len(acks) /\ acks'[n] = acks[n + 1]
  <1>1. acks \in Seq(Ack)
    BY DEF EngineTyped
  <1>2. /\ Tail(acks) \in Seq(Ack)
        /\ Len(Tail(acks)) = Len(acks) - 1
        /\ Head(acks) = acks[1]
        /\ \A n \in 1 .. Len(Tail(acks)) : Tail(acks)[n] = acks[n + 1]
    BY <1>1, HeadTailProperties
  <1>3. Len(acks) \in Nat \ {0}
    BY <1>1, EmptySeq
  <1> QED
    BY <1>2, <1>3

\* A batch is read: lines are left to apply, or the next step is due, when the
\* operation drains the journal not before its end.
Reads(t2, t, offset) ==
    /\ t2 \in TaskRecord
    /\ t2.op = t.op
    /\ t2.next = t.next
    /\ t2.wait = t.wait
    /\ t2.conn = t.conn
    /\ t2.player = t.player
    /\ t2.slot = t.slot
    /\ t2.life = t.life
    /\ \/ /\ t2.pc = "apply"
          /\ offset < t2.until
          /\ t2.until <= Len(journal[match.run])
       \/ /\ t2.pc = t.next
          /\ Draining(t.op) => offset = Len(journal[match.run])

LEMMA ReadingReads ==
  ASSUME EngineTyped, match.run \in RunIds, NEW t \in TaskRecord,
         NEW offset \in Nat, offset <= Len(journal[match.run])
  PROVE  Reads(Reading(t, offset), t, offset)
  <1>1. /\ Len(journal[match.run]) \in Nat
        /\ Len(journal[match.run]) <= MaxSequence
    BY DEF EngineTyped
  <1>2. CASE offset = Len(journal[match.run])
    <2>1. Reading(t, offset) = [t EXCEPT !.pc = t.next, !.until = 0]
      BY <1>2 DEF Reading
    <2>2. 0 \in 0 .. MaxSequence
      BY GameBounds
    <2>3. PICK t2 : t2 = [t EXCEPT !.pc = t.next, !.until = 0]
      OBVIOUS
    <2>4. t2 \in TaskRecord
      BY <2>2, <2>3 DEF TaskRecord
    <2>5. /\ t2.op = t.op /\ t2.next = t.next /\ t2.wait = t.wait /\ t2.conn = t.conn
          /\ t2.player = t.player /\ t2.slot = t.slot /\ t2.life = t.life
          /\ t2.pc = t.next
      BY <2>3 DEF TaskRecord
    <2>6. Reads(t2, t, offset)
      BY <1>2, <2>4, <2>5 DEF Reads
    <2> QED
      BY <2>1, <2>3, <2>6
  <1>3. CASE offset # Len(journal[match.run])
    <2>1. PICK until \in 0 .. MaxSequence :
             /\ until = Least(Len(journal[match.run]), offset + BatchSize)
             /\ offset < until
             /\ until <= Len(journal[match.run])
      <3>1. BatchSize \in Nat \ {0} /\ MaxSequence \in Nat
        BY GameBounds
      <3> QED
        BY <1>1, <1>3, <3>1 DEF Least
    <2>2. Reading(t, offset) = [t EXCEPT !.pc = "apply", !.until = until]
      BY <1>3, <2>1 DEF Reading
    <2> QED
      BY <2>1, <2>2 DEF Reads, TaskRecord
  <1> QED
    BY <1>2, <1>3

LEMMA AppliedReads ==
  ASSUME EngineTyped, match.run \in RunIds, NEW t \in TaskRecord,
         NEW offset \in Nat, offset <= t.until, t.until <= Len(journal[match.run]),
         t.pc = "apply"
  PROVE  Reads(Applied(t, offset), t, offset)
  <1>0. t.until \in Nat /\ Len(journal[match.run]) \in Nat
    BY DEF EngineTyped, TaskRecord
  <1>1. CASE offset < t.until
    BY <1>1 DEF Applied, Reads
  <1>2. CASE ~ (offset < t.until) /\ Draining(t.op)
    BY <1>0, <1>2, ReadingReads DEF Applied
  <1>3. CASE ~ (offset < t.until) /\ ~Draining(t.op)
    <2>1. Applied(t, offset) = [t EXCEPT !.pc = t.next, !.until = 0]
      BY <1>3 DEF Applied
    <2>2. 0 \in 0 .. MaxSequence
      BY GameBounds
    <2>3. PICK t2 : t2 = [t EXCEPT !.pc = t.next, !.until = 0]
      OBVIOUS
    <2>4. t2 \in TaskRecord
      BY <2>2, <2>3 DEF TaskRecord
    <2>5. /\ t2.op = t.op /\ t2.next = t.next /\ t2.wait = t.wait /\ t2.conn = t.conn
          /\ t2.player = t.player /\ t2.slot = t.slot /\ t2.life = t.life
          /\ t2.pc = t.next
      BY <2>3 DEF TaskRecord
    <2>6. Reads(t2, t, offset)
      BY <1>3, <2>4, <2>5 DEF Reads
    <2> QED
      BY <2>1, <2>3, <2>6
  <1> QED
    BY <1>1, <1>2, <1>3

\* What is true of the processes in every state.
Standing ==
    /\ EngineTyped
    /\ ServerTyped
    /\ SeatShape
    /\ MatchShape
    /\ EngineShape
    /\ JournalShape
    /\ TaskShape
    /\ MgrShape
    /\ Admitting
    /\ OneAdmission
    /\ Answering
    /\ LeaveShape

----------------------------------------------------------------------------
(* The engine moves.                                                        *)

\* What the engine leaves on the socket.
LEMMA TakesPacket ==
  ASSUME EngineTyped, NEW kind \in Kinds, NEW s \in Slots, Takes(kind, s)
  PROVE  /\ toEngine' \in Seq(Packet)
         /\ acks' \in Seq(Ack)
         /\ Len(toEngine) \in Nat
         /\ Len(toEngine') = Len(toEngine) - 1
         /\ 1 \in 1 .. Len(toEngine)
         /\ toEngine[1].kind = kind
         /\ toEngine[1].slot = s
         /\ \A n \in 1 .. Len(toEngine') : n + 1 \in 1 .. Len(toEngine) /\ toEngine'[n] = toEngine[n + 1]
         /\ Len(acks) \in Nat
         /\ Len(acks') = Len(acks) + 1
         /\ \A n \in 1 .. Len(acks) : acks'[n] = acks[n]
         /\ acks'[Len(acks) + 1] = [kind |-> kind, slot |-> s]
  <1>1. toEngine \in Seq(Packet) /\ acks \in Seq(Ack) /\ toEngine # <<>>
    BY DEF EngineTyped, Takes
  <1>2. /\ Tail(toEngine) \in Seq(Packet)
        /\ Len(Tail(toEngine)) = Len(toEngine) - 1
        /\ Head(toEngine) = toEngine[1]
        /\ \A n \in 1 .. Len(Tail(toEngine)) : Tail(toEngine)[n] = toEngine[n + 1]
    BY <1>1, HeadTailProperties
  <1>3. Len(toEngine) \in Nat \ {0}
    BY <1>1, EmptySeq
  <1>4. [kind |-> kind, slot |-> s] \in Ack
    BY DEF Ack
  <1>5. /\ acks' \in Seq(Ack)
        /\ Len(acks') = Len(acks) + 1
        /\ \A n \in 1 .. Len(acks) : acks'[n] = acks[n]
        /\ acks'[Len(acks) + 1] = [kind |-> kind, slot |-> s]
    BY <1>1, <1>4, AppendProperties DEF Takes
  <1>6. Len(acks) \in Nat
    BY <1>1
  <1> QED
    BY <1>2, <1>3, <1>5, <1>6 DEF Takes

\* No admission is under way.
NoAdmission ==
    /\ \A n \in 1 .. Len(toEngine) : ~Admits(n)
    /\ \A n \in 1 .. Len(acks) : ~IsAdmitted(n)

LEMMA NoneUnderWay ==
  ASSUME OneAdmission, match.state = "open", task.pc # "admit"
  PROVE  NoAdmission
  BY DEF OneAdmission, NoAdmission

\* Without an admission under way, the engine honours only what it did.
LEMMA NothingNew ==
  ASSUME GInv, EngineMove, task.op = "leave", task.pc # "admit", NEW s \in Slots, Ends(s)'
  PROVE  StillEnds(s)
  <1>1. match.state = "open"
    <2>1. engine.run # 0
      BY GameBounds DEF EngineMove
    <2> QED
      BY <2>1 DEF GInv, LeaveShape
  <1>2. NoAdmission
    BY <1>1, NoneUnderWay DEF GInv
  <1>3. CASE \A t \in Slots : StillEnds(t)
    BY <1>3
  <1>4. CASE \E t \in Slots, kind \in Kinds : Takes(kind, t)
    <2>1. PICK t \in Slots, kind \in Kinds : Takes(kind, t)
      BY <1>4
    <2>2. kind # "admit"
      BY <1>2, <2>1, TakesPacket DEF GInv, NoAdmission, Admits
    <2> QED
      BY <2>1, <2>2 DEF Takes
  <1> QED
    BY <1>3, <1>4 DEF EngineMove

LEMMA EngineMoveAnswers ==
  ASSUME GInv, EngineMove, UNCHANGED <<match, task, lives>>
  PROVE  Admitting' /\ OneAdmission' /\ Answering'
  <1>0. EngineTyped /\ Admitting /\ OneAdmission /\ Answering /\ engine'.run = engine.run
    BY DEF GInv, EngineMove
  <1>1. CASE UNCHANGED <<toEngine, acks>> /\ \A t \in Slots : StillEnds(t)
    <2>1. Admitting'
      BY <1>0, <1>1 DEF Admitting, Admits, Sits
    <2>2. OneAdmission'
      BY <1>0, <1>1 DEF OneAdmission, Admits, IsAdmitted
    <2>3. \A n \in 1 .. Len(acks) : acks[n].slot \in Slots
      BY <1>0, AckTyped
    <2>4. Answering'
      BY <1>0, <1>1, <2>3 DEF Answering, IsAdmitted, StillEnds
    <2> QED
      BY <2>1, <2>2, <2>4
  <1>2. ASSUME NEW s \in Slots, NEW kind \in Kinds, Takes(kind, s)
        PROVE  Admitting' /\ OneAdmission' /\ Answering'
    <2>1. /\ Len(toEngine) \in Nat
          /\ Len(toEngine') = Len(toEngine) - 1
          /\ 1 \in 1 .. Len(toEngine)
          /\ toEngine[1].kind = kind
          /\ \A n \in 1 .. Len(toEngine') : n + 1 \in 1 .. Len(toEngine) /\ toEngine'[n] = toEngine[n + 1]
          /\ Len(acks) \in Nat
          /\ Len(acks') = Len(acks) + 1
          /\ \A n \in 1 .. Len(acks) : acks'[n] = acks[n]
          /\ acks'[Len(acks) + 1] = [kind |-> kind, slot |-> s]
      BY <1>0, <1>2, TakesPacket
    <2>2. Admitting'
      <3>1. SUFFICES ASSUME NEW n \in 1 .. Len(toEngine'), Admits(n)', engine.run # 0
                     PROVE  /\ toEngine'[n].life \in LifeIds
                            /\ Sits(toEngine[n].life, engine.run, toEngine[n].slot)'
        BY <1>0 DEF Admitting
      <3>2. Admits(n + 1)
        BY <2>1, <3>1 DEF Admits
      <3>3. /\ toEngine[n + 1].life \in LifeIds
            /\ Sits(toEngine[n + 1].life, engine.run, toEngine[n + 1].slot)
        BY <1>0, <2>1, <3>1, <3>2 DEF Admitting
      <3> QED
        BY <1>0, <2>1, <3>3 DEF Sits
    <2>3. OneAdmission'
      <3>1. CASE kind = "admit" /\ match.state = "open"
        <4>1. Admits(1)
          BY <2>1, <3>1 DEF Admits
        <4>2. /\ task.pc = "admit"
              /\ \A m \in 1 .. Len(toEngine) : Admits(m) => m = 1
              /\ \A m \in 1 .. Len(acks) : ~IsAdmitted(m)
          BY <1>0, <2>1, <3>1, <4>1 DEF OneAdmission
        <4>3. ASSUME NEW n \in 1 .. Len(toEngine') PROVE ~Admits(n)'
          <5>1. n + 1 # 1 /\ (Admits(n)' => Admits(n + 1))
            BY <2>1 DEF Admits
          <5> QED
            BY <2>1, <4>2, <5>1
        <4>4. \A m \in 1 .. Len(acks') : IsAdmitted(m)' => m = Len(acks) + 1
          BY <2>1, <4>2 DEF IsAdmitted
        <4> QED
          BY <1>2, <4>2, <4>3, <4>4 DEF OneAdmission
      <3>2. CASE kind # "admit" /\ match.state = "open"
        <4>1. ASSUME NEW n \in 1 .. Len(toEngine'), Admits(n)' PROVE n + 1 \in 1 .. Len(toEngine) /\ Admits(n + 1)
          BY <2>1, <4>1 DEF Admits
        <4>2. ASSUME NEW n \in 1 .. Len(acks'), IsAdmitted(n)' PROVE n \in 1 .. Len(acks) /\ IsAdmitted(n)
          BY <2>1, <3>2, <4>2 DEF IsAdmitted
        <4>3. ASSUME NEW n \in 1 .. Len(toEngine'), Admits(n)'
              PROVE  /\ task.pc = "admit"
                     /\ \A m \in 1 .. Len(toEngine') : Admits(m)' => m = n
                     /\ \A m \in 1 .. Len(acks') : ~IsAdmitted(m)'
          <5>1. n + 1 \in 1 .. Len(toEngine) /\ Admits(n + 1)
            BY <4>1, <4>3
          <5>2. /\ task.pc = "admit"
                /\ \A m \in 1 .. Len(toEngine) : Admits(m) => m = n + 1
                /\ \A m \in 1 .. Len(acks) : ~IsAdmitted(m)
            BY <1>0, <3>2, <5>1 DEF OneAdmission
          <5>3. ASSUME NEW m \in 1 .. Len(toEngine'), Admits(m)' PROVE m = n
            <6>1. m + 1 = n + 1
              BY <4>1, <5>2, <5>3
            <6> QED
              BY <6>1
          <5> QED
            BY <4>2, <5>2, <5>3
        <4>4. ASSUME NEW n \in 1 .. Len(acks'), IsAdmitted(n)'
              PROVE  /\ task.pc = "admit"
                     /\ \A m \in 1 .. Len(acks') : IsAdmitted(m)' => m = n
          BY <1>0, <3>2, <4>2, <4>4 DEF OneAdmission
        <4> QED
          BY <1>2, <4>3, <4>4 DEF OneAdmission
      <3> QED
        BY <3>1, <3>2 DEF OneAdmission
    <2>4. Answering'
      <3>1. SUFFICES ASSUME match.state = "open", NEW n \in 1 .. Len(acks'),
                            Ends(acks[n].slot)'
                     PROVE  \E m \in n .. Len(acks') : IsAdmitted(m)'
        BY DEF Answering, Ends
      <3>2. CASE kind = "admit"
        <4>1. PICK last \in Nat : last = Len(acks) + 1
          BY <2>1
        <4>2. acks'[last].kind = "admit" /\ last \in n .. Len(acks')
          BY <2>1, <3>2, <4>1
        <4> QED
          BY <4>2 DEF IsAdmitted
      <3>3. CASE kind # "admit"
        <4>1. ~Ends(s)'
          BY <1>2, <3>3 DEF Takes
        <4>2. n \in 1 .. Len(acks)
          BY <2>1, <3>1, <4>1
        <4>3. acks[n].slot \in Slots /\ acks'[n] = acks[n]
          BY <1>0, <2>1, <4>2, AckTyped
        <4>4. acks[n].slot # s
          BY <3>1, <4>1, <4>3
        <4>5. Ends(acks[n].slot)
          BY <1>2, <3>1, <4>3, <4>4 DEF Takes, StillEnds
        <4>6. PICK m \in n .. Len(acks) : IsAdmitted(m)
          BY <1>0, <3>1, <4>2, <4>5 DEF Answering
        <4>7. IsAdmitted(m)' /\ m \in n .. Len(acks')
          BY <2>1, <4>2, <4>6 DEF IsAdmitted
        <4> QED
          BY <4>7
      <3> QED
        BY <3>2, <3>3
    <2> QED
      BY <2>2, <2>3, <2>4
  <1> QED
    BY <1>1, <1>2 DEF EngineMove

\* The shapes a journal that grows under a match leaves alone.
LEMMA EngineShapes ==
  ASSUME GInv, [GameNext]_gameVars, EngineAlone
  PROVE  /\ ServerTyped' /\ SeatShape' /\ MatchShape' /\ EngineShape'
         /\ JournalShape' /\ TaskShape' /\ MgrShape'
  <1>0. /\ UNCHANGED <<vars, serverVars>>
        /\ UNCHANGED <<match, task, mgr, conns, touched, worker, lives, runs, arena>>
    BY DEF EngineAlone, vars, serverVars
  <1>1. ServerTyped'
    BY <1>0 DEF GInv, ServerTyped
  <1>2. SeatShape' /\ MatchShape'
    BY <1>0 DEF GInv, SeatShape, MatchShape
  <1>3. \/ engine.run \in RunIds /\ engine'.run = engine.run
        \/ engine' = NoEngine /\ engine'.run = 0 /\ UNCHANGED journal
    BY DEF EngineAlone, EngineMove, NoEngine
  <1>4. EngineShape'
    <2>1. engine'.run = 0 => \A s \in Slots : ~Ends(s)'
      BY <1>3, GameBounds DEF NoEngine, Ends
    <2>2. engine'.run # 0 => engine'.run = engine.run
      BY <1>3
    <2> QED
      BY <1>0, <2>1, <2>2 DEF GInv, EngineShape
  <1>5. JournalShape'
    <2>1. ASSUME NEW r \in RunIds, r \notin touched PROVE journal'[r] = <<>>
      <3>1. journal[r] = <<>>
        BY <2>1 DEF GInv, JournalShape
      <3>2. engine.run # r
        BY <2>1, GameBounds DEF GInv, EngineShape
      <3>3. journal' \in [RunIds -> Seq(Line)] /\ journal'[r] \in Seq(Line)
        BY JournalGrows
      <3>4. Len(journal'[r]) = 0
        BY <3>1, <3>2, <3>3, JournalGrows
      <3> QED
        BY <3>3, <3>4, EmptySeq
    <2> QED
      BY <1>0, <2>1 DEF GInv, JournalShape
  <1>6. \A r \in RunIds : /\ Len(journal[r]) <= Len(journal'[r])
                          /\ Len(journal[r]) \in Nat /\ Len(journal'[r]) \in Nat
                          /\ r # engine.run => Len(journal'[r]) = Len(journal[r])
    <2>1. ASSUME NEW r \in RunIds, r # engine.run PROVE Len(journal'[r]) = Len(journal[r])
      <3>1. \A n \in 1 .. Len(journal'[r]) : n <= Len(journal[r])
        BY <2>1, JournalGrows
      <3> QED
        BY <3>1, JournalGrows
    <2> QED
      BY <2>1, JournalGrows
  <1>7. TaskShape'
    <2>1. AttachShape' /\ DetachShape'
      BY <1>0 DEF GInv, TaskShape, AttachShape, DetachShape
    <2>2. StopShape'
      <3>1. task.op = "stop" => engine.run = 0 /\ engine'.run = 0 /\ UNCHANGED journal
        BY <1>3, GameBounds DEF GInv, TaskShape, StopShape
      <3> QED
        BY <1>0, <3>1 DEF GInv, TaskShape, StopShape
    <2>3. task.pc = "apply" => match.run \in RunIds /\ task.until \in Nat
      BY TaskOps, TaskMatch DEF GInv, ServerTyped, TaskRecord
    <2>4. TaskShape
      BY DEF GInv
    <2>5. task.pc = "apply" => task.until <= Len(journal'[match.run])
      BY <1>6, <2>3, <2>4 DEF TaskShape
    <2> QED
      BY <1>0, <2>1, <2>2, <2>4, <2>5 DEF TaskShape
  <1>8. MgrShape'
    <2>1. mgr.op # "none" \/ mgr.pc # "idle" => engine.run = 0 /\ UNCHANGED journal
      BY <1>3, MgrAlone, GameBounds
    <2> QED
      BY <1>0, <2>1 DEF GInv, MgrShape
  <1> QED
    BY <1>1, <1>2, <1>4, <1>5, <1>7, <1>8

LEMMA EngineMoveLeave ==
  ASSUME GInv, [GameNext]_gameVars, EngineMove, UNCHANGED <<match, task, lives, runs>>
  PROVE  LeaveShape'
  <1>0. LeaveShape
    BY DEF GInv
  <1>1. engine'.run = engine.run /\ engine.run # 0
    BY GameBounds DEF EngineMove
  <1>2. ASSUME task.op = "leave", task.pc \in {"apply", "finish"}, NEW s \in Slots, Ends(s)'
        PROVE  engine'.admission[s] \notin UsableOf(task.player)
    <2>1. StillEnds(s)
      BY <1>2, NothingNew
    <2>2. Ends(s) /\ engine'.admission[s] = engine.admission[s]
      BY <1>2, <2>1 DEF StillEnds
    <2> QED
      BY <1>0, <1>2, <2>2 DEF LeaveShape
  <1>3. ASSUME task.op = "leave", task.pc = "finish", NEW n \in Unapplied(match.run)'
        PROVE  journal'[match.run][n].victim \notin UsableOf(task.player)
    <2>1. match.run \in RunIds
      BY <1>3, TaskMatch
    <2>2. n \in 1 .. Len(journal'[match.run]) /\ n > runs[match.run].sequence
      BY <1>3 DEF Unapplied
    <2>3. CASE n > Len(journal[match.run])
      <3>1. PICK s \in Slots : Ends(s) /\ journal'[match.run][n].victim = engine.admission[s]
        BY <2>1, <2>2, <2>3, JournalGrows
      <3> QED
        BY <1>0, <1>3, <3>1 DEF LeaveShape
    <2>4. CASE ~ (n > Len(journal[match.run]))
      <3>1. n \in 1 .. Len(journal[match.run])
        BY <2>1, <2>2, <2>4, JournalGrows
      <3>2. journal'[match.run][n] = journal[match.run][n]
        BY <2>1, <3>1, JournalGrows
      <3>3. n \in Unapplied(match.run)
        BY <2>2, <3>1 DEF Unapplied
      <3> QED
        BY <1>0, <1>3, <3>2, <3>3 DEF LeaveShape
    <2> QED
      BY <2>3, <2>4
  <1>4. UsableOf(task.player)' = UsableOf(task.player)
    BY DEF UsableOf
  <1> QED
    BY <1>0, <1>1, <1>2, <1>3, <1>4 DEF LeaveShape, UsableOf

LEMMA EngineStanding ==
  ASSUME GInv, [GameNext]_gameVars, EngineAlone
  PROVE  Standing'
  <1>0. /\ UNCHANGED <<match, task, lives, runs>>
        /\ EngineTyped
    BY DEF EngineAlone, vars, serverVars, GInv
  <1>1. /\ ServerTyped' /\ SeatShape' /\ MatchShape' /\ EngineShape'
        /\ JournalShape' /\ TaskShape' /\ MgrShape'
    BY EngineShapes
  <1>2. journal' \in [RunIds -> Seq(Line)] /\ \A r \in RunIds : Len(journal'[r]) <= MaxSequence
    BY JournalGrows
  <1>3. CASE EngineMove
    <2>1. toEngine' \in Seq(Packet) /\ acks' \in Seq(Ack)
      BY <1>0, <1>3, TakesPacket DEF EngineMove, EngineTyped
    <2>2. EngineTyped'
      BY <1>2, <1>3, <2>1 DEF EngineMove, EngineTyped
    <2> QED
      BY <1>0, <1>1, <1>3, <2>2, EngineMoveAnswers, EngineMoveLeave DEF Standing
  <1>4. CASE engine' = NoEngine /\ toEngine' = <<>> /\ UNCHANGED <<journal, acks>>
    <2>1. engine' \in EngineRecord /\ engine'.run = 0 /\ \A s \in Slots : ~Ends(s)'
      BY <1>4 DEF NoEngine, EngineRecord, Ends
    <2>2. toEngine' \in Seq(Packet)
      BY <1>4
    <2>3. EngineTyped'
      BY <1>0, <1>2, <1>4, <2>1, <2>2 DEF EngineTyped
    <2>4. Admitting'
      BY <2>1 DEF Admitting
    <2>5. OneAdmission'
      BY <1>0, <1>4 DEF GInv, OneAdmission, IsAdmitted, Admits
    <2>6. \A n \in 1 .. Len(acks) : acks[n].slot \in Slots
      BY <1>0, AckTyped
    <2>7. Answering'
      BY <1>0, <1>4, <2>1, <2>6 DEF GInv, Answering, IsAdmitted
    <2>8. LeaveShape'
      <3>1. LeaveShape
        BY DEF GInv
      <3> QED
        BY <1>0, <1>4, <2>1, <3>1 DEF LeaveShape, UsableOf, Unapplied
    <2> QED
      BY <1>1, <2>3, <2>4, <2>5, <2>7, <2>8 DEF Standing
  <1> QED
    BY <1>3, <1>4 DEF EngineAlone

----------------------------------------------------------------------------
(* The worker, the connections and the manager without a match.             *)

LEMMA AtRest ==
  ASSUME task'.op = "none", task'.pc = "idle", task'.wait = "none",
         \A c \in Conns : conns'[c].phase = "attaching" => conns'[c].run # 0
  PROVE  TaskShape' /\ LeaveShape'
  BY DEF TaskShape, AttachShape, DetachShape, StopShape, LeaveShape, Kinds

LEMMA SocketShut ==
  ASSUME match'.state # "open"
  PROVE  OneAdmission' /\ Answering'
  BY DEF OneAdmission, Answering

LEMMA JournalShapeKept ==
  ASSUME GInv, [GameNext]_gameVars, UNCHANGED <<journal, touched>>
  PROVE  JournalShape'
  <1>1. \A r \in RunIds : runs'[r].status = "none" => runs[r].status = "none"
    <2>1. ASSUME EndTables PROVE \A r \in RunIds : runs'[r].status = "none" => runs[r].status = "none"
      <3>1. PICK q \in RunIds : StopRun(q) \/ RecoverRun(q)
        BY <2>1 DEF EndTables
      <3> QED
        BY <3>1, RunsTyped DEF StopRun, RecoverRun, Run
    <2> QED
      BY <2>1, RunsMove
  <1> QED
    BY <1>1 DEF GInv, JournalShape

\* An answer less tells no less of the slots it leaves.
LEMMA AnsweringKept ==
  ASSUME GInv, UNCHANGED engine, match'.state = "open" => match.state = "open",
         \/ UNCHANGED acks
         \/ acks # <<>> /\ acks' = Tail(acks)
  PROVE  Answering'
  <1>1. SUFFICES ASSUME match.state = "open", NEW n \in 1 .. Len(acks'), Ends(acks'[n].slot)
                 PROVE  \E m \in n .. Len(acks') : IsAdmitted(m)'
    BY DEF Answering, Ends
  <1>0. Answering /\ EngineTyped
    BY DEF GInv
  <1>2. CASE UNCHANGED acks
    BY <1>0, <1>1, <1>2 DEF Answering, IsAdmitted
  <1>3. CASE acks # <<>> /\ acks' = Tail(acks)
    <2>1. /\ Len(acks) \in Nat
          /\ Len(acks') = Len(acks) - 1
          /\ \A k \in 1 .. Len(acks') : k + 1 \in 1 .. Len(acks) /\ acks'[k] = acks[k + 1]
      BY <1>0, <1>3, AckRead
    <2>2. PICK m \in n + 1 .. Len(acks) : IsAdmitted(m)
      BY <1>0, <1>1, <2>1 DEF Answering
    <2>3. m - 1 \in n .. Len(acks') /\ m - 1 \in 1 .. Len(acks')
      BY <1>1, <2>1, <2>2
    <2>4. acks'[m - 1] = acks[m]
      BY <2>1, <2>2, <2>3
    <2>5. IsAdmitted(m - 1)'
      BY <2>2, <2>4 DEF IsAdmitted
    <2> QED
      BY <2>3, <2>5
  <1> QED
    BY <1>2, <1>3

LEMMA DropStanding ==
  ASSUME GInv, DropAck
  PROVE  Standing'
  <1>0. /\ acks # <<>> /\ acks' = Tail(acks)
        /\ UNCHANGED <<vars, engine, journal, toEngine, serverVars>>
        /\ UNCHANGED <<match, task, mgr, conns, touched, worker, lives, runs, arena>>
    BY DEF DropAck, vars, serverVars
  <1>1. EngineTyped
    BY DEF GInv
  <1>2. /\ acks' \in Seq(Ack)
        /\ Len(acks) \in Nat
        /\ Len(acks') = Len(acks) - 1
        /\ \A n \in 1 .. Len(acks') : n + 1 \in 1 .. Len(acks) /\ acks'[n] = acks[n + 1]
    BY <1>0, <1>1, AckRead
  <1>3. EngineTyped'
    BY <1>0, <1>1, <1>2 DEF EngineTyped
  <1>4. ServerTyped' /\ SeatShape' /\ MatchShape' /\ EngineShape' /\ JournalShape'
    BY <1>0 DEF GInv, ServerTyped, SeatShape, MatchShape, EngineShape, JournalShape, Ends
  <1>5. TaskShape' /\ MgrShape'
    BY <1>0 DEF GInv, TaskShape, AttachShape, DetachShape, StopShape, MgrShape
  <1>6. Admitting' /\ LeaveShape'
    BY <1>0 DEF GInv, Admitting, Admits, Sits, LeaveShape, Ends, UsableOf, Unapplied
  <1>7. Answering'
    BY <1>0, AnsweringKept
  <1>8. OneAdmission'
    <2>1. SUFFICES ASSUME match.state = "open"
                   PROVE  /\ \A n \in 1 .. Len(toEngine) : Admits(n) =>
                                 /\ task.pc = "admit"
                                 /\ \A m \in 1 .. Len(toEngine) : Admits(m) => m = n
                                 /\ \A m \in 1 .. Len(acks') : ~IsAdmitted(m)'
                          /\ \A n \in 1 .. Len(acks') : IsAdmitted(n)' =>
                                 /\ task.pc = "admit"
                                 /\ \A m \in 1 .. Len(acks') : IsAdmitted(m)' => m = n
      BY <1>0 DEF OneAdmission, Admits
    <2>2. OneAdmission
      BY DEF GInv
    <2>3. ASSUME NEW n \in 1 .. Len(acks'), IsAdmitted(n)'
          PROVE  n + 1 \in 1 .. Len(acks) /\ IsAdmitted(n + 1)
      BY <1>2, <2>3 DEF IsAdmitted
    <2>4. ASSUME NEW n \in 1 .. Len(acks'), NEW m \in 1 .. Len(acks'), IsAdmitted(n)', IsAdmitted(m)'
          PROVE  task.pc = "admit" /\ m = n
      <3>1. /\ n + 1 \in 1 .. Len(acks) /\ IsAdmitted(n + 1)
            /\ m + 1 \in 1 .. Len(acks) /\ IsAdmitted(m + 1)
        BY <2>3, <2>4
      <3>2. task.pc = "admit" /\ m + 1 = n + 1
        BY <2>1, <2>2, <3>1 DEF OneAdmission
      <3> QED
        BY <3>2
    <2> QED
      BY <2>1, <2>2, <2>3, <2>4 DEF OneAdmission
  <1> QED
    BY <1>3, <1>4, <1>5, <1>6, <1>7, <1>8 DEF Standing

LEMMA ConnectStanding ==
  ASSUME GInv, [GameNext]_gameVars, NEW c \in Conns, Connect(c)
  PROVE  Standing'
  <1>0. /\ conns[c].phase = "closed"
        /\ conns' = [conns EXCEPT ![c].phase = "open"]
        /\ UNCHANGED <<vars, ipcVars, match, task, mgr, touched, worker>>
        /\ UNCHANGED <<engine, journal, toEngine, acks, lives, runs, arena>>
    BY DEF Connect, vars, ipcVars, workerVars
  <1>1. conns \in [Conns -> SeatRecord]
    BY DEF GInv, ServerTyped
  <1>2. /\ conns' \in [Conns -> SeatRecord]
        /\ \A d \in Conns : /\ conns'[d].run = conns[d].run
                            /\ conns'[d].life = conns[d].life
                            /\ conns'[d].slot = conns[d].slot
                            /\ conns'[d].phase = "attaching" <=> conns[d].phase = "attaching"
    BY <1>0, <1>1 DEF SeatRecord, Phases
  <1>3. EngineTyped' /\ ServerTyped'
    BY <1>0, <1>2 DEF GInv, EngineTyped, ServerTyped
  <1>4. SeatShape' /\ MatchShape' /\ EngineShape' /\ JournalShape' /\ MgrShape'
    BY <1>0, <1>2 DEF GInv, SeatShape, MatchShape, EngineShape, JournalShape, MgrShape, Ends
  <1>5. TaskShape'
    BY <1>0, <1>2 DEF GInv, TaskShape, AttachShape, DetachShape, StopShape
  <1>6. Admitting' /\ OneAdmission' /\ Answering' /\ LeaveShape'
    BY <1>0 DEF GInv, Admitting, Admits, Sits, OneAdmission, IsAdmitted, Answering,
                LeaveShape, Ends, UsableOf, Unapplied
  <1> QED
    BY <1>3, <1>4, <1>5, <1>6 DEF Standing

LEMMA CrashStanding ==
  ASSUME GInv, [GameNext]_gameVars, Crash
  PROVE  Standing'
  <1>0. /\ worker' = [up |-> FALSE, crashes |-> worker.crashes + 1, broken |-> "none", waiting |-> {}]
        /\ worker.crashes < MaxCrashes
        /\ match' = NoMatch /\ task' = NoTask /\ mgr' = NoMgr
        /\ conns' = [c \in Conns |-> NoSeat]
        /\ acks' = <<>>
        /\ UNCHANGED <<engine, journal, toEngine, touched, lives, runs, arena>>
    BY DEF Crash, vars
  <1>1. /\ match'.run = 0 /\ match'.state = "none"
        /\ \A s \in Slots : match'.peers[s] = NoConn
        /\ task'.op = "none" /\ task'.pc = "idle" /\ task'.wait = "none"
        /\ mgr'.op = "none" /\ mgr'.pc = "idle"
        /\ worker'.up = FALSE
        /\ \A c \in Conns : conns'[c].phase = "closed" /\ conns'[c].life = NoId
    BY <1>0 DEF NoMatch, NoTask, NoMgr, NoSeat
  <1>2. EngineTyped'
    BY <1>0 DEF GInv, EngineTyped
  <1>3. ServerTyped'
    <2>1. match' \in MatchRecord
      BY <1>0, GameBounds DEF NoMatch, MatchRecord
    <2>2. task' \in TaskRecord
      BY <1>0, GameBounds DEF NoTask, TaskRecord, Ops
    <2>3. mgr' \in MgrRecord
      BY <1>0, GameBounds DEF NoMgr, MgrRecord
    <2>4. conns' \in [Conns -> SeatRecord]
      BY <1>0 DEF NoSeat, SeatRecord, Phases
    <2>5. worker' \in WorkerRecord
      <3>1. worker.crashes \in 0 .. MaxCrashes /\ MaxCrashes \in Nat
        BY GameBounds DEF GInv, ServerTyped, WorkerRecord
      <3> QED
        BY <1>0, <3>1 DEF WorkerRecord, Broken
    <2> QED
      BY <1>0, <2>1, <2>2, <2>3, <2>4, <2>5 DEF GInv, ServerTyped
  <1>4. SeatShape' /\ MatchShape' /\ MgrShape'
    BY <1>1 DEF SeatShape, MatchShape, MgrShape
  <1>5. EngineShape' /\ JournalShape' /\ Admitting'
    BY <1>0, <1>1 DEF GInv, EngineShape, JournalShape, Ends, Admitting, Admits, Sits
  <1>6. TaskShape' /\ LeaveShape' /\ OneAdmission' /\ Answering'
    BY <1>1, AtRest, SocketShut
  <1> QED
    BY <1>2, <1>3, <1>4, <1>5, <1>6 DEF Standing

LEMMA RestartStanding ==
  ASSUME GInv, [GameNext]_gameVars, Restart
  PROVE  Standing'
  <1>0. /\ ~worker.up /\ engine.run = 0
        /\ worker' = [worker EXCEPT !.up = TRUE]
        /\ UNCHANGED <<vars, ipcVars, match, task, mgr, conns, touched>>
        /\ UNCHANGED <<engine, journal, toEngine, acks, lives, runs, arena>>
    BY DEF Restart, LockFree, Running, vars, ipcVars
  <1>1. match.run = 0 /\ mgr.op = "none" /\ mgr.pc = "idle"
    BY <1>0 DEF GInv, MatchShape, MgrShape
  <1>2. /\ EngineTyped' /\ SeatShape' /\ JournalShape'
    BY <1>0 DEF GInv, EngineTyped, SeatShape, JournalShape
  <1>3. ServerTyped'
    <2>1. worker' \in WorkerRecord
      BY <1>0 DEF GInv, ServerTyped, WorkerRecord
    <2> QED
      BY <1>0, <2>1 DEF GInv, ServerTyped
  <1>4. EngineShape'
    BY <1>0 DEF GInv, EngineShape, Ends
  <1>5. MatchShape' /\ MgrShape'
    BY <1>0, <1>1 DEF GInv, MatchShape, MgrShape
  <1>6. TaskShape'
    BY <1>0 DEF GInv, TaskShape, AttachShape, DetachShape, StopShape
  <1>7. Admitting' /\ OneAdmission' /\ Answering' /\ LeaveShape'
    BY <1>0 DEF GInv, Admitting, Admits, Sits, OneAdmission, IsAdmitted, Answering,
                LeaveShape, Ends, UsableOf, Unapplied
  <1> QED
    BY <1>2, <1>3, <1>4, <1>5, <1>6, <1>7 DEF Standing

\* What the worker remembers of a start that failed concerns nothing else.
LEMMA UnstartedStanding ==
  ASSUME GInv, [GameNext]_gameVars, UnstartedStep
  PROVE  Standing'
  <1>0. /\ UNCHANGED <<vars, ipcVars, match, task, mgr, conns, touched>>
        /\ UNCHANGED <<engine, journal, toEngine, acks, lives, runs, arena>>
    BY DEF UnstartedStep, VisitBlocks, EnsureDrops, vars, ipcVars
  <1>1. worker' \in WorkerRecord /\ worker'.up = worker.up
    <2>1. worker \in WorkerRecord
      BY DEF GInv, ServerTyped
    <2>2. CASE VisitBlocks
      <3>1. PICK waiting \in SUBSET Players :
               worker' = [worker EXCEPT !.broken = "arena", !.waiting = waiting]
        BY <2>2 DEF VisitBlocks
      <3> QED
        BY <2>1, <3>1 DEF WorkerRecord, Broken
    <2>3. CASE \E c \in Conns : EnsureDrops(c)
      <3>1. worker' = [worker EXCEPT !.broken = "none"]
        BY <2>3 DEF EnsureDrops
      <3> QED
        BY <2>1, <3>1 DEF WorkerRecord, Broken
    <2> QED
      BY <2>2, <2>3 DEF UnstartedStep
  <1>2. EngineTyped' /\ ServerTyped' /\ SeatShape' /\ JournalShape'
    BY <1>0, <1>1 DEF GInv, EngineTyped, ServerTyped, SeatShape, JournalShape
  <1>3. MatchShape' /\ EngineShape' /\ MgrShape'
    BY <1>0, <1>1 DEF GInv, MatchShape, EngineShape, Ends, MgrShape
  <1>4. TaskShape'
    BY <1>0 DEF GInv, TaskShape, AttachShape, DetachShape, StopShape
  <1>5. Admitting' /\ OneAdmission' /\ Answering' /\ LeaveShape'
    BY <1>0 DEF GInv, Admitting, Admits, Sits, OneAdmission, IsAdmitted, Answering,
                LeaveShape, Ends, UsableOf, Unapplied
  <1> QED
    BY <1>2, <1>3, <1>4, <1>5 DEF Standing

\* A request or the clock changes who plays and the lease, nothing else.
LEMMA LedgerStanding ==
  ASSUME GInv, [GameNext]_gameVars, UNCHANGED <<ipcVars, serverVars, lives, runs>>,
         arena'.run_id = arena.run_id
  PROVE  Standing'
  <1>0. /\ UNCHANGED <<engine, journal, toEngine, acks>>
        /\ UNCHANGED <<match, task, mgr, conns, touched, worker>>
    BY DEF ipcVars, serverVars
  <1>1. EngineTyped' /\ ServerTyped' /\ SeatShape' /\ JournalShape'
    BY <1>0 DEF GInv, EngineTyped, ServerTyped, SeatShape, JournalShape
  <1>2. MatchShape' /\ EngineShape' /\ MgrShape'
    BY <1>0 DEF GInv, MatchShape, EngineShape, Ends, MgrShape
  <1>3. TaskShape'
    BY <1>0 DEF GInv, TaskShape, AttachShape, DetachShape, StopShape
  <1>4. Admitting' /\ OneAdmission' /\ Answering' /\ LeaveShape'
    BY <1>0 DEF GInv, Admitting, Admits, Sits, OneAdmission, IsAdmitted, Answering,
                LeaveShape, Ends, UsableOf, Unapplied
  <1> QED
    BY <1>1, <1>2, <1>3, <1>4 DEF Standing

LEMMA RequestStanding ==
  ASSUME GInv, [GameNext]_gameVars, LedgerStep
  PROVE  Standing'
  <1>1. arena \in Arena
    BY DEF GInv, IInv, TypeOK
  <1>2. UNCHANGED <<lives, runs>> /\ arena'.run_id = arena.run_id
    BY <1>1 DEF LedgerStep, CloseGame, RequestLeave, LeaseExpires, Arena
  <1> QED
    BY <1>2, LedgerStanding DEF LedgerStep

\* The connections keep the lives and slots they name, and a connection that
\* waits for match.lock did so before.
SeatsKept ==
    /\ conns' \in [Conns -> SeatRecord]
    /\ \A c \in Conns : /\ conns'[c].life = conns[c].life
                        /\ conns'[c].slot = conns[c].slot
                        /\ conns'[c].phase = "attaching" =>
                              conns[c].phase = "attaching" /\ conns'[c].run = conns[c].run

\* A manager without an engine moves, and the worker may remember a start that failed.
LEMMA UnservedStanding ==
  ASSUME GInv, [GameNext]_gameVars,
         match.run = 0, engine.run = 0, UNCHANGED <<ipcVars, match, task>>,
         worker' \in WorkerRecord, worker'.up = worker.up,
         mgr' \in MgrRecord, MgrShape', SeatsKept,
         touched' \in SUBSET RunIds, JournalShape'
  PROVE  Standing'
  <1>0. /\ UNCHANGED <<engine, journal, toEngine, acks, match, task>>
        /\ worker' \in WorkerRecord /\ worker'.up = worker.up
        /\ MatchShape /\ TaskShape /\ ServerTyped
    BY DEF GInv, ipcVars
  <1>1. /\ match.state = "none"
        /\ task.op = "none" /\ task.pc = "idle" /\ task.wait = "none"
    BY <1>0 DEF MatchShape, TaskShape
  <1>2. EngineTyped' /\ ServerTyped' /\ SeatShape'
    BY <1>0 DEF GInv, EngineTyped, ServerTyped, SeatShape, SeatsKept
  <1>3. MatchShape' /\ EngineShape' /\ Admitting'
    BY <1>0, <1>1 DEF GInv, MatchShape, EngineShape, Ends, Admitting
  <1>4. TaskShape' /\ LeaveShape'
    <2>1. \A c \in Conns : conns'[c].phase = "attaching" => conns'[c].run # 0
      BY <1>0 DEF SeatsKept, TaskShape
    <2> QED
      BY <1>0, <1>1, <2>1, AtRest
  <1>5. OneAdmission' /\ Answering'
    BY <1>0, <1>1, SocketShut
  <1> QED
    BY <1>2, <1>3, <1>4, <1>5 DEF Standing

LEMMA ManagerStanding ==
  ASSUME GInv, [GameNext]_gameVars,
         match.run = 0, engine.run = 0, UNCHANGED <<ipcVars, match, task, worker>>,
         mgr' \in MgrRecord, MgrShape', SeatsKept,
         touched' \in SUBSET RunIds, JournalShape'
  PROVE  Standing'
  <1>1. worker' \in WorkerRecord /\ worker'.up = worker.up
    BY DEF GInv, ServerTyped
  <1> QED
    BY <1>1, UnservedStanding

LEMMA IdleSeats ==
  ASSUME GInv, UNCHANGED conns
  PROVE  SeatsKept
  BY DEF GInv, ServerTyped, SeatsKept

LEMMA MgrReads ==
  ASSUME EngineTyped, NEW m \in MgrRecord, m.run \in RunIds, m.offset <= Len(journal[m.run])
  PROVE  /\ MgrReading(m) \in MgrRecord
         /\ MgrReading(m).op = m.op
         /\ MgrReading(m).conn = m.conn
         /\ MgrReading(m).player = m.player
         /\ MgrReading(m).todo = m.todo
         /\ MgrReading(m).run = m.run
         /\ MgrReading(m).offset = m.offset
         /\ \/ /\ MgrReading(m).pc = "apply"
               /\ m.offset < MgrReading(m).until
               /\ MgrReading(m).until <= Len(journal[m.run])
            \/ /\ MgrReading(m).pc = "release"
               /\ m.offset = Len(journal[m.run])
  <1>1. /\ Len(journal[m.run]) \in Nat
        /\ Len(journal[m.run]) <= MaxSequence
        /\ m.offset \in Nat
    BY DEF EngineTyped, MgrRecord
  <1>2. CASE m.offset = Len(journal[m.run])
    <2>1. MgrReading(m) = [m EXCEPT !.pc = "release", !.until = 0]
      BY <1>2 DEF MgrReading
    <2>2. 0 \in 0 .. MaxSequence
      BY GameBounds
    <2> QED
      BY <1>2, <2>1, <2>2 DEF MgrRecord
  <1>3. CASE m.offset # Len(journal[m.run])
    <2>1. PICK until \in 0 .. MaxSequence :
             /\ until = Least(Len(journal[m.run]), m.offset + BatchSize)
             /\ m.offset < until
             /\ until <= Len(journal[m.run])
      <3>1. BatchSize \in Nat \ {0} /\ MaxSequence \in Nat
        BY GameBounds
      <3> QED
        BY <1>1, <1>3, <3>1 DEF Least
    <2>2. MgrReading(m) = [m EXCEPT !.pc = "apply", !.until = until]
      BY <1>3, <2>1 DEF MgrReading
    <2> QED
      BY <2>1, <2>2 DEF MgrRecord
  <1> QED
    BY <1>2, <1>3

\* The manager gives up or has finished.
LEMMA ManagerFreed ==
  ASSUME mgr' = NoMgr
  PROVE  mgr' \in MgrRecord /\ MgrShape'
  <1>1. mgr' \in MgrRecord
    BY GameBounds DEF NoMgr, MgrRecord
  <1>2. mgr'.op = "none" /\ mgr'.pc = "idle"
    BY DEF NoMgr
  <1> QED
    BY <1>1, <1>2 DEF MgrShape

LEMMA RecoverNextStanding ==
  ASSUME GInv, [GameNext]_gameVars, NEW r \in RunIds, RecoverNext(r) \/ JournalMissing(r)
  PROVE  Standing'
  <1>0. mgr.pc = "next" /\ mgr \in MgrRecord /\ EngineTyped /\ MgrShape
    BY DEF RecoverNext, JournalMissing, GInv, ServerTyped
  <1>1. /\ match.run = 0 /\ engine.run = 0 /\ worker.up /\ mgr.op # "none"
    BY <1>0, MgrAlone
  <1>2. CASE RecoverNext(r)
    <2>1. /\ mgr' = MgrReading([mgr EXCEPT !.run = r])
          /\ UNCHANGED <<ipcVars, match, task, worker>>
          /\ UNCHANGED <<journal, touched, conns, runs, arena>>
      BY <1>2 DEF RecoverNext, workerVars, vars, ipcVars
    <2>2. PICK m \in MgrRecord : m = [mgr EXCEPT !.run = r]
      BY <1>0 DEF MgrRecord
    <2>3. /\ m.run = r /\ m.offset = 0 /\ m.op = mgr.op /\ m.conn = mgr.conn
          /\ m.player = mgr.player
      BY <1>0, <2>2 DEF MgrRecord, MgrShape
    <2>4. 0 <= Len(journal[r]) /\ runs[r].sequence \in Nat
      BY RunsTyped
    <2>5. /\ mgr' \in MgrRecord
          /\ mgr'.op = mgr.op /\ mgr'.conn = mgr.conn /\ mgr'.player = mgr.player
          /\ mgr'.run = r /\ mgr'.offset = 0
          /\ \/ mgr'.pc = "apply" /\ 0 < mgr'.until /\ mgr'.until <= Len(journal[r])
             \/ mgr'.pc = "release" /\ 0 = Len(journal[r])
      <3>1. mgr' = MgrReading(m) /\ m.run \in RunIds /\ m.offset <= Len(journal[m.run])
        BY <2>1, <2>2, <2>3, <2>4
      <3> QED
        BY <1>0, <2>3, <3>1, MgrReads
    <2>6. MgrShape'
      BY <1>0, <1>1, <2>1, <2>4, <2>5 DEF MgrShape
    <2>7. JournalShape' /\ SeatsKept /\ touched' \in SUBSET RunIds
      BY <2>1, JournalShapeKept, IdleSeats DEF GInv, ServerTyped
    <2> QED
      BY <1>1, <2>1, <2>5, <2>6, <2>7, ManagerStanding
  <1>3. CASE JournalMissing(r)
    <2>1. /\ mgr' = NoMgr
          /\ UNCHANGED <<ipcVars, match, task, worker>>
          /\ UNCHANGED <<journal, touched>>
          /\ conns' = [conns EXCEPT ![mgr.conn].phase = "open"]
      BY <1>3 DEF JournalMissing, workerVars, ipcVars
    <2>2. SeatsKept
      <3>1. conns \in [Conns -> SeatRecord]
        BY DEF GInv, ServerTyped
      <3> QED
        BY <2>1, <3>1 DEF SeatsKept, SeatRecord, Phases
    <2>3. JournalShape' /\ touched' \in SUBSET RunIds
      BY <2>1, JournalShapeKept DEF GInv, ServerTyped
    <2> QED
      BY <1>1, <2>1, <2>2, <2>3, ManagerFreed, ManagerStanding
  <1> QED
    BY <1>2, <1>3

\* The runs keep their state when a line is applied.
LEMMA LineRuns ==
  ASSUME GInv, NEW r \in RunIds, NEW n, ApplyLine(r, n)
  PROVE  /\ UNCHANGED arena
         /\ \A q \in RunIds : runs'[q].status = runs[q].status
         /\ n <= runs'[r].sequence
  <1>1. runs \in [RunIds -> Run]
    BY RunsTyped
  <1>2. CASE n <= runs[r].sequence
    BY <1>2 DEF ApplyLine, vars
  <1>3. CASE ~ (n <= runs[r].sequence)
    <2>1. /\ n = runs[r].sequence + 1
          /\ runs' = [runs EXCEPT ![r].sequence = @ + 1]
          /\ UNCHANGED arena
      BY <1>3 DEF ApplyLine, ConsumeDeath, SkipDeath
    <2> QED
      BY <1>1, <2>1 DEF Run
  <1> QED
    BY <1>2, <1>3

LEMMA RecoverApplyStanding ==
  ASSUME GInv, [GameNext]_gameVars, RecoverApply
  PROVE  Standing'
  <1>0. mgr.pc = "apply" /\ mgr \in MgrRecord /\ EngineTyped /\ MgrShape
    BY DEF RecoverApply, GInv, ServerTyped
  <1>1. /\ match.run = 0 /\ engine.run = 0 /\ worker.up /\ mgr.op # "none"
    BY <1>0, MgrAlone
  <1>2. /\ mgr.run \in RunIds
        /\ mgr.offset \in Nat /\ mgr.until \in Nat
        /\ mgr.offset < mgr.until
        /\ mgr.until <= Len(journal[mgr.run])
        /\ Len(journal[mgr.run]) \in Nat
        /\ Len(journal[mgr.run]) <= MaxSequence
    BY <1>0, NextRecovered DEF MgrShape, EngineTyped
  <1>3. PICK m \in MgrRecord : m = [mgr EXCEPT !.offset = @ + 1]
    <2>1. mgr.offset + 1 \in 0 .. MaxSequence
      BY <1>2, GameBounds
    <2> QED
      BY <1>0, <2>1 DEF MgrRecord
  <1>4. /\ m.offset = mgr.offset + 1
        /\ m.op = mgr.op /\ m.pc = "apply" /\ m.conn = mgr.conn /\ m.player = mgr.player
        /\ m.run = mgr.run /\ m.until = mgr.until
    BY <1>0, <1>3 DEF MgrRecord
  <1>5. /\ ApplyLine(mgr.run, m.offset)
        /\ mgr' = IF m.offset = m.until THEN MgrReading(m) ELSE m
        /\ UNCHANGED <<ipcVars, match, task, worker>>
        /\ UNCHANGED <<journal, touched, conns>>
    BY <1>3 DEF RecoverApply, BatchEnd, workerVars, ipcVars
  <1>6. /\ UNCHANGED arena
        /\ \A q \in RunIds : runs'[q].status = runs[q].status
        /\ m.offset <= runs'[mgr.run].sequence
    BY <1>2, <1>5, LineRuns
  <1>7. /\ mgr' \in MgrRecord
        /\ mgr'.op = mgr.op /\ mgr'.conn = mgr.conn /\ mgr'.player = mgr.player
        /\ mgr'.run = mgr.run /\ mgr'.offset = m.offset
        /\ \/ /\ mgr'.pc = "apply"
              /\ m.offset < mgr'.until /\ mgr'.until <= Len(journal[mgr.run])
           \/ /\ mgr'.pc = "release"
              /\ m.offset = Len(journal[mgr.run])
    <2>1. CASE m.offset = m.until
      BY <1>0, <1>2, <1>4, <1>5, <2>1, MgrReads
    <2>2. CASE m.offset # m.until
      BY <1>2, <1>4, <1>5, <2>2
    <2> QED
      BY <2>1, <2>2
  <1>8. MgrShape'
    BY <1>0, <1>1, <1>2, <1>5, <1>6, <1>7 DEF MgrShape
  <1>9. JournalShape' /\ SeatsKept /\ touched' \in SUBSET RunIds
    BY <1>5, JournalShapeKept, IdleSeats DEF GInv, ServerTyped
  <1> QED
    BY <1>1, <1>5, <1>7, <1>8, <1>9, ManagerStanding

LEMMA RecoveredStanding ==
  ASSUME GInv, [GameNext]_gameVars, Recovered
  PROVE  Standing'
  <1>0. mgr.pc = "release" /\ mgr \in MgrRecord /\ MgrShape
    BY DEF Recovered, GInv, ServerTyped
  <1>1. /\ match.run = 0 /\ engine.run = 0 /\ worker.up /\ mgr.op # "none"
    BY <1>0, MgrAlone
  <1>2. /\ RecoverRun(mgr.run)
        /\ mgr' = [mgr EXCEPT !.pc = "next", !.todo = @ \ {mgr.run}, !.run = 0, !.offset = 0]
        /\ UNCHANGED <<ipcVars, match, task, worker>>
        /\ UNCHANGED <<journal, touched, conns>>
    BY DEF Recovered, workerVars, ipcVars
  <1>3. mgr.run \in RunIds
    BY <1>0 DEF MgrShape
  <1>4. /\ UNCHANGED arena
        /\ runs[mgr.run].status = "running"
        /\ \A q \in RunIds \ {mgr.run} : runs'[q].status = runs[q].status
    BY <1>2, RunsTyped DEF RecoverRun
  <1>5. /\ mgr' \in MgrRecord
        /\ mgr'.op = mgr.op /\ mgr'.conn = mgr.conn /\ mgr'.player = mgr.player
        /\ mgr'.pc = "next" /\ mgr'.offset = 0
    <2>1. 0 \in 0 .. MaxSequence
      BY GameBounds
    <2> QED
      BY <1>0, <1>2, <2>1 DEF MgrRecord
  <1>6. MgrShape'
    BY <1>0, <1>1, <1>2, <1>3, <1>4, <1>5 DEF MgrShape
  <1>7. JournalShape' /\ SeatsKept /\ touched' \in SUBSET RunIds
    BY <1>2, JournalShapeKept, IdleSeats DEF GInv, ServerTyped
  <1> QED
    BY <1>1, <1>2, <1>5, <1>6, <1>7, ManagerStanding

LEMMA InsertRunStanding ==
  ASSUME GInv, [GameNext]_gameVars, InsertRun
  PROVE  Standing'
  <1>0. mgr.op = "ensure" /\ mgr.pc = "next" /\ mgr \in MgrRecord /\ MgrShape
    BY DEF InsertRun, GInv, ServerTyped
  <1>1. /\ match.run = 0 /\ engine.run = 0 /\ worker.up
    BY <1>0, MgrAlone
  <1>2. /\ StartRun(arena.run_id)
        /\ mgr' = [mgr EXCEPT !.pc = "start"]
        /\ UNCHANGED <<ipcVars, match, task, worker>>
        /\ UNCHANGED <<journal, touched, conns>>
    BY DEF InsertRun, workerVars, ipcVars
  <1>3. /\ arena.run_id \in RunIds
        /\ runs[arena.run_id].status = "none"
        /\ mgr.conn \in Conns
    BY <1>0 DEF MgrShape
  <1>4. arena.run_id \notin touched
    BY <1>3 DEF GInv, JournalShape
  <1>5. /\ UNCHANGED arena
        /\ runs'[arena.run_id].status = "running"
        /\ \A q \in RunIds \ {arena.run_id} : runs'[q].status # "running"
    BY <1>2, <1>3, RunsTyped DEF StartRun
  <1>6. /\ mgr' \in MgrRecord
        /\ mgr'.op = "ensure" /\ mgr'.conn = mgr.conn /\ mgr'.pc = "start"
    BY <1>0, <1>2 DEF MgrRecord
  <1>7. MgrShape'
    BY <1>1, <1>2, <1>3, <1>4, <1>5, <1>6 DEF MgrShape
  <1>8. JournalShape' /\ SeatsKept /\ touched' \in SUBSET RunIds
    BY <1>2, JournalShapeKept, IdleSeats DEF GInv, ServerTyped
  <1> QED
    BY <1>1, <1>2, <1>6, <1>7, <1>8, ManagerStanding

\* While a run is started, it is the one of the lease and has no journal.
LEMMA Starting ==
  ASSUME GInv, mgr.pc = "start"
  PROVE  /\ mgr.conn \in Conns
         /\ arena.run_id \in RunIds
         /\ arena.run_id \notin touched
         /\ runs[arena.run_id].status = "running"
         /\ runs[arena.run_id].sequence = 0
         /\ \A r \in RunIds \ {arena.run_id} : runs[r].status # "running"
         /\ journal[arena.run_id] = <<>>
  <1>1. mgr.op = "ensure" /\ MgrShape
    <2>1. mgr.op \in {"none", "ensure", "leave"} /\ MgrShape
      BY DEF GInv, ServerTyped, MgrRecord
    <2> QED
      BY <2>1 DEF MgrShape
  <1>2. arena.run_id \in RunIds /\ arena.run_id \notin touched /\ mgr.conn \in Conns
    BY <1>1 DEF MgrShape
  <1>3. journal[arena.run_id] = <<>>
    BY <1>2 DEF GInv, JournalShape
  <1>4. runs[arena.run_id].sequence = 0
    BY <1>2, <1>3, RunsTyped
  <1> QED
    BY <1>1, <1>2, <1>3, <1>4 DEF MgrShape

LEMMA StartMatchStanding ==
  ASSUME GInv, [GameNext]_gameVars, StartMatch
  PROVE  Standing'
  <1>0. mgr.pc = "start"
    BY DEF StartMatch
  <1>1. /\ worker.up /\ task.op = "none" /\ task.pc = "idle" /\ task.wait = "none"
    BY <1>0, MgrAlone
  <1>2. PICK r \in RunIds : r = arena.run_id
    BY <1>0, Starting
  <1>3. /\ mgr.conn \in Conns /\ r \notin touched
        /\ runs[r].status = "running" /\ runs[r].sequence = 0
        /\ \A q \in RunIds \ {r} : runs[q].status # "running"
    BY <1>0, <1>2, Starting
  <1>4. /\ engine' = [NoEngine EXCEPT !.run = r]
        /\ toEngine' = <<>> /\ acks' = <<>>
        /\ touched' = touched \cup {r}
        /\ match' = [NoMatch EXCEPT !.run = r, !.state = "open"]
        /\ conns' = [conns EXCEPT ![mgr.conn].phase = "attaching", ![mgr.conn].run = r]
        /\ mgr' = NoMgr
        /\ UNCHANGED <<journal, lives, runs, arena, task, worker>>
    BY <1>2 DEF StartMatch, EngineStarts, vars
  <1>5. /\ engine' \in EngineRecord /\ engine'.run = r
        /\ \A s \in Slots : ~Ends(s)'
    BY <1>4 DEF NoEngine, EngineRecord, Ends
  <1>6. /\ match' \in MatchRecord /\ match'.run = r /\ match'.state = "open" /\ match'.offset = 0
    <2>1. match' = [run |-> r, state |-> "open", offset |-> 0, peers |-> [s \in Slots |-> NoConn]]
      BY <1>4 DEF NoMatch
    <2>2. 0 \in 0 .. MaxSequence
      BY GameBounds
    <2> QED
      BY <2>1, <2>2 DEF MatchRecord
  <1>7. /\ conns' \in [Conns -> SeatRecord]
        /\ \A c \in Conns : /\ conns'[c].life = conns[c].life
                            /\ conns'[c].slot = conns[c].slot
                            /\ \/ conns'[c].run = r
                               \/ /\ conns'[c].phase = conns[c].phase
                                  /\ conns'[c].run = conns[c].run
    <2>1. conns \in [Conns -> SeatRecord]
      BY DEF GInv, ServerTyped
    <2>0. PICK old \in SeatRecord : old = conns[mgr.conn]
      BY <1>3, <2>1
    <2>2. PICK seat \in SeatRecord : seat = [old EXCEPT !.phase = "attaching", !.run = r]
      BY DEF SeatRecord, Phases
    <2>3. conns' = [conns EXCEPT ![mgr.conn] = seat]
      BY <1>3, <1>4, <2>0, <2>1, <2>2
    <2>4. seat.life = conns[mgr.conn].life /\ seat.slot = conns[mgr.conn].slot /\ seat.run = r
      BY <2>0, <2>2 DEF SeatRecord
    <2> QED
      BY <1>3, <2>1, <2>3, <2>4
  <1>8. EngineTyped'
    BY <1>4, <1>5 DEF GInv, EngineTyped
  <1>9. ServerTyped'
    BY <1>4, <1>6, <1>7, ManagerFreed DEF GInv, ServerTyped
  <1>10. SeatShape'
    BY <1>7 DEF GInv, SeatShape
  <1>11. MatchShape'
    <2>1. mgr'.op = "none"
      BY <1>4 DEF NoMgr
    <2> QED
      BY <1>1, <1>2, <1>3, <1>4, <1>6, <2>1, GameBounds DEF MatchShape
  <1>12. EngineShape'
    BY <1>2, <1>3, <1>4, <1>5, <1>6, GameBounds DEF EngineShape
  <1>13. JournalShape'
    BY <1>3, <1>4 DEF GInv, JournalShape
  <1>14. TaskShape' /\ LeaveShape'
    <2>1. \A c \in Conns : conns'[c].phase = "attaching" => conns'[c].run # 0
      BY <1>7, GameBounds DEF GInv, TaskShape
    <2> QED
      BY <1>1, <1>4, <2>1, AtRest
  <1>15. Admitting' /\ OneAdmission' /\ Answering'
    BY <1>4 DEF Admitting, OneAdmission, Answering
  <1> QED
    BY <1>4, <1>8, <1>9, <1>10, <1>11, <1>12, <1>13, <1>14, <1>15, ManagerFreed DEF Standing

LEMMA StartFailsStanding ==
  ASSUME GInv, [GameNext]_gameVars, StartFails
  PROVE  Standing'
  <1>0. mgr.pc = "start"
    BY DEF StartFails
  <1>1. match.run = 0 /\ engine.run = 0
    BY <1>0, MgrAlone
  <1>2. PICK r \in RunIds : r = arena.run_id
    BY <1>0, Starting
  <1>3. /\ \/ UNCHANGED <<runs, touched>>
           \/ StopRun(r) /\ touched' = touched \cup {r}
        /\ conns' = [conns EXCEPT ![mgr.conn].phase = "open"]
        /\ mgr' = NoMgr
        /\ UNCHANGED <<ipcVars, match, task>>
        /\ UNCHANGED journal
        /\ UNCHANGED worker \/ worker' = [worker EXCEPT !.broken = "match"]
    BY <1>2 DEF StartFails, vars, ipcVars
  <1>4. SeatsKept
    <2>1. conns \in [Conns -> SeatRecord]
      BY DEF GInv, ServerTyped
    <2>2. conns' = [conns EXCEPT ![mgr.conn].phase = "open"]
      BY <1>3
    <2> QED
      BY <2>1, <2>2 DEF SeatsKept, SeatRecord, Phases
  <1>5. touched' \in SUBSET RunIds
    BY <1>3 DEF GInv, ServerTyped
  <1>6. JournalShape'
    <2>1. CASE UNCHANGED <<runs, touched>>
      BY <1>3, <2>1, JournalShapeKept
    <2>2. CASE StopRun(r) /\ touched' = touched \cup {r}
      <3>1. runs'[r].status = "stopped" /\ \A q \in RunIds \ {r} : runs'[q] = runs[q]
        BY <2>2, RunsTyped DEF StopRun, Run
      <3> QED
        BY <1>3, <2>2, <3>1 DEF GInv, JournalShape
    <2> QED
      BY <1>3, <2>1, <2>2
  <1>7. worker' \in WorkerRecord /\ worker'.up = worker.up
    BY <1>3 DEF GInv, ServerTyped, WorkerRecord, Broken
  <1> QED
    BY <1>1, <1>3, <1>4, <1>5, <1>6, <1>7, ManagerFreed, UnservedStanding

LEMMA LeaveRecoveredStanding ==
  ASSUME GInv, [GameNext]_gameVars, LeaveRecovered
  PROVE  Standing'
  <1>1. match.run = 0 /\ engine.run = 0
    BY MgrAlone DEF LeaveRecovered
  <1>2. /\ mgr' = NoMgr
        /\ UNCHANGED <<ipcVars, match, task, worker>>
        /\ UNCHANGED <<journal, touched, conns>>
    BY DEF LeaveRecovered, workerVars, ipcVars
  <1>3. JournalShape' /\ SeatsKept /\ touched' \in SUBSET RunIds
    BY <1>2, JournalShapeKept, IdleSeats DEF GInv, ServerTyped
  <1> QED
    BY <1>1, <1>2, <1>3, ManagerFreed, ManagerStanding

LEMMA RecoveryStanding ==
  ASSUME GInv, RecoveryStep
  PROVE  Standing'
  <1>1. [GameNext]_gameVars
    BY DEF GameNext
  <1> QED
    BY <1>1, RecoverNextStanding, RecoverApplyStanding, RecoveredStanding, InsertRunStanding,
       StartMatchStanding, StartFailsStanding, LeaveRecoveredStanding DEF RecoveryStep

\* A manager that begins to recover runs finds no engine.
LEMMA Unserved ==
  ASSUME GInv, NoServer
  PROVE  /\ match.run = 0
         /\ engine.run = 0
         /\ worker.up
         /\ mgr.op = "none"
  BY DEF GInv, NoServer, ManagerFree, EngineShape

LEMMA RunningTyped == RunningRuns \in SUBSET RunIds
  BY DEF RunningRuns

LEMMA LeaveWithoutMatchStanding ==
  ASSUME GInv, [GameNext]_gameVars, NEW p \in Players, LeaveWithoutMatch(p)
  PROVE  Standing'
  <1>1. match.run = 0 /\ engine.run = 0 /\ worker.up
    BY Unserved DEF LeaveWithoutMatch
  <1>2. /\ mgr' = [NoMgr EXCEPT !.op = "leave", !.pc = "next", !.player = p, !.todo = RunsOf(p)]
        /\ UNCHANGED <<ipcVars, match, task, worker>>
        /\ UNCHANGED <<journal, touched, conns>>
    BY DEF LeaveWithoutMatch, workerVars, ipcVars
  <1>3. RunsOf(p) \in SUBSET RunIds
    BY RunningTyped DEF RunsOf
  <1>4. /\ mgr' \in MgrRecord /\ mgr'.op = "leave" /\ mgr'.pc = "next"
        /\ mgr'.player = p /\ mgr'.offset = 0
    <2>1. mgr' = [op |-> "leave", pc |-> "next", conn |-> NoConn, player |-> p,
                  todo |-> RunsOf(p), run |-> 0, offset |-> 0, until |-> 0]
      BY <1>2 DEF NoMgr
    <2>2. 0 \in 0 .. MaxSequence
      BY GameBounds
    <2> QED
      BY <1>3, <2>1, <2>2 DEF MgrRecord
  <1>5. MgrShape'
    BY <1>1, <1>2, <1>4 DEF MgrShape
  <1>6. JournalShape' /\ SeatsKept /\ touched' \in SUBSET RunIds
    BY <1>2, JournalShapeKept, IdleSeats DEF GInv, ServerTyped
  <1> QED
    BY <1>1, <1>2, <1>4, <1>5, <1>6, ManagerStanding

LEMMA EnsureStanding ==
  ASSUME GInv, [GameNext]_gameVars, NEW c \in Conns, EnsureBegin(c)
  PROVE  Standing'
  <1>0. /\ conns[c].phase = "open"
        /\ UNCHANGED <<ipcVars, match, task, worker>>
        /\ UNCHANGED <<engine, journal, toEngine, acks, touched>>
    BY DEF EnsureBegin, workerVars, ipcVars
  <1>1. conns \in [Conns -> SeatRecord]
    BY DEF GInv, ServerTyped
  <1>2. ASSUME match.state = "open", UNCHANGED <<vars, mgr>>,
               conns' = [conns EXCEPT ![c].phase = "attaching", ![c].run = match.run]
        PROVE  Standing'
    <2>1. match.run \in RunIds /\ match.run # 0
      BY <1>2, TaskMatch
    <2>2. PICK seat \in SeatRecord : seat = [conns[c] EXCEPT !.phase = "attaching", !.run = match.run]
      BY <1>1, <2>1 DEF SeatRecord, Phases
    <2>3. conns' = [conns EXCEPT ![c] = seat]
      BY <1>1, <1>2, <2>2
    <2>4. /\ seat.life = conns[c].life /\ seat.slot = conns[c].slot
          /\ seat.run = match.run /\ seat.phase = "attaching"
      BY <1>1, <2>2 DEF SeatRecord
    <2>5. /\ conns' \in [Conns -> SeatRecord]
          /\ \A d \in Conns : /\ conns'[d].life = conns[d].life
                              /\ conns'[d].slot = conns[d].slot
                              /\ conns[d].phase = "attaching" => conns'[d].phase = "attaching"
                              /\ \/ conns'[d].run = match.run
                                 \/ /\ conns'[d].phase = conns[d].phase
                                    /\ conns'[d].run = conns[d].run
      BY <1>1, <2>3, <2>4
    <2>6. UNCHANGED <<lives, runs, arena, mgr>>
      BY <1>2 DEF vars
    <2>7. EngineTyped' /\ ServerTyped' /\ SeatShape'
      BY <1>0, <2>5, <2>6 DEF GInv, EngineTyped, ServerTyped, SeatShape
    <2>8. MatchShape' /\ EngineShape' /\ JournalShape' /\ MgrShape'
      BY <1>0, <2>6 DEF GInv, MatchShape, EngineShape, JournalShape, MgrShape, Ends
    <2>9. TaskShape'
      BY <1>0, <2>1, <2>5 DEF GInv, TaskShape, AttachShape, DetachShape, StopShape
    <2>10. Admitting' /\ OneAdmission' /\ Answering' /\ LeaveShape'
      BY <1>0, <2>6 DEF GInv, Admitting, Admits, Sits, OneAdmission, IsAdmitted, Answering,
                        LeaveShape, Ends, UsableOf, Unapplied
    <2> QED
      BY <2>7, <2>8, <2>9, <2>10 DEF Standing
  <1>3. ASSUME NoServer, NEW r \in RunIds, LeaseArena(r),
               mgr' = [NoMgr EXCEPT !.op = "ensure", !.pc = "next", !.conn = c,
                                    !.todo = RunningRuns],
               conns' = [conns EXCEPT ![c].phase = "ensuring"]
        PROVE  Standing'
    <2>1. match.run = 0 /\ engine.run = 0 /\ worker.up
      BY <1>3, Unserved
    <2>2. /\ mgr' \in MgrRecord /\ mgr'.op = "ensure" /\ mgr'.pc = "next"
          /\ mgr'.conn = c /\ mgr'.offset = 0
      <3>1. mgr' = [op |-> "ensure", pc |-> "next", conn |-> c, player |-> NoPlayer,
                    todo |-> RunningRuns, run |-> 0, offset |-> 0, until |-> 0]
        BY <1>3 DEF NoMgr
      <3>2. 0 \in 0 .. MaxSequence
        BY GameBounds
      <3> QED
        BY <3>1, <3>2, RunningTyped DEF MgrRecord
    <2>3. arena'.run_id = r /\ runs'[r].status = "none"
      <3>1. arena \in Arena /\ RunRows
        BY DEF GInv, IInv, SInv, TypeOK
      <3>2. arena.run_id < r
        BY <1>3, <3>1 DEF LeaseArena, Arena
      <3> QED
        BY <1>3, <3>1, <3>2 DEF LeaseArena, Arena, RunRows
    <2>4. MgrShape'
      BY <1>0, <2>1, <2>2, <2>3 DEF MgrShape
    <2>5. SeatsKept
      BY <1>1, <1>3 DEF SeatsKept, SeatRecord, Phases
    <2>6. JournalShape' /\ touched' \in SUBSET RunIds
      BY <1>0, JournalShapeKept DEF GInv, ServerTyped
    <2> QED
      BY <1>0, <2>1, <2>2, <2>4, <2>5, <2>6, ManagerStanding
  <1> QED
    BY <1>2, <1>3 DEF EnsureBegin

----------------------------------------------------------------------------
(* The operations under match.lock.                                         *)

\* An operation of a match that goes on leaves the other processes alone.
Goes ==
    /\ UNCHANGED <<engine, journal, mgr, touched, worker>>
    /\ arena'.run_id = arena.run_id
    /\ \A r \in RunIds : runs'[r].status = runs[r].status
    /\ match' \in MatchRecord
    /\ match'.run = match.run
    /\ match'.state # "none"
    /\ match'.state = "open" => match.state = "open"
    /\ match'.offset = runs'[match.run].sequence

LEMMA OperationStanding ==
  ASSUME GInv, [GameNext]_gameVars, match.run # 0, Goes,
         task' \in TaskRecord, conns' \in [Conns -> SeatRecord], toEngine' \in Seq(Packet),
         UNCHANGED acks \/ (acks # <<>> /\ acks' = Tail(acks)),
         SeatShape', TaskShape', Admitting', OneAdmission', LeaveShape'
  PROVE  Standing'
  <1>1. EngineTyped'
    BY AckRead DEF GInv, Goes, EngineTyped
  <1>2. ServerTyped'
    BY DEF GInv, Goes, ServerTyped
  <1>3. MatchShape'
    <2>1. MatchShape /\ match.run \in RunIds
      BY TaskMatch DEF GInv
    <2> QED
      BY <2>1 DEF Goes, MatchShape
  <1>4. EngineShape'
    <2>1. EngineShape /\ engine \in EngineRecord
      BY DEF GInv, EngineTyped
    <2> QED
      BY <2>1 DEF Goes, EngineShape, Ends, EngineRecord
  <1>5. JournalShape'
    BY DEF GInv, Goes, JournalShape
  <1>6. MgrShape'
    <2>1. mgr.op = "none" /\ mgr.pc = "idle"
      BY TaskMatch
    <2> QED
      BY <2>1 DEF Goes, MgrShape
  <1>7. Answering'
    BY AnsweringKept DEF Goes
  <1> QED
    BY <1>1, <1>2, <1>3, <1>4, <1>5, <1>6, <1>7 DEF Standing

\* A step of a match that goes on without a transaction.
LEMMA MatchGoes ==
  ASSUME GInv, match.run # 0, UNCHANGED <<engine, journal, mgr, touched, worker, runs>>,
         arena'.run_id = arena.run_id,
         match' \in MatchRecord, match'.run = match.run, match'.offset = match.offset,
         match'.state # "none", match'.state = "open" => match.state = "open"
  PROVE  Goes
  BY TaskMatch DEF Goes

\* The lives of the admissions on their way.
LEMMA UnderWay ==
  ASSUME GInv, NEW n \in 1 .. Len(toEngine), Admits(n), engine.run # 0
  PROVE  /\ toEngine[n] \in Packet
         /\ engine.run \in RunIds
         /\ toEngine[n].life \in LifeIds
         /\ Sits(toEngine[n].life, engine.run, toEngine[n].slot)
         /\ match.run # 0 => engine.run = match.run
         /\ task.pc # "finish"
  <1>1. toEngine[n] \in Packet /\ engine.run \in RunIds
    BY DEF GInv, EngineTyped, EngineRecord
  <1>2. match.run # 0 => engine.run = match.run
    BY TaskMatch
  <1>3. task.pc # "finish"
    <2>1. SUFFICES ASSUME task.pc = "finish" PROVE FALSE
      OBVIOUS
    <2>2. match.state = "open"
      BY <2>1, TaskOps DEF GInv, LeaveShape
    <2> QED
      BY <2>1, <2>2, NoneUnderWay DEF GInv, NoAdmission
  <1> QED
    BY <1>1, <1>2, <1>3 DEF GInv, Admitting

LEMMA AdmittingStays ==
  ASSUME GInv, [GameNext]_gameVars, NEW n \in 1 .. Len(toEngine), Admits(n), engine.run # 0
  PROVE  Sits(toEngine[n].life, engine.run, toEngine[n].slot)'
           \/ toEngine'[n] # toEngine[n] \/ engine'.run # engine.run
  <1>1. PICK v \in LifeIds, r \in RunIds : v = toEngine[n].life /\ r = engine.run
    BY UnderWay
  <1>2. /\ lives[v].run = r /\ lives[v].slot = toEngine[n].slot
        /\ lives[v].status \in {"alive", "dead"}
        /\ match.run # 0 => r = match.run
        /\ task.pc # "finish"
    BY <1>1, UnderWay DEF Sits
  <1>3. /\ lives'[v].run = r /\ lives'[v].slot = lives[v].slot
        /\ lives'[v].status \in {"alive", "dead"}
    BY <1>2, SittingKept
  <1> QED
    BY <1>1, <1>2, <1>3 DEF Sits

LEMMA AdmittingKept ==
  ASSUME GInv, [GameNext]_gameVars, UNCHANGED <<engine, toEngine>>
  PROVE  Admitting'
  BY UnderWay, AdmittingStays DEF Admitting, Admits

LEMMA AdmittingSent ==
  ASSUME GInv, [GameNext]_gameVars, UNCHANGED engine, NEW pkt \in Packet,
         toEngine' = Append(toEngine, pkt),
         pkt.kind = "admit" /\ engine.run # 0 =>
             pkt.life \in LifeIds /\ Sits(pkt.life, engine.run, pkt.slot)'
  PROVE  Admitting'
  <1>0. EngineTyped
    BY DEF GInv
  <1>1. /\ Len(toEngine) \in Nat
        /\ Len(toEngine') = Len(toEngine) + 1
        /\ \A n \in 1 .. Len(toEngine) : toEngine'[n] = toEngine[n]
        /\ toEngine'[Len(toEngine) + 1] = pkt
    BY <1>0, PacketSent
  <1>2. SUFFICES ASSUME NEW n \in 1 .. Len(toEngine'), Admits(n)', engine.run # 0
                 PROVE  /\ toEngine'[n].life \in LifeIds
                        /\ Sits(toEngine[n].life, engine.run, toEngine[n].slot)'
    BY DEF Admitting
  <1>3. CASE n \in 1 .. Len(toEngine)
    <2>1. Admits(n) /\ toEngine'[n] = toEngine[n]
      BY <1>1, <1>2, <1>3 DEF Admits
    <2> QED
      BY <1>2, <1>3, <2>1, UnderWay, AdmittingStays DEF Sits
  <1>4. CASE n \notin 1 .. Len(toEngine)
    <2>1. n = Len(toEngine) + 1
      BY <1>1, <1>4
    <2> QED
      BY <1>1, <1>2, <2>1 DEF Admits, Sits
  <1> QED
    BY <1>3, <1>4

\* A packet that does not admit a life, or none.
Quiet ==
    \/ UNCHANGED toEngine
    \/ \E pkt \in Packet : pkt.kind # "admit" /\ toEngine' = Append(toEngine, pkt)

LEMMA QuietPackets ==
  ASSUME GInv, [GameNext]_gameVars, UNCHANGED engine, Quiet
  PROVE  toEngine' \in Seq(Packet) /\ Admitting'
  <1>1. EngineTyped
    BY DEF GInv
  <1>2. CASE UNCHANGED toEngine
    BY <1>1, <1>2, AdmittingKept DEF EngineTyped
  <1>3. ASSUME NEW pkt \in Packet, pkt.kind # "admit", toEngine' = Append(toEngine, pkt)
        PROVE  toEngine' \in Seq(Packet) /\ Admitting'
    BY <1>1, <1>3, PacketSent, AdmittingSent
  <1> QED
    BY <1>2, <1>3 DEF Quiet

LEMMA SendsQuietly ==
  ASSUME NEW kind \in Kinds \ {"admit"}, NEW s \in Slots, NEW waiting,
         Sends(kind, s, NoId, waiting)
  PROVE  Quiet
  <1>1. [kind |-> kind, slot |-> s, life |-> NoId] \in Packet
    BY DEF Packet
  <1> QED
    BY <1>1 DEF Sends, Quiet

\* No admission is under way before a step of an operation that waits for none,
\* and none after it.
LEMMA QuietAnswers ==
  ASSUME GInv, match'.state = "open" => match.state = "open" /\ task.pc # "admit", Quiet,
         UNCHANGED acks \/ (acks # <<>> /\ acks' = Tail(acks))
  PROVE  OneAdmission'
  <1>1. SUFFICES ASSUME match.state = "open", task.pc # "admit" PROVE OneAdmission'
    BY SocketShut
  <1>2. EngineTyped /\ NoAdmission
    BY <1>1, NoneUnderWay DEF GInv
  <1>3. \A n \in 1 .. Len(toEngine') : ~Admits(n)'
    <2>1. CASE UNCHANGED toEngine
      BY <1>2, <2>1 DEF NoAdmission, Admits
    <2>2. ASSUME NEW pkt \in Packet, pkt.kind # "admit", toEngine' = Append(toEngine, pkt)
          PROVE  \A n \in 1 .. Len(toEngine') : ~Admits(n)'
      <3>1. /\ Len(toEngine) \in Nat
            /\ Len(toEngine') = Len(toEngine) + 1
            /\ \A n \in 1 .. Len(toEngine) : toEngine'[n] = toEngine[n]
            /\ toEngine'[Len(toEngine) + 1] = pkt
        BY <1>2, <2>2, PacketSent
      <3> QED
        BY <1>2, <2>2, <3>1 DEF NoAdmission, Admits
    <2> QED
      BY <2>1, <2>2 DEF Quiet
  <1>4. \A n \in 1 .. Len(acks') : ~IsAdmitted(n)'
    <2>1. CASE UNCHANGED acks
      BY <1>2, <2>1 DEF NoAdmission, IsAdmitted
    <2>2. CASE acks # <<>> /\ acks' = Tail(acks)
      <3>1. \A n \in 1 .. Len(acks') : n + 1 \in 1 .. Len(acks) /\ acks'[n] = acks[n + 1]
        BY <1>2, <2>2, AckRead
      <3> QED
        BY <1>2, <3>1 DEF NoAdmission, IsAdmitted
    <2> QED
      BY <2>1, <2>2
  <1> QED
    BY <1>3, <1>4 DEF OneAdmission

\* An operation that does not take part in an admission.
LEMMA QuietStanding ==
  ASSUME GInv, [GameNext]_gameVars, match.run # 0, Goes,
         task' \in TaskRecord, conns' \in [Conns -> SeatRecord], Quiet,
         UNCHANGED acks \/ (acks # <<>> /\ acks' = Tail(acks)),
         match'.state = "open" => task.pc # "admit",
         SeatShape', TaskShape', LeaveShape'
  PROVE  Standing'
  <1>1. toEngine' \in Seq(Packet) /\ Admitting'
    BY QuietPackets DEF Goes
  <1>2. OneAdmission'
    BY QuietAnswers DEF Goes
  <1> QED
    BY <1>1, <1>2, OperationStanding

\* Connections are given up or stop waiting for match.lock.
SeatsLoosed ==
    /\ conns' \in [Conns -> SeatRecord]
    /\ \A c \in Conns :
          /\ conns'[c].life # NoId => /\ conns'[c].life = conns[c].life
                                      /\ conns'[c].slot = conns[c].slot
          /\ conns'[c].phase = "attaching" => /\ conns[c].phase = "attaching"
                                              /\ conns'[c].run = conns[c].run

LEMMA LooseSeats ==
  ASSUME GInv, SeatsLoosed
  PROVE  /\ SeatShape'
         /\ \A c \in Conns : conns'[c].phase = "attaching" => conns'[c].run # 0
  BY DEF GInv, SeatsLoosed, SeatShape, TaskShape

LEMMA SeatsStay ==
  ASSUME GInv, UNCHANGED conns
  PROVE  SeatsLoosed
  BY DEF GInv, ServerTyped, SeatsLoosed

\* The ways an operation lets go of connections.
LEMMA SeatFreed ==
  ASSUME GInv, NEW c \in Conns, conns' = [conns EXCEPT ![c] = NoSeat]
  PROVE  SeatsLoosed
  <1>1. conns \in [Conns -> SeatRecord]
    BY DEF GInv, ServerTyped
  <1>2. NoSeat \in SeatRecord /\ NoSeat.life = NoId /\ NoSeat.phase = "closed"
    BY DEF NoSeat, SeatRecord, Phases
  <1> QED
    BY <1>1, <1>2 DEF SeatsLoosed

LEMMA SeatOpened ==
  ASSUME GInv, NEW c \in Conns, conns' = [conns EXCEPT ![c].phase = "open"]
  PROVE  SeatsLoosed
  <1>1. conns \in [Conns -> SeatRecord]
    BY DEF GInv, ServerTyped
  <1> QED
    BY <1>1 DEF SeatsLoosed, SeatRecord, Phases

LEMMA TaskDone ==
  ASSUME task' = NoTask
  PROVE  task' \in TaskRecord /\ task'.op = "none" /\ task'.pc = "idle" /\ task'.wait = "none"
  <1>1. 0 \in 0 .. MaxSequence
    BY GameBounds
  <1> QED
    BY <1>1 DEF NoTask, TaskRecord, Ops

\* An operation that has finished.
LEMMA DoneStanding ==
  ASSUME GInv, [GameNext]_gameVars, match.run # 0, Goes, task' = NoTask, SeatsLoosed,
         UNCHANGED <<toEngine, acks>>, match'.state = "open" => task.pc # "admit"
  PROVE  Standing'
  <1>1. TaskShape' /\ LeaveShape'
    BY TaskDone, LooseSeats, AtRest
  <1> QED
    BY <1>1, TaskDone, LooseSeats, QuietStanding DEF Quiet, SeatsLoosed

LEMMA StateKept ==
  ASSUME GInv, match.run # 0, match' \in {match, Stopping, Closed}
  PROVE  /\ match' \in MatchRecord
         /\ match'.run = match.run
         /\ match'.offset = match.offset
         /\ match'.state # "none"
         /\ match'.state = "open" => match.state = "open" /\ match' = match
  <1>1. match \in MatchRecord /\ match.state # "none"
    BY DEF GInv, ServerTyped, MatchShape
  <1>2. CASE match' = match
    BY <1>1, <1>2
  <1>3. CASE match' = Stopping
    BY <1>1, <1>3 DEF Stopping, MatchRecord
  <1>4. CASE match' = Closed
    BY <1>1, <1>4 DEF Closed, MatchRecord
  <1> QED
    BY <1>2, <1>3, <1>4

LEMMA FailsStanding ==
  ASSUME GInv, [GameNext]_gameVars, OperationFails
  PROVE  Standing'
  <1>1. task.wait # "none"
    BY DEF OperationFails
  <1>2. task.op # "none" /\ match.run # 0
    BY <1>1, TaskOps, TaskMatch
  <1>3. /\ task' = NoTask
        /\ UNCHANGED <<engine, journal, toEngine, acks, mgr, touched, worker, runs, arena>>
    BY DEF OperationFails, vars, ipcVars, workerVars
  <1>4. /\ match' \in {match, Stopping, Closed}
        /\ match' = match => (task.op = "attach" /\ task.pc # "admit") \/ match.state # "open"
    <2>1. match' = IF task.op # "attach" THEN Stopping
                   ELSE IF task.pc = "admit" THEN Closed
                   ELSE match
      BY DEF OperationFails
    <2>2. match.state = "open" => Stopping # match /\ Closed # match
      <3>1. match \in MatchRecord
        BY DEF GInv, ServerTyped
      <3> QED
        BY <3>1 DEF Stopping, Closed, MatchRecord
    <2> QED
      BY <2>1, <2>2
  <1>5. Goes
    BY <1>2, <1>3, <1>4, StateKept, MatchGoes
  <1>6. match'.state = "open" => task.pc # "admit"
    BY <1>2, <1>4, StateKept
  <1>7. SeatsLoosed
    <2>1. CASE task.op = "attach"
      <3>1. task.conn \in Conns /\ conns' = [conns EXCEPT ![task.conn].phase = "open"]
        BY <2>1 DEF OperationFails, GInv, TaskShape, AttachShape
      <3> QED
        BY <3>1, SeatOpened
    <2>2. CASE task.op = "detach"
      <3>1. task.conn \in Conns /\ conns' = [conns EXCEPT ![task.conn] = NoSeat]
        BY <2>2 DEF OperationFails, GInv, TaskShape, DetachShape
      <3> QED
        BY <3>1, SeatFreed
    <2>3. CASE task.op # "attach" /\ task.op # "detach"
      BY <2>3, SeatsStay DEF OperationFails
    <2> QED
      BY <2>1, <2>2, <2>3
  <1> QED
    BY <1>2, <1>3, <1>5, <1>6, <1>7, DoneStanding

\* An attach that ends without an admission.
LEMMA AttachEndsStanding ==
  ASSUME GInv, [GameNext]_gameVars, NothingToAttach \/ CannotAllocate
  PROVE  Standing'
  <1>1. /\ task.pc \in {"tabs", "pop"}
        /\ AttachEnds(task.conn)
        /\ UNCHANGED <<vars, ipcVars, mgr, workerVars>>
        /\ \/ UNCHANGED match
           \/ /\ task.pc = "pop"
              /\ match' = [match EXCEPT !.peers[conns[task.conn].slot] = NoConn]
    BY DEF NothingToAttach, CannotAllocate, Allocating
  <1>2. task.op = "attach" /\ match.run # 0 /\ match.state # "none"
    BY <1>1, TaskOps, TaskMatch
  <1>3. task.conn \in Conns
    BY <1>2 DEF GInv, TaskShape, AttachShape
  <1>4. /\ task' = NoTask
        /\ conns' = [conns EXCEPT ![task.conn].phase = "open"]
        /\ UNCHANGED <<engine, journal, toEngine, acks, mgr, touched, worker, runs, arena>>
    BY <1>1 DEF AttachEnds, vars, ipcVars, workerVars
  <1>5. /\ match' \in MatchRecord /\ match'.run = match.run
        /\ match'.offset = match.offset /\ match'.state = match.state
    <2>1. match \in MatchRecord
      BY DEF GInv, ServerTyped
    <2> QED
      BY <1>1, <2>1 DEF MatchRecord
  <1>6. Goes
    BY <1>2, <1>4, <1>5, MatchGoes
  <1> QED
    BY <1>1, <1>2, <1>3, <1>4, <1>6, SeatOpened, DoneStanding

LEMMA GoneStanding ==
  ASSUME GInv, [GameNext]_gameVars, Gone
  PROVE  Standing'
  <1>1. task.pc = "gone"
    BY DEF Gone
  <1>2. task.op = "detach" /\ match.run # 0 /\ match.state # "none"
    BY <1>1, TaskOps, TaskMatch
  <1>3. task.conn \in Conns
    BY <1>2 DEF GInv, TaskShape, DetachShape
  <1>4. /\ task' = NoTask
        /\ conns' = [conns EXCEPT ![task.conn] = NoSeat]
        /\ match' = [match EXCEPT !.peers[conns[task.conn].slot] = NoConn]
        /\ UNCHANGED <<engine, journal, toEngine, acks, mgr, touched, worker, runs, arena>>
    BY DEF Gone, vars, ipcVars, workerVars
  <1>5. /\ match' \in MatchRecord /\ match'.run = match.run
        /\ match'.offset = match.offset /\ match'.state = match.state
    <2>1. match \in MatchRecord
      BY DEF GInv, ServerTyped
    <2> QED
      BY <1>4, <2>1 DEF MatchRecord
  <1>6. Goes
    BY <1>2, <1>4, <1>5, MatchGoes
  <1> QED
    BY <1>1, <1>2, <1>3, <1>4, <1>6, SeatFreed, DoneStanding

LEMMA VisitStanding ==
  ASSUME GInv, [GameNext]_gameVars, Renewed \/ VisitStops \/ VisitEnds
  PROVE  Standing'
  <1>1. /\ match.state # "none"
        /\ task.pc \in {"renew", "idle"}
    <2>1. Idle => task.pc = "idle"
      BY DEF GInv, TaskShape, Idle
    <2> QED
      BY <2>1 DEF Renewed, VisitStops, VisitEnds, Visiting
  <1>2. match.run # 0
    BY <1>1, TaskMatch
  <1>3. /\ task' = NoTask
        /\ match' \in {match, Stopping, Closed}
        /\ UNCHANGED <<engine, journal, toEngine, acks, mgr, conns, touched, worker, runs, arena>>
    BY DEF Renewed, VisitStops, VisitEnds, vars, ipcVars, workerVars
  <1>4. Goes
    BY <1>2, <1>3, StateKept, MatchGoes
  <1> QED
    BY <1>1, <1>2, <1>3, <1>4, SeatsStay, DoneStanding

LEMMA LeaveEndsStanding ==
  ASSUME GInv, [GameNext]_gameVars, LeaveEnds
  PROVE  Standing'
  <1>1. task.pc = "finish"
    BY DEF LeaveEnds
  <1>2. match.run # 0
    BY <1>1, TaskOps, TaskMatch
  <1>3. /\ task' = NoTask
        /\ match' \in {match, Stopping, Closed}
        /\ UNCHANGED <<engine, journal, toEngine, acks, mgr, conns, touched, worker, runs, arena>>
    BY DEF LeaveEnds, FinishLeave, vars, ipcVars, workerVars
  <1>4. Goes
    BY <1>2, <1>3, StateKept, MatchGoes
  <1> QED
    BY <1>1, <1>2, <1>3, <1>4, SeatsStay, DoneStanding

\* A connection that has no part in an operation is given up.
LEMMA LoosedStanding ==
  ASSUME GInv, [GameNext]_gameVars, Idle, UNCHANGED <<vars, ipcVars, match, task, mgr, workerVars>>,
         SeatsLoosed
  PROVE  Standing'
  <1>0. /\ UNCHANGED <<engine, journal, toEngine, acks, match, task, mgr, touched, worker>>
        /\ UNCHANGED <<lives, runs, arena>>
        /\ task.op = "none" /\ task.pc = "idle" /\ task.wait = "none"
    BY DEF GInv, TaskShape, Idle, vars, ipcVars, workerVars
  <1>1. EngineTyped' /\ ServerTyped'
    BY <1>0 DEF GInv, EngineTyped, ServerTyped, SeatsLoosed
  <1>2. MatchShape' /\ EngineShape' /\ JournalShape' /\ MgrShape'
    BY <1>0 DEF GInv, MatchShape, EngineShape, JournalShape, MgrShape, Ends
  <1>3. SeatShape' /\ TaskShape' /\ LeaveShape'
    BY <1>0, LooseSeats, AtRest
  <1>4. Admitting' /\ OneAdmission' /\ Answering'
    BY <1>0 DEF GInv, Admitting, Admits, Sits, OneAdmission, IsAdmitted, Answering, Ends
  <1> QED
    BY <1>1, <1>2, <1>3, <1>4 DEF Standing

LEMMA DisconnectStanding ==
  ASSUME GInv, [GameNext]_gameVars, NEW c \in Conns, Disconnect(c)
  PROVE  Standing'
  BY SeatFreed, LoosedStanding DEF Disconnect

LEMMA AttachRefused ==
  ASSUME GInv, [GameNext]_gameVars, NEW c \in Conns, AttachBegin(c), match.run # conns[c].run
  PROVE  Standing'
  <1>1. conns \in [Conns -> SeatRecord]
    BY DEF GInv, ServerTyped
  <1>2. /\ Idle
        /\ conns' = [conns EXCEPT ![c].phase = "open", ![c].run = 0]
        /\ UNCHANGED <<vars, ipcVars, match, task, mgr, workerVars>>
    BY DEF AttachBegin
  <1>3. PICK seat \in SeatRecord : seat = [conns[c] EXCEPT !.phase = "open", !.run = 0]
    BY <1>1 DEF SeatRecord, Phases
  <1>4. /\ seat.life = conns[c].life /\ seat.slot = conns[c].slot /\ seat.phase = "open"
    BY <1>1, <1>3 DEF SeatRecord
  <1>5. conns' = [conns EXCEPT ![c] = seat]
    BY <1>1, <1>2, <1>3
  <1>6. SeatsLoosed
    BY <1>1, <1>4, <1>5 DEF SeatsLoosed
  <1> QED
    BY <1>2, <1>6, LoosedStanding

\* An operation that is about to read the journal.
Begins(t) ==
    /\ t \in TaskRecord
    /\ t.op \in Ops
    /\ t.wait = "none"
    /\ t.op = "attach" => /\ t.conn \in Conns
                          /\ conns[t.conn].phase = "attaching"
                          /\ t.next \in {"tabs", "pop"}
                          /\ t.next = "pop" => conns[t.conn].slot \in Slots
    /\ t.op = "detach" => /\ t.conn \in Conns
                          /\ conns[t.conn].slot \in Slots
                          /\ t.next = "gone"
    /\ t.op = "tick" => t.next = "renew"
    /\ t.op = "stop" => t.next = "release" /\ engine.run = 0
    /\ t.op = "leave" => /\ t.player \in Players
                         /\ t.next = "finish"
                         /\ match.state = "open" \/ engine.run = 0
                         /\ \A s \in Slots : Ends(s) =>
                               engine.admission[s] \notin UsableOf(t.player)

\* The seats stay as they are; a connection may lose its life.
SeatsRest ==
    /\ conns' \in [Conns -> SeatRecord]
    /\ \A c \in Conns : /\ conns'[c].life \in {conns[c].life, NoId}
                        /\ conns'[c].slot = conns[c].slot
                        /\ conns'[c].phase = conns[c].phase
                        /\ conns'[c].run = conns[c].run

\* Nobody's life becomes usable.
NoneRevived ==
    \A l \in LifeIds : /\ lives'[l].player = lives[l].player
                       /\ lives'[l].status \in UsableStatus => lives[l].status \in UsableStatus

LEMMA SeatsRested ==
  ASSUME GInv, UNCHANGED conns
  PROVE  SeatsRest
  BY DEF GInv, ServerTyped, SeatsRest

LEMMA RestedShape ==
  ASSUME GInv, SeatsRest
  PROVE  /\ SeatShape'
         /\ \A c \in Conns : conns'[c].phase = "attaching" => conns'[c].run # 0
  BY DEF GInv, SeatsRest, SeatShape, TaskShape

LEMMA ReadStanding ==
  ASSUME GInv, [GameNext]_gameVars, match.run # 0, Goes, match'.state = match.state,
         SeatsRest, NoneRevived, Quiet,
         UNCHANGED acks \/ (acks # <<>> /\ acks' = Tail(acks)),
         match.state = "open" => task.pc # "admit",
         NEW t, Begins(t), Reads(task', t, match'.offset)
  PROVE  Standing'
  <1>0. /\ match.run \in RunIds
        /\ match'.run = match.run
        /\ match'.offset = runs'[match.run].sequence
        /\ UNCHANGED <<engine, journal>>
    BY TaskMatch DEF Goes
  <1>1. /\ Len(journal[match.run]) \in Nat
        /\ match'.offset \in Nat
        /\ task'.until \in Nat
    <2>1. match' \in MatchRecord /\ task' \in TaskRecord /\ EngineTyped
      BY DEF Goes, Reads, GInv
    <2> QED
      BY <1>0, <2>1 DEF MatchRecord, TaskRecord, EngineTyped
  <1>2. /\ task'.op = t.op /\ task'.next = t.next /\ task'.wait = "none"
        /\ task'.conn = t.conn /\ task'.player = t.player /\ task' \in TaskRecord
        /\ task'.pc \in {"apply", t.next}
        /\ task'.pc = "apply" => match'.offset < task'.until /\ task'.until <= Len(journal[match.run])
        /\ task'.pc # "apply" /\ Draining(t.op) => match'.offset = Len(journal[match.run])
    <2>1. t.next # "apply" /\ t.wait = "none"
      BY DEF Begins, TaskRecord
    <2>2. /\ task'.op = t.op /\ task'.next = t.next /\ task'.wait = t.wait
          /\ task'.conn = t.conn /\ task'.player = t.player /\ task' \in TaskRecord
      BY DEF Reads
    <2>3. \/ task'.pc = "apply" /\ match'.offset < task'.until /\ task'.until <= Len(journal[match.run])
          \/ task'.pc = t.next /\ (Draining(t.op) => match'.offset = Len(journal[match.run]))
      BY DEF Reads
    <2> QED
      BY <2>1, <2>2, <2>3
  <1>3. /\ SeatShape'
        /\ \A c \in Conns : conns'[c].phase = "attaching" => conns'[c].run # 0
    BY RestedShape
  <1>4. AttachShape'
    BY <1>2 DEF Begins, SeatsRest, AttachShape
  <1>5. DetachShape'
    BY <1>2 DEF Begins, SeatsRest, DetachShape
  <1>6. StopShape'
    BY <1>0, <1>2 DEF Begins, StopShape, Draining
  <1>7. TaskShape'
    <2>1. t.op \in {"attach", "detach", "tick", "leave", "stop"}
      BY DEF Begins, Ops
    <2>2. task'.pc = "apply" => match'.offset <= task'.until
      BY <1>1, <1>2
    <2> QED
      BY <1>0, <1>2, <1>3, <1>4, <1>5, <1>6, <2>1, <2>2 DEF Begins, TaskShape, Kinds
  <1>8. LeaveShape'
    <2>1. SUFFICES ASSUME t.op = "leave" PROVE LeaveShape'
      BY <1>2 DEF LeaveShape
    <2>2. \A p \in Players : UsableOf(p)' \subseteq UsableOf(p)
      BY DEF NoneRevived, UsableOf
    <2>3. \A s \in Slots : Ends(s)' => engine'.admission[s] \notin UsableOf(t.player)'
      BY <1>0, <2>1, <2>2 DEF Begins, Ends
    <2>4. task'.pc = "finish" => Unapplied(match.run)' = {}
      <3>1. SUFFICES ASSUME task'.pc = "finish" PROVE Unapplied(match.run)' = {}
        OBVIOUS
      <3>2. runs'[match.run].sequence = Len(journal'[match.run])
        BY <1>0, <1>2, <2>1, <3>1 DEF Draining
      <3> QED
        BY <1>0, <1>1, <3>2 DEF Unapplied
    <2>5. /\ task'.player = t.player /\ t.player \in Players
          /\ task'.pc \in {"apply", "finish"} /\ task'.next = "finish"
          /\ match'.state = "open" \/ engine'.run = 0
      BY <1>0, <1>2, <2>1 DEF Begins
    <2>6. match'.run = match.run
      BY <1>0
    <2> QED
      BY <2>3, <2>4, <2>5, <2>6 DEF LeaveShape
  <1> QED
    BY <1>2, <1>3, <1>7, <1>8, QuietStanding DEF SeatsRest

\* A read from where the match stands.
LEMMA ReadTask ==
  ASSUME GInv, match.run # 0, NEW t \in TaskRecord
  PROVE  Reads(Reading(t, match.offset), t, match.offset)
  <1>1. match.run \in RunIds /\ match.offset = runs[match.run].sequence
    BY TaskMatch
  <1>2. match.offset \in Nat /\ match.offset <= Len(journal[match.run]) /\ EngineTyped
    BY <1>1, RunsTyped DEF GInv
  <1> QED
    BY <1>1, <1>2, ReadingReads

\* An operation reads the journal and does nothing else.
LEMMA OnlyReads ==
  ASSUME GInv, [GameNext]_gameVars, match.run # 0,
         UNCHANGED <<vars, engine, journal, toEngine, match, mgr, conns, workerVars>>,
         UNCHANGED acks \/ (acks # <<>> /\ acks' = Tail(acks)),
         task.pc # "admit",
         NEW t, Begins(t), task' = Reading(t, match.offset)
  PROVE  Standing'
  <1>1. /\ UNCHANGED <<engine, journal, toEngine, mgr, touched, worker, lives, runs, arena, match, conns>>
    BY DEF vars, workerVars
  <1>2. Goes
    <2>1. match \in MatchRecord /\ match.state # "none"
      BY DEF GInv, ServerTyped, MatchShape
    <2> QED
      BY <1>1, <2>1, MatchGoes
  <1>3. SeatsRest /\ NoneRevived /\ Quiet
    BY <1>1, SeatsRested DEF NoneRevived, Quiet
  <1>4. Reads(task', t, match'.offset)
    BY <1>1, ReadTask DEF Begins
  <1> QED
    BY <1>1, <1>2, <1>3, <1>4, ReadStanding

LEMMA NewTask ==
  ASSUME NEW op \in Ops, NEW pc \in {"idle", "detach", "withdraw"},
         NEW next \in {"tabs", "gone", "renew", "finish", "release"},
         NEW c \in Conns \cup {NoConn}, NEW p \in Players \cup {NoPlayer}
  PROVE  [op |-> op, pc |-> pc, next |-> next, until |-> 0, wait |-> "none", conn |-> c,
          player |-> p, slot |-> 0, life |-> NoId] \in TaskRecord
  <1>1. 0 \in 0 .. MaxSequence
    BY GameBounds
  <1> QED
    BY <1>1 DEF TaskRecord

LEMMA AttachTaken ==
  ASSUME GInv, [GameNext]_gameVars, NEW c \in Conns, AttachBegin(c), match.run = conns[c].run
  PROVE  Standing'
  <1>1. conns[c].phase = "attaching" /\ match.run # 0
    BY DEF AttachBegin, GInv, TaskShape
  <1>2. PICK t : t = [NoTask EXCEPT !.op = "attach", !.next = "tabs", !.conn = c]
    OBVIOUS
  <1>3. t = [op |-> "attach", pc |-> "idle", next |-> "tabs", until |-> 0, wait |-> "none",
             conn |-> c, player |-> NoPlayer, slot |-> 0, life |-> NoId]
    BY <1>2 DEF NoTask
  <1>4. t \in TaskRecord /\ t.op = "attach" /\ t.next = "tabs" /\ t.conn = c /\ t.wait = "none"
    BY <1>3, NewTask DEF Ops
  <1>5. Begins(t)
    BY <1>1, <1>4 DEF Begins, Ops
  <1>6. /\ task' = Reading(t, match.offset)
        /\ UNCHANGED <<vars, engine, journal, toEngine, acks, match, mgr, conns, workerVars>>
        /\ task.pc # "admit"
    BY <1>2 DEF AttachBegin, ipcVars, Idle, GInv, TaskShape
  <1> QED
    BY <1>1, <1>5, <1>6, OnlyReads

LEMMA TickStanding ==
  ASSUME GInv, [GameNext]_gameVars, TickBegin
  PROVE  Standing'
  <1>1. match.run # 0
    BY DEF TickBegin
  <1>2. PICK t : t = [NoTask EXCEPT !.op = "tick", !.next = "renew"]
    OBVIOUS
  <1>3. t = [op |-> "tick", pc |-> "idle", next |-> "renew", until |-> 0, wait |-> "none",
             conn |-> NoConn, player |-> NoPlayer, slot |-> 0, life |-> NoId]
    BY <1>2 DEF NoTask
  <1>4. t \in TaskRecord /\ t.op = "tick" /\ t.next = "renew" /\ t.conn = NoConn /\ t.wait = "none"
    BY <1>3, NewTask DEF Ops
  <1>5. Begins(t)
    BY <1>4 DEF Begins, Ops
  <1>6. /\ task' = Reading(t, match.offset)
        /\ UNCHANGED <<vars, engine, journal, toEngine, acks, match, mgr, conns, workerVars>>
        /\ task.pc # "admit"
    BY <1>2 DEF TickBegin, ipcVars, Idle, GInv, TaskShape
  <1> QED
    BY <1>1, <1>5, <1>6, OnlyReads

LEMMA StopStanding ==
  ASSUME GInv, [GameNext]_gameVars, StopBegin
  PROVE  Standing'
  <1>1. match.run # 0 /\ engine.run = 0
    <2>1. match.state = "stopping" /\ engine.run # match.run
      BY DEF StopBegin
    <2> QED
      BY <2>1, TaskMatch
  <1>2. PICK t : t = [NoTask EXCEPT !.op = "stop", !.next = "release"]
    OBVIOUS
  <1>3. t = [op |-> "stop", pc |-> "idle", next |-> "release", until |-> 0, wait |-> "none",
             conn |-> NoConn, player |-> NoPlayer, slot |-> 0, life |-> NoId]
    BY <1>2 DEF NoTask
  <1>4. t \in TaskRecord /\ t.op = "stop" /\ t.next = "release" /\ t.conn = NoConn /\ t.wait = "none"
    BY <1>3, NewTask DEF Ops
  <1>5. Begins(t)
    BY <1>1, <1>4 DEF Begins, Ops
  <1>6. /\ task' = Reading(t, match.offset)
        /\ UNCHANGED <<vars, engine, journal, toEngine, acks, match, mgr, conns, workerVars>>
        /\ task.pc # "admit"
    BY <1>2 DEF StopBegin, ipcVars, Idle, GInv, TaskShape
  <1> QED
    BY <1>1, <1>5, <1>6, OnlyReads

LEMMA FormerLifeStanding ==
  ASSUME GInv, [GameNext]_gameVars, FormerLifeRevoked
  PROVE  Standing'
  <1>1. /\ task.pc = "tabs" /\ task.wait = "revoke"
        /\ task' = Reading([task EXCEPT !.next = "pop", !.wait = "none"], match.offset)
        /\ acks # <<>> /\ acks' = Tail(acks)
        /\ UNCHANGED <<vars, engine, journal, toEngine, match, mgr, conns, workerVars>>
    BY DEF FormerLifeRevoked, Answered
  <1>2. task.op = "attach" /\ match.run # 0
    BY <1>1, TaskOps, TaskMatch
  <1>3. /\ task \in TaskRecord /\ task.conn \in Conns
        /\ conns[task.conn].phase = "attaching" /\ conns[task.conn].slot \in Slots
    <2>1. task \in TaskRecord /\ AttachShape /\ SeatShape
      BY DEF GInv, ServerTyped, TaskShape
    <2> QED
      BY <1>1, <1>2, <2>1 DEF AttachShape, SeatShape
  <1>4. PICK t : t = [task EXCEPT !.next = "pop", !.wait = "none"]
    OBVIOUS
  <1>5. t \in TaskRecord /\ t.op = "attach" /\ t.next = "pop" /\ t.conn = task.conn /\ t.wait = "none"
    BY <1>2, <1>3, <1>4 DEF TaskRecord
  <1>6. Begins(t)
    BY <1>3, <1>5 DEF Begins, Ops
  <1> QED
    BY <1>1, <1>2, <1>4, <1>6, OnlyReads

LEMMA DetachedStanding ==
  ASSUME GInv, [GameNext]_gameVars, Detached
  PROVE  Standing'
  <1>1. /\ task.pc = "detach"
        /\ task' = Reading([task EXCEPT !.wait = "none"], match.offset)
        /\ acks # <<>> /\ acks' = Tail(acks)
        /\ UNCHANGED <<vars, engine, journal, toEngine, match, mgr, conns, workerVars>>
    BY DEF Detached, Answered
  <1>2. task.op = "detach" /\ match.run # 0
    BY <1>1, TaskOps, TaskMatch
  <1>3. /\ task \in TaskRecord /\ task.conn \in Conns
        /\ conns[task.conn].slot \in Slots /\ task.next = "gone"
    <2>1. task \in TaskRecord /\ DetachShape
      BY DEF GInv, ServerTyped, TaskShape
    <2> QED
      BY <1>2, <2>1 DEF DetachShape
  <1>4. PICK t : t = [task EXCEPT !.wait = "none"]
    OBVIOUS
  <1>5. t \in TaskRecord /\ t.op = "detach" /\ t.next = "gone" /\ t.conn = task.conn /\ t.wait = "none"
    BY <1>2, <1>3, <1>4 DEF TaskRecord
  <1>6. Begins(t)
    BY <1>3, <1>5 DEF Begins, Ops
  <1> QED
    BY <1>1, <1>2, <1>4, <1>6, OnlyReads

\* A seated connection has a slot of a match.
LEMMA SeatedMatch ==
  ASSUME GInv, NEW c \in Conns, Seated(c)
  PROVE  conns[c].slot \in Slots /\ match.run # 0
  <1>1. conns[c].slot \in Slots
    BY DEF GInv, SeatShape, Seated
  <1>2. match.peers[conns[c].slot] # NoConn
    BY GameBounds DEF Seated
  <1> QED
    BY <1>1, <1>2 DEF GInv, MatchShape

LEMMA DetachClosedStanding ==
  ASSUME GInv, [GameNext]_gameVars, NEW c \in Conns, DetachBegin(c), match.state # "open"
  PROVE  Standing'
  <1>1. Seated(c) /\ conns[c].slot \in Slots /\ match.run # 0
    BY SeatedMatch DEF DetachBegin
  <1>2. PICK t : t = [NoTask EXCEPT !.op = "detach", !.pc = "detach", !.next = "gone", !.conn = c]
    OBVIOUS
  <1>3. t = [op |-> "detach", pc |-> "detach", next |-> "gone", until |-> 0, wait |-> "none",
             conn |-> c, player |-> NoPlayer, slot |-> 0, life |-> NoId]
    BY <1>2 DEF NoTask
  <1>4. t \in TaskRecord /\ t.op = "detach" /\ t.next = "gone" /\ t.conn = c /\ t.wait = "none"
    BY <1>3, NewTask DEF Ops
  <1>5. Begins(t)
    BY <1>1, <1>4 DEF Begins, Ops
  <1>6. /\ task' = Reading(t, match.offset)
        /\ UNCHANGED <<vars, engine, journal, toEngine, acks, match, mgr, conns, workerVars>>
        /\ task.pc # "admit"
    BY <1>2 DEF DetachBegin, Idle, GInv, TaskShape
  <1> QED
    BY <1>1, <1>5, <1>6, OnlyReads

\* The engine honours no other usable life of a player than one alive in the match.
LEMMA HonouredUsable ==
  ASSUME GInv, match.run # 0, NEW s \in Slots, Ends(s), NEW p \in Players,
         engine.admission[s] \in UsableOf(p)
  PROVE  /\ engine.admission[s] \in LeaveFirst(p)
         /\ lives[engine.admission[s]].slot = s
  <1>1. PICK l \in LifeIds : l = engine.admission[s]
    BY HonouredLife
  <1>2. lives[l].run = match.run /\ lives[l].slot = s /\ lives[l].status \in {"alive", "dead"}
    BY <1>1, HonouredLife DEF Sits
  <1>3. lives[l].player = p /\ lives[l].status = "alive"
    BY <1>1, <1>2 DEF UsableOf, UsableStatus
  <1> QED
    BY <1>1, <1>2, <1>3 DEF LeaveFirst, AliveIn, AliveLives

LEMMA LeaveReadsStanding ==
  ASSUME GInv, [GameNext]_gameVars, NEW p \in Players, LeaveBegin(p), LeaveFirst(p) = {},
         task' = Reading([NoTask EXCEPT !.op = "leave", !.next = "finish", !.player = p],
                         match.offset),
         UNCHANGED toEngine
  PROVE  Standing'
  <1>1. match.state = "open" /\ match.run # 0
    BY TaskMatch DEF LeaveBegin
  <1>2. PICK t : t = [NoTask EXCEPT !.op = "leave", !.next = "finish", !.player = p]
    OBVIOUS
  <1>3. t = [op |-> "leave", pc |-> "idle", next |-> "finish", until |-> 0, wait |-> "none",
             conn |-> NoConn, player |-> p, slot |-> 0, life |-> NoId]
    BY <1>2 DEF NoTask
  <1>4. t \in TaskRecord /\ t.op = "leave" /\ t.next = "finish" /\ t.player = p /\ t.wait = "none"
    BY <1>3, NewTask DEF Ops
  <1>5. \A s \in Slots : Ends(s) => engine.admission[s] \notin UsableOf(p)
    BY <1>1, HonouredUsable
  <1>6. Begins(t)
    BY <1>1, <1>4, <1>5 DEF Begins, Ops
  <1>7. /\ task' = Reading(t, match.offset)
        /\ UNCHANGED <<vars, engine, journal, toEngine, acks, match, mgr, conns, workerVars>>
        /\ task.pc # "admit"
    BY <1>2 DEF LeaveBegin, Idle, GInv, TaskShape
  <1> QED
    BY <1>1, <1>6, <1>7, OnlyReads

\* A packet is sent that admits nobody, or could not be sent.
LEMMA SendStanding ==
  ASSUME GInv, [GameNext]_gameVars, match.run # 0, task.pc # "admit",
         UNCHANGED <<vars, engine, journal, acks, match, mgr, conns, workerVars>>,
         NEW kind \in Kinds \ {"admit"}, NEW s \in Slots, NEW t \in TaskRecord,
         Control(kind, s, NoId, t),
         \/ /\ t.op = "attach" /\ t.pc = "tabs" /\ t.next \in {"tabs", "pop"}
            /\ t.conn \in Conns
            /\ conns[t.conn].phase = "attaching" /\ conns[t.conn].life # NoId
         \/ /\ t.op = "detach" /\ t.pc = "detach" /\ t.next = "gone"
            /\ t.conn \in Conns /\ conns[t.conn].slot \in Slots
         \/ /\ t.op = "leave" /\ t.pc = "withdraw" /\ t.next = "finish"
            /\ t.player \in Players
            /\ match.state = "open"
            /\ \A l \in LeaveFirst(t.player) : lives[l].slot = s
  PROVE  Standing'
  <1>0. UNCHANGED <<engine, journal, acks, match, mgr, conns, touched, worker, lives, runs, arena>>
    BY DEF vars, workerVars
  <1>1. Sends(kind, s, NoId, t)
    BY ControlSends
  <1>2. Quiet
    BY <1>1, SendsQuietly
  <1>3. Goes
    <2>1. match \in MatchRecord /\ match.state # "none"
      BY DEF GInv, ServerTyped, MatchShape
    <2> QED
      BY <1>0, <2>1, MatchGoes
  <1>4. /\ task' \in TaskRecord
        /\ task'.op = t.op /\ task'.pc = t.pc /\ task'.next = t.next /\ task'.conn = t.conn
        /\ task'.player = t.player /\ task'.slot = s /\ task'.wait \in {kind, "failed"}
    BY <1>1 DEF Sends
  <1>5. /\ SeatShape'
        /\ \A c \in Conns : conns'[c].phase = "attaching" => conns'[c].run # 0
    BY <1>0, SeatsRested, RestedShape
  <1>6. AttachShape'
    <2>1. SeatShape
      BY DEF GInv
    <2> QED
      BY <1>0, <1>4, <2>1 DEF AttachShape, SeatShape
  <1>7. DetachShape' /\ StopShape'
    BY <1>0, <1>4 DEF DetachShape, StopShape
  <1>8. TaskShape'
    BY <1>0, <1>4, <1>5, <1>6, <1>7 DEF TaskShape
  <1>9. LeaveShape'
    <2>1. SUFFICES ASSUME t.op = "leave" PROVE LeaveShape'
      BY <1>4 DEF LeaveShape
    <2>2. \A l \in UsableOf(t.player)' :
             lives'[l].status = "alive" /\ lives'[l].run = match'.run => lives'[l].slot = s
      BY <1>0, <2>1 DEF UsableOf, LeaveFirst, AliveIn, AliveLives
    <2> QED
      BY <1>0, <1>4, <2>1, <2>2 DEF LeaveShape
  <1>10. conns' \in [Conns -> SeatRecord]
    BY <1>0 DEF GInv, ServerTyped
  <1> QED
    BY <1>0, <1>2, <1>3, <1>4, <1>5, <1>8, <1>9, <1>10, QuietStanding

LEMMA RevokeFormerStanding ==
  ASSUME GInv, [GameNext]_gameVars, RevokeFormerLife
  PROVE  Standing'
  <1>1. /\ task.pc = "tabs" /\ task.wait = "none"
        /\ conns[task.conn].life # NoId
        /\ Control("revoke", conns[task.conn].slot, NoId, task)
        /\ UNCHANGED <<vars, engine, journal, acks, match, mgr, conns, workerVars>>
    BY DEF RevokeFormerLife
  <1>2. task.op = "attach" /\ match.run # 0
    BY <1>1, TaskOps, TaskMatch
  <1>3. /\ task \in TaskRecord /\ task.conn \in Conns /\ task.next \in {"tabs", "pop"}
        /\ conns[task.conn].phase = "attaching" /\ conns[task.conn].slot \in Slots
    <2>1. task \in TaskRecord /\ AttachShape /\ SeatShape
      BY DEF GInv, ServerTyped, TaskShape
    <2> QED
      BY <1>1, <1>2, <2>1 DEF AttachShape, SeatShape
  <1>4. "revoke" \in Kinds \ {"admit"}
    BY DEF Kinds
  <1> QED
    BY <1>1, <1>2, <1>3, <1>4, SendStanding

LEMMA DetachOpenStanding ==
  ASSUME GInv, [GameNext]_gameVars, NEW c \in Conns, DetachBegin(c), match.state = "open"
  PROVE  Standing'
  <1>1. Seated(c) /\ conns[c].slot \in Slots /\ match.run # 0
    BY SeatedMatch DEF DetachBegin
  <1>2. PICK t : t = [NoTask EXCEPT !.op = "detach", !.pc = "detach", !.next = "gone", !.conn = c]
    OBVIOUS
  <1>3. t = [op |-> "detach", pc |-> "detach", next |-> "gone", until |-> 0, wait |-> "none",
             conn |-> c, player |-> NoPlayer, slot |-> 0, life |-> NoId]
    BY <1>2 DEF NoTask
  <1>4. t \in TaskRecord /\ t.op = "detach" /\ t.pc = "detach" /\ t.next = "gone" /\ t.conn = c
    BY <1>3, NewTask DEF Ops
  <1>5. PICK kind \in Kinds \ {"admit"} : kind = DetachKind(Owner[c])
    BY DEF DetachKind, Kinds
  <1>6. /\ Control(kind, conns[c].slot, NoId, t)
        /\ UNCHANGED <<vars, engine, journal, acks, match, mgr, conns, workerVars>>
        /\ task.pc # "admit"
    BY <1>2, <1>5 DEF DetachBegin, Idle, GInv, TaskShape
  <1> QED
    BY <1>1, <1>4, <1>6, SendStanding

LEMMA LeaveSendsStanding ==
  ASSUME GInv, [GameNext]_gameVars, NEW p \in Players, LeaveBegin(p), NEW l \in LeaveFirst(p),
         Control("revoke", lives[l].slot, NoId,
                 [NoTask EXCEPT !.op = "leave", !.pc = "withdraw", !.next = "finish", !.player = p])
  PROVE  Standing'
  <1>1. match.state = "open" /\ match.run # 0
    BY TaskMatch DEF LeaveBegin
  <1>2. PICK t : t = [NoTask EXCEPT !.op = "leave", !.pc = "withdraw", !.next = "finish", !.player = p]
    OBVIOUS
  <1>3. t = [op |-> "leave", pc |-> "withdraw", next |-> "finish", until |-> 0, wait |-> "none",
             conn |-> NoConn, player |-> p, slot |-> 0, life |-> NoId]
    BY <1>2 DEF NoTask
  <1>4. t \in TaskRecord /\ t.op = "leave" /\ t.pc = "withdraw" /\ t.next = "finish" /\ t.player = p
    BY <1>3, NewTask DEF Ops
  <1>5. lives[l].slot \in Slots
    <2>1. l \in AliveLives
      BY DEF LeaveFirst, AliveIn
    <2>2. SlotsExclusive
      BY DEF GInv, SInv
    <2> QED
      BY <2>1, <2>2 DEF SlotsExclusive
  <1>6. \A m \in LeaveFirst(p) : lives[m].slot = lives[l].slot
    <2>1. \A m \in LeaveFirst(p) : m \in UsableOf(p)
      BY DEF LeaveFirst, AliveIn, AliveLives, UsableOf, UsableStatus
    <2> QED
      BY <2>1 DEF GInv, IInv, OneUsableLife
  <1>7. /\ Control("revoke", lives[l].slot, NoId, t)
        /\ UNCHANGED <<vars, engine, journal, acks, match, mgr, conns, workerVars>>
        /\ task.pc # "admit"
    BY <1>2 DEF LeaveBegin, Idle, GInv, TaskShape
  <1>8. "revoke" \in Kinds \ {"admit"}
    BY DEF Kinds
  <1> QED
    BY <1>1, <1>4, <1>5, <1>6, <1>7, <1>8, SendStanding

\* The answer to a revocation: the engine has nothing left on that slot.
LEMMA RevokedSlot ==
  ASSUME GInv, match.state = "open", task.pc # "admit", acks # <<>>
  PROVE  ~Ends(Head(acks).slot)
  <1>1. 1 \in 1 .. Len(acks) /\ Head(acks) = acks[1]
    <2>1. acks \in Seq(Ack)
      BY DEF GInv, EngineTyped
    <2> QED
      BY <2>1, EmptySeq
  <1>2. NoAdmission
    BY NoneUnderWay DEF GInv
  <1>3. \A m \in 1 .. Len(acks) : ~IsAdmitted(m)
    BY <1>2 DEF NoAdmission
  <1> QED
    BY <1>1, <1>3 DEF GInv, Answering

\* A peer leaves its seat, and forgets its life.
LEMMA PeerFreed ==
  ASSUME GInv, NEW s \in Slots, match.peers[s] # NoConn,
         conns' = [conns EXCEPT ![match.peers[s]].life = NoId]
  PROVE  SeatsRest
  <1>1. conns \in [Conns -> SeatRecord] /\ match \in MatchRecord
    BY DEF GInv, ServerTyped
  <1>2. PICK c \in Conns : c = match.peers[s]
    BY <1>1 DEF MatchRecord
  <1>3. PICK seat \in SeatRecord : seat = [conns[c] EXCEPT !.life = NoId]
    BY <1>1, <1>2 DEF SeatRecord
  <1>4. /\ seat.life = NoId /\ seat.slot = conns[c].slot
        /\ seat.phase = conns[c].phase /\ seat.run = conns[c].run
    BY <1>1, <1>3 DEF SeatRecord
  <1>5. conns' = [conns EXCEPT ![c] = seat]
    BY <1>1, <1>2, <1>3
  <1> QED
    BY <1>1, <1>4, <1>5 DEF SeatsRest

LEMMA WithdrawnStanding ==
  ASSUME GInv, [GameNext]_gameVars, Withdrawn
  PROVE  Standing'
  <1>1. /\ task.pc = "withdraw" /\ task.wait = "revoke"
        /\ match.state = "open"
        /\ acks # <<>> /\ acks' = Tail(acks) /\ Head(acks).slot = task.slot
        /\ task' = Reading([task EXCEPT !.wait = "none"], match.offset)
        /\ match' = [match EXCEPT !.peers[task.slot] = NoConn]
        /\ conns' = IF match.peers[task.slot] = NoConn THEN conns
                    ELSE [conns EXCEPT ![match.peers[task.slot]].life = NoId]
        /\ UNCHANGED <<vars, engine, journal, toEngine, mgr, workerVars>>
    BY DEF Withdrawn, Answered, AfterWithdrawal
  <1>2. task.op = "leave" /\ match.run # 0
    BY <1>1, TaskOps, TaskMatch
  <1>3. /\ task \in TaskRecord /\ task.slot \in Slots
        /\ task.player \in Players /\ task.next = "finish"
        /\ \A l \in UsableOf(task.player) :
              lives[l].status = "alive" /\ lives[l].run = match.run => lives[l].slot = task.slot
    <2>1. task \in TaskRecord /\ LeaveShape /\ TaskShape
      BY DEF GInv, ServerTyped
    <2> QED
      BY <1>1, <1>2, <2>1 DEF LeaveShape, TaskShape, Kinds
  <1>4. PICK t : t = [task EXCEPT !.wait = "none"]
    OBVIOUS
  <1>5. /\ t \in TaskRecord /\ t.op = "leave" /\ t.next = "finish"
        /\ t.player = task.player /\ t.wait = "none"
    BY <1>2, <1>3, <1>4 DEF TaskRecord
  <1>6. \A s \in Slots : Ends(s) => engine.admission[s] \notin UsableOf(task.player)
    <2>1. ~Ends(task.slot)
      BY <1>1, RevokedSlot
    <2>2. ASSUME NEW s \in Slots, Ends(s), engine.admission[s] \in UsableOf(task.player)
          PROVE  s = task.slot
      <3>1. engine.admission[s] \in LeaveFirst(task.player) /\ lives[engine.admission[s]].slot = s
        BY <1>2, <1>3, <2>2, HonouredUsable
      <3> QED
        BY <1>3, <2>2, <3>1 DEF LeaveFirst, AliveIn, AliveLives
    <2> QED
      BY <2>1, <2>2
  <1>7. Begins(t)
    BY <1>1, <1>3, <1>5, <1>6 DEF Begins, Ops
  <1>8. /\ match' \in MatchRecord /\ match'.run = match.run
        /\ match'.offset = match.offset /\ match'.state = match.state
    <2>1. match \in MatchRecord
      BY DEF GInv, ServerTyped
    <2> QED
      BY <1>1, <2>1 DEF MatchRecord
  <1>9. UNCHANGED <<engine, journal, toEngine, mgr, touched, worker, lives, runs, arena>>
    BY <1>1 DEF vars, workerVars
  <1>10. Goes
    BY <1>1, <1>2, <1>8, <1>9, MatchGoes
  <1>11. SeatsRest
    BY <1>1, <1>3, PeerFreed, SeatsRested
  <1>12. NoneRevived /\ Quiet
    BY <1>9 DEF NoneRevived, Quiet
  <1>13. Reads(task', t, match'.offset)
    BY <1>1, <1>2, <1>4, <1>5, <1>8, ReadTask
  <1> QED
    BY <1>1, <1>2, <1>7, <1>8, <1>10, <1>11, <1>12, <1>13, ReadStanding

\* A replay goes on.
LEMMA ReplayBegins ==
  ASSUME GInv, task.pc = "apply", NEW t, t = [task EXCEPT !.wait = "none"]
  PROVE  Begins(t) /\ t.pc = "apply" /\ t.until = task.until
  <1>1. /\ task \in TaskRecord /\ task.op # "none"
        /\ AttachShape /\ DetachShape /\ StopShape /\ LeaveShape /\ TaskShape
    BY TaskOps DEF GInv, ServerTyped, TaskShape
  <1>2. /\ t \in TaskRecord /\ t.op = task.op /\ t.next = task.next /\ t.conn = task.conn
        /\ t.player = task.player /\ t.wait = "none" /\ t.pc = "apply" /\ t.until = task.until
    BY <1>1 DEF TaskRecord
  <1>3. t.op \in Ops
    BY <1>1, <1>2 DEF TaskRecord
  <1>4. t.op = "attach" => /\ t.conn \in Conns
                           /\ conns[t.conn].phase = "attaching"
                           /\ t.next \in {"tabs", "pop"}
                           /\ t.next = "pop" => conns[t.conn].slot \in Slots
    BY <1>1, <1>2 DEF AttachShape
  <1>5. t.op = "detach" => /\ t.conn \in Conns
                           /\ conns[t.conn].slot \in Slots
                           /\ t.next = "gone"
    BY <1>1, <1>2 DEF DetachShape
  <1>6. /\ t.op = "tick" => t.next = "renew"
        /\ t.op = "stop" => t.next = "release" /\ engine.run = 0
    BY <1>1, <1>2 DEF TaskShape, StopShape
  <1>7. t.op = "leave" => /\ t.player \in Players
                          /\ t.next = "finish"
                          /\ match.state = "open" \/ engine.run = 0
                          /\ \A s \in Slots : Ends(s) =>
                                engine.admission[s] \notin UsableOf(t.player)
    BY <1>1, <1>2 DEF LeaveShape
  <1> QED
    BY <1>2, <1>3, <1>4, <1>5, <1>6, <1>7 DEF Begins

LEMMA DeadPeerStanding ==
  ASSUME GInv, [GameNext]_gameVars, DeadPeerRevoked
  PROVE  Standing'
  <1>1. /\ task.pc = "apply" /\ task.wait = "revoke"
        /\ acks # <<>> /\ acks' = Tail(acks)
        /\ task' = Applied([task EXCEPT !.wait = "none"], match.offset)
        /\ match' = [match EXCEPT !.peers[task.slot] = NoConn]
        /\ conns' = [conns EXCEPT ![match.peers[task.slot]].life = NoId]
        /\ UNCHANGED <<vars, engine, journal, toEngine, mgr, workerVars>>
    BY DEF DeadPeerRevoked, Answered
  <1>2. match.run # 0 /\ match.run \in RunIds
    BY <1>1, TaskOps, TaskMatch
  <1>3. PICK t : t = [task EXCEPT !.wait = "none"]
    OBVIOUS
  <1>4. Begins(t) /\ t.pc = "apply" /\ t.until = task.until
    BY <1>1, <1>3, ReplayBegins
  <1>5. /\ task.slot \in Slots
        /\ match.offset <= task.until /\ task.until <= Len(journal[match.run])
    <2>1. TaskShape
      BY DEF GInv
    <2> QED
      BY <1>1, <2>1 DEF TaskShape, Kinds
  <1>6. /\ match \in MatchRecord
        /\ match' \in MatchRecord /\ match'.run = match.run
        /\ match'.offset = match.offset /\ match'.state = match.state
    <2>1. match \in MatchRecord
      BY DEF GInv, ServerTyped
    <2> QED
      BY <1>1, <2>1 DEF MatchRecord
  <1>7. UNCHANGED <<engine, journal, toEngine, mgr, touched, worker, lives, runs, arena>>
    BY <1>1 DEF vars, workerVars
  <1>8. Goes
    <2>1. match.state # "none"
      BY <1>2, TaskMatch
    <2> QED
      BY <1>2, <1>6, <1>7, <2>1, MatchGoes
  <1>9. SeatsRest
    <2>1. CASE match.peers[task.slot] # NoConn
      BY <1>1, <1>5, <2>1, PeerFreed
    <2>2. CASE match.peers[task.slot] = NoConn
      <3>1. conns \in [Conns -> SeatRecord]
        BY DEF GInv, ServerTyped
      <3>2. conns' = conns
        BY <1>1, <2>2, <3>1, GameBounds
      <3> QED
        BY <3>2, SeatsRested
    <2> QED
      BY <2>1, <2>2
  <1>10. NoneRevived /\ Quiet
    BY <1>7 DEF NoneRevived, Quiet
  <1>11. Reads(task', t, match'.offset)
    <2>1. match.offset \in Nat /\ t \in TaskRecord /\ EngineTyped
      BY <1>4, <1>6 DEF MatchRecord, Begins, GInv
    <2>2. Reads(Applied(t, match.offset), t, match.offset)
      BY <1>2, <1>4, <1>5, <2>1, AppliedReads
    <2> QED
      BY <1>1, <1>3, <1>6, <2>2
  <1> QED
    BY <1>1, <1>2, <1>4, <1>6, <1>8, <1>9, <1>10, <1>11, ReadStanding

\* What applying the next line does.
LEMMA LineMoves ==
  ASSUME GInv, NEW r \in RunIds, NextOf(r) \in 1 .. Len(journal[r]), ApplyLine(r, NextOf(r))
  PROVE  /\ UNCHANGED arena
         /\ \A q \in RunIds : runs'[q].status = runs[q].status
         /\ runs'[r].sequence = NextOf(r)
         /\ NoneRevived
  <1>0. /\ runs \in [RunIds -> Run] /\ runs[r].sequence \in Nat
        /\ EngineTyped /\ IInv /\ lives \in [LifeIds -> Life]
    BY RunsTyped DEF GInv, IInv, TypeOK
  <1>1. PICK v \in LifeIds, k \in LifeIds \cup {NoId} : ConsumeDeath(r, v, k) \/ SkipDeath(r, v)
    <2>1. journal[r][NextOf(r)] \in Line
      BY <1>0, LineTyped
    <2>2. ~ (NextOf(r) <= runs[r].sequence)
      BY <1>0 DEF NextOf
    <2>3. \/ ConsumeDeath(r, journal[r][NextOf(r)].victim, journal[r][NextOf(r)].killer)
          \/ SkipDeath(r, journal[r][NextOf(r)].victim)
      BY <2>2 DEF ApplyLine
    <2> QED
      BY <2>1, <2>3 DEF Line
  <1>2. runs' = [runs EXCEPT ![r].sequence = @ + 1] /\ UNCHANGED arena
    BY <1>1 DEF ConsumeDeath, SkipDeath
  <1>3. NoneRevived
    <2>1. CASE SkipDeath(r, v)
      BY <2>1 DEF SkipDeath, NoneRevived
    <2>2. CASE ConsumeDeath(r, v, k)
      BY <1>0, <2>2, KillRows DEF NoneRevived, UsableStatus
    <2> QED
      BY <1>1, <2>1, <2>2
  <1> QED
    BY <1>0, <1>2, <1>3 DEF Run, NextOf

\* The parts of a replayed line that do not depend on who played the victim.
LEMMA ReplayGoes ==
  ASSUME GInv, ApplyEvent
  PROVE  /\ match.run # 0 /\ match.run \in RunIds
         /\ match.offset \in Nat
         /\ match.offset + 1 <= task.until
         /\ task.until <= Len(journal[match.run])
         /\ match'.offset = match.offset + 1
         /\ match'.state = match.state
         /\ Goes
         /\ NoneRevived
         /\ UNCHANGED acks
  <1>1. /\ task.pc = "apply" /\ task.wait = "none"
        /\ ApplyLine(match.run, match.offset + 1)
        /\ UNCHANGED <<engine, journal, acks, mgr, touched, worker>>
    BY DEF ApplyEvent, workerVars
  <1>2. /\ match.run # 0 /\ match.run \in RunIds
        /\ match.offset = runs[match.run].sequence
        /\ match.state # "none"
    BY <1>1, TaskOps, TaskMatch
  <1>3. /\ match.offset + 1 \in 1 .. Len(journal[match.run])
        /\ match.offset \in Nat /\ task.until \in Nat /\ Len(journal[match.run]) \in Nat
    BY <1>1, NextLine
  <1>4. match.offset < task.until /\ task.until <= Len(journal[match.run])
    BY <1>1 DEF GInv, TaskShape
  <1>5. /\ UNCHANGED arena
        /\ \A q \in RunIds : runs'[q].status = runs[q].status
        /\ runs'[match.run].sequence = match.offset + 1
        /\ NoneRevived
    <2>1. NextOf(match.run) = match.offset + 1
      BY <1>2 DEF NextOf
    <2> QED
      BY <1>1, <1>2, <1>3, <2>1, LineMoves
  <1>6. /\ match' \in MatchRecord /\ match'.run = match.run
        /\ match'.offset = match.offset + 1 /\ match'.state = match.state
    <2>1. match \in MatchRecord
      BY DEF GInv, ServerTyped
    <2>2. PICK next \in 0 .. MaxSequence : next = match.offset + 1
      <3>1. Len(journal[match.run]) <= MaxSequence
        BY <1>2 DEF GInv, EngineTyped
      <3> QED
        BY <1>3, <3>1, GameBounds
    <2>3. \/ match' = [match EXCEPT !.offset = next]
          \/ \E s \in Slots : match' = [match EXCEPT !.offset = next, !.peers[s] = NoConn]
      BY <2>2 DEF ApplyEvent, Seats
    <2>4. /\ match' \in MatchRecord /\ match'.run = match.run
          /\ match'.offset = next /\ match'.state = match.state
      <3>1. CASE match' = [match EXCEPT !.offset = next]
        BY <2>1, <3>1 DEF MatchRecord
      <3>2. CASE \E s \in Slots : match' = [match EXCEPT !.offset = next, !.peers[s] = NoConn]
        <4>1. PICK s \in Slots : match' = [match EXCEPT !.offset = next, !.peers[s] = NoConn]
          BY <3>2
        <4>2. [match.peers EXCEPT ![s] = NoConn] \in [Slots -> Conns \cup {NoConn}]
          BY <2>1 DEF MatchRecord
        <4>3. match' = [[match EXCEPT !.peers = [match.peers EXCEPT ![s] = NoConn]] EXCEPT !.offset = next]
          BY <2>1, <4>1 DEF MatchRecord
        <4>4. [match EXCEPT !.peers = [match.peers EXCEPT ![s] = NoConn]] \in MatchRecord
          BY <2>1, <4>2 DEF MatchRecord
        <4> QED
          BY <2>1, <4>3, <4>4 DEF MatchRecord
      <3> QED
        BY <2>3, <3>1, <3>2
    <2> QED
      BY <2>2, <2>4
  <1>7. Goes
    BY <1>1, <1>2, <1>5, <1>6 DEF Goes
  <1> QED
    BY <1>1, <1>2, <1>3, <1>4, <1>5, <1>6, <1>7

\* The line is applied and nobody has to be revoked by the engine.
LEMMA ReplayReadsStanding ==
  ASSUME GInv, [GameNext]_gameVars, ApplyEvent,
         task' = Applied(task, match.offset + 1), UNCHANGED toEngine, SeatsRest
  PROVE  Standing'
  <1>1. task.pc = "apply" /\ task.wait = "none" /\ task \in TaskRecord
    BY DEF ApplyEvent, GInv, ServerTyped
  <1>2. task = [task EXCEPT !.wait = "none"]
    BY <1>1 DEF TaskRecord
  <1>3. Begins(task)
    BY <1>1, <1>2, ReplayBegins
  <1>4. Reads(task', task, match'.offset)
    <2>1. /\ match.run \in RunIds
          /\ match.offset + 1 \in Nat
          /\ match.offset + 1 <= task.until
          /\ task.until <= Len(journal[match.run])
          /\ match'.offset = match.offset + 1
          /\ EngineTyped
      BY ReplayGoes DEF GInv
    <2>2. Reads(Applied(task, match.offset + 1), task, match.offset + 1)
      BY <1>1, <2>1, AppliedReads
    <2> QED
      BY <2>1, <2>2
  <1>5. Quiet
    BY DEF Quiet
  <1> QED
    BY <1>1, <1>3, <1>4, <1>5, ReplayGoes, ReadStanding

\* The line is applied and the engine is asked to revoke a peer.
LEMMA ReplaySendsStanding ==
  ASSUME GInv, [GameNext]_gameVars, ApplyEvent, NEW s \in Slots,
         Control("revoke", s, NoId, task), UNCHANGED conns
  PROVE  Standing'
  <1>1. /\ task.pc = "apply" /\ task.wait = "none" /\ task \in TaskRecord
        /\ task.op # "none"
    BY TaskOps DEF ApplyEvent, GInv, ServerTyped
  <1>2. "revoke" \in Kinds \ {"admit"}
    BY DEF Kinds
  <1>3. Sends("revoke", s, NoId, task)
    BY <1>1, <1>2, ControlSends
  <1>4. Quiet
    BY <1>2, <1>3, SendsQuietly
  <1>5. /\ task' \in TaskRecord
        /\ task'.op = task.op /\ task'.pc = "apply" /\ task'.next = task.next
        /\ task'.conn = task.conn /\ task'.player = task.player /\ task'.until = task.until
        /\ task'.slot = s /\ task'.wait \in {"revoke", "failed"}
    BY <1>1, <1>3 DEF Sends
  <1>6. /\ match'.run = match.run /\ match'.state = match.state
        /\ UNCHANGED <<engine, journal, conns>>
        /\ match'.offset <= task'.until
        /\ task'.until <= Len(journal[match.run])
    BY <1>5, ReplayGoes DEF Goes
  <1>7. /\ SeatShape'
        /\ \A c \in Conns : conns'[c].phase = "attaching" => conns'[c].run # 0
    BY SeatsRested, RestedShape
  <1>8. AttachShape /\ DetachShape /\ StopShape /\ TaskShape /\ LeaveShape
    BY DEF GInv, TaskShape
  <1>9. AttachShape' /\ DetachShape' /\ StopShape'
    BY <1>1, <1>5, <1>6, <1>8 DEF AttachShape, DetachShape, StopShape
  <1>10. TaskShape'
    BY <1>1, <1>5, <1>6, <1>7, <1>8, <1>9 DEF TaskShape
  <1>11. LeaveShape'
    <2>1. \A p \in Players : UsableOf(p)' \subseteq UsableOf(p)
      BY ReplayGoes DEF NoneRevived, UsableOf
    <2> QED
      BY <1>1, <1>5, <1>6, <1>8, <2>1 DEF LeaveShape, Ends
  <1>12. conns' \in [Conns -> SeatRecord]
    BY DEF GInv, ServerTyped
  <1> QED
    BY <1>1, <1>4, <1>5, <1>7, <1>10, <1>11, <1>12, ReplayGoes, QuietStanding

LEMMA ReplayStanding ==
  ASSUME GInv, [GameNext]_gameVars, ApplyEvent
  PROVE  Standing'
  <1>1. CASE task' = Applied(task, match.offset + 1) /\ UNCHANGED <<toEngine, conns>>
    BY <1>1, SeatsRested, ReplayReadsStanding
  <1>2. CASE UNCHANGED conns /\ \E s \in Slots : Control("revoke", s, NoId, task)
    BY <1>2, ReplaySendsStanding
  <1>3. CASE /\ \E s \in Slots : /\ match.peers[s] # NoConn
                                 /\ conns' = [conns EXCEPT ![match.peers[s]].life = NoId]
             /\ task' = Applied(task, match.offset + 1) /\ UNCHANGED toEngine
    BY <1>3, PeerFreed, ReplayReadsStanding
  <1> QED
    BY <1>1, <1>2, <1>3 DEF ApplyEvent, Seats

\* The life and the slot an attach is given.
LEMMA LifeGiven ==
  ASSUME GInv, Allocate
  PROVE  /\ task.pc \in {"tabs", "pop"}
         /\ match.run \in RunIds
         /\ arena'.run_id = arena.run_id
         /\ UNCHANGED runs
         /\ \E l \in LifeIds, s \in Slots :
               /\ Control("admit", s, l, [task EXCEPT !.pc = "admit", !.life = l])
               /\ lives'[l].run = match.run
               /\ lives'[l].slot = s
               /\ lives'[l].status \in {"alive", "dead"}
  <1>1. task.pc \in {"tabs", "pop"}
    BY DEF Allocate, Allocating
  <1>2. task.op = "attach" /\ match.run \in RunIds /\ IInv /\ SlotsExclusive
    BY <1>1, TaskOps, TaskMatch DEF GInv, SInv
  <1>3. Owner[task.conn] \in Players
    BY <1>2, GameBounds DEF GInv, TaskShape, AttachShape
  <1>4. ASSUME NEW l \in LifeIds, l \in AliveIn(match.run), UNCHANGED vars,
               Control("admit", lives[l].slot, l, [task EXCEPT !.pc = "admit", !.life = l])
        PROVE  /\ arena'.run_id = arena.run_id
               /\ UNCHANGED runs
               /\ \E m \in LifeIds, s \in Slots :
                     /\ Control("admit", s, m, [task EXCEPT !.pc = "admit", !.life = m])
                     /\ lives'[m].run = match.run
                     /\ lives'[m].slot = s
                     /\ lives'[m].status \in {"alive", "dead"}
    <2>1. lives[l].slot \in Slots /\ lives[l].status = "alive" /\ lives[l].run = match.run
      BY <1>2, <1>4 DEF SlotsExclusive, AliveIn, AliveLives
    <2>2. UNCHANGED <<lives, runs, arena>>
      BY <1>4 DEF vars
    <2> QED
      BY <1>4, <2>1, <2>2
  <1>5. ASSUME NEW l \in LifeIds, NEW s \in Slots,
               SeatGiven(Owner[task.conn], match.run, l, s),
               Control("admit", s, l, [task EXCEPT !.pc = "admit", !.life = l])
        PROVE  /\ arena'.run_id = arena.run_id
               /\ UNCHANGED runs
               /\ \E m \in LifeIds, q \in Slots :
                     /\ Control("admit", q, m, [task EXCEPT !.pc = "admit", !.life = m])
                     /\ lives'[m].run = match.run
                     /\ lives'[m].slot = q
                     /\ lives'[m].status \in {"alive", "dead"}
    <2>1. /\ lives'[l].status = "alive" /\ lives'[l].run = match.run /\ lives'[l].slot = s
          /\ arena' = [arena EXCEPT !.idle = "null"]
          /\ UNCHANGED runs
      BY <1>2, <1>3, <1>5, SeatTaken
    <2>2. arena'.run_id = arena.run_id
      BY <2>1 DEF GInv, IInv, TypeOK, Arena
    <2> QED
      BY <1>5, <2>1, <2>2
  <1> QED
    BY <1>1, <1>2, <1>4, <1>5 DEF Allocate, SeatGiven

LEMMA AllocateStanding ==
  ASSUME GInv, [GameNext]_gameVars, Allocate
  PROVE  Standing'
  <1>1. /\ task.pc \in {"tabs", "pop"}
        /\ match.run \in RunIds
        /\ arena'.run_id = arena.run_id
        /\ UNCHANGED <<engine, journal, acks, mgr, conns, touched, worker, runs>>
    BY LifeGiven DEF Allocate, workerVars
  <1>2. /\ task.op = "attach" /\ match.run # 0 /\ match.state # "none"
        /\ engine.run # 0 => engine.run = match.run
    BY <1>1, TaskOps, TaskMatch
  <1>3. PICK l \in LifeIds, s \in Slots :
           /\ Control("admit", s, l, [task EXCEPT !.pc = "admit", !.life = l])
           /\ lives'[l].run = match.run
           /\ lives'[l].slot = s
           /\ lives'[l].status \in {"alive", "dead"}
    BY LifeGiven
  <1>4. /\ task \in TaskRecord /\ task.conn \in Conns /\ task.next \in {"tabs", "pop"}
        /\ conns[task.conn].phase = "attaching"
        /\ task.next = "pop" => conns[task.conn].slot \in Slots
    <2>1. task \in TaskRecord /\ AttachShape
      BY DEF GInv, ServerTyped, TaskShape
    <2> QED
      BY <1>2, <2>1 DEF AttachShape
  <1>5. PICK t : t = [task EXCEPT !.pc = "admit", !.life = l]
    OBVIOUS
  <1>6. /\ t \in TaskRecord /\ t.op = "attach" /\ t.pc = "admit" /\ t.next = task.next
        /\ t.conn = task.conn /\ t.life = l
    BY <1>2, <1>4, <1>5 DEF TaskRecord
  <1>7. Sends("admit", s, l, t)
    <2>1. "admit" \in Kinds
      BY DEF Kinds
    <2> QED
      BY <1>3, <1>5, <1>6, <2>1, ControlSends
  <1>8. /\ task' \in TaskRecord
        /\ task'.op = "attach" /\ task'.pc = "admit" /\ task'.next = task.next
        /\ task'.conn = task.conn /\ task'.life = l /\ task'.slot = s
        /\ task'.wait \in {"admit", "failed"}
    BY <1>6, <1>7 DEF Sends
  <1>9. /\ match' \in MatchRecord /\ match'.run = match.run
        /\ match'.offset = match.offset /\ match'.state = match.state
    <2>1. match \in MatchRecord
      BY DEF GInv, ServerTyped
    <2>2. \/ UNCHANGED match
          \/ match' = [match EXCEPT !.peers[conns[task.conn].slot] = NoConn]
      BY DEF Allocate, Allocating
    <2> QED
      BY <2>1, <2>2 DEF MatchRecord
  <1>10. Goes
    BY <1>1, <1>2, <1>9, MatchGoes
  <1>11. /\ SeatShape'
         /\ \A c \in Conns : conns'[c].phase = "attaching" => conns'[c].run # 0
    BY <1>1, SeatsRested, RestedShape
  <1>12. TaskShape' /\ LeaveShape'
    <2>1. AttachShape'
      BY <1>1, <1>4, <1>8 DEF AttachShape
    <2>2. DetachShape' /\ StopShape' /\ LeaveShape'
      BY <1>8 DEF DetachShape, StopShape, LeaveShape
    <2> QED
      BY <1>8, <1>11, <2>1, <2>2 DEF TaskShape
  <1>13. PICK pkt \in Packet : pkt = [kind |-> "admit", slot |-> s, life |-> l]
    BY DEF Packet, Kinds
  <1>14. UNCHANGED toEngine \/ toEngine' = Append(toEngine, pkt)
    BY <1>7, <1>13 DEF Sends
  <1>15. Admitting' /\ toEngine' \in Seq(Packet)
    <2>1. CASE UNCHANGED toEngine
      BY <1>1, <2>1, AdmittingKept DEF GInv, EngineTyped
    <2>2. CASE toEngine' = Append(toEngine, pkt)
      <3>1. engine.run # 0 => pkt.life \in LifeIds /\ Sits(pkt.life, engine.run, pkt.slot)'
        BY <1>1, <1>2, <1>3, <1>13 DEF Sits
      <3> QED
        BY <1>1, <2>2, <3>1, AdmittingSent, PacketSent DEF GInv
    <2> QED
      BY <1>14, <2>1, <2>2
  <1>16. OneAdmission'
    <2>1. SUFFICES ASSUME match.state = "open" PROVE OneAdmission'
      BY <1>9, SocketShut
    <2>2. NoAdmission /\ EngineTyped
      BY <1>1, <2>1, NoneUnderWay DEF GInv
    <2>3. \A n \in 1 .. Len(acks') : ~IsAdmitted(n)'
      BY <1>1, <2>2 DEF NoAdmission, IsAdmitted
    <2>4. \A n \in 1 .. Len(toEngine') : Admits(n)' => n = Len(toEngine) + 1
      <3>1. CASE UNCHANGED toEngine
        BY <2>2, <3>1 DEF NoAdmission, Admits
      <3>2. CASE toEngine' = Append(toEngine, pkt)
        <4>1. /\ Len(toEngine) \in Nat
              /\ Len(toEngine') = Len(toEngine) + 1
              /\ \A n \in 1 .. Len(toEngine) : toEngine'[n] = toEngine[n]
          BY <2>2, <3>2, PacketSent
        <4> QED
          BY <2>2, <4>1 DEF NoAdmission, Admits
      <3> QED
        BY <1>14, <3>1, <3>2
    <2> QED
      BY <1>8, <2>3, <2>4 DEF OneAdmission
  <1>17. conns' \in [Conns -> SeatRecord]
    BY <1>1 DEF GInv, ServerTyped
  <1> QED
    BY <1>1, <1>2, <1>8, <1>10, <1>11, <1>12, <1>15, <1>16, <1>17, OperationStanding

LEMMA AdmittedStanding ==
  ASSUME GInv, [GameNext]_gameVars, Admitted
  PROVE  Standing'
  <1>1. /\ task.pc = "admit" /\ task.wait = "admit"
        /\ match.state = "open"
        /\ acks # <<>> /\ acks' = Tail(acks) /\ Head(acks).kind = "admit"
        /\ match' = [match EXCEPT !.peers[task.slot] = task.conn]
        /\ conns' = [conns EXCEPT ![task.conn] = [phase |-> "open", run |-> 0,
                                                  life |-> task.life, slot |-> task.slot]]
        /\ task' = NoTask
        /\ UNCHANGED <<vars, engine, journal, toEngine, mgr, workerVars>>
    BY DEF Admitted, Answered
  <1>2. task.op = "attach" /\ match.run # 0 /\ match.state # "none"
    BY <1>1, TaskOps, TaskMatch
  <1>3. task.conn \in Conns /\ task.life \in LifeIds /\ task.slot \in Slots
    BY <1>1, <1>2 DEF GInv, TaskShape, AttachShape
  <1>4. UNCHANGED <<engine, journal, toEngine, mgr, touched, worker, lives, runs, arena>>
    BY <1>1 DEF vars, workerVars
  <1>5. /\ match' \in MatchRecord /\ match'.run = match.run
        /\ match'.offset = match.offset /\ match'.state = match.state
    <2>1. match \in MatchRecord
      BY DEF GInv, ServerTyped
    <2> QED
      BY <1>1, <1>3, <2>1 DEF MatchRecord
  <1>6. Goes
    BY <1>2, <1>4, <1>5, MatchGoes
  <1>7. /\ conns' \in [Conns -> SeatRecord]
        /\ SeatShape'
        /\ \A c \in Conns : conns'[c].phase = "attaching" => conns'[c].run # 0
    <2>1. conns \in [Conns -> SeatRecord] /\ SeatShape /\ TaskShape
      BY DEF GInv, ServerTyped
    <2>2. PICK seat \in SeatRecord : seat = [phase |-> "open", run |-> 0,
                                             life |-> task.life, slot |-> task.slot]
      BY <1>3 DEF SeatRecord, Phases
    <2>3. conns' = [conns EXCEPT ![task.conn] = seat]
      BY <1>1, <2>2
    <2>4. seat.slot \in Slots /\ seat.phase = "open"
      BY <1>3, <2>2
    <2> QED
      BY <1>3, <2>1, <2>3, <2>4 DEF SeatShape, TaskShape
  <1>8. TaskShape' /\ LeaveShape'
    BY <1>1, <1>7, TaskDone, AtRest
  <1>9. Admitting' /\ toEngine' \in Seq(Packet)
    BY <1>4, AdmittingKept DEF GInv, EngineTyped
  <1>10. OneAdmission'
    <2>1. /\ Len(acks) \in Nat /\ Len(acks') = Len(acks) - 1
          /\ 1 \in 1 .. Len(acks) /\ Head(acks) = acks[1]
          /\ \A n \in 1 .. Len(acks') : n + 1 \in 1 .. Len(acks) /\ acks'[n] = acks[n + 1]
      BY <1>1, AckRead DEF GInv
    <2>2. IsAdmitted(1)
      BY <1>1, <2>1 DEF IsAdmitted
    <2>3. /\ \A m \in 1 .. Len(acks) : IsAdmitted(m) => m = 1
          /\ \A n \in 1 .. Len(toEngine) : ~Admits(n)
      BY <1>1, <2>1, <2>2 DEF GInv, OneAdmission
    <2>4. \A n \in 1 .. Len(acks') : ~IsAdmitted(n)'
      <3>1. SUFFICES ASSUME NEW n \in 1 .. Len(acks'), IsAdmitted(n)' PROVE FALSE
        OBVIOUS
      <3>2. IsAdmitted(n + 1) /\ n + 1 \in 1 .. Len(acks)
        BY <2>1, <3>1 DEF IsAdmitted
      <3>3. n + 1 # 1
        BY <3>1
      <3> QED
        BY <2>3, <3>2, <3>3
    <2>5. \A n \in 1 .. Len(toEngine') : ~Admits(n)'
      BY <1>4, <2>3 DEF Admits
    <2> QED
      BY <2>4, <2>5 DEF OneAdmission
  <1>11. task' \in TaskRecord
    BY <1>1, TaskDone
  <1> QED
    BY <1>1, <1>2, <1>6, <1>7, <1>8, <1>9, <1>10, <1>11, OperationStanding

LEMMA EofStanding ==
  ASSUME GInv, [GameNext]_gameVars, SocketEof
  PROVE  Standing'
  <1>1. /\ match.state = "open" /\ engine.run # match.run
        /\ match' = Closed
        /\ UNCHANGED <<engine, journal, toEngine, acks, task, mgr, conns, touched, worker>>
        /\ UNCHANGED <<lives, runs, arena>>
    BY DEF SocketEof, vars, ipcVars, workerVars
  <1>2. match.run # 0 /\ engine.run = 0
    BY <1>1, TaskMatch
  <1>3. match' \in MatchRecord /\ match'.state = "closed"
        /\ match'.run = match.run /\ match'.offset = match.offset
    <2>1. match \in MatchRecord
      BY DEF GInv, ServerTyped
    <2> QED
      BY <1>1, <2>1 DEF Closed, MatchRecord
  <1>4. Goes
    BY <1>1, <1>2, <1>3, MatchGoes
  <1>5. SeatShape'
    BY <1>1 DEF GInv, SeatShape
  <1>6. TaskShape'
    <2>1. TaskShape
      BY DEF GInv
    <2> QED
      BY <1>1, <1>3, <2>1 DEF TaskShape, AttachShape, DetachShape, StopShape
  <1>7. LeaveShape'
    <2>1. LeaveShape
      BY DEF GInv
    <2> QED
      BY <1>1, <1>2, <1>3, <2>1 DEF LeaveShape, UsableOf, Ends, Unapplied
  <1>8. Admitting' /\ toEngine' \in Seq(Packet)
    BY <1>1, AdmittingKept DEF GInv, EngineTyped
  <1>9. OneAdmission'
    BY <1>3, SocketShut
  <1>10. task' \in TaskRecord /\ conns' \in [Conns -> SeatRecord]
    BY <1>1 DEF GInv, ServerTyped
  <1> QED
    BY <1>1, <1>2, <1>4, <1>5, <1>6, <1>7, <1>8, <1>9, <1>10, OperationStanding

\* stop() is over: the arena has no match and no engine.
LEMMA EndStanding ==
  ASSUME GInv, [GameNext]_gameVars, StopEnds
  PROVE  Standing'
  <1>1. /\ task.pc = "release"
        /\ StopRun(match.run)
        /\ match' = NoMatch /\ task' = NoTask
        /\ UNCHANGED <<engine, journal, toEngine, acks, mgr, conns, touched, worker>>
    BY DEF StopEnds, ipcVars, workerVars
  <1>2. task.op = "stop" /\ mgr.op = "none" /\ mgr.pc = "idle"
    BY <1>1, TaskOps, TaskMatch
  <1>3. engine.run = 0 /\ \A s \in Slots : ~Ends(s)
    BY <1>2 DEF GInv, TaskShape, StopShape, EngineShape
  <1>4. /\ match' \in MatchRecord /\ match'.run = 0 /\ match'.state = "none"
        /\ \A s \in Slots : match'.peers[s] = NoConn
    <2>1. 0 \in 0 .. MaxSequence
      BY GameBounds
    <2> QED
      BY <1>1, <2>1 DEF NoMatch, MatchRecord
  <1>5. task' \in TaskRecord /\ task'.op = "none" /\ task'.pc = "idle" /\ task'.wait = "none"
    BY <1>1, TaskDone
  <1>6. EngineTyped' /\ ServerTyped' /\ SeatShape'
    BY <1>1, <1>4, <1>5 DEF GInv, EngineTyped, ServerTyped, SeatShape
  <1>7. MatchShape' /\ EngineShape' /\ MgrShape'
    BY <1>1, <1>2, <1>3, <1>4, <1>5 DEF MatchShape, EngineShape, MgrShape, Ends
  <1>8. JournalShape'
    BY <1>1, JournalShapeKept
  <1>9. TaskShape' /\ LeaveShape'
    <2>1. \A c \in Conns : conns'[c].phase = "attaching" => conns'[c].run # 0
      BY <1>1 DEF GInv, TaskShape
    <2> QED
      BY <1>5, <2>1, AtRest
  <1>10. Admitting'
    BY <1>1, AdmittingKept
  <1>11. OneAdmission' /\ Answering'
    BY <1>4, SocketShut
  <1> QED
    BY <1>6, <1>7, <1>8, <1>9, <1>10, <1>11 DEF Standing

----------------------------------------------------------------------------
(* Every step.                                                              *)

LEMMA TaskStanding ==
  ASSUME GInv, TaskStep
  PROVE  Standing'
  <1>0. [GameNext]_gameVars
    BY DEF GameNext
  <1>1. CASE OperationFails
    BY <1>0, <1>1, FailsStanding
  <1>2. CASE ReplayStep
    BY <1>0, <1>2, ReplayStanding, DeadPeerStanding DEF ReplayStep
  <1>3. CASE AttachStep
    <2>1. ASSUME NEW c \in Conns, AttachBegin(c) PROVE Standing'
      BY <1>0, <2>1, AttachTaken, AttachRefused
    <2> QED
      BY <1>0, <1>3, <2>1, AttachEndsStanding, RevokeFormerStanding, FormerLifeStanding,
         AllocateStanding, AdmittedStanding DEF AttachStep
  <1>4. CASE DetachStep
    <2>1. ASSUME NEW c \in Conns, DetachBegin(c) PROVE Standing'
      BY <1>0, <2>1, DetachOpenStanding, DetachClosedStanding
    <2> QED
      BY <1>0, <1>4, <2>1, DisconnectStanding, DetachedStanding, GoneStanding DEF DetachStep
  <1>5. CASE LeaveMatchStep
    <2>1. ASSUME NEW p \in Players, LeaveBegin(p) PROVE Standing'
      <3>1. CASE /\ LeaveFirst(p) = {}
                 /\ task' = Reading([NoTask EXCEPT !.op = "leave", !.next = "finish", !.player = p],
                                    match.offset)
                 /\ UNCHANGED toEngine
        BY <1>0, <2>1, <3>1, LeaveReadsStanding
      <3>2. CASE \E l \in LeaveFirst(p) :
                    Control("revoke", lives[l].slot, NoId,
                            [NoTask EXCEPT !.op = "leave", !.pc = "withdraw", !.next = "finish",
                                           !.player = p])
        BY <1>0, <2>1, <3>2, LeaveSendsStanding
      <3> QED
        BY <2>1, <3>1, <3>2 DEF LeaveBegin
    <2> QED
      BY <1>0, <1>5, <2>1, WithdrawnStanding, LeaveEndsStanding DEF LeaveMatchStep
  <1> QED
    BY <1>1, <1>2, <1>3, <1>4, <1>5 DEF TaskStep

LEMMA VisitsStanding ==
  ASSUME GInv, MatchStep
  PROVE  Standing'
  <1>0. [GameNext]_gameVars
    BY DEF GameNext
  <1> QED
    BY <1>0, TickStanding, VisitStanding, EofStanding, StopStanding, EndStanding DEF MatchStep

LEMMA StandingStep ==
  ASSUME GInv, [GameNext]_gameVars
  PROVE  Standing'
  <1>1. CASE TaskStep
    BY <1>1, TaskStanding
  <1>2. CASE MatchStep
    BY <1>2, VisitsStanding
  <1>3. CASE RecoveryStep
    BY <1>3, RecoveryStanding
  <1>4. CASE \/ EngineStep /\ UNCHANGED <<vars, serverVars>>
             \/ EngineTerminates \/ EngineCrashes
    <2>1. UNCHANGED <<vars, serverVars>> /\ (EngineStep \/ EngineExits)
      BY <1>4 DEF EngineTerminates, EngineCrashes
    <2>2. EngineAlone
      BY <2>1, EngineMoves DEF EngineExits, EngineAlone
    <2> QED
      BY <2>2, EngineStanding
  <1>5. CASE \E c \in Conns : EnsureBegin(c) \/ Connect(c)
    BY <1>5, EnsureStanding, ConnectStanding
  <1>6. CASE \E p \in Players : LeaveWithoutMatch(p)
    BY <1>6, LeaveWithoutMatchStanding
  <1>7. CASE DropAck \/ Crash \/ Restart
    BY <1>7, DropStanding, CrashStanding, RestartStanding
  <1>8. CASE LedgerStep
    BY <1>8, RequestStanding
  <1>10. CASE UnstartedStep
    BY <1>10, UnstartedStanding
  <1>9. CASE UNCHANGED gameVars
    <2>1. /\ UNCHANGED <<ipcVars, serverVars, lives, runs>>
          /\ arena'.run_id = arena.run_id
      BY <1>9 DEF gameVars, vars
    <2> QED
      BY <2>1, LedgerStanding
  <1> QED
    BY <1>1, <1>2, <1>3, <1>4, <1>5, <1>6, <1>7, <1>8, <1>9, <1>10 DEF GameNext

LEMMA GameStep == GInv /\ [GameNext]_gameVars => GInv'
  <1> SUFFICES ASSUME GInv, [GameNext]_gameVars PROVE GInv'
    OBVIOUS
  <1>1. [Next]_vars
    BY GameLedgerStep
  <1>2. IInv' /\ SInv'
    BY <1>1, InvStep, SafetyStep DEF GInv
  <1>3. Standing'
    BY StandingStep
  <1>4. PrizesMatchJournal' /\ DeadIsWritten' /\ Backlog' /\ EndedRunIsDrained' /\ Honoured'
    BY PrizesStep, WrittenStep, BacklogStep, DrainedStep, HonouredStep
  <1> QED
    BY <1>2, <1>3, <1>4 DEF GInv, Standing

----------------------------------------------------------------------------
(* The arena as a whole.                                                    *)

\* The inductive invariant holds in every reachable state of the arena.
THEOREM GameInvariance == GameSpec => []GInv
  BY GameInitInv, GameStep, PTL DEF GameSpec

\* The server, the engine and the ledger stay within their types.
THEOREM GameTypeCorrect == GameSpec => []GameTypeOK
  <1>1. GInv => GameTypeOK
    <2> SUFFICES ASSUME GInv PROVE GameTypeOK
      OBVIOUS
    <2>1. TypeOK /\ EngineTyped /\ ServerTyped
      BY DEF GInv, IInv
    <2>2. RefereeTypeOK
      <3>1. engine \in EngineRecord
        BY <2>1 DEF EngineTyped
      <3>2. \A r \in RunIds : \A n \in 1 .. Len(journal[r]) : journal[r][n] \in Line
        BY <2>1, LineTyped
      <3>3. \A n \in 1 .. Len(toEngine) : toEngine[n] \in Packet
        BY <2>1 DEF EngineTyped
      <3>4. \A n \in 1 .. Len(acks) : acks[n] \in Ack
        BY <2>1 DEF EngineTyped
      <3> QED
        BY <3>1, <3>2, <3>3, <3>4 DEF RefereeTypeOK, EngineRecord, Line, Packet, Ack
    <2>3. match \in [run: 0 .. MaxRuns, state: {"none", "open", "closed", "stopping"},
                     offset: 0 .. MaxSequence, peers: [Slots -> Conns \cup {NoConn}]]
      <3>1. RunIds \cup {0} \subseteq 0 .. MaxRuns
        BY Ranges, BoundAssumption
      <3> QED
        BY <2>1, <3>1 DEF ServerTyped, MatchRecord
    <2>4. conns \in [Conns -> [phase: Phases, run: 0 .. MaxRuns,
                               life: LifeIds \cup {NoId}, slot: 0 .. MaxPlayers]]
      <3>1. RunIds \cup {0} \subseteq 0 .. MaxRuns /\ Slots \cup {0} \subseteq 0 .. MaxPlayers
        BY Ranges, BoundAssumption
      <3> QED
        BY <2>1, <3>1 DEF ServerTyped, SeatRecord
    <2>5. /\ task.op \in Ops \cup {"none"}
          /\ task.conn \in Conns \cup {NoConn}
          /\ task.slot \in Slots \cup {0}
          /\ task.life \in LifeIds \cup {NoId}
      BY <2>1 DEF ServerTyped, TaskRecord
    <2>6. mgr.op \in {"none", "ensure", "leave"} /\ mgr.todo \subseteq RunIds
      BY <2>1 DEF ServerTyped, MgrRecord
    <2> QED
      BY <2>1, <2>2, <2>3, <2>4, <2>5, <2>6 DEF GameTypeOK, ServerTyped, WorkerRecord
  <1> QED
    BY GameInvariance, <1>1, PTL

\* Every line that waits in a journal can be applied: consume_death never finds a
\* life without a funded entry, whatever the engine, the worker, the leaves and
\* the recoveries did since the line was written (crud.py 339-372).
THEOREM BacklogApplies == GameSpec => []JournalApplies
  <1>1. GInv => JournalApplies
    <2> SUFFICES ASSUME GInv, NEW r \in RunIds, NEW n \in Unapplied(r),
                        NEW l, l = journal[r][n].victim
                 PROVE  /\ lives[l].run = r
                        /\ lives[l].status \notin {"none", "refunded"}
                        /\ lives[l].status # "dead" => entries[lives[l].entry].remaining > 0
      BY DEF JournalApplies
    <2>1. lives[l].run = r /\ lives[l].status \in {"alive", "dead"}
      BY DEF GInv, Backlog
    <2>2. l \in LifeIds
      BY LineTyped DEF GInv, Unapplied, Line
    <2>3. lives[l].status = "alive" => entries[lives[l].entry].remaining > 0
      <3>1. FundedLife
        BY DEF GInv, IInv
      <3> QED
        BY <2>2, <3>1 DEF FundedLife, Funded, Usable, UsableStatus
    <2> QED
      BY <2>1, <2>3
  <1> QED
    BY GameInvariance, <1>1, PTL

\* No life is both consumed and refunded: a leave that ends has the deaths of the
\* player's character in its books (server.py 470-492, crud.py 519-553).
THEOREM KilledIsNotRefunded == GameSpec => []KilledNeverRefunded
  <1>1. GInv => KilledNeverRefunded
    <2> SUFFICES ASSUME GInv, NEW r \in RunIds, NEW n \in 1 .. Len(journal[r])
                 PROVE  lives[journal[r][n].victim].status # "refunded"
      BY DEF KilledNeverRefunded
    <2>1. CASE n <= runs[r].sequence
      <3>1. n \in 1 .. runs[r].sequence
        BY <2>1, RunsTyped
      <3> QED
        BY <3>1 DEF GInv, PrizesMatchJournal
    <2>2. CASE ~ (n <= runs[r].sequence)
      <3>1. n \in Unapplied(r)
        BY <2>2, RunsTyped DEF Unapplied
      <3> QED
        BY <3>1 DEF GInv, Backlog
    <2> QED
      BY <2>1, <2>2
  <1> QED
    BY GameInvariance, <1>1, PTL

\* A run that ended has no engine and no line left to apply (server.py 246-251).
THEOREM EndsAreDrained == GameSpec => []EndedRunIsDrained
  <1>1. GInv => EndedRunIsDrained
    BY DEF GInv
  <1> QED
    BY GameInvariance, <1>1, PTL

\* The ledger has applied a prefix of each journal, and paid the killers that the
\* engine wrote (crud.py 343-349, server.py 229-237).
THEOREM PrizesFollowJournal == GameSpec => []PrizesMatchJournal
  <1>1. GInv => PrizesMatchJournal
    BY DEF GInv
  <1> QED
    BY GameInvariance, <1>1, PTL

\* Whatever the arena does, its tables change by the transactions of LifeLedger.
THEOREM GameUsesLedger == GameSpec => [][Next]_vars
  <1>1. GInv /\ [GameNext]_gameVars => [Next]_vars
    BY GameLedgerStep
  <1> QED
    BY GameInvariance, <1>1, PTL DEF GameSpec

\* So what the ledger promises holds in the arena: no dead or refunded life is
\* played, killed or refunded again, whatever engine, server and leaves interleave.
THEOREM GameRetires == GameSpec => RetiredForGood
  <1>1. GInv /\ [GameNext]_gameVars
           => [\A l \in LifeIds : lives[l].status \in {"dead", "refunded"} =>
                  lives'[l] = lives[l]]_vars
    <2> SUFFICES ASSUME GInv, [GameNext]_gameVars
                 PROVE  \A l \in LifeIds : lives[l].status \in {"dead", "refunded"} =>
                           lives'[l] = lives[l]
      OBVIOUS
    <2> QED
      BY GameLedgerStep, RetiredKept DEF GInv
  <1> QED
    BY GameInvariance, <1>1, PTL DEF GameSpec, RetiredForGood

\* Every step of the arena, seen entry by entry, is a step of the accounts.
THEOREM GameKeepsAccounts == GameSpec => [][Account!AccountNext]_(Account!accountVars)
  <1>1. GInv /\ [GameNext]_gameVars => [Account!AccountNext]_(Account!accountVars)
    BY GameLedgerStep, AccountStep DEF GInv
  <1> QED
    BY GameInvariance, <1>1, PTL DEF GameSpec

\* What the deaths and leaves of an arena pay out was paid in.
THEOREM GameSolvency == GameSpec => []Solvent
  <1>1. GInv => Solvent
    BY SalesCoverPayouts DEF GInv
  <1> QED
    BY GameInvariance, <1>1, PTL
=============================================================================
