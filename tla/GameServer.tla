----------------------------- MODULE GameServer -----------------------------
(***************************************************************************)
(* One arena served by one LNbits worker: the Match and Manager of         *)
(* server.py and the player connections of views.py, between the ledger    *)
(* (LifeLedger) and the engine (Referee).                                  *)
(*                                                                         *)
(* asyncio runs one task at a time and switches tasks at an await.  An     *)
(* action runs from one await that matters to the next: taking a free lock *)
(* is one action with the read that follows it, a transaction is one with  *)
(* the packet sent after it (the packet may wait in the socket, or be      *)
(* lost), an answer is one with the read of the journal after it (the      *)
(* answer may wait).  The operations that hold                             *)
(* match.lock (attach, detach, the periodic replay, a leave, the end of    *)
(* stop) are the record `task', the ones that hold manager.lock while no   *)
(* match exists (ensure, a leave without a match) the record `mgr'.  A     *)
(* leave or a periodic replay with a match takes manager.lock, then        *)
(* match.lock: holding `task' stands for both.                             *)
(*                                                                         *)
(* The entries are already paid for: LifeLedger interleaves payments with  *)
(* everything else.                                                        *)
(***************************************************************************)
EXTENDS LifeLedger, Sequences

CONSTANTS
    Conns,      \* websocket connections
    NoConn,     \* no connection
    Owner,      \* Owner[c]: the session token of connection c
    Holder,     \* Holder[e]: the player who bought entry e
    BatchSize,  \* journal lines per replay (256)
    IpcDepth,   \* bound: control packets and answers on the socket
    Faults,     \* what may go wrong besides crashes of the worker
    MaxCrashes  \* bound: crashes of the worker

ASSUME ServerAssumption ==
    /\ NoConn \notin Conns
    /\ Owner \in [Conns -> Players]
    /\ Holder \in [Entries -> Players]
    /\ BatchSize \in Nat \ {0}
    /\ IpcDepth \in Nat \ {0}
    /\ Faults \subseteq {"engine exits", "late answer", "lease ends", "closure"}
    /\ MaxCrashes \in Nat

VARIABLES
    engine, journal, toEngine, acks,  \* see Referee
    match,   \* manager.matches[arena]: run, socket state, offset and peers
    task,    \* the operation that holds match.lock
    mgr,     \* the operation that holds manager.lock without a match
    conns,   \* the connections and the life each one believes it plays
    touched, \* runs whose journal file exists
    worker   \* the worker process: up (and holding worker.lock), crashes so far,
             \* and what a start without a journal left in its memory

INSTANCE Referee WITH NoLife <- NoId, MaxEvents <- MaxSequence

ipcVars    == <<engine, journal, toEngine, acks>>
serverVars == <<match, task, mgr, conns, touched, worker>>
workerVars == <<touched, worker>>
gameVars   == <<vars, ipcVars, serverVars>>

NoMatch == [run |-> 0, state |-> "none", offset |-> 0, peers |-> [s \in Slots |-> NoConn]]
NoTask  == [op |-> "none", pc |-> "idle", next |-> "idle", until |-> 0, wait |-> "none",
            conn |-> NoConn, player |-> NoPlayer, slot |-> 0, life |-> NoId]
NoMgr   == [op |-> "none", pc |-> "idle", conn |-> NoConn, player |-> NoPlayer,
            todo |-> {}, run |-> 0, offset |-> 0, until |-> 0]
NoSeat  == [phase |-> "closed", run |-> 0, life |-> NoId, slot |-> 0]

Ops    == {"attach", "detach", "tick", "leave", "stop"}
Phases == {"closed", "open", "ensuring", "attaching"}

\* A match that failed to start before it had a journal: nothing is left of it,
\* manager.matches still holds it ("match"), or the arena is in manager.blocked.
Broken == {"none", "match", "arena"}

GameTypeOK ==
    /\ TypeOK
    /\ RefereeTypeOK
    /\ match \in [run: 0 .. MaxRuns, state: {"none", "open", "closed", "stopping"},
                  offset: 0 .. MaxSequence, peers: [Slots -> Conns \cup {NoConn}]]
    /\ task.op \in Ops \cup {"none"}
    /\ task.conn \in Conns \cup {NoConn}
    /\ task.slot \in Slots \cup {0}
    /\ task.life \in LifeIds \cup {NoId}
    /\ mgr.op \in {"none", "ensure", "leave"}
    /\ mgr.todo \subseteq RunIds
    /\ conns \in [Conns -> [phase: Phases, run: 0 .. MaxRuns,
                            life: LifeIds \cup {NoId}, slot: 0 .. MaxPlayers]]
    /\ touched \subseteq RunIds
    /\ worker \in [up: BOOLEAN, crashes: 0 .. MaxCrashes, broken: Broken,
                   waiting: SUBSET Players]

\* The ledger after every player has paid, before anyone has played.
GameInit ==
    /\ participants = [p \in Players |-> "playing"]
    /\ entries = [e \in Entries |-> [player |-> Holder[e], status |-> "paid",
                                     remaining |-> LivesPerEntry, payable |-> FALSE]]
    /\ NothingPlayed
    /\ RefereeInit
    /\ match = NoMatch
    /\ task = NoTask
    /\ mgr = NoMgr
    /\ conns = [c \in Conns |-> NoSeat]
    /\ touched = {}
    /\ worker = [up |-> TRUE, crashes |-> 0, broken |-> "none", waiting |-> {}]

Idle == task.op = "none"

\* manager.lock is held across a leave and a visit, and by mgr.
ManagerFree == mgr.op = "none" /\ task.op \notin {"tick", "leave"}

----------------------------------------------------------------------------
(* Control packets: Match.send and Match.control.  A packet that cannot be  *)
(* sent, and an answer that does not come within three seconds, both raise; *)
(* OperationFails says what the caller makes of it.                         *)

CanSend == match.state = "open" /\ Len(toEngine) + Len(acks) < IpcDepth

\* task' sends a packet for slot s and waits for its answer.
Control(kind, s, l, waiting) ==
    IF CanSend
    THEN /\ toEngine' = Append(toEngine, [kind |-> kind, slot |-> s, life |-> l])
         /\ task' = [waiting EXCEPT !.slot = s, !.wait = kind]
    ELSE /\ task' = [waiting EXCEPT !.slot = s, !.wait = "failed"]
         /\ UNCHANGED toEngine

\* The answer the task waits for is the next one.  Answers are told apart by
\* their kind and slot only.
Answered(kind) ==
    /\ match.state = "open"
    /\ task.wait = kind
    /\ acks # <<>>
    /\ Head(acks) = [kind |-> kind, slot |-> task.slot]
    /\ acks' = Tail(acks)

\* receive() drops an answer nobody waits for; a closed socket loses the rest.
DropAck ==
    /\ acks # <<>>
    /\ \/ match.state # "open"
       \/ task.wait # Head(acks).kind
       \/ task.slot # Head(acks).slot
    /\ acks' = Tail(acks)
    /\ UNCHANGED <<vars, engine, journal, toEngine, serverVars>>

Closed   == [match EXCEPT !.state = IF @ = "open" THEN "closed" ELSE @]
Stopping == [match EXCEPT !.state = "stopping"]

(***************************************************************************)
(* attach: before admission the error reaches the player and the match     *)
(* goes on; a failed admission closes the match.  detach, the periodic     *)
(* replay and a leave stop the match.                                      *)
(***************************************************************************)
OperationFails ==
    /\ \/ task.wait = "failed"
       \/ task.wait # "none" /\ (match.state # "open" \/ "late answer" \in Faults)
    /\ task' = NoTask
    /\ match' = IF task.op # "attach" THEN Stopping
                ELSE IF task.pc = "admit" THEN Closed
                ELSE match
    /\ conns' = CASE task.op = "attach" -> [conns EXCEPT ![task.conn].phase = "open"]
                  [] task.op = "detach" -> [conns EXCEPT ![task.conn] = NoSeat]
                  [] OTHER -> conns
    /\ UNCHANGED <<vars, ipcVars, mgr, workerVars>>

----------------------------------------------------------------------------
(* Match.replay, at the start of every operation under match.lock.          *)

Least(m, n) == IF m <= n THEN m ELSE n

\* drain_journal replays until a batch is empty.
Draining(op) == op \in {"stop", "leave"}

\* The task reads a batch and goes on to apply it, or to its next step.
Reading(t, offset) ==
    IF offset = Len(journal[match.run])
    THEN [t EXCEPT !.pc = t.next, !.until = 0]
    ELSE [t EXCEPT !.pc = "apply",
                   !.until = Least(Len(journal[match.run]), offset + BatchSize)]

\* The task has applied the lines before offset.
Applied(t, offset) ==
    IF offset < t.until THEN t
    ELSE IF Draining(t.op) THEN Reading(t, offset)
    ELSE [t EXCEPT !.pc = t.next, !.until = 0]

\* Mutant of ApplyLine: a line that is read again is counted again.
ApplyLineAgain(r, n) ==
    LET line == journal[r][n]
    IN  ConsumeDeath(r, line.victim, line.killer) \/ SkipDeath(r, line.victim)

\* consume_death of the n-th journal line of run r.
ApplyLine(r, n) ==
    LET line == journal[r][n]
    IN  IF n <= runs[r].sequence
        THEN UNCHANGED vars
        ELSE /\ n = runs[r].sequence + 1
             /\ ConsumeDeath(r, line.victim, line.killer) \/ SkipDeath(r, line.victim)

\* The peers that still play the victim of the next line.
Seats == LET victim == journal[match.run][match.offset + 1].victim
         IN  {s \in Slots : match.peers[s] # NoConn /\ conns[match.peers[s]].life = victim}

\* The death is in the ledger; a peer that still plays that life is revoked.
ApplyEvent ==
    LET next == match.offset + 1
    IN  /\ task.pc = "apply"
        /\ task.wait = "none"
        /\ ApplyLine(match.run, next)
        /\ \/ /\ Seats = {}
              /\ match' = [match EXCEPT !.offset = next]
              /\ task' = Applied(task, next)
              /\ UNCHANGED <<toEngine, conns>>
           \/ /\ match.state = "open"
              /\ \E s \in Seats : Control("revoke", s, NoId, task)
              /\ match' = [match EXCEPT !.offset = next]
              /\ UNCHANGED conns
           \/ /\ match.state # "open"
              /\ \E s \in Seats :
                    /\ match' = [match EXCEPT !.offset = next, !.peers[s] = NoConn]
                    /\ conns' = [conns EXCEPT ![match.peers[s]].life = NoId]
              /\ task' = Applied(task, next)
              /\ UNCHANGED toEngine
        /\ UNCHANGED <<engine, journal, acks, mgr, workerVars>>

DeadPeerRevoked ==
    /\ task.pc = "apply"
    /\ Answered("revoke")
    /\ match' = [match EXCEPT !.peers[task.slot] = NoConn]
    /\ conns' = [conns EXCEPT ![match.peers[task.slot]].life = NoId]
    /\ task' = Applied([task EXCEPT !.wait = "none"], match.offset)
    /\ UNCHANGED <<vars, engine, journal, toEngine, mgr, workerVars>>

ReplayStep == ApplyEvent \/ DeadPeerRevoked

----------------------------------------------------------------------------
(* Match.attach.                                                            *)

\* The match the connection was given may be gone by the time it has the lock:
\* its lease is over, allocate_life refuses.
AttachBegin(c) ==
    /\ Idle
    /\ conns[c].phase = "attaching"
    /\ IF match.run = conns[c].run
       THEN /\ task' = Reading([NoTask EXCEPT !.op = "attach", !.next = "tabs", !.conn = c],
                               match.offset)
            /\ UNCHANGED conns
       ELSE /\ conns' = [conns EXCEPT ![c].phase = "open", ![c].run = 0]
            /\ UNCHANGED task
    /\ UNCHANGED <<vars, ipcVars, match, mgr, workerVars>>

\* The answer goes to the player and match.lock is released.
AttachEnds(c) ==
    /\ task' = NoTask
    /\ conns' = [conns EXCEPT ![c].phase = "open"]

\* Mutant of OtherTab: a second tab is not noticed.
OtherTabNever(c) == FALSE

OtherTab(c) ==
    \E s \in Slots : match.peers[s] \notin {NoConn, c} /\ Owner[match.peers[s]] = Owner[c]

AlreadyAdmitted(c) == conns[c].life # NoId /\ lives[conns[c].life].status = "alive"

NothingToAttach ==
    LET c == task.conn
    IN  /\ task.pc = "tabs"
        /\ OtherTab(c) \/ AlreadyAdmitted(c)
        /\ AttachEnds(c)
        /\ UNCHANGED <<vars, ipcVars, match, mgr, workerVars>>

\* The connection still names a life that is over: its slot is revoked.
RevokeFormerLife ==
    LET c == task.conn
    IN  /\ task.pc = "tabs"
        /\ task.wait = "none"
        /\ ~OtherTab(c)
        /\ conns[c].life # NoId
        /\ ~AlreadyAdmitted(c)
        /\ Control("revoke", conns[c].slot, NoId, task)
        /\ UNCHANGED <<vars, engine, journal, acks, match, mgr, conns, workerVars>>

FormerLifeRevoked ==
    /\ task.pc = "tabs"
    /\ Answered("revoke")
    /\ task' = Reading([task EXCEPT !.next = "pop", !.wait = "none"], match.offset)
    /\ UNCHANGED <<vars, engine, journal, toEngine, match, mgr, conns, workerVars>>

\* The slot of the former life is popped from peers; a new life is wanted.
Allocating ==
    \/ /\ task.pc = "tabs"
       /\ ~OtherTab(task.conn)
       /\ conns[task.conn].life = NoId
       /\ UNCHANGED match
    \/ /\ task.pc = "pop"
       /\ match' = [match EXCEPT !.peers[conns[task.conn].slot] = NoConn]

\* allocate_life returns the life of this run when there is one; the life is
\* sent to the engine.
Allocate ==
    LET p == Owner[task.conn]
        r == match.run
    IN  /\ Allocating
        /\ \E l \in LifeIds :
              \/ /\ Admissible(p, r)
                 /\ Current(p, l)
                 /\ l \in AliveIn(r)
                 /\ UNCHANGED vars
                 /\ Control("admit", lives[l].slot, l, [task EXCEPT !.pc = "admit", !.life = l])
              \/ \E s \in Slots :
                    /\ ResumeLife(p, r, l, s) \/ NewLife(p, r, l, s)
                    /\ Control("admit", s, l, [task EXCEPT !.pc = "admit", !.life = l])
        /\ UNCHANGED <<engine, journal, acks, mgr, conns, workerVars>>

CannotAllocate ==
    LET p == Owner[task.conn]
    IN  /\ Allocating
        /\ \/ ~Admissible(p, match.run)
           \/ /\ ~ \E l \in AliveIn(match.run) : Current(p, l)
              /\ ~ \E s \in Slots : LowestFreeSlot(s)
        /\ AttachEnds(task.conn)
        /\ UNCHANGED <<vars, ipcVars, mgr, workerVars>>

Admitted ==
    LET c == task.conn
    IN  /\ task.pc = "admit"
        /\ Answered("admit")
        /\ match' = [match EXCEPT !.peers[task.slot] = c]
        /\ conns' = [conns EXCEPT ![c] = [phase |-> "open", run |-> 0,
                                          life |-> task.life, slot |-> task.slot]]
        /\ task' = NoTask
        /\ UNCHANGED <<vars, engine, journal, toEngine, mgr, workerVars>>

AttachStep ==
    \/ \E c \in Conns : AttachBegin(c)
    \/ NothingToAttach \/ RevokeFormerLife \/ FormerLifeRevoked
    \/ Allocate \/ CannotAllocate \/ Admitted

----------------------------------------------------------------------------
(* Match.detach, when a connection has gone.  A message that has begun is    *)
(* finished first (finish_on_cancel).                                       *)

Seated(c) == conns[c].life # NoId /\ match.peers[conns[c].slot] = c

\* A connection without a seat in the match gives nothing up.
Disconnect(c) ==
    /\ Idle
    /\ conns[c].phase = "open"
    /\ ~Seated(c)
    /\ conns' = [conns EXCEPT ![c] = NoSeat]
    /\ UNCHANGED <<vars, ipcVars, match, task, mgr, workerVars>>

\* Mutant of DetachKind: a disconnect never costs the life.
DetachKindRevoke(p) == "revoke"

\* The character of a player who is leaving is withdrawn, not forfeited.
DetachKind(p) == IF participants[p] = "playing" THEN "forfeit" ELSE "revoke"

\* leave_state is read before the packet is sent.  With the socket closed only
\* the journal decides.
DetachBegin(c) ==
    LET detach == [NoTask EXCEPT !.op = "detach", !.pc = "detach", !.next = "gone", !.conn = c]
    IN  /\ Idle
        /\ conns[c].phase = "open"
        /\ Seated(c)
        /\ IF match.state = "open"
           THEN Control(DetachKind(Owner[c]), conns[c].slot, NoId, detach)
           ELSE task' = Reading(detach, match.offset) /\ UNCHANGED toEngine
        /\ UNCHANGED <<vars, engine, journal, acks, match, mgr, conns, workerVars>>

Detached ==
    /\ task.pc = "detach"
    /\ Answered("forfeit") \/ Answered("revoke")
    /\ task' = Reading([task EXCEPT !.wait = "none"], match.offset)
    /\ UNCHANGED <<vars, engine, journal, toEngine, match, mgr, conns, workerVars>>

Gone ==
    /\ task.pc = "gone"
    /\ match' = [match EXCEPT !.peers[conns[task.conn].slot] = NoConn]
    /\ conns' = [conns EXCEPT ![task.conn] = NoSeat]
    /\ task' = NoTask
    /\ UNCHANGED <<vars, ipcVars, mgr, workerVars>>

DetachStep == (\E c \in Conns : Disconnect(c) \/ DetachBegin(c)) \/ Detached \/ Gone

----------------------------------------------------------------------------
(* The manager's visits to a match, and Match.stop.                         *)

\* Mutant of TickBegin: the last line of the journal is left for later.
TickSkipsLast ==
    /\ Idle /\ ManagerFree
    /\ match.run # 0
    /\ match.offset + 1 < Len(journal[match.run])
    /\ task' = Reading([NoTask EXCEPT !.op = "tick", !.next = "renew"], match.offset)
    /\ UNCHANGED <<vars, ipcVars, match, mgr, conns, workerVars>>

\* One round of Manager.loop: replay, then renew.
TickBegin ==
    /\ Idle /\ ManagerFree
    /\ match.run # 0
    /\ match.offset < Len(journal[match.run])
    /\ task' = Reading([NoTask EXCEPT !.op = "tick", !.next = "renew"], match.offset)
    /\ UNCHANGED <<vars, ipcVars, match, mgr, conns, workerVars>>

LeaseHeld == arena.active /\ arena.run_id = match.run /\ arena.leased

\* Manager.renew, after the replay or when there was nothing to replay.  It
\* refuses a lease that ended and an arena that was closed; the visit then stops
\* the match, as it does one that is closed or has had no peers for long.
Visiting == task.pc = "renew" \/ (Idle /\ ManagerFree /\ match.offset = Len(journal[match.run]))

Renewed ==
    /\ task.pc = "renew"
    /\ match.state = "open"
    /\ LeaseHeld
    /\ task' = NoTask
    /\ UNCHANGED <<vars, ipcVars, match, mgr, conns, workerVars>>

VisitStops ==
    /\ match.state \in {"open", "closed"}
    /\ Visiting
    /\ ~LeaseHeld \/ match.state = "closed" \/ \A s \in Slots : match.peers[s] = NoConn
    /\ match' = Stopping
    /\ task' = NoTask
    /\ UNCHANGED <<vars, ipcVars, mgr, conns, workerVars>>

\* A visit that finds a match another task is stopping waits for the end of it.
VisitEnds ==
    /\ match.state = "stopping"
    /\ task.pc = "renew"
    /\ task' = NoTask
    /\ UNCHANGED <<vars, ipcVars, match, mgr, conns, workerVars>>

\* The engine's end of the socket is closed and its last packets are read.
SocketEof ==
    /\ match.state = "open"
    /\ engine.run # match.run
    /\ acks = <<>>
    /\ match' = Closed
    /\ UNCHANGED <<vars, ipcVars, task, mgr, conns, workerVars>>

\* stop() waits for the process to end before it takes match.lock.
StopBegin ==
    /\ Idle
    /\ match.state = "stopping"
    /\ engine.run # match.run
    /\ task' = Reading([NoTask EXCEPT !.op = "stop", !.next = "release"], match.offset)
    /\ UNCHANGED <<vars, ipcVars, match, mgr, conns, workerVars>>

\* peers is cleared; the connections keep their life.
StopEnds ==
    /\ task.pc = "release"
    /\ StopRun(match.run)
    /\ match' = NoMatch
    /\ task' = NoTask
    /\ UNCHANGED <<ipcVars, mgr, conns, workerVars>>

MatchStep == TickBegin \/ Renewed \/ VisitStops \/ VisitEnds \/ SocketEof \/ StopBegin \/ StopEnds

----------------------------------------------------------------------------
(* Manager.finish_leave while the arena has a match.                        *)

\* Mutant of LeaveFirst: no character is revoked before the refund.
LeaveAtOnce(p) == {}

\* The lives whose admission a leave of p withdraws first.
LeaveFirst(p) == {l \in AliveIn(match.run) : lives[l].player = p}

LeaveBegin(p) ==
    /\ Idle /\ ManagerFree
    /\ match.state = "open"
    /\ participants[p] = "leaving"
    /\ \/ /\ LeaveFirst(p) = {}
          /\ task' = Reading([NoTask EXCEPT !.op = "leave", !.next = "finish", !.player = p],
                             match.offset)
          /\ UNCHANGED toEngine
       \/ \E l \in LeaveFirst(p) :
             Control("revoke", lives[l].slot, NoId,
                     [NoTask EXCEPT !.op = "leave", !.pc = "withdraw", !.next = "finish",
                                    !.player = p])
    /\ UNCHANGED <<vars, engine, journal, acks, match, mgr, conns, workerVars>>

\* Mutant of AfterWithdrawal: the refund is computed before the journal is read.
AfterWithdrawalAtOnce(t) == [t EXCEPT !.pc = "finish"]

AfterWithdrawal(t) == Reading(t, match.offset)

\* The answer follows every death the revoked slot could still journal.
Withdrawn ==
    LET c == match.peers[task.slot]
    IN  /\ task.pc = "withdraw"
        /\ Answered("revoke")
        /\ task' = AfterWithdrawal([task EXCEPT !.wait = "none"])
        /\ match' = [match EXCEPT !.peers[task.slot] = NoConn]
        /\ conns' = IF c = NoConn THEN conns ELSE [conns EXCEPT ![c].life = NoId]
        /\ UNCHANGED <<vars, engine, journal, toEngine, mgr, workerVars>>

LeaveEnds ==
    /\ task.pc = "finish"
    /\ FinishLeave(task.player, match.run)
    /\ task' = NoTask
    /\ UNCHANGED <<ipcVars, match, mgr, conns, workerVars>>

LeaveMatchStep == (\E p \in Players : LeaveBegin(p)) \/ Withdrawn \/ LeaveEnds

----------------------------------------------------------------------------
(* manager.lock without a match: ensure starts one, finish_leave does        *)
(* without.  Both first recover the runs in mgr.todo.                       *)

\* manager.matches is empty.
NoServer == match.run = 0 /\ worker.broken # "match" /\ ManagerFree /\ worker.up

\* Manager.check_available: the arena is not blocked.
Available == worker.broken # "arena"

RunningRuns == {r \in RunIds : runs[r].status = "running"}

\* The admit message of a player with lives left.  ensure returns the match there
\* is, or leases the arena for a new run.
EnsureBegin(c) ==
    /\ conns[c].phase = "open"
    /\ \E e \in EntriesOf(Owner[c]) : Funded(e)
    /\ ManagerFree
    /\ Available
    /\ \/ /\ match.state = "open"
          /\ conns' = [conns EXCEPT ![c].phase = "attaching", ![c].run = match.run]
          /\ UNCHANGED <<vars, mgr>>
       \/ /\ NoServer
          /\ \E r \in RunIds : LeaseArena(r)
          /\ mgr' = [NoMgr EXCEPT !.op = "ensure", !.pc = "next", !.conn = c, !.todo = RunningRuns]
          /\ conns' = [conns EXCEPT ![c].phase = "ensuring"]
    /\ UNCHANGED <<ipcVars, match, task, workerVars>>

\* Mutant of RunsOf: a leave recovers no run.
RunsOfNone(p) == {}

\* A leave waits for the lease of a run it would have to recover; it asks whether
\* the arena is available before it waits for manager.lock.
RunsOf(p) == {r \in RunningRuns : \E l \in LifeIds : lives[l].player = p /\ lives[l].run = r}

LeaveWithoutMatch(p) ==
    /\ NoServer
    /\ participants[p] = "leaving"
    /\ Available \/ p \in worker.waiting
    /\ RunsOf(p) = {} \/ ~arena.leased
    /\ mgr' = [NoMgr EXCEPT !.op = "leave", !.pc = "next", !.player = p, !.todo = RunsOf(p)]
    /\ UNCHANGED <<vars, ipcVars, match, task, conns, workerVars>>

\* The manager reads a batch of the run it recovers.
MgrReading(m) ==
    LET size == Len(journal[m.run])
    IN  IF m.offset = size
        THEN [m EXCEPT !.pc = "release", !.until = 0]
        ELSE [m EXCEPT !.pc = "apply", !.until = Least(size, m.offset + BatchSize)]

\* Recovery reads a journal from its first line.
RecoverNext(r) ==
    /\ mgr.pc = "next"
    /\ r \in mgr.todo
    /\ r \in touched
    /\ mgr' = MgrReading([mgr EXCEPT !.run = r])
    /\ UNCHANGED <<vars, ipcVars, match, task, conns, workerVars>>

\* "Missing game journal; admissions are stopped."  The lease has been taken.
JournalMissing(r) ==
    /\ mgr.pc = "next"
    /\ r \in mgr.todo \ touched
    /\ mgr' = NoMgr
    /\ conns' = [conns EXCEPT ![mgr.conn].phase = "open"]
    /\ UNCHANGED <<vars, ipcVars, match, task, workerVars>>

\* Mutant of BatchEnd: a recovered run is read once.
BatchEndOnce(m) == [m EXCEPT !.pc = "release", !.until = 0]

BatchEnd(m) == MgrReading(m)

RecoverApply ==
    LET m == [mgr EXCEPT !.offset = @ + 1]
    IN  /\ mgr.pc = "apply"
        /\ ApplyLine(mgr.run, m.offset)
        /\ mgr' = IF m.offset = m.until THEN BatchEnd(m) ELSE m
        /\ UNCHANGED <<ipcVars, match, task, conns, workerVars>>

Recovered ==
    /\ mgr.pc = "release"
    /\ RecoverRun(mgr.run)
    /\ mgr' = [mgr EXCEPT !.pc = "next", !.todo = @ \ {mgr.run}, !.run = 0, !.offset = 0]
    /\ UNCHANGED <<ipcVars, match, task, conns, workerVars>>

\* The run row comes first, the journal file and the process later.
InsertRun ==
    /\ mgr.op = "ensure" /\ mgr.pc = "next" /\ mgr.todo = {}
    /\ StartRun(arena.run_id)
    /\ mgr' = [mgr EXCEPT !.pc = "start"]
    /\ UNCHANGED <<ipcVars, match, task, conns, workerVars>>

StartMatch ==
    LET r == arena.run_id
    IN  /\ mgr.pc = "start"
        /\ EngineStarts(r)
        /\ touched' = touched \cup {r}
        /\ match' = [NoMatch EXCEPT !.run = r, !.state = "open"]
        /\ conns' = [conns EXCEPT ![mgr.conn].phase = "attaching", ![mgr.conn].run = r]
        /\ mgr' = NoMgr
        /\ UNCHANGED <<vars, task, worker>>

\* start() fails; stop() ends the run when there is a journal to drain.  Without
\* one stop() raises as well: the match stays, closed, and its run is running.
StartFails ==
    LET r == arena.run_id
    IN  /\ mgr.pc = "start"
        /\ \/ /\ StopRun(r)
              /\ touched' = touched \cup {r}
              /\ UNCHANGED worker
           \/ /\ worker' = [worker EXCEPT !.broken = "match"]
              /\ UNCHANGED <<vars, touched>>
        /\ conns' = [conns EXCEPT ![mgr.conn].phase = "open"]
        /\ mgr' = NoMgr
        /\ UNCHANGED <<ipcVars, match, task>>

\* Neither the replay nor stop() of the next visit finds a journal: the arena is
\* blocked until the worker restarts, except for the leaves already waiting.
VisitBlocks ==
    /\ worker.broken = "match"
    /\ ManagerFree
    /\ \E waiting \in SUBSET {p \in Players : participants[p] = "leaving"} :
          worker' = [worker EXCEPT !.broken = "arena", !.waiting = waiting]
    /\ UNCHANGED <<vars, ipcVars, match, task, mgr, conns, touched>>

\* An ensure before that visit pops the closed match, and fails when it stops it.
EnsureDrops(c) ==
    /\ worker.broken = "match"
    /\ ManagerFree
    /\ conns[c].phase = "open"
    /\ \E e \in EntriesOf(Owner[c]) : Funded(e)
    /\ worker' = [worker EXCEPT !.broken = "none"]
    /\ UNCHANGED <<vars, ipcVars, match, task, mgr, conns, touched>>

UnstartedStep == VisitBlocks \/ \E c \in Conns : EnsureDrops(c)

LeaveRecovered ==
    /\ mgr.op = "leave" /\ mgr.pc = "next" /\ mgr.todo = {}
    /\ FinishLeave(mgr.player, NoId)
    /\ mgr' = NoMgr
    /\ UNCHANGED <<ipcVars, match, task, conns, workerVars>>

RecoveryStep ==
    \/ \E r \in RunIds : RecoverNext(r) \/ JournalMissing(r)
    \/ RecoverApply \/ Recovered
    \/ InsertRun \/ StartMatch \/ StartFails \/ LeaveRecovered

----------------------------------------------------------------------------
(* The websockets of views.py, the worker and the engine as processes.      *)

Connect(c) ==
    /\ worker.up
    /\ conns[c].phase = "closed"
    /\ conns' = [conns EXCEPT ![c].phase = "open"]
    /\ UNCHANGED <<vars, ipcVars, match, task, mgr, workerVars>>

(***************************************************************************)
(* The worker process dies; the engine finds its socket hung up.  A new    *)
(* worker needs worker.lock, which the engine inherited.                   *)
(***************************************************************************)
Crash ==
    /\ worker.up
    /\ worker.crashes < MaxCrashes
    /\ worker' = [up |-> FALSE, crashes |-> worker.crashes + 1, broken |-> "none", waiting |-> {}]
    /\ match' = NoMatch
    /\ task' = NoTask
    /\ mgr' = NoMgr
    /\ conns' = [c \in Conns |-> NoSeat]
    /\ acks' = <<>>
    /\ UNCHANGED <<vars, engine, journal, toEngine, touched>>

\* Mutant of LockFree: the engine does not hold worker.lock.
LockFreeAlways == TRUE

LockFree == ~Running

Restart ==
    /\ ~worker.up
    /\ LockFree
    /\ worker' = [worker EXCEPT !.up = TRUE]
    /\ UNCHANGED <<vars, ipcVars, match, task, mgr, conns, touched>>

\* The requests of players and of the creator, and the clock.
LedgerStep ==
    /\ \/ worker.up /\ "closure" \in Faults /\ CloseGame
       \/ worker.up /\ Available /\ \E p \in Players : RequestLeave(p)
       \/ (match.run = 0 \/ "lease ends" \in Faults) /\ LeaseExpires
    /\ UNCHANGED <<ipcVars, serverVars>>

\* An engine without a server ends by itself or is terminated by stop().
EngineTerminates ==
    /\ match.state # "open"
    /\ EngineExits
    /\ UNCHANGED <<vars, serverVars>>

EngineCrashes ==
    /\ "engine exits" \in Faults
    /\ match.state = "open"
    /\ EngineExits
    /\ UNCHANGED <<vars, serverVars>>

TaskStep == OperationFails \/ ReplayStep \/ AttachStep \/ DetachStep \/ LeaveMatchStep

GameNext ==
    \/ EngineStep /\ UNCHANGED <<vars, serverVars>>
    \/ EngineTerminates \/ EngineCrashes
    \/ DropAck
    \/ TaskStep
    \/ MatchStep
    \/ (\E c \in Conns : EnsureBegin(c))
    \/ (\E p \in Players : LeaveWithoutMatch(p))
    \/ RecoveryStep
    \/ UnstartedStep
    \/ (\E c \in Conns : Connect(c))
    \/ Crash \/ Restart
    \/ LedgerStep

GameSpec == GameInit /\ [][GameNext]_gameVars
=============================================================================
