---------------------------- MODULE GameSeatProofs ----------------------------
(***************************************************************************)
(* Proofs about the seats of a match: who sits, keeps the seat while the   *)
(* life lasts, and loses the life with the connection.  The first finding  *)
(* of the README is the only exception, so the theorems say what happens   *)
(* as long as it does not (StaleRevoke).                                   *)
(***************************************************************************)
EXTENDS GameOrphanProofs

\* A connection is admitted while it still names a life of an earlier run, and the
\* slot it had then belongs to another connection now.
StaleRevoke == /\ RevokeFormerLife
               /\ match.peers[conns[task.conn].slot] \notin {NoConn, task.conn}

\* All connections are tabs of one session.
OneSession == \A c, d \in Conns : Owner[c] = Owner[d]

\* Nobody has two tabs.
OneTabEach == \A c, d \in Conns : Owner[c] = Owner[d] => c = d

----------------------------------------------------------------------------
(* Who has a seat.                                                          *)

LifeOf(c) == lives[conns[c].life]

\* A connection names a life of its player.
OwnLife ==
    \A c \in Conns : conns[c].life # NoId =>
        LifeOf(c).player = Owner[c] /\ LifeOf(c).status # "none"

\* A seat stands for a life of this run on that slot, which was not released.
SeatedRow ==
    \A c \in Conns : Seated(c) =>
        /\ LifeOf(c).run = match.run
        /\ LifeOf(c).slot = conns[c].slot
        /\ LifeOf(c).status # "left"

\* The attach revokes or has revoked the former life of its connection.
Popping == /\ task.op = "attach"
           /\ \/ task.pc = "pop"
              \/ task.pc = "tabs" /\ task.wait # "none"
              \/ task.pc = "apply" /\ task.next = "pop"

\* That life is over, no other tab has a seat, and nobody else has that slot.
PoppingRow ==
    Popping =>
        /\ ~OtherTab(task.conn)
        /\ match.peers[conns[task.conn].slot] \in {NoConn, task.conn}
        /\ conns[task.conn].life # NoId => LifeOf(task.conn).status # "alive"

\* The attach under way admits a life of this run, for a player without another tab.
AdmittingRow ==
    task.pc = "admit" =>
        /\ lives[task.life].status = "alive"
        /\ lives[task.life].run = match.run
        /\ lives[task.life].slot = task.slot
        /\ lives[task.life].player = Owner[task.conn]
        /\ ~OtherTab(task.conn)

\* The detach under way has nobody else's slot.
DetachingRow ==
    task.op = "detach" => match.peers[conns[task.conn].slot] \in {NoConn, task.conn}

SeatInv == OwnLife /\ SeatedRow /\ PoppingRow /\ AdmittingRow /\ DetachingRow

----------------------------------------------------------------------------
(* What happens to the rows of lives.                                       *)

\* The life l keeps its row, and is not called back.
Rests(l) ==
    /\ lives'[l].player = lives[l].player
    /\ lives'[l].run = lives[l].run
    /\ lives'[l].slot = lives[l].slot
    /\ lives'[l].status = "alive" => lives[l].status = "alive"
    /\ lives'[l].status = "none" => lives[l].status = "none"

\* A transaction other than allocate_life calls no life back.
LEMMA TablesRest ==
  ASSUME GInv, QuietTables \/ LineTables \/ LeaveTables \/ EndTables, NEW l \in LifeIds
  PROVE  Rests(l)
  <1>0. IInv /\ EngineTyped
    BY DEF GInv
  <1>1. CASE QuietTables
    BY <1>1 DEF QuietTables, Rests
  <1>2. CASE LineTables
    <2>1. PICK q \in RunIds :
             /\ NextOf(q) \in 1 .. Len(journal[q])
             /\ \/ ConsumeDeath(q, journal[q][NextOf(q)].victim, journal[q][NextOf(q)].killer)
                \/ SkipDeath(q, journal[q][NextOf(q)].victim)
      BY <1>2 DEF LineTables
    <2>2. PICK w \in LifeIds, k \in LifeIds \cup {NoId} : ConsumeDeath(q, w, k) \/ SkipDeath(q, w)
      <3>1. journal[q][NextOf(q)] \in Line
        BY <1>0, <2>1, LineTyped
      <3> QED
        BY <2>1, <3>1 DEF Line
    <2>3. CASE SkipDeath(q, w)
      BY <2>3 DEF SkipDeath, Rests
    <2>4. CASE ConsumeDeath(q, w, k)
      BY <1>0, <2>4, KillRows DEF Rests
    <2> QED
      BY <2>2, <2>3, <2>4
  <1>3. CASE LeaveTables
    <2>1. CASE task.pc = "finish" /\ match.run \in RunIds /\ FinishLeave(task.player, match.run)
      <3>1. task.player \in Players
        BY <2>1, TaskOps DEF GInv, LeaveShape
      <3> QED
        BY <1>0, <2>1, <3>1, RefundRows DEF Rests
    <2>2. CASE engine.run = 0 /\ \E p \in Players : FinishLeave(p, NoId)
      BY <1>0, <2>2, RefundRows DEF Rests
    <2> QED
      BY <1>3, <2>1, <2>2 DEF LeaveTables
  <1>4. CASE EndTables
    <2>1. PICK q \in RunIds : ReleaseLives(q)
      BY <1>4 DEF EndTables, StopRun, RecoverRun
    <2> QED
      BY <1>0, <2>1, ReleaseRows DEF Rests
  <1> QED
    BY <1>1, <1>2, <1>3, <1>4

\* Neither does a step of the arena.
LEMMA RowsRest ==
  ASSUME GInv, [GameNext]_gameVars, ~Allocate, NEW l \in LifeIds
  PROVE  Rests(l)
  <1>0. UNCHANGED lives => Rests(l)
    BY DEF Rests
  <1>1. CASE ApplyEvent
    <2>1. task.pc = "apply" /\ task.wait = "none" /\ ApplyLine(match.run, match.offset + 1)
      BY <1>1 DEF ApplyEvent
    <2>2. match.run \in RunIds /\ match.offset + 1 \in 1 .. Len(journal[match.run])
      BY <2>1, TaskOps, TaskMatch, NextLine
    <2> QED
      BY <2>1, <2>2, LineKind, TablesRest
  <1>2. CASE LeaveEnds
    <2>1. match.run \in RunIds
      BY <1>2, TaskOps, TaskMatch DEF LeaveEnds
    <2> QED
      BY <1>2, <2>1, TablesRest DEF LeaveEnds, LeaveTables
  <1>3. CASE RecoveryStep
    BY <1>3, MgrTables, TablesRest
  <1>4. CASE StopEnds
    <2>1. match.run \in RunIds /\ ReleaseLives(match.run)
      BY <1>4, TaskOps, TaskMatch DEF StopEnds, StopRun
    <2> QED
      BY <2>1, ReleaseRows DEF GInv, Rests
  <1>5. CASE \/ OperationFails \/ DeadPeerRevoked
             \/ (\E c \in Conns : AttachBegin(c)) \/ NothingToAttach \/ RevokeFormerLife
             \/ FormerLifeRevoked \/ CannotAllocate \/ Admitted
    <2>1. UNCHANGED vars
      BY <1>5 DEF OperationFails, DeadPeerRevoked, AttachBegin, NothingToAttach, RevokeFormerLife,
                  FormerLifeRevoked, CannotAllocate, Admitted
    <2> QED
      BY <1>0, <2>1 DEF vars
  <1>6. CASE DetachStep \/ (\E p \in Players : LeaveBegin(p)) \/ Withdrawn
    <2>1. UNCHANGED vars
      BY <1>6 DEF DetachStep, Disconnect, DetachBegin, Detached, Gone, LeaveBegin, Withdrawn
    <2> QED
      BY <1>0, <2>1 DEF vars
  <1>7. CASE TickBegin \/ Renewed \/ VisitStops \/ VisitEnds \/ SocketEof \/ StopBegin
    <2>1. UNCHANGED vars
      BY <1>7 DEF TickBegin, Renewed, VisitStops, VisitEnds, SocketEof, StopBegin
    <2> QED
      BY <1>0, <2>1 DEF vars
  <1>8. CASE (\E c \in Conns : EnsureBegin(c)) \/ LedgerStep
    <2>1. UNCHANGED lives
      BY <1>8 DEF EnsureBegin, LeaseArena, LedgerStep, CloseGame, RequestLeave, LeaseExpires, vars
    <2> QED
      BY <1>0, <2>1
  <1>9. CASE \/ EngineStep /\ UNCHANGED <<vars, serverVars>>
             \/ EngineTerminates \/ EngineCrashes
             \/ DropAck \/ Crash \/ Restart \/ UnstartedStep
             \/ (\E p \in Players : LeaveWithoutMatch(p))
             \/ (\E c \in Conns : Connect(c))
             \/ UNCHANGED gameVars
    <2>1. UNCHANGED vars
      BY <1>9 DEF EngineTerminates, EngineCrashes, DropAck, Crash, Restart,
                  UnstartedStep, VisitBlocks, EnsureDrops, LeaveWithoutMatch,
                  Connect, gameVars
    <2> QED
      BY <1>0, <2>1 DEF vars
  <1> QED
    BY <1>1, <1>2, <1>3, <1>4, <1>5, <1>6, <1>7, <1>8, <1>9
       DEF GameNext, TaskStep, ReplayStep, AttachStep, LeaveMatchStep, MatchStep

\* While a match goes on, a life that was admitted to it stays where it is, is not
\* released, and once over is not called back.
LEMMA AdmittedRests ==
  ASSUME GInv, GInv', [GameNext]_gameVars, match.run # 0, match'.run = match.run,
         NEW l \in LifeIds, lives[l].run = match.run, lives[l].status \notin {"none", "left"}
  PROVE  Rests(l) /\ lives'[l].status # "left"
  <1>0. IInv /\ EngineTyped /\ match.run \in RunIds
    BY TaskMatch DEF GInv
  <1>1. CASE QuietTables
    BY <1>1 DEF QuietTables, Rests
  <1>2. CASE SeatTables
    <2>1. PICK p \in Players, m \in LifeIds, s \in Slots : SeatGiven(p, match.run, m, s)
      BY <1>2 DEF SeatTables
    <2>2. l # m
      BY <2>1 DEF SeatGiven, ResumeLife, NewLife, NextRow, Current, UsableOf, UsableStatus
    <2> QED
      BY <1>0, <2>1, <2>2, SeatTaken DEF Rests
  <1>3. CASE LineTables
    <2>1. PICK q \in RunIds :
             /\ NextOf(q) \in 1 .. Len(journal[q])
             /\ \/ ConsumeDeath(q, journal[q][NextOf(q)].victim, journal[q][NextOf(q)].killer)
                \/ SkipDeath(q, journal[q][NextOf(q)].victim)
      BY <1>3 DEF LineTables
    <2>2. PICK w \in LifeIds, k \in LifeIds \cup {NoId} : ConsumeDeath(q, w, k) \/ SkipDeath(q, w)
      <3>1. journal[q][NextOf(q)] \in Line
        BY <1>0, <2>1, LineTyped
      <3> QED
        BY <2>1, <3>1 DEF Line
    <2>3. CASE SkipDeath(q, w)
      BY <2>3 DEF SkipDeath, Rests
    <2>4. CASE ConsumeDeath(q, w, k)
      BY <1>0, <2>4, KillRows DEF Rests
    <2> QED
      BY <2>2, <2>3, <2>4
  <1>4. CASE LeaveTables
    <2>1. PICK p \in Players, q \in RunIds \cup {NoId} : FinishLeave(p, q)
      <3>1. task.pc = "finish" => task.player \in Players
        BY TaskOps DEF GInv, LeaveShape
      <3> QED
        BY <1>4, <3>1 DEF LeaveTables
    <2> QED
      BY <1>0, <2>1, RefundRows DEF Rests
  <1>5. CASE EndTables
    <2>1. PICK q \in RunIds : ReleaseLives(q) /\ (StopRun(q) \/ RecoverRun(q))
      BY <1>5 DEF EndTables, StopRun, RecoverRun
    <2>2. runs'[q].status # "running"
      <3>1. runs \in [RunIds -> Run]
        BY RunsTyped
      <3> QED
        BY <2>1, <3>1 DEF StopRun, RecoverRun, Run
    <2>3. q # match.run
      BY <2>2 DEF GInv, MatchShape
    <2> QED
      BY <1>0, <2>1, <2>3, ReleaseRows DEF Rests
  <1> QED
    BY <1>1, <1>2, <1>3, <1>4, <1>5, StepTables

\* A life in use stays in use, with its player.
LEMMA PlayerKept ==
  ASSUME GInv, [GameNext]_gameVars, NEW l \in LifeIds, lives[l].status # "none"
  PROVE  lives'[l].player = lives[l].player /\ lives'[l].status # "none"
  <1>1. CASE ~SeatTables
    BY <1>1, StepTables, TablesRest DEF Rests
  <1>2. CASE SeatTables
    <2>1. match.run \in RunIds
      BY <1>2 DEF SeatTables
    <2>2. PICK p \in Players, m \in LifeIds, s \in Slots : SeatGiven(p, match.run, m, s)
      BY <1>2 DEF SeatTables
    <2> QED
      BY <2>1, <2>2, SeatTaken DEF GInv
  <1> QED
    BY <1>1, <1>2

----------------------------------------------------------------------------
(* What happens to the seats.                                               *)

\* Seats are given up, never taken: a match ends, a peer forgets its life, or an
\* operation empties the slot of its connection.
Loosens ==
    /\ match'.run # match.run => match'.run = 0 \/ match.run = 0
    /\ \A s \in Slots :
          \/ match'.peers[s] = match.peers[s]
          \/ /\ match'.peers[s] = NoConn
             /\ \/ match'.run # match.run
                \/ match.peers[s] # NoConn /\ conns'[match.peers[s]].life = NoId
                \/ /\ s = conns[task.conn].slot
                   /\ \/ task.pc = "pop"
                      \/ task.pc = "gone" /\ conns'[task.conn].life = NoId
    /\ \A c \in Conns : conns'[c].life # NoId =>
          conns'[c].life = conns[c].life /\ conns'[c].slot = conns[c].slot
    /\ task'.op # "none" => \A c \in Conns : conns'[c].slot = conns[c].slot

\* No seat is touched.
LEMMA SeatsAlone ==
  ASSUME match'.run = match.run, match'.peers = match.peers,
         \A c \in Conns : conns'[c].life = conns[c].life /\ conns'[c].slot = conns[c].slot
  PROVE  Loosens
  BY DEF Loosens

\* A connection that goes, or whose operation fails, gives up what it has.
LEMMA ConnGoes ==
  ASSUME GInv, match'.run = match.run, match'.peers = match.peers, task'.op = "none",
         NEW c \in Conns, conns' = [conns EXCEPT ![c] = NoSeat]
  PROVE  Loosens
  <1>1. conns \in [Conns -> SeatRecord]
    BY DEF GInv, ServerTyped
  <1> QED
    BY <1>1 DEF Loosens, NoSeat

\* A peer forgets its life.
LEMMA PeerForgets ==
  ASSUME GInv, NEW s \in Slots, match.peers[s] # NoConn, match'.run = match.run,
         match'.peers = [match.peers EXCEPT ![s] = NoConn],
         conns' = [conns EXCEPT ![match.peers[s]].life = NoId]
  PROVE  Loosens
  <1>1. conns \in [Conns -> SeatRecord] /\ match \in MatchRecord
    BY DEF GInv, ServerTyped
  <1>2. match.peers \in [Slots -> Conns \cup {NoConn}]
    BY <1>1 DEF MatchRecord
  <1>3. match.peers[s] \in Conns
    BY <1>2
  <1>4. conns'[match.peers[s]].life = NoId
    BY <1>1, <1>3 DEF SeatRecord
  <1>5. \A t \in Slots : match'.peers[t] = IF t = s THEN NoConn ELSE match.peers[t]
    BY <1>2
  <1>6. \A c \in Conns : /\ conns'[c].slot = conns[c].slot
                         /\ conns'[c].life # NoId => conns'[c].life = conns[c].life
    BY <1>1, <1>3 DEF SeatRecord
  <1> QED
    BY <1>4, <1>5, <1>6 DEF Loosens

\* A match that ends or begins has no seats.
LEMMA MatchTurns ==
  ASSUME GInv, match'.run = 0 \/ match.run = 0, task'.op = "none",
         \A s \in Slots : match'.peers[s] = NoConn,
         \A c \in Conns : conns'[c].life # NoId =>
            conns'[c].life = conns[c].life /\ conns'[c].slot = conns[c].slot
  PROVE  Loosens
  <1>1. match.run = 0 => \A s \in Slots : match.peers[s] = NoConn
    BY DEF GInv, MatchShape
  <1> QED
    BY <1>1 DEF Loosens

\* The steps that touch a seat.
LEMMA ReplayLoosens ==
  ASSUME GInv, ApplyEvent \/ DeadPeerRevoked
  PROVE  Loosens
  <1>0. match \in MatchRecord /\ conns \in [Conns -> SeatRecord] /\ task \in TaskRecord
    BY DEF GInv, ServerTyped
  <1>1. CASE ApplyEvent
    <2>1. CASE UNCHANGED conns /\ match' = [match EXCEPT !.offset = match.offset + 1]
      <3>1. match'.run = match.run /\ match'.peers = match.peers
        BY <1>0, <2>1 DEF MatchRecord
      <3> QED
        BY <2>1, <3>1, SeatsAlone
    <2>2. CASE \E s \in Seats :
                  /\ match' = [match EXCEPT !.offset = match.offset + 1, !.peers[s] = NoConn]
                  /\ conns' = [conns EXCEPT ![match.peers[s]].life = NoId]
      <3>1. PICK s \in Seats :
               /\ match' = [match EXCEPT !.offset = match.offset + 1, !.peers[s] = NoConn]
               /\ conns' = [conns EXCEPT ![match.peers[s]].life = NoId]
        BY <2>2
      <3>2. s \in Slots /\ match.peers[s] # NoConn
        BY DEF Seats
      <3>3. match'.run = match.run /\ match'.peers = [match.peers EXCEPT ![s] = NoConn]
        BY <1>0, <3>1 DEF MatchRecord
      <3> QED
        BY <3>1, <3>2, <3>3, PeerForgets
    <2> QED
      BY <1>1, <2>1, <2>2 DEF ApplyEvent
  <1>2. CASE DeadPeerRevoked
    <2>1. /\ match' = [match EXCEPT !.peers[task.slot] = NoConn]
          /\ conns' = [conns EXCEPT ![match.peers[task.slot]].life = NoId]
          /\ task.wait = "revoke"
      BY <1>2 DEF DeadPeerRevoked, Answered
    <2>2. task.slot \in Slots
      BY <2>1 DEF GInv, TaskShape, Kinds
    <2>3. match'.run = match.run /\ match'.peers = [match.peers EXCEPT ![task.slot] = NoConn]
      BY <1>0, <2>1 DEF MatchRecord
    <2>4. CASE match.peers[task.slot] # NoConn
      BY <2>1, <2>2, <2>3, <2>4, PeerForgets
    <2>5. CASE match.peers[task.slot] = NoConn
      <3>1. match'.peers = match.peers
        BY <1>0, <2>2, <2>3, <2>5 DEF MatchRecord
      <3>2. conns' = conns
        BY <1>0, <2>1, <2>5, GameBounds
      <3> QED
        BY <2>3, <3>1, <3>2, SeatsAlone
    <2> QED
      BY <2>4, <2>5
  <1> QED
    BY <1>1, <1>2

LEMMA WithdrawnLoosens ==
  ASSUME GInv, Withdrawn
  PROVE  Loosens
  <1>0. match \in MatchRecord
    BY DEF GInv, ServerTyped
  <1>1. /\ match' = [match EXCEPT !.peers[task.slot] = NoConn]
        /\ conns' = IF match.peers[task.slot] = NoConn THEN conns
                    ELSE [conns EXCEPT ![match.peers[task.slot]].life = NoId]
        /\ task.wait = "revoke"
    BY DEF Withdrawn, Answered
  <1>2. task.slot \in Slots
    BY <1>1 DEF GInv, TaskShape, Kinds
  <1>3. match'.run = match.run /\ match'.peers = [match.peers EXCEPT ![task.slot] = NoConn]
    BY <1>0, <1>1 DEF MatchRecord
  <1>4. CASE match.peers[task.slot] # NoConn
    BY <1>1, <1>2, <1>3, <1>4, PeerForgets
  <1>5. CASE match.peers[task.slot] = NoConn
    <2>1. match'.peers = match.peers
      BY <1>0, <1>2, <1>3, <1>5 DEF MatchRecord
    <2> QED
      BY <1>1, <1>3, <1>5, <2>1, SeatsAlone
  <1> QED
    BY <1>4, <1>5

LEMMA GoneLoosens ==
  ASSUME GInv, Gone
  PROVE  Loosens
  <1>0. match \in MatchRecord /\ conns \in [Conns -> SeatRecord]
    BY DEF GInv, ServerTyped
  <1>1. /\ task.pc = "gone"
        /\ match' = [match EXCEPT !.peers[conns[task.conn].slot] = NoConn]
        /\ conns' = [conns EXCEPT ![task.conn] = NoSeat]
        /\ task' = NoTask
    BY DEF Gone
  <1>2. task.conn \in Conns
    BY <1>1, TaskOps DEF GInv, TaskShape, DetachShape
  <1>3. conns'[task.conn].life = NoId
    BY <1>0, <1>1, <1>2 DEF NoSeat
  <1>4. \A c \in Conns : conns'[c].life # NoId => conns'[c] = conns[c]
    BY <1>0, <1>1, <1>3
  <1>5. match'.run = match.run
    BY <1>0, <1>1 DEF MatchRecord
  <1>6. \A s \in Slots : match'.peers[s] = IF s = conns[task.conn].slot THEN NoConn
                                           ELSE match.peers[s]
    BY <1>0, <1>1 DEF MatchRecord
  <1>7. task'.op = "none"
    BY <1>1, TaskDone
  <1> QED
    BY <1>1, <1>3, <1>4, <1>5, <1>6, <1>7 DEF Loosens

LEMMA PopLoosens ==
  ASSUME GInv, Allocating, \A c \in Conns : conns'[c].life = conns[c].life
                                             /\ conns'[c].slot = conns[c].slot
  PROVE  Loosens
  <1>0. match \in MatchRecord
    BY DEF GInv, ServerTyped
  <1>1. CASE UNCHANGED match
    BY <1>1, SeatsAlone
  <1>2. CASE task.pc = "pop" /\ match' = [match EXCEPT !.peers[conns[task.conn].slot] = NoConn]
    <2>1. match'.run = match.run
      BY <1>0, <1>2 DEF MatchRecord
    <2>2. \A s \in Slots : match'.peers[s] = IF s = conns[task.conn].slot THEN NoConn
                                             ELSE match.peers[s]
      BY <1>0, <1>2 DEF MatchRecord
    <2> QED
      BY <1>2, <2>1, <2>2 DEF Loosens
  <1> QED
    BY <1>1, <1>2 DEF Allocating

\* Only an admission takes a seat.
LEMMA SeatMoves ==
  ASSUME GInv, [GameNext]_gameVars, ~Admitted
  PROVE  Loosens
  <1>0. match \in MatchRecord /\ conns \in [Conns -> SeatRecord]
    BY DEF GInv, ServerTyped
  <1>1. UNCHANGED <<match, conns>> => Loosens
    BY SeatsAlone
  <1>2. CASE OperationFails
    <2>1. match'.run = match.run /\ match'.peers = match.peers
      BY <1>0, <1>2 DEF OperationFails, Stopping, Closed, MatchRecord
    <2>2. task' = NoTask /\ task.op # "none"
      BY <1>2, TaskOps DEF OperationFails
    <2>3. CASE task.op = "attach"
      <3>1. task.conn \in Conns /\ conns' = [conns EXCEPT ![task.conn].phase = "open"]
        BY <1>2, <2>3 DEF OperationFails, GInv, TaskShape, AttachShape
      <3> QED
        BY <2>1, <3>1, PhaseOnly, SeatsAlone
    <2>4. CASE task.op = "detach"
      <3>1. task.conn \in Conns /\ conns' = [conns EXCEPT ![task.conn] = NoSeat]
        BY <1>2, <2>4 DEF OperationFails, GInv, TaskShape, DetachShape
      <3> QED
        BY <2>1, <2>2, <3>1, TaskDone, ConnGoes
    <2>5. CASE task.op \notin {"attach", "detach"}
      <3>1. UNCHANGED conns
        BY <1>2, <2>5 DEF OperationFails
      <3> QED
        BY <2>1, <3>1, SeatsAlone
    <2> QED
      BY <2>3, <2>4, <2>5
  <1>3. CASE ApplyEvent \/ DeadPeerRevoked
    BY <1>3, ReplayLoosens
  <1>4. CASE Withdrawn
    BY <1>4, WithdrawnLoosens
  <1>5. CASE Gone
    BY <1>5, GoneLoosens
  <1>6. CASE Allocate
    BY <1>6, PopLoosens DEF Allocate
  <1>7. CASE NothingToAttach \/ CannotAllocate
    <2>1. task.conn \in Conns
      BY <1>7, TaskOps DEF NothingToAttach, CannotAllocate, Allocating, GInv, TaskShape, AttachShape
    <2>2. \A d \in Conns : conns'[d].life = conns[d].life /\ conns'[d].slot = conns[d].slot
      BY <1>7, <2>1, PhaseOnly DEF NothingToAttach, CannotAllocate, AttachEnds
    <2> QED
      BY <1>7, <2>2, SeatsAlone, PopLoosens DEF NothingToAttach, CannotAllocate
  <1>8. CASE \/ \E c \in Conns : AttachBegin(c) \/ EnsureBegin(c) \/ Connect(c)
             \/ \E r \in RunIds : JournalMissing(r)
             \/ StartFails
    <2>1. UNCHANGED match
      BY <1>8 DEF AttachBegin, EnsureBegin, Connect, JournalMissing, StartFails
    <2>2. \/ UNCHANGED conns
          \/ \E c \in Conns : \E ph, r : \/ conns' = [conns EXCEPT ![c].phase = ph]
                                            \/ conns' = [conns EXCEPT ![c].phase = ph, ![c].run = r]
      <3>1. CASE \E c \in Conns : AttachBegin(c) \/ EnsureBegin(c) \/ Connect(c)
        BY <3>1 DEF AttachBegin, EnsureBegin, Connect
      <3>2. CASE StartFails
        BY <3>2, Starting DEF StartFails
      <3>3. CASE \E r \in RunIds : JournalMissing(r)
        <4>1. conns' = [conns EXCEPT ![mgr.conn].phase = "open"]
          BY <3>3 DEF JournalMissing
        <4>2. CASE mgr.conn \in Conns
          BY <4>1, <4>2
        <4>3. CASE mgr.conn \notin Conns
          BY <1>0, <4>1, <4>3
        <4> QED
          BY <4>2, <4>3
      <3> QED
        BY <1>8, <3>1, <3>2, <3>3
    <2>3. \A d \in Conns : conns'[d].life = conns[d].life /\ conns'[d].slot = conns[d].slot
      BY <2>2, PhaseOnly
    <2> QED
      BY <2>1, <2>3, SeatsAlone
  <1>9. CASE \E c \in Conns : Disconnect(c)
    <2>1. PICK c \in Conns : Disconnect(c)
      BY <1>9
    <2>2. /\ conns' = [conns EXCEPT ![c] = NoSeat] /\ UNCHANGED <<match, task>>
          /\ task.op = "none"
      BY <2>1 DEF Disconnect, Idle
    <2> QED
      BY <2>2, ConnGoes
  <1>10. CASE Crash
    <2>1. match' = NoMatch /\ task' = NoTask /\ conns' = [c \in Conns |-> NoSeat]
      BY <1>10 DEF Crash
    <2>2. \A c \in Conns : conns'[c].life = NoId
      BY <2>1 DEF NoSeat
    <2>3. match'.run = 0 /\ \A s \in Slots : match'.peers[s] = NoConn
      BY <2>1 DEF NoMatch
    <2> QED
      BY <2>1, <2>2, <2>3, TaskDone, MatchTurns
  <1>11. CASE StopEnds
    <2>1. match' = NoMatch /\ task' = NoTask /\ UNCHANGED conns
      BY <1>11 DEF StopEnds
    <2>2. match'.run = 0 /\ \A s \in Slots : match'.peers[s] = NoConn
      BY <2>1 DEF NoMatch
    <2> QED
      BY <2>1, <2>2, TaskDone, MatchTurns
  <1>12. CASE StartMatch
    <2>1. /\ mgr.pc = "start" /\ UNCHANGED task
          /\ match' = [NoMatch EXCEPT !.run = arena.run_id, !.state = "open"]
          /\ conns' = [conns EXCEPT ![mgr.conn].phase = "attaching", ![mgr.conn].run = arena.run_id]
      BY <1>12 DEF StartMatch
    <2>2. match.run = 0 /\ task'.op = "none" /\ mgr.conn \in Conns
      BY <2>1, MgrAlone, Starting
    <2>3. \A s \in Slots : match'.peers[s] = NoConn
      BY <2>1 DEF NoMatch
    <2>4. \A d \in Conns : conns'[d].life = conns[d].life /\ conns'[d].slot = conns[d].slot
      BY <2>1, <2>2, PhaseOnly
    <2> QED
      BY <2>2, <2>3, <2>4, MatchTurns
  <1>13. CASE VisitStops \/ SocketEof
    <2>1. match'.run = match.run /\ match'.peers = match.peers /\ UNCHANGED conns
      BY <1>0, <1>13 DEF VisitStops, SocketEof, Stopping, Closed, MatchRecord
    <2> QED
      BY <2>1, SeatsAlone
  <1>14. CASE \/ RevokeFormerLife \/ FormerLifeRevoked
              \/ (\E c \in Conns : DetachBegin(c)) \/ Detached
              \/ (\E p \in Players : LeaveBegin(p)) \/ LeaveEnds
              \/ TickBegin \/ Renewed \/ VisitEnds \/ StopBegin
    <2>1. UNCHANGED <<match, conns>>
      BY <1>14 DEF RevokeFormerLife, FormerLifeRevoked, DetachBegin, Detached, LeaveBegin, LeaveEnds,
                   TickBegin, Renewed, VisitEnds, StopBegin
    <2> QED
      BY <1>1, <2>1
  <1>15. CASE \/ \E r \in RunIds : RecoverNext(r)
              \/ RecoverApply \/ Recovered \/ InsertRun \/ LeaveRecovered
              \/ (\E p \in Players : LeaveWithoutMatch(p))
    <2>1. UNCHANGED <<match, conns>>
      BY <1>15 DEF RecoverNext, RecoverApply, Recovered, InsertRun, LeaveRecovered,
                   LeaveWithoutMatch
    <2> QED
      BY <1>1, <2>1
  <1>16. CASE \/ EngineStep /\ UNCHANGED <<vars, serverVars>>
              \/ EngineTerminates \/ EngineCrashes \/ DropAck \/ Restart \/ UnstartedStep \/ LedgerStep
              \/ UNCHANGED gameVars
    <2>1. UNCHANGED <<match, conns>>
      BY <1>16 DEF EngineTerminates, EngineCrashes, DropAck, Restart,
                   UnstartedStep, VisitBlocks, EnsureDrops, LedgerStep, serverVars, gameVars
    <2> QED
      BY <1>1, <2>1
  <1> QED
    BY <1>2, <1>3, <1>4, <1>5, <1>6, <1>7, <1>8, <1>9, <1>10, <1>11, <1>12, <1>13, <1>14, <1>15, <1>16
       DEF GameNext, TaskStep, ReplayStep, AttachStep, DetachStep, LeaveMatchStep, MatchStep, RecoveryStep

----------------------------------------------------------------------------
(* What happens to the operation under match.lock.                          *)

\* The operation goes on: it does not admit, nor begin to empty a slot.
GoesOn ==
    /\ task'.op = task.op
    /\ task'.conn = task.conn
    /\ task.pc # "admit"
    /\ task.pc = "detach" => Detached
    /\ task'.pc # "admit"
    /\ Popping' => Popping

\* An operation begins, with nothing sent for an attach.
Starts ==
    /\ task.op = "none"
    /\ UNCHANGED match
    /\ task'.pc # "admit"
    /\ ~Popping'
    /\ task'.op = "detach" => DetachBegin(task'.conn)

TaskMove ==
    \/ UNCHANGED task /\ (task.op # "none" => UNCHANGED lives)
    \/ task'.op = "none" /\ (task.pc = "admit" => Admitted \/ match'.state # "open")
    \/ GoesOn
    \/ Starts
    \/ RevokeFormerLife
    \/ Allocate

\* An operation that reads the journal begins.
LEMMA ReadStarts ==
  ASSUME GInv, match.run # 0, Idle, UNCHANGED <<match, conns>>,
         NEW t \in TaskRecord, task' = Reading(t, match.offset),
         t.wait = "none", t.pc # "admit", t.next \in {"tabs", "gone", "renew", "finish", "release"},
         t.op = "detach" => DetachBegin(t.conn)
  PROVE  Starts
  <1>1. Reads(task', t, match.offset)
    BY ReadTask
  <1> QED
    BY <1>1 DEF Reads, Starts, Idle, Popping

\* An operation reads on, before what it has already come to.
LEMMA ReadGoesOn ==
  ASSUME GInv, NEW t \in TaskRecord, NEW offset, Reads(task', t, offset),
         t.op = task.op, t.conn = task.conn, t.wait = "none", t.next # "admit",
         task.pc # "admit", task.pc = "detach" => Detached,
         task.op = "attach" /\ t.next = "pop" => Popping
  PROVE  GoesOn
  <1>1. /\ task'.op = t.op /\ task'.next = t.next /\ task'.wait = t.wait /\ task'.conn = t.conn
        /\ task'.pc \in {"apply", t.next}
    BY DEF Reads
  <1>2. Popping' => task.op = "attach" /\ t.next = "pop"
    BY <1>1 DEF Popping
  <1> QED
    BY <1>1, <1>2 DEF GoesOn

LEMMA ReplayMove ==
  ASSUME GInv, ApplyEvent \/ DeadPeerRevoked
  PROVE  GoesOn
  <1>0. task \in TaskRecord /\ EngineTyped /\ TaskShape /\ task.pc = "apply"
    BY DEF GInv, ServerTyped, ApplyEvent, DeadPeerRevoked
  <1>1. match.run \in RunIds
    BY <1>0, TaskOps, TaskMatch
  <1>2. /\ match.offset \in Nat /\ task.until \in Nat
        /\ match.offset <= task.until /\ task.until <= Len(journal[match.run])
    BY <1>0 DEF GInv, ServerTyped, MatchRecord, TaskRecord, TaskShape
  <1>3. task.next # "admit" /\ (task.op = "attach" /\ task.next = "pop" => Popping)
    BY <1>0 DEF TaskRecord, Popping
  <1>4. CASE DeadPeerRevoked
    <2>1. PICK t \in TaskRecord : t = [task EXCEPT !.wait = "none"]
      BY <1>0 DEF TaskRecord
    <2>2. /\ t.op = task.op /\ t.conn = task.conn /\ t.next = task.next /\ t.wait = "none"
          /\ t.until = task.until /\ t.pc = "apply"
      BY <1>0, <2>1 DEF TaskRecord
    <2>3. task' = Applied(t, match.offset)
      BY <1>4, <2>1 DEF DeadPeerRevoked
    <2>4. Reads(task', t, match.offset)
      BY <1>0, <1>1, <1>2, <2>2, <2>3, AppliedReads
    <2> QED
      BY <1>0, <1>3, <2>2, <2>4, ReadGoesOn
  <1>5. CASE ApplyEvent
    <2>1. task.wait = "none" /\ match.offset + 1 \in Nat /\ match.offset + 1 <= task.until
      <3>1. task.wait = "none"
        BY <1>5 DEF ApplyEvent
      <3>2. match.offset \in Nat /\ match.offset + 1 <= task.until
        BY <1>5, ReplayGoes
      <3> QED
        BY <3>1, <3>2
    <2>2. CASE task' = Applied(task, match.offset + 1)
      <3>1. Reads(task', task, match.offset + 1)
        BY <1>0, <1>1, <1>2, <2>1, <2>2, AppliedReads
      <3> QED
        BY <1>0, <1>3, <2>1, <3>1, ReadGoesOn
    <2>3. CASE \E s \in Seats : Control("revoke", s, NoId, task)
      <3>1. PICK s \in Slots : Control("revoke", s, NoId, task)
        BY <2>3 DEF Seats
      <3>2. Sends("revoke", s, NoId, task)
        BY <1>0, <3>1, ControlSends DEF Kinds
      <3> QED
        BY <1>0, <3>2 DEF Sends, GoesOn, Popping
    <2> QED
      BY <1>5, <2>2, <2>3 DEF ApplyEvent
  <1> QED
    BY <1>4, <1>5

\* Reading goes on from an answer.
LEMMA AnswerMove ==
  ASSUME GInv, FormerLifeRevoked \/ Detached \/ Withdrawn
  PROVE  GoesOn
  <1>0. task \in TaskRecord /\ task.op # "none"
    BY TaskOps DEF GInv, ServerTyped, FormerLifeRevoked, Detached, Withdrawn
  <1>1. match.run # 0
    BY <1>0, TaskMatch
  <1>2. CASE FormerLifeRevoked
    <2>1. PICK t \in TaskRecord : t = [task EXCEPT !.next = "pop", !.wait = "none"]
      BY <1>0 DEF TaskRecord
    <2>2. t.op = task.op /\ t.conn = task.conn /\ t.next = "pop" /\ t.wait = "none"
      BY <1>0, <2>1 DEF TaskRecord
    <2>3. Reads(task', t, match.offset)
      BY <1>1, <1>2, <2>1, ReadTask DEF FormerLifeRevoked
    <2>4. task.pc = "tabs" /\ (task.op = "attach" => Popping)
      BY <1>2 DEF FormerLifeRevoked, Answered, Popping
    <2> QED
      BY <2>2, <2>3, <2>4, ReadGoesOn
  <1>3. CASE Detached \/ Withdrawn
    <2>1. PICK t \in TaskRecord : t = [task EXCEPT !.wait = "none"]
      BY <1>0 DEF TaskRecord
    <2>2. t.op = task.op /\ t.conn = task.conn /\ t.next = task.next /\ t.wait = "none"
      BY <1>0, <2>1 DEF TaskRecord
    <2>3. Reads(task', t, match.offset)
      BY <1>1, <1>3, <2>1, ReadTask DEF Detached, Withdrawn, AfterWithdrawal
    <2>4. task.op # "attach" /\ task.next # "admit" /\ task.pc # "admit"
      BY <1>0, <1>3, TaskOps DEF Detached, Withdrawn, TaskRecord
    <2>5. task.pc = "detach" => Detached
      BY <1>3 DEF Withdrawn
    <2> QED
      BY <2>2, <2>3, <2>4, <2>5, ReadGoesOn
  <1> QED
    BY <1>2, <1>3

LEMMA BeginMove ==
  ASSUME GInv,
         \/ \E c \in Conns : AttachBegin(c) \/ DetachBegin(c)
         \/ \E p \in Players : LeaveBegin(p)
         \/ TickBegin \/ StopBegin
  PROVE  Starts \/ task'.op = "none"
  <1>0. Idle /\ UNCHANGED match
    BY DEF AttachBegin, DetachBegin, LeaveBegin, TickBegin, StopBegin
  <1>1. ASSUME NEW c \in Conns, AttachBegin(c) PROVE Starts \/ task'.op = "none"
    <2>1. CASE match.run = conns[c].run
      <3>1. PICK t \in TaskRecord : t = [NoTask EXCEPT !.op = "attach", !.next = "tabs", !.conn = c]
        <4>1. PICK t : t = [NoTask EXCEPT !.op = "attach", !.next = "tabs", !.conn = c]
          OBVIOUS
        <4>2. t = [op |-> "attach", pc |-> "idle", next |-> "tabs", until |-> 0, wait |-> "none",
                 conn |-> c, player |-> NoPlayer, slot |-> 0, life |-> NoId]
          BY <4>1 DEF NoTask
        <4> QED
          BY <4>1, <4>2, NewTask DEF Ops
      <3>2. t.wait = "none" /\ t.pc = "idle" /\ t.next = "tabs" /\ t.op = "attach"
        BY <3>1 DEF NoTask
      <3>3. match.run # 0
        BY <1>1, <2>1 DEF AttachBegin, GInv, TaskShape
      <3>4. task' = Reading(t, match.offset) /\ UNCHANGED <<match, conns>>
        BY <1>1, <2>1, <3>1 DEF AttachBegin
      <3> QED
        BY <1>0, <3>2, <3>3, <3>4, ReadStarts
    <2>2. CASE match.run # conns[c].run
      BY <1>0, <1>1, <2>2 DEF AttachBegin, Idle
    <2> QED
      BY <2>1, <2>2
  <1>2. ASSUME NEW c \in Conns, DetachBegin(c) PROVE Starts
    <2>1. PICK t \in TaskRecord : t = [NoTask EXCEPT !.op = "detach", !.pc = "detach",
                                                     !.next = "gone", !.conn = c]
      <3>1. PICK t : t = [NoTask EXCEPT !.op = "detach", !.pc = "detach", !.next = "gone", !.conn = c]
        OBVIOUS
      <3>2. t = [op |-> "detach", pc |-> "detach", next |-> "gone", until |-> 0, wait |-> "none",
               conn |-> c, player |-> NoPlayer, slot |-> 0, life |-> NoId]
        BY <3>1 DEF NoTask
      <3> QED
        BY <3>1, <3>2, NewTask DEF Ops
    <2>2. t.wait = "none" /\ t.pc = "detach" /\ t.next = "gone" /\ t.op = "detach" /\ t.conn = c
      BY <2>1 DEF NoTask
    <2>3. Seated(c) /\ UNCHANGED <<match, conns>>
      BY <1>2 DEF DetachBegin
    <2>4. conns[c].slot \in Slots /\ match.run # 0
      BY <2>3, SeatedMatch
    <2>5. CASE match.state = "open"
      <3>1. Control(DetachKind(Owner[c]), conns[c].slot, NoId, t)
        BY <1>2, <2>1, <2>5 DEF DetachBegin
      <3>2. Sends(DetachKind(Owner[c]), conns[c].slot, NoId, t)
        BY <2>4, <3>1, ControlSends DEF DetachKind, Kinds
      <3> QED
        BY <1>0, <1>2, <2>2, <3>2 DEF Sends, Starts, Idle, Popping
    <2>6. CASE match.state # "open"
      <3>1. task' = Reading(t, match.offset)
        BY <1>2, <2>1, <2>6 DEF DetachBegin
      <3> QED
        BY <1>0, <1>2, <2>2, <2>3, <2>4, <3>1, ReadStarts
    <2> QED
      BY <2>5, <2>6
  <1>3. ASSUME NEW p \in Players, LeaveBegin(p) PROVE Starts
    <2>1. match.run # 0 /\ UNCHANGED <<match, conns>>
      BY <1>3, TaskMatch DEF LeaveBegin
    <2>2. CASE task' = Reading([NoTask EXCEPT !.op = "leave", !.next = "finish", !.player = p],
                               match.offset)
      <3>1. PICK t \in TaskRecord : t = [NoTask EXCEPT !.op = "leave", !.next = "finish", !.player = p]
        <4>1. PICK t : t = [NoTask EXCEPT !.op = "leave", !.next = "finish", !.player = p]
          OBVIOUS
        <4>2. t = [op |-> "leave", pc |-> "idle", next |-> "finish", until |-> 0, wait |-> "none",
                 conn |-> NoConn, player |-> p, slot |-> 0, life |-> NoId]
          BY <4>1 DEF NoTask
        <4> QED
          BY <4>1, <4>2, NewTask DEF Ops
      <3>2. t.wait = "none" /\ t.pc = "idle" /\ t.next = "finish" /\ t.op = "leave"
        BY <3>1 DEF NoTask
      <3> QED
        BY <1>0, <2>1, <2>2, <3>1, <3>2, ReadStarts
    <2>3. CASE \E l \in LeaveFirst(p) :
                  Control("revoke", lives[l].slot, NoId,
                     [NoTask EXCEPT !.op = "leave", !.pc = "withdraw", !.next = "finish",
                                    !.player = p])
      <3>1. PICK l \in LeaveFirst(p) :
                  Control("revoke", lives[l].slot, NoId,
                     [NoTask EXCEPT !.op = "leave", !.pc = "withdraw", !.next = "finish",
                                    !.player = p])
        BY <2>3
      <3>2. lives[l].slot \in Slots
        BY DEF LeaveFirst, AliveIn, GInv, SInv, SlotsExclusive
      <3>3. PICK t \in TaskRecord : t = [NoTask EXCEPT !.op = "leave", !.pc = "withdraw",
                                                       !.next = "finish", !.player = p]
        <4>1. PICK t : t = [NoTask EXCEPT !.op = "leave", !.pc = "withdraw", !.next = "finish", !.player = p]
          OBVIOUS
        <4>2. t = [op |-> "leave", pc |-> "withdraw", next |-> "finish", until |-> 0, wait |-> "none",
                 conn |-> NoConn, player |-> p, slot |-> 0, life |-> NoId]
          BY <4>1 DEF NoTask
        <4> QED
          BY <4>1, <4>2, NewTask DEF Ops
      <3>4. t.pc = "withdraw" /\ t.op = "leave"
        BY <3>3 DEF NoTask
      <3>5. Sends("revoke", lives[l].slot, NoId, t)
        BY <3>1, <3>2, <3>3, ControlSends DEF Kinds
      <3> QED
        BY <1>0, <2>1, <3>4, <3>5 DEF Sends, Starts, Idle, Popping
    <2> QED
      BY <1>3, <2>2, <2>3 DEF LeaveBegin
  <1>4. CASE TickBegin
    <2>1. PICK t \in TaskRecord : t = [NoTask EXCEPT !.op = "tick", !.next = "renew"]
      <3>1. PICK t : t = [NoTask EXCEPT !.op = "tick", !.next = "renew"]
        OBVIOUS
      <3>2. t = [op |-> "tick", pc |-> "idle", next |-> "renew", until |-> 0, wait |-> "none",
               conn |-> NoConn, player |-> NoPlayer, slot |-> 0, life |-> NoId]
        BY <3>1 DEF NoTask
      <3> QED
        BY <3>1, <3>2, NewTask DEF Ops
    <2>2. t.wait = "none" /\ t.pc = "idle" /\ t.next = "renew" /\ t.op = "tick"
      BY <2>1 DEF NoTask
    <2> QED
      BY <1>0, <1>4, <2>1, <2>2, ReadStarts DEF TickBegin
  <1>5. CASE StopBegin
    <2>1. PICK t \in TaskRecord : t = [NoTask EXCEPT !.op = "stop", !.next = "release"]
      <3>1. PICK t : t = [NoTask EXCEPT !.op = "stop", !.next = "release"]
        OBVIOUS
      <3>2. t = [op |-> "stop", pc |-> "idle", next |-> "release", until |-> 0, wait |-> "none",
               conn |-> NoConn, player |-> NoPlayer, slot |-> 0, life |-> NoId]
        BY <3>1 DEF NoTask
      <3> QED
        BY <3>1, <3>2, NewTask DEF Ops
    <2>2. t.wait = "none" /\ t.pc = "idle" /\ t.next = "release" /\ t.op = "stop"
      BY <2>1 DEF NoTask
    <2>3. match.run # 0
      BY <1>5, TaskMatch DEF StopBegin
    <2> QED
      BY <1>0, <1>5, <2>1, <2>2, <2>3, ReadStarts DEF StopBegin
  <1> QED
    BY <1>1, <1>2, <1>3, <1>4, <1>5

LEMMA TaskMoves ==
  ASSUME GInv, [GameNext]_gameVars
  PROVE  TaskMove
  <1>1. CASE \/ OperationFails \/ NothingToAttach \/ CannotAllocate \/ Admitted \/ Gone
             \/ Renewed \/ VisitStops \/ VisitEnds \/ StopEnds \/ LeaveEnds \/ Crash
    <2>1. task' = NoTask
      BY <1>1 DEF OperationFails, NothingToAttach, CannotAllocate, AttachEnds, Admitted, Gone,
                  Renewed, VisitStops, VisitEnds, StopEnds, LeaveEnds, Crash
    <2>2. ASSUME task.pc = "admit", ~Admitted PROVE match'.state # "open"
      <3>1. task.op = "attach" /\ match \in MatchRecord
        BY <2>2, TaskOps DEF GInv, ServerTyped
      <3>2. CASE OperationFails
        BY <2>2, <3>1, <3>2 DEF OperationFails, Closed, MatchRecord
      <3>3. CASE StopEnds \/ Crash
        BY <3>3 DEF StopEnds, Crash, NoMatch
      <3> QED
        BY <1>1, <2>2, <3>1, <3>2, <3>3
           DEF NothingToAttach, CannotAllocate, Allocating, Gone, Renewed, VisitStops, Visiting,
               Idle, VisitEnds, LeaveEnds
    <2> QED
      BY <2>1, <2>2, TaskDone DEF TaskMove
  <1>2. CASE \/ \E c \in Conns : AttachBegin(c) \/ DetachBegin(c)
             \/ \E p \in Players : LeaveBegin(p)
             \/ TickBegin \/ StopBegin
    <2>1. task.pc # "admit"
      BY <1>2, TaskOps DEF AttachBegin, DetachBegin, LeaveBegin, TickBegin, StopBegin, Idle
    <2> QED
      BY <1>2, <2>1, BeginMove DEF TaskMove
  <1>3. CASE \/ ApplyEvent \/ DeadPeerRevoked \/ FormerLifeRevoked \/ Detached \/ Withdrawn
             \/ RevokeFormerLife \/ Allocate
    BY <1>3, ReplayMove, AnswerMove DEF TaskMove
  <1>4. CASE RecoveryStep
    <2>1. mgr.op # "none" \/ mgr.pc # "idle"
      BY <1>4 DEF RecoveryStep, RecoverNext, JournalMissing, RecoverApply, Recovered, InsertRun,
                  StartMatch, StartFails, LeaveRecovered
    <2>2. task.op = "none" /\ UNCHANGED task
      BY <1>4, <2>1, MgrAlone
         DEF RecoveryStep, RecoverNext, JournalMissing, RecoverApply, Recovered, InsertRun,
             StartMatch, StartFails, LeaveRecovered
    <2> QED
      BY <2>2 DEF TaskMove
  <1>5. CASE \/ \E c \in Conns : Disconnect(c) \/ EnsureBegin(c) \/ Connect(c)
             \/ \E p \in Players : LeaveWithoutMatch(p)
             \/ SocketEof \/ LedgerStep \/ DropAck \/ Restart \/ UnstartedStep
    <2>1. UNCHANGED task
      BY <1>5 DEF Disconnect, EnsureBegin, Connect, LeaveWithoutMatch, SocketEof, LedgerStep,
                  DropAck, Restart, UnstartedStep, VisitBlocks, EnsureDrops, serverVars
    <2>2. UNCHANGED lives
      BY <1>5 DEF Disconnect, EnsureBegin, LeaseArena, Connect, LeaveWithoutMatch, SocketEof,
                  LedgerStep, CloseGame, RequestLeave, LeaseExpires, DropAck, Restart,
                  UnstartedStep, VisitBlocks, EnsureDrops, vars
    <2> QED
      BY <2>1, <2>2 DEF TaskMove
  <1>6. CASE \/ EngineStep /\ UNCHANGED <<vars, serverVars>>
             \/ EngineTerminates \/ EngineCrashes \/ UNCHANGED gameVars
    <2>1. UNCHANGED <<task, lives>>
      BY <1>6 DEF EngineTerminates, EngineCrashes, vars, serverVars, gameVars
    <2> QED
      BY <2>1 DEF TaskMove
  <1> QED
    BY <1>1, <1>2, <1>3, <1>4, <1>5, <1>6
       DEF GameNext, TaskStep, ReplayStep, AttachStep, DetachStep, LeaveMatchStep, MatchStep

----------------------------------------------------------------------------
(* Every step keeps SeatInv, unless a stale seat is revoked.                *)

LEMMA SeatInit == GameInit => SeatInv
  <1> SUFFICES ASSUME GameInit PROVE SeatInv
    OBVIOUS
  <1>1. \A c \in Conns : conns[c].life = NoId
    BY DEF GameInit, NoSeat
  <1>2. task.op = "none" /\ task.pc = "idle"
    BY DEF GameInit, NoTask
  <1> QED
    BY <1>1, <1>2 DEF SeatInv, OwnLife, SeatedRow, PoppingRow, Popping, AdmittingRow, DetachingRow,
                      Seated

\* OtherTab after the step.
NextTab(c) ==
    \E s \in Slots : match'.peers[s] \notin {NoConn, c} /\ Owner[match'.peers[s]] = Owner[c]

\* Peers that were not there do not appear.
LEMMA TabsLeave ==
  ASSUME GInv, Loosens, NEW c \in Conns, ~OtherTab(c)
  PROVE  ~NextTab(c)
  BY DEF Loosens, OtherTab, NextTab

LEMMA SlotStays ==
  ASSUME GInv, Loosens, NEW c \in Conns, conns[c].slot \in Slots, task'.op # "none",
         match.peers[conns[c].slot] \in {NoConn, c}
  PROVE  match'.peers[conns'[c].slot] \in {NoConn, c}
  BY DEF Loosens

\* The match of an operation does not change under it.
LEMMA SameRun ==
  ASSUME GInv, GInv', Loosens, task.op # "none", task'.op # "none"
  PROVE  match.run # 0 /\ match'.run = match.run
  <1>1. match.run # 0 /\ match'.run # 0
    BY DEF GInv, MatchShape
  <1> QED
    BY <1>1 DEF Loosens

\* An admission ends its operation.
LEMMA AdmittedEnds ==
  ASSUME GInv, Admitted
  PROVE  /\ task.op = "attach" /\ task.pc = "admit" /\ task.conn \in Conns
         /\ task.life \in LifeIds /\ task.life # NoId /\ task.slot \in Slots
         /\ match.run # 0
         /\ task'.op = "none" /\ task'.pc # "admit"
         /\ UNCHANGED <<lives, participants>>
         /\ match'.run = match.run
         /\ \A s \in Slots : match'.peers[s] = IF s = task.slot THEN task.conn ELSE match.peers[s]
         /\ conns'[task.conn].life = task.life /\ conns'[task.conn].slot = task.slot
         /\ \A c \in Conns \ {task.conn} : conns'[c] = conns[c]
  <1>0. match \in MatchRecord /\ conns \in [Conns -> SeatRecord]
    BY DEF GInv, ServerTyped
  <1>1. /\ task.pc = "admit" /\ task' = NoTask /\ UNCHANGED vars
        /\ match' = [match EXCEPT !.peers[task.slot] = task.conn]
        /\ conns' = [conns EXCEPT ![task.conn] = [phase |-> "open", run |-> 0,
                                                  life |-> task.life, slot |-> task.slot]]
    BY DEF Admitted
  <1>2. task.op = "attach"
    BY <1>1, TaskOps
  <1>3. task.conn \in Conns /\ task.life \in LifeIds /\ task.slot \in Slots
    BY <1>1, <1>2 DEF GInv, TaskShape, AttachShape
  <1>4. task.life # NoId /\ match.run # 0
    BY <1>2, <1>3, GameBounds, TaskMatch
  <1>5. task'.op = "none" /\ task'.pc # "admit"
    BY <1>1, TaskDone
  <1>6. UNCHANGED <<lives, participants>>
    BY <1>1 DEF vars
  <1>7. match'.run = match.run
    BY <1>0, <1>1 DEF MatchRecord
  <1>8. \A s \in Slots : match'.peers[s] = IF s = task.slot THEN task.conn ELSE match.peers[s]
    BY <1>0, <1>1 DEF MatchRecord
  <1>9. conns'[task.conn].life = task.life /\ conns'[task.conn].slot = task.slot
    BY <1>0, <1>1, <1>3
  <1>10. \A c \in Conns \ {task.conn} : conns'[c] = conns[c]
    BY <1>0, <1>1
  <1> QED
    BY <1>1, <1>2, <1>3, <1>4, <1>5, <1>6, <1>7, <1>8, <1>9, <1>10

LEMMA OwnLifeStep ==
  ASSUME GInv, SeatInv, [GameNext]_gameVars
  PROVE  OwnLife'
  <1>0. conns \in [Conns -> SeatRecord]
    BY DEF GInv, ServerTyped
  <1> SUFFICES ASSUME NEW c \in Conns, conns'[c].life # NoId
               PROVE  lives'[conns'[c].life].player = Owner[c] /\ lives'[conns'[c].life].status # "none"
    BY DEF OwnLife, LifeOf
  <1>1. ASSUME conns'[c].life = conns[c].life PROVE lives'[conns'[c].life].player = Owner[c]
                                                    /\ lives'[conns'[c].life].status # "none"
    <2>1. conns[c].life \in LifeIds
      BY <1>0, <1>1 DEF SeatRecord
    <2>2. lives[conns[c].life].player = Owner[c] /\ lives[conns[c].life].status # "none"
      BY <1>1 DEF SeatInv, OwnLife, LifeOf
    <2> QED
      BY <1>1, <2>1, <2>2, PlayerKept
  <1>2. CASE ~Admitted
    BY <1>1, <1>2, SeatMoves DEF Loosens
  <1>3. CASE Admitted
    <2>1. CASE c = task.conn
      BY <1>3, <2>1, AdmittedEnds DEF SeatInv, AdmittingRow
    <2>2. CASE c # task.conn
      BY <1>1, <1>3, <2>2, AdmittedEnds
    <2> QED
      BY <2>1, <2>2
  <1> QED
    BY <1>2, <1>3

\* A seat that is not taken in this step was there before, in the same match.
LEMMA SeatBefore ==
  ASSUME GInv, GInv', Loosens, NEW c \in Conns, Seated(c)'
  PROVE  /\ Seated(c) /\ conns'[c].life = conns[c].life /\ conns'[c].slot = conns[c].slot
         /\ conns[c].slot \in Slots
         /\ match.run # 0 /\ match'.run = match.run
  <1>1. conns'[c].life # NoId /\ match'.peers[conns'[c].slot] = c
    BY DEF Seated
  <1>2. conns'[c].slot \in Slots
    BY <1>1 DEF GInv, SeatShape
  <1>3. conns'[c].life = conns[c].life /\ conns'[c].slot = conns[c].slot
    BY <1>1 DEF Loosens
  <1>4. match'.peers[conns[c].slot] = match.peers[conns[c].slot]
    BY <1>1, <1>2, <1>3, GameBounds DEF Loosens
  <1>5. Seated(c)
    BY <1>1, <1>3, <1>4 DEF Seated
  <1>6. match.run # 0
    BY <1>5, SeatedMatch
  <1>7. match'.run # 0
    BY <1>1, <1>2, GameBounds DEF GInv, MatchShape
  <1> QED
    BY <1>2, <1>3, <1>5, <1>6, <1>7 DEF Loosens

LEMMA SeatedRowStep ==
  ASSUME GInv, GInv', SeatInv, [GameNext]_gameVars
  PROVE  SeatedRow'
  <1>0. conns \in [Conns -> SeatRecord]
    BY DEF GInv, ServerTyped
  <1> SUFFICES ASSUME NEW c \in Conns, Seated(c)'
               PROVE  /\ lives'[conns'[c].life].run = match'.run
                      /\ lives'[conns'[c].life].slot = conns'[c].slot
                      /\ lives'[conns'[c].life].status # "left"
    BY DEF SeatedRow, LifeOf
  <1>1. ASSUME Seated(c), conns'[c].life = conns[c].life, conns'[c].slot = conns[c].slot,
               match.run # 0, match'.run = match.run
        PROVE  /\ lives'[conns'[c].life].run = match'.run
               /\ lives'[conns'[c].life].slot = conns'[c].slot
               /\ lives'[conns'[c].life].status # "left"
    <2>1. conns[c].life \in LifeIds
      BY <1>0, <1>1 DEF SeatRecord, Seated
    <2>2. /\ lives[conns[c].life].run = match.run /\ lives[conns[c].life].slot = conns[c].slot
          /\ lives[conns[c].life].status \notin {"none", "left"}
      BY <1>1 DEF SeatInv, OwnLife, SeatedRow, LifeOf, Seated
    <2> QED
      BY <1>1, <2>1, <2>2, AdmittedRests DEF Rests
  <1>2. CASE ~Admitted
    BY <1>1, <1>2, SeatMoves, SeatBefore
  <1>3. CASE Admitted
    <2>1. CASE c = task.conn
      BY <1>3, <2>1, AdmittedEnds DEF SeatInv, AdmittingRow
    <2>2. CASE c # task.conn
      <3>1. conns'[c] = conns[c] /\ match.run # 0 /\ match'.run = match.run
        BY <1>3, <2>2, AdmittedEnds
      <3>2. conns[c].slot \in Slots /\ conns[c].life # NoId /\ match'.peers[conns[c].slot] = c
        BY <3>1 DEF Seated, GInv, SeatShape
      <3>3. match.peers[conns[c].slot] = c
        BY <1>3, <2>2, <3>2, AdmittedEnds
      <3> QED
        BY <1>1, <3>1, <3>2, <3>3 DEF Seated
    <2> QED
      BY <2>1, <2>2
  <1> QED
    BY <1>2, <1>3

\* What an attach sends when it revokes the former life.
LEMMA FormerSent ==
  ASSUME GInv, RevokeFormerLife
  PROVE  /\ task.op = "attach" /\ task.pc = "tabs" /\ task.conn \in Conns
         /\ conns[task.conn].slot \in Slots
         /\ ~OtherTab(task.conn) /\ ~AlreadyAdmitted(task.conn)
         /\ Sends("revoke", conns[task.conn].slot, NoId, task)
         /\ UNCHANGED <<lives, match, conns>>
  <1>1. task.pc = "tabs" /\ conns[task.conn].life # NoId
    BY DEF RevokeFormerLife
  <1>2. task.op = "attach" /\ task \in TaskRecord
    BY <1>1, TaskOps DEF GInv, ServerTyped
  <1>3. task.conn \in Conns
    BY <1>2 DEF GInv, TaskShape, AttachShape
  <1>4. conns[task.conn].slot \in Slots
    BY <1>1, <1>3 DEF GInv, SeatShape
  <1>5. Control("revoke", conns[task.conn].slot, NoId, task)
    BY DEF RevokeFormerLife
  <1>6. Sends("revoke", conns[task.conn].slot, NoId, task)
    BY <1>2, <1>4, <1>5, ControlSends DEF Kinds
  <1>7. /\ ~OtherTab(task.conn) /\ ~AlreadyAdmitted(task.conn)
        /\ UNCHANGED <<lives, match, conns>>
    BY DEF RevokeFormerLife, vars
  <1> QED
    BY <1>1, <1>2, <1>3, <1>4, <1>6, <1>7

\* What it sends when it admits a life.
LEMMA LifeSent ==
  ASSUME GInv, Allocate
  PROVE  /\ task.op = "attach" /\ task.pc \in {"tabs", "pop"} /\ task.conn \in Conns
         /\ task'.op = "attach" /\ task'.pc = "admit" /\ task'.conn = task.conn
         /\ task'.life \in LifeIds /\ task'.slot \in Slots
         /\ lives[task'.life].status # "dead"
         /\ lives[task'.life].status = "alive" => lives[task'.life].player = Owner[task.conn]
         /\ lives'[task'.life].status = "alive"
         /\ lives'[task'.life].run = match.run
         /\ lives'[task'.life].slot = task'.slot
         /\ lives'[task'.life].player = Owner[task.conn]
         /\ \A m \in LifeIds \ {task'.life} : lives'[m] = lives[m]
         /\ Sends("admit", task'.slot, task'.life, task')
         /\ UNCHANGED conns
  <1>1. task.pc \in {"tabs", "pop"} /\ UNCHANGED conns
    BY DEF Allocate, Allocating
  <1>2. task.op = "attach" /\ task \in TaskRecord
    BY <1>1, TaskOps DEF GInv, ServerTyped
  <1>3. task.conn \in Conns
    BY <1>2 DEF GInv, TaskShape, AttachShape
  <1>4. PICK l \in LifeIds, s \in Slots :
           /\ Control("admit", s, l, [task EXCEPT !.pc = "admit", !.life = l])
           /\ lives[l].status # "dead"
           /\ lives[l].status = "alive" => lives[l].player = Owner[task.conn]
           /\ lives'[l].status = "alive"
           /\ lives'[l].run = match.run
           /\ lives'[l].slot = s
           /\ lives'[l].player = Owner[task.conn]
           /\ \A m \in LifeIds \ {l} : lives'[m] = lives[m]
    BY LifeTaken
  <1>5. PICK t \in TaskRecord : t = [task EXCEPT !.pc = "admit", !.life = l]
    BY <1>2 DEF TaskRecord
  <1>6. t.op = "attach" /\ t.pc = "admit" /\ t.conn = task.conn /\ t.life = l
    BY <1>2, <1>5 DEF TaskRecord
  <1>7. Sends("admit", s, l, t)
    BY <1>4, <1>5, ControlSends DEF Kinds
  <1>8. task'.life = l /\ task'.slot = s /\ task'.op = "attach" /\ task'.pc = "admit"
        /\ task'.conn = task.conn
    BY <1>6, <1>7 DEF Sends
  <1>9. Sends("admit", s, l, task')
    BY <1>7 DEF Sends
  <1> QED
    BY <1>1, <1>2, <1>3, <1>4, <1>8, <1>9

LEMMA PoppingStep ==
  ASSUME GInv, GInv', SeatInv, [GameNext]_gameVars, ~StaleRevoke
  PROVE  PoppingRow'
  <1> SUFFICES ASSUME Popping'
               PROVE  /\ ~NextTab(task'.conn)
                      /\ match'.peers[conns'[task'.conn].slot] \in {NoConn, task'.conn}
                      /\ conns'[task'.conn].life # NoId =>
                            lives'[conns'[task'.conn].life].status # "alive"
    BY DEF PoppingRow, LifeOf, OtherTab, NextTab
  <1>0. task'.op = "attach" /\ conns \in [Conns -> SeatRecord]
    BY DEF Popping, GInv, ServerTyped
  <1>1. Loosens
    BY <1>0, AdmittedEnds, SeatMoves
  <1>2. ASSUME Popping, task'.conn = task.conn,
               \A l \in LifeIds : lives'[l].status = "alive" => lives[l].status = "alive"
        PROVE  /\ ~NextTab(task'.conn)
               /\ match'.peers[conns'[task'.conn].slot] \in {NoConn, task'.conn}
               /\ conns'[task'.conn].life # NoId =>
                     lives'[conns'[task'.conn].life].status # "alive"
    <2>1. PICK c \in Conns : c = task.conn /\ task.op = "attach"
      BY <1>2 DEF Popping, GInv, TaskShape, AttachShape
    <2>2. conns[c].slot \in Slots
      BY <1>2, <2>1 DEF Popping, GInv, TaskShape, AttachShape, SeatShape
    <2>3. /\ ~OtherTab(c) /\ match.peers[conns[c].slot] \in {NoConn, c}
          /\ conns[c].life # NoId => lives[conns[c].life].status # "alive"
      BY <1>2, <2>1 DEF SeatInv, PoppingRow, LifeOf
    <2>4. ~NextTab(c) /\ match'.peers[conns'[c].slot] \in {NoConn, c}
      BY <1>0, <1>1, <2>2, <2>3, TabsLeave, SlotStays
    <2>5. conns'[c].life # NoId => conns'[c].life = conns[c].life /\ conns[c].life \in LifeIds
      BY <1>0, <1>1 DEF Loosens, SeatRecord
    <2> QED
      BY <1>2, <2>1, <2>3, <2>4, <2>5
  <1>3. CASE UNCHANGED task /\ (task.op # "none" => UNCHANGED lives)
    <2>1. Popping
      BY <1>3 DEF Popping
    <2> QED
      BY <1>2, <1>3, <2>1 DEF Popping
  <1>4. CASE GoesOn
    <2>1. ~Allocate
      BY <1>4, LifeSent DEF GoesOn
    <2>2. \A l \in LifeIds : lives'[l].status = "alive" => lives[l].status = "alive"
      BY <2>1, RowsRest DEF Rests
    <2> QED
      BY <1>2, <1>4, <2>2 DEF GoesOn
  <1>5. CASE Starts
    BY <1>5 DEF Starts
  <1>6. CASE RevokeFormerLife
    <2>1. PICK c \in Conns : c = task.conn /\ c = task'.conn
      BY <1>6, FormerSent DEF Sends
    <2>2. match.peers[conns[c].slot] \in {NoConn, c}
      BY <1>6, <2>1 DEF StaleRevoke
    <2>3. ~OtherTab(c) /\ ~AlreadyAdmitted(c) /\ UNCHANGED <<lives, match, conns>>
      BY <1>6, <2>1, FormerSent
    <2>4. ~NextTab(c)
      BY <1>1, <2>3, TabsLeave
    <2> QED
      BY <2>1, <2>2, <2>3, <2>4 DEF AlreadyAdmitted
  <1>7. CASE Allocate
    BY <1>7, LifeSent DEF Popping
  <1> QED
    BY <1>0, <1>3, <1>4, <1>5, <1>6, <1>7, TaskMoves DEF TaskMove

LEMMA AdmittingStep ==
  ASSUME GInv, GInv', SeatInv, [GameNext]_gameVars
  PROVE  AdmittingRow'
  <1> SUFFICES ASSUME task'.pc = "admit"
               PROVE  /\ lives'[task'.life].status = "alive"
                      /\ lives'[task'.life].run = match'.run
                      /\ lives'[task'.life].slot = task'.slot
                      /\ lives'[task'.life].player = Owner[task'.conn]
                      /\ ~NextTab(task'.conn)
    BY DEF AdmittingRow, OtherTab, NextTab
  <1>1. Loosens
    BY AdmittedEnds, SeatMoves
  <1>2. CASE UNCHANGED task /\ (task.op # "none" => UNCHANGED lives)
    <2>1. PICK c \in Conns : c = task.conn /\ task.op = "attach"
      BY <1>2, TaskOps DEF GInv, TaskShape, AttachShape
    <2>2. ~OtherTab(c)
      BY <1>2, <2>1 DEF SeatInv, AdmittingRow
    <2>3. ~NextTab(c)
      BY <1>1, <2>2, TabsLeave
    <2>4. match'.run = match.run
      BY <1>1, <1>2, <2>1, SameRun
    <2> QED
      BY <1>2, <2>1, <2>3, <2>4 DEF SeatInv, AdmittingRow
  <1>3. CASE task'.op = "none" \/ GoesOn \/ Starts \/ RevokeFormerLife
    <2>1. task'.op # "none"
      BY DEF GInv, TaskShape
    <2> QED
      BY <1>3, <2>1, FormerSent DEF GoesOn, Starts, Sends
  <1>4. CASE Allocate
    <2>1. PICK c \in Conns : c = task.conn
      BY <1>4, LifeSent
    <2>2. ~OtherTab(c)
      BY <1>4, <2>1, LifeSent DEF Allocate, Allocating, SeatInv, PoppingRow, Popping
    <2>3. ~NextTab(c)
      BY <1>1, <2>2, TabsLeave
    <2>4. match'.run = match.run
      BY <1>1, <1>4, LifeSent, SameRun
    <2> QED
      BY <1>4, <2>1, <2>3, <2>4, LifeSent
  <1> QED
    BY <1>2, <1>3, <1>4, TaskMoves DEF TaskMove

LEMMA DetachingStep ==
  ASSUME GInv, GInv', SeatInv, [GameNext]_gameVars
  PROVE  DetachingRow'
  <1> SUFFICES ASSUME task'.op = "detach"
               PROVE  match'.peers[conns'[task'.conn].slot] \in {NoConn, task'.conn}
    BY DEF DetachingRow
  <1>1. Loosens
    BY AdmittedEnds, SeatMoves
  <1>2. CASE task'.op = task.op /\ task'.conn = task.conn
    <2>1. task.conn \in Conns /\ conns[task.conn].slot \in Slots
      BY <1>2 DEF GInv, TaskShape, DetachShape
    <2>2. match.peers[conns[task.conn].slot] \in {NoConn, task.conn}
      BY <1>2 DEF SeatInv, DetachingRow
    <2> QED
      BY <1>1, <1>2, <2>1, <2>2, SlotStays
  <1>3. CASE Starts
    BY <1>3 DEF Starts, DetachBegin, Seated
  <1> QED
    BY <1>2, <1>3, TaskMoves, FormerSent, LifeSent DEF TaskMove, GoesOn, Sends

LEMMA SeatStep ==
  ASSUME GInv, GInv', SeatInv, [GameNext]_gameVars, ~StaleRevoke
  PROVE  SeatInv'
  BY OwnLifeStep, SeatedRowStep, PoppingStep, AdmittingStep, DetachingStep DEF SeatInv

----------------------------------------------------------------------------
(* A living player keeps the seat.                                          *)

LEMMA KeepsSeat ==
  ASSUME GInv, GInv', SeatInv, [GameNext]_gameVars, NEW c \in Conns,
         Seated(c), match'.run = match.run, lives'[conns[c].life].status = "alive"
  PROVE  Seated(c)' \/ conns'[c].life # conns[c].life
  <1>0. /\ conns[c].life \in LifeIds /\ conns[c].life # NoId /\ conns[c].slot \in Slots
        /\ match.peers[conns[c].slot] = c /\ match.run # 0
    BY SeatedMatch DEF Seated, GInv, ServerTyped, SeatRecord, SeatShape
  <1>1. /\ lives[conns[c].life].run = match.run /\ lives[conns[c].life].slot = conns[c].slot
        /\ lives[conns[c].life].status \notin {"none", "left"}
        /\ lives[conns[c].life].player = Owner[c]
    BY <1>0 DEF SeatInv, OwnLife, SeatedRow, LifeOf
  <1>2. lives[conns[c].life].status = "alive"
    BY <1>0, <1>1, AdmittedRests DEF Rests
  <1>3. CASE ~Admitted
    <2>1. Loosens
      BY <1>3, SeatMoves
    <2> SUFFICES ASSUME conns'[c].life = conns[c].life PROVE match'.peers[conns[c].slot] = c
      BY <1>0, <2>1 DEF Loosens, Seated
    <2>2. ASSUME match'.peers[conns[c].slot] # c PROVE FALSE
      <3>1. \/ task.pc = "pop" /\ conns[c].slot = conns[task.conn].slot
            \/ /\ task.pc = "gone" /\ conns[c].slot = conns[task.conn].slot
               /\ conns'[task.conn].life = NoId
        BY <1>0, <2>1, <2>2 DEF Loosens
      <3>2. CASE task.pc = "pop"
        <4>1. Popping
          BY <3>2, TaskOps DEF Popping
        <4>2. task.conn = c
          BY <1>0, <3>1, <3>2, <4>1, GameBounds DEF SeatInv, PoppingRow
        <4> QED
          BY <1>0, <1>2, <4>1, <4>2 DEF SeatInv, PoppingRow, LifeOf
      <3>3. CASE task.pc = "gone"
        <4>1. task.conn = c
          BY <1>0, <3>1, <3>3, TaskOps, GameBounds DEF SeatInv, DetachingRow
        <4> QED
          BY <1>0, <3>1, <3>3, <4>1
      <3> QED
        BY <3>1, <3>2, <3>3
    <2> QED
      BY <2>2
  <1>4. CASE Admitted
    <2>1. CASE c = task.conn
      BY <1>4, <2>1, AdmittedEnds DEF Seated
    <2>2. CASE c # task.conn /\ conns[c].slot # task.slot
      BY <1>0, <1>4, <2>2, AdmittedEnds DEF Seated
    <2>3. CASE c # task.conn /\ conns[c].slot = task.slot
      <3>1. /\ lives[task.life].status = "alive" /\ lives[task.life].slot = task.slot
            /\ lives[task.life].player = Owner[task.conn] /\ ~OtherTab(task.conn)
        BY <1>4, AdmittedEnds DEF SeatInv, AdmittingRow
      <3>2. conns[c].life = task.life
        BY <1>0, <1>1, <1>2, <1>4, <2>3, <3>1, OnePerSlot, AdmittedEnds
      <3>3. Owner[c] = Owner[task.conn]
        BY <1>1, <3>1, <3>2
      <3>4. OtherTab(task.conn)
        BY <1>0, <2>3, <3>3, GameBounds DEF OtherTab
      <3> QED
        BY <3>1, <3>4
    <2> QED
      BY <2>1, <2>2, <2>3
  <1> QED
    BY <1>3, <1>4

\* A step that revokes a stale seat changes the state.
LEMMA StaleMoves ==
  ASSUME GInv, StaleRevoke
  PROVE  ~ UNCHANGED gameVars
  <1>1. task.wait = "none"
    BY DEF StaleRevoke, RevokeFormerLife
  <1>2. task'.wait \in {"revoke", "failed"}
    BY FormerSent DEF StaleRevoke, Sends
  <1> QED
    BY <1>1, <1>2 DEF gameVars, serverVars

\* As long as no stale seat is revoked the seats are those of SeatInv.
LEMMA SeatInvariance == GameSpec /\ [][~StaleRevoke]_gameVars => []SeatInv
  <1>1. GInv /\ GInv' /\ SeatInv /\ [GameNext]_gameVars /\ [~StaleRevoke]_gameVars => SeatInv'
    BY SeatStep, StaleMoves
  <1> QED
    BY <1>1, SeatInit, GameInvariance, PTL DEF GameSpec

(***************************************************************************)
(* The first finding of the README is the only way to lose a seat: as long *)
(* as no admission revokes a slot that belongs to another connection, a    *)
(* connection with a living player keeps its seat while the match goes on  *)
(* (Match.attach, detach and replay; views.py), for every number of        *)
(* players, tabs, lives and crashes.                                       *)
(***************************************************************************)
THEOREM SeatsAreKept == GameSpec /\ [][~StaleRevoke]_gameVars => SeatEndsWithLife
  <1> DEFINE Kept ==
        \A c \in Conns :
          (/\ Seated(c) /\ match'.run = match.run
           /\ lives'[conns[c].life].status = "alive")
             => Seated(c)' \/ conns'[c].life # conns[c].life
  <1>1. GInv /\ GInv' /\ SeatInv /\ [GameNext]_gameVars => Kept
    BY KeepsSeat
  <1> QED
    BY <1>1, SeatInvariance, GameInvariance, PTL DEF GameSpec, SeatEndsWithLife

\* With all connections tabs of one session there is no exception: attach refuses a
\* second tab before it revokes anything (server.py:257-261), so no slot it revokes
\* can belong to another connection.
THEOREM OneSessionKeepsSeat == OneSession => (GameSpec => SeatEndsWithLife)
  <1> SUFFICES ASSUME OneSession PROVE GameSpec => SeatEndsWithLife
    OBVIOUS
  <1>1. GInv => ~StaleRevoke
    <2> SUFFICES ASSUME GInv, StaleRevoke PROVE FALSE
      OBVIOUS
    <2>1. /\ task.conn \in Conns /\ conns[task.conn].slot \in Slots /\ ~OtherTab(task.conn)
          /\ match.peers[conns[task.conn].slot] \notin {NoConn, task.conn}
      BY FormerSent DEF StaleRevoke
    <2>2. match.peers[conns[task.conn].slot] \in Conns
      BY <2>1, PeersTyped
    <2> QED
      BY <2>1, <2>2 DEF OneSession, OtherTab
  <1> QED
    BY <1>1, SeatsAreKept, GameInvariance, PTL

----------------------------------------------------------------------------
(* What a disconnect costs.                                                 *)

\* The connection plays on: its life is alive and its player stays.
PlaysOn(c) ==
    /\ conns[c].life # NoId
    /\ LifeOf(c).status = "alive"
    /\ participants[Owner[c]] = "playing"

\* The match goes on with its engine.
On == match.state = "open" /\ engine.run = match.run

Written(l) == \E n \in 1 .. Len(journal[match.run]) : journal[match.run][n].victim = l

\* The engine plays the life l on slot s.
Played(s, l) == Ends(s) /\ engine.admission[s] = l

\* The operation under way waits for the answer to its admission or forfeiture.
Waits(t, kind) ==
    /\ t.wait = kind
    /\ t.pc = IF kind = "admit" THEN "admit" ELSE "detach"

Awaits(kind) == Waits(task, kind)

Awaiting == Awaits("admit") \/ Awaits("forfeit")

\* An admission or a forfeiture on its way is the last packet, and awaited.
PacketsAwaited ==
    match.state = "open" =>
        \A n \in 1 .. Len(toEngine) : toEngine[n].kind # "revoke" =>
            /\ n = Len(toEngine)
            /\ Awaits(toEngine[n].kind)
            /\ toEngine[n].slot = task.slot
            /\ toEngine[n].kind = "admit" => toEngine[n].life = task.life

\* The answer to one is the last answer, and no packet follows it.
AcksAwaited ==
    match.state = "open" =>
        \A n \in 1 .. Len(acks) : acks[n].kind # "revoke" =>
            /\ n = Len(acks)
            /\ toEngine = <<>>
            /\ Awaits(acks[n].kind)

\* A life whose admission was answered is played until the journal says it ended.
AdmissionPlayed ==
    On => \A n \in 1 .. Len(acks) : acks[n].kind = "admit" =>
              Written(task.life) \/ Played(task.slot, task.life)

\* So is the life of a connection with a seat, and only its own disconnect will
\* end it.
SeatPlayed ==
    On => \A c \in Conns : Seated(c) /\ PlaysOn(c) =>
              \/ Written(conns[c].life)
              \/ /\ Played(conns[c].slot, conns[c].life)
                 /\ \A n \in 1 .. Len(toEngine) :
                       toEngine[n].slot = conns[c].slot => toEngine[n].kind = "forfeit"

\* A detach whose forfeiture was answered has ended that life.
DetachPaid ==
    On /\ task.op = "detach" /\ Seated(task.conn) /\ PlaysOn(task.conn) =>
        \/ Written(conns[task.conn].life)
        \/ /\ task.pc = "detach"
           /\ task.wait \in {"forfeit", "failed"}
           /\ task.slot = conns[task.conn].slot
           /\ \A n \in 1 .. Len(acks) : acks[n].kind # "forfeit"

\* A connection that has closed names no life.
ClosedEmpty == \A c \in Conns : conns[c].phase = "closed" => conns[c].life = NoId

PaidInv ==
    /\ PacketsAwaited
    /\ AcksAwaited
    /\ AdmissionPlayed
    /\ SeatPlayed
    /\ DetachPaid
    /\ ClosedEmpty

----------------------------------------------------------------------------
(* The engine moves.                                                        *)

\* The engine ends or writes nothing but what one slot is about.
LEMMA EngineEnds ==
  ASSUME GInv, EngineStep
  PROVE  /\ engine.run \in RunIds
         /\ engine'.run = engine.run
         /\ \E s \in Slots :
               /\ \A t \in Slots \ {s} : /\ engine'.admission[t] = engine.admission[t]
                                         /\ Ends(t)' = Ends(t)
               /\ \/ /\ Takes("admit", s)
                     /\ Head(toEngine).life # NoId => Ends(s)'
                  \/ Takes("revoke", s)
                  \/ /\ UNCHANGED <<toEngine, acks>> \/ Takes("forfeit", s)
                     /\ Ends(s) => \E line \in Line :
                           /\ line.victim = engine.admission[s]
                           /\ journal' = [journal EXCEPT ![engine.run] = Append(@, line)]
  <1>0. engine \in EngineRecord /\ EngineTyped
    BY DEF GInv, EngineTyped
  <1>1. EngineMove
    BY EngineMoves
  <1>2. engine.run \in RunIds /\ engine'.run = engine.run /\ engine.run # 0
    BY <1>1, GameBounds DEF EngineMove
  <1> DEFINE Kept(s) == \A t \in Slots \ {s} : /\ engine'.admission[t] = engine.admission[t]
                                               /\ Ends(t)' = Ends(t)
             Written1(s) == Ends(s) => \E line \in Line :
                           /\ line.victim = engine.admission[s]
                           /\ journal' = [journal EXCEPT ![engine.run] = Append(@, line)]
             Moved(s) == \/ /\ Takes("admit", s)
                            /\ Head(toEngine).life # NoId => Ends(s)'
                         \/ Takes("revoke", s)
                         \/ /\ UNCHANGED <<toEngine, acks>> \/ Takes("forfeit", s)
                            /\ Written1(s)
  <1>3. ASSUME NEW s \in Slots, engine' = Revoked(s) PROVE Kept(s) /\ ~Ends(s)'
    <2>1. \A t \in Slots \ {s} : /\ engine'.admission[t] = engine.admission[t]
                                 /\ engine'.consumed[t] = engine.consumed[t]
      BY <1>0, <1>3 DEF EngineRecord, Revoked
    <2>2. engine'.admission[s] = NoId
      BY <1>0, <1>3 DEF EngineRecord, Revoked
    <2> QED
      BY <2>1, <2>2 DEF Ends
  <1>4. \A s \in Slots : Kept(s) => \A t \in Slots \ {s} : StillEnds(t)
    BY DEF StillEnds
  <1>5. ASSUME NEW s \in Slots, AdmitLife(s) PROVE Kept(s) /\ Moved(s)
    <2>1. /\ engine'.admission[s] = Head(toEngine).life /\ engine'.consumed[s] = FALSE
          /\ \A t \in Slots \ {s} : /\ engine'.admission[t] = engine.admission[t]
                                    /\ engine'.consumed[t] = engine.consumed[t]
      BY <1>0, <1>5 DEF AdmitLife, EngineRecord
    <2>2. Kept(s)
      BY <2>1 DEF Ends
    <2>3. Takes("admit", s)
      BY <1>4, <1>5, <2>1, <2>2 DEF AdmitLife, Answer, Takes
    <2>4. Head(toEngine).life # NoId => Ends(s)'
      BY <2>1 DEF Ends
    <2> QED
      BY <2>2, <2>3, <2>4
  <1>6. ASSUME NEW s \in Slots, RevokeLife(s) PROVE Kept(s) /\ Moved(s)
    <2>1. Kept(s) /\ ~Ends(s)'
      BY <1>3, <1>6 DEF RevokeLife
    <2>2. Takes("revoke", s)
      BY <1>4, <1>6, <2>1 DEF RevokeLife, Answer, Takes
    <2> QED
      BY <2>1, <2>2
  <1>7. ASSUME NEW s \in Slots, ForfeitLife(s) PROVE Kept(s) /\ Moved(s)
    <2>1. Kept(s) /\ ~Ends(s)'
      BY <1>3, <1>7 DEF ForfeitLife
    <2>2. Takes("forfeit", s)
      BY <1>4, <1>7, <2>1 DEF ForfeitLife, Answer, Takes
    <2>3. Written1(s)
      <3>1. Ends(s) => journal' = Journaled(s, NoId) /\ Running
        BY <1>7 DEF ForfeitLife, Answer
      <3> QED
        BY <1>0, <3>1, LineAdded
    <2> QED
      BY <2>1, <2>2, <2>3
  <1>8. ASSUME NEW s \in Slots, NEW k \in LifeIds \cup {NoId}, CharacterDies(s, k)
        PROVE  Kept(s) /\ Moved(s)
    <2>1. \A t \in Slots \ {s} : /\ engine'.admission[t] = engine.admission[t]
                                 /\ engine'.consumed[t] = engine.consumed[t]
      BY <1>0, <1>8 DEF CharacterDies, EngineRecord
    <2>2. Kept(s)
      BY <2>1 DEF Ends
    <2>3. Ends(s) /\ journal' = Journaled(s, k) /\ Running /\ UNCHANGED <<toEngine, acks>>
      BY <1>8 DEF CharacterDies
    <2>4. Written1(s)
      BY <1>0, <2>3, LineAdded
    <2> QED
      BY <2>2, <2>3, <2>4
  <1>9. \E s \in Slots : Kept(s) /\ Moved(s)
    BY <1>5, <1>6, <1>7, <1>8 DEF EngineStep
  <1> QED
    BY <1>2, <1>9

----------------------------------------------------------------------------
(* The operations use the socket.                                           *)

\* A packet is sent, and its answer awaited.
Sent(pkt) ==
    /\ toEngine' = Append(toEngine, pkt)
    /\ task'.wait = pkt.kind
    /\ task'.slot = pkt.slot
    /\ pkt.kind = "admit" => task'.pc = "admit" /\ task'.life = pkt.life
    /\ pkt.kind = "forfeit" => task'.pc = "detach"

\* Nobody who plays on has slot s.
Bare(s) == \A c \in Conns : Seated(c) /\ PlaysOn(c) => conns[c].slot # s

\* Nothing is sent, or a packet that withdraws nobody who plays on.
Spares ==
    \/ UNCHANGED toEngine
    \/ \E pkt \in Packet : Sent(pkt) /\ (pkt.kind = "forfeit" \/ Bare(pkt.slot)')

LEMMA SendsSpare ==
  ASSUME NEW kind \in Kinds, NEW s \in Slots, NEW l \in LifeIds \cup {NoId}, NEW waiting,
         Sends(kind, s, l, waiting),
         kind = "admit" => waiting.pc = "admit" /\ waiting.life = l,
         kind = "forfeit" => waiting.pc = "detach",
         kind = "forfeit" \/ Bare(s)'
  PROVE  Spares
  <1>1. PICK pkt \in Packet : pkt = [kind |-> kind, slot |-> s, life |-> l]
    BY DEF Packet
  <1>2. UNCHANGED toEngine \/ Sent(pkt)
    BY <1>1 DEF Sends, Sent
  <1> QED
    BY <1>1, <1>2 DEF Spares

\* Whoever sits on a slot of a life that is over does not play on.
LEMMA ReplaySpares ==
  ASSUME GInv, ApplyEvent, match.state = "open"
  PROVE  Spares
  <1>1. /\ task.pc = "apply" /\ task.wait = "none"
        /\ ApplyLine(match.run, match.offset + 1)
        /\ UNCHANGED conns
        /\ match' = [match EXCEPT !.offset = match.offset + 1]
        /\ UNCHANGED toEngine \/ \E s \in Seats : Control("revoke", s, NoId, task)
    BY DEF ApplyEvent
  <1>2. CASE \E s \in Seats : Control("revoke", s, NoId, task)
    <2>1. PICK s \in Seats : Control("revoke", s, NoId, task)
      BY <1>2
    <2>2. /\ s \in Slots /\ match.peers[s] # NoConn
          /\ conns[match.peers[s]].life = journal[match.run][match.offset + 1].victim
      BY DEF Seats
    <2>3. task \in TaskRecord /\ match \in MatchRecord
      BY DEF GInv, ServerTyped
    <2>4. Sends("revoke", s, NoId, task)
      BY <2>1, <2>2, <2>3, ControlSends DEF Kinds
    <2>5. match'.peers = match.peers
      BY <1>1, <2>3 DEF MatchRecord
    <2>6. lives'[conns[match.peers[s]].life].status = "dead"
      BY <1>1, <2>2, LineKills
    <2>7. ASSUME NEW c \in Conns, Seated(c)', PlaysOn(c)' PROVE conns'[c].slot # s
      BY <1>1, <2>5, <2>6, <2>7 DEF Seated, PlaysOn, LifeOf
    <2>8. Bare(s)'
      BY <2>7 DEF Bare
    <2> QED
      BY <2>2, <2>4, <2>8, SendsSpare DEF Kinds
  <1> QED
    BY <1>1, <1>2 DEF Spares

\* The former slot of a connection is its own, or nobody's.
LEMMA FormerSpares ==
  ASSUME GInv, RevokeFormerLife, ~StaleRevoke
  PROVE  Spares
  <1>1. PICK d \in Conns : d = task.conn
    BY FormerSent
  <1>2. /\ Sends("revoke", conns[d].slot, NoId, task) /\ conns[d].slot \in Slots
        /\ match.peers[conns[d].slot] \in {NoConn, d}
        /\ ~AlreadyAdmitted(d)
        /\ UNCHANGED <<lives, match, conns>>
    BY <1>1, FormerSent DEF StaleRevoke
  <1>3. ASSUME NEW c \in Conns, Seated(c)', PlaysOn(c)' PROVE conns'[c].slot # conns[d].slot
    BY <1>2, <1>3, GameBounds DEF Seated, PlaysOn, LifeOf, AlreadyAdmitted
  <1>4. PICK s \in Slots : s = conns[d].slot
    BY <1>2
  <1>5. Bare(s)'
    BY <1>3, <1>4 DEF Bare
  <1> QED
    BY <1>2, <1>4, <1>5, SendsSpare DEF Kinds

\* The slot of a life that is admitted is nobody's: its player has no other tab, and
\* the seat of this one was given up.
LEMMA AdmissionSpares ==
  ASSUME GInv, GInv', SeatInv, SeatInv', [GameNext]_gameVars, Allocate
  PROVE  Spares
  <1>1. PICK d \in Conns, s \in Slots, l \in LifeIds :
           d = task.conn /\ s = task'.slot /\ l = task'.life
    BY LifeSent
  <1>2. /\ task.op = "attach" /\ task'.pc = "admit" /\ task'.conn = d
        /\ lives'[l].status = "alive" /\ lives'[l].slot = s
        /\ lives'[l].player = Owner[d]
        /\ Sends("admit", s, l, task')
        /\ UNCHANGED conns
    BY <1>1, LifeSent
  <1>3. ~NextTab(d)
    BY <1>1, <1>2 DEF SeatInv, AdmittingRow, OtherTab, NextTab
  <1>4. ~ Seated(d)'
    <2>1. CASE task.pc = "tabs"
      BY <1>1, <1>2, <2>1, LifeSent DEF Allocate, Allocating, Seated
    <2>2. CASE task.pc = "pop"
      <3>1. match' = [match EXCEPT !.peers[conns[d].slot] = NoConn]
        BY <1>1, <2>2 DEF Allocate, Allocating
      <3>2. conns[d].slot \in Slots /\ match \in MatchRecord
        BY <1>1, <1>2, <2>2 DEF GInv, ServerTyped, TaskShape, AttachShape
      <3>3. match'.peers[conns[d].slot] = NoConn
        BY <3>1, <3>2 DEF MatchRecord
      <3> QED
        BY <1>2, <3>3, GameBounds DEF Seated
    <2> QED
      BY <2>1, <2>2 DEF Allocate, Allocating
  <1>5. ASSUME NEW c \in Conns, Seated(c)', PlaysOn(c)', conns'[c].slot = s PROVE FALSE
    <2>1. PICK m \in LifeIds : m = conns'[c].life
      BY <1>5 DEF Seated, GInv, ServerTyped, SeatRecord
    <2>2. /\ lives'[m].status = "alive" /\ lives'[m].slot = s /\ lives'[m].player = Owner[c]
      BY <1>5, <2>1 DEF Seated, PlaysOn, LifeOf, SeatInv, SeatedRow, OwnLife
    <2>4. m = l
      BY <1>2, <2>2 DEF GInv, SInv, SlotsExclusive, AliveLives
    <2>5. match'.peers[s] = c /\ c # NoConn
      BY <1>5, GameBounds DEF Seated
    <2>6. c = d
      BY <1>2, <1>3, <2>2, <2>4, <2>5 DEF NextTab
    <2> QED
      BY <1>4, <1>5, <2>6
  <1>6. Bare(s)'
    BY <1>5 DEF Bare
  <1>7. PICK waiting : waiting = task'
    OBVIOUS
  <1>8. Sends("admit", s, l, waiting) /\ waiting.pc = "admit" /\ waiting.life = l
    BY <1>1, <1>2, <1>7
  <1> QED
    BY <1>6, <1>8, SendsSpare DEF Kinds

\* The slot of a connection that goes is its own.
LEMMA DetachSpares ==
  ASSUME GInv, NEW d \in Conns, DetachBegin(d), match.state = "open"
  PROVE  /\ Spares
         /\ conns[d].slot \in Slots
         /\ task'.pc = "detach" /\ task'.slot = conns[d].slot /\ task'.conn = d
         /\ participants[Owner[d]] = "playing" => task'.wait \in {"forfeit", "failed"}
         /\ UNCHANGED <<lives, participants, match, conns, engine, journal, acks>>
  <1>1. /\ Seated(d)
        /\ UNCHANGED <<vars, match, conns, engine, journal, acks>>
    BY DEF DetachBegin
  <1>2. UNCHANGED <<lives, participants>>
    BY <1>1 DEF vars
  <1>3. PICK s \in Slots : s = conns[d].slot
    BY <1>1, SeatedMatch
  <1>4. PICK t \in TaskRecord : t = [NoTask EXCEPT !.op = "detach", !.pc = "detach",
                                                   !.next = "gone", !.conn = d]
    <2>1. PICK t : t = [NoTask EXCEPT !.op = "detach", !.pc = "detach", !.next = "gone",
                                      !.conn = d]
      OBVIOUS
    <2>2. t = [op |-> "detach", pc |-> "detach", next |-> "gone", until |-> 0, wait |-> "none",
               conn |-> d, player |-> NoPlayer, slot |-> 0, life |-> NoId]
      BY <2>1 DEF NoTask
    <2> QED
      BY <2>1, <2>2, NewTask DEF Ops
  <1>5. t.pc = "detach" /\ t.conn = d
    BY <1>4 DEF NoTask
  <1>6. PICK kind \in Kinds : kind = DetachKind(Owner[d])
    BY DEF DetachKind, Kinds
  <1>7. kind \in {"forfeit", "revoke"}
        /\ (kind = "forfeit" <=> participants[Owner[d]] = "playing")
    BY <1>6 DEF DetachKind
  <1>8. Control(kind, s, NoId, t)
    BY <1>3, <1>4, <1>6 DEF DetachBegin
  <1>9. Sends(kind, s, NoId, t)
    BY <1>8, ControlSends
  <1>10. ASSUME kind # "forfeit", NEW c \in Conns, Seated(c)', PlaysOn(c)'
         PROVE  conns'[c].slot # s
    BY <1>1, <1>2, <1>3, <1>7, <1>10 DEF Seated, PlaysOn
  <1>11. kind = "forfeit" \/ Bare(s)'
    BY <1>10 DEF Bare
  <1>12. Spares
    BY <1>5, <1>7, <1>9, <1>11, SendsSpare
  <1> QED
    BY <1>1, <1>2, <1>3, <1>5, <1>7, <1>9, <1>12 DEF Sends

\* The character that a leave withdraws is that of a player who leaves.
LEMMA LeaveSpares ==
  ASSUME GInv, SeatInv, NEW p \in Players, LeaveBegin(p)
  PROVE  Spares
  <1>1. /\ participants[p] = "leaving"
        /\ UNCHANGED <<vars, match, conns>>
    BY DEF LeaveBegin
  <1>2. UNCHANGED <<lives, participants>>
    BY <1>1 DEF vars
  <1>3. CASE \E l \in LeaveFirst(p) :
                Control("revoke", lives[l].slot, NoId,
                   [NoTask EXCEPT !.op = "leave", !.pc = "withdraw", !.next = "finish",
                                  !.player = p])
    <2>1. PICK l \in LeaveFirst(p) :
                Control("revoke", lives[l].slot, NoId,
                   [NoTask EXCEPT !.op = "leave", !.pc = "withdraw", !.next = "finish",
                                  !.player = p])
      BY <1>3
    <2>2. l \in LifeIds /\ lives[l].status = "alive" /\ lives[l].player = p
      BY DEF LeaveFirst, AliveIn, AliveLives
    <2>3. PICK s \in Slots : s = lives[l].slot
      BY DEF LeaveFirst, AliveIn, GInv, SInv, SlotsExclusive
    <2>4. PICK t \in TaskRecord : t = [NoTask EXCEPT !.op = "leave", !.pc = "withdraw",
                                                     !.next = "finish", !.player = p]
      <3>1. PICK t : t = [NoTask EXCEPT !.op = "leave", !.pc = "withdraw", !.next = "finish",
                                        !.player = p]
        OBVIOUS
      <3>2. t = [op |-> "leave", pc |-> "withdraw", next |-> "finish", until |-> 0,
                 wait |-> "none", conn |-> NoConn, player |-> p, slot |-> 0, life |-> NoId]
        BY <3>1 DEF NoTask
      <3> QED
        BY <3>1, <3>2, NewTask DEF Ops
    <2>5. Sends("revoke", s, NoId, t)
      BY <2>1, <2>3, <2>4, ControlSends DEF Kinds
    <2>6. ASSUME NEW c \in Conns, Seated(c)', PlaysOn(c)', conns'[c].slot = s PROVE FALSE
      <3>1. Seated(c) /\ PlaysOn(c) /\ conns[c].slot = s
        BY <1>1, <1>2, <2>6 DEF Seated, PlaysOn, LifeOf
      <3>2. PICK m \in LifeIds : m = conns[c].life
        BY <3>1 DEF Seated, GInv, ServerTyped, SeatRecord
      <3>3. lives[m].status = "alive" /\ lives[m].slot = s /\ lives[m].player = Owner[c]
        BY <3>1, <3>2 DEF Seated, PlaysOn, LifeOf, SeatInv, SeatedRow, OwnLife
      <3>4. m = l
        BY <2>2, <2>3, <3>3, OnePerSlot
      <3> QED
        BY <1>1, <2>2, <3>1, <3>3, <3>4 DEF PlaysOn
    <2>7. Bare(s)'
      BY <2>6 DEF Bare
    <2> QED
      BY <2>5, <2>7, SendsSpare DEF Kinds
  <1> QED
    BY <1>3 DEF LeaveBegin, Spares

\* An operation waits for an answer, or for none.
LEMMA NotAwaiting ==
  ASSUME task.wait \notin {"admit", "forfeit"} \/ task.pc \notin {"admit", "detach"}
  PROVE  ~Awaiting
  BY DEF Awaiting, Awaits, Waits

\* What a step does on the socket of a match that goes on: nothing, or a packet that
\* withdraws nobody who plays on is sent while no admission and no forfeiture is
\* under way, or an answer is read, and then it is the one awaited.
SocketMove ==
    \/ UNCHANGED <<toEngine, acks, task>>
    \/ ~Awaiting /\ UNCHANGED acks /\ Spares
    \/ /\ UNCHANGED toEngine
       /\ acks # <<>>
       /\ acks' = Tail(acks)
       /\ UNCHANGED task \/ ~Awaiting \/ Head(acks).kind # "revoke"

LEMMA TaskSockets ==
  ASSUME GInv, GInv', SeatInv, SeatInv', [GameNext]_gameVars, ~StaleRevoke, TaskStep,
         match'.state = "open"
  PROVE  match.state = "open" /\ UNCHANGED <<engine, journal>> /\ SocketMove
  <1>0. match \in MatchRecord /\ TaskShape
    BY DEF GInv, ServerTyped
  <1>1. CASE OperationFails
    <2>1. match'.state = "open" => match' = match /\ task.op = "attach" /\ task.pc # "admit"
      BY <1>0, <1>1 DEF OperationFails, Stopping, Closed, MatchRecord
    <2>2. task.pc # "detach"
      BY <2>1, TaskOps
    <2>3. UNCHANGED <<engine, journal, toEngine, acks>>
      BY <1>1 DEF OperationFails, ipcVars
    <2> QED
      BY <2>1, <2>2, <2>3, NotAwaiting DEF SocketMove, Spares
  <1>2. CASE ApplyEvent
    <2>1. /\ task.wait = "none" /\ UNCHANGED <<engine, journal, acks>>
          /\ match'.state = match.state
      <3>1. \/ match' = [match EXCEPT !.offset = match.offset + 1]
            \/ \E s \in Seats : match' = [match EXCEPT !.offset = match.offset + 1,
                                                       !.peers[s] = NoConn]
        BY <1>2 DEF ApplyEvent
      <3>2. match'.state = match.state
        BY <1>0, <3>1 DEF MatchRecord
      <3> QED
        BY <1>2, <3>2 DEF ApplyEvent
    <2> QED
      BY <1>2, <2>1, NotAwaiting, ReplaySpares DEF SocketMove
  <1>3. CASE \/ DeadPeerRevoked \/ FormerLifeRevoked \/ Detached \/ Withdrawn \/ Admitted
    <2>1. /\ UNCHANGED <<engine, journal, toEngine>>
          /\ match.state = "open" /\ acks # <<>> /\ acks' = Tail(acks)
      BY <1>3 DEF DeadPeerRevoked, FormerLifeRevoked, Detached, Withdrawn, Admitted, Answered
    <2>2. CASE DeadPeerRevoked \/ FormerLifeRevoked \/ Withdrawn
      BY <2>1, <2>2, NotAwaiting
         DEF SocketMove, DeadPeerRevoked, FormerLifeRevoked, Withdrawn, Answered
    <2>3. CASE Admitted
      BY <2>1, <2>3 DEF SocketMove, Admitted, Answered
    <2>4. CASE Detached
      BY <2>1, <2>4, NotAwaiting DEF SocketMove, Detached, Answered
    <2> QED
      BY <1>3, <2>2, <2>3, <2>4
  <1>4. CASE \E c \in Conns : AttachBegin(c) \/ Disconnect(c)
    <2>1. task.wait = "none" /\ UNCHANGED <<ipcVars, match>>
      BY <1>0, <1>4 DEF AttachBegin, Disconnect, Idle, TaskShape
    <2> QED
      BY <2>1, NotAwaiting DEF SocketMove, Spares, ipcVars
  <1>5. CASE NothingToAttach \/ CannotAllocate
    <2>1. task.pc \in {"tabs", "pop"} /\ UNCHANGED ipcVars
      BY <1>5 DEF NothingToAttach, CannotAllocate, Allocating
    <2>2. match'.state = match.state
      BY <1>0, <1>5 DEF NothingToAttach, CannotAllocate, Allocating, MatchRecord
    <2> QED
      BY <2>1, <2>2, NotAwaiting DEF SocketMove, Spares, ipcVars
  <1>6. CASE RevokeFormerLife
    <2>1. task.wait = "none" /\ UNCHANGED <<engine, journal, acks, match>>
      BY <1>6 DEF RevokeFormerLife
    <2> QED
      BY <1>6, <2>1, NotAwaiting, FormerSpares DEF SocketMove
  <1>7. CASE Allocate
    <2>1. task.pc \in {"tabs", "pop"} /\ UNCHANGED <<engine, journal, acks>>
      BY <1>7 DEF Allocate, Allocating
    <2>2. match'.state = match.state
      BY <1>0, <1>7 DEF Allocate, Allocating, MatchRecord
    <2> QED
      BY <1>7, <2>1, <2>2, NotAwaiting, AdmissionSpares DEF SocketMove
  <1>8. CASE \E c \in Conns : DetachBegin(c)
    <2>1. task.wait = "none" /\ UNCHANGED <<engine, journal, acks, match>>
      BY <1>0, <1>8 DEF DetachBegin, Idle, TaskShape
    <2> QED
      BY <1>8, <2>1, NotAwaiting, DetachSpares DEF SocketMove
  <1>9. CASE Gone \/ LeaveEnds
    <2>1. task.pc \in {"gone", "finish"} /\ UNCHANGED ipcVars
      BY <1>9 DEF Gone, LeaveEnds
    <2>2. match'.state = match.state
      BY <1>0, <1>9 DEF Gone, LeaveEnds, MatchRecord
    <2> QED
      BY <2>1, <2>2, NotAwaiting DEF SocketMove, Spares, ipcVars
  <1>10. CASE \E p \in Players : LeaveBegin(p)
    <2>1. task.wait = "none" /\ UNCHANGED <<engine, journal, acks, match>>
      BY <1>0, <1>10 DEF LeaveBegin, Idle, TaskShape
    <2> QED
      BY <1>10, <2>1, NotAwaiting, LeaveSpares DEF SocketMove
  <1> QED
    BY <1>1, <1>2, <1>3, <1>4, <1>5, <1>6, <1>7, <1>8, <1>9, <1>10
       DEF TaskStep, ReplayStep, AttachStep, DetachStep, LeaveMatchStep

\* The engine moves alone, or is lost, or a match begins, or one goes on.
LEMMA SocketMoves ==
  ASSUME GInv, GInv', SeatInv, SeatInv', [GameNext]_gameVars, ~StaleRevoke,
         match'.state = "open"
  PROVE  \/ EngineStep /\ UNCHANGED <<vars, serverVars>>
         \/ engine' = NoEngine /\ toEngine' = <<>> /\ UNCHANGED <<acks, vars, serverVars>>
         \/ StartMatch
         \/ match.state = "open" /\ UNCHANGED <<engine, journal>> /\ SocketMove
  <1>0. match \in MatchRecord /\ TaskShape /\ match'.run # 0
    <2>1. (match.state = "open" => match.run # 0)'
      BY DEF GInv, MatchShape
    <2> QED
      BY <2>1 DEF GInv, ServerTyped
  <1>1. CASE TaskStep
    BY <1>1, TaskSockets
  <1>2. CASE EngineTerminates \/ EngineCrashes
    BY <1>2 DEF EngineTerminates, EngineCrashes, EngineExits
  <1>3. CASE DropAck
    BY <1>3 DEF DropAck, SocketMove, serverVars
  <1>4. CASE MatchStep
    <2>1. CASE TickBegin \/ Renewed
      <3>1. task.wait \in {"none"} \/ task.pc = "renew"
        BY <1>0, <2>1 DEF TickBegin, Renewed, Idle, TaskShape
      <3>2. UNCHANGED <<ipcVars, match>>
        BY <2>1 DEF TickBegin, Renewed
      <3> QED
        BY <3>1, <3>2, NotAwaiting DEF SocketMove, Spares, ipcVars
    <2>2. CASE VisitStops \/ VisitEnds \/ SocketEof \/ StopBegin \/ StopEnds
      <3>1. match'.state # "open"
        BY <1>0, <2>2 DEF VisitStops, VisitEnds, SocketEof, StopBegin, StopEnds, Stopping,
                          Closed, NoMatch, MatchRecord
      <3> QED
        BY <3>1
    <2> QED
      BY <1>4, <2>1, <2>2 DEF MatchStep
  <1>5. CASE \/ \E c \in Conns : EnsureBegin(c) \/ Connect(c)
             \/ \E p \in Players : LeaveWithoutMatch(p)
             \/ Restart \/ UnstartedStep \/ LedgerStep \/ UNCHANGED gameVars
    <2>1. UNCHANGED <<ipcVars, match, task>>
      BY <1>5 DEF EnsureBegin, Connect, LeaveWithoutMatch, Restart,
                  UnstartedStep, VisitBlocks, EnsureDrops, LedgerStep, serverVars,
                  gameVars
    <2> QED
      BY <2>1 DEF SocketMove, ipcVars
  <1>6. CASE RecoveryStep
    <2>1. mgr.op # "none" \/ mgr.pc # "idle"
      BY <1>6 DEF RecoveryStep, RecoverNext, JournalMissing, RecoverApply, Recovered, InsertRun,
                  StartMatch, StartFails, LeaveRecovered
    <2>2. match.run = 0
      BY <2>1, MgrAlone
    <2>3. StartMatch \/ UNCHANGED match
      BY <1>6 DEF RecoveryStep, RecoverNext, JournalMissing, RecoverApply, Recovered, InsertRun,
                  StartFails, LeaveRecovered
    <2> QED
      BY <1>0, <2>2, <2>3
  <1>7. CASE Crash
    BY <1>7 DEF Crash, NoMatch
  <1> QED
    BY <1>1, <1>2, <1>3, <1>4, <1>5, <1>6, <1>7 DEF GameNext

----------------------------------------------------------------------------
(* An admission and a forfeiture are awaited.                               *)

\* Packets and answers are typed.
LEMMA SocketTyped ==
  ASSUME EngineTyped
  PROVE  /\ Len(toEngine) \in Nat /\ Len(acks) \in Nat
         /\ \A n \in 1 .. Len(toEngine) : toEngine[n] \in Packet
         /\ \A n \in 1 .. Len(acks) : acks[n] \in Ack
  BY DEF EngineTyped

\* While nothing is awaited there are only revocations on the socket.
LEMMA Unawaited ==
  ASSUME GInv, PacketsAwaited, AcksAwaited, match.state = "open", ~Awaiting
  PROVE  /\ \A n \in 1 .. Len(toEngine) : toEngine[n].kind = "revoke"
         /\ \A n \in 1 .. Len(acks) : acks[n].kind = "revoke"
  <1>0. EngineTyped
    BY DEF GInv
  <1>1. \A n \in 1 .. Len(toEngine) : toEngine[n].kind \in Kinds
    BY <1>0, SocketTyped DEF Packet
  <1>2. \A n \in 1 .. Len(acks) : acks[n].kind \in Kinds
    BY <1>0, SocketTyped DEF Ack
  <1> QED
    BY <1>1, <1>2 DEF PacketsAwaited, AcksAwaited, Awaiting, Kinds

\* What the first answer tells when it is not one to a revocation.
LEMMA AwaitedRead ==
  ASSUME GInv, AcksAwaited, match.state = "open", acks # <<>>, acks' = Tail(acks),
         Head(acks).kind # "revoke"
  PROVE  toEngine = <<>> /\ \A n \in 1 .. Len(acks') : FALSE
  <1>1. /\ 1 \in 1 .. Len(acks) /\ Head(acks) = acks[1]
        /\ Len(acks) \in Nat /\ Len(acks') = Len(acks) - 1
    BY AckRead DEF GInv
  <1>2. acks[1].kind # "revoke"
    BY <1>1
  <1>3. 1 = Len(acks) /\ toEngine = <<>>
    BY <1>1, <1>2 DEF AcksAwaited
  <1>4. Len(acks) = 1 /\ Len(acks') = Len(acks) - 1
    BY <1>1, <1>3
  <1>5. \A m \in 1 .. Len(acks') : FALSE
    <2> SUFFICES ASSUME NEW k, k = Len(acks'), NEW j, j = Len(acks) PROVE \A m \in 1 .. k : FALSE
      OBVIOUS
    <2>1. j = 1 /\ k = j - 1
      BY <1>4
    <2> QED
      BY <2>1
  <1> QED
    BY <1>3, <1>5

LEMMA PacketsStep ==
  ASSUME GInv, GInv', SeatInv, SeatInv', PacketsAwaited, AcksAwaited,
         [GameNext]_gameVars, ~StaleRevoke
  PROVE  PacketsAwaited'
  <1> SUFFICES ASSUME match'.state = "open",
                      NEW n \in 1 .. Len(toEngine'), toEngine'[n].kind # "revoke"
               PROVE  /\ n = Len(toEngine')
                      /\ Waits(task', toEngine'[n].kind)
                      /\ toEngine'[n].slot = task'.slot
                      /\ toEngine'[n].kind = "admit" => toEngine'[n].life = task'.life
    BY DEF PacketsAwaited, Awaits
  <1>0. EngineTyped /\ Len(toEngine) \in Nat
    BY SocketTyped DEF GInv
  <1>1. ASSUME UNCHANGED task, match.state = "open",
               NEW m \in 1 .. Len(toEngine), toEngine'[n] = toEngine[m],
               m = Len(toEngine) => n = Len(toEngine')
        PROVE  /\ n = Len(toEngine')
               /\ Waits(task', toEngine'[n].kind)
               /\ toEngine'[n].slot = task'.slot
               /\ toEngine'[n].kind = "admit" => toEngine'[n].life = task'.life
    BY <1>1 DEF PacketsAwaited, Awaits
  <1>2. CASE EngineStep /\ UNCHANGED <<vars, serverVars>>
    <2>1. UNCHANGED <<task, match>>
      BY <1>2 DEF serverVars
    <2>2. CASE UNCHANGED toEngine
      BY <1>1, <2>1, <2>2
    <2>3. ASSUME NEW s \in Slots, NEW kind \in Kinds, Takes(kind, s)
          PROVE  /\ n + 1 \in 1 .. Len(toEngine) /\ toEngine'[n] = toEngine[n + 1]
                 /\ Len(toEngine') = Len(toEngine) - 1
      BY <1>0, <2>3, TakesPacket
    <2>4. EngineMove
      BY <1>2, EngineMoves
    <2>5. CASE \E s \in Slots, kind \in Kinds : Takes(kind, s)
      <3>1. /\ n + 1 \in 1 .. Len(toEngine) /\ toEngine'[n] = toEngine[n + 1]
            /\ n + 1 = Len(toEngine) => n = Len(toEngine')
        BY <1>0, <2>3, <2>5
      <3> QED
        BY <1>1, <2>1, <3>1
    <2> QED
      BY <2>2, <2>4, <2>5 DEF EngineMove
  <1>3. CASE toEngine' = <<>>
    BY <1>3
  <1>4. CASE StartMatch
    BY <1>3, <1>4 DEF StartMatch, EngineStarts
  <1>5. CASE match.state = "open" /\ SocketMove
    <2>1. CASE UNCHANGED <<toEngine, task>>
      BY <1>1, <1>5, <2>1
    <2>2. CASE ~Awaiting /\ UNCHANGED toEngine
      BY <1>5, <2>2, Unawaited
    <2>3. ASSUME ~Awaiting, NEW pkt \in Packet, Sent(pkt)
          PROVE  /\ n = Len(toEngine')
                 /\ Waits(task', toEngine'[n].kind)
                 /\ toEngine'[n].slot = task'.slot
                 /\ toEngine'[n].kind = "admit" => toEngine'[n].life = task'.life
      <3>1. /\ Len(toEngine') = Len(toEngine) + 1
            /\ \A m \in 1 .. Len(toEngine) : toEngine'[m] = toEngine[m]
            /\ toEngine'[Len(toEngine) + 1] = pkt
        BY <1>0, <2>3, PacketSent DEF Sent
      <3>2. \A m \in 1 .. Len(toEngine) : toEngine[m].kind = "revoke"
        BY <1>5, <2>3, Unawaited
      <3>3. n \notin 1 .. Len(toEngine)
        BY <3>1, <3>2
      <3>4. n = Len(toEngine) + 1
        BY <1>0, <3>1, <3>3
      <3>5. n = Len(toEngine') /\ toEngine'[n] = pkt /\ pkt.kind # "revoke"
        BY <3>1, <3>4
      <3>6. pkt.kind \in Kinds
        BY DEF Packet
      <3>7. Waits(task', pkt.kind)
        BY <2>3, <3>5, <3>6 DEF Sent, Waits, Kinds
      <3> QED
        BY <2>3, <3>5, <3>7 DEF Sent
    <2>4. CASE acks # <<>> /\ acks' = Tail(acks) /\ UNCHANGED toEngine /\ Head(acks).kind # "revoke"
      BY <1>5, <2>4, AwaitedRead
    <2> QED
      BY <1>5, <2>1, <2>2, <2>3, <2>4 DEF SocketMove, Spares
  <1> QED
    BY <1>2, <1>3, <1>4, <1>5, SocketMoves

LEMMA AcksStep ==
  ASSUME GInv, GInv', SeatInv, SeatInv', PacketsAwaited, AcksAwaited,
         [GameNext]_gameVars, ~StaleRevoke
  PROVE  AcksAwaited'
  <1> SUFFICES ASSUME match'.state = "open", NEW n \in 1 .. Len(acks'), acks'[n].kind # "revoke"
               PROVE  /\ n = Len(acks')
                      /\ toEngine' = <<>>
                      /\ Waits(task', acks'[n].kind)
    BY DEF AcksAwaited, Awaits
  <1>0. EngineTyped /\ Len(toEngine) \in Nat /\ Len(acks) \in Nat
    BY SocketTyped DEF GInv
  <1>1. ASSUME UNCHANGED task, match.state = "open", toEngine = <<>> => toEngine' = <<>>,
               NEW m \in 1 .. Len(acks), acks'[n] = acks[m],
               m = Len(acks) => n = Len(acks')
        PROVE  /\ n = Len(acks')
               /\ toEngine' = <<>>
               /\ Waits(task', acks'[n].kind)
    BY <1>1 DEF AcksAwaited, Awaits
  <1>2. CASE EngineStep /\ UNCHANGED <<vars, serverVars>>
    <2>1. UNCHANGED <<task, match>>
      BY <1>2 DEF serverVars
    <2>2. CASE UNCHANGED <<toEngine, acks>>
      BY <1>1, <2>1, <2>2
    <2>3. ASSUME NEW s \in Slots, NEW kind \in Kinds, Takes(kind, s)
          PROVE  /\ n = Len(acks')
                 /\ toEngine' = <<>>
                 /\ Waits(task', acks'[n].kind)
      <3>1. /\ toEngine' \in Seq(Packet) /\ Len(toEngine') = Len(toEngine) - 1
            /\ 1 \in 1 .. Len(toEngine) /\ toEngine[1].kind = kind
            /\ Len(acks') = Len(acks) + 1
            /\ \A m \in 1 .. Len(acks) : acks'[m] = acks[m]
            /\ acks'[Len(acks) + 1] = [kind |-> kind, slot |-> s]
        BY <1>0, <2>3, TakesPacket
      <3>2. toEngine # <<>>
        BY <2>3 DEF Takes
      <3>3. n \notin 1 .. Len(acks)
        BY <2>1, <3>1, <3>2 DEF AcksAwaited
      <3>4. n = Len(acks) + 1
        BY <1>0, <3>1, <3>3
      <3>5. n = Len(acks') /\ acks'[n].kind = kind /\ kind # "revoke"
        BY <3>1, <3>4
      <3>6. 1 = Len(toEngine) /\ Awaits(kind)
        BY <2>1, <3>1, <3>5 DEF PacketsAwaited
      <3>7. toEngine' = <<>>
        <4>1. Len(toEngine') = 0
          <5> SUFFICES ASSUME NEW k, k = Len(toEngine'), NEW j, j = Len(toEngine) PROVE k = 0
            OBVIOUS
          <5>1. j = 1 /\ k = j - 1
            BY <3>1, <3>6
          <5> QED
            BY <5>1
        <4> QED
          BY <3>1, <4>1, EmptySeq
      <3> QED
        BY <2>1, <3>5, <3>6, <3>7 DEF Awaits
    <2>4. EngineMove
      BY <1>2, EngineMoves
    <2> QED
      BY <2>2, <2>3, <2>4 DEF EngineMove
  <1>3. CASE engine' = NoEngine /\ toEngine' = <<>> /\ UNCHANGED <<acks, vars, serverVars>>
    BY <1>1, <1>3 DEF serverVars
  <1>4. CASE StartMatch
    <2>1. acks' = <<>>
      BY <1>4 DEF StartMatch, EngineStarts
    <2> QED
      BY <2>1
  <1>5. CASE match.state = "open" /\ SocketMove
    <2>1. CASE UNCHANGED <<toEngine, acks, task>>
      BY <1>1, <1>5, <2>1
    <2>2. CASE ~Awaiting /\ UNCHANGED acks
      BY <1>5, <2>2, Unawaited
    <2>3. CASE acks # <<>> /\ acks' = Tail(acks) /\ UNCHANGED toEngine
               /\ (UNCHANGED task \/ ~Awaiting \/ Head(acks).kind # "revoke")
      <3>1. /\ Len(acks') = Len(acks) - 1 /\ n + 1 \in 1 .. Len(acks) /\ acks'[n] = acks[n + 1]
        BY <1>0, <2>3, AckRead
      <3>2. CASE UNCHANGED task
        <4>1. n + 1 = Len(acks) => n = Len(acks')
          BY <1>0, <3>1
        <4> QED
          BY <1>1, <1>5, <2>3, <3>1, <3>2, <4>1
      <3>3. CASE ~Awaiting
        BY <1>5, <3>1, <3>3, Unawaited
      <3>4. CASE Head(acks).kind # "revoke"
        BY <1>5, <2>3, <3>4, AwaitedRead
      <3> QED
        BY <2>3, <3>2, <3>3, <3>4
    <2> QED
      BY <1>5, <2>1, <2>2, <2>3 DEF SocketMove
  <1> QED
    BY <1>2, <1>3, <1>4, <1>5, SocketMoves

----------------------------------------------------------------------------
(* What stays from one step to the next.                                    *)

\* Whoever plays after a step played before it.
LEMMA StillPlays ==
  ASSUME GInv, [GameNext]_gameVars, NEW p \in Players, participants'[p] = "playing"
  PROVE  participants[p] = "playing"
  <1>0. participants \in [Players -> Participant] /\ IInv
    BY DEF GInv, IInv, TypeOK
  <1>1. CASE UNCHANGED participants
    BY <1>1
  <1>2. ASSUME NEW q \in Players, FinishLeave(q, match.run) \/ FinishLeave(q, NoId)
        PROVE  participants[p] = "playing"
    BY <1>0, <1>2 DEF FinishLeave
  <1>3. CASE ApplyEvent \/ RecoverApply
    <2>1. \E r \in RunIds : \E n : ApplyLine(r, n)
      <3>1. CASE ApplyEvent
        BY <3>1, TaskOps, TaskMatch DEF ApplyEvent
      <3>2. CASE RecoverApply
        BY <3>2 DEF RecoverApply, GInv, MgrShape
      <3> QED
        BY <1>3, <3>1, <3>2
    <2> QED
      BY <1>1, <2>1 DEF ApplyLine, ConsumeDeath, SkipDeath, vars
  <1>4. CASE Allocate
    BY <1>1, <1>4 DEF Allocate, ResumeLife, NewLife, vars
  <1>5. CASE LeaveEnds
    BY <1>2, <1>5, TaskOps DEF LeaveEnds, GInv, LeaveShape
  <1>6. CASE LeaveRecovered
    BY <1>2, <1>6 DEF LeaveRecovered, GInv, MgrShape
  <1>7. CASE StopEnds \/ Recovered \/ InsertRun \/ StartFails
    BY <1>1, <1>7 DEF StopEnds, Recovered, InsertRun, StartFails, StopRun, RecoverRun, StartRun,
                      ReleaseLives, vars
  <1>8. CASE LedgerStep
    BY <1>0, <1>1, <1>8 DEF LedgerStep, CloseGame, RequestLeave, LeaseExpires
  <1>9. CASE \E c \in Conns : EnsureBegin(c)
    BY <1>1, <1>9 DEF EnsureBegin, LeaseArena, vars
  <1>10. CASE \/ OperationFails \/ DeadPeerRevoked
              \/ (\E c \in Conns : AttachBegin(c)) \/ NothingToAttach \/ RevokeFormerLife
              \/ FormerLifeRevoked \/ CannotAllocate \/ Admitted
              \/ DetachStep \/ (\E q \in Players : LeaveBegin(q)) \/ Withdrawn
    <2>1. UNCHANGED vars
      BY <1>10 DEF OperationFails, DeadPeerRevoked, AttachBegin, NothingToAttach, RevokeFormerLife,
                   FormerLifeRevoked, CannotAllocate, Admitted, DetachStep, Disconnect,
                   DetachBegin, Detached, Gone, LeaveBegin, Withdrawn
    <2> QED
      BY <1>1, <2>1 DEF vars
  <1>11. CASE \/ TickBegin \/ Renewed \/ VisitStops \/ VisitEnds \/ SocketEof \/ StopBegin
              \/ (\E r \in RunIds : RecoverNext(r) \/ JournalMissing(r)) \/ StartMatch
    <2>1. UNCHANGED vars
      BY <1>11 DEF TickBegin, Renewed, VisitStops, VisitEnds, SocketEof, StopBegin, RecoverNext,
                   JournalMissing, StartMatch
    <2> QED
      BY <1>1, <2>1 DEF vars
  <1>12. CASE \/ EngineStep /\ UNCHANGED <<vars, serverVars>>
              \/ EngineTerminates \/ EngineCrashes
              \/ DropAck \/ Crash \/ Restart \/ UnstartedStep
              \/ (\E q \in Players : LeaveWithoutMatch(q))
              \/ (\E c \in Conns : Connect(c))
              \/ UNCHANGED gameVars
    <2>1. UNCHANGED vars
      BY <1>12 DEF EngineTerminates, EngineCrashes, DropAck, Crash, Restart,
                   UnstartedStep, VisitBlocks, EnsureDrops, LeaveWithoutMatch,
                   Connect, gameVars
    <2> QED
      BY <1>1, <2>1 DEF vars
  <1> QED
    BY <1>3, <1>4, <1>5, <1>6, <1>7, <1>8, <1>9, <1>10, <1>11, <1>12
       DEF GameNext, TaskStep, ReplayStep, AttachStep, LeaveMatchStep, MatchStep, RecoveryStep

\* A match that is open before and after a step is the same.
LEMMA SameMatch ==
  ASSUME GInv, GInv', [GameNext]_gameVars, match.state = "open", match'.state = "open"
  PROVE  match.run \in RunIds /\ match.run # 0 /\ match'.run = match.run
  <1>1. match.run \in RunIds /\ match.run # 0
    BY TaskMatch
  <1>2. match'.run # 0
    BY DEF GInv, MatchShape
  <1>3. CASE Admitted
    BY <1>1, <1>3, AdmittedEnds
  <1>4. CASE ~Admitted
    BY <1>1, <1>2, <1>4, SeatMoves DEF Loosens
  <1> QED
    BY <1>1, <1>3, <1>4

\* What is written stays written.
WrittenNext(l) == \E n \in 1 .. Len(journal'[match'.run]) : journal'[match'.run][n].victim = l

LEMMA WrittenKept ==
  ASSUME GInv, [GameNext]_gameVars, match.run \in RunIds, match'.run = match.run,
         NEW l \in LifeIds, Written(l)
  PROVE  WrittenNext(l)
  <1>1. PICK n \in 1 .. Len(journal[match.run]) : journal[match.run][n].victim = l
    BY DEF Written
  <1>2. /\ Len(journal'[match.run]) \in Nat /\ Len(journal[match.run]) \in Nat
        /\ Len(journal[match.run]) <= Len(journal'[match.run])
        /\ journal'[match.run][n] = journal[match.run][n]
    BY JournalGrows
  <1>3. n \in 1 .. Len(journal'[match.run])
    BY <1>2
  <1> QED
    BY <1>1, <1>2, <1>3 DEF WrittenNext

\* A line that is appended is written.
LEMMA WrittenNow ==
  ASSUME GInv, match.run \in RunIds, match'.run = match.run, NEW line \in Line,
         journal' = [journal EXCEPT ![match.run] = Append(@, line)]
  PROVE  WrittenNext(line.victim)
  <1>1. /\ Len(journal'[match.run]) = Len(journal[match.run]) + 1
        /\ journal'[match.run][Len(journal[match.run]) + 1] = line
    BY AppendedLines DEF GInv
  <1>2. Len(journal[match.run]) \in Nat
    BY DEF GInv, EngineTyped
  <1> QED
    BY <1>1, <1>2 DEF WrittenNext

\* A seat that a step does not give was there, and so was its living player.
LEMMA PlaysBefore ==
  ASSUME GInv, GInv', SeatInv, SeatInv', [GameNext]_gameVars,
         match.state = "open", match'.state = "open",
         NEW c \in Conns, Seated(c)', PlaysOn(c)', Admitted => c # task.conn
  PROVE  /\ Seated(c) /\ PlaysOn(c)
         /\ conns'[c].life = conns[c].life /\ conns'[c].slot = conns[c].slot
         /\ conns[c].life \in LifeIds /\ conns[c].life # NoId /\ conns[c].slot \in Slots
  <1>0. match.run # 0 /\ match'.run = match.run
    BY SameMatch
  <1>1. Seated(c) /\ conns'[c].life = conns[c].life /\ conns'[c].slot = conns[c].slot
    <2>1. CASE ~Admitted
      BY <2>1, SeatMoves, SeatBefore
    <2>2. CASE Admitted
      <3>1. conns'[c] = conns[c]
        BY <2>2, AdmittedEnds
      <3>2. conns[c].slot \in Slots /\ conns[c].life # NoId /\ match'.peers[conns[c].slot] = c
        BY <3>1 DEF Seated, GInv, SeatShape
      <3>3. match.peers[conns[c].slot] = c
        BY <2>2, <3>2, AdmittedEnds
      <3> QED
        BY <3>1, <3>2, <3>3 DEF Seated
    <2> QED
      BY <2>1, <2>2
  <1>2. conns[c].life \in LifeIds /\ conns[c].life # NoId /\ conns[c].slot \in Slots
    BY <1>1, SeatedMatch DEF Seated, GInv, ServerTyped, SeatRecord
  <1>3. /\ lives[conns[c].life].run = match.run
        /\ lives[conns[c].life].status \notin {"none", "left"}
    BY <1>1, <1>2 DEF SeatInv, OwnLife, SeatedRow, LifeOf
  <1>4. lives[conns[c].life].status = "alive"
    <2>1. lives'[conns[c].life].status = "alive"
      BY <1>1 DEF PlaysOn, LifeOf
    <2> QED
      BY <1>0, <1>2, <1>3, <2>1, AdmittedRests DEF Rests
  <1>5. participants[Owner[c]] = "playing"
    BY GameBounds, StillPlays DEF PlaysOn
  <1> QED
    BY <1>1, <1>2, <1>4, <1>5 DEF PlaysOn, LifeOf

----------------------------------------------------------------------------
(* Every step keeps PaidInv, unless a stale seat is revoked.                *)

\* What the engine does to a life it plays: it plays on, or its end is written,
\* unless the engine takes another admission or a revocation of its slot.
LEMMA EnginePlays ==
  ASSUME GInv, EngineStep, UNCHANGED serverVars, On, match.run \in RunIds,
         NEW s \in Slots, NEW l \in LifeIds, Played(s, l)
  PROVE  \/ WrittenNext(l)
         \/ Takes("admit", s) \/ Takes("revoke", s)
         \/ Played(s, l)' /\ ~Takes("forfeit", s)
  <1>0. UNCHANGED match
    BY DEF serverVars
  <1>1. PICK t \in Slots :
               /\ \A u \in Slots \ {t} : /\ engine'.admission[u] = engine.admission[u]
                                         /\ Ends(u)' = Ends(u)
               /\ \/ /\ Takes("admit", t)
                     /\ Head(toEngine).life # NoId => Ends(t)'
                  \/ Takes("revoke", t)
                  \/ /\ UNCHANGED <<toEngine, acks>> \/ Takes("forfeit", t)
                     /\ Ends(t) => \E line \in Line :
                           /\ line.victim = engine.admission[t]
                           /\ journal' = [journal EXCEPT ![engine.run] = Append(@, line)]
    BY EngineEnds
  <1>2. CASE t # s
    <2>1. engine'.admission[s] = engine.admission[s] /\ Ends(s)'
      BY <1>1, <1>2 DEF Played
    <2>2. ~Takes("forfeit", s)
      BY <2>1 DEF Takes
    <2> QED
      BY <2>1, <2>2 DEF Played
  <1>3. CASE t = s
    <2>1. CASE Takes("admit", s) \/ Takes("revoke", s)
      BY <2>1
    <2>2. CASE ~(Takes("admit", s) \/ Takes("revoke", s))
      <3>1. PICK line \in Line :
               /\ line.victim = engine.admission[s]
               /\ journal' = [journal EXCEPT ![engine.run] = Append(@, line)]
        BY <1>1, <1>3, <2>2 DEF Played
      <3>2. WrittenNext(line.victim)
        BY <1>0, <3>1, WrittenNow DEF On
      <3> QED
        BY <3>1, <3>2 DEF Played
    <2> QED
      BY <2>1, <2>2
  <1> QED
    BY <1>2, <1>3

\* Played, after a step.
PlayedNext(s, l) == l # NoId /\ engine'.admission[s] = l /\ ~engine'.consumed[s]

\* The connection whose admission is under way.
LEMMA AdmittingTask ==
  ASSUME GInv, task.pc = "admit"
  PROVE  task.op = "attach" /\ task.conn \in Conns /\ task.slot \in Slots /\ task.life \in LifeIds
  BY TaskOps DEF GInv, TaskShape, AttachShape

LEMMA AdmissionEngine ==
  ASSUME GInv, GInv', PacketsAwaited, AcksAwaited, AdmissionPlayed, [GameNext]_gameVars,
         EngineStep, UNCHANGED <<vars, serverVars>>, On, match.run \in RunIds,
         NEW n \in 1 .. Len(acks'), acks'[n].kind = "admit"
  PROVE  WrittenNext(task.life) \/ PlayedNext(task.slot, task.life)
  <1>0. EngineTyped /\ Len(toEngine) \in Nat /\ Len(acks) \in Nat
    BY SocketTyped DEF GInv
  <1>1. match.state = "open" /\ UNCHANGED <<match, task>>
    BY DEF On, serverVars
  <1>2. EngineMove
    BY EngineMoves
  <1>3. CASE n \in 1 .. Len(acks) /\ acks'[n] = acks[n]
    <2>1. Awaits("admit") /\ toEngine = <<>>
      BY <1>1, <1>3 DEF AcksAwaited
    <2>2. task.slot \in Slots /\ task.life \in LifeIds
      BY <2>1, AdmittingTask DEF Awaits, Waits
    <2>3. Written(task.life) \/ Played(task.slot, task.life)
      BY <1>3 DEF AdmissionPlayed
    <2>4. CASE Written(task.life)
      BY <1>1, <2>2, <2>4, WrittenKept
    <2>5. CASE Played(task.slot, task.life)
      <3>1. PICK s \in Slots, l \in LifeIds : s = task.slot /\ l = task.life
        BY <2>2
      <3>2. Played(s, l) /\ ~Takes("admit", s) /\ ~Takes("revoke", s)
        BY <2>1, <2>5, <3>1 DEF Takes
      <3>3. WrittenNext(l) \/ Played(s, l)'
        BY <3>2, EnginePlays DEF serverVars
      <3>4. Played(s, l)' => PlayedNext(s, l)
        BY GameBounds DEF Played, Ends, PlayedNext
      <3> QED
        BY <3>1, <3>3, <3>4
    <2> QED
      BY <2>3, <2>4, <2>5
  <1>4. ASSUME NEW s \in Slots, NEW kind \in Kinds, Takes(kind, s), n \notin 1 .. Len(acks)
        PROVE  PlayedNext(task.slot, task.life)
    <2>1. /\ 1 \in 1 .. Len(toEngine) /\ toEngine[1].kind = kind /\ toEngine[1].slot = s
          /\ Len(acks') = Len(acks) + 1
          /\ acks'[Len(acks) + 1] = [kind |-> kind, slot |-> s]
      BY <1>0, <1>4, TakesPacket
    <2>2. n = Len(acks) + 1
      BY <1>0, <1>4, <2>1
    <2>3. kind = "admit"
      BY <2>1, <2>2
    <2>4. Awaits("admit") /\ task.slot = s /\ toEngine[1].life = task.life
      BY <1>1, <2>1, <2>3 DEF PacketsAwaited
    <2>5. task.life \in LifeIds
      BY <2>4, AdmittingTask DEF Awaits, Waits
    <2>6. Head(toEngine) = toEngine[1]
      BY <1>0, <2>1, HeadTailProperties, EmptySeq DEF EngineTyped
    <2>7. PICK t \in Slots :
               /\ \A u \in Slots \ {t} : /\ engine'.admission[u] = engine.admission[u]
                                         /\ Ends(u)' = Ends(u)
               /\ \/ /\ Takes("admit", t)
                     /\ Head(toEngine).life # NoId => Ends(t)'
                  \/ Takes("revoke", t)
                  \/ UNCHANGED <<toEngine, acks>>
                  \/ Takes("forfeit", t)
      BY EngineEnds
    <2>8. t = s /\ Takes("admit", s) /\ Ends(s)'
      BY <1>0, <1>4, <2>1, <2>3, <2>5, <2>4, <2>6, <2>7, GameBounds DEF Takes
    <2> QED
      BY <2>4, <2>5, <2>6, <2>8, GameBounds DEF Takes, Ends, PlayedNext
  <1>5. CASE UNCHANGED <<toEngine, acks>>
    BY <1>3, <1>5
  <1>6. ASSUME NEW s \in Slots, NEW kind \in Kinds, Takes(kind, s)
        PROVE  WrittenNext(task.life) \/ PlayedNext(task.slot, task.life)
    <2>1. CASE n \in 1 .. Len(acks)
      BY <1>0, <1>3, <1>6, <2>1, TakesPacket
    <2> QED
      BY <1>4, <1>6, <2>1
  <1> QED
    BY <1>2, <1>5, <1>6 DEF EngineMove

\* The answer to an admission, read or on its way, is the only one.
LEMMA AdmissionStep ==
  ASSUME GInv, GInv', SeatInv, SeatInv', PacketsAwaited, AcksAwaited, AdmissionPlayed,
         [GameNext]_gameVars, ~StaleRevoke
  PROVE  AdmissionPlayed'
  <1> SUFFICES ASSUME On', NEW n \in 1 .. Len(acks'), acks'[n].kind = "admit"
               PROVE  WrittenNext(task'.life) \/ PlayedNext(task'.slot, task'.life)
    BY DEF AdmissionPlayed, Played, Written, WrittenNext, PlayedNext, Ends
  <1>0. EngineTyped /\ Len(toEngine) \in Nat /\ Len(acks) \in Nat
    BY SocketTyped DEF GInv
  <1>1. match'.state = "open" /\ match'.run # 0 /\ engine'.run = match'.run
    BY DEF On, GInv, MatchShape
  <1>2. CASE EngineStep /\ UNCHANGED <<vars, serverVars>>
    <2>1. UNCHANGED <<match, task>> /\ engine'.run = engine.run
      BY <1>2, EngineEnds DEF serverVars
    <2>2. On /\ match.run \in RunIds
      BY <1>1, <2>1, SameMatch DEF On
    <2> QED
      BY <1>2, <2>1, <2>2, AdmissionEngine
  <1>3. CASE engine' = NoEngine
    BY <1>1, <1>3 DEF NoEngine
  <1>4. CASE StartMatch
    <2>1. acks' = <<>>
      BY <1>4 DEF StartMatch, EngineStarts
    <2> QED
      BY <2>1
  <1>5. CASE match.state = "open" /\ UNCHANGED <<engine, journal>> /\ SocketMove
    <2>0. match'.run = match.run /\ match.run \in RunIds /\ On
      BY <1>1, <1>5, SameMatch DEF On
    <2>1. ASSUME UNCHANGED task, NEW m \in 1 .. Len(acks), acks'[n] = acks[m]
          PROVE  WrittenNext(task'.life) \/ PlayedNext(task'.slot, task'.life)
      <3>1. Written(task.life) \/ Played(task.slot, task.life)
        BY <2>0, <2>1 DEF AdmissionPlayed
      <3>2. Awaits("admit")
        BY <1>5, <2>1 DEF AcksAwaited
      <3>3. task.life \in LifeIds
        BY <3>2, AdmittingTask DEF Awaits, Waits
      <3>4. Written(task.life) => WrittenNext(task.life)
        BY <2>0, <3>3, WrittenKept
      <3>5. Played(task.slot, task.life) => PlayedNext(task.slot, task.life)
        BY <1>5, <3>3, GameBounds DEF Played, Ends, PlayedNext
      <3> QED
        BY <2>1, <3>1, <3>4, <3>5
    <2>2. CASE UNCHANGED <<toEngine, acks, task>>
      BY <2>1, <2>2
    <2>3. CASE ~Awaiting /\ UNCHANGED acks
      BY <1>5, <2>3, Unawaited
    <2>4. CASE acks # <<>> /\ acks' = Tail(acks) /\ UNCHANGED toEngine
               /\ (UNCHANGED task \/ ~Awaiting \/ Head(acks).kind # "revoke")
      <3>1. n + 1 \in 1 .. Len(acks) /\ acks'[n] = acks[n + 1]
        BY <1>0, <2>4, AckRead
      <3>2. CASE UNCHANGED task
        BY <2>1, <3>1, <3>2
      <3>3. CASE ~Awaiting
        BY <1>5, <3>1, <3>3, Unawaited
      <3>4. CASE Head(acks).kind # "revoke"
        BY <1>5, <2>4, <3>4, AwaitedRead
      <3> QED
        BY <2>4, <3>2, <3>3, <3>4
    <2> QED
      BY <1>5, <2>2, <2>3, <2>4 DEF SocketMove
  <1> QED
    BY <1>1, <1>2, <1>3, <1>4, <1>5, SocketMoves

\* A living player with a seat is played until the journal says the end.
LEMMA SeatPlayedStep ==
  ASSUME GInv, GInv', SeatInv, SeatInv', PaidInv, [GameNext]_gameVars, ~StaleRevoke
  PROVE  SeatPlayed'
  <1> SUFFICES ASSUME On', NEW c \in Conns, Seated(c)', PlaysOn(c)'
               PROVE  \/ WrittenNext(conns'[c].life)
                      \/ /\ PlayedNext(conns'[c].slot, conns'[c].life)
                         /\ \A n \in 1 .. Len(toEngine') :
                               toEngine'[n].slot = conns'[c].slot => toEngine'[n].kind = "forfeit"
    BY DEF SeatPlayed, Played, Written, WrittenNext, PlayedNext, Ends
  <1>0. /\ EngineTyped /\ Len(toEngine) \in Nat /\ Len(acks) \in Nat
        /\ PacketsAwaited /\ AcksAwaited /\ AdmissionPlayed /\ SeatPlayed
    BY SocketTyped DEF GInv, PaidInv
  <1>1. match'.state = "open" /\ match'.run # 0 /\ engine'.run = match'.run
    BY DEF On, GInv, MatchShape
  <1>2. ASSUME match.state = "open", On, Admitted => c # task.conn
        PROVE  /\ match'.run = match.run /\ match.run \in RunIds
               /\ conns'[c].life = conns[c].life /\ conns'[c].slot = conns[c].slot
               /\ conns[c].life \in LifeIds /\ conns[c].life # NoId /\ conns[c].slot \in Slots
               /\ \/ WrittenNext(conns[c].life)
                  \/ /\ Played(conns[c].slot, conns[c].life)
                     /\ \A n \in 1 .. Len(toEngine) :
                           toEngine[n].slot = conns[c].slot => toEngine[n].kind = "forfeit"
    <2>1. match'.run = match.run /\ match.run \in RunIds
      BY <1>1, <1>2, SameMatch
    <2>2. /\ Seated(c) /\ PlaysOn(c)
          /\ conns'[c].life = conns[c].life /\ conns'[c].slot = conns[c].slot
          /\ conns[c].life \in LifeIds /\ conns[c].life # NoId /\ conns[c].slot \in Slots
      BY <1>1, <1>2, PlaysBefore
    <2>3. Written(conns[c].life) => WrittenNext(conns[c].life)
      BY <2>1, <2>2, WrittenKept
    <2> QED
      BY <1>0, <1>2, <2>1, <2>2, <2>3 DEF SeatPlayed
  <1>3. CASE EngineStep /\ UNCHANGED <<vars, serverVars>>
    <2>1. UNCHANGED <<match, task>> /\ engine'.run = engine.run
      BY <1>3, EngineEnds DEF serverVars
    <2>2. match.state = "open" /\ On
      BY <1>1, <2>1 DEF On
    <2>3. ~Admitted
      <3>1. task.pc = "admit" => task' # NoTask
        BY <2>1, TaskDone
      <3> QED
        BY <3>1 DEF Admitted
    <2>4. PICK s \in Slots, l \in LifeIds : s = conns[c].slot /\ l = conns[c].life
      BY <1>2, <2>2, <2>3
    <2>5. CASE WrittenNext(l)
      BY <1>2, <2>2, <2>3, <2>4, <2>5
    <2>6. CASE /\ Played(s, l)
               /\ \A n \in 1 .. Len(toEngine) :
                     toEngine[n].slot = s => toEngine[n].kind = "forfeit"
      <3>1. ASSUME NEW kind \in Kinds, Takes(kind, s) PROVE kind = "forfeit"
        BY <1>0, <2>6, <3>1, TakesPacket
      <3>2. WrittenNext(l) \/ Played(s, l)'
        BY <1>2, <1>3, <2>2, <2>3, <2>6, <3>1, EnginePlays DEF Kinds
      <3>3. Played(s, l)' => PlayedNext(s, l)
        BY GameBounds DEF Played, Ends, PlayedNext
      <3>4. EngineMove
        BY <1>3, EngineMoves
      <3>5. ASSUME NEW n \in 1 .. Len(toEngine'), toEngine'[n].slot = s
            PROVE  toEngine'[n].kind = "forfeit"
        <4>1. CASE UNCHANGED toEngine
          BY <2>6, <3>5, <4>1
        <4>2. ASSUME NEW t \in Slots, NEW kind \in Kinds, Takes(kind, t)
              PROVE  toEngine'[n].kind = "forfeit"
          <5>1. n + 1 \in 1 .. Len(toEngine) /\ toEngine'[n] = toEngine[n + 1]
            BY <1>0, <4>2, TakesPacket
          <5> QED
            BY <2>6, <3>5, <5>1
        <4> QED
          BY <3>4, <4>1, <4>2 DEF EngineMove
      <3> QED
        BY <1>2, <2>2, <2>3, <2>4, <3>2, <3>3, <3>5
    <2> QED
      BY <1>2, <2>2, <2>3, <2>4, <2>5, <2>6
  <1>4. CASE engine' = NoEngine
    BY <1>1, <1>4 DEF NoEngine
  <1>5. CASE StartMatch
    <2>1. match' = [NoMatch EXCEPT !.run = arena.run_id, !.state = "open"]
      BY <1>5 DEF StartMatch
    <2>2. conns'[c].slot \in Slots /\ match'.peers[conns'[c].slot] = c
      BY DEF Seated, GInv, SeatShape
    <2> QED
      BY <2>1, <2>2, GameBounds DEF NoMatch
  <1>6. CASE match.state = "open" /\ UNCHANGED <<engine, journal>> /\ SocketMove
    <2>0. match'.run = match.run /\ match.run \in RunIds /\ On
      BY <1>1, <1>6, SameMatch DEF On
    <2>1. CASE Admitted /\ c = task.conn
      <3>1. /\ conns'[c].life = task.life /\ conns'[c].slot = task.slot
            /\ task.life \in LifeIds /\ task.slot \in Slots
        BY <2>1, AdmittedEnds
      <3>2. acks # <<>> /\ acks' = Tail(acks) /\ Head(acks).kind = "admit" /\ UNCHANGED toEngine
        BY <2>1 DEF Admitted, Answered
      <3>3. 1 \in 1 .. Len(acks) /\ acks[1].kind = "admit"
        BY <1>0, <3>2, AckRead
      <3>4. Written(task.life) \/ Played(task.slot, task.life)
        BY <1>0, <2>0, <3>3 DEF AdmissionPlayed
      <3>5. Written(task.life) => WrittenNext(task.life)
        BY <2>0, <3>1, WrittenKept
      <3>6. Played(task.slot, task.life) => PlayedNext(task.slot, task.life)
        BY <1>6, <3>1, GameBounds DEF Played, Ends, PlayedNext
      <3>7. toEngine' = <<>>
        BY <1>0, <1>6, <3>2, <3>3 DEF AcksAwaited
      <3> QED
        BY <3>1, <3>4, <3>5, <3>6, <3>7
    <2>2. CASE ~(Admitted /\ c = task.conn)
      <3>1. Played(conns[c].slot, conns[c].life) => PlayedNext(conns[c].slot, conns[c].life)
        BY <1>6, GameBounds DEF Played, Ends, PlayedNext
      <3>2. \/ UNCHANGED toEngine
            \/ \E pkt \in Packet : /\ toEngine' = Append(toEngine, pkt)
                                   /\ pkt.kind = "forfeit" \/ Bare(pkt.slot)'
        BY <1>6 DEF SocketMove, Spares, Sent
      <3>3. ASSUME NEW pkt \in Packet, toEngine' = Append(toEngine, pkt),
                   pkt.kind = "forfeit" \/ Bare(pkt.slot)',
                   \A n \in 1 .. Len(toEngine) :
                      toEngine[n].slot = conns'[c].slot => toEngine[n].kind = "forfeit",
                   NEW n \in 1 .. Len(toEngine'), toEngine'[n].slot = conns'[c].slot
            PROVE  toEngine'[n].kind = "forfeit"
        <4>1. /\ Len(toEngine') = Len(toEngine) + 1
              /\ \A m \in 1 .. Len(toEngine) : toEngine'[m] = toEngine[m]
              /\ toEngine'[Len(toEngine) + 1] = pkt
          BY <1>0, <3>3, PacketSent
        <4>2. pkt.kind = "forfeit" \/ conns'[c].slot # pkt.slot
          BY <3>3 DEF Bare
        <4>3. n \in 1 .. Len(toEngine) \/ n = Len(toEngine) + 1
          BY <1>0, <4>1
        <4> QED
          BY <3>3, <4>1, <4>2, <4>3
      <3> QED
        BY <1>2, <1>6, <2>0, <2>2, <3>1, <3>2, <3>3
    <2> QED
      BY <2>1, <2>2
  <1> QED
    BY <1>1, <1>3, <1>4, <1>5, <1>6, SocketMoves

\* A detach under way has ended the life it forfeits, or will.
LEMMA DetachPaidStep ==
  ASSUME GInv, GInv', SeatInv, SeatInv', PaidInv, [GameNext]_gameVars, ~StaleRevoke
  PROVE  DetachPaid'
  <1> DEFINE Paid(c) ==
        \/ WrittenNext(conns'[c].life)
        \/ /\ task'.pc = "detach"
           /\ task'.wait \in {"forfeit", "failed"}
           /\ task'.slot = conns'[c].slot
           /\ \A n \in 1 .. Len(acks') : acks'[n].kind # "forfeit"
  <1> SUFFICES ASSUME On', task'.op = "detach", NEW c \in Conns, c = task'.conn,
                      Seated(c)', PlaysOn(c)'
               PROVE  Paid(c)
    <2>1. task'.op = "detach" => task'.conn \in Conns
      BY DEF GInv, TaskShape, DetachShape
    <2> QED
      BY <2>1 DEF DetachPaid, Seated, PlaysOn, LifeOf, Written, WrittenNext
  <1>0. /\ EngineTyped /\ Len(toEngine) \in Nat /\ Len(acks) \in Nat
        /\ PacketsAwaited /\ AcksAwaited /\ SeatPlayed /\ DetachPaid
    BY SocketTyped DEF GInv, PaidInv
  <1>1. match'.state = "open" /\ match'.run # 0 /\ engine'.run = match'.run
    BY DEF On, GInv, MatchShape
  <1>2. ~Admitted
    BY AdmittedEnds
  <1>3. ASSUME match.state = "open", On
        PROVE  /\ match'.run = match.run /\ match.run \in RunIds
               /\ Seated(c) /\ PlaysOn(c)
               /\ conns'[c].life = conns[c].life /\ conns'[c].slot = conns[c].slot
               /\ conns[c].life \in LifeIds /\ conns[c].slot \in Slots
               /\ Written(conns[c].life) => WrittenNext(conns'[c].life)
    <2>1. match'.run = match.run /\ match.run \in RunIds
      BY <1>1, <1>3, SameMatch
    <2>2. /\ Seated(c) /\ PlaysOn(c)
          /\ conns'[c].life = conns[c].life /\ conns'[c].slot = conns[c].slot
          /\ conns[c].life \in LifeIds /\ conns[c].slot \in Slots
      BY <1>1, <1>2, <1>3, PlaysBefore
    <2>3. Written(conns[c].life) => WrittenNext(conns[c].life)
      BY <2>1, <2>2, WrittenKept
    <2> QED
      BY <2>1, <2>2, <2>3
  <1>4. ASSUME match.state = "open", On, task.op = "detach", task.conn = c
        PROVE  \/ WrittenNext(conns'[c].life)
               \/ /\ task.pc = "detach"
                  /\ task.wait \in {"forfeit", "failed"}
                  /\ task.slot = conns'[c].slot
                  /\ \A n \in 1 .. Len(acks) : acks[n].kind # "forfeit"
    BY <1>0, <1>3, <1>4 DEF DetachPaid
  <1>5. CASE EngineStep /\ UNCHANGED <<vars, serverVars>>
    <2>1. UNCHANGED <<match, task>> /\ engine'.run = engine.run
      BY <1>5, EngineEnds DEF serverVars
    <2>2. match.state = "open" /\ On /\ task.op = "detach" /\ task.conn = c
      BY <1>1, <2>1 DEF On
    <2>3. SUFFICES ASSUME ~WrittenNext(conns'[c].life) PROVE Paid(c)
      OBVIOUS
    <2>4. /\ task'.pc = "detach" /\ task'.wait \in {"forfeit", "failed"}
          /\ task'.slot = conns'[c].slot
          /\ \A n \in 1 .. Len(acks) : acks[n].kind # "forfeit"
      BY <1>4, <2>1, <2>2, <2>3
    <2>5. EngineMove
      BY <1>5, EngineMoves
    <2>6. CASE UNCHANGED acks
      BY <2>4, <2>6
    <2>7. ASSUME NEW s \in Slots, NEW kind \in Kinds, Takes(kind, s)
          PROVE  Paid(c)
      <3>1. /\ 1 \in 1 .. Len(toEngine) /\ toEngine[1].kind = kind /\ toEngine[1].slot = s
            /\ Len(acks') = Len(acks) + 1
            /\ \A n \in 1 .. Len(acks) : acks'[n] = acks[n]
            /\ acks'[Len(acks) + 1] = [kind |-> kind, slot |-> s]
        BY <1>0, <2>7, TakesPacket
      <3>2. CASE kind # "forfeit"
        <4>1. \A n \in 1 .. Len(acks') : n \in 1 .. Len(acks) \/ n = Len(acks) + 1
          BY <1>0, <3>1
        <4> QED
          BY <2>4, <3>1, <3>2, <4>1
      <3>3. CASE kind = "forfeit"
        <4>1. task.slot = s
          BY <1>0, <2>2, <3>1, <3>3 DEF PacketsAwaited
        <4>2. PICK l \in LifeIds : l = conns[c].life /\ conns'[c].life = l /\ s = conns[c].slot
          BY <1>3, <2>1, <2>2, <2>4, <4>1
        <4>3. Played(s, l)
          BY <1>0, <1>3, <2>2, <2>3, <4>2 DEF SeatPlayed
        <4>4. ~Takes("admit", s) /\ ~Takes("revoke", s)
          BY <2>7, <3>3 DEF Takes
        <4>5. WrittenNext(l)
          BY <1>3, <1>5, <2>2, <2>7, <3>3, <4>3, <4>4, EnginePlays
        <4> QED
          BY <4>2, <4>5
      <3> QED
        BY <3>2, <3>3
    <2> QED
      BY <2>5, <2>6, <2>7 DEF EngineMove
  <1>6. CASE engine' = NoEngine
    BY <1>1, <1>6 DEF NoEngine
  <1>7. CASE StartMatch
    <2>1. match' = [NoMatch EXCEPT !.run = arena.run_id, !.state = "open"]
      BY <1>7 DEF StartMatch
    <2>2. conns'[c].slot \in Slots /\ match'.peers[conns'[c].slot] = c
      BY DEF Seated, GInv, SeatShape
    <2> QED
      BY <2>1, <2>2, GameBounds DEF NoMatch
  <1>8. CASE match.state = "open" /\ UNCHANGED <<engine, journal>> /\ SocketMove
    <2>0. On
      BY <1>1, <1>8, SameMatch DEF On
    <2>1. ASSUME \A n \in 1 .. Len(acks) : acks[n].kind # "forfeit",
                 NEW n \in 1 .. Len(acks')
          PROVE  acks'[n].kind # "forfeit"
      <3>1. UNCHANGED acks \/ (acks # <<>> /\ acks' = Tail(acks))
        BY <1>8 DEF SocketMove
      <3> QED
        BY <1>0, <2>1, <3>1, AckRead
    <2>2. CASE UNCHANGED task
      BY <1>4, <1>8, <2>0, <2>1, <2>2
    <2>3. CASE GoesOn
      <3>1. task.op = "detach" /\ task.conn = c /\ (task.pc = "detach" => Detached)
        BY <2>3 DEF GoesOn
      <3> SUFFICES ASSUME ~WrittenNext(conns'[c].life) PROVE FALSE
        OBVIOUS
      <3>2. /\ task.pc = "detach" /\ task.wait \in {"forfeit", "failed"}
            /\ \A n \in 1 .. Len(acks) : acks[n].kind # "forfeit"
        BY <1>4, <1>8, <2>0, <3>1
      <3>3. acks # <<>> /\ acks' = Tail(acks) /\ Head(acks).kind = "forfeit"
        BY <3>1, <3>2 DEF Detached, Answered
      <3> QED
        BY <1>0, <3>2, <3>3, AckRead
    <2>4. CASE Starts
      <3>1. DetachBegin(c) /\ task.op = "none"
        BY <2>4 DEF Starts
      <3>2. ~Awaiting
        BY <3>1, NotAwaiting DEF GInv, TaskShape
      <3>3. \A n \in 1 .. Len(acks) : acks[n].kind = "revoke"
        BY <1>0, <1>8, <3>2, Unawaited
      <3>4. participants[Owner[c]] = "playing"
        BY <1>3, <1>8, <2>0 DEF PlaysOn
      <3>5. /\ task'.pc = "detach" /\ task'.slot = conns[c].slot
            /\ task'.wait \in {"forfeit", "failed"} /\ UNCHANGED <<conns, acks>>
        BY <1>8, <3>1, <3>4, DetachSpares
      <3> QED
        BY <3>3, <3>5
    <2>5. CASE RevokeFormerLife \/ Allocate
      BY <2>5, FormerSent, LifeSent DEF Sends
    <2> QED
      BY <2>2, <2>3, <2>4, <2>5, TaskMoves DEF TaskMove
  <1> QED
    BY <1>1, <1>5, <1>6, <1>7, <1>8, SocketMoves

\* How a connection comes to be closed.
LEMMA Closing ==
  ASSUME GInv, [GameNext]_gameVars, NEW c \in Conns, conns'[c].phase = "closed"
  PROVE  \/ conns[c].phase = "closed" /\ conns'[c].life \in {conns[c].life, NoId}
         \/ /\ conns'[c].life = NoId
            /\ Disconnect(c) \/ (Gone /\ task.conn = c) \/ match'.state # "open"
  <1>0. conns \in [Conns -> SeatRecord] /\ match \in MatchRecord
    BY DEF GInv, ServerTyped
  <1>1. CASE UNCHANGED conns
    BY <1>1
  <1>2. ASSUME NEW d, NEW ph, NEW r, ph # "closed",
               \/ conns' = [conns EXCEPT ![d].phase = ph]
               \/ conns' = [conns EXCEPT ![d].phase = ph, ![d].run = r]
        PROVE  conns[c].phase = "closed" /\ conns'[c].life = conns[c].life
    <2>1. CASE d = c
      BY <1>0, <1>2, <2>1 DEF SeatRecord
    <2>2. CASE d # c
      BY <1>0, <1>2, <2>2
    <2> QED
      BY <2>1, <2>2
  <1>3. ASSUME NEW d, conns' = [conns EXCEPT ![d].life = NoId]
        PROVE  conns[c].phase = "closed" /\ conns'[c].life \in {conns[c].life, NoId}
    <2>1. CASE d = c
      BY <1>0, <1>3, <2>1 DEF SeatRecord
    <2>2. CASE d # c
      BY <1>0, <1>3, <2>2
    <2> QED
      BY <2>1, <2>2
  <1>4. ASSUME NEW d, conns' = [conns EXCEPT ![d] = NoSeat]
        PROVE  \/ d = c /\ conns'[c].life = NoId
               \/ d # c /\ conns'[c] = conns[c]
    BY <1>0, <1>4 DEF NoSeat
  <1>5. CASE OperationFails
    <2>1. CASE task.op = "detach"
      <3>1. conns' = [conns EXCEPT ![task.conn] = NoSeat] /\ match'.state # "open"
        BY <1>0, <1>5, <2>1 DEF OperationFails, Stopping, MatchRecord
      <3> QED
        BY <1>4, <3>1
    <2>2. CASE task.op = "attach"
      <3>1. conns' = [conns EXCEPT ![task.conn].phase = "open"]
        BY <1>5, <2>2 DEF OperationFails
      <3> QED
        BY <1>2, <3>1
    <2>3. CASE task.op \notin {"attach", "detach"}
      <3>1. UNCHANGED conns
        BY <1>5, <2>3 DEF OperationFails
      <3> QED
        BY <1>1, <3>1
    <2> QED
      BY <2>1, <2>2, <2>3
  <1>6. CASE ApplyEvent \/ DeadPeerRevoked \/ Withdrawn
    <2>1. \/ UNCHANGED conns
          \/ \E d : conns' = [conns EXCEPT ![d].life = NoId]
      <3>1. CASE ApplyEvent
        BY <3>1 DEF ApplyEvent
      <3>2. CASE DeadPeerRevoked
        BY <3>2 DEF DeadPeerRevoked
      <3>3. CASE Withdrawn
        BY <3>3 DEF Withdrawn
      <3> QED
        BY <1>6, <3>1, <3>2, <3>3
    <2> QED
      BY <1>1, <1>3, <2>1
  <1>7. CASE \/ \E d \in Conns : AttachBegin(d) \/ EnsureBegin(d) \/ Connect(d)
             \/ NothingToAttach \/ CannotAllocate
             \/ (\E r \in RunIds : JournalMissing(r)) \/ StartFails \/ StartMatch
    <2>1. \/ UNCHANGED conns
          \/ \E d : \E ph \in {"open", "attaching", "ensuring"} : \E r :
                \/ conns' = [conns EXCEPT ![d].phase = ph]
                \/ conns' = [conns EXCEPT ![d].phase = ph, ![d].run = r]
      <3>1. CASE \E d \in Conns : AttachBegin(d) \/ EnsureBegin(d) \/ Connect(d)
        BY <3>1 DEF AttachBegin, EnsureBegin, Connect
      <3>2. CASE NothingToAttach \/ CannotAllocate
        BY <3>2 DEF NothingToAttach, CannotAllocate, AttachEnds
      <3>3. CASE (\E r \in RunIds : JournalMissing(r)) \/ StartFails
        BY <3>3 DEF JournalMissing, StartFails
      <3>4. CASE StartMatch
        BY <3>4 DEF StartMatch
      <3> QED
        BY <1>7, <3>1, <3>2, <3>3, <3>4
    <2>2. CASE \E d : \E ph \in {"open", "attaching", "ensuring"} : \E r :
                \/ conns' = [conns EXCEPT ![d].phase = ph]
                \/ conns' = [conns EXCEPT ![d].phase = ph, ![d].run = r]
      <3>1. PICK d : \E ph \in {"open", "attaching", "ensuring"} : \E r :
                \/ conns' = [conns EXCEPT ![d].phase = ph]
                \/ conns' = [conns EXCEPT ![d].phase = ph, ![d].run = r]
        BY <2>2
      <3>2. PICK ph \in {"open", "attaching", "ensuring"} : \E r :
                \/ conns' = [conns EXCEPT ![d].phase = ph]
                \/ conns' = [conns EXCEPT ![d].phase = ph, ![d].run = r]
        BY <3>1
      <3>3. ph # "closed"
        OBVIOUS
      <3> QED
        BY <1>2, <3>2, <3>3
    <2> QED
      BY <1>1, <2>1, <2>2
  <1>8. CASE Admitted
    <2>1. conns' = [conns EXCEPT ![task.conn] = [phase |-> "open", run |-> 0,
                                                 life |-> task.life, slot |-> task.slot]]
      BY <1>8 DEF Admitted
    <2> QED
      BY <1>0, <2>1
  <1>9. CASE \E d \in Conns : Disconnect(d)
    <2>1. PICK d \in Conns : Disconnect(d)
      BY <1>9
    <2>2. conns' = [conns EXCEPT ![d] = NoSeat]
      BY <2>1 DEF Disconnect
    <2> QED
      BY <1>4, <2>1, <2>2
  <1>10. CASE Gone
    <2>1. conns' = [conns EXCEPT ![task.conn] = NoSeat]
      BY <1>10 DEF Gone
    <2> QED
      BY <1>4, <1>10, <2>1
  <1>11. CASE Crash
    BY <1>11 DEF Crash, NoMatch, NoSeat
  <1>12. CASE \/ RevokeFormerLife \/ FormerLifeRevoked \/ Allocate
              \/ (\E d \in Conns : DetachBegin(d)) \/ Detached
              \/ (\E p \in Players : LeaveBegin(p)) \/ LeaveEnds \/ MatchStep
    <2>1. UNCHANGED conns
      BY <1>12 DEF RevokeFormerLife, FormerLifeRevoked, Allocate, DetachBegin, Detached, LeaveBegin,
                   LeaveEnds, MatchStep, TickBegin, Renewed, VisitStops, VisitEnds, SocketEof,
                   StopBegin, StopEnds
    <2> QED
      BY <1>1, <2>1
  <1>13. CASE \/ \E r \in RunIds : RecoverNext(r)
              \/ RecoverApply \/ Recovered \/ InsertRun \/ LeaveRecovered
              \/ (\E p \in Players : LeaveWithoutMatch(p))
              \/ EngineStep /\ UNCHANGED <<vars, serverVars>>
              \/ EngineTerminates \/ EngineCrashes \/ DropAck \/ Restart \/ UnstartedStep \/ LedgerStep
              \/ UNCHANGED gameVars
    <2>1. UNCHANGED conns
      BY <1>13 DEF RecoverNext, RecoverApply, Recovered, InsertRun, LeaveRecovered,
                   LeaveWithoutMatch, EngineTerminates, EngineCrashes, DropAck, Restart,
                   UnstartedStep, VisitBlocks, EnsureDrops,
                   LedgerStep, serverVars, gameVars
    <2> QED
      BY <1>1, <2>1
  <1> QED
    BY <1>5, <1>6, <1>7, <1>8, <1>9, <1>10, <1>11, <1>12, <1>13
       DEF GameNext, TaskStep, ReplayStep, AttachStep, DetachStep, LeaveMatchStep, RecoveryStep

LEMMA PaidInit == GameInit => PaidInv
  <1> SUFFICES ASSUME GameInit PROVE PaidInv
    OBVIOUS
  <1>1. match.state = "none" /\ \A c \in Conns : conns[c].life = NoId
    BY DEF GameInit, NoMatch, NoSeat
  <1>2. task.op = "none"
    BY DEF GameInit, NoTask
  <1> QED
    BY <1>1, <1>2 DEF PaidInv, PacketsAwaited, AcksAwaited, AdmissionPlayed, SeatPlayed, DetachPaid,
                      ClosedEmpty, On

LEMMA PaidStep ==
  ASSUME GInv, GInv', SeatInv, SeatInv', PaidInv, [GameNext]_gameVars, ~StaleRevoke
  PROVE  PaidInv'
  <1>1. PacketsAwaited /\ AcksAwaited /\ AdmissionPlayed
    BY DEF PaidInv
  <1>2. PacketsAwaited' /\ AcksAwaited' /\ AdmissionPlayed'
    BY <1>1, PacketsStep, AcksStep, AdmissionStep
  <1>3. SeatPlayed' /\ DetachPaid'
    BY SeatPlayedStep, DetachPaidStep
  <1>4. ClosedEmpty'
    BY Closing DEF PaidInv, ClosedEmpty
  <1> QED
    BY <1>2, <1>3, <1>4 DEF PaidInv

\* As long as no stale seat is revoked, PaidInv holds.
LEMMA PaidInvariance == GameSpec /\ [][~StaleRevoke]_gameVars => []PaidInv
  <1>1. GInv /\ GInv' /\ SeatInv /\ SeatInv' /\ PaidInv /\ [GameNext]_gameVars
          /\ [~StaleRevoke]_gameVars => PaidInv'
    BY PaidStep, StaleMoves
  <1> QED
    BY <1>1, PaidInit, SeatInvariance, GameInvariance, PTL DEF GameSpec

\* A connection with a seat closes when its detach has ended the life.
LEMMA DetachedLife ==
  ASSUME GInv, GInv', PaidInv, [GameNext]_gameVars, NEW c \in Conns,
         Plays(c), Seated(c), conns'[c].phase = "closed", match'.state = "open"
  PROVE  \E n \in 1 .. Len(journal'[match.run]) : journal'[match.run][n].victim = conns[c].life
  <1>1. /\ conns[c].life \in LifeIds /\ conns[c].life # NoId
        /\ On /\ PlaysOn(c) /\ match.state = "open"
    BY DEF Plays, On, PlaysOn, LifeOf, AliveIn, AliveLives
  <1>2. Gone /\ task.conn = c
    <2>1. ~Disconnect(c)
      BY DEF Disconnect
    <2> QED
      BY <1>1, <2>1, Closing DEF PaidInv, ClosedEmpty
  <1>3. task.op = "detach" /\ task.pc # "detach"
    BY <1>2, TaskOps DEF Gone
  <1>4. Written(conns[c].life)
    BY <1>1, <1>2, <1>3 DEF PaidInv, DetachPaid
  <1>5. match.run \in RunIds /\ match'.run = match.run
    BY <1>1, SameMatch
  <1>6. PICK l \in LifeIds : l = conns[c].life
    BY <1>1
  <1>7. WrittenNext(l)
    BY <1>4, <1>5, <1>6, WrittenKept
  <1> QED
    BY <1>5, <1>6, <1>7 DEF WrittenNext

(***************************************************************************)
(* What a disconnect costs (Match.detach, server.py): when the connection  *)
(* with the seat of a living player closes while the match goes on with    *)
(* its engine, a line of the journal says that the life ended, for every   *)
(* number of tabs, and whatever admissions, answers that come too late,    *)
(* engines that die and leaves of others come between.                     *)
(***************************************************************************)
THEOREM SeatIsPaidFor ==
  GameSpec /\ [][~StaleRevoke]_gameVars =>
    [][\A c \in Conns :
          Plays(c) /\ Seated(c) /\ conns'[c].phase = "closed" /\ match'.state = "open"
             => \E n \in 1 .. Len(journal'[match.run]) :
                   journal'[match.run][n].victim = conns[c].life]_gameVars
  <1> DEFINE PaidFor ==
        \A c \in Conns :
          Plays(c) /\ Seated(c) /\ conns'[c].phase = "closed" /\ match'.state = "open"
             => \E n \in 1 .. Len(journal'[match.run]) :
                   journal'[match.run][n].victim = conns[c].life
  <1>1. GInv /\ GInv' /\ PaidInv /\ [GameNext]_gameVars => PaidFor
    BY DetachedLife
  <1> QED
    BY <1>1, PaidInvariance, GameInvariance, PTL DEF GameSpec

----------------------------------------------------------------------------
(* Without a second tab, whoever plays has a seat.                          *)

\* Whoever is alive has a run that was started.
AliveRun ==
    \A l \in LifeIds : lives[l].status = "alive" =>
        lives[l].run \in RunIds /\ runs[lives[l].run].status # "none"

\* A run starts with nobody alive.
StartEmpty == mgr.pc = "start" => \A l \in LifeIds : lives[l].status # "alive"

\* A connection whose life is alive in the match has its seat, or is being admitted.
AllSeated ==
    match.state = "open" =>
        \A c \in Conns :
            /\ conns[c].life # NoId
            /\ LifeOf(c).status = "alive"
            /\ LifeOf(c).run = match.run
            => Seated(c) \/ (task.pc = "admit" /\ task.conn = c)

LEMMA AliveRunStep ==
  ASSUME GInv, [GameNext]_gameVars, AliveRun
  PROVE  AliveRun'
  <1> SUFFICES ASSUME NEW l \in LifeIds, lives'[l].status = "alive"
               PROVE  lives'[l].run \in RunIds /\ runs'[lives'[l].run].status # "none"
    BY DEF AliveRun
  <1>1. \A r \in RunIds : runs[r].status # "none" => runs'[r].status # "none"
    <2>1. EndTables => \A r \in RunIds : runs[r].status # "none" => runs'[r].status # "none"
      BY RunsTyped DEF EndTables, StopRun, RecoverRun, Run
    <2> QED
      BY <2>1, RunsMove
  <1>2. CASE ~Allocate
    BY <1>1, <1>2, RowsRest DEF Rests, AliveRun
  <1>3. CASE Allocate /\ l # task'.life
    BY <1>1, <1>3, LifeSent DEF AliveRun
  <1>4. CASE Allocate /\ l = task'.life
    <2>1. task.op # "none" /\ lives'[l].run = match.run
      BY <1>4, LifeSent
    <2>2. match.run \in RunIds /\ runs[match.run].status = "running"
      BY <2>1, TaskMatch
    <2> QED
      BY <1>1, <2>1, <2>2
  <1> QED
    BY <1>2, <1>3, <1>4

LEMMA StartEmptyStep ==
  ASSUME GInv, [GameNext]_gameVars, AliveRun, StartEmpty
  PROVE  StartEmpty'
  <1> SUFFICES ASSUME mgr'.pc = "start", NEW l \in LifeIds, lives'[l].status = "alive"
               PROVE  FALSE
    BY DEF StartEmpty
  <1>0. mgr \in MgrRecord
    BY DEF GInv, ServerTyped
  <1>1. ASSUME UNCHANGED mgr PROVE FALSE
    <2>1. task.pc = "idle"
      BY <1>1, MgrAlone
    <2>2. ~Allocate
      BY <2>1 DEF Allocate, Allocating
    <2> QED
      BY <1>1, <2>2, RowsRest DEF Rests, StartEmpty
  <1>2. CASE InsertRun
    <2>1. UNCHANGED lives /\ \A r \in RunIds : runs[r].status # "running"
      BY <1>2 DEF InsertRun, StartRun
    <2>2. lives[l].run \in RunIds /\ runs[lives[l].run].status \notin {"none", "running"}
      BY <2>1 DEF AliveRun
    <2>3. runs[lives[l].run].status \in {"stopped", "recovered"}
      BY <2>2, RunsTyped DEF Run
    <2>4. l \in AliveIn(lives[l].run)
      BY <2>1 DEF AliveIn, AliveLives
    <2> QED
      BY <2>2, <2>3, <2>4 DEF GInv, SInv, EndedRunIsEmpty
  <1>3. CASE RecoveryStep /\ ~InsertRun
    <2>1. \A m \in MgrRecord : MgrReading(m).pc # "start"
      BY DEF MgrReading, MgrRecord
    <2>2. CASE \E r \in RunIds : RecoverNext(r)
      <3>1. PICK r \in RunIds : RecoverNext(r)
        BY <2>2
      <3>2. PICK m \in MgrRecord : m = [mgr EXCEPT !.run = r]
        BY <1>0 DEF MgrRecord
      <3> QED
        BY <2>1, <3>1, <3>2 DEF RecoverNext
    <2>3. CASE RecoverApply
      <3>1. mgr.offset + 1 \in 0 .. MaxSequence
        BY <1>0, <2>3 DEF RecoverApply, GInv, MgrShape, MgrRecord
      <3>2. PICK m \in MgrRecord : m = [mgr EXCEPT !.offset = @ + 1]
        BY <1>0, <3>1 DEF MgrRecord
      <3>3. m.pc = "apply"
        BY <1>0, <2>3, <3>2 DEF RecoverApply, MgrRecord
      <3> QED
        BY <2>1, <2>3, <3>2, <3>3 DEF RecoverApply, BatchEnd
    <2>4. CASE Recovered
      BY <1>0, <2>4 DEF Recovered, MgrRecord
    <2>5. CASE (\E r \in RunIds : JournalMissing(r)) \/ StartMatch \/ StartFails \/ LeaveRecovered
      BY <2>5 DEF JournalMissing, StartMatch, StartFails, LeaveRecovered, NoMgr
    <2> QED
      BY <1>3, <2>2, <2>3, <2>4, <2>5 DEF RecoveryStep
  <1>4. CASE (\E c \in Conns : EnsureBegin(c)) \/ (\E p \in Players : LeaveWithoutMatch(p)) \/ Crash
    <2>1. CASE \E c \in Conns : EnsureBegin(c)
      BY <1>1, <2>1 DEF EnsureBegin, NoMgr
    <2>2. CASE \E p \in Players : LeaveWithoutMatch(p)
      <3>1. PICK p \in Players : LeaveWithoutMatch(p)
        BY <2>2
      <3>2. mgr' = [NoMgr EXCEPT !.op = "leave", !.pc = "next", !.player = p, !.todo = RunsOf(p)]
        BY <3>1 DEF LeaveWithoutMatch
      <3>3. mgr'.pc = "next"
        BY <3>2 DEF NoMgr
      <3> QED
        BY <3>3
    <2>3. CASE Crash
      BY <2>3 DEF Crash, NoMgr
    <2> QED
      BY <1>4, <2>1, <2>2, <2>3
  <1>5. CASE TaskStep \/ MatchStep
    BY <1>1, <1>5
       DEF TaskStep, OperationFails, ReplayStep, ApplyEvent, DeadPeerRevoked, AttachStep, AttachBegin,
           NothingToAttach, RevokeFormerLife, FormerLifeRevoked, Allocate, CannotAllocate,
           Admitted, DetachStep, Disconnect, DetachBegin, Detached, Gone, LeaveMatchStep,
           LeaveBegin, Withdrawn, LeaveEnds, MatchStep, TickBegin, Renewed, VisitStops,
           VisitEnds, SocketEof, StopBegin, StopEnds
  <1>6. CASE \/ EngineStep /\ UNCHANGED <<vars, serverVars>>
             \/ EngineTerminates \/ EngineCrashes \/ DropAck \/ (\E c \in Conns : Connect(c))
             \/ Restart \/ UnstartedStep \/ LedgerStep \/ UNCHANGED gameVars
    BY <1>1, <1>6 DEF EngineTerminates, EngineCrashes, DropAck, Connect, Restart,
                      UnstartedStep, VisitBlocks, EnsureDrops, LedgerStep,
                      serverVars, gameVars
  <1> QED
    BY <1>2, <1>3, <1>4, <1>5, <1>6 DEF GameNext

LEMMA AllSeatedStep ==
  ASSUME OneTabEach, GInv, GInv', SeatInv, SeatInv', StartEmpty, AllSeated,
         [GameNext]_gameVars, ~StaleRevoke
  PROVE  AllSeated'
  <1> SUFFICES ASSUME match'.state = "open", NEW c \in Conns, conns'[c].life # NoId,
                      lives'[conns'[c].life].status = "alive",
                      lives'[conns'[c].life].run = match'.run
               PROVE  Seated(c)' \/ (task'.pc = "admit" /\ task'.conn = c)
    BY DEF AllSeated, LifeOf
  <1>1. CASE StartMatch
    <2>1. mgr.pc = "start" /\ UNCHANGED lives
      BY <1>1 DEF StartMatch, vars
    <2>2. conns'[c].life \in LifeIds
      BY DEF GInv, ServerTyped, SeatRecord
    <2> QED
      BY <2>1, <2>2 DEF StartEmpty
  <1>2. CASE ~StartMatch
    <2>1. match.state = "open"
      BY <1>2, SocketMoves DEF serverVars
    <2>2. match'.run = match.run /\ match.run # 0
      BY <2>1, SameMatch
    <2>3. ASSUME conns'[c].life = conns[c].life, conns[c].life \in LifeIds,
                 lives[conns[c].life].status = "alive", lives[conns[c].life].run = match.run,
                 Admitted => c # task.conn
          PROVE  Seated(c)' \/ (task'.pc = "admit" /\ task'.conn = c)
      <3>1. Seated(c) \/ (task.pc = "admit" /\ task.conn = c)
        BY <2>1, <2>3 DEF AllSeated, LifeOf
      <3>2. Seated(c) => Seated(c)'
        BY <2>2, <2>3, KeepsSeat
      <3>3. task.pc = "admit" /\ task.conn = c => task'.pc = "admit" /\ task'.conn = c
        <4> SUFFICES ASSUME task.pc = "admit", task.conn = c
                     PROVE  task'.pc = "admit" /\ task'.conn = c
          OBVIOUS
        <4>1. ~RevokeFormerLife /\ ~Allocate /\ task.op # "none"
          BY TaskOps DEF RevokeFormerLife, Allocate, Allocating
        <4> QED
          BY <2>3, <4>1, TaskMoves DEF TaskMove, GoesOn, Starts
      <3> QED
        BY <3>1, <3>2, <3>3
    <2>4. CASE Admitted
      <3>1. CASE c = task.conn
        BY <2>4, <3>1, AdmittedEnds DEF Seated
      <3>2. CASE c # task.conn
        <4>1. conns'[c].life = conns[c].life /\ UNCHANGED lives
          BY <2>4, <3>2, AdmittedEnds
        <4>2. conns[c].life \in LifeIds
          BY <4>1 DEF GInv, ServerTyped, SeatRecord
        <4> QED
          BY <2>2, <2>3, <3>2, <4>1, <4>2
      <3> QED
        BY <3>1, <3>2
    <2>5. CASE ~Admitted
      <3>1. conns'[c].life = conns[c].life
        BY <2>5, SeatMoves DEF Loosens
      <3>2. PICK l \in LifeIds : l = conns[c].life
        BY <3>1 DEF GInv, ServerTyped, SeatRecord
      <3>3. CASE ~Allocate
        <4>1. lives[l].status = "alive" /\ lives[l].run = match.run
          BY <2>2, <3>1, <3>2, <3>3, RowsRest DEF Rests
        <4> QED
          BY <2>3, <2>5, <3>1, <3>2, <4>1
      <3>4. CASE Allocate /\ task'.life # l
        <4>1. lives'[l] = lives[l]
          BY <3>4, LifeSent
        <4> QED
          BY <2>2, <2>3, <2>5, <3>1, <3>2, <4>1
      <3>5. CASE Allocate /\ task'.life = l
        <4>1. /\ task'.pc = "admit" /\ task'.conn = task.conn /\ task.conn \in Conns
              /\ lives'[l].player = Owner[task.conn]
          BY <3>5, LifeSent
        <4>2. lives'[l].player = Owner[c]
          BY <3>1, <3>2 DEF SeatInv, OwnLife, LifeOf
        <4> QED
          BY <4>1, <4>2 DEF OneTabEach
      <3> QED
        BY <3>3, <3>4, <3>5
    <2> QED
      BY <2>4, <2>5
  <1> QED
    BY <1>1, <1>2

(***************************************************************************)
(* Disconnecting, reloading or timing out consumes the admitted life       *)
(* (README.md 38-39), when nobody opens a second tab.  With two tabs of a  *)
(* session a life that the second one resumed in a later run is still      *)
(* named by the first one: closing that one costs nothing, because the     *)
(* seat is the other's (SeatIsPaidFor is what remains).                    *)
(***************************************************************************)
THEOREM DisconnectIsPaid ==
  OneTabEach => (GameSpec /\ [][~StaleRevoke]_gameVars => DisconnectConsumes)
  <1> SUFFICES ASSUME OneTabEach
               PROVE  GameSpec /\ [][~StaleRevoke]_gameVars => DisconnectConsumes
    OBVIOUS
  <1> DEFINE Consumes ==
        \A c \in Conns :
          Plays(c) /\ conns'[c].phase = "closed" /\ match'.state = "open"
             => \/ lives'[conns[c].life].status = "dead"
                \/ \E n \in 1 .. Len(journal'[match.run]) :
                      journal'[match.run][n].victim = conns[c].life
  <1>1. GameInit => AliveRun /\ StartEmpty /\ AllSeated
    BY DEF GameInit, NothingPlayed, NoMgr, NoMatch, AliveRun, StartEmpty, AllSeated
  <1>2. /\ GInv /\ GInv' /\ SeatInv /\ SeatInv' /\ AliveRun /\ StartEmpty /\ AllSeated
        /\ [GameNext]_gameVars /\ [~StaleRevoke]_gameVars
        => AliveRun' /\ StartEmpty' /\ AllSeated'
    BY AliveRunStep, StartEmptyStep, AllSeatedStep, StaleMoves
  <1>3. GInv /\ GInv' /\ PaidInv /\ AllSeated /\ [GameNext]_gameVars => Consumes
    <2> SUFFICES ASSUME GInv, GInv', PaidInv, AllSeated, [GameNext]_gameVars,
                        NEW c \in Conns, Plays(c), conns'[c].phase = "closed",
                        match'.state = "open"
                 PROVE  \/ lives'[conns[c].life].status = "dead"
                        \/ \E n \in 1 .. Len(journal'[match.run]) :
                              journal'[match.run][n].victim = conns[c].life
      OBVIOUS
    <2>1. CASE Seated(c)
      BY <2>1, DetachedLife
    <2>2. CASE ~Seated(c)
      <3>1. task.pc = "admit" /\ task.conn = c
        BY <2>2 DEF AllSeated, Plays, LifeOf, AliveIn, AliveLives
      <3>2. ~Disconnect(c) /\ ~Gone
        BY <3>1, TaskOps DEF Disconnect, Idle, Gone
      <3> QED
        BY <3>2, Closing DEF PaidInv, ClosedEmpty, Plays
    <2> QED
      BY <2>1, <2>2
  <1> QED
    BY <1>1, <1>2, <1>3, PaidInvariance, SeatInvariance, GameInvariance, PTL
       DEF GameSpec, DisconnectConsumes
=============================================================================
