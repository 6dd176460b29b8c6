-------------------------- MODULE GameOrphanProofs --------------------------
(***************************************************************************)
(* Proofs about the admissions an engine honours.  An engine never plays a *)
(* life the ledger has given up: besides what GInv says this needs that a  *)
(* player whose death is still a line of the journal is not given the same *)
(* life again.  Who sits where tells (OpenShape), and that one replay      *)
(* reads every line there can be: the hypothesis of the theorem.           *)
(***************************************************************************)
EXTENDS GameServerProofs

\* A batch is no smaller than an arena: 256 lines (server.py 218), eight players
\* (models.py 16).
OneBatch == MaxPlayers <= BatchSize

----------------------------------------------------------------------------
(* What the engine has been told and has written.                           *)

\* One admission at a time is on its way to an engine.
OneLetter ==
    engine.run # 0 =>
        \A m, n \in 1 .. Len(toEngine) : Admits(m) /\ Admits(n) => m = n

\* The journal of run r has no line about life l.
Unwritten(r, l) == \A n \in 1 .. Len(journal[r]) : journal[r][n].victim # l

\* A life that the engine may still end has not ended before.
EndsUnwritten == \A s \in Slots : Ends(s) => Unwritten(engine.run, engine.admission[s])

\* Neither has the one that it is about to be told of, which is on no slot yet.
FreshLetter ==
    engine.run # 0 =>
        \A n \in 1 .. Len(toEngine) : Admits(n) =>
            /\ Unwritten(engine.run, toEngine[n].life)
            /\ \A s \in Slots : Ends(s) => engine.admission[s] # toEngine[n].life

\* A journal names a life once.
WrittenOnce ==
    \A r \in RunIds : \A m, n \in 1 .. Len(journal[r]) :
        journal[r][m].victim = journal[r][n].victim => m = n

Letters == OneLetter /\ EndsUnwritten /\ FreshLetter /\ WrittenOnce

----------------------------------------------------------------------------
(* Who sits where while a match goes on.                                    *)

\* A connection of its player sits on slot s with life l.
Guard(s, l) == /\ match.peers[s] # NoConn
               /\ conns[match.peers[s]].life = l
               /\ Owner[match.peers[s]] = lives[l].player

\* The attach under way has allocated life l on slot s.
Entering(s, l) == task.pc = "admit" /\ task.slot = s /\ task.life = l

\* The leave under way has withdrawn the player of life l.
Withdrawing(l) == task.op = "leave" /\ task.pc = "apply" /\ lives[l].player = task.player

\* A connection sits on the slot it believes to have.
SeatRows ==
    \A s \in Slots : match.peers[s] # NoConn =>
        /\ conns[match.peers[s]].life # NoId
        /\ conns[match.peers[s]].slot = s

\* Nobody plays without a seat, and nobody who died loses it before the line is
\* applied.
EndsGuarded ==
    \A s \in Slots : Ends(s) => Guard(s, engine.admission[s]) \/ Entering(s, engine.admission[s])

LineGuarded(v) == Guard(lives[v].slot, v) \/ Entering(lives[v].slot, v) \/ Withdrawing(v)

LinesGuarded ==
    \A n \in Unapplied(match.run) : LineGuarded(journal[match.run][n].victim)

\* The life that is being admitted.
EnteringRow ==
    task.pc = "admit" =>
        /\ lives[task.life].status = "alive"
        /\ lives[task.life].run = match.run
        /\ lives[task.life].slot = task.slot
        /\ lives[task.life].player = Owner[task.conn]
        /\ \A s \in Slots : match.peers[s] # task.conn
        /\ \A n \in 1 .. Len(toEngine) : Admits(n) =>
              toEngine[n].slot = task.slot /\ toEngine[n].life = task.life

\* A replay withdraws a peer whose death it has just put into the ledger.
DeadPeer ==
    task.pc = "apply" /\ task.wait # "none" =>
        /\ task.slot \in Slots
        /\ match.peers[task.slot] # NoConn
        /\ lives[conns[match.peers[task.slot]].life].status = "dead"

\* A leave withdraws the life of its player.
WithdrawnRow ==
    task.pc = "withdraw" =>
        \E l \in LifeIds : /\ lives[l].status = "alive"
                           /\ lives[l].run = match.run
                           /\ lives[l].slot = task.slot
                           /\ lives[l].player = task.player

\* An attach or a detach has emptied a slot, and will take it from its peer when
\* the lines about it are applied: those it has read are all there can be.
Emptying == \/ task.op = "attach" /\ (task.pc = "pop" \/ (task.pc = "apply" /\ task.next = "pop"))
            \/ task.op = "detach" /\ task.pc \in {"apply", "gone"}

EmptyRow ==
    /\ task.pc = "tabs" /\ task.wait # "none" =>
          task.slot = conns[task.conn].slot /\ ~OtherTab(task.conn)
    /\ task.pc = "detach" => task.slot = conns[task.conn].slot
    /\ Emptying =>
          /\ task.op = "attach" => ~OtherTab(task.conn)
          /\ ~Ends(conns[task.conn].slot)
          /\ \A n \in Unapplied(match.run) :
                (task.pc = "apply" => n > task.until) =>
                   lives[journal[match.run][n].victim].slot # conns[task.conn].slot

OpenShape ==
    match.state = "open" =>
        /\ SeatRows
        /\ EndsGuarded
        /\ LinesGuarded
        /\ EnteringRow
        /\ DeadPeer
        /\ WithdrawnRow
        /\ EmptyRow

OInv == Letters /\ OpenShape

----------------------------------------------------------------------------
(* The lines that wait.                                                     *)

\* A line that waits is about a living player of the run.
LEMMA VictimAlive ==
  ASSUME GInv, WrittenOnce, NEW r \in RunIds, NEW n \in Unapplied(r)
  PROVE  /\ n \in 1 .. Len(journal[r]) /\ n > runs[r].sequence
         /\ journal[r][n].victim \in LifeIds
         /\ lives[journal[r][n].victim].run = r
         /\ lives[journal[r][n].victim].status = "alive"
         /\ lives[journal[r][n].victim].slot \in Slots
  <1>1. n \in 1 .. Len(journal[r]) /\ n > runs[r].sequence
    BY DEF Unapplied
  <1>2. journal[r][n].victim \in LifeIds
    BY <1>1, LineTyped DEF GInv, Line
  <1>3. PICK v \in LifeIds : v = journal[r][n].victim
    BY <1>2
  <1>4. lives[v].run = r /\ lives[v].status \in {"alive", "dead"}
    BY <1>3 DEF GInv, Backlog
  <1>5. lives[v].status # "dead"
    <2>1. SUFFICES ASSUME lives[v].status = "dead" PROVE FALSE
      OBVIOUS
    <2>2. /\ runs[r].sequence \in Nat /\ Len(journal[r]) \in Nat
          /\ runs[r].sequence <= Len(journal[r])
      BY RunsTyped
    <2>3. PICK m \in 1 .. runs[r].sequence : journal[r][m].victim = v
      BY <1>4, <2>1 DEF GInv, DeadIsWritten
    <2>4. m \in 1 .. Len(journal[r]) /\ m # n
      BY <1>1, <2>2, <2>3
    <2> QED
      BY <1>1, <1>3, <2>3, <2>4 DEF WrittenOnce
  <1>6. lives[v].slot \in Slots
    <2>1. SlotsExclusive
      BY DEF GInv, SInv
    <2> QED
      BY <1>4, <1>5, <2>1 DEF SlotsExclusive, AliveLives
  <1> QED
    BY <1>1, <1>3, <1>4, <1>5, <1>6

\* What the engine honours is alive.
LEMMA EndsAlive ==
  ASSUME GInv, EndsUnwritten, NEW s \in Slots, Ends(s)
  PROVE  /\ engine.run \in RunIds
         /\ engine.admission[s] \in LifeIds
         /\ lives[engine.admission[s]].status = "alive"
         /\ lives[engine.admission[s]].run = engine.run
         /\ lives[engine.admission[s]].slot = s
  <1>1. /\ engine.run \in RunIds
        /\ engine.admission[s] \in LifeIds
        /\ Sits(engine.admission[s], engine.run, s)
    BY HonouredLife
  <1>2. PICK l \in LifeIds : l = engine.admission[s]
    BY <1>1
  <1>3. lives[l].run = engine.run /\ lives[l].slot = s /\ lives[l].status \in {"alive", "dead"}
    BY <1>1, <1>2 DEF Sits
  <1>4. lives[l].status # "dead"
    <2>1. SUFFICES ASSUME lives[l].status = "dead" PROVE FALSE
      OBVIOUS
    <2>2. /\ runs[engine.run].sequence \in Nat /\ Len(journal[engine.run]) \in Nat
          /\ runs[engine.run].sequence <= Len(journal[engine.run])
      BY <1>1, RunsTyped
    <2>3. PICK m \in 1 .. runs[engine.run].sequence : journal[engine.run][m].victim = l
      BY <1>3, <2>1 DEF GInv, DeadIsWritten
    <2>4. m \in 1 .. Len(journal[engine.run])
      BY <2>2, <2>3
    <2> QED
      BY <1>2, <2>3, <2>4 DEF EndsUnwritten, Unwritten
  <1> QED
    BY <1>1, <1>2, <1>3, <1>4

\* Two living lives of an arena never have the same slot.
LEMMA OnePerSlot ==
  ASSUME GInv, NEW l \in LifeIds, NEW m \in LifeIds, lives[l].status = "alive",
         lives[m].status = "alive", lives[l].slot = lives[m].slot
  PROVE  l = m
  <1>1. SlotsExclusive
    BY DEF GInv, SInv
  <1> QED
    BY <1>1 DEF SlotsExclusive, AliveLives

\* No more lines wait than players can be in the arena, so one batch holds them.
LEMMA FewWait ==
  ASSUME GInv, WrittenOnce, OneBatch, NEW r \in RunIds
  PROVE  Len(journal[r]) <= runs[r].sequence + BatchSize
  <1>1. /\ runs[r].sequence \in Nat /\ Len(journal[r]) \in Nat
        /\ runs[r].sequence <= Len(journal[r])
    BY RunsTyped
  <1>2. MaxPlayers \in Nat /\ BatchSize \in Nat
    <2>1. MaxPlayers \in Nat
      BY BoundAssumption, Zenon
    <2> QED
      BY <2>1, GameBounds
  <1> DEFINE W == runs[r].sequence + 1 .. Len(journal[r])
             slot == [n \in W |-> lives[journal[r][n].victim].slot]
  <1>3. \A n \in W : n \in Unapplied(r)
    BY <1>1 DEF Unapplied
  <1>4. slot \in Injection(W, Slots)
    <2>1. \A n \in W : lives[journal[r][n].victim].slot \in Slots
      BY <1>3, VictimAlive
    <2>2. ASSUME NEW m \in W, NEW n \in W, slot[m] = slot[n] PROVE m = n
      <3>1. journal[r][m].victim = journal[r][n].victim
        BY <1>3, <2>2, VictimAlive, OnePerSlot
      <3>2. m \in 1 .. Len(journal[r]) /\ n \in 1 .. Len(journal[r])
        BY <1>3, VictimAlive
      <3> QED
        BY <3>1, <3>2 DEF WrittenOnce
    <2>3. slot \in [W -> Slots]
      BY <2>1
    <2> QED
      BY <2>2, <2>3 DEF Injection, IsInjective
  <1>5. IsFiniteSet(Slots) /\ Cardinality(Slots) = MaxPlayers
    BY <1>2, FS_Interval DEF Slots
  <1>6. Cardinality(W) <= MaxPlayers
    <2> HIDE DEF W, slot
    <2> QED
      BY <1>4, <1>5, FS_Injection
  <1>7. Cardinality(W) = IF runs[r].sequence + 1 > Len(journal[r]) THEN 0
                         ELSE Len(journal[r]) - (runs[r].sequence + 1) + 1
    <2>1. PICK a \in Int, b \in Int : a = runs[r].sequence + 1 /\ b = Len(journal[r])
      BY <1>1
    <2>2. Cardinality(a .. b) = IF a > b THEN 0 ELSE b - a + 1
      BY FS_Interval
    <2> QED
      BY <2>1, <2>2
  <1> HIDE DEF W
  <1> QED
    BY <1>1, <1>2, <1>6, <1>7 DEF OneBatch

\* So a replay reads to the end of the journal.
LEMMA ReadsAll ==
  ASSUME GInv, WrittenOnce, OneBatch, match.run # 0, NEW t \in TaskRecord
  PROVE  \/ /\ Reading(t, match.offset).pc = "apply"
            /\ Reading(t, match.offset).until = Len(journal[match.run])
         \/ /\ Reading(t, match.offset).pc = t.next
            /\ Unapplied(match.run) = {}
  <1>1. match.run \in RunIds /\ match.offset = runs[match.run].sequence
    BY TaskMatch
  <1>2. /\ match.offset \in Nat /\ Len(journal[match.run]) \in Nat
        /\ match.offset <= Len(journal[match.run])
    BY <1>1, RunsTyped
  <1>3. Len(journal[match.run]) <= match.offset + BatchSize
    BY <1>1, FewWait
  <1>4. CASE match.offset = Len(journal[match.run])
    <2>1. Reading(t, match.offset) = [t EXCEPT !.pc = t.next, !.until = 0]
      BY <1>4 DEF Reading
    <2>2. Reading(t, match.offset).pc = t.next
      BY <2>1 DEF TaskRecord
    <2>3. Unapplied(match.run) = {}
      BY <1>1, <1>2, <1>4 DEF Unapplied
    <2> QED
      BY <2>2, <2>3
  <1>5. CASE match.offset # Len(journal[match.run])
    <2>1. Least(Len(journal[match.run]), match.offset + BatchSize) = Len(journal[match.run])
      BY <1>2, <1>3 DEF Least
    <2>2. Reading(t, match.offset) =
             [t EXCEPT !.pc = "apply", !.until = Len(journal[match.run])]
      BY <1>5, <2>1 DEF Reading
    <2> QED
      BY <2>2 DEF TaskRecord
  <1> QED
    BY <1>4, <1>5

----------------------------------------------------------------------------
(* What the engine does.                                                    *)

\* A step of the engine takes a life on a slot, or leaves a slot without one;
\* then it may have written the line of the life that was there.
LEMMA EngineDeeds ==
  ASSUME GInv, EngineStep
  PROVE  \E s \in Slots :
            /\ engine.run \in RunIds
            /\ engine'.run = engine.run
            /\ \A t \in Slots \ {s} : StillEnds(t)
            /\ \/ UNCHANGED journal /\ Takes("admit", s)
               \/ /\ ~Ends(s)'
                  /\ UNCHANGED toEngine \/ \E kind \in Kinds \ {"admit"} : Takes(kind, s)
                  /\ \/ UNCHANGED journal
                     \/ \E line \in Line :
                           /\ Ends(s)
                           /\ line.victim = engine.admission[s]
                           /\ journal' = [journal EXCEPT ![engine.run] = Append(@, line)]
  <1>0. EngineTyped /\ engine \in EngineRecord /\ toEngine \in Seq(Packet)
    BY DEF GInv, EngineTyped
  <1>1. ASSUME NEW s \in Slots, Running PROVE
           /\ Revoked(s).run = engine.run
           /\ Revoked(s).admission[s] = NoId
           /\ \A t \in Slots \ {s} : /\ Revoked(s).admission[t] = engine.admission[t]
                                     /\ Revoked(s).consumed[t] = engine.consumed[t]
    BY <1>0 DEF EngineRecord, Revoked
  <1>2. Running => engine.run \in RunIds
    BY <1>0 DEF EngineRecord, Running
  <1>3. \A s \in Slots : engine' = Revoked(s) /\ Running =>
           /\ engine'.run = engine.run
           /\ \A t \in Slots \ {s} : StillEnds(t)
           /\ ~Ends(s)'
    BY <1>1 DEF StillEnds, Ends
  <1>4. ASSUME NEW s \in Slots, AdmitLife(s)
        PROVE  /\ Running
               /\ engine'.run = engine.run
               /\ \A t \in Slots \ {s} : StillEnds(t)
               /\ UNCHANGED journal /\ Takes("admit", s)
    <2>1. /\ Running /\ toEngine # <<>>
          /\ Head(toEngine).kind = "admit" /\ Head(toEngine).slot = s
          /\ toEngine' = Tail(toEngine)
          /\ acks' = Append(acks, [kind |-> "admit", slot |-> s])
          /\ UNCHANGED journal
          /\ engine' = [engine EXCEPT !.admission[s] = Head(toEngine).life, !.consumed[s] = FALSE]
      BY <1>4 DEF AdmitLife, Answer
    <2>2. /\ engine'.run = engine.run
          /\ engine'.admission[s] = Head(toEngine).life
          /\ \A t \in Slots \ {s} : /\ engine'.admission[t] = engine.admission[t]
                                    /\ engine'.consumed[t] = engine.consumed[t]
      BY <1>0, <2>1 DEF EngineRecord
    <2>3. \A t \in Slots \ {s} : StillEnds(t)
      BY <2>2 DEF Ends, StillEnds
    <2> QED
      BY <2>1, <2>2, <2>3 DEF Takes
  <1>5. ASSUME NEW s \in Slots, RevokeLife(s)
        PROVE  /\ Running /\ engine' = Revoked(s) /\ Takes("revoke", s) /\ UNCHANGED journal
    <2>1. /\ Running /\ engine' = Revoked(s) /\ UNCHANGED journal /\ Answer("revoke", s)
      BY <1>5 DEF RevokeLife, Answer
    <2> QED
      BY <1>3, <2>1 DEF Answer, Takes
  <1>6. ASSUME NEW s \in Slots, ForfeitLife(s)
        PROVE  /\ Running /\ engine' = Revoked(s) /\ Takes("forfeit", s)
               /\ UNCHANGED journal \/ (Ends(s) /\ journal' = Journaled(s, NoId))
    <2>1. /\ Running /\ engine' = Revoked(s) /\ Answer("forfeit", s)
          /\ UNCHANGED journal \/ (Ends(s) /\ journal' = Journaled(s, NoId))
      BY <1>6 DEF ForfeitLife, Answer
    <2>2. Takes("forfeit", s)
      BY <1>3, <2>1 DEF Answer, Takes
    <2> QED
      BY <2>1, <2>2
  <1>7. ASSUME NEW s \in Slots, NEW k \in LifeIds \cup {NoId}, CharacterDies(s, k)
        PROVE  /\ Running /\ engine'.run = engine.run
               /\ \A t \in Slots \ {s} : StillEnds(t)
               /\ ~Ends(s)' /\ UNCHANGED toEngine
               /\ Ends(s) /\ journal' = Journaled(s, k)
    <2>1. /\ Running /\ Ends(s) /\ journal' = Journaled(s, k) /\ UNCHANGED toEngine
          /\ engine' = [engine EXCEPT !.consumed[s] = TRUE]
      BY <1>7 DEF CharacterDies
    <2>2. /\ engine'.run = engine.run
          /\ engine'.admission = engine.admission
          /\ engine'.consumed[s] = TRUE
          /\ \A t \in Slots \ {s} : engine'.consumed[t] = engine.consumed[t]
      BY <1>0, <2>1 DEF EngineRecord
    <2> QED
      BY <2>1, <2>2 DEF Ends, StillEnds
  <1>8. ASSUME NEW s \in Slots, NEW k \in LifeIds \cup {NoId}, Running, Ends(s),
               journal' = Journaled(s, k)
        PROVE  \E line \in Line :
                  /\ line.victim = engine.admission[s]
                  /\ journal' = [journal EXCEPT ![engine.run] = Append(@, line)]
    BY <1>0, <1>8, LineAdded
  <1>9. NoId \in LifeIds \cup {NoId} /\ "revoke" \in Kinds \ {"admit"} /\ "forfeit" \in Kinds \ {"admit"}
    BY DEF Kinds
  <1>10. PICK s \in Slots : \/ AdmitLife(s) \/ RevokeLife(s) \/ ForfeitLife(s)
                            \/ \E k \in LifeIds \cup {NoId} : CharacterDies(s, k)
    BY DEF EngineStep
  <1>11. CASE AdmitLife(s)
    BY <1>2, <1>4, <1>11
  <1>12. CASE RevokeLife(s)
    BY <1>2, <1>3, <1>5, <1>9, <1>12
  <1>13. CASE ForfeitLife(s)
    BY <1>2, <1>3, <1>6, <1>8, <1>9, <1>13
  <1>14. CASE \E k \in LifeIds \cup {NoId} : CharacterDies(s, k)
    BY <1>2, <1>7, <1>8, <1>14
  <1> QED
    BY <1>10, <1>11, <1>12, <1>13, <1>14

\* What is still on its way to the engine was on its way before.
PacketsLeft ==
    \A n \in 1 .. Len(toEngine') : \E m \in 1 .. Len(toEngine) : toEngine'[n] = toEngine[m]

\* The journal the engine has extended has no line about l.
StillUnwritten(l) ==
    \A n \in 1 .. Len(journal'[engine.run]) : journal'[engine.run][n].victim # l

\* An engine that journals deaths keeps the letters: it reads packets in order, and
\* what it journals it stops honouring.
LEMMA LettersEngine ==
  ASSUME GInv, Letters, EngineStep
  PROVE  Letters' /\ PacketsLeft
  <1>0. EngineTyped /\ toEngine \in Seq(Packet) /\ Len(toEngine) \in Nat
    BY DEF GInv, EngineTyped
  <1>1. PICK s \in Slots :
            /\ engine.run \in RunIds
            /\ engine'.run = engine.run
            /\ \A t \in Slots \ {s} : StillEnds(t)
            /\ \/ UNCHANGED journal /\ Takes("admit", s)
               \/ /\ ~Ends(s)'
                  /\ UNCHANGED toEngine \/ \E kind \in Kinds \ {"admit"} : Takes(kind, s)
                  /\ \/ UNCHANGED journal
                     \/ \E line \in Line :
                           /\ Ends(s)
                           /\ line.victim = engine.admission[s]
                           /\ journal' = [journal EXCEPT ![engine.run] = Append(@, line)]
    BY EngineDeeds
  <1>2. engine.run # 0
    BY <1>1, GameBounds
  <1>3. ASSUME NEW kind \in Kinds, Takes(kind, s)
        PROVE  /\ Len(toEngine') = Len(toEngine) - 1
               /\ 1 \in 1 .. Len(toEngine)
               /\ toEngine[1].kind = kind
               /\ toEngine[1] = Head(toEngine)
               /\ \A n \in 1 .. Len(toEngine') : /\ n + 1 \in 1 .. Len(toEngine)
                                                 /\ toEngine'[n] = toEngine[n + 1]
    <2>1. toEngine # <<>>
      BY <1>3 DEF Takes
    <2>2. toEngine[1] = Head(toEngine)
      BY <1>0, <2>1
    <2> QED
      BY <1>0, <1>3, <2>2, TakesPacket
  <1>4. PacketsLeft
    <2>1. "admit" \in Kinds
      BY DEF Kinds
    <2>2. CASE UNCHANGED toEngine
      BY <2>2 DEF PacketsLeft
    <2>3. ASSUME NEW kind \in Kinds, Takes(kind, s) PROVE PacketsLeft
      BY <1>3, <2>3 DEF PacketsLeft
    <2> QED
      BY <1>1, <2>1, <2>2, <2>3
  <1>5. CASE UNCHANGED journal /\ Takes("admit", s)
    <2>1. "admit" \in Kinds
      BY DEF Kinds
    <2>2. /\ 1 \in 1 .. Len(toEngine) /\ Admits(1) /\ toEngine[1] = Head(toEngine)
      BY <1>3, <1>5, <2>1 DEF Admits
    <2>3. \A n \in 1 .. Len(toEngine') : ~Admits(n)'
      <3>1. SUFFICES ASSUME NEW n \in 1 .. Len(toEngine'), Admits(n)' PROVE FALSE
        OBVIOUS
      <3>2. n + 1 \in 1 .. Len(toEngine) /\ Admits(n + 1)
        BY <1>3, <1>5, <2>1, <3>1 DEF Admits
      <3>3. n + 1 # 1
        BY <1>3, <1>5, <2>1
      <3> QED
        BY <1>2, <2>2, <3>2, <3>3 DEF Letters, OneLetter
    <2>4. OneLetter' /\ FreshLetter'
      BY <2>3 DEF OneLetter, FreshLetter
    <2>5. EndsUnwritten'
      <3>1. SUFFICES ASSUME NEW t \in Slots, Ends(t)'
                     PROVE  Unwritten(engine.run, engine.admission[t])'
        BY DEF EndsUnwritten
      <3>2. CASE t = s
        <4>1. engine'.admission[t] = toEngine[1].life
          BY <1>5, <2>2, <3>2 DEF Takes
        <4>2. Unwritten(engine.run, toEngine[1].life)
          BY <1>2, <2>2 DEF Letters, FreshLetter
        <4> QED
          BY <1>1, <1>5, <4>1, <4>2 DEF Unwritten
      <3>3. CASE t # s
        <4>1. Ends(t) /\ engine'.admission[t] = engine.admission[t]
          BY <1>1, <3>1, <3>3 DEF StillEnds
        <4>2. Unwritten(engine.run, engine.admission[t])
          BY <4>1 DEF Letters, EndsUnwritten
        <4> QED
          BY <1>1, <1>5, <4>1, <4>2 DEF Unwritten
      <3> QED
        BY <3>2, <3>3
    <2>6. WrittenOnce'
      BY <1>5 DEF Letters, WrittenOnce
    <2> QED
      BY <1>4, <2>4, <2>5, <2>6 DEF Letters
  <1>6. ASSUME ~Ends(s)',
               UNCHANGED toEngine \/ \E kind \in Kinds \ {"admit"} : Takes(kind, s),
               \/ UNCHANGED journal
               \/ \E line \in Line :
                     /\ Ends(s)
                     /\ line.victim = engine.admission[s]
                     /\ journal' = [journal EXCEPT ![engine.run] = Append(@, line)]
        PROVE  Letters'
    <2>1. OneLetter'
      <3>1. CASE UNCHANGED toEngine
        BY <1>1, <3>1 DEF Letters, OneLetter, Admits
      <3>2. ASSUME NEW kind \in Kinds, Takes(kind, s) PROVE OneLetter'
        <4>1. SUFFICES ASSUME NEW m \in 1 .. Len(toEngine'), NEW n \in 1 .. Len(toEngine'),
                              Admits(m)', Admits(n)'
                       PROVE  m = n
          BY DEF OneLetter
        <4>2. /\ m + 1 \in 1 .. Len(toEngine) /\ Admits(m + 1)
              /\ n + 1 \in 1 .. Len(toEngine) /\ Admits(n + 1)
          BY <1>3, <3>2, <4>1 DEF Admits
        <4>3. m + 1 = n + 1
          BY <1>2, <4>2 DEF Letters, OneLetter
        <4> QED
          BY <4>3
      <3> QED
        BY <1>6, <3>1, <3>2
    <2>2. \A t \in Slots : Ends(t)' => /\ t # s /\ Ends(t)
                                       /\ engine'.admission[t] = engine.admission[t]
      BY <1>1, <1>6 DEF StillEnds
    <2>3. \A l : Unwritten(engine.run, l) /\ (Ends(s) => engine.admission[s] # l)
                    => StillUnwritten(l)
      <3>1. CASE UNCHANGED journal
        BY <3>1 DEF Unwritten, StillUnwritten
      <3>2. ASSUME NEW line \in Line, Ends(s), line.victim = engine.admission[s],
                   journal' = [journal EXCEPT ![engine.run] = Append(@, line)],
                   NEW l, Unwritten(engine.run, l), engine.admission[s] # l
            PROVE  StillUnwritten(l)
        <4>1. /\ Len(journal'[engine.run]) = Len(journal[engine.run]) + 1
              /\ \A n \in 1 .. Len(journal[engine.run]) :
                    journal'[engine.run][n] = journal[engine.run][n]
              /\ journal'[engine.run][Len(journal[engine.run]) + 1] = line
              /\ Len(journal[engine.run]) \in Nat
          BY <1>0, <1>1, <3>2, AppendedLines DEF EngineTyped
        <4> QED
          BY <1>1, <3>2, <4>1 DEF Unwritten, StillUnwritten
      <3> QED
        BY <1>6, <3>1, <3>2
    <2>4. EndsUnwritten'
      <3>1. SUFFICES ASSUME NEW t \in Slots, Ends(t)'
                     PROVE  Unwritten(engine.run, engine.admission[t])'
        BY DEF EndsUnwritten
      <3>2. t # s /\ Ends(t) /\ engine'.admission[t] = engine.admission[t]
        BY <2>2, <3>1
      <3>3. Unwritten(engine.run, engine.admission[t])
        BY <3>2 DEF Letters, EndsUnwritten
      <3>4. Ends(s) => engine.admission[s] # engine.admission[t]
        BY <3>2, HonouredLife DEF Sits
      <3>5. StillUnwritten(engine.admission[t])
        BY <2>3, <3>3, <3>4
      <3> QED
        BY <1>1, <3>2, <3>5 DEF Unwritten, StillUnwritten
    <2>5. FreshLetter'
      <3>1. SUFFICES ASSUME NEW n \in 1 .. Len(toEngine'), Admits(n)'
                     PROVE  /\ Unwritten(engine.run, toEngine[n].life)'
                            /\ \A t \in Slots : Ends(t)' => engine'.admission[t] # toEngine'[n].life
        BY <1>1, <1>2 DEF FreshLetter
      <3>2. PICK m \in 1 .. Len(toEngine) : toEngine'[n] = toEngine[m]
        BY <1>4 DEF PacketsLeft
      <3>3. PICK l : l = toEngine[m].life
        OBVIOUS
      <3>4. Unwritten(engine.run, l) /\ \A t \in Slots : Ends(t) => engine.admission[t] # l
        BY <1>2, <3>1, <3>2, <3>3 DEF Letters, FreshLetter, Admits
      <3>5. StillUnwritten(l)
        BY <2>3, <3>4
      <3> QED
        BY <1>1, <2>2, <3>2, <3>3, <3>4, <3>5 DEF Unwritten, StillUnwritten
    <2>6. WrittenOnce'
      <3>1. CASE UNCHANGED journal
        BY <3>1 DEF Letters, WrittenOnce
      <3>2. ASSUME NEW line \in Line, Ends(s), line.victim = engine.admission[s],
                   journal' = [journal EXCEPT ![engine.run] = Append(@, line)]
            PROVE  WrittenOnce'
        <4>1. /\ \A r \in RunIds :
                    /\ Len(journal'[r]) = IF r = engine.run THEN Len(journal[r]) + 1
                                          ELSE Len(journal[r])
                    /\ Len(journal[r]) \in Nat
                    /\ \A n \in 1 .. Len(journal[r]) : journal'[r][n] = journal[r][n]
              /\ journal'[engine.run][Len(journal[engine.run]) + 1] = line
          BY <1>0, <1>1, <3>2, AppendedLines DEF EngineTyped
        <4>2. \A n \in 1 .. Len(journal[engine.run]) : journal[engine.run][n].victim # line.victim
          BY <3>2 DEF Letters, EndsUnwritten, Unwritten
        <4>3. SUFFICES ASSUME NEW r \in RunIds, NEW m \in 1 .. Len(journal'[r]),
                              NEW n \in 1 .. Len(journal'[r]),
                              journal'[r][m].victim = journal'[r][n].victim
                       PROVE  m = n
          BY DEF WrittenOnce
        <4>4. CASE m \in 1 .. Len(journal[r]) /\ n \in 1 .. Len(journal[r])
          BY <4>1, <4>3, <4>4 DEF Letters, WrittenOnce
        <4>5. CASE ~ (m \in 1 .. Len(journal[r]) /\ n \in 1 .. Len(journal[r]))
          <5>1. r = engine.run
            BY <4>1, <4>5
          <5>2. \A i \in 1 .. Len(journal'[r]) :
                   i \in 1 .. Len(journal[r]) \/ i = Len(journal[r]) + 1
            BY <4>1, <5>1
          <5>3. \A i \in 1 .. Len(journal[r]) : journal'[r][i].victim # line.victim
            BY <4>1, <4>2, <5>1
          <5>4. journal'[r][Len(journal[r]) + 1].victim = line.victim
            BY <4>1, <5>1
          <5> QED
            BY <4>3, <4>5, <5>2, <5>3, <5>4
        <4> QED
          BY <4>4, <4>5
      <3> QED
        BY <1>6, <3>1, <3>2
    <2> QED
      BY <2>1, <2>4, <2>5, <2>6 DEF Letters
  <1> QED
    BY <1>1, <1>4, <1>5, <1>6

\* Nobody is admitted: what is said of the letters stays.
LEMMA LettersKept ==
  ASSUME GInv, Letters, UNCHANGED <<engine, journal>>, Quiet
  PROVE  Letters'
  <1>0. EngineTyped
    BY DEF GInv
  <1>1. EndsUnwritten' /\ WrittenOnce'
    BY DEF Letters, EndsUnwritten, WrittenOnce, Unwritten, Ends
  <1>2. \A n \in 1 .. Len(toEngine') :
           Admits(n)' => n \in 1 .. Len(toEngine) /\ toEngine'[n] = toEngine[n]
    <2>1. CASE UNCHANGED toEngine
      BY <2>1
    <2>2. ASSUME NEW pkt \in Packet, pkt.kind # "admit", toEngine' = Append(toEngine, pkt),
                 NEW n \in 1 .. Len(toEngine'), Admits(n)'
          PROVE  n \in 1 .. Len(toEngine) /\ toEngine'[n] = toEngine[n]
      <3>1. /\ Len(toEngine) \in Nat
            /\ Len(toEngine') = Len(toEngine) + 1
            /\ \A m \in 1 .. Len(toEngine) : toEngine'[m] = toEngine[m]
            /\ toEngine'[Len(toEngine) + 1] = pkt
        BY <1>0, <2>2, PacketSent
      <3>2. n # Len(toEngine) + 1
        BY <2>2, <3>1 DEF Admits
      <3> QED
        BY <3>1, <3>2
    <2> QED
      BY <2>1, <2>2 DEF Quiet
  <1>3. OneLetter'
    BY <1>2 DEF Letters, OneLetter, Admits
  <1>4. FreshLetter'
    BY <1>2 DEF Letters, FreshLetter, Admits, Unwritten, Ends
  <1> QED
    BY <1>1, <1>3, <1>4 DEF Letters

\* The engine has ended, or a new one knows nobody.
LEMMA LettersGone ==
  ASSUME Letters, UNCHANGED journal, \A s \in Slots : ~Ends(s)',
         engine'.run = 0 \/ toEngine' = <<>>
  PROVE  Letters'
  <1>1. WrittenOnce'
    BY DEF Letters, WrittenOnce
  <1>2. OneLetter' /\ FreshLetter'
    <2>1. CASE engine'.run = 0
      BY <2>1 DEF OneLetter, FreshLetter
    <2>2. CASE toEngine' = <<>>
      <3>1. Len(toEngine') = 0
        BY <2>2
      <3> QED
        BY <3>1 DEF OneLetter, FreshLetter
    <2> QED
      BY <2>1, <2>2
  <1> QED
    BY <1>1, <1>2 DEF Letters, EndsUnwritten

\* A life is on its way that no line names and no slot has.
LEMMA LettersSent ==
  ASSUME GInv, Letters, UNCHANGED <<engine, journal>>, NEW pkt \in Packet,
         toEngine' = Append(toEngine, pkt), \A n \in 1 .. Len(toEngine) : ~Admits(n),
         engine.run # 0 => Unwritten(engine.run, pkt.life),
         \A s \in Slots : Ends(s) => engine.admission[s] # pkt.life
  PROVE  Letters'
  <1>0. EngineTyped
    BY DEF GInv
  <1>1. EndsUnwritten' /\ WrittenOnce'
    BY DEF Letters, EndsUnwritten, WrittenOnce, Unwritten, Ends
  <1>2. \A n \in 1 .. Len(toEngine') :
           Admits(n)' => n = Len(toEngine) + 1 /\ toEngine'[n] = pkt
    <2>1. /\ Len(toEngine) \in Nat
          /\ Len(toEngine') = Len(toEngine) + 1
          /\ \A m \in 1 .. Len(toEngine) : toEngine'[m] = toEngine[m]
          /\ toEngine'[Len(toEngine) + 1] = pkt
      BY <1>0, PacketSent
    <2> QED
      BY <2>1 DEF Admits
  <1>3. OneLetter'
    BY <1>2 DEF OneLetter
  <1>4. FreshLetter'
    BY <1>2 DEF FreshLetter, Unwritten, Ends
  <1> QED
    BY <1>1, <1>3, <1>4 DEF Letters

----------------------------------------------------------------------------
(* Who keeps a seat.                                                        *)

\* The peers on the slots X lose their seats, the others keep theirs.
SeatsMove(X) ==
    /\ \A s \in Slots \ X : match'.peers[s] = match.peers[s]
    /\ \A s \in X : match'.peers[s] = NoConn
    /\ \A s \in Slots \ X : match.peers[s] # NoConn =>
          /\ conns'[match.peers[s]].life = conns[match.peers[s]].life
          /\ conns'[match.peers[s]].slot = conns[match.peers[s]].slot

\* The lines that wait after a step were waiting before it.
LEMMA StillWaiting ==
  ASSUME GInv, [GameNext]_gameVars, UNCHANGED journal, NEW r \in RunIds,
         NEW n \in Unapplied(r)'
  PROVE  n \in Unapplied(r)
  <1>1. /\ runs[r].sequence \in Nat /\ runs'[r].sequence \in Nat
        /\ runs[r].sequence <= runs'[r].sequence
    BY RunsMove
  <1> QED
    BY <1>1 DEF Unapplied

\* Those who lose their seats are neither in the engine nor in a line that waits,
\* unless they are leaving.
LEMMA SeatsCarry ==
  ASSUME GInv, [GameNext]_gameVars, Letters, OpenShape, match.state = "open",
         match'.run = match.run, UNCHANGED <<engine, journal>>, task.pc # "admit",
         NEW X, SeatsMove(X), \A s \in X : ~Ends(s),
         \A n \in Unapplied(match.run)' :
            lives[journal[match.run][n].victim].slot \in X \/ Withdrawing(journal[match.run][n].victim)
               => Withdrawing(journal[match.run][n].victim)'
  PROVE  SeatRows' /\ EndsGuarded' /\ LinesGuarded'
  <1>1. match.run \in RunIds /\ match.run # 0
    BY TaskMatch
  <1>2. SeatRows /\ EndsGuarded /\ LinesGuarded
    BY DEF OpenShape
  <1>3. WrittenOnce /\ EndsUnwritten
    BY DEF Letters
  <1>4. SeatRows'
    BY <1>2 DEF SeatRows, SeatsMove
  <1>5. ASSUME NEW s \in Slots \ X, NEW l \in LifeIds, Guard(s, l),
               lives'[l].player = lives[l].player
        PROVE  Guard(s, l)'
    BY <1>5 DEF Guard, SeatsMove
  <1>6. EndsGuarded'
    <2>1. SUFFICES ASSUME NEW s \in Slots, Ends(s) PROVE Guard(s, engine.admission[s])'
      BY DEF EndsGuarded, Ends
    <2>2. PICK l : l = engine.admission[s]
      OBVIOUS
    <2>3. /\ engine.run \in RunIds /\ engine.run # 0 /\ engine.run = match.run
          /\ l \in LifeIds
          /\ lives[l].status = "alive" /\ lives[l].run = engine.run
          /\ task.pc = "finish" => l \notin UsableOf(task.player)
      BY <1>1, <1>3, <2>1, <2>2, EndsAlive, HonouredLife
    <2>4. lives'[l].player = lives[l].player
      BY <1>1, <2>3, SittingKept
    <2>5. Guard(s, l)
      BY <1>2, <2>1, <2>2 DEF EndsGuarded, Entering
    <2>6. Guard(s, l)'
      BY <1>5, <2>1, <2>3, <2>4, <2>5
    <2> QED
      BY <2>2, <2>6 DEF Guard
  <1>7. LinesGuarded'
    <2>1. SUFFICES ASSUME NEW n \in Unapplied(match.run)'
                   PROVE  LineGuarded(journal[match.run][n].victim)'
      BY DEF LinesGuarded
    <2>2. PICK v : v = journal[match.run][n].victim
      OBVIOUS
    <2>3. n \in Unapplied(match.run)
      BY <1>1, <2>1, StillWaiting
    <2>4. /\ v \in LifeIds /\ lives[v].run = match.run
          /\ lives[v].status = "alive" /\ lives[v].slot \in Slots
      BY <1>1, <1>3, <2>2, <2>3, VictimAlive
    <2>5. task.pc = "finish" => v \notin UsableOf(task.player)
      <3>1. task.pc = "finish" => task.op = "leave"
        BY TaskOps
      <3> QED
        BY <2>2, <2>3, <3>1 DEF GInv, LeaveShape
    <2>6. lives'[v].player = lives[v].player /\ lives'[v].slot = lives[v].slot
      BY <1>1, <2>3, <2>4, <2>5, SittingKept
    <2>7. Guard(lives[v].slot, v) \/ Withdrawing(v)
      BY <1>2, <2>2, <2>3 DEF LinesGuarded, LineGuarded, Entering
    <2>8. CASE lives[v].slot \in X \/ Withdrawing(v)
      <3>1. Withdrawing(v)'
        BY <2>1, <2>2, <2>8 DEF Withdrawing
      <3> QED
        BY <2>2, <3>1 DEF LineGuarded, Withdrawing
    <2>9. CASE ~ (lives[v].slot \in X \/ Withdrawing(v))
      <3>1. Guard(lives[v].slot, v)'
        BY <1>5, <2>4, <2>6, <2>7, <2>9 DEF Guard
      <3> QED
        BY <2>2, <2>6, <3>1 DEF LineGuarded, Guard
    <2> QED
      BY <2>8, <2>9
  <1> QED
    BY <1>4, <1>6, <1>7

\* Nobody loses a seat.
LEMMA SeatsHeld ==
  ASSUME GInv, [GameNext]_gameVars, Letters, OpenShape, match.state = "open",
         match'.run = match.run, UNCHANGED <<engine, journal>>, task.pc # "admit",
         match'.peers = match.peers,
         \A s \in Slots : match.peers[s] # NoConn =>
            /\ conns'[match.peers[s]].life = conns[match.peers[s]].life
            /\ conns'[match.peers[s]].slot = conns[match.peers[s]].slot,
         \/ task.op # "leave" \/ task.pc # "apply"
         \/ task'.op = "leave" /\ task'.pc = "apply" /\ task'.player = task.player
         \/ Unapplied(match.run)' = {}
  PROVE  SeatRows' /\ EndsGuarded' /\ LinesGuarded'
  <1>1. SeatsMove({})
    BY DEF SeatsMove
  <1>2. ASSUME NEW n \in Unapplied(match.run)', Withdrawing(journal[match.run][n].victim)
        PROVE  Withdrawing(journal[match.run][n].victim)'
    <2>1. PICK v : v = journal[match.run][n].victim
      OBVIOUS
    <2>2. match.run \in RunIds /\ match.run # 0
      BY TaskMatch
    <2>3. n \in Unapplied(match.run)
      BY <1>2, <2>2, StillWaiting
    <2>4. /\ v \in LifeIds /\ lives[v].run = match.run /\ lives[v].status = "alive"
      BY <2>1, <2>2, <2>3, VictimAlive DEF Letters
    <2>5. lives'[v].player = lives[v].player
      BY <1>2, <2>2, <2>3, <2>4, SittingKept DEF Withdrawing
    <2> QED
      BY <1>2, <2>1, <2>5 DEF Withdrawing
  <1> QED
    BY <1>1, <1>2, SeatsCarry

\* An operation that has nobody to admit, to revoke or to withdraw.
LEMMA FreshTask ==
  ASSUME task'.pc \notin {"admit", "withdraw", "detach"}, task'.wait = "none", ~Emptying'
  PROVE  EnteringRow' /\ DeadPeer' /\ WithdrawnRow' /\ EmptyRow'
  BY DEF EnteringRow, DeadPeer, WithdrawnRow, EmptyRow

\* A step of another process.
LEMMA Bystander ==
  ASSUME GInv, Letters, OpenShape,
         UNCHANGED <<match, task, lives, runs, engine, journal, toEngine>>,
         \A c \in Conns : /\ conns'[c].life = conns[c].life
                          /\ conns'[c].slot = conns[c].slot
  PROVE  OpenShape'
  <1>1. SUFFICES ASSUME match.state = "open" PROVE OpenShape'
    BY DEF OpenShape
  <1>2. \A s \in Slots : match.peers[s] # NoConn => match.peers[s] \in Conns
    BY DEF GInv, ServerTyped, MatchRecord
  <1>3. ASSUME NEW s \in Slots, NEW l PROVE Guard(s, l)' <=> Guard(s, l)
    BY <1>2 DEF Guard
  <1>4. SeatRows'
    BY <1>1, <1>2 DEF OpenShape, SeatRows
  <1>5. EndsGuarded'
    BY <1>1, <1>2 DEF OpenShape, EndsGuarded, Guard, Entering, Ends
  <1>6. LinesGuarded'
    <2>1. SUFFICES ASSUME NEW n \in Unapplied(match.run)
                   PROVE  LineGuarded(journal[match.run][n].victim)'
      BY DEF LinesGuarded, Unapplied
    <2>2. PICK v : v = journal[match.run][n].victim
      OBVIOUS
    <2>3. match.run \in RunIds
      BY <1>1, TaskMatch
    <2>4. lives[v].slot \in Slots
      BY <2>2, <2>3, VictimAlive DEF Letters
    <2>5. LineGuarded(v)
      BY <1>1, <2>2 DEF OpenShape, LinesGuarded
    <2>6. LineGuarded(v)'
      BY <1>2, <2>4, <2>5 DEF LineGuarded, Guard, Entering, Withdrawing
    <2> QED
      BY <2>2, <2>6 DEF LineGuarded, Guard, Entering, Withdrawing
  <1>7. EnteringRow' /\ WithdrawnRow'
    BY <1>1 DEF OpenShape, EnteringRow, WithdrawnRow, Admits
  <1>8. DeadPeer'
    BY <1>1, <1>2 DEF OpenShape, DeadPeer
  <1>9. EmptyRow'
    <2>1. task.op \in {"attach", "detach"} => task.conn \in Conns
      BY DEF GInv, TaskShape, AttachShape, DetachShape
    <2>2. task.pc \in {"tabs", "detach"} => task.op \in {"attach", "detach"}
      BY TaskOps
    <2>3. Emptying => task.op \in {"attach", "detach"}
      BY DEF Emptying
    <2>4. OtherTab(task.conn)' <=> OtherTab(task.conn)
      BY DEF OtherTab
    <2>5. Emptying' <=> Emptying
      BY DEF Emptying
    <2>6. \A s \in Slots : Ends(s)' <=> Ends(s)
      BY DEF Ends
    <2> QED
      BY <1>1, <2>1, <2>2, <2>3, <2>4, <2>5 DEF OpenShape, EmptyRow, Unapplied, Ends
  <1> QED
    BY <1>4, <1>5, <1>6, <1>7, <1>8, <1>9 DEF OpenShape

----------------------------------------------------------------------------
(* The operations that free no seat.                                        *)

\* A step that takes nobody's seat and seats nobody leaves the table of seats as it was.
LEMMA HeldStep ==
  ASSUME GInv, [GameNext]_gameVars, OInv, UNCHANGED <<engine, journal>>, Quiet,
         match'.state = "open" =>
            /\ match.state = "open" /\ task.pc # "admit"
            /\ match'.run = match.run /\ match'.peers = match.peers
            /\ \A s \in Slots : match.peers[s] # NoConn =>
                  /\ conns'[match.peers[s]].life = conns[match.peers[s]].life
                  /\ conns'[match.peers[s]].slot = conns[match.peers[s]].slot
            /\ \/ task.op # "leave" \/ task.pc # "apply"
               \/ task'.op = "leave" /\ task'.pc = "apply" /\ task'.player = task.player
               \/ Unapplied(match.run)' = {}
            /\ EnteringRow' /\ DeadPeer' /\ WithdrawnRow' /\ EmptyRow'
  PROVE  OInv'
  <1>1. Letters'
    BY LettersKept DEF OInv
  <1>2. CASE match'.state = "open"
    <2>1. SeatRows' /\ EndsGuarded' /\ LinesGuarded'
      BY <1>2, SeatsHeld DEF OInv
    <2> QED
      BY <1>1, <1>2, <2>1 DEF OInv, OpenShape
  <1>3. CASE match'.state # "open"
    BY <1>1, <1>3 DEF OInv, OpenShape
  <1> QED
    BY <1>2, <1>3

\* The peers are connections.
LEMMA PeersTyped ==
  ASSUME GInv
  PROVE  \A s \in Slots : match.peers[s] # NoConn => match.peers[s] \in Conns
  BY DEF GInv, ServerTyped, MatchRecord

\* Without an operation there is nothing to know about one.
LEMMA NoTaskFresh ==
  ASSUME task' = NoTask
  PROVE  EnteringRow' /\ DeadPeer' /\ WithdrawnRow' /\ EmptyRow'
  <1>1. task'.op = "none" /\ task'.pc = "idle" /\ task'.wait = "none"
    BY TaskDone
  <1>2. ~Emptying'
    BY <1>1 DEF Emptying
  <1> QED
    BY <1>1, <1>2, FreshTask

\* The phase of a connection says nothing of its seat.
LEMMA PhaseOnly ==
  ASSUME GInv, NEW c \in Conns, NEW ph, NEW r,
         \/ conns' = [conns EXCEPT ![c].phase = ph]
         \/ conns' = [conns EXCEPT ![c].phase = ph, ![c].run = r]
  PROVE  \A d \in Conns : conns'[d].life = conns[d].life /\ conns'[d].slot = conns[d].slot
  <1>1. conns \in [Conns -> SeatRecord]
    BY DEF GInv, ServerTyped
  <1> QED
    BY <1>1 DEF SeatRecord

\* A wait that fails frees no seat of a match that stays open.
LEMMA FailsOrphan ==
  ASSUME GInv, [GameNext]_gameVars, OInv, OperationFails
  PROVE  OInv'
  <1>1. task' = NoTask /\ UNCHANGED <<engine, journal, toEngine>>
    BY DEF OperationFails, ipcVars
  <1>2. ASSUME match'.state = "open"
        PROVE  /\ match.state = "open" /\ match' = match
               /\ task.op = "attach" /\ task.pc # "admit"
    BY <1>2 DEF OperationFails, Stopping, Closed, GInv, ServerTyped, MatchRecord
  <1>3. ASSUME task.op = "attach"
        PROVE  /\ task.conn \in Conns
               /\ conns' = [conns EXCEPT ![task.conn].phase = "open"]
    BY <1>3 DEF OperationFails, GInv, TaskShape, AttachShape
  <1>4. task.op = "attach" =>
           \A d \in Conns : conns'[d].life = conns[d].life /\ conns'[d].slot = conns[d].slot
    BY <1>3, PhaseOnly
  <1>5. Quiet
    BY <1>1 DEF Quiet
  <1> QED
    BY <1>1, <1>2, <1>4, <1>5, HeldStep, NoTaskFresh, PeersTyped

\* An attach that ends before a slot is popped.
LEMMA AttachEndsOrphan ==
  ASSUME GInv, [GameNext]_gameVars, OInv, AttachEnds(task.conn), task.pc = "tabs",
         UNCHANGED <<match, engine, journal, toEngine>>
  PROVE  OInv'
  <1>1. task' = NoTask /\ conns' = [conns EXCEPT ![task.conn].phase = "open"]
    BY DEF AttachEnds
  <1>2. task.conn \in Conns /\ task.op = "attach"
    BY TaskOps DEF GInv, TaskShape, AttachShape
  <1>3. \A d \in Conns : conns'[d].life = conns[d].life /\ conns'[d].slot = conns[d].slot
    BY <1>1, <1>2, PhaseOnly
  <1>4. Quiet
    BY DEF Quiet
  <1> QED
    BY <1>1, <1>2, <1>3, <1>4, HeldStep, NoTaskFresh, PeersTyped

\* An attach begins with a replay.
LEMMA AttachBeginOrphan ==
  ASSUME GInv, [GameNext]_gameVars, OInv, NEW c \in Conns, AttachBegin(c)
  PROVE  OInv'
  <1>1. /\ Idle /\ UNCHANGED <<match, engine, journal, toEngine>>
    BY DEF AttachBegin, ipcVars
  <1>2. task.op = "none" /\ task.pc = "idle" /\ task.wait = "none"
    BY <1>1 DEF Idle, GInv, TaskShape
  <1>3. Quiet
    BY <1>1 DEF Quiet
  <1>4. CASE match.run = conns[c].run
    <2>1. PICK t : t = [NoTask EXCEPT !.op = "attach", !.next = "tabs", !.conn = c]
      OBVIOUS
    <2>2. t = [op |-> "attach", pc |-> "idle", next |-> "tabs", until |-> 0, wait |-> "none",
               conn |-> c, player |-> NoPlayer, slot |-> 0, life |-> NoId]
      BY <2>1 DEF NoTask
    <2>3. t \in TaskRecord
      BY <2>2, NewTask DEF Ops
    <2>4. task' = Reading(t, match.offset) /\ UNCHANGED conns
      BY <1>4, <2>1 DEF AttachBegin
    <2>5. match.run # 0
      BY <1>4 DEF AttachBegin, GInv, TaskShape
    <2>6. Reads(task', t, match.offset)
      BY <2>3, <2>4, <2>5, ReadTask
    <2>7. /\ task'.op = "attach" /\ task'.next = "tabs" /\ task'.wait = "none"
          /\ task'.pc \in {"apply", "tabs"}
      BY <2>2, <2>6 DEF Reads
    <2>8. ~Emptying'
      BY <2>7 DEF Emptying
    <2>9. EnteringRow' /\ DeadPeer' /\ WithdrawnRow' /\ EmptyRow'
      BY <2>7, <2>8, FreshTask
    <2> QED
      BY <1>1, <1>2, <1>3, <2>4, <2>9, HeldStep
  <1>5. CASE match.run # conns[c].run
    <2>1. UNCHANGED task /\ conns' = [conns EXCEPT ![c].phase = "open", ![c].run = 0]
      BY <1>5 DEF AttachBegin
    <2>2. \A d \in Conns : conns'[d].life = conns[d].life /\ conns'[d].slot = conns[d].slot
      BY <2>1, PhaseOnly
    <2>3. ~Emptying'
      BY <1>2, <2>1 DEF Emptying
    <2>4. EnteringRow' /\ DeadPeer' /\ WithdrawnRow' /\ EmptyRow'
      BY <1>2, <2>1, <2>3, FreshTask
    <2> QED
      BY <1>1, <1>2, <1>3, <2>2, <2>4, HeldStep, PeersTyped
  <1> QED
    BY <1>4, <1>5

\* The engine is asked to empty the slot of a former life.
LEMMA RevokeFormerOrphan ==
  ASSUME GInv, [GameNext]_gameVars, OInv, RevokeFormerLife
  PROVE  OInv'
  <1>1. /\ task.pc = "tabs" /\ ~OtherTab(task.conn) /\ conns[task.conn].life # NoId
        /\ Control("revoke", conns[task.conn].slot, NoId, task)
        /\ UNCHANGED <<engine, journal, match, conns>>
    BY DEF RevokeFormerLife
  <1>2. task.op = "attach" /\ task.conn \in Conns
    BY <1>1, TaskOps DEF GInv, TaskShape, AttachShape
  <1>3. conns[task.conn].slot \in Slots
    BY <1>1, <1>2 DEF GInv, SeatShape
  <1>4. task \in TaskRecord
    BY DEF GInv, ServerTyped
  <1>5. "revoke" \in Kinds \ {"admit"}
    BY DEF Kinds
  <1>6. Sends("revoke", conns[task.conn].slot, NoId, task)
    BY <1>1, <1>3, <1>4, <1>5, ControlSends
  <1>7. Quiet
    BY <1>3, <1>5, <1>6, SendsQuietly
  <1>8. /\ task'.op = "attach" /\ task'.pc = "tabs" /\ task'.conn = task.conn
        /\ task'.slot = conns[task.conn].slot
    BY <1>1, <1>2, <1>6 DEF Sends
  <1>9. EmptyRow'
    BY <1>1, <1>8 DEF EmptyRow, Emptying, OtherTab
  <1>10. EnteringRow' /\ DeadPeer' /\ WithdrawnRow'
    BY <1>8 DEF EnteringRow, DeadPeer, WithdrawnRow
  <1> QED
    BY <1>1, <1>2, <1>7, <1>9, <1>10, HeldStep

\* The slot an attach or a detach frees is empty in the engine, and the batch it
\* reads is the last.
LEMMA EmptyRead ==
  ASSUME OneBatch, GInv, OInv, match.run # 0, NEW t \in TaskRecord,
         task' = Reading(t, match.offset), UNCHANGED <<match, journal, runs, engine, conns>>,
         t.wait = "none",
         \/ t.op = "attach" /\ t.next = "pop" /\ ~OtherTab(t.conn)
         \/ t.op = "detach" /\ t.next = "gone",
         ~Ends(conns[t.conn].slot)
  PROVE  EnteringRow' /\ DeadPeer' /\ WithdrawnRow' /\ EmptyRow'
  <1>1. Reads(task', t, match.offset)
    BY ReadTask
  <1>2. \/ task'.pc = "apply" /\ task'.until = Len(journal[match.run])
        \/ task'.pc \in {"pop", "gone"} /\ Unapplied(match.run) = {}
    BY ReadsAll DEF OInv, Letters
  <1>3. task'.wait = "none" /\ task'.conn = t.conn /\ task'.op = t.op
    BY <1>1 DEF Reads
  <1>4. EnteringRow' /\ DeadPeer' /\ WithdrawnRow'
    BY <1>2, <1>3 DEF EnteringRow, DeadPeer, WithdrawnRow
  <1>5. Len(journal[match.run]) \in Nat
    BY TaskMatch, RunsTyped
  <1>6. \A n \in Unapplied(match.run) : ~ (task'.pc = "apply" => n > task'.until)
    BY <1>2, <1>5 DEF Unapplied
  <1>7. task'.op = "attach" => ~OtherTab(task'.conn)
    BY <1>3
  <1>8. EmptyRow'
    BY <1>2, <1>3, <1>6, <1>7 DEF EmptyRow, Unapplied, Ends, OtherTab
  <1> QED
    BY <1>4, <1>8

\* Once the former life is revoked, one batch reads every line about its slot.
LEMMA FormerLifeOrphan ==
  ASSUME OneBatch, GInv, [GameNext]_gameVars, OInv, FormerLifeRevoked
  PROVE  OInv'
  <1>1. /\ task.pc = "tabs" /\ match.state = "open" /\ task.wait = "revoke"
        /\ acks # <<>> /\ Head(acks) = [kind |-> "revoke", slot |-> task.slot]
        /\ UNCHANGED <<runs, lives, engine, journal, toEngine, match, conns>>
    BY DEF FormerLifeRevoked, Answered, vars
  <1>2. task.op = "attach" /\ task.conn \in Conns /\ match.run # 0 /\ task \in TaskRecord
    BY <1>1, TaskOps, TaskMatch DEF GInv, TaskShape, AttachShape, ServerTyped
  <1>3. EmptyRow
    BY <1>1 DEF OInv, OpenShape
  <1>4. task.slot = conns[task.conn].slot /\ ~OtherTab(task.conn)
    BY <1>1, <1>3 DEF EmptyRow
  <1>5. ~Ends(task.slot)
    BY <1>1, RevokedSlot
  <1>6. PICK t : t = [task EXCEPT !.next = "pop", !.wait = "none"]
    OBVIOUS
  <1>7. /\ t \in TaskRecord /\ t.wait = "none" /\ t.op = "attach" /\ t.next = "pop"
        /\ t.conn = task.conn
    BY <1>2, <1>6 DEF TaskRecord
  <1>8. task' = Reading(t, match.offset)
    BY <1>6 DEF FormerLifeRevoked
  <1>9. EnteringRow' /\ DeadPeer' /\ WithdrawnRow' /\ EmptyRow'
    BY <1>1, <1>2, <1>4, <1>5, <1>7, <1>8, EmptyRead
  <1> QED
    BY <1>1, <1>2, <1>9, HeldStep DEF Quiet

\* Once a closing tab's slot is revoked, one batch reads every line about it.
LEMMA DetachedOrphan ==
  ASSUME OneBatch, GInv, [GameNext]_gameVars, OInv, Detached
  PROVE  OInv'
  <1>1. /\ task.pc = "detach" /\ match.state = "open"
        /\ acks # <<>> /\ Head(acks).slot = task.slot
        /\ UNCHANGED <<runs, lives, engine, journal, toEngine, match, conns>>
    BY DEF Detached, Answered, vars
  <1>2. /\ task.op = "detach" /\ task.next = "gone" /\ task.conn \in Conns /\ match.run # 0
        /\ task \in TaskRecord
    BY <1>1, TaskOps, TaskMatch DEF GInv, TaskShape, DetachShape, ServerTyped
  <1>3. EmptyRow
    BY <1>1 DEF OInv, OpenShape
  <1>4. task.slot = conns[task.conn].slot
    BY <1>1, <1>3 DEF EmptyRow
  <1>5. ~Ends(task.slot)
    BY <1>1, RevokedSlot
  <1>6. PICK t : t = [task EXCEPT !.wait = "none"]
    OBVIOUS
  <1>7. /\ t \in TaskRecord /\ t.wait = "none" /\ t.op = "detach" /\ t.next = "gone"
        /\ t.conn = task.conn
    BY <1>2, <1>6 DEF TaskRecord
  <1>8. task' = Reading(t, match.offset)
    BY <1>6 DEF Detached
  <1>9. EnteringRow' /\ DeadPeer' /\ WithdrawnRow' /\ EmptyRow'
    BY <1>1, <1>2, <1>4, <1>5, <1>7, <1>8, EmptyRead
  <1> QED
    BY <1>1, <1>2, <1>9, HeldStep DEF Quiet

\* A closing tab begins with what the server still holds about it.
LEMMA DetachBeginOrphan ==
  ASSUME GInv, [GameNext]_gameVars, OInv, NEW c \in Conns, DetachBegin(c)
  PROVE  OInv'
  <1>1. /\ Idle /\ Seated(c) /\ UNCHANGED <<engine, journal, match, conns>>
    BY DEF DetachBegin
  <1>2. task.op = "none" /\ task.pc = "idle"
    BY <1>1 DEF Idle, GInv, TaskShape
  <1>3. PICK t : t = [NoTask EXCEPT !.op = "detach", !.pc = "detach", !.next = "gone", !.conn = c]
    OBVIOUS
  <1>4. t = [op |-> "detach", pc |-> "detach", next |-> "gone", until |-> 0, wait |-> "none",
             conn |-> c, player |-> NoPlayer, slot |-> 0, life |-> NoId]
    BY <1>3 DEF NoTask
  <1>5. t \in TaskRecord
    BY <1>4, NewTask DEF Ops
  <1>6. CASE match.state = "open"
    <2>1. PICK kind \in Kinds \ {"admit"} : Control(kind, conns[c].slot, NoId, t)
      <3>1. DetachKind(Owner[c]) \in Kinds \ {"admit"}
        BY DEF DetachKind, Kinds
      <3> QED
        BY <1>3, <1>6, <3>1 DEF DetachBegin
    <2>2. conns[c].slot \in Slots
      BY <1>1, SeatedMatch
    <2>3. Sends(kind, conns[c].slot, NoId, t)
      BY <1>5, <2>1, <2>2, ControlSends
    <2>4. Quiet
      BY <2>2, <2>3, SendsQuietly
    <2>5. /\ task'.pc = "detach" /\ task'.op = "detach" /\ task'.conn = c
          /\ task'.slot = conns[c].slot
      BY <1>4, <2>3 DEF Sends
    <2>6. EnteringRow' /\ DeadPeer' /\ WithdrawnRow' /\ EmptyRow'
      BY <1>1, <2>5 DEF EnteringRow, DeadPeer, WithdrawnRow, EmptyRow, Emptying
    <2> QED
      BY <1>1, <1>2, <2>4, <2>6, HeldStep
  <1>7. CASE match.state # "open"
    <2>1. UNCHANGED toEngine
      BY <1>7 DEF DetachBegin
    <2> QED
      BY <1>1, <1>7, <2>1, HeldStep DEF Quiet
  <1> QED
    BY <1>6, <1>7

\* Only a connection without a seat is given up by itself.
LEMMA DisconnectOrphan ==
  ASSUME GInv, [GameNext]_gameVars, OInv, NEW c \in Conns, Disconnect(c)
  PROVE  OInv'
  <1>1. /\ Idle /\ ~Seated(c) /\ conns' = [conns EXCEPT ![c] = NoSeat]
        /\ UNCHANGED <<engine, journal, toEngine, match, task>>
    BY DEF Disconnect, ipcVars
  <1>2. task.op = "none" /\ task.pc = "idle" /\ task.wait = "none"
    BY <1>1 DEF Idle, GInv, TaskShape
  <1>3. ~Emptying'
    BY <1>1, <1>2 DEF Emptying
  <1>4. EnteringRow' /\ DeadPeer' /\ WithdrawnRow' /\ EmptyRow'
    BY <1>1, <1>2, <1>3, FreshTask
  <1>5. ASSUME match.state = "open", NEW s \in Slots, match.peers[s] # NoConn
        PROVE  /\ conns'[match.peers[s]].life = conns[match.peers[s]].life
               /\ conns'[match.peers[s]].slot = conns[match.peers[s]].slot
    <2>1. /\ conns[match.peers[s]].life # NoId
          /\ conns[match.peers[s]].slot = s
      BY <1>5 DEF OInv, OpenShape, SeatRows
    <2>2. match.peers[s] # c
      BY <1>1, <2>1 DEF Seated
    <2>3. match.peers[s] \in Conns /\ conns \in [Conns -> SeatRecord]
      BY <1>5, PeersTyped DEF GInv, ServerTyped
    <2> QED
      BY <1>1, <2>2, <2>3
  <1> QED
    BY <1>1, <1>2, <1>4, <1>5, HeldStep DEF Quiet

\* A leave begins with the life its player has in this run.
LEMMA LeaveBeginOrphan ==
  ASSUME GInv, [GameNext]_gameVars, OInv, NEW p \in Players, LeaveBegin(p)
  PROVE  OInv'
  <1>1. /\ Idle /\ match.state = "open"
        /\ UNCHANGED <<lives, engine, journal, match, conns>>
    BY DEF LeaveBegin, vars
  <1>2. task.op = "none" /\ task.pc = "idle" /\ match.run # 0
    BY <1>1, TaskMatch DEF Idle, GInv, TaskShape
  <1>3. CASE /\ task' = Reading([NoTask EXCEPT !.op = "leave", !.next = "finish", !.player = p],
                                match.offset)
             /\ UNCHANGED toEngine
    <2>1. PICK t : t = [NoTask EXCEPT !.op = "leave", !.next = "finish", !.player = p]
      OBVIOUS
    <2>2. t = [op |-> "leave", pc |-> "idle", next |-> "finish", until |-> 0, wait |-> "none",
               conn |-> NoConn, player |-> p, slot |-> 0, life |-> NoId]
      BY <2>1 DEF NoTask
    <2>3. t \in TaskRecord
      BY <2>2, NewTask DEF Ops
    <2>4. Reads(task', t, match.offset)
      BY <1>2, <1>3, <2>1, <2>3, ReadTask
    <2>5. task'.op = "leave" /\ task'.wait = "none" /\ task'.pc \in {"apply", "finish"}
      BY <2>2, <2>4 DEF Reads
    <2>6. ~Emptying'
      BY <2>5 DEF Emptying
    <2>7. EnteringRow' /\ DeadPeer' /\ WithdrawnRow' /\ EmptyRow'
      BY <2>5, <2>6, FreshTask
    <2> QED
      BY <1>1, <1>2, <1>3, <2>7, HeldStep DEF Quiet
  <1>4. ASSUME NEW l \in LeaveFirst(p),
               Control("revoke", lives[l].slot, NoId,
                       [NoTask EXCEPT !.op = "leave", !.pc = "withdraw", !.next = "finish",
                                      !.player = p])
        PROVE  OInv'
    <2>1. PICK t : t = [NoTask EXCEPT !.op = "leave", !.pc = "withdraw", !.next = "finish",
                                      !.player = p]
      OBVIOUS
    <2>2. t = [op |-> "leave", pc |-> "withdraw", next |-> "finish", until |-> 0,
               wait |-> "none", conn |-> NoConn, player |-> p, slot |-> 0, life |-> NoId]
      BY <2>1 DEF NoTask
    <2>3. t \in TaskRecord
      BY <2>2, NewTask DEF Ops
    <2>4. /\ l \in LifeIds /\ lives[l].status = "alive" /\ lives[l].run = match.run
          /\ lives[l].player = p
      BY DEF LeaveFirst, AliveIn, AliveLives
    <2>5. lives[l].slot \in Slots
      BY <2>4 DEF GInv, SInv, SlotsExclusive, AliveLives
    <2>6. "revoke" \in Kinds \ {"admit"}
      BY DEF Kinds
    <2>7. Sends("revoke", lives[l].slot, NoId, t)
      BY <1>4, <2>1, <2>3, <2>5, <2>6, ControlSends
    <2>8. Quiet
      BY <2>5, <2>6, <2>7, SendsQuietly
    <2>9. /\ task'.pc = "withdraw" /\ task'.op = "leave" /\ task'.player = p
          /\ task'.slot = lives[l].slot
      BY <2>2, <2>7 DEF Sends
    <2>10. WithdrawnRow'
      BY <1>1, <2>4, <2>9 DEF WithdrawnRow
    <2>11. EnteringRow' /\ DeadPeer' /\ EmptyRow'
      BY <2>9 DEF EnteringRow, DeadPeer, EmptyRow, Emptying
    <2> QED
      BY <1>1, <1>2, <2>8, <2>10, <2>11, HeldStep
  <1> QED
    BY <1>3, <1>4 DEF LeaveBegin

\* A leave ends with a transaction that seats nobody.
LEMMA LeaveEndsOrphan ==
  ASSUME GInv, [GameNext]_gameVars, OInv, LeaveEnds
  PROVE  OInv'
  <1>1. /\ task.pc = "finish" /\ task' = NoTask
        /\ UNCHANGED <<engine, journal, toEngine, match, conns>>
    BY DEF LeaveEnds, ipcVars
  <1> QED
    BY <1>1, HeldStep, NoTaskFresh DEF Quiet

\* The periodic replay frees no seat by itself.
LEMMA TickOrphan ==
  ASSUME GInv, [GameNext]_gameVars, OInv, TickBegin
  PROVE  OInv'
  <1>1. /\ Idle /\ match.run # 0 /\ UNCHANGED <<engine, journal, toEngine, match, conns>>
    BY DEF TickBegin, ipcVars
  <1>2. task.op = "none" /\ task.pc = "idle"
    BY <1>1 DEF Idle, GInv, TaskShape
  <1>3. PICK t : t = [NoTask EXCEPT !.op = "tick", !.next = "renew"]
    OBVIOUS
  <1>4. t = [op |-> "tick", pc |-> "idle", next |-> "renew", until |-> 0, wait |-> "none",
             conn |-> NoConn, player |-> NoPlayer, slot |-> 0, life |-> NoId]
    BY <1>3 DEF NoTask
  <1>5. t \in TaskRecord
    BY <1>4, NewTask DEF Ops
  <1>6. Reads(task', t, match.offset)
    BY <1>1, <1>3, <1>5, ReadTask DEF TickBegin
  <1>7. task'.op = "tick" /\ task'.wait = "none" /\ task'.pc \in {"apply", "renew"}
    BY <1>4, <1>6 DEF Reads
  <1>8. ~Emptying'
    BY <1>7 DEF Emptying
  <1>9. EnteringRow' /\ DeadPeer' /\ WithdrawnRow' /\ EmptyRow'
    BY <1>7, <1>8, FreshTask
  <1>10. match'.state = "open" => match.state = "open"
    BY <1>1
  <1> QED
    BY <1>1, <1>2, <1>9, <1>10, HeldStep DEF Quiet

\* A visit that goes on, and one that stops the match.
LEMMA VisitOrphan ==
  ASSUME GInv, [GameNext]_gameVars, OInv, Renewed \/ VisitStops \/ VisitEnds
  PROVE  OInv'
  <1>1. task' = NoTask /\ UNCHANGED <<engine, journal, toEngine, conns>>
    BY DEF Renewed, VisitStops, VisitEnds, ipcVars
  <1>2. match'.state = "open" => match' = match /\ task.pc = "renew"
    BY DEF Renewed, VisitStops, VisitEnds, Stopping, GInv, ServerTyped, MatchRecord
  <1>3. task.pc = "renew" => task.op = "tick"
    BY TaskOps
  <1> QED
    BY <1>1, <1>2, <1>3, HeldStep, NoTaskFresh DEF Quiet

\* The match is over, or will be.
LEMMA ShutOrphan ==
  ASSUME GInv, OInv, UNCHANGED <<engine, journal, toEngine>>, match'.state # "open"
  PROVE  OInv'
  <1>1. Letters'
    BY LettersKept DEF OInv, Quiet
  <1> QED
    BY <1>1 DEF OInv, OpenShape

\* A match that stops promises nothing about seats any more.
LEMMA StopsOrphan ==
  ASSUME GInv, [GameNext]_gameVars, OInv, SocketEof \/ StopBegin \/ StopEnds
  PROVE  OInv'
  <1>1. UNCHANGED <<engine, journal, toEngine>>
    BY DEF SocketEof, StopBegin, StopEnds, ipcVars
  <1>2. match \in MatchRecord
    BY DEF GInv, ServerTyped
  <1>3. match'.state # "open"
    BY <1>2 DEF SocketEof, StopBegin, StopEnds, NoMatch, Closed, MatchRecord
  <1> QED
    BY <1>1, <1>3, ShutOrphan

----------------------------------------------------------------------------
(* The replay of the journal.                                               *)

\* After a line the operation has more of its batch, or has done with it.
LEMMA AfterLine ==
  ASSUME GInv, match.run \in RunIds, NEW t \in TaskRecord, t.pc = "apply", t.wait = "none",
         NEW offset \in Nat, offset <= t.until, t.until <= Len(journal[match.run]),
         t.op = "leave" => t.next = "finish"
  PROVE  /\ Reads(Applied(t, offset), t, offset)
         /\ t.op = "leave" => \/ Applied(t, offset).pc = "apply"
                              \/ offset = Len(journal[match.run])
         /\ t.op \in {"attach", "detach"} =>
               \/ Applied(t, offset).pc = "apply" /\ Applied(t, offset).until = t.until
               \/ Applied(t, offset).pc = t.next /\ t.until <= offset
  <1>0. EngineTyped
    BY DEF GInv
  <1>1. Reads(Applied(t, offset), t, offset)
    BY <1>0, AppliedReads
  <1>2. t.op = "leave" => Draining(t.op)
    BY DEF Draining
  <1>3. ASSUME t.op \in {"attach", "detach"}
        PROVE  \/ Applied(t, offset).pc = "apply" /\ Applied(t, offset).until = t.until
               \/ Applied(t, offset).pc = t.next /\ t.until <= offset
    <2>1. ~Draining(t.op)
      BY <1>3 DEF Draining
    <2>2. t.until \in Nat
      BY GameBounds DEF TaskRecord
    <2>3. CASE offset < t.until
      <3>1. Applied(t, offset) = t
        BY <2>3 DEF Applied
      <3> QED
        BY <3>1
    <2>4. CASE ~ (offset < t.until)
      <3>1. Applied(t, offset) = [t EXCEPT !.pc = t.next, !.until = 0]
        BY <2>1, <2>4 DEF Applied
      <3>2. Applied(t, offset).pc = t.next
        BY <3>1 DEF TaskRecord
      <3> QED
        BY <2>2, <2>4, <3>2
    <2> QED
      BY <2>3, <2>4
  <1> QED
    BY <1>1, <1>2, <1>3 DEF Reads

\* The replay goes on with its batch, or has done with it.
Resumes(t) ==
    \/ task' = Applied(t, match'.offset)
    \/ /\ task'.op = t.op /\ task'.conn = t.conn /\ task'.next = t.next
       /\ task'.pc = "apply" /\ task'.until = t.until

\* A replay that goes on, or has done, withdraws and admits nobody.  The slot that
\* was emptied is no more in what is left of the batch.
LEMMA ReplayRest ==
  ASSUME GInv, [GameNext]_gameVars, OInv, task.pc = "apply",
         UNCHANGED <<engine, journal>>,
         match.state = "open", match'.run = match.run, match'.offset = runs'[match.run].sequence,
         \A s \in Slots : match'.peers[s] \in {match.peers[s], NoConn},
         \A c \in Conns : conns'[c].slot = conns[c].slot,
         NEW t \in TaskRecord, t.wait = "none", t.pc = "apply", t.op = task.op,
         t.next = task.next, t.until = task.until, t.conn = task.conn, t.player = task.player,
         match'.offset <= task.until, Resumes(t)
  PROVE  /\ EmptyRow'
         /\ task' = Applied(t, match'.offset) =>
               /\ task'.wait = "none" /\ task'.pc # "admit"
               /\ \/ task'.op = "leave" /\ task'.pc = "apply" /\ task'.player = task.player
                  \/ task.op # "leave" \/ Unapplied(match.run)' = {}
               /\ EnteringRow' /\ DeadPeer' /\ WithdrawnRow'
  <1>1. /\ match.run \in RunIds /\ match.run # 0 /\ task.op # "none"
        /\ task \in TaskRecord
        /\ task.until <= Len(journal[match.run])
        /\ task.op \in {"attach", "detach"} => task.conn \in Conns
    BY TaskMatch, TaskOps DEF GInv, TaskShape, AttachShape, DetachShape, ServerTyped
  <1>2. /\ task.op = "leave" => task.next = "finish"
        /\ task.op = "attach" => task.next \in {"tabs", "pop"}
        /\ task.op = "detach" => task.next = "gone"
        /\ task.op = "tick" => task.next = "renew"
        /\ task.op = "stop" => task.next = "release"
    BY DEF GInv, LeaveShape, TaskShape, AttachShape, DetachShape, StopShape
  <1>3. task.next \notin {"admit", "withdraw", "detach"}
    BY <1>1 DEF TaskRecord
  <1>4. PICK offset \in Nat : offset = match'.offset /\ offset <= Len(journal[match.run])
    BY <1>1, RunsMove
  <1>5. /\ offset <= t.until /\ t.until <= Len(journal[match.run])
        /\ Len(journal[match.run]) \in Nat
    BY <1>1, <1>4, RunsTyped
  <1>6. /\ Reads(Applied(t, offset), t, offset)
        /\ t.op = "leave" => \/ Applied(t, offset).pc = "apply"
                             \/ offset = Len(journal[match.run])
        /\ t.op \in {"attach", "detach"} =>
              \/ Applied(t, offset).pc = "apply" /\ Applied(t, offset).until = t.until
              \/ Applied(t, offset).pc = t.next /\ t.until <= offset
    BY <1>1, <1>2, <1>5, AfterLine
  <1>7. ASSUME task' = Applied(t, offset)
        PROVE  /\ task'.op = task.op /\ task'.conn = task.conn /\ task'.next = task.next
               /\ task'.wait = "none" /\ task'.player = task.player
               /\ task'.pc = "apply" \/ task'.pc = task.next
               /\ task.op = "leave" => task'.pc = "apply" \/ offset = Len(journal[match.run])
               /\ task.op \in {"attach", "detach"} =>
                     \/ task'.pc = "apply" /\ task'.until = task.until
                     \/ task'.pc = task.next /\ task.until <= offset
    BY <1>6, <1>7 DEF Reads
  <1>8. /\ task'.op = task.op /\ task'.conn = task.conn /\ task'.next = task.next
        /\ task'.pc # "detach" /\ (task'.pc = "tabs" => task'.wait = "none")
        /\ task.op \in {"attach", "detach"} =>
              \/ task'.pc = "apply" /\ task'.until = task.until
              \/ task'.pc = task.next /\ task.until <= offset
    BY <1>3, <1>4, <1>7 DEF Resumes
  <1>9. EmptyRow'
    <2>1. ASSUME Emptying'
          PROVE  /\ task.op \in {"attach", "detach"} /\ task.conn \in Conns
                 /\ task.op = "attach" => ~OtherTab(task.conn)
                 /\ ~Ends(conns[task.conn].slot)
                 /\ \A n \in Unapplied(match.run) :
                       n > task.until => lives[journal[match.run][n].victim].slot # conns[task.conn].slot
      <3>1. Emptying
        BY <1>8, <2>1 DEF Emptying
      <3>2. task.op \in {"attach", "detach"}
        BY <3>1 DEF Emptying
      <3> QED
        BY <1>1, <3>1, <3>2 DEF OInv, OpenShape, EmptyRow
    <2>2. ASSUME Emptying', NEW n \in Unapplied(match.run)', task'.pc = "apply" => n > task'.until
          PROVE  lives'[journal[match.run][n].victim].slot # conns[task.conn].slot
      <3>1. n \in Unapplied(match.run)
        BY <1>1, <2>2, StillWaiting
      <3>2. n > offset
        BY <1>4, <2>2 DEF Unapplied
      <3>3. n \in Nat /\ task.until \in Nat
        BY <1>1, <1>5, <3>1, GameBounds DEF Unapplied, TaskRecord
      <3>4. n > task.until
        BY <1>8, <2>1, <2>2, <3>2, <3>3
      <3>5. PICK v : v = journal[match.run][n].victim
        OBVIOUS
      <3>6. /\ v \in LifeIds /\ lives[v].run = match.run /\ lives[v].status = "alive"
        BY <1>1, <3>1, <3>5, VictimAlive DEF OInv, Letters
      <3>7. task.pc # "finish"
        OBVIOUS
      <3>8. lives'[v].slot = lives[v].slot
        BY <1>1, <3>1, <3>6, <3>7, SittingKept
      <3> QED
        BY <2>1, <2>2, <3>1, <3>4, <3>5, <3>8
    <2>3. Emptying' => conns'[task.conn].slot = conns[task.conn].slot
      BY <2>1
    <2>4. Emptying' /\ task.op = "attach" => ~OtherTab(task.conn)'
      <3>1. SUFFICES ASSUME Emptying', task.op = "attach", NEW s \in Slots,
                            match'.peers[s] \notin {NoConn, task.conn},
                            Owner[match'.peers[s]] = Owner[task.conn]
                     PROVE  FALSE
        BY <1>8 DEF OtherTab
      <3>2. match'.peers[s] = match.peers[s]
        BY <3>1
      <3> QED
        BY <2>1, <3>1, <3>2 DEF OtherTab
    <2>5. ASSUME Emptying'
          PROVE  \A n \in Unapplied(match.run)' :
                    (task'.pc = "apply" => n > task'.until) =>
                       lives'[journal'[match'.run][n].victim].slot # conns'[task'.conn].slot
      BY <1>8, <2>2, <2>3, <2>5
    <2> QED
      BY <1>8, <2>1, <2>3, <2>4, <2>5 DEF EmptyRow, Ends, Unapplied
  <1>10. offset = Len(journal[match.run]) => Unapplied(match.run)' = {}
    BY <1>4, <1>5 DEF Unapplied
  <1>11. ASSUME task' = Applied(t, match'.offset)
         PROVE  /\ task'.wait = "none" /\ task'.pc # "admit"
                /\ \/ task'.op = "leave" /\ task'.pc = "apply" /\ task'.player = task.player
                   \/ task.op # "leave" \/ Unapplied(match.run)' = {}
                /\ EnteringRow' /\ DeadPeer' /\ WithdrawnRow'
    <2>1. task' = Applied(t, offset)
      BY <1>4, <1>11
    <2>2. task'.wait = "none" /\ task'.pc \notin {"admit", "withdraw"}
      BY <1>3, <1>7, <2>1
    <2> QED
      BY <1>7, <1>10, <2>1, <2>2 DEF EnteringRow, DeadPeer, WithdrawnRow
  <1> QED
    BY <1>9, <1>11

\* The line that is applied next leaves its victim dead in the ledger.
LEMMA LineKills ==
  ASSUME GInv, task.pc = "apply", task.wait = "none",
         ApplyLine(match.run, match.offset + 1)
  PROVE  lives'[journal[match.run][match.offset + 1].victim].status = "dead"
  <1>1. task.op # "none"
    BY TaskOps
  <1>2. match.run \in RunIds /\ match.offset = runs[match.run].sequence
    BY <1>1, TaskMatch
  <1>3. match.offset + 1 \in 1 .. Len(journal[match.run]) /\ match.offset \in Nat
    BY NextLine
  <1>4. EngineTyped /\ lives \in [LifeIds -> Life]
    BY DEF GInv, IInv, TypeOK
  <1>5. PICK v, k : v = journal[match.run][match.offset + 1].victim
                    /\ k = journal[match.run][match.offset + 1].killer
    OBVIOUS
  <1>6. v \in LifeIds
    BY <1>2, <1>3, <1>4, <1>5, LineTyped DEF Line
  <1>7. ConsumeDeath(match.run, v, k) \/ SkipDeath(match.run, v)
    BY <1>2, <1>3, <1>5 DEF ApplyLine
  <1>8. ConsumeDeath(match.run, v, k) => lives'[v].status = "dead"
    BY <1>4, <1>6 DEF ConsumeDeath, Life
  <1>9. SkipDeath(match.run, v) => lives'[v].status = "dead"
    BY DEF SkipDeath
  <1> QED
    BY <1>5, <1>7, <1>8, <1>9

\* A line that is applied no longer waits, and its victim's seat may go.
LEMMA ApplyOrphan ==
  ASSUME GInv, [GameNext]_gameVars, OInv, ApplyEvent
  PROVE  OInv'
  <1>1. /\ task.pc = "apply" /\ task.wait = "none" /\ ApplyLine(match.run, match.offset + 1)
        /\ UNCHANGED <<engine, journal>>
    BY DEF ApplyEvent
  <1>2. /\ match.run # 0 /\ match.run \in RunIds
        /\ match'.offset = match.offset + 1 /\ match'.offset <= task.until
        /\ match'.offset = runs'[match.run].sequence
        /\ match'.run = match.run /\ match'.state = match.state
    BY ReplayGoes DEF Goes
  <1>3. task \in TaskRecord /\ match \in MatchRecord
    BY DEF GInv, ServerTyped
  <1>4. CASE match.state # "open"
    <2>1. UNCHANGED toEngine
      BY <1>4 DEF ApplyEvent
    <2> QED
      BY <1>1, <1>2, <1>4, <2>1, ShutOrphan
  <1>5. CASE /\ match.state = "open"
             /\ match' = [match EXCEPT !.offset = match.offset + 1]
             /\ task' = Applied(task, match.offset + 1)
             /\ UNCHANGED <<toEngine, conns>>
    <2>1. match'.peers = match.peers
      BY <1>3, <1>5 DEF MatchRecord
    <2>2. Resumes(task) /\ task' = Applied(task, match'.offset)
      BY <1>2, <1>5 DEF Resumes
    <2>3. /\ EmptyRow'
          /\ \/ task'.op = "leave" /\ task'.pc = "apply" /\ task'.player = task.player
             \/ task.op # "leave" \/ Unapplied(match.run)' = {}
          /\ EnteringRow' /\ DeadPeer' /\ WithdrawnRow'
      BY <1>1, <1>2, <1>3, <1>5, <2>1, <2>2, ReplayRest
    <2> QED
      BY <1>1, <1>2, <1>5, <2>1, <2>3, HeldStep DEF Quiet
  <1>6. ASSUME match.state = "open", NEW s \in Seats, Control("revoke", s, NoId, task),
               match' = [match EXCEPT !.offset = match.offset + 1], UNCHANGED conns
        PROVE  OInv'
    <2>1. match'.peers = match.peers
      BY <1>3, <1>6 DEF MatchRecord
    <2>2. /\ s \in Slots /\ match.peers[s] # NoConn
          /\ conns[match.peers[s]].life = journal[match.run][match.offset + 1].victim
      BY DEF Seats
    <2>3. "revoke" \in Kinds \ {"admit"}
      BY DEF Kinds
    <2>4. Sends("revoke", s, NoId, task)
      BY <1>3, <1>6, <2>2, <2>3, ControlSends
    <2>5. Quiet
      BY <2>2, <2>3, <2>4, SendsQuietly
    <2>6. /\ task'.op = task.op /\ task'.pc = "apply" /\ task'.next = task.next
          /\ task'.until = task.until /\ task'.conn = task.conn /\ task'.player = task.player
          /\ task'.slot = s
      BY <1>1, <2>4 DEF Sends
    <2>7. Resumes(task)
      BY <2>6 DEF Resumes
    <2>8. EmptyRow'
      BY <1>1, <1>2, <1>3, <1>6, <2>1, <2>7, ReplayRest
    <2>9. DeadPeer'
      BY <1>1, <1>6, <2>1, <2>2, <2>6, LineKills DEF DeadPeer
    <2>10. EnteringRow' /\ WithdrawnRow'
      BY <2>6 DEF EnteringRow, WithdrawnRow
    <2> QED
      BY <1>1, <1>2, <1>6, <2>1, <2>5, <2>6, <2>8, <2>9, <2>10, HeldStep
  <1> QED
    BY <1>4, <1>5, <1>6 DEF ApplyEvent

\* The peer that loses its seat has died: no living player does.
LEMMA DeadPeerOrphan ==
  ASSUME GInv, [GameNext]_gameVars, OInv, DeadPeerRevoked
  PROVE  OInv'
  <1>1. /\ task.pc = "apply" /\ task.wait = "revoke" /\ match.state = "open"
        /\ match' = [match EXCEPT !.peers[task.slot] = NoConn]
        /\ conns' = [conns EXCEPT ![match.peers[task.slot]].life = NoId]
        /\ task' = Applied([task EXCEPT !.wait = "none"], match.offset)
        /\ UNCHANGED <<engine, journal, toEngine, lives, runs>>
    BY DEF DeadPeerRevoked, Answered, vars
  <1>2. /\ match.run # 0 /\ match.run \in RunIds /\ match.offset = runs[match.run].sequence
        /\ match.offset <= task.until
        /\ task \in TaskRecord /\ match \in MatchRecord /\ conns \in [Conns -> SeatRecord]
    BY <1>1, TaskMatch DEF GInv, TaskShape, ServerTyped
  <1>3. SeatRows /\ EndsGuarded /\ LinesGuarded /\ DeadPeer
    BY <1>1 DEF OInv, OpenShape
  <1>4. /\ task.slot \in Slots /\ match.peers[task.slot] # NoConn
        /\ lives[conns[match.peers[task.slot]].life].status = "dead"
    BY <1>1, <1>3 DEF DeadPeer
  <1>5. /\ match'.run = match.run /\ match'.state = "open" /\ match'.offset = match.offset
        /\ match'.peers[task.slot] = NoConn
        /\ \A s \in Slots \ {task.slot} : match'.peers[s] = match.peers[s]
    BY <1>1, <1>2, <1>4 DEF MatchRecord
  <1>6. match.peers[task.slot] \in Conns
    BY <1>4, PeersTyped
  <1>7. /\ \A c \in Conns : conns'[c].slot = conns[c].slot
        /\ \A c \in Conns \ {match.peers[task.slot]} : conns'[c].life = conns[c].life
    BY <1>1, <1>2, <1>6 DEF SeatRecord
  <1>8. SeatsMove({task.slot})
    <2>1. \A s \in Slots \ {task.slot} : match.peers[s] # NoConn =>
             match.peers[s] \in Conns \ {match.peers[task.slot]}
      BY <1>3, <1>4, PeersTyped DEF SeatRows
    <2> QED
      BY <1>5, <1>7, <2>1 DEF SeatsMove
  <1>9. PICK t : t = [task EXCEPT !.wait = "none"]
    OBVIOUS
  <1>10. /\ t \in TaskRecord /\ t.wait = "none" /\ t.pc = "apply" /\ t.op = task.op
         /\ t.next = task.next /\ t.until = task.until /\ t.conn = task.conn
         /\ t.player = task.player
    BY <1>1, <1>2, <1>9 DEF TaskRecord
  <1>11. task' = Applied(t, match'.offset)
    BY <1>1, <1>5, <1>9
  <1>12. /\ EmptyRow'
         /\ \/ task'.op = "leave" /\ task'.pc = "apply" /\ task'.player = task.player
            \/ task.op # "leave" \/ Unapplied(match.run)' = {}
         /\ EnteringRow' /\ DeadPeer' /\ WithdrawnRow'
    <2>1. Resumes(t)
      BY <1>11 DEF Resumes
    <2>2. \A s \in Slots : match'.peers[s] \in {match.peers[s], NoConn}
      BY <1>5
    <2>3. match'.offset = runs'[match.run].sequence /\ match'.offset <= task.until
      BY <1>1, <1>2, <1>5
    <2> QED
      BY <1>1, <1>5, <1>7, <1>10, <1>11, <2>1, <2>2, <2>3, ReplayRest
  <1>13. ~Ends(task.slot)
    <2>1. SUFFICES ASSUME Ends(task.slot) PROVE FALSE
      OBVIOUS
    <2>2. conns[match.peers[task.slot]].life = engine.admission[task.slot]
      BY <1>1, <1>3, <1>4, <2>1 DEF EndsGuarded, Guard, Entering
    <2>3. lives[engine.admission[task.slot]].status = "alive"
      BY <1>4, <2>1, EndsAlive DEF OInv, Letters
    <2> QED
      BY <1>4, <2>2, <2>3
  <1>14. ASSUME NEW n \in Unapplied(match.run)', NEW v, v = journal[match.run][n].victim,
                lives[v].slot = task.slot \/ Withdrawing(v)
         PROVE  Withdrawing(v)'
    <2>1. n \in Unapplied(match.run)
      BY <1>2, <1>1, <1>14, StillWaiting
    <2>2. lives[v].status = "alive"
      BY <1>2, <1>14, <2>1, VictimAlive DEF OInv, Letters
    <2>3. LineGuarded(v)
      BY <1>3, <1>14, <2>1 DEF LinesGuarded
    <2>4. Withdrawing(v)
      BY <1>1, <1>4, <1>14, <2>2, <2>3 DEF LineGuarded, Guard, Entering
    <2> QED
      BY <1>1, <1>12, <1>14, <2>4 DEF Withdrawing
  <1>15. SeatRows' /\ EndsGuarded' /\ LinesGuarded'
    BY <1>1, <1>5, <1>8, <1>13, <1>14, SeatsCarry DEF OInv
  <1>16. Letters'
    BY <1>1, LettersKept DEF OInv, Quiet
  <1> QED
    BY <1>12, <1>15, <1>16 DEF OInv, OpenShape

\* A closed tab loses a slot that no engine ends and no line waits for.
LEMMA GoneOrphan ==
  ASSUME GInv, [GameNext]_gameVars, OInv, Gone
  PROVE  OInv'
  <1>1. /\ task.pc = "gone" /\ task' = NoTask
        /\ match' = [match EXCEPT !.peers[conns[task.conn].slot] = NoConn]
        /\ conns' = [conns EXCEPT ![task.conn] = NoSeat]
        /\ UNCHANGED <<engine, journal, toEngine, lives, runs>>
    BY DEF Gone, vars, ipcVars
  <1>2. /\ task.op = "detach" /\ task.conn \in Conns /\ conns[task.conn].slot \in Slots
        /\ match \in MatchRecord /\ conns \in [Conns -> SeatRecord]
    BY <1>1, TaskOps DEF GInv, TaskShape, DetachShape, ServerTyped
  <1>3. PICK e \in Slots : e = conns[task.conn].slot
    BY <1>2
  <1>4. /\ match'.run = match.run /\ match'.state = match.state
        /\ match'.peers[e] = NoConn
        /\ \A s \in Slots \ {e} : match'.peers[s] = match.peers[s]
    BY <1>1, <1>2, <1>3 DEF MatchRecord
  <1>5. CASE match.state # "open"
    BY <1>1, <1>4, <1>5, ShutOrphan
  <1>6. CASE match.state = "open"
    <2>1. SeatRows /\ EmptyRow
      BY <1>6 DEF OInv, OpenShape
    <2>2. Emptying
      BY <1>1, <1>2 DEF Emptying
    <2>3. /\ ~Ends(e)
          /\ \A n \in Unapplied(match.run) : lives[journal[match.run][n].victim].slot # e
      BY <1>1, <1>3, <2>1, <2>2 DEF EmptyRow
    <2>4. SeatsMove({e})
      <3>1. \A s \in Slots \ {e} : match.peers[s] # NoConn =>
               match.peers[s] \in Conns \ {task.conn}
        BY <1>3, <2>1, PeersTyped DEF SeatRows
      <3>2. \A c \in Conns \ {task.conn} : conns'[c] = conns[c]
        BY <1>1, <1>2
      <3> QED
        BY <1>4, <3>1, <3>2 DEF SeatsMove
    <2>5. \A n \in Unapplied(match.run)' :
             lives[journal[match.run][n].victim].slot # e /\ ~Withdrawing(journal[match.run][n].victim)
      BY <1>1, <1>2, <1>4, <2>3 DEF Withdrawing, Unapplied
    <2>6. SeatRows' /\ EndsGuarded' /\ LinesGuarded'
      BY <1>1, <1>4, <1>6, <2>3, <2>4, <2>5, SeatsCarry DEF OInv
    <2>7. Letters'
      BY <1>1, LettersKept DEF OInv, Quiet
    <2> QED
      BY <1>1, <2>6, <2>7, NoTaskFresh DEF OInv, OpenShape
  <1> QED
    BY <1>5, <1>6

\* A slot is popped for a player who gets no life.
LEMMA PoppedOrphan ==
  ASSUME GInv, [GameNext]_gameVars, OInv, task.pc = "pop", AttachEnds(task.conn),
         match' = [match EXCEPT !.peers[conns[task.conn].slot] = NoConn],
         UNCHANGED <<engine, journal, toEngine, lives, runs>>
  PROVE  OInv'
  <1>1. /\ task.op = "attach" /\ task.conn \in Conns /\ conns[task.conn].slot \in Slots
        /\ match \in MatchRecord /\ conns \in [Conns -> SeatRecord]
    BY TaskOps DEF GInv, TaskShape, AttachShape, ServerTyped
  <1>2. PICK e \in Slots : e = conns[task.conn].slot
    BY <1>1
  <1>3. /\ match'.run = match.run /\ match'.state = match.state
        /\ match'.peers[e] = NoConn
        /\ \A s \in Slots \ {e} : match'.peers[s] = match.peers[s]
    BY <1>1, <1>2 DEF MatchRecord
  <1>4. CASE match.state # "open"
    BY <1>3, <1>4, ShutOrphan
  <1>5. CASE match.state = "open"
    <2>1. EmptyRow
      BY <1>5 DEF OInv, OpenShape
    <2>2. Emptying
      BY <1>1 DEF Emptying
    <2>3. /\ ~Ends(e)
          /\ \A n \in Unapplied(match.run) : lives[journal[match.run][n].victim].slot # e
      BY <1>1, <1>2, <2>1, <2>2 DEF EmptyRow
    <2>4. SeatsMove({e})
      <3>1. \A c \in Conns : conns'[c].life = conns[c].life /\ conns'[c].slot = conns[c].slot
        BY <1>1, PhaseOnly DEF AttachEnds
      <3> QED
        BY <1>3, <3>1, PeersTyped DEF SeatsMove
    <2>5. \A n \in Unapplied(match.run)' :
             lives[journal[match.run][n].victim].slot # e /\ ~Withdrawing(journal[match.run][n].victim)
      BY <1>1, <1>3, <2>3 DEF Withdrawing, Unapplied
    <2>6. SeatRows' /\ EndsGuarded' /\ LinesGuarded'
      BY <1>1, <1>3, <1>5, <2>3, <2>4, <2>5, SeatsCarry DEF OInv
    <2>7. Letters' /\ task' = NoTask
      BY LettersKept DEF OInv, Quiet, AttachEnds
    <2> QED
      BY <2>6, <2>7, NoTaskFresh DEF OInv, OpenShape
  <1> QED
    BY <1>4, <1>5

----------------------------------------------------------------------------
(* A leave and an admission.                                                *)

\* The player who leaves loses the seat, and no line but those of the leave is
\* left about that player.
LEMMA WithdrawnOrphan ==
  ASSUME OneBatch, GInv, [GameNext]_gameVars, OInv, Withdrawn
  PROVE  OInv'
  <1>1. /\ task.pc = "withdraw" /\ task.wait = "revoke" /\ match.state = "open"
        /\ acks # <<>> /\ Head(acks).slot = task.slot
        /\ match' = [match EXCEPT !.peers[task.slot] = NoConn]
        /\ conns' = IF match.peers[task.slot] = NoConn THEN conns
                    ELSE [conns EXCEPT ![match.peers[task.slot]].life = NoId]
        /\ task' = Reading([task EXCEPT !.wait = "none"], match.offset)
        /\ UNCHANGED <<engine, journal, toEngine, lives, runs>>
    BY DEF Withdrawn, Answered, AfterWithdrawal, vars
  <1>2. /\ task.op = "leave" /\ task.next = "finish"
        /\ task.slot \in Slots /\ match.run # 0 /\ match.run \in RunIds
        /\ task \in TaskRecord /\ match \in MatchRecord /\ conns \in [Conns -> SeatRecord]
    <2>1. task.op = "leave" /\ task.wait \in Kinds
      BY <1>1, TaskOps DEF Kinds
    <2> QED
      BY <1>1, <2>1, TaskMatch DEF GInv, TaskShape, LeaveShape, ServerTyped
  <1>3. SeatRows /\ WithdrawnRow
    BY <1>1 DEF OInv, OpenShape
  <1>4. PICK l \in LifeIds : /\ lives[l].status = "alive" /\ lives[l].slot = task.slot
                             /\ lives[l].player = task.player
    BY <1>1, <1>3 DEF WithdrawnRow
  <1>5. /\ match'.run = match.run /\ match'.state = "open"
        /\ match'.peers[task.slot] = NoConn
        /\ \A s \in Slots \ {task.slot} : match'.peers[s] = match.peers[s]
    BY <1>1, <1>2 DEF MatchRecord
  <1>6. SeatsMove({task.slot})
    <2>1. ASSUME NEW s \in Slots \ {task.slot}, match.peers[s] # NoConn
          PROVE  conns'[match.peers[s]] = conns[match.peers[s]]
      <3>1. match.peers[s] \in Conns
        BY <2>1, PeersTyped
      <3>2. CASE match.peers[task.slot] = NoConn
        BY <1>1, <3>2
      <3>3. CASE match.peers[task.slot] # NoConn
        <4>1. match.peers[task.slot] # match.peers[s]
          BY <1>2, <1>3, <2>1, <3>3 DEF SeatRows
        <4> QED
          BY <1>1, <1>2, <3>1, <3>3, <4>1
      <3> QED
        BY <3>2, <3>3
    <2> QED
      BY <1>5, <2>1 DEF SeatsMove
  <1>7. ~Ends(task.slot)
    BY <1>1, RevokedSlot
  <1>8. PICK t : t = [task EXCEPT !.wait = "none"]
    OBVIOUS
  <1>9. /\ t \in TaskRecord /\ t.wait = "none" /\ t.op = "leave" /\ t.next = "finish"
        /\ t.player = task.player
    BY <1>2, <1>8 DEF TaskRecord
  <1>10. task' = Reading(t, match.offset)
    BY <1>1, <1>8
  <1>11. Reads(task', t, match.offset)
    BY <1>2, <1>9, <1>10, ReadTask
  <1>12. \/ task'.pc = "apply"
         \/ task'.pc = "finish" /\ Unapplied(match.run) = {}
    BY <1>2, <1>9, <1>10, ReadsAll DEF OInv, Letters
  <1>13. task'.op = "leave" /\ task'.wait = "none" /\ task'.player = task.player
    BY <1>9, <1>11 DEF Reads
  <1>14. ASSUME NEW n \in Unapplied(match.run)', NEW v, v = journal[match.run][n].victim,
                lives[v].slot = task.slot \/ Withdrawing(v)
         PROVE  Withdrawing(v)'
    <2>1. n \in Unapplied(match.run)
      BY <1>1, <1>2, StillWaiting
    <2>2. v \in LifeIds /\ lives[v].status = "alive"
      BY <1>2, <1>14, <2>1, VictimAlive DEF OInv, Letters
    <2>3. v = l
      BY <1>1, <1>4, <1>14, <2>2, OnePerSlot DEF Withdrawing
    <2> QED
      BY <1>1, <1>4, <1>12, <1>13, <2>1, <2>3 DEF Withdrawing
  <1>15. SeatRows' /\ EndsGuarded' /\ LinesGuarded'
    BY <1>1, <1>5, <1>6, <1>7, <1>14, SeatsCarry DEF OInv
  <1>16. EnteringRow' /\ DeadPeer' /\ WithdrawnRow' /\ EmptyRow'
    <2>1. ~Emptying'
      BY <1>13 DEF Emptying
    <2> QED
      BY <1>12, <1>13, <2>1, FreshTask
  <1>17. Letters'
    BY <1>1, LettersKept DEF OInv, Quiet
  <1> QED
    BY <1>15, <1>16, <1>17 DEF OInv, OpenShape

\* The connection takes the seat of the life it was given.
LEMMA AdmittedOrphan ==
  ASSUME GInv, [GameNext]_gameVars, OInv, Admitted
  PROVE  OInv'
  <1>1. /\ task.pc = "admit" /\ match.state = "open"
        /\ match' = [match EXCEPT !.peers[task.slot] = task.conn]
        /\ conns' = [conns EXCEPT ![task.conn] = [phase |-> "open", run |-> 0,
                                                  life |-> task.life, slot |-> task.slot]]
        /\ task' = NoTask
        /\ UNCHANGED <<engine, journal, toEngine, lives, runs>>
    BY DEF Admitted, Answered, vars
  <1>2. /\ task.op = "attach" /\ task.conn \in Conns /\ task.slot \in Slots
        /\ task.life \in LifeIds /\ task.life # NoId
        /\ match.run # 0 /\ match.run \in RunIds
        /\ match \in MatchRecord /\ conns \in [Conns -> SeatRecord]
    BY <1>1, TaskOps, TaskMatch, GameBounds DEF GInv, TaskShape, AttachShape, ServerTyped
  <1>3. SeatRows /\ EndsGuarded /\ LinesGuarded /\ EnteringRow
    BY <1>1 DEF OInv, OpenShape
  <1>4. /\ lives[task.life].status = "alive" /\ lives[task.life].slot = task.slot
        /\ lives[task.life].player = Owner[task.conn]
        /\ \A s \in Slots : match.peers[s] # task.conn
    BY <1>1, <1>3 DEF EnteringRow
  <1>5. /\ match'.run = match.run /\ match'.peers[task.slot] = task.conn
        /\ \A s \in Slots \ {task.slot} : match'.peers[s] = match.peers[s]
        /\ conns'[task.conn].life = task.life /\ conns'[task.conn].slot = task.slot
        /\ \A c \in Conns \ {task.conn} : conns'[c] = conns[c]
        /\ task.conn # NoConn
    BY <1>1, <1>2, GameBounds DEF MatchRecord
  <1>6. \A s \in Slots \ {task.slot} : match.peers[s] # NoConn =>
           match.peers[s] \in Conns \ {task.conn}
    BY <1>4, PeersTyped
  <1>7. SeatRows'
    BY <1>2, <1>3, <1>5, <1>6 DEF SeatRows
  <1>8. PICK e \in Slots, d \in LifeIds : e = task.slot /\ d = task.life /\ Guard(e, d)'
    <2>1. PICK e \in Slots, d \in LifeIds : e = task.slot /\ d = task.life
      BY <1>2
    <2>2. Guard(e, d)'
      BY <1>1, <1>2, <1>4, <1>5, <2>1 DEF Guard
    <2> QED
      BY <2>1, <2>2
  <1>9. ASSUME NEW s \in Slots \ {task.slot}, NEW l, Guard(s, l) PROVE Guard(s, l)'
    BY <1>1, <1>5, <1>6, <1>9 DEF Guard
  <1>10. EndsGuarded'
    <2>1. SUFFICES ASSUME NEW s \in Slots, Ends(s) PROVE Guard(s, engine.admission[s])'
      BY <1>1 DEF EndsGuarded, Ends
    <2>2. PICK l : l = engine.admission[s]
      OBVIOUS
    <2>3. l \in LifeIds /\ lives[l].status = "alive" /\ lives[l].slot = s
      BY <2>1, <2>2, EndsAlive DEF OInv, Letters
    <2>4. CASE s = task.slot
      <3>1. l = task.life
        BY <1>2, <1>4, <2>3, <2>4, OnePerSlot
      <3> QED
        BY <1>1, <1>8, <2>2, <2>4, <3>1
    <2>5. CASE s # task.slot
      <3>1. Guard(s, l)'
        BY <1>3, <1>9, <2>1, <2>2, <2>5 DEF EndsGuarded, Entering
      <3> QED
        BY <1>1, <2>2, <3>1 DEF Guard
    <2> QED
      BY <2>4, <2>5
  <1>11. LinesGuarded'
    <2>1. SUFFICES ASSUME NEW n \in Unapplied(match.run)
                   PROVE  LineGuarded(journal[match.run][n].victim)'
      BY <1>1, <1>5 DEF LinesGuarded, Unapplied
    <2>2. PICK v : v = journal[match.run][n].victim
      OBVIOUS
    <2>3. v \in LifeIds /\ lives[v].status = "alive" /\ lives[v].slot \in Slots
      BY <1>2, <2>2, VictimAlive DEF OInv, Letters
    <2>4. CASE lives[v].slot = task.slot
      <3>1. v = task.life
        BY <1>2, <1>4, <2>3, <2>4, OnePerSlot
      <3>2. /\ journal'[match'.run][n].victim = d /\ lives'[d].slot = e
        BY <1>1, <1>4, <1>5, <1>8, <2>2, <3>1
      <3> QED
        BY <1>8, <3>2 DEF LineGuarded, Guard
    <2>5. CASE lives[v].slot # task.slot
      <3>1. Guard(lives[v].slot, v)
        BY <1>1, <1>3, <2>2, <2>5 DEF LinesGuarded, LineGuarded, Entering, Withdrawing
      <3>2. PICK s \in Slots \ {task.slot} : s = lives[v].slot
        BY <2>3, <2>5
      <3>3. Guard(s, v)'
        BY <1>9, <3>1, <3>2
      <3> QED
        BY <1>1, <1>5, <2>2, <3>2, <3>3 DEF LineGuarded, Guard
    <2> QED
      BY <2>4, <2>5
  <1>12. Letters'
    BY <1>1, LettersKept DEF OInv, Quiet
  <1> QED
    BY <1>1, <1>7, <1>10, <1>11, <1>12, NoTaskFresh DEF OInv, OpenShape

\* The life an attach is given is not dead, and nobody else's.
LEMMA LifeTaken ==
  ASSUME GInv, Allocate
  PROVE  /\ UNCHANGED runs
         /\ \E l \in LifeIds, s \in Slots :
               /\ Control("admit", s, l, [task EXCEPT !.pc = "admit", !.life = l])
               /\ lives[l].status # "dead"
               /\ lives[l].status = "alive" => lives[l].player = Owner[task.conn]
               /\ lives'[l].status = "alive"
               /\ lives'[l].run = match.run
               /\ lives'[l].slot = s
               /\ lives'[l].player = Owner[task.conn]
               /\ \A m \in LifeIds \ {l} : lives'[m] = lives[m]
  <1>1. task.pc \in {"tabs", "pop"}
    BY DEF Allocate, Allocating
  <1>2. task.op = "attach" /\ match.run \in RunIds /\ IInv /\ SlotsExclusive
    BY <1>1, TaskOps, TaskMatch DEF GInv, SInv
  <1>3. Owner[task.conn] \in Players
    BY <1>2, GameBounds DEF GInv, TaskShape, AttachShape
  <1>4. ASSUME NEW l \in LifeIds, l \in AliveIn(match.run), Current(Owner[task.conn], l),
               UNCHANGED vars
        PROVE  /\ UNCHANGED runs
               /\ lives[l].slot \in Slots
               /\ lives[l].status = "alive" /\ lives[l].player = Owner[task.conn]
               /\ lives'[l].status = "alive" /\ lives'[l].run = match.run
               /\ lives'[l].slot = lives[l].slot /\ lives'[l].player = Owner[task.conn]
               /\ \A m \in LifeIds \ {l} : lives'[m] = lives[m]
    <2>1. /\ lives[l].slot \in Slots /\ lives[l].status = "alive" /\ lives[l].run = match.run
          /\ lives[l].player = Owner[task.conn]
      BY <1>2, <1>4 DEF SlotsExclusive, AliveIn, AliveLives, Current, UsableOf
    <2> QED
      BY <1>4, <2>1 DEF vars
  <1>5. ASSUME NEW l \in LifeIds, NEW s \in Slots,
               SeatGiven(Owner[task.conn], match.run, l, s)
        PROVE  /\ UNCHANGED runs
               /\ lives[l].status # "dead"
               /\ lives[l].status = "alive" => lives[l].player = Owner[task.conn]
               /\ lives'[l].status = "alive" /\ lives'[l].run = match.run
               /\ lives'[l].slot = s /\ lives'[l].player = Owner[task.conn]
               /\ \A m \in LifeIds \ {l} : lives'[m] = lives[m]
    BY <1>2, <1>3, <1>5, SeatTaken
  <1>6. \/ \E l \in LifeIds : /\ l \in AliveIn(match.run) /\ Current(Owner[task.conn], l)
                              /\ UNCHANGED vars
                              /\ Control("admit", lives[l].slot, l,
                                         [task EXCEPT !.pc = "admit", !.life = l])
        \/ \E l \in LifeIds, s \in Slots :
              /\ SeatGiven(Owner[task.conn], match.run, l, s)
              /\ Control("admit", s, l, [task EXCEPT !.pc = "admit", !.life = l])
    BY DEF Allocate, SeatGiven
  <1>7. CASE \E l \in LifeIds : /\ l \in AliveIn(match.run) /\ Current(Owner[task.conn], l)
                                /\ UNCHANGED vars
                                /\ Control("admit", lives[l].slot, l,
                                           [task EXCEPT !.pc = "admit", !.life = l])
    <2>1. PICK l \in LifeIds : /\ l \in AliveIn(match.run) /\ Current(Owner[task.conn], l)
                               /\ UNCHANGED vars
                               /\ Control("admit", lives[l].slot, l,
                                          [task EXCEPT !.pc = "admit", !.life = l])
      BY <1>7
    <2>2. PICK s \in Slots : s = lives[l].slot
      BY <1>4, <2>1
    <2> QED
      BY <1>4, <2>1, <2>2
  <1>8. CASE \E l \in LifeIds, s \in Slots :
                /\ SeatGiven(Owner[task.conn], match.run, l, s)
                /\ Control("admit", s, l, [task EXCEPT !.pc = "admit", !.life = l])
    BY <1>5, <1>8
  <1> QED
    BY <1>6, <1>7, <1>8

\* A player who is given a life has no seat but the one that was emptied.
LEMMA Unseated ==
  ASSUME GInv, OInv, match.state = "open", Allocating, UNCHANGED conns
  PROVE  /\ match'.run = match.run /\ match'.state = match.state
         /\ \E X \in SUBSET Slots :
               /\ SeatsMove(X)
               /\ \A s \in X : ~Ends(s)
               /\ \A n \in Unapplied(match.run) : lives[journal[match.run][n].victim].slot \notin X
               /\ \A s \in Slots \ X : match.peers[s] # NoConn =>
                     Owner[match.peers[s]] # Owner[task.conn]
  <1>1. task.op = "attach" /\ task.conn \in Conns /\ match \in MatchRecord
    BY TaskOps DEF Allocating, GInv, TaskShape, AttachShape, ServerTyped
  <1>2. SeatRows /\ EmptyRow
    BY DEF OInv, OpenShape
  <1>3. ~OtherTab(task.conn)
    BY <1>1, <1>2 DEF Allocating, EmptyRow, Emptying
  <1>4. \A s \in Slots : match.peers[s] # NoConn /\ Owner[match.peers[s]] = Owner[task.conn] =>
           match.peers[s] = task.conn
    BY <1>3 DEF OtherTab
  <1>5. CASE conns[task.conn].life = NoId /\ UNCHANGED match
    <2>1. SeatsMove({})
      BY <1>5 DEF SeatsMove
    <2>2. \A s \in Slots : match.peers[s] # NoConn => Owner[match.peers[s]] # Owner[task.conn]
      BY <1>2, <1>4, <1>5 DEF SeatRows
    <2> QED
      BY <1>5, <2>1, <2>2
  <1>6. CASE /\ task.pc = "pop"
             /\ match' = [match EXCEPT !.peers[conns[task.conn].slot] = NoConn]
    <2>1. PICK e \in Slots : e = conns[task.conn].slot
      BY <1>1, <1>6 DEF GInv, TaskShape, AttachShape
    <2>2. /\ match'.run = match.run /\ match'.state = match.state
          /\ match'.peers[e] = NoConn
          /\ \A s \in Slots \ {e} : match'.peers[s] = match.peers[s]
      BY <1>1, <1>6, <2>1 DEF MatchRecord
    <2>3. SeatsMove({e})
      BY <2>2 DEF SeatsMove
    <2>4. /\ ~Ends(e)
          /\ \A n \in Unapplied(match.run) : lives[journal[match.run][n].victim].slot # e
      BY <1>1, <1>2, <1>6, <2>1 DEF EmptyRow, Emptying
    <2>5. \A s \in Slots \ {e} : match.peers[s] # NoConn => Owner[match.peers[s]] # Owner[task.conn]
      BY <1>2, <1>4, <2>1 DEF SeatRows
    <2> QED
      BY <2>2, <2>3, <2>4, <2>5
  <1> QED
    BY <1>5, <1>6 DEF Allocating

\* No line names a life that allocate_life hands out: those applied name the dead, and
\* those that wait name players who still have their seats.
LEMMA AllocateOrphan ==
  ASSUME GInv, [GameNext]_gameVars, OInv, Allocate
  PROVE  OInv'
  <1>1. /\ task.pc \in {"tabs", "pop"} /\ Allocating
        /\ UNCHANGED <<engine, journal, conns>>
    BY DEF Allocate, Allocating
  <1>2. /\ task.op = "attach" /\ task.conn \in Conns /\ match.run # 0 /\ match.run \in RunIds
        /\ task \in TaskRecord /\ match \in MatchRecord
        /\ engine.run # 0 => engine.run = match.run
    BY <1>1, TaskOps, TaskMatch DEF GInv, TaskShape, AttachShape, ServerTyped
  <1>3. PICK l \in LifeIds, s \in Slots :
               /\ Control("admit", s, l, [task EXCEPT !.pc = "admit", !.life = l])
               /\ lives[l].status # "dead"
               /\ lives[l].status = "alive" => lives[l].player = Owner[task.conn]
               /\ lives'[l].status = "alive"
               /\ lives'[l].run = match.run
               /\ lives'[l].slot = s
               /\ lives'[l].player = Owner[task.conn]
    BY LifeTaken
  <1>4. PICK t : t = [task EXCEPT !.pc = "admit", !.life = l]
    OBVIOUS
  <1>5. /\ t \in TaskRecord /\ t.pc = "admit" /\ t.life = l /\ t.op = "attach"
        /\ t.conn = task.conn
    BY <1>2, <1>4 DEF TaskRecord
  <1>6. "admit" \in Kinds /\ l \in LifeIds \cup {NoId}
    BY DEF Kinds
  <1>7. Sends("admit", s, l, t)
    BY <1>3, <1>4, <1>5, <1>6, ControlSends
  <1>8. CASE match.state # "open"
    <2>1. match'.state # "open"
      BY <1>1, <1>2, <1>8 DEF Allocating, MatchRecord
    <2>2. UNCHANGED toEngine
      BY <1>3, <1>8 DEF Control, CanSend
    <2> QED
      BY <1>1, <2>1, <2>2, ShutOrphan
  <1>9. CASE match.state = "open"
    <2>1. /\ match'.run = match.run /\ match'.state = "open"
          /\ \E X \in SUBSET Slots :
               /\ SeatsMove(X)
               /\ \A q \in X : ~Ends(q)
               /\ \A n \in Unapplied(match.run) : lives[journal[match.run][n].victim].slot \notin X
               /\ \A q \in Slots \ X : match.peers[q] # NoConn =>
                     Owner[match.peers[q]] # Owner[task.conn]
      BY <1>1, <1>9, Unseated
    <2>2. PICK X \in SUBSET Slots :
               /\ SeatsMove(X)
               /\ \A q \in X : ~Ends(q)
               /\ \A n \in Unapplied(match.run) : lives[journal[match.run][n].victim].slot \notin X
               /\ \A q \in Slots \ X : match.peers[q] # NoConn =>
                     Owner[match.peers[q]] # Owner[task.conn]
      BY <2>1
    <2>3. /\ SeatRows /\ EndsGuarded /\ LinesGuarded
          /\ EndsUnwritten /\ WrittenOnce /\ Letters
      BY <1>9 DEF OInv, OpenShape, Letters
    <2>4. SeatRows' /\ EndsGuarded' /\ LinesGuarded'
      <3>1. \A n \in Unapplied(match.run)' :
               /\ lives[journal[match.run][n].victim].slot \notin X
               /\ ~Withdrawing(journal[match.run][n].victim)
        BY <1>1, <1>2, <2>1, <2>2, StillWaiting DEF Withdrawing
      <3> QED
        BY <1>1, <1>9, <2>1, <2>2, <3>1, SeatsCarry DEF OInv
    <2>5. \A q \in Slots : ~ (Guard(q, l) /\ q \notin X /\ lives[l].status = "alive")
      BY <1>3, <2>2 DEF Guard
    <2>6. \A q \in Slots : Ends(q) => engine.admission[q] # l
      <3>1. SUFFICES ASSUME NEW q \in Slots, Ends(q), engine.admission[q] = l PROVE FALSE
        OBVIOUS
      <3>2. lives[l].status = "alive"
        BY <2>3, <3>1, EndsAlive
      <3>3. Guard(q, l) /\ q \notin X
        BY <1>1, <2>2, <2>3, <3>1 DEF EndsGuarded, Entering
      <3> QED
        BY <2>5, <3>2, <3>3
    <2>7. Unwritten(match.run, l)
      <3>1. SUFFICES ASSUME NEW n \in 1 .. Len(journal[match.run]), journal[match.run][n].victim = l
                     PROVE  FALSE
        BY DEF Unwritten
      <3>2. CASE n \in Unapplied(match.run)
        <4>1. lives[l].status = "alive" /\ lives[l].slot \in Slots
          BY <1>2, <2>3, <3>1, <3>2, VictimAlive
        <4>2. Guard(lives[l].slot, l) /\ lives[l].slot \notin X
          BY <1>1, <1>2, <2>2, <2>3, <3>1, <3>2 DEF LinesGuarded, LineGuarded, Entering, Withdrawing
        <4> QED
          BY <2>5, <4>1, <4>2
      <3>3. CASE n \notin Unapplied(match.run)
        <4>1. n \in 1 .. runs[match.run].sequence
          <5>1. runs[match.run].sequence \in Nat
            BY <1>2, RunsTyped
          <5> QED
            BY <3>1, <3>3, <5>1 DEF Unapplied
        <4> QED
          BY <1>2, <1>3, <3>1, <4>1 DEF GInv, PrizesMatchJournal
      <3> QED
        BY <3>2, <3>3
    <2>8. \A n \in 1 .. Len(toEngine) : ~Admits(n)
      BY <1>1, <1>9, NoneUnderWay DEF GInv, NoAdmission
    <2>9. PICK pkt \in Packet : pkt = [kind |-> "admit", slot |-> s, life |-> l]
      BY <1>6 DEF Packet
    <2>10. UNCHANGED toEngine \/ toEngine' = Append(toEngine, pkt)
      BY <1>7, <2>9 DEF Sends
    <2>11. Letters'
      <3>1. CASE UNCHANGED toEngine
        BY <1>1, <2>3, <3>1, LettersKept DEF Quiet
      <3>2. CASE toEngine' = Append(toEngine, pkt)
        <4>1. pkt.life = l
          BY <2>9
        <4> QED
          BY <1>1, <1>2, <2>3, <2>6, <2>7, <2>8, <3>2, <4>1, LettersSent
      <3> QED
        BY <2>10, <3>1, <3>2
    <2>12. /\ task'.pc = "admit" /\ task'.op = "attach" /\ task'.life = l /\ task'.slot = s
           /\ task'.conn = task.conn
      BY <1>5, <1>7 DEF Sends
    <2>13. \A q \in Slots : match'.peers[q] # task.conn
      <3>1. task.conn # NoConn
        BY <1>2, GameBounds
      <3> QED
        BY <2>2, <3>1 DEF SeatsMove
    <2>14. \A n \in 1 .. Len(toEngine') : Admits(n)' => toEngine'[n].slot = s /\ toEngine'[n].life = l
      <3>1. CASE UNCHANGED toEngine
        BY <2>8, <3>1 DEF Admits
      <3>2. CASE toEngine' = Append(toEngine, pkt)
        <4>1. /\ Len(toEngine) \in Nat
              /\ Len(toEngine') = Len(toEngine) + 1
              /\ \A m \in 1 .. Len(toEngine) : toEngine'[m] = toEngine[m]
              /\ toEngine'[Len(toEngine) + 1] = pkt
          BY <3>2, PacketSent DEF GInv
        <4> QED
          BY <2>8, <2>9, <4>1 DEF Admits
      <3> QED
        BY <2>10, <3>1, <3>2
    <2>15. EnteringRow'
      BY <1>3, <2>1, <2>12, <2>13, <2>14 DEF EnteringRow
    <2>16. DeadPeer' /\ WithdrawnRow' /\ EmptyRow'
      BY <2>12 DEF DeadPeer, WithdrawnRow, EmptyRow, Emptying
    <2> QED
      BY <2>4, <2>11, <2>15, <2>16 DEF OInv, OpenShape
  <1> QED
    BY <1>8, <1>9

----------------------------------------------------------------------------
(* The engine, the manager and the worker.                                  *)

\* The engine has ended: it honours nobody and has nothing to read.
LEMMA ExitOrphan ==
  ASSUME GInv, OInv, EngineExits, UNCHANGED <<vars, serverVars>>
  PROVE  OInv'
  <1>1. /\ engine'.run = 0 /\ \A s \in Slots : ~Ends(s)'
        /\ toEngine' = <<>> /\ Len(toEngine') = 0
        /\ UNCHANGED <<journal, match, task, conns, lives, runs>>
    BY DEF EngineExits, NoEngine, Ends, vars, serverVars
  <1>2. Letters'
    BY <1>1, LettersGone DEF OInv
  <1>3. SUFFICES ASSUME match.state = "open" PROVE OpenShape'
    BY <1>1, <1>2 DEF OInv, OpenShape
  <1>4. SeatRows' /\ LinesGuarded' /\ DeadPeer' /\ WithdrawnRow'
    BY <1>1, <1>3 DEF OInv, OpenShape, SeatRows, LinesGuarded, LineGuarded, Guard, Entering,
                      Withdrawing, DeadPeer, WithdrawnRow, Unapplied
  <1>5. EndsGuarded'
    BY <1>1 DEF EndsGuarded
  <1>6. EnteringRow'
    BY <1>1, <1>3 DEF OInv, OpenShape, EnteringRow
  <1>7. EmptyRow'
    <2>1. ASSUME Emptying PROVE ~Ends(conns[task.conn].slot)'
      <3>1. PICK e \in Slots : e = conns[task.conn].slot
        BY <2>1 DEF GInv, TaskShape, AttachShape, DetachShape, Emptying
      <3>2. ~Ends(e)'
        BY <1>1
      <3> QED
        BY <1>1, <3>1, <3>2 DEF Ends
    <2> QED
      BY <1>1, <1>3, <2>1 DEF OInv, OpenShape, EmptyRow, Emptying, OtherTab, Unapplied
  <1> QED
    BY <1>4, <1>5, <1>6, <1>7 DEF OpenShape

\* The engine admits the life it was sent, and ends lives that have a seat.
LEMMA EngineOrphan ==
  ASSUME GInv, OInv, EngineStep, UNCHANGED <<vars, serverVars>>
  PROVE  OInv'
  <1>0. /\ UNCHANGED <<match, task, conns, lives, runs>>
        /\ EngineTyped /\ toEngine \in Seq(Packet)
    BY DEF vars, serverVars, GInv, EngineTyped
  <1>1. Letters' /\ PacketsLeft
    BY LettersEngine DEF OInv
  <1>2. SUFFICES ASSUME match.state = "open" PROVE OpenShape'
    BY <1>0, <1>1 DEF OInv, OpenShape
  <1>3. /\ SeatRows /\ EndsGuarded /\ LinesGuarded /\ EnteringRow /\ EmptyRow
        /\ DeadPeer /\ WithdrawnRow /\ EndsUnwritten
    BY <1>2 DEF OInv, OpenShape, Letters
  <1>4. PICK s \in Slots :
            /\ engine.run \in RunIds
            /\ engine'.run = engine.run
            /\ \A t \in Slots \ {s} : StillEnds(t)
            /\ \/ UNCHANGED journal /\ Takes("admit", s)
               \/ /\ ~Ends(s)'
                  /\ UNCHANGED toEngine \/ \E kind \in Kinds \ {"admit"} : Takes(kind, s)
                  /\ \/ UNCHANGED journal
                     \/ \E line \in Line :
                           /\ Ends(s)
                           /\ line.victim = engine.admission[s]
                           /\ journal' = [journal EXCEPT ![engine.run] = Append(@, line)]
    BY EngineDeeds
  <1>5. match.run \in RunIds /\ engine.run = match.run
    BY <1>2, <1>4, TaskMatch, GameBounds
  <1>6. ASSUME Takes("admit", s)
        PROVE  /\ task.pc = "admit"
               /\ task.slot = s /\ task.life = engine'.admission[s]
    <2>1. "admit" \in Kinds /\ toEngine # <<>>
      BY <1>6 DEF Kinds, Takes
    <2>2. 1 \in 1 .. Len(toEngine) /\ toEngine[1].kind = "admit" /\ toEngine[1].slot = s
      BY <1>0, <1>6, <2>1, TakesPacket
    <2>3. Head(toEngine) = toEngine[1]
      BY <1>0, <2>1
    <2>4. task.pc = "admit"
      BY <1>2, <2>2 DEF GInv, OneAdmission, Admits
    <2> QED
      BY <1>3, <1>6, <2>2, <2>3, <2>4 DEF EnteringRow, Admits, Takes
  <1>7. EndsGuarded'
    <2>1. SUFFICES ASSUME NEW t \in Slots, Ends(t)'
                   PROVE  Guard(t, engine'.admission[t]) \/ Entering(t, engine'.admission[t])
      BY <1>0 DEF EndsGuarded, Guard, Entering
    <2>2. CASE t # s
      BY <1>3, <1>4, <2>1, <2>2 DEF StillEnds, EndsGuarded
    <2>3. CASE t = s
      BY <1>4, <1>6, <2>1, <2>3 DEF Entering
    <2> QED
      BY <2>2, <2>3
  <1>8. ASSUME NEW n \in Unapplied(match.run)'
        PROVE  \/ n \in Unapplied(match.run) /\ journal'[match.run][n] = journal[match.run][n]
               \/ Ends(s) /\ journal'[match.run][n].victim = engine.admission[s]
    <2>1. CASE UNCHANGED journal
      BY <1>0, <1>8, <2>1 DEF Unapplied
    <2>2. ASSUME NEW line \in Line, Ends(s), line.victim = engine.admission[s],
                 journal' = [journal EXCEPT ![engine.run] = Append(@, line)]
          PROVE  \/ n \in Unapplied(match.run) /\ journal'[match.run][n] = journal[match.run][n]
                 \/ Ends(s) /\ journal'[match.run][n].victim = engine.admission[s]
      <3>1. /\ Len(journal'[match.run]) = Len(journal[match.run]) + 1
            /\ \A m \in 1 .. Len(journal[match.run]) :
                  journal'[match.run][m] = journal[match.run][m]
            /\ journal'[match.run][Len(journal[match.run]) + 1] = line
            /\ Len(journal[match.run]) \in Nat
        BY <1>0, <1>4, <1>5, <2>2, AppendedLines DEF EngineTyped
      <3>2. n \in 1 .. Len(journal'[match.run]) /\ n > runs[match.run].sequence
        BY <1>0, <1>8 DEF Unapplied
      <3>3. n \in 1 .. Len(journal[match.run]) \/ n = Len(journal[match.run]) + 1
        BY <3>1, <3>2
      <3> QED
        BY <2>2, <3>1, <3>2, <3>3 DEF Unapplied
    <2> QED
      BY <1>4, <2>1, <2>2
  <1>9. LinesGuarded'
    <2>1. SUFFICES ASSUME NEW n \in Unapplied(match.run)'
                   PROVE  LineGuarded(journal'[match.run][n].victim)
      BY <1>0 DEF LinesGuarded, LineGuarded, Guard, Entering, Withdrawing, Unapplied
    <2>2. CASE n \in Unapplied(match.run) /\ journal'[match.run][n] = journal[match.run][n]
      BY <1>3, <2>2 DEF LinesGuarded
    <2>3. CASE Ends(s) /\ journal'[match.run][n].victim = engine.admission[s]
      <3>1. lives[engine.admission[s]].slot = s
        BY <1>3, <2>3, EndsAlive
      <3> QED
        BY <1>3, <2>3, <3>1 DEF EndsGuarded, LineGuarded
    <2> QED
      BY <1>8, <2>1, <2>2, <2>3
  <1>10. EmptyRow'
    <2>1. SUFFICES ASSUME Emptying
                   PROVE  /\ ~Ends(conns[task.conn].slot)'
                          /\ \A n \in Unapplied(match.run)' :
                                (task.pc = "apply" => n > task.until) =>
                                   lives[journal'[match.run][n].victim].slot # conns[task.conn].slot
      BY <1>0, <1>3 DEF EmptyRow, Emptying, OtherTab, Unapplied
    <2>2. /\ ~Ends(conns[task.conn].slot)
          /\ \A n \in Unapplied(match.run) :
                (task.pc = "apply" => n > task.until) =>
                   lives[journal[match.run][n].victim].slot # conns[task.conn].slot
      BY <1>3, <2>1 DEF EmptyRow
    <2>3. conns[task.conn].slot \in Slots
      BY <2>1 DEF GInv, TaskShape, AttachShape, DetachShape, Emptying
    <2>4. ~Takes("admit", s)
      BY <1>6, <2>1 DEF Emptying
    <2>5. PICK e \in Slots : e = conns[task.conn].slot
      BY <2>3
    <2>6. ~Ends(e)'
      BY <1>4, <2>2, <2>4, <2>5 DEF StillEnds
    <2>7. ASSUME NEW n \in Unapplied(match.run)', task.pc = "apply" => n > task.until
          PROVE  lives[journal'[match.run][n].victim].slot # e
      <3>1. CASE n \in Unapplied(match.run) /\ journal'[match.run][n] = journal[match.run][n]
        BY <2>2, <2>5, <2>7, <3>1
      <3>2. CASE Ends(s) /\ journal'[match.run][n].victim = engine.admission[s]
        <4>1. lives[engine.admission[s]].slot = s
          BY <1>3, <3>2, EndsAlive
        <4> QED
          BY <2>2, <2>5, <3>2, <4>1
      <3> QED
        BY <1>8, <2>7, <3>1, <3>2
    <2> QED
      BY <1>0, <2>5, <2>6, <2>7 DEF Ends
  <1>11. EnteringRow'
    BY <1>0, <1>1, <1>3 DEF EnteringRow, PacketsLeft, Admits
  <1>12. SeatRows' /\ DeadPeer' /\ WithdrawnRow'
    BY <1>0, <1>3 DEF SeatRows, DeadPeer, WithdrawnRow
  <1> QED
    BY <1>7, <1>9, <1>10, <1>11, <1>12 DEF OpenShape

\* A match begins without peers, lines or admissions.
LEMMA StartOrphan ==
  ASSUME GInv, OInv, StartMatch
  PROVE  OInv'
  <1>1. mgr.pc = "start"
    BY DEF StartMatch
  <1>2. PICK r \in RunIds : r = arena.run_id
    BY <1>1, Starting
  <1>3. /\ engine' = [NoEngine EXCEPT !.run = r] /\ toEngine' = <<>>
        /\ match' = [NoMatch EXCEPT !.run = r, !.state = "open"]
        /\ journal[r] = <<>>
        /\ UNCHANGED <<journal, task, runs>>
    BY <1>2 DEF StartMatch, EngineStarts, vars
  <1>4. \A s \in Slots : ~Ends(s)'
    BY <1>3 DEF NoEngine, Ends
  <1>5. Letters'
    BY <1>3, <1>4, LettersGone DEF OInv
  <1>6. /\ task'.op = "none" /\ task'.pc = "idle" /\ task'.wait = "none"
    BY <1>1, <1>3, MgrAlone
  <1>7. match'.run = r /\ \A s \in Slots : match'.peers[s] = NoConn
    BY <1>3 DEF NoMatch
  <1>8. SeatRows' /\ EndsGuarded'
    BY <1>4, <1>7 DEF SeatRows, EndsGuarded
  <1>9. LinesGuarded'
    BY <1>3, <1>7 DEF LinesGuarded, Unapplied
  <1>10. ~Emptying'
    BY <1>6 DEF Emptying
  <1>11. EnteringRow' /\ DeadPeer' /\ WithdrawnRow' /\ EmptyRow'
    BY <1>6, <1>10, FreshTask
  <1> QED
    BY <1>5, <1>8, <1>9, <1>11 DEF OInv, OpenShape

\* What happens without a match.
LEMMA UnservedOrphan ==
  ASSUME GInv, OInv, match.run = 0, UNCHANGED <<engine, journal, toEngine, match>>
  PROVE  OInv'
  <1>1. match'.state # "open"
    BY DEF GInv, MatchShape
  <1> QED
    BY <1>1, ShutOrphan

\* A recovery ends with a match without seats and a new engine.
LEMMA RecoveryOrphan ==
  ASSUME GInv, OInv, RecoveryStep
  PROVE  OInv'
  <1>1. CASE StartMatch
    BY <1>1, StartOrphan
  <1>2. CASE ~StartMatch
    <2>1. UNCHANGED <<engine, journal, toEngine, match>>
      BY <1>2 DEF RecoveryStep, RecoverNext, JournalMissing, RecoverApply, Recovered, InsertRun,
                  StartFails, LeaveRecovered, ipcVars
    <2>2. mgr.op # "none" \/ mgr.pc # "idle"
      BY DEF RecoveryStep, RecoverNext, JournalMissing, RecoverApply, Recovered, InsertRun,
             StartMatch, StartFails, LeaveRecovered
    <2>3. match.run = 0
      BY <2>2, MgrAlone
    <2> QED
      BY <2>1, <2>3, UnservedOrphan
  <1> QED
    BY <1>1, <1>2

\* A connection asks for the arena, whose match it finds or not.
LEMMA EnsureOrphan ==
  ASSUME GInv, OInv, NEW c \in Conns, EnsureBegin(c) \/ Connect(c)
  PROVE  OInv'
  <1>1. UNCHANGED <<engine, journal, toEngine, match, task>>
    BY DEF EnsureBegin, Connect, ipcVars
  <1>2. CASE match.run = 0
    BY <1>1, <1>2, UnservedOrphan
  <1>3. CASE match.run # 0
    <2>1. UNCHANGED <<lives, runs>>
      BY <1>3 DEF EnsureBegin, Connect, NoServer, vars
    <2>2. \A d \in Conns : conns'[d].life = conns[d].life /\ conns'[d].slot = conns[d].slot
      BY <1>3, PhaseOnly DEF EnsureBegin, Connect, NoServer
    <2>3. OpenShape'
      BY <1>1, <2>1, <2>2, Bystander DEF OInv
    <2>4. Letters'
      BY <1>1, LettersKept DEF OInv, Quiet
    <2> QED
      BY <2>3, <2>4 DEF OInv
  <1> QED
    BY <1>2, <1>3

\* A step that touches none of this changes nothing of it.
LEMMA BystanderOrphan ==
  ASSUME GInv, OInv, UNCHANGED <<match, task, conns, lives, runs, engine, journal, toEngine>>
  PROVE  OInv'
  <1>1. OpenShape'
    BY Bystander DEF OInv
  <1>2. Letters'
    BY LettersKept DEF OInv, Quiet
  <1> QED
    BY <1>1, <1>2 DEF OInv

\* A crash of the worker leaves no match; what the engine was told stays.
LEMMA CrashOrphan ==
  ASSUME GInv, OInv, Crash
  PROVE  OInv'
  <1>1. UNCHANGED <<engine, journal, toEngine>> /\ match' = NoMatch
    BY DEF Crash
  <1>2. match'.state # "open"
    BY <1>1 DEF NoMatch
  <1> QED
    BY <1>1, <1>2, ShutOrphan

\* Every step of an attach, a detach, a leave or a replay.
LEMMA TaskOrphan ==
  ASSUME OneBatch, GInv, OInv, TaskStep
  PROVE  OInv'
  <1>0. [GameNext]_gameVars
    BY DEF GameNext
  <1>1. CASE OperationFails
    BY <1>0, <1>1, FailsOrphan
  <1>2. CASE ReplayStep
    BY <1>0, <1>2, ApplyOrphan, DeadPeerOrphan DEF ReplayStep
  <1>3. CASE AttachStep
    <2>1. CASE NothingToAttach
      BY <1>0, <2>1, AttachEndsOrphan DEF NothingToAttach, ipcVars
    <2>2. CASE CannotAllocate
      <3>1. UNCHANGED <<engine, journal, toEngine, lives, runs>> /\ AttachEnds(task.conn)
        BY <2>2 DEF CannotAllocate, vars, ipcVars
      <3>2. CASE task.pc = "tabs" /\ UNCHANGED match
        BY <1>0, <3>1, <3>2, AttachEndsOrphan
      <3>3. CASE task.pc = "pop" /\ match' = [match EXCEPT !.peers[conns[task.conn].slot] = NoConn]
        BY <1>0, <3>1, <3>3, PoppedOrphan
      <3> QED
        BY <2>2, <3>2, <3>3 DEF CannotAllocate, Allocating
    <2> QED
      BY <1>0, <1>3, <2>1, <2>2, AttachBeginOrphan, RevokeFormerOrphan, FormerLifeOrphan,
         AllocateOrphan, AdmittedOrphan DEF AttachStep
  <1>4. CASE DetachStep
    BY <1>0, <1>4, DisconnectOrphan, DetachBeginOrphan, DetachedOrphan, GoneOrphan DEF DetachStep
  <1>5. CASE LeaveMatchStep
    BY <1>0, <1>5, LeaveBeginOrphan, WithdrawnOrphan, LeaveEndsOrphan DEF LeaveMatchStep
  <1> QED
    BY <1>1, <1>2, <1>3, <1>4, <1>5 DEF TaskStep

\* Every step of a match as a whole.
LEMMA MatchOrphan ==
  ASSUME GInv, OInv, MatchStep
  PROVE  OInv'
  <1>0. [GameNext]_gameVars
    BY DEF GameNext
  <1> QED
    BY <1>0, TickOrphan, VisitOrphan, StopsOrphan DEF MatchStep

\* Every step keeps OInv.
LEMMA OrphanStep == OneBatch /\ GInv /\ OInv /\ [GameNext]_gameVars => OInv'
  <1> SUFFICES ASSUME OneBatch, GInv, OInv, [GameNext]_gameVars PROVE OInv'
    OBVIOUS
  <1>1. CASE TaskStep
    BY <1>1, TaskOrphan
  <1>2. CASE MatchStep
    BY <1>2, MatchOrphan
  <1>3. CASE RecoveryStep
    BY <1>3, RecoveryOrphan
  <1>4. CASE EngineStep /\ UNCHANGED <<vars, serverVars>>
    BY <1>4, EngineOrphan
  <1>5. CASE EngineTerminates \/ EngineCrashes
    BY <1>5, ExitOrphan DEF EngineTerminates, EngineCrashes
  <1>6. CASE \E c \in Conns : EnsureBegin(c) \/ Connect(c)
    BY <1>6, EnsureOrphan
  <1>7. CASE \E p \in Players : LeaveWithoutMatch(p)
    <2>1. match.run = 0 /\ UNCHANGED <<engine, journal, toEngine, match>>
      BY <1>7 DEF LeaveWithoutMatch, NoServer, ipcVars
    <2> QED
      BY <2>1, UnservedOrphan
  <1>8. CASE DropAck \/ LedgerStep \/ UnstartedStep \/ UNCHANGED gameVars
    <2>1. UNCHANGED <<match, task, conns, lives, runs, engine, journal, toEngine>>
      BY <1>8 DEF DropAck, LedgerStep, CloseGame, RequestLeave, LeaseExpires, UnstartedStep,
                  VisitBlocks, EnsureDrops, gameVars, vars, serverVars, ipcVars
    <2> QED
      BY <2>1, BystanderOrphan
  <1>9. CASE Crash
    BY <1>9, CrashOrphan
  <1>10. CASE Restart
    <2>1. match.run = 0
      BY <1>10 DEF Restart, GInv, MatchShape
    <2>2. UNCHANGED <<engine, journal, toEngine, match>>
      BY <1>10 DEF Restart, ipcVars
    <2> QED
      BY <2>1, <2>2, UnservedOrphan
  <1> QED
    BY <1>1, <1>2, <1>3, <1>4, <1>5, <1>6, <1>7, <1>8, <1>9, <1>10 DEF GameNext

\* At the start nobody plays.
LEMMA OrphanInit == GameInit => OInv
  <1> SUFFICES ASSUME GameInit PROVE OInv
    OBVIOUS
  <1>1. /\ engine = NoEngine /\ toEngine = <<>> /\ match = NoMatch
        /\ journal = [r \in RunIds |-> <<>>]
    BY DEF GameInit, RefereeInit
  <1>2. engine.run = 0 /\ (\A s \in Slots : ~Ends(s)) /\ match.state # "open"
    BY <1>1 DEF NoEngine, NoMatch, Ends
  <1>3. \A r \in RunIds : Len(journal[r]) = 0
    BY <1>1
  <1>4. OneLetter /\ EndsUnwritten /\ FreshLetter /\ WrittenOnce
    BY <1>2, <1>3 DEF OneLetter, EndsUnwritten, FreshLetter, WrittenOnce
  <1> QED
    BY <1>2, <1>4 DEF OInv, Letters, OpenShape

----------------------------------------------------------------------------
(* Nobody plays a life that was given up.                                   *)

\* When one batch holds the lines of an arena, the engine never honours a life that
\* the ledger has consumed, refunded or released ("a failed barrier must never leave
\* an authorized orphan character", server.py 307-310), whatever crashes, leaves,
\* second tabs and late answers interleave.
THEOREM NoOrphan == OneBatch => (GameSpec => []NoAuthorizedOrphan)
  <1> SUFFICES ASSUME OneBatch PROVE GameSpec => []NoAuthorizedOrphan
    OBVIOUS
  <1>1. GInv /\ OInv => NoAuthorizedOrphan
    <2> SUFFICES ASSUME GInv, OInv, NEW s \in Authorized
                 PROVE  /\ lives[engine.admission[s]].status = "alive"
                        /\ lives[engine.admission[s]].run = engine.run
                        /\ lives[engine.admission[s]].slot = s
      BY DEF NoAuthorizedOrphan
    <2>1. s \in Slots /\ Ends(s)
      BY DEF Authorized, Ends
    <2> QED
      BY <2>1, EndsAlive DEF OInv, Letters
  <1>2. GInv /\ OInv /\ [GameNext]_gameVars => OInv'
    BY OrphanStep
  <1> QED
    BY <1>1, <1>2, OrphanInit, GameInitInv, GameStep, PTL DEF GameSpec
=============================================================================
