------------------------------- MODULE Referee -------------------------------
(***************************************************************************)
(* The dedicated engine as QuakeJS patches it (engine/native.c): one       *)
(* admission per peer slot, a consumed guard that lets each admission end  *)
(* once, and a journal that is written and synced before anyone is told.   *)
(* The engine reads control packets from a socket whose other end is the   *)
(* Match of server.py, and answers each one with an acknowledgement.       *)
(*                                                                         *)
(* The game itself is left out: an admitted client may die at any time, by *)
(* anyone's hand.  When it enters (claimed[peer], Arena_Admit,             *)
(* Arena_Client) is left out as well: an admission that has not ended can  *)
(* be entered at the moment it kills or dies, and one that ended otherwise *)
(* than by a revocation had been entered.                                  *)
(***************************************************************************)
EXTENDS Integers, Sequences

CONSTANTS LifeIds, RunIds, Slots,
          NoLife,     \* an empty admission, and the killer of a suicide
          MaxEvents   \* bound: journal lines per run

VARIABLES
    engine,    \* the engine process: its run (0 when there is none) and its tables
    journal,   \* the journal file of each run, which survives everything
    toEngine,  \* control packets the engine has not read
    acks       \* acknowledgements the server has not read

refereeVars == <<engine, journal, toEngine, acks>>

Kinds == {"admit", "revoke", "forfeit"}   \* packets 1, 3 and 7

NoEngine == [run       |-> 0,
             admission |-> [s \in Slots |-> NoLife],
             consumed  |-> [s \in Slots |-> FALSE]]

RefereeTypeOK ==
    /\ engine \in [run: RunIds \cup {0},
                   admission: [Slots -> LifeIds \cup {NoLife}],
                   consumed: [Slots -> BOOLEAN]]
    /\ \A r \in RunIds : \A n \in 1 .. Len(journal[r]) :
          journal[r][n] \in [victim: LifeIds, killer: LifeIds \cup {NoLife}]
    /\ \A n \in 1 .. Len(toEngine) :
          toEngine[n] \in [kind: Kinds, slot: Slots, life: LifeIds \cup {NoLife}]
    /\ \A n \in 1 .. Len(acks) : acks[n] \in [kind: Kinds, slot: Slots]

RefereeInit ==
    /\ engine = NoEngine
    /\ journal = [r \in RunIds |-> <<>>]
    /\ toEngine = <<>>
    /\ acks = <<>>

Running == engine.run # 0

----------------------------------------------------------------------------
\* Arena_EndLife journals the end of an admission that has not ended yet.
Ends(s) == engine.admission[s] # NoLife /\ ~engine.consumed[s]

\* Arena_Revoke: the admission is emptied and its character dropped.
Revoked(s) == [engine EXCEPT !.admission[s] = NoLife, !.consumed[s] = TRUE]

\* Mutant of Journaled: the line is written after the admission was emptied.
JournaledAfterRevoke(s, k) ==
    [journal EXCEPT ![engine.run] = Append(@, [victim |-> Revoked(s).admission[s], killer |-> k])]

\* Journal lines are synced before the packet is acknowledged.
Journaled(s, k) ==
    [journal EXCEPT ![engine.run] = Append(@, [victim |-> engine.admission[s], killer |-> k])]

\* The engine takes the next packet and acknowledges it.
Answer(kind, s) ==
    /\ Running
    /\ toEngine # <<>>
    /\ Head(toEngine).kind = kind
    /\ Head(toEngine).slot = s
    /\ toEngine' = Tail(toEngine)
    /\ acks' = Append(acks, [kind |-> kind, slot |-> s])

\* Packet 1: the slot is revoked and given to the new life.
AdmitLife(s) ==
    /\ Answer("admit", s)
    /\ engine' = [engine EXCEPT !.admission[s] = Head(toEngine).life,
                                !.consumed[s] = FALSE]
    /\ UNCHANGED journal

\* Packet 3: the admission is withdrawn without a death.
RevokeLife(s) ==
    /\ Answer("revoke", s)
    /\ engine' = Revoked(s)
    /\ UNCHANGED journal

\* Packet 7: the admission ends as a death without a killer, then is withdrawn.
ForfeitLife(s) ==
    /\ Answer("forfeit", s)
    /\ engine' = Revoked(s)
    /\ IF Ends(s) THEN Len(journal[engine.run]) < MaxEvents /\ journal' = Journaled(s, NoLife)
                  ELSE UNCHANGED journal

\* Arena_Frag and Arena_Disconnect: a character dies.  The killer is an
\* admission that was not revoked, dead or alive, or nobody.
Killers(s) == {NoLife} \cup {engine.admission[t] : t \in Slots \ {s}}

CharacterDies(s, k) ==
    /\ Running
    /\ Ends(s)
    /\ k \in Killers(s)
    /\ Len(journal[engine.run]) < MaxEvents
    /\ engine' = [engine EXCEPT !.consumed[s] = TRUE]
    /\ journal' = Journaled(s, k)
    /\ UNCHANGED <<toEngine, acks>>

\* The process ends: killed, crashed, or its socket was closed under it.  What
\* it has already sent can still be read.
EngineExits ==
    /\ Running
    /\ engine' = NoEngine
    /\ toEngine' = <<>>
    /\ UNCHANGED <<journal, acks>>

\* A new process with a new socket and a new journal (Match.start).
EngineStarts(r) ==
    /\ ~Running
    /\ journal[r] = <<>>
    /\ engine' = [NoEngine EXCEPT !.run = r]
    /\ toEngine' = <<>>
    /\ acks' = <<>>
    /\ UNCHANGED journal

EngineStep ==
    \E s \in Slots : \/ AdmitLife(s) \/ RevokeLife(s) \/ ForfeitLife(s)
                     \/ \E k \in LifeIds \cup {NoLife} : CharacterDies(s, k)
=============================================================================
