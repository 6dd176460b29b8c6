--------------------------- MODULE GameServerProps ---------------------------
(***************************************************************************)
(* What the ledger, the server and the engine promise about each other.    *)
(***************************************************************************)
EXTENDS GameServer

\* The admissions the running engine still honours.
Authorized == {s \in Slots : Running /\ engine.admission[s] # NoId /\ ~engine.consumed[s]}

Unapplied(r) == {n \in 1 .. Len(journal[r]) : n > runs[r].sequence}

\* Every journal line the ledger has not applied can be: its victim is a life
\* of that run whose entry still holds the life, so no interleaving of deaths,
\* leaves, recoveries and crashes makes consume_death raise and block the arena
\* (crud.py 339-372; server.py Manager.blocked).
JournalApplies ==
    \A r \in RunIds : \A n \in Unapplied(r) :
       LET l == journal[r][n].victim
       IN  /\ lives[l].run = r
           /\ lives[l].status \notin {"none", "refunded"}
           /\ lives[l].status # "dead" => entries[lives[l].entry].remaining > 0

\* A life that died in an engine is never refunded as well: the leave reads the
\* journal after the engine has withdrawn the character (server.py 470-492).
KilledNeverRefunded ==
    \A r \in RunIds : \A n \in 1 .. Len(journal[r]) :
       lives[journal[r][n].victim].status # "refunded"

\* An engine never honours a life the ledger gave up: while a character may
\* enter or play, its life is alive, in this run and on this slot, even when
\* the worker crashed and its successor recovers the run ("a failed barrier
\* must never leave an authorized orphan character", server.py 307-310).
NoAuthorizedOrphan ==
    \A s \in Authorized :
       LET row == lives[engine.admission[s]]
       IN  row.status = "alive" /\ row.run = engine.run /\ row.slot = s

\* A run is marked stopped or recovered only when no engine plays it and every
\* line of its journal is in the ledger, whatever the number of batches
\* (server.py 246-251).
EndedRunIsDrained ==
    \A r \in RunIds :
       runs[r].status \in {"stopped", "recovered"} =>
          engine.run # r /\ Unapplied(r) = {}

\* "A second tab must not evict it" (server.py 256): while a match goes on, a
\* connection with a living player keeps its seat, over any number of tabs,
\* reconnects, admissions left by an earlier run and answers that come too late.
SeatEndsWithLife ==
    [][\A c \in Conns :
          (/\ Seated(c) /\ match'.run = match.run
           /\ lives'[conns[c].life].status = "alive")
             => Seated(c)' \/ conns'[c].life # conns[c].life]_gameVars

\* Deaths are paid in the order and with the killer the engine wrote: the ledger
\* has applied a prefix of the journal (crud.py 343-349, server.py 229-237).
PrizesMatchJournal ==
    \A r \in RunIds :
       /\ runs[r].sequence <= Len(journal[r])
       /\ \A n \in 1 .. runs[r].sequence :
             LET line == journal[r][n]
             IN  /\ lives[line.victim].status = "dead"
                 /\ payouts[line.victim] # NoId =>
                       \E m \in 1 .. n : /\ journal[r][m].victim = line.victim
                                         /\ journal[r][m].killer = payouts[line.victim]

\* Disconnecting, reloading or timing out also consumes the current admitted life
\* (README.md 38-39): when the connection that plays an admitted life closes in a
\* match that goes on, the life is dead, or its death is a journal line the next
\* replay applies, unless its player is leaving (server.py 287-306).
Plays(c) == /\ conns[c].life # NoId
            /\ conns[c].life \in AliveIn(match.run)
            /\ match.state = "open"
            /\ engine.run = match.run
            /\ participants[Owner[c]] = "playing"
DisconnectConsumes ==
    [][\A c \in Conns :
          Plays(c) /\ conns'[c].phase = "closed" /\ match'.state = "open"
             => \/ lives'[conns[c].life].status = "dead"
                \/ \E n \in 1 .. Len(journal'[match.run]) :
                      journal'[match.run][n].victim = conns[c].life]_gameVars

----------------------------------------------------------------------------
(* Liveness.  asyncio.Lock serves its waiters in order, so an operation that *)
(* keeps finding match.lock or manager.lock free is eventually served; the   *)
(* leave loop retries every five seconds, the manager visits every match ten *)
(* times a second; a control packet fails after three seconds; the lease of  *)
(* an arena without a server ends after 45 seconds; an engine without a      *)
(* server ends, and the operator starts LNbits again.                        *)

LeaseLapses == match.run = 0 /\ LeaseExpires /\ UNCHANGED <<ipcVars, serverVars>>

Fairness ==
    /\ WF_gameVars(TaskStep)
    /\ WF_gameVars(RecoveryStep)
    /\ WF_gameVars(Renewed \/ VisitEnds)
    /\ WF_gameVars(StopEnds)
    /\ WF_gameVars(SocketEof)
    /\ WF_gameVars(DropAck)
    /\ WF_gameVars(EngineTerminates)
    /\ WF_gameVars(LeaseLapses)
    /\ WF_gameVars(Restart)
    /\ SF_gameVars(TickBegin)
    /\ SF_gameVars(VisitStops /\ (~LeaseHeld \/ match.state = "closed"))
    /\ SF_gameVars(StopBegin)
    /\ SF_gameVars(VisitBlocks)
    /\ \A p \in Players : SF_gameVars(LeaveBegin(p)) /\ SF_gameVars(LeaveWithoutMatch(p))

FairGameSpec == GameSpec /\ Fairness

\* A leave that was asked for ends with the refund queued, through lost
\* acknowledgements, engine and worker crashes and missing leases, or the arena is
\* blocked after a match that never had a journal; a restart then lifts the block
\* and the leave, which is still recorded, goes on (server.py 373, 458-523, 633).
LeaveCompletes ==
    \A p \in Players :
       participants[p] = "leaving" ~> participants[p] = "left" \/ worker.broken = "arena"

\* "The next sweep retries" (server.py 538): without a crash and without a
\* restart, a leave that was asked for ends by itself.
LeaveNeedsNoRestart ==
    \A p \in Players : participants[p] = "leaving" ~> participants[p] = "left"

\* As long as the worker does not crash, a death the engine journaled reaches
\* the ledger, and with it the killer's payout.
DeathsReachLedger ==
    \A r \in RunIds, n \in 1 .. MaxSequence :
       Len(journal[r]) >= n ~> runs[r].sequence >= n \/ worker.crashes > 0
=============================================================================
