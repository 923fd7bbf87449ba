------------------------------ MODULE CycleLock ----------------------------
(* The runs of one cycle on one artifacts folder (engine/cycle_lock.py,        *)
(* services/cycle_run.py): the file lock that lets one run in at a time, the   *)
(* marker in the lock file that tells of a run that died, and the server that  *)
(* looks for such a marker when it starts (history/maintenance.py).            *)
(*                                                                             *)
(* A run is a process, or a thread of the server; its lock goes with it when   *)
(* it dies. What a run does with its stages is PlanRun, what recording it      *)
(* writes is RunHistory: here it is one step that works or fails.              *)
EXTENDS Integers, FiniteSets

CONSTANTS Runs,        \* the runs that are asked for
          Server,      \* the process of the API server, which starts again
          None,        \* no run
          MaxCrashes,  \* bound on the processes that die
          Quiet,       \* the runs that are not recorded (CycleRunOptions.persist is false)
          DbErrors     \* whether a write to the history may fail

VARIABLES holder,    \* who has the file lock
          marker,    \* the run the lock file names
          at,        \* where each process is
          found,     \* the marker a process found when it took the lock
          recorded,  \* how often a run was recorded as one that did not finish
          lost,      \* the runs whose marker was cleared and nobody records
          crashes    \* how many processes died

lockVars == <<holder, marker, found>>
historyVars == <<recorded, lost>>
vars == <<lockVars, historyVars, at, crashes>>

-----------------------------------------------------------------------------
Goto(p, place) == at' = [at EXCEPT ![p] = place]

Init ==
  /\ holder = None /\ marker = None
  /\ at = [p \in Runs \cup {Server} |-> IF p = Server THEN "down" ELSE "wait"]
  /\ found = [p \in Runs \cup {Server} |-> None]
  /\ recorded = [r \in Runs |-> 0] /\ lost = {}
  /\ crashes = 0

-----------------------------------------------------------------------------
(* The lock. It is tried every 0.2 s until it is free; whoever takes it reads  *)
(* what the file says.                                                         *)
Acquire(p, place) ==
  /\ holder = None
  /\ holder' = p
  /\ found' = [found EXCEPT ![p] = marker]
  /\ Goto(p, place)
  /\ UNCHANGED <<historyVars, marker, crashes>>

Take(r) == at[r] = "wait" /\ Acquire(r, "left")

\* record_unfinished_run(): a failed run without test results, or a warning.
RecordAs(r) ==
  \/ /\ recorded' = [recorded EXCEPT ![r] = @ + 1]
     /\ UNCHANGED lost
  \/ /\ DbErrors
     /\ lost' = lost \cup {r}
     /\ UNCHANGED recorded

\* Mistake: the marker of an earlier run is only overwritten.
RecordLeftNot(r) ==
  /\ at[r] = "left"
  /\ Goto(r, "truncate")
  /\ UNCHANGED <<lockVars, historyVars, crashes>>

\* on_unfinished: only a run that is recorded itself records the one before it.
RecordLeft(r) ==
  /\ at[r] = "left"
  /\ Goto(r, "truncate")
  /\ \/ found[r] # None /\ r \notin Quiet /\ RecordAs(found[r])
     \/ found[r] # None /\ r \in Quiet /\ lost' = lost \cup {found[r]} /\ UNCHANGED recorded
     \/ found[r] = None /\ UNCHANGED <<recorded, lost>>
  /\ UNCHANGED <<lockVars, crashes>>

\* truncate() before the marker of this run is written.
Truncate(r) ==
  /\ at[r] = "truncate" /\ Goto(r, "mark")
  /\ marker' = None
  /\ UNCHANGED <<historyVars, holder, found, crashes>>

Mark(r) ==
  /\ at[r] = "mark" /\ Goto(r, "run")
  /\ marker' = r
  /\ UNCHANGED <<historyVars, holder, found, crashes>>

-----------------------------------------------------------------------------
(* The run itself, then the reporters, the history copy of the native reports  *)
(* and the archive, all under the lock; whatever raises ends the run too.      *)
RunPlan(r) ==
  /\ at[r] = "run" /\ Goto(r, "report")
  /\ UNCHANGED <<lockVars, historyVars, crashes>>

\* Mistake: the file is emptied after the lock is given back.
ClearLate(r) ==
  /\ at[r] = "report" /\ Goto(r, "unlock")
  /\ holder' = None
  /\ UNCHANGED <<historyVars, marker, found, crashes>>

\* Nothing is left behind.
Clear(r) ==
  /\ at[r] = "report" /\ Goto(r, "unlock")
  /\ marker' = None
  /\ UNCHANGED <<historyVars, holder, found, crashes>>

Unlock(r) ==
  /\ at[r] = "unlock" /\ Goto(r, "done")
  /\ holder' = None
  /\ UNCHANGED <<historyVars, marker, found, crashes>>

-----------------------------------------------------------------------------
(* The server: at its start take_unfinished() takes the lock if it is free,    *)
(* clears the marker and gives the lock back; only then the run is recorded.   *)
ServerStart ==
  /\ at[Server] = "down"
  /\ \/ Acquire(Server, "held")
     \/ /\ holder # None /\ Goto(Server, "up")
        /\ UNCHANGED <<lockVars, historyVars, crashes>>

\* Mistake: the file keeps the marker.
ServerTakeKeeping ==
  /\ at[Server] = "held" /\ Goto(Server, "record")
  /\ holder' = None
  /\ UNCHANGED <<historyVars, marker, found, crashes>>

ServerTake ==
  /\ at[Server] = "held" /\ Goto(Server, "record")
  /\ marker' = None /\ holder' = None
  /\ UNCHANGED <<historyVars, found, crashes>>

ServerRecord ==
  /\ at[Server] = "record" /\ Goto(Server, "up")
  /\ IF found[Server] = None THEN UNCHANGED <<recorded, lost>> ELSE RecordAs(found[Server])
  /\ found' = [found EXCEPT ![Server] = None]
  /\ UNCHANGED <<holder, marker, crashes>>

-----------------------------------------------------------------------------
\* Whose record is lost when p dies: the marker is cleared, the run not yet recorded.
DiesWith(p) ==
  IF p = Server /\ at[p] = "record" /\ found[p] # None THEN {found[p]} ELSE {}

\* A run that is killed while the file has its marker leaves it there.
Grave(p) ==
  CASE p = Server -> "down"
    [] at[p] \in {"run", "report"} -> "killed"
    [] OTHER -> "dead"

\* Mistake: the lock is a file that stays.
FreedByOsNot(p) == holder

\* The system drops the lock of a process that dies.
FreedByOs(p) == IF holder = p THEN None ELSE holder

Crash(p) ==
  /\ crashes < MaxCrashes /\ crashes' = crashes + 1
  /\ at[p] \notin {"done", "dead", "killed", "down"}
  /\ Goto(p, Grave(p))
  /\ holder' = FreedByOs(p)
  /\ lost' = lost \cup DiesWith(p)
  /\ UNCHANGED <<marker, found, recorded>>

Step(r) ==
  \/ Take(r) \/ RecordLeft(r) \/ Truncate(r) \/ Mark(r) \/ RunPlan(r)
  \/ Clear(r) \/ Unlock(r)

ServerStep == ServerStart \/ ServerTake \/ ServerRecord

Next ==
  \/ \E r \in Runs : Step(r)
  \/ ServerStep
  \/ \E p \in Runs \cup {Server} : Crash(p)

Spec == Init /\ [][Next]_vars

\* A run that may go on does; nobody has to crash or to start the server again.
Fairness ==
  /\ \A r \in Runs : WF_vars(Step(r))
  /\ WF_vars(ServerTake \/ ServerRecord)

FairSpec == Spec /\ Fairness

-----------------------------------------------------------------------------
Inside == {"left", "truncate", "mark", "run", "report", "unlock"}

Places == Inside \cup {"wait", "done", "dead", "killed"}

(* Types, and the lock fits the places: whoever is inside has it, so runs of a *)
(* cycle do not overlap, and nobody else is left with it (cycle_lock.py lines  *)
(* 160-197).                                                                   *)
TypeOK ==
  /\ holder \in Runs \cup {Server, None} /\ marker \in Runs \cup {None}
  /\ at \in [Runs \cup {Server} -> Places \cup {"down", "held", "record", "up"}]
  /\ \A p \in Runs \cup {Server} : holder = p <=> at[p] \in Inside \cup {"held"}
  /\ found \in [Runs \cup {Server} -> Runs \cup {None}]
  /\ lost \subseteq Runs
  /\ recorded \in [Runs -> 0..(MaxCrashes + 1)]
  /\ crashes \in 0..MaxCrashes

(* Only a run that died is recorded as one that did not finish: neither a run  *)
(* that is still going nor one that ended is taken for dead (cycle_lock.py     *)
(* lines 119-140, 176-193).                                                    *)
OnlyTheDead == \A r \in Runs : recorded[r] > 0 => at[r] = "killed"

(* A run that was killed leaves a trace: its marker is still there, or whoever *)
(* took it is about to record it, or it is recorded; else a write failed, a    *)
(* run that is not recorded took its place, or the server died with it.        *)
InHand(r) ==
  \E p \in Runs \cup {Server} : found[p] = r /\ at[p] \in {"left", "record"}

Noticed ==
  \A r \in Runs : at[r] = "killed" =>
    marker = r \/ InHand(r) \/ recorded[r] > 0 \/ r \in lost

(* A run is recorded as unfinished once, and once more for each process that   *)
(* died between recording it and emptying the file (cycle_lock.py lines        *)
(* 177-184).                                                                   *)
AgainOnlyAfterCrash ==
  \A r \in Runs :
    recorded[r] <= 1 + Cardinality({p \in Runs : at[p] = "dead" /\ found[p] = r})

(* Nobody waits for ever: a run that died does not keep the next one out.      *)
WaitEnds == \A r \in Runs : at[r] = "wait" ~> at[r] \in {"done", "dead", "killed"}
=============================================================================
