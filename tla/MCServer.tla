------------------------------ MODULE MCServer ------------------------------
(* The executions of the server, and beside them the components that share no  *)
(* state with them or with each other, each in a small instance. A behaviour   *)
(* is one of one part: the other parts stay as they began.                     *)
EXTENDS Executions

VARIABLES
  part,                                                               \* whose behaviour it is
  holder, marker, found, recorded, lost, lockAt, lockCrashes,         \* CycleLock
  row, metadata, tests, folder, persistAt, patch, remover, server,    \* RunHistory
  orphans, reviewed, deleted, picked, hurried, crashed, leftover, historyCrashes,
  handler, container, names, slots, service, client,                  \* RunnerService
  open, sent, code, killed, runnerCrashes

lockPart == <<holder, marker, found, recorded, lost, lockAt, lockCrashes>>
historyPart == <<row, metadata, tests, folder, persistAt, patch, remover, server, orphans,
                 reviewed, deleted, picked, hurried, crashed, leftover, historyCrashes>>
runnerPart == <<handler, container, names, slots, service, client, open, sent, code, killed,
                runnerCrashes>>
all == <<part, vars, lockPart, historyPart, runnerPart>>

LockRuns == {1, 2, 3}

Lock == INSTANCE CycleLock WITH
  Runs <- LockRuns, Server <- 9, None <- 0, MaxCrashes <- 2, Quiet <- {1}, DbErrors <- TRUE,
  at <- lockAt, crashes <- lockCrashes

Kept3 == {1, 2, 3}

History == INSTANCE RunHistory WITH
  Ids <- Kept3, Cycle <- [i \in Kept3 |-> IF i = 2 THEN "b" ELSE "a"], Old <- {1, 2},
  Keep <- 1, Failures <- TRUE, MaxCrashes <- 1, at <- persistAt, crashes <- historyCrashes

Stages == {1, 2}

Runner == INSTANCE RunnerService WITH
  MaxRuns <- 1, Endless <- {1}, Stubborn <- Stages, MaxCrashes <- 1,
  active <- names, crashes <- runnerCrashes

ServerInit ==
  /\ part \in {"executions", "lock", "history", "runner"}
  /\ Init /\ Lock!Init /\ History!Init /\ Runner!Init

\* A step of part p.
In(p, Act) ==
  /\ part = p /\ UNCHANGED part
  /\ Act
  /\ p # "executions" => UNCHANGED vars
  /\ p # "lock" => UNCHANGED lockPart
  /\ p # "history" => UNCHANGED historyPart
  /\ p # "runner" => UNCHANGED runnerPart

ExecutionsNext ==
  \E s \in Servers :
    \/ In("executions", Pick(s)) \/ In("executions", Create(s)) \/ In("executions", Crash(s))
    \/ In("executions", Restart(s)) \/ In("executions", Recover(s) \/ RecoverDrop(s))
    \/ \E i \in Ids :
         \/ In("executions", Steps(s, i)) \/ In("executions", Cancelling(s, i))
         \/ In("executions", CancelQueued(s, i)) \/ In("executions", CancelRunning(s, i))

LockNext ==
  \/ \E r \in LockRuns :
       \/ In("lock", Lock!Take(r)) \/ In("lock", Lock!RecordLeft(r)) \/ In("lock", Lock!Truncate(r))
       \/ In("lock", Lock!Mark(r)) \/ In("lock", Lock!RunPlan(r)) \/ In("lock", Lock!Clear(r))
       \/ In("lock", Lock!Unlock(r))
  \/ In("lock", Lock!ServerStart) \/ In("lock", Lock!ServerTake) \/ In("lock", Lock!ServerRecord)
  \/ \E p \in LockRuns \cup {9} : In("lock", Lock!Crash(p))

HistoryNext ==
  \/ \E i \in Kept3 :
       \/ In("history", History!CreateRow(i)) \/ In("history", History!CopyStarts(i))
       \/ In("history", History!CopyEnds(i)) \/ In("history", History!PointRead(i))
       \/ In("history", History!PointWrite(i)) \/ In("history", History!WriteTests(i))
       \/ In("history", History!Dies(i)) \/ In("history", History!PickRun(i))
  \/ In("history", History!ReviewRead) \/ In("history", History!ReviewWrite)
  \/ In("history", History!ListExpired)
  \/ \E a \in History!Removers :
       \/ In("history", History!RemoveTests(a)) \/ In("history", History!RemoveRows(a))
       \/ In("history", History!RemoveFolder(a))
  \/ In("history", History!ListOrphans) \/ In("history", History!FailOrphans)
  \/ In("history", History!ServerDies)

RunnerNext ==
  \/ \E r \in Stages :
       \/ In("runner", Runner!Post(r)) \/ In("runner", Runner!TakeSlot(r))
       \/ In("runner", Runner!StartDocker(r)) \/ In("runner", Runner!Notice(r))
       \/ In("runner", Runner!Exit(r)) \/ In("runner", Runner!Reap(r))
       \/ In("runner", Runner!Leave(r)) \/ In("runner", Runner!Created(r))
       \/ In("runner", Runner!Ends(r)) \/ In("runner", Runner!ReadExit(r))
       \/ In("runner", Runner!IdleTimeout(r)) \/ In("runner", Runner!Lost(r))
       \/ In("runner", Runner!Stop(r)) \/ In("runner", Runner!Terminate(r))
  \/ In("runner", Runner!Crash) \/ In("runner", Runner!Restart)

ServerNext == ExecutionsNext \/ LockNext \/ HistoryNext \/ RunnerNext

ServerSpec == ServerInit /\ [][ServerNext]_all

-----------------------------------------------------------------------------
(* What the modules promise, each of its part. Fairness is that of the part.   *)

(* The types of every part.                                                    *)
TypesOK == TypeOK /\ Lock!TypeOK /\ History!TypeOK /\ Runner!TypeOK

(* Executions: an accepted run is known or has its row until it is over; a     *)
(* cycle is busy only while its run is not; the registry forgets only runs     *)
(* that are over, the oldest first.                                            *)
RegistrySound == NothingLost /\ DoneFrees /\ RegistryBounded

(* CycleLock: only a run that died is recorded as dead; every one that died is *)
(* noticed; it is recorded again only after a crash.                           *)
LockSafe == Lock!OnlyTheDead /\ Lock!Noticed /\ Lock!AgainOnlyAfterCrash

(* RunHistory: a row points to a whole copy, what has no row is explained,     *)
(* retention keeps the newest and a deleted run stays deleted.                 *)
HistorySafe ==
  /\ [](History!PointsToWhole /\ History!OrphansExplained)
  /\ History!KeepsNewest /\ History!DeletedStays

(* RunnerService: no more containers than slots; an exit code is that of a     *)
(* stage that is over.                                                         *)
RunnerSafe == Runner!AtMostMaxRuns /\ Runner!EndedForGood

(* Under the fairness of each part: a queued run gets a worker and its cycle   *)
(* is freed; a run that waits for the lock gets it; retention brings every     *)
(* cycle down to what is kept; a container without a client is stopped, a kill *)
(* ends its stage, and every stage ends.                                       *)
Progress ==
  /\ part = "executions" /\ Fairness => EveryJobRuns
  /\ part = "executions" /\ Fairness => CycleFreed
  /\ part = "lock" /\ Lock!Fairness => Lock!WaitEnds
  /\ part = "history" /\ History!Fairness => History!Pruned
  /\ part = "runner" /\ Runner!Fairness => Runner!GoneIsStopped
  /\ part = "runner" /\ Runner!Fairness => Runner!KillEnds
  /\ part = "runner" /\ Runner!Fairness => Runner!StageEnds
=============================================================================
