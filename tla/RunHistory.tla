----------------------------- MODULE RunHistory -----------------------------
(* The run history: what persistence/db_backend.py writes of a run that ends,  *)
(* what history/retention.py deletes, by the server's timer and by hand, what  *)
(* a start of the server repairs (history/maintenance.py), and the patches of  *)
(* a run's metadata (repository/adapters.py).                                  *)
(*                                                                             *)
(* A run is a row, its metadata, its test rows and a folder with a copy of its *)
(* results. Each is written by a transaction or a call of its own; one step is *)
(* one of those. Runs are numbered in the order they started.                  *)
EXTENDS Integers, FiniteSets

CONSTANTS Ids,        \* runs, numbered in the order they started
          Cycle,      \* run -> cycle
          Old,        \* runs an earlier release left RUNNING
          Keep,       \* history.retention.runs_per_cycle
          Failures,   \* copies, deletions of folders and inserts may fail
          MaxCrashes  \* bound on the times the server or a run dies

VARIABLES row,       \* run -> "none", "running" or "ended"
          metadata,  \* run -> keys of its metadata that matter here
          tests,     \* run -> whether it has test rows
          folder,    \* run -> "none", "half" or "whole": static/history/<run_id>
          at,        \* run -> how far persist() is with it
          patch,     \* who merges metadata -> [run, seen]: the run, and the keys it read
          remover,   \* who deletes -> [at, ids]: how far _remove() is, and the runs left
          server,    \* "down", "orphans" (has listed the RUNNING runs) or "up"
          orphans,   \* the RUNNING runs a start of the server has listed
          reviewed,  \* those that had a review in their metadata then
          deleted,   \* runs whose row was deleted
          picked,    \* runs a person has picked for deletion
          hurried,   \* runs that were chosen for deletion before they were fully recorded
          crashed,   \* runs whose process died while it recorded them
          leftover,  \* runs whose deletion was cut short: a folder that would not go, a crash
          crashes

rowVars == <<row, metadata, tests, folder>>
removeVars == <<remover, deleted, picked, hurried, leftover>>
serverVars == <<server, orphans, reviewed>>
vars == <<rowVars, removeVars, serverVars, at, patch, crashed, crashes>>

Reviewer == 0                      \* services/project_review.py
Removers == {"timer", "person"}
NoPatch == [run |-> 0, seen |-> {}]
Resting == [at |-> "rest", ids |-> {}]

Init ==
  /\ row = [i \in Ids |-> IF i \in Old THEN "running" ELSE "none"]
  /\ metadata = [i \in Ids |-> {}] /\ tests = [i \in Ids |-> FALSE]
  /\ folder = [i \in Ids |-> "none"]
  /\ at = [i \in Ids |-> IF i \in Old THEN "done" ELSE "new"]
  /\ patch = [a \in Ids \cup {Reviewer} |-> NoPatch]
  /\ remover = [a \in Removers |-> Resting]
  /\ server = "down" /\ orphans = {} /\ reviewed = {}
  /\ deleted = {} /\ picked = {} /\ hurried = {} /\ crashed = {} /\ leftover = {} /\ crashes = 0

Goto(i, place) == at' = [at EXCEPT ![i] = place]

-----------------------------------------------------------------------------
(* persist(): the row, the copy of the artifacts, the pointer to the copy, the *)
(* test rows. Each of the last three may fail without the others.              *)
CreateRow(i) ==
  /\ at[i] = "new"
  /\ \/ row' = [row EXCEPT ![i] = "ended"] /\ Goto(i, "copy")
     \/ Failures /\ Goto(i, "done") /\ UNCHANGED row
  /\ UNCHANGED <<metadata, tests, folder, removeVars, serverVars, patch, crashed, crashes>>

CopyStarts(i) ==
  /\ at[i] = "copy" /\ Goto(i, "copying")
  /\ folder' = [folder EXCEPT ![i] = "half"]
  /\ UNCHANGED <<row, metadata, tests, removeVars, serverVars, patch, crashed, crashes>>

\* A folder that was deleted under the copy makes it fail: the half copy is dropped.
CopyEnds(i) ==
  /\ at[i] = "copying"
  /\ \/ folder[i] = "half" /\ folder' = [folder EXCEPT ![i] = "whole"] /\ Goto(i, "point")
     \/ (Failures \/ folder[i] = "none")
        /\ folder' = [folder EXCEPT ![i] = "none"] /\ Goto(i, "note")
  /\ UNCHANGED <<row, metadata, tests, removeVars, serverVars, patch, crashed, crashes>>

(* merge_run_metadata(): the row is read, patched and written back whole. A    *)
(* row that is not there is left alone.                                        *)
MergeRead(a, i) ==
  /\ row[i] # "none"
  /\ patch' = [patch EXCEPT ![a] = [run |-> i, seen |-> metadata[i]]]

\* Mistake: a row that has gone is written again (as update_run_status() does).
MergeWriteUpsert(a, key) ==
  LET i == patch[a].run IN
  /\ row' = [row EXCEPT ![i] = IF @ = "none" THEN "ended" ELSE @]
  /\ metadata' = [metadata EXCEPT ![i] = patch[a].seen \cup {key}]
  /\ patch' = [patch EXCEPT ![a] = NoPatch]

MergeWrite(a, key) ==
  LET i == patch[a].run IN
  /\ metadata' = IF row[i] = "none" THEN metadata
                 ELSE [metadata EXCEPT ![i] = patch[a].seen \cup {key}]
  /\ patch' = [patch EXCEPT ![a] = NoPatch]
  /\ UNCHANGED row

PointRead(i) ==
  /\ at[i] \in {"point", "note"} /\ patch[i] = NoPatch
  /\ \/ MergeRead(i, i) /\ UNCHANGED at
     \/ (row[i] = "none" \/ Failures) /\ Goto(i, "tests") /\ UNCHANGED patch
  /\ UNCHANGED <<rowVars, removeVars, serverVars, crashed, crashes>>

PointWrite(i) ==
  /\ at[i] \in {"point", "note"} /\ patch[i] # NoPatch /\ Goto(i, "tests")
  /\ MergeWrite(i, IF at[i] = "point" THEN "snapshot_dir" ELSE "snapshot_error")
  /\ UNCHANGED <<tests, folder, removeVars, serverVars, crashed, crashes>>

\* replace(); nothing asks whether the run's row is still there.
WriteTests(i) ==
  /\ at[i] = "tests" /\ Goto(i, "done")
  /\ \/ tests' = [tests EXCEPT ![i] = TRUE]
     \/ Failures /\ UNCHANGED tests
  /\ UNCHANGED <<row, metadata, folder, removeVars, serverVars, patch, crashed, crashes>>

Dies(i) ==
  /\ crashes < MaxCrashes /\ crashes' = crashes + 1
  /\ at[i] \notin {"new", "done"} /\ Goto(i, "done")
  /\ crashed' = crashed \cup {i}
  /\ patch' = [patch EXCEPT ![i] = NoPatch]
  /\ UNCHANGED <<rowVars, removeVars, serverVars>>

\* The review of the project is kept in the metadata of its newest run.
ReviewRead ==
  /\ patch[Reviewer] = NoPatch
  /\ \E i \in Ids :
       /\ \A j \in Ids : j > i => row[j] = "none"
       /\ "review" \notin metadata[i]
       /\ MergeRead(Reviewer, i)
  /\ UNCHANGED <<rowVars, removeVars, serverVars, at, crashed, crashes>>

ReviewWrite ==
  /\ patch[Reviewer] # NoPatch
  /\ MergeWrite(Reviewer, "review")
  /\ UNCHANGED <<tests, folder, removeVars, serverVars, at, crashed, crashes>>

-----------------------------------------------------------------------------
(* Retention. expired_run_ids() walks the runs newest first and counts those   *)
(* that are not RUNNING, cycle by cycle.                                       *)
Ended == {i \in Ids : row[i] = "ended"}
Newer(i) == {j \in Ended : j > i /\ Cycle[j] = Cycle[i]}

\* Mistake: the run itself is not counted, so one too few is kept.
ExpiredOneMore == {i \in Ended : Cardinality(Newer(i)) >= Keep - 1}

\* Mistake: a cycle is left with one run more.
ExpiredOneLess == {i \in Ended : Cardinality(Newer(i)) > Keep}

Expired == {i \in Ended : Cardinality(Newer(i)) >= Keep}

Choose(a, ids) ==
  /\ remover[a] = Resting /\ remover' = [remover EXCEPT ![a] = [at |-> "tests", ids |-> ids]]
  /\ hurried' = hurried \cup {i \in ids : at[i] # "done"}

Remover(a, place, ids) == remover' = [remover EXCEPT ![a] = [at |-> place, ids |-> ids]]

ListExpired ==
  /\ server = "up" /\ Expired # {} /\ Choose("timer", Expired)
  /\ UNCHANGED <<rowVars, serverVars, deleted, picked, leftover, at, patch, crashed, crashes>>

\* delete_runs(): the runs a person picks, except those that are RUNNING or gone.
PickRun(i) ==
  /\ i \in Ended /\ Choose("person", {i})
  /\ picked' = picked \cup {i}
  /\ UNCHANGED <<rowVars, serverVars, deleted, leftover, at, patch, crashed, crashes>>

\* Mistake: the test rows are forgotten.
RemoveTestsNot(a) ==
  /\ remover[a].at = "tests" /\ Remover(a, "rows", remover[a].ids)
  /\ UNCHANGED <<rowVars, deleted, picked, hurried, leftover, serverVars, at, patch, crashed,
                 crashes>>

\* _remove(): the test rows, the rows, then the folders one by one.
RemoveTests(a) ==
  /\ remover[a].at = "tests" /\ Remover(a, "rows", remover[a].ids)
  /\ tests' = [i \in Ids |-> tests[i] /\ i \notin remover[a].ids]
  /\ UNCHANGED <<row, metadata, folder, deleted, picked, hurried, leftover, serverVars, at,
                 patch, crashed, crashes>>

\* Mistake: the folders go first.
RemoveRowsLast(a) ==
  /\ remover[a].at = "rows" /\ Remover(a, "folders", remover[a].ids)
  /\ folder' = [i \in Ids |-> IF i \in remover[a].ids THEN "none" ELSE folder[i]]
  /\ UNCHANGED <<row, metadata, tests, deleted, picked, hurried, leftover, serverVars, at,
                 patch, crashed, crashes>>

RemoveRows(a) ==
  /\ remover[a].at = "rows" /\ Remover(a, "folders", remover[a].ids)
  /\ row' = [i \in Ids |-> IF i \in remover[a].ids THEN "none" ELSE row[i]]
  /\ metadata' = [i \in Ids |-> IF i \in remover[a].ids THEN {} ELSE metadata[i]]
  /\ deleted' = deleted \cup remover[a].ids
  /\ UNCHANGED <<tests, folder, picked, hurried, leftover, serverVars, at, patch, crashed, crashes>>

RemoveFolder(a) ==
  /\ remover[a].at = "folders"
  /\ \E i \in remover[a].ids :
       /\ \/ folder' = [folder EXCEPT ![i] = "none"] /\ UNCHANGED leftover
          \/ Failures /\ leftover' = leftover \cup {i} /\ UNCHANGED folder
       /\ remover' = [remover EXCEPT ![a] =
            IF @.ids = {i} THEN Resting ELSE [at |-> "folders", ids |-> @.ids \ {i}]]
  /\ UNCHANGED <<row, metadata, tests, deleted, picked, hurried, serverVars, at, patch,
                 crashed, crashes>>

-----------------------------------------------------------------------------
(* The server starts: what is still RUNNING is listed, changed and written     *)
(* back; then the retention timer goes.                                        *)
ListOrphans ==
  /\ server = "down" /\ server' = "orphans"
  /\ orphans' = {i \in Ids : row[i] = "running"}
  /\ reviewed' = {i \in Ids : row[i] = "running" /\ "review" \in metadata[i]}
  /\ UNCHANGED <<rowVars, removeVars, at, patch, crashed, crashes>>

\* bulk_update() merges: a row that has gone would be inserted again, and a review that
\* came since the runs were listed is written over. (The keys "error" and "orphaned_at",
\* which every listed run gets, say no more than its status.)
FailOrphans ==
  /\ server = "orphans" /\ server' = "up"
  /\ row' = [i \in Ids |-> IF i \in orphans THEN "ended" ELSE row[i]]
  /\ metadata' = [i \in Ids |-> IF i \in orphans \ reviewed THEN metadata[i] \ {"review"}
                                ELSE metadata[i]]
  /\ orphans' = {} /\ reviewed' = {}
  /\ UNCHANGED <<tests, folder, removeVars, at, patch, crashed, crashes>>

ServerDies ==
  /\ crashes < MaxCrashes /\ crashes' = crashes + 1
  /\ server # "down" /\ server' = "down" /\ orphans' = {} /\ reviewed' = {}
  /\ remover' = [remover EXCEPT !["timer"] = Resting]
  /\ leftover' = leftover \cup remover["timer"].ids
  /\ UNCHANGED <<rowVars, deleted, picked, hurried, at, patch, crashed>>

Persist(i) ==
  \/ CreateRow(i) \/ CopyStarts(i) \/ CopyEnds(i) \/ PointRead(i) \/ PointWrite(i)
  \/ WriteTests(i)

Remove(a) == RemoveTests(a) \/ RemoveRows(a) \/ RemoveFolder(a)

Next ==
  \/ \E i \in Ids : Persist(i) \/ Dies(i) \/ PickRun(i)
  \/ ReviewRead \/ ReviewWrite
  \/ ListExpired \/ \E a \in Removers : Remove(a)
  \/ ListOrphans \/ FailOrphans \/ ServerDies

Spec == Init /\ [][Next]_vars

\* A run that records itself goes on, and so does a server that is started again after a crash.
Fairness ==
  /\ \A i \in Ids : WF_vars(Persist(i))
  /\ WF_vars(ListOrphans) /\ WF_vars(FailOrphans) /\ WF_vars(ListExpired)
  /\ \A a \in Removers : WF_vars(Remove(a))

FairSpec == Spec /\ Fairness

-----------------------------------------------------------------------------
TypeOK ==
  /\ row \in [Ids -> {"none", "running", "ended"}]
  /\ metadata \in [Ids -> SUBSET {"snapshot_dir", "snapshot_error", "review"}]
  /\ tests \in [Ids -> BOOLEAN] /\ folder \in [Ids -> {"none", "half", "whole"}]
  /\ at \in [Ids -> {"new", "copy", "copying", "point", "note", "tests", "done"}]
  /\ \A a \in Ids \cup {Reviewer} :
       /\ patch[a].run \in Ids \cup {0}
       /\ patch[a].seen \subseteq {"snapshot_dir", "snapshot_error", "review"}
  /\ \A a \in Removers :
       /\ remover[a].at \in {"rest", "tests", "rows", "folders"}
       /\ remover[a].ids \subseteq Ids
       /\ remover[a].at = "rest" <=> remover[a].ids = {}
  /\ server \in {"down", "orphans", "up"} /\ reviewed \subseteq orphans /\ orphans \subseteq Ids
  /\ deleted \cup picked \cup hurried \cup crashed \cup leftover \subseteq Ids
  /\ \A i \in Ids : row[i] = "none" => metadata[i] = {}

(* A run never outlives its files: a row that names a copy of its results has  *)
(* a whole one (retention.py lines 100-102).                                   *)
PointsToWhole ==
  \A i \in Ids : "snapshot_dir" \in metadata[i] => folder[i] = "whole"

(* Test rows and folders without a run are on their way out or in, or are left *)
(* by something that was cut short: a process died, a folder would not go, or  *)
(* the run was deleted before it was fully recorded.                           *)
Going(i) == \E a \in Removers : i \in remover[a].ids

OrphansExplained ==
  \A i \in Ids : row[i] = "none" /\ (tests[i] \/ folder[i] # "none") =>
    at[i] # "done" \/ Going(i) \/ i \in crashed \cup leftover \cup hurried

(* Retention keeps the newest runs of every cycle: of each run its timer       *)
(* deletes, as many newer ones as are to be kept are there, or were until a    *)
(* person deleted them (retention.py lines 67-85).                             *)
KeepsNewest ==
  [][\A i \in Ids :
       remover["timer"].at = "rows" /\ remover'["timer"].at = "folders"
         /\ i \in remover["timer"].ids =>
       Cardinality(Newer(i) \cup {j \in picked : j > i /\ Cycle[j] = Cycle[i]}) >= Keep]_vars

(* A deleted run does not come back: no late write of its metadata, no repair  *)
(* at a start of the server inserts its row again (adapters.py lines 112-121,  *)
(* 218-226).                                                                   *)
DeletedStays == [][\A i \in deleted : row'[i] = "none"]_vars

(* Once runs stop coming, the timer brings every cycle down to what is kept,   *)
(* whatever crashed before and however many were left RUNNING.                 *)
Pruned == <>[](\A i \in Ended : Cardinality(Newer(i)) < Keep)
=============================================================================
