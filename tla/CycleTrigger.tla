---------------------------- MODULE CycleTrigger ----------------------------
(* Whether a cycle runs at all: config/triggers.py decides from what changed   *)
(* under the cycle's globs, services/cycle_run.py remembers what it looked at  *)
(* after a run that passed. Files are edited, removed and committed, and       *)
(* several runs of the cycle are asked for, at any time.                       *)
(*                                                                             *)
(* A file's content is the number of the edit it comes from, which stands for  *)
(* its time and size as well; 0 is a file that is not there. A file is added   *)
(* to Git's index with its commit, and none is ignored by Git.                 *)
EXTENDS Integers

CONSTANTS Files,
          Globbed,    \* the files that Path.glob finds for trigger.paths
          Matched,    \* those that PurePosixPath.match accepts
          Runs,
          MaxEdits    \* bound

VARIABLES since,     \* the trigger has a since_ref
          work,      \* file -> content in the working tree
          head,      \* file -> content in HEAD
          base,      \* file -> content where HEAD left since_ref
          snapshot,  \* the catalog in .testo/trigger_state, or NoSnapshot
          lock,      \* the run that has the lock of the cycle
          at,        \* run -> new, list, skipped, wait, run, after, done
          mode,      \* run -> what it was asked for by: git, unlisted, snapshot, or none
          seen,      \* run -> matched files that git diff told it of
          began,     \* run -> what was there when it started
          passed,    \* runs that passed (history)
          moved,     \* run -> files that changed since it began to list, or to run (history)
          edits

vars == <<since, work, head, base, snapshot, lock, at, mode, seen, began, passed, moved, edits>>

Nobody == 0

\* _snapshot_catalog()
Catalog(files) == [f \in Globbed |-> files[f]]
NoSnapshot == [f \in Globbed |-> -1]

Init ==
  /\ since \in BOOLEAN
  /\ work = [f \in Files |-> 0] /\ head = work /\ base = work
  /\ snapshot = NoSnapshot /\ lock = Nobody
  /\ at = [r \in Runs |-> "new"] /\ mode = [r \in Runs |-> "none"]
  /\ seen = [r \in Runs |-> {}] /\ moved = [r \in Runs |-> {}]
  /\ began = [r \in Runs |-> Catalog(work)]
  /\ passed = {} /\ edits = 0

Goto(r, place) == at' = [at EXCEPT ![r] = place]
By(r, way) == mode' = [mode EXCEPT ![r] = way]

-----------------------------------------------------------------------------
\* The files change under the runs that are at one of these places.
Moves(files, places) ==
  moved' = [r \in Runs |-> IF at[r] \in places THEN moved[r] \cup files ELSE moved[r]]

Edit(f) ==
  /\ edits < MaxEdits /\ edits' = edits + 1
  /\ \E content \in {0, edits + 1} \ {work[f]} : work' = [work EXCEPT ![f] = content]
  /\ Moves({f}, {"list", "run", "after"})
  /\ UNCHANGED <<since, head, base, snapshot, lock, at, mode, seen, began, passed>>

Commit ==
  /\ head # work /\ head' = work
  /\ Moves({f \in Files : head[f] # work[f]}, {"list"})
  /\ UNCHANGED <<since, work, base, snapshot, lock, at, mode, seen, began, passed, edits>>

\* since_ref gets to where HEAD is.
Merge ==
  /\ since /\ base # head /\ base' = head
  /\ UNCHANGED <<since, work, head, snapshot, lock, at, mode, seen, began, passed, moved, edits>>

-----------------------------------------------------------------------------
(* evaluate_cycle_trigger(). Where Git is there and works, what differs counts *)
(* and nothing is remembered; else the catalog is compared with the last one.  *)
Untracked == {f \in Files : head[f] = 0 /\ work[f] # 0}

Diff == IF since THEN {f \in Files : head[f] # base[f]}
                 ELSE {f \in Files \ Untracked : work[f] # head[f]}

\* git diff --name-only
GitDiff(r) ==
  /\ at[r] = "new" /\ Goto(r, "list")
  /\ seen' = [seen EXCEPT ![r] = Diff \cap Matched]
  /\ moved' = [moved EXCEPT ![r] = {}]
  /\ UNCHANGED <<since, work, head, base, snapshot, lock, mode, began, passed, edits>>

\* Mistake: files that are not in Git yet do not count.
GitListNone(r) ==
  /\ at[r] = "list" /\ By(r, "git")
  /\ Goto(r, IF seen[r] # {} THEN "wait" ELSE "skipped")
  /\ seen' = [seen EXCEPT ![r] = {}]
  /\ UNCHANGED <<since, work, head, base, snapshot, lock, began, passed, moved, edits>>

\* git ls-files --others, a second command; where it fails it is taken to find none.
GitList(r) ==
  /\ at[r] = "list"
  /\ \E listed \in BOOLEAN :
       LET stimulus == seen[r] \cup (IF listed THEN Untracked \cap Matched ELSE {}) IN
       /\ By(r, IF listed THEN "git" ELSE "unlisted")
       /\ Goto(r, IF stimulus # {} THEN "wait" ELSE "skipped")
  /\ seen' = [seen EXCEPT ![r] = {}]
  /\ UNCHANGED <<since, work, head, base, snapshot, lock, began, passed, moved, edits>>

SnapshotStimulus == snapshot # Catalog(work)

\* The cycle is in no repository, git diff fails, or either command takes too long.
EvaluateSnapshot(r) ==
  /\ at[r] \in {"new", "list"} /\ By(r, "snapshot")
  /\ Goto(r, IF SnapshotStimulus THEN "wait" ELSE "skipped")
  /\ seen' = [seen EXCEPT ![r] = {}]
  /\ UNCHANGED <<since, work, head, base, snapshot, lock, began, passed, moved, edits>>

\* --force: the trigger is not asked, and nothing is remembered.
Force(r) ==
  /\ at[r] = "new" /\ Goto(r, "wait")
  /\ UNCHANGED <<since, work, head, base, snapshot, lock, mode, seen, began, passed, moved, edits>>

-----------------------------------------------------------------------------
(* The run, under the lock of the cycle; what was decided is not asked again.  *)
Start(r) ==
  /\ at[r] = "wait" /\ lock = Nobody
  /\ lock' = r /\ Goto(r, "run")
  /\ began' = [began EXCEPT ![r] = Catalog(work)]
  /\ moved' = [moved EXCEPT ![r] = {}]
  /\ UNCHANGED <<since, work, head, base, snapshot, mode, seen, passed, edits>>

\* What was asked for by snapshot goes on to remember one.
Onward(r) == IF mode[r] = "snapshot" THEN "after" ELSE "done"

\* Mistake: a run that failed is remembered as well.
EndAlways(r) ==
  /\ at[r] = "run" /\ lock' = Nobody /\ Goto(r, Onward(r))
  /\ passed' \in {passed, passed \cup {r}}
  /\ UNCHANGED <<since, work, head, base, snapshot, mode, seen, began, moved, edits>>

\* The lock is given back; a run that passed goes on to issues and quarantine.
End(r) ==
  /\ at[r] = "run" /\ lock' = Nobody
  /\ \/ Goto(r, Onward(r)) /\ passed' = passed \cup {r}
     \/ Goto(r, "done") /\ UNCHANGED passed
  /\ UNCHANGED <<since, work, head, base, snapshot, mode, seen, began, moved, edits>>

\* persist_trigger_snapshot(): of what is there now; a file cut short reads as none.
Remember(r) ==
  /\ at[r] = "after" /\ Goto(r, "done")
  /\ snapshot' \in {Catalog(work), NoSnapshot}
  /\ UNCHANGED <<since, work, head, base, lock, mode, seen, began, passed, moved, edits>>

Next ==
  \/ \E f \in Files : Edit(f)
  \/ Commit
  \/ Merge
  \/ \E r \in Runs :
       \/ GitDiff(r) \/ GitList(r) \/ EvaluateSnapshot(r) \/ Force(r)
       \/ Start(r) \/ End(r) \/ Remember(r)

Spec == Init /\ [][Next]_vars

-----------------------------------------------------------------------------
(* What a skipped run leaves untested. By snapshot: nothing but what changed   *)
(* under a run that passed; all else is as that run began with it, and a run   *)
(* that failed is asked for again (cycle_run.py lines 141-147, 240-252).       *)
LikeARunThatPassed ==
  \E q \in passed :
    mode[q] = "snapshot" /\ \A f \in Globbed : work[f] = began[q][f] \/ f \in moved[q]

(* By Git it is another promise, that of a diff (triggers.py lines 168-206):   *)
(* what is committed, or with a since_ref what is not, counts as no change,    *)
(* tested or not. A file that is new to Git, or that the diff names, keeps a   *)
(* run from being skipped unless it changed between the two commands, or the   *)
(* second one failed.                                                          *)
NoDifference(r) ==
  \A f \in Matched \ moved[r] :
    f \notin Diff /\ (f \in Untracked => mode'[r] = "unlisted")

SkipsTested ==
  \A r \in Runs :
    at[r] # "skipped" /\ at'[r] = "skipped" =>
      IF mode'[r] = "snapshot" THEN LikeARunThatPassed ELSE NoDifference(r)

SkippedWasTested == [][SkipsTested]_vars

(* That all of it was tested is what a user reads in "skip unless these paths  *)
(* changed" (README.md line 203), and not so: what changed under the run is    *)
(* remembered as though the run had begun with it.                             *)
SkipsUnchanged ==
  \A r \in Runs :
    at[r] # "skipped" /\ at'[r] = "skipped" /\ mode'[r] = "snapshot" =>
      \E q \in passed : Catalog(work) = began[q]

-----------------------------------------------------------------------------
(* Why it holds.                                                               *)
TypesInv ==
  /\ since \in BOOLEAN /\ edits \in Nat
  /\ work \in [Files -> Nat] /\ head \in [Files -> Nat] /\ base \in [Files -> Nat]
  /\ at \in [Runs -> {"new", "list", "skipped", "wait", "run", "after", "done"}]
  /\ mode \in [Runs -> {"none", "git", "unlisted", "snapshot"}]
  /\ began \in [Runs -> [Globbed -> Nat]] /\ passed \subseteq Runs
  /\ seen \in [Runs -> SUBSET Files] /\ moved \in [Runs -> SUBSET Files]

\* What a run that goes on began with is still there, or moved.
OnInv ==
  \A r \in Runs :
    /\ at[r] \in {"run", "after"} => \A f \in Globbed : work[f] = began[r][f] \/ f \in moved[r]
    /\ at[r] = "after" => r \in passed /\ mode[r] = "snapshot"

\* What is remembered is what a run that passed began with, or moved under it.
SnapshotInv ==
  snapshot = NoSnapshot \/
  \E q \in passed :
    /\ at[q] = "done" /\ mode[q] = "snapshot"
    /\ \A f \in Globbed : snapshot[f] = began[q][f] \/ f \in moved[q]

\* What git diff told is still so, but for what moved.
GitInv == \A r \in Runs : at[r] = "list" => Diff \cap Matched \subseteq seen[r] \cup moved[r]

TriggerInv == TypesInv /\ OnInv /\ SnapshotInv /\ GitInv
=============================================================================
