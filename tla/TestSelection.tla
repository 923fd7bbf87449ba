---------------------------- MODULE TestSelection ----------------------------
(* Which tests a pytest job of CI runs, and in which order: the affected ones  *)
(* (services/affected_tests.py), of those the ones of its shard                *)
(* (services/test_split.py), failures first (services/failed_first.py), as     *)
(* pytest_plugin.py puts the three together. A job's controller reads the test *)
(* times and the ranks once each, at its own time, and hands them to its       *)
(* workers; every worker works out the affected tests by itself. A test is a   *)
(* number, ordered as the names are, and a time is a small number of ms.       *)
EXTENDS Integers, FiniteSets, SequencesExt

CONSTANTS
  Count,        \* of shards: job i runs with --qasight-shard i/Count
  Workers,      \* per job, its processes that collect; each job has a worker 1
  Collection,   \* per job, the tests in the order pytest collected them
  Files,        \* of the repository
  RunAllWhen, Ignored, TestFiles,    \* the files that match these patterns
  TestsOf,      \* per test file that was not deleted, the tests in it
  Rules,        \* per file with a rule, the tests it names
  Missing,      \* the files whose rule names tests that do not exist
  Coverage,     \* per file of the coverage report, the tests that ran a line of it
  Seen,         \* what the history may know of a test: [ms, rank], ms 0: never timed
  Histories,    \* that the jobs may find: functions from tests to Seen
  Diffs,        \* the sets of changed files the jobs may find
  MaxChanges    \* bound: runs recorded and files changed while the jobs start

VARIABLES
  history,      \* per test, what its cycle's last runs say of it
  changed,      \* files changed since the merge base
  at,           \* per job, where its controller is
  times, ranks, \* per job, what its controller read
  picked,       \* per worker, its selection
  ran,          \* per worker, what it runs, in that order
  changes

vars == <<history, changed, at, times, ranks, picked, ran, changes>>

Jobs == 1 .. Count
Processes == UNION {{j} \X Workers[j] : j \in Jobs}
Tests == ToSet(Collection[1])
Rest == 3
All == {{}}     \* the selection that keeps everything
None == <<>>

Init ==
  /\ history \in Histories /\ changed \in Diffs
  /\ at = [j \in Jobs |-> "start"]
  /\ times = [j \in Jobs |-> None] /\ ranks = [j \in Jobs |-> None]
  /\ picked = [p \in Processes |-> None] /\ ran = [p \in Processes |-> None]
  /\ changes = 0

-----------------------------------------------------------------------------
(* The affected tests. An entry is a set of tests: those of a file, or one.    *)
Ids(S) == {{t} : t \in S}

\* What one changed file adds to the selection: entries, or All when unsure.
Decide(f) ==
  CASE f \in RunAllWhen -> All
    [] f \in Ignored -> {}
    [] f \in TestFiles \cap DOMAIN TestsOf -> {TestsOf[f]}
    [] f \in TestFiles -> {}     \* deleted: "nothing to run"
    [] f \in Missing -> All
    [] f \in DOMAIN Rules -> Ids(Rules[f])
    [] f \in DOMAIN Coverage /\ Coverage[f] # {} -> Ids(Coverage[f])
    [] OTHER -> All

\* _merge_ids_into_files: a file's entry stands for the ones of its tests.
Merged(entries) ==
  {e \in entries : \A file \in entries \cap {TestsOf[f] : f \in DOMAIN TestsOf} :
                     e = file \/ ~(e \subseteq file)}

Selection(files) ==
  IF files = {} \/ \E f \in files : Decide(f) = All THEN All
  ELSE Merged(UNION {Decide(f) : f \in files})

\* Mistake: an entry that matches nothing is left out.
KeepFound(selection, items) ==
  IF selection = All THEN items
  ELSE SelectSeq(items, LAMBDA t : t \in UNION selection)

\* A picked test that was not collected may have been renamed: everything runs.
KeepAffected(selection, items) ==
  IF selection = All \/ \E e \in selection : e \cap ToSet(items) = {} THEN items
  ELSE SelectSeq(items, LAMBDA t : t \in UNION selection)

-----------------------------------------------------------------------------
(* The shards: the longest test first, each to the shard that has least.       *)
Known(items, ms) == {t \in ToSet(items) : ms[t] # 0}

\* Twice the median of the known times, 2 when there are none.
Fallback(items, ms) ==
  LET s == SetToSortSeq(Known(items, ms), LAMBDA a, b : ms[a] < ms[b] \/ (ms[a] = ms[b] /\ a < b))
      n == Len(s)
  IN IF n = 0 THEN 2 ELSE ms[s[(n + 1) \div 2]] + ms[s[n \div 2 + 1]]

Weight(items, ms) == [t \in ToSet(items) |-> IF ms[t] # 0 THEN 2 * ms[t] ELSE Fallback(items, ms)]

\* Mistake: in the order of collection.
InOrderOf(items, w) == items

\* Ties go by name.
LongestFirst(items, w) ==
  SetToSortSeq(ToSet(items), LAMBDA a, b : w[a] > w[b] \/ (w[a] = w[b] /\ a < b))

Lightest(load) == CHOOSE s \in Jobs : \A o \in Jobs : load[s] < load[o] \/ (load[s] = load[o] /\ s <= o)

\* plan_split: the shard of each test.
PlanSplit(items, ms) ==
  LET w == Weight(items, ms)
      Place(plan, t) ==
        LET s == Lightest(plan.load) IN
        [load |-> [plan.load EXCEPT ![s] = @ + w[t]], of |-> [plan.of EXCEPT ![t] = s]]
  IN FoldLeft(Place, [load |-> [s \in Jobs |-> 0], of |-> [t \in ToSet(items) |-> 1]],
              LongestFirst(items, w)).of

KeepShard(j, items, ms) ==
  LET of == PlanSplit(items, ms) IN SelectSeq(items, LAMBDA t : of[t] = j)

-----------------------------------------------------------------------------
(* Failures first: by rank, and within a rank as collected.                    *)
Ranked(items, rank) ==
  LET Of(r) == SelectSeq(items, LAMBDA t : rank[t] = r) IN Of(0) \o Of(1) \o Of(2) \o Of(Rest)

-----------------------------------------------------------------------------
(* The controller of job j, in pytest_configure.                               *)
ReadTimes(j) ==
  /\ at[j] = "start" /\ at' = [at EXCEPT ![j] = "timed"]
  /\ times' = [times EXCEPT ![j] = [t \in Tests |-> history[t].ms]]
  /\ UNCHANGED <<history, changed, ranks, picked, ran, changes>>

\* "A shard must not guess: another shard may know": a usage error.
NoTimes(j) ==
  /\ at[j] = "start" /\ at' = [at EXCEPT ![j] = "error"]
  /\ UNCHANGED <<history, changed, times, ranks, picked, ran, changes>>

\* The history is read again for the ranks; without it the order stays.
ReadRanks(j) ==
  /\ at[j] = "timed" /\ at' = [at EXCEPT ![j] = "ready"]
  /\ \E known \in BOOLEAN :
       ranks' = [ranks EXCEPT ![j] = [t \in Tests |-> IF known THEN history[t].rank ELSE Rest]]
  /\ UNCHANGED <<history, changed, times, picked, ran, changes>>

\* A worker compares the files with the base, as they are now. A diff that fails keeps all.
PickAffected(j, w) ==
  /\ at[j] = "ready" /\ picked[<<j, w>>] = None
  /\ \/ picked' = [picked EXCEPT ![<<j, w>>] = [files |-> changed, keep |-> Selection(changed)]]
     \/ picked' = [picked EXCEPT ![<<j, w>>] = [files |-> {}, keep |-> All]]
  /\ UNCHANGED <<history, changed, at, times, ranks, ran, changes>>

\* Mistake: a worker reads the times again.
KeptAnew(j, selection) ==
  KeepShard(j, KeepAffected(selection, Collection[j]), [t \in Tests |-> history[t].ms])

\* Mistake: the shard is cut before the affected tests are kept.
ShardFirst(j, selection) == KeepAffected(selection, KeepShard(j, Collection[j], times[j]))

Kept(j, selection) == KeepShard(j, KeepAffected(selection, Collection[j]), times[j])

Collect(j, w) ==
  /\ picked[<<j, w>>] # None /\ ran[<<j, w>>] = None
  /\ ran' = [ran EXCEPT ![<<j, w>>] = [tests |-> Ranked(Kept(j, picked[<<j, w>>].keep), ranks[j])]]
  /\ UNCHANGED <<history, changed, at, times, ranks, picked, changes>>

\* Meanwhile a run of the cycle is recorded, or a file changes.
Record(t, seen) ==
  /\ changes < MaxChanges /\ history[t] # seen
  /\ history' = [history EXCEPT ![t] = seen] /\ changes' = changes + 1
  /\ UNCHANGED <<changed, at, times, ranks, picked, ran>>

Edit(f) ==
  /\ changes < MaxChanges /\ f \notin changed
  /\ changed' = changed \cup {f} /\ changes' = changes + 1
  /\ UNCHANGED <<history, at, times, ranks, picked, ran>>

Next ==
  \/ \E j \in Jobs : \/ ReadTimes(j) \/ NoTimes(j) \/ ReadRanks(j)
                     \/ \E w \in Workers[j] : PickAffected(j, w) \/ Collect(j, w)
  \/ \E t \in Tests, seen \in Seen : Record(t, seen)
  \/ \E f \in Files : Edit(f)

Spec == Init /\ [][Next]_vars

-----------------------------------------------------------------------------
TypeOK ==
  /\ history \in [Tests -> Seen] /\ changed \subseteq Files
  /\ \A j \in Jobs : /\ at[j] \in {"start", "timed", "ready", "error"}
                     /\ at[j] = "ready" => ranks[j] \in [Tests -> 0 .. Rest]
  /\ \A p \in DOMAIN ran : ran[p] # None => picked[p] # None /\ ToSet(ran[p].tests) \subseteq Tests
  /\ changes \in 0 .. MaxChanges

Done(p) == ran[p] # None
Runs(p) == ToSet(ran[p].tests)

AllDone == \A j \in Jobs : Done(<<j, 1>>)
SameTimes == \A j, k \in Jobs : times[j] = times[k]

(* Jobs that read the same times and picked the same tests never run a test    *)
(* both; all of them together run every picked one, whatever the order in      *)
(* which each collected.                                                       *)
EachOnce ==
  (AllDone /\ SameTimes /\ \A j, k \in Jobs : picked[<<j, 1>>].keep = picked[<<k, 1>>].keep) =>
    LET kept == ToSet(KeepAffected(picked[<<1, 1>>].keep, Collection[1])) IN
    /\ UNION {Runs(<<j, 1>>) : j \in Jobs} = kept
    /\ \A j, k \in Jobs : j # k => Runs(<<j, 1>>) \cap Runs(<<k, 1>>) = {}

(* Of every changed file that is neither ignored nor a deleted test file the   *)
(* tests run in some job -- its own, those of its rule, or those that ran its  *)
(* code -- or everything runs.                                                 *)
ChangesTested ==
  (AllDone /\ SameTimes /\ \A j, k \in Jobs : picked[<<j, 1>>] = picked[<<k, 1>>]) =>
    LET runs == UNION {Runs(<<j, 1>>) : j \in Jobs} IN
    \/ runs = Tests
    \/ \A f \in picked[<<1, 1>>].files \ (Ignored \cup (TestFiles \ DOMAIN TestsOf)) :
         \/ f \in TestFiles /\ TestsOf[f] \subseteq runs
         \/ f \in DOMAIN Rules /\ Rules[f] \subseteq runs
         \/ f \in DOMAIN Coverage /\ Coverage[f] \subseteq runs

(* The longest shard of a plan takes at most 4/3 of the best there is.         *)
Balanced ==
  \A j \in Jobs :
    Done(<<j, 1>>) =>
      LET items == KeepAffected(picked[<<j, 1>>].keep, Collection[j])
          ms == times[j]
          Load(of, s) == MapThenSumSet(LAMBDA t : Weight(items, ms)[t], {t \in ToSet(items) : of[t] = s})
          AtMost(of, n) == \A s \in Jobs : 3 * Load(of, s) <= n
      IN \A best \in [ToSet(items) -> Jobs] :
           \E s \in Jobs : AtMost(PlanSplit(items, ms), 4 * Load(best, s))

(* The workers of a job run the same tests in the same order, unless a file    *)
(* changed between their comparisons: pytest-xdist refuses to start otherwise. *)
WorkersAgree ==
  \A j \in Jobs : \A v, w \in Workers[j] :
    Done(<<j, v>>) /\ Done(<<j, w>>) /\ picked[<<j, v>>] = picked[<<j, w>>] => ran[<<j, v>>] = ran[<<j, w>>]

(* A test that failed last time runs before one that never failed.             *)
FailuresFirst ==
  \A p \in DOMAIN ran : Done(p) =>
    LET s == ran[p].tests IN
    \A m, n \in DOMAIN s : m < n => ranks[p[1]][s[m]] <= ranks[p[1]][s[n]]
=============================================================================
