----------------------------- MODULE RunCompare -----------------------------
(* What a run is compared with. Two readers of one cycle's history answer      *)
(* "what broke": the run page (new failures, and since when a test fails) and  *)
(* the summary that is posted to a pull request and to chat. Each picks a      *)
(* baseline by rules of its own.                                               *)
EXTENDS Integers, Sequences, FiniteSets, FiniteSetsExt, SequencesExt

CONSTANTS
  Keys,          \* of tests, as the way of recording made them
  Identity,      \* what a key is a name of: keys of one test have one
  Shapes,        \* runs there may be: [branch, base, environment, cases, red]
  Window,        \* runs of one branch the page looks at, the newest included
  MaxRuns        \* bounds the history

None == "none"   \* no branch, target or environment recorded

VARIABLE recorded   \* the runs of the cycle, oldest first

vars == <<recorded>>

Cases == [Keys -> {"absent", "passed", "failed", "skipped"}]

TypeOK ==
  /\ recorded \in BoundedSeq(Shapes, MaxRuns)
  /\ \A i \in DOMAIN recorded : recorded[i].cases \in Cases

Init == recorded = <<>>

\* A run and its tests; its snapshot may be gone, then no test is known.
Record(shape) ==
  Len(recorded) < MaxRuns /\ recorded' = Append(recorded, shape)

Next == \E shape \in Shapes : Record(shape)

Spec == Init /\ [][Next]_vars
-----------------------------------------------------------------------------
Run == Last(recorded)
Earlier == Reverse(Front(recorded))   \* newest first

Known(run) == {k \in Keys : run.cases[k] # "absent"}
Fails(run, k) == run.cases[k] = "failed"

\* The first of a sequence of runs as a set of at most one.
FirstOf(runs) == {runs[i] : i \in {1} \cap DOMAIN runs}

On(runs, branches) == SelectSeq(runs, LAMBDA r : r.branch \in branches)
Under(runs, environments) == SelectSeq(runs, LAMBDA r : r.environment \in environments)

ForTarget == Run.base # None /\ Run.base # Run.branch
OnTarget == On(Earlier, {Run.base})
-----------------------------------------------------------------------------
(* The run page.                                                               *)

\* Runs that recorded no branch or environment cannot be told apart: they stay in.
Lineage ==
  LET own == IF Run.branch = None THEN Earlier ELSE On(Earlier, {Run.branch, None})
  IN IF Run.environment = None THEN own ELSE Under(own, {Run.environment, None})

PageBaseline ==
  LET like == Under(OnTarget, {Run.environment})
  IN IF ~ForTarget \/ OnTarget = <<>> THEN FirstOf(Lineage)
     ELSE IF like # <<>> THEN FirstOf(like) ELSE FirstOf(OnTarget)

\* The runs a streak may go back to.
Looked ==
  SelectSeq(SubSeq(Lineage, 1, Min({Window - 1, Len(Lineage)})), LAMBDA r : Known(r) # {})

FailingRuns(k) ==
  1 + Max({n \in 0 .. Len(Looked) : \A i \in 1 .. n : Fails(Looked[i], k)})

New(k) ==
  IF \E b \in PageBaseline : Known(b) # {}
  THEN \A b \in PageBaseline : ~Fails(b, k)
  ELSE FailingRuns(k) = 1
-----------------------------------------------------------------------------
(* The summary, without a target of its own.                                   *)
SummaryBaseline ==
  IF ForTarget /\ OnTarget # <<>> THEN FirstOf(OnTarget)
  ELSE FirstOf(IF Run.branch = None THEN Earlier ELSE On(Earlier, {Run.branch}))

\* A key of one side alone is paired with one of the other that names the same
\* test, if there is just one of each.
Paired(base, run, k) ==
  LET Only(a, b) == {j \in Known(a) \ Known(b) : Identity[j] = Identity[k]}
  IN IF k \in Known(run) \ Known(base) /\ Cardinality(Only(run, base)) = 1
          /\ Cardinality(Only(base, run)) = 1
     THEN CHOOSE j \in Only(base, run) : TRUE ELSE k

Kind(before, now) ==
  CASE before = now                          -> "same"
    [] before = "absent"                     -> "added"
    [] now = "absent"                        -> "removed"
    [] before = "passed" /\ now = "failed"   -> "regression"
    [] before = "failed" /\ now = "passed"   -> "fix"
    [] OTHER                                 -> "status_change"

\* What became of the keys, for a key of the run or one that is not paired.
Changes ==
  IF Known(Run) = {} THEN {}
  ELSE UNION {IF Known(b) = {} THEN {}
              ELSE LET pairs == [k \in Known(Run) |-> Paired(b, Run, k)]
                       gone == Known(b) \ (Known(Run) \cup {pairs[k] : k \in Known(Run)})
                   IN {<<k, Kind(b.cases[pairs[k]], Run.cases[k])>> : k \in Known(Run)}
                      \cup {<<k, "removed">> : k \in gone}
              : b \in SummaryBaseline}

\* An alert to a chat "on change", without newly flaky tests.
Sent ==
  \/ IF SummaryBaseline = {} THEN Run.red ELSE \E b \in SummaryBaseline : b.red # Run.red
  \/ \E c \in Changes : c[2] \in {"regression", "fix"}
-----------------------------------------------------------------------------
(* "A parallel PR's run never becomes the baseline", and a push is never       *)
(* compared with a feature branch: a run that has a branch is compared with    *)
(* one of that branch or of its target, on the page also with one that has no  *)
(* branch.                                                                     *)
ForeignNeverCompared ==
  recorded # <<>> /\ Run.branch # None =>
    /\ \A b \in SummaryBaseline : b.branch \in {Run.branch, Run.base} \ {None}
    /\ \A b \in PageBaseline : b.branch \in {Run.branch, Run.base, None}

(* The page and the summary name the same failures as news ("as in the PR      *)
(* comment", run_failures.py) when every run recorded its branch, all ran in   *)
(* one environment, the baseline's tests are known and no test came under      *)
(* another key.                                                                *)
PageAgrees ==
  recorded # <<>> /\ (\A i \in DOMAIN recorded :
                        /\ recorded[i].branch # None
                        /\ recorded[i].environment = Run.environment) =>
    /\ PageBaseline = SummaryBaseline
    /\ \A b \in SummaryBaseline : \A k \in Known(Run) :
         Known(b) # {} /\ Paired(b, Run, k) = k /\ Fails(Run, k) =>
           (New(k) <=> \E c \in Changes : c[1] = k /\ c[2] \in {"regression", "added", "status_change"})

(* No alert "on change" means that nothing turned from passed to failed or     *)
(* back since the baseline, under whatever key, while the run is as red or     *)
(* green as it was.                                                            *)
SilentMeansSame ==
  recorded # <<>> /\ ~Sent =>
    \A b \in SummaryBaseline :
      /\ b.red = Run.red
      /\ \A j \in Known(b), k \in Known(Run) :
           /\ Identity[j] = Identity[k] /\ Known(b) = {j} /\ Known(Run) = {k}
           => {b.cases[j], Run.cases[k]} # {"passed", "failed"}
=============================================================================
