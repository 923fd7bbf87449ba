---------------------------- MODULE FlakyPolicy ----------------------------
(* When a test counts as flaky and when as broken: services/flaky_service.py   *)
(* over the outcomes of one test in the last runs of a cycle, oldest first.    *)
(* An outcome has the branch, the environment and the commit of its run; the   *)
(* commit 0 is one that was not recorded.                                      *)
EXTENDS Integers, Sequences, FiniteSets, SequencesExt

CONSTANTS Branches, Environments, Commits,
          Window,        \* DEFAULT_WINDOW
          BrokenStreak,  \* BROKEN_STREAK
          MinFlips,      \* MIN_FLIPS
          MaxRecorded    \* bound: runs recorded

VARIABLE recorded        \* the test's outcomes

Statuses == {"pass", "fail", "skip"}

Observation ==
  [status : Statuses, branch : Branches, env : Environments, commit : Commits \cup {0},
   retried : BOOLEAN]

\* Skipped and unknown runs neither pass nor fail.
Outcomes(obs) == SelectSeq(obs, LAMBDA o : o.status # "skip")

SameLane(a, b) == a.branch = b.branch /\ a.env = b.env

\* Mistake: the outcomes of all branches and environments are one sequence.
LaneAll(obs, o) == Outcomes(obs)

\* The outcomes on the branch and environment of o.
Lane(obs, o) == LET like(p) == SameLane(p, o) IN SelectSeq(Outcomes(obs), like)

Flips(outs) == Cardinality({i \in 1 .. Len(outs) - 1 : outs[i].status # outs[i + 1].status})

\* Runs in a row that failed, ending at the latest, on that run's branch and environment.
FailingStreak(obs) ==
  LET mine == Lane(obs, Last(obs))
      good == {i \in DOMAIN mine : mine[i].status = "pass"}
  IN Len(mine) - (IF good = {} THEN 0 ELSE CHOOSE i \in good : \A j \in good : j <= i)

IsBroken(obs) == obs # <<>> /\ FailingStreak(obs) >= BrokenStreak

Conflict(a, b) ==
  /\ a.commit = b.commit /\ a.commit # 0 /\ a.env = b.env
  /\ {a.status, b.status} = {"pass", "fail"}

PassedOnRetry(obs) == \E i \in DOMAIN obs : obs[i].retried /\ obs[i].status = "pass"
SameCommit(obs) == \E i, j \in DOMAIN obs : Conflict(obs[i], obs[j])

\* Mistake: one flip is enough.
FlipsOnce(obs) == \E i \in DOMAIN obs : Flips(Lane(obs, obs[i])) >= MinFlips - 1

FlipsOnBranch(obs) == \E i \in DOMAIN obs : Flips(Lane(obs, obs[i])) >= MinFlips

\* Mistake: a test that only fails now is flaky as well.
IsFlakyToo(obs) ==
  obs # <<>> /\ (PassedOnRetry(obs) \/ SameCommit(obs) \/ FlipsOnBranch(obs))

\* classify()
IsFlaky(obs) ==
  /\ obs # <<>> /\ ~IsBroken(obs)
  /\ PassedOnRetry(obs) \/ SameCommit(obs) \/ FlipsOnBranch(obs)

\* The part of the history that is looked at.
Recent(obs) == SubSeq(obs, IF Len(obs) > Window THEN Len(obs) - Window + 1 ELSE 1, Len(obs))

-----------------------------------------------------------------------------
Init == recorded = <<>>

Record(o) ==
  /\ Len(recorded) < MaxRecorded
  /\ o.retried => o.status = "pass"
  /\ recorded' = Append(recorded, o)

Next == \E o \in Observation : Record(o)

Spec == Init /\ [][Next]_recorded

-----------------------------------------------------------------------------
(* A plain regression or fix is not flaky: where every branch and environment  *)
(* changes its outcome at most once, nothing passed on a retry and no commit   *)
(* has both outcomes, however the runs of the branches mix (flaky_service.py   *)
(* lines 8-18).                                                                *)
ChangesOnce(obs, o) ==
  LET mine == Lane(obs, o) IN
  \E k \in 0 .. Len(mine) :
    /\ \A i, j \in 1 .. k : mine[i].status = mine[j].status
    /\ \A i, j \in k + 1 .. Len(mine) : mine[i].status = mine[j].status

RegressionIsNotFlaky ==
  LET obs == Recent(recorded) IN
  (/\ \A i \in DOMAIN obs : ~obs[i].retried /\ ChangesOnce(obs, obs[i])
   /\ \A i, j \in DOMAIN obs : ~Conflict(obs[i], obs[j]))
  => ~IsFlaky(obs)

(* A test that fails in all of its last runs on its latest branch is never     *)
(* called flaky, whatever it did before (flaky_service.py lines 20-22).        *)
BrokenIsNotFlaky ==
  LET obs == Recent(recorded)
      tail(k) == {i \in DOMAIN obs : SameLane(obs[i], Last(obs)) /\ i > Len(obs) - k}
  IN \A k \in DOMAIN obs :
       /\ \A i \in tail(k) : obs[i].status = "fail"
       /\ Cardinality(tail(k)) >= BrokenStreak
       => ~IsFlaky(obs)

(* A run makes a test flaky by what it did itself, on its own branch and       *)
(* environment or on its own commit; runs elsewhere do not, unless they end a  *)
(* failing streak or push an old run out of the window.                        *)
BlamedLocally ==
  LET was == Recent(recorded)
      now == Recent(recorded')
      o == Last(recorded')
  IN Len(recorded') <= Window /\ ~IsFlaky(was) /\ ~IsBroken(was) /\ IsFlaky(now) =>
       \/ o.retried
       \/ Flips(Lane(now, o)) >= MinFlips
       \/ \E i \in DOMAIN was : Conflict(was[i], o)

BlameIsLocal == [][BlamedLocally]_recorded
=============================================================================
