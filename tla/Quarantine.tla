----------------------------- MODULE Quarantine -----------------------------
(* The stored quarantine of one test in one cycle (services/quarantine_store): *)
(* people add and remove it, and after every recorded run a pass releases it   *)
(* when it was clean for a while and adds it when it is flaky and has failed.  *)
(* The passes run outside the lock of the cycle, so several may be under way.  *)
(* What is flaky is FlakyPolicy; the runs here are all of one branch.          *)
EXTENDS Integers, Sequences, SequencesExt

CONSTANTS ReleaseAfter,  \* TESTO_QUARANTINE_RELEASE_AFTER
          Threshold,     \* TESTO_QUARANTINE_AUTO, in percent
          Window, BrokenStreak, MinFlips,
          Passes,        \* passes that can be under way at a time
          MaxRuns        \* bound: runs recorded

VARIABLES history,    \* the test in each run of the cycle: pass, retried, fail or absent
          entry,      \* "none", "glob", "person" or "auto": the row of the test, who added it
          at,         \* pass -> where it is: none, list, remove, rules, find, add
          covered,    \* passes that saw the test in the stored rules
          listed,     \* pass -> how many runs its release looked at (history)
          found,      \* pass -> how many runs its quarantine looked at (history)
          released    \* how many runs the last automatic release looked at (history)

vars == <<history, entry, at, covered, listed, found, released>>

Observation(o) ==
  [status |-> IF o = "fail" THEN "fail" ELSE "pass", branch |-> "b", env |-> "e", commit |-> 0,
   retried |-> o = "retried"]

Flaky == INSTANCE FlakyPolicy WITH
  Branches <- {"b"}, Environments <- {"e"}, Commits <- {}, MaxRecorded <- MaxRuns,
  recorded <- history

Init ==
  /\ history = <<>> /\ entry = "none"
  /\ at = [r \in Passes |-> "none"] /\ covered = {}
  /\ listed = [r \in Passes |-> 0] /\ found = [r \in Passes |-> 0] /\ released = 0

Goto(r, place) == at' = [at EXCEPT ![r] = place]

Seen(h) == SelectSeq(h, LAMBDA o : o # "absent")

LastOf(h, n) == SubSeq(h, IF Len(h) > n THEN Len(h) - n + 1 ELSE 1, Len(h))

-----------------------------------------------------------------------------
\* A run is recorded and its pass begins.
Record(r, o) ==
  /\ Len(history) < MaxRuns
  /\ history' = Append(history, o)
  /\ at[r] = "none" /\ Goto(r, "list")
  /\ UNCHANGED <<entry, covered, listed, found, released>>

\* A person's entry is the test's name, or a glob that matches it.
AddByHand == entry' \in {"person", "glob"} /\ UNCHANGED <<history, at, covered, listed, found, released>>

RemoveByHand ==
  /\ entry # "none" /\ entry' = "none"
  /\ UNCHANGED <<history, at, covered, listed, found, released>>

-----------------------------------------------------------------------------
\* Mistake: a pass after a retry counts.
CleanEnough(outcomes) ==
  Len(outcomes) >= ReleaseAfter /\ \A i \in DOMAIN outcomes : outcomes[i] # "fail"

Clean(outcomes) ==
  Len(outcomes) >= ReleaseAfter /\ \A i \in DOMAIN outcomes : outcomes[i] = "pass"

\* _recent_outcomes(): of a few of the latest runs, those that had the test.
RecentOutcomes == LastOf(Seen(LastOf(history, 3 * ReleaseAfter)), ReleaseAfter)

\* releasable(): a glob stays.
ListReleasable(r) ==
  /\ at[r] = "list"
  /\ Goto(r, IF entry \in {"person", "auto"} /\ Clean(RecentOutcomes) THEN "remove" ELSE "rules")
  /\ listed' = [listed EXCEPT ![r] = IF at'[r] = "remove" THEN Len(history) ELSE 0]
  /\ UNCHANGED <<history, entry, covered, found, released>>

\* By name: whatever the row is by now. A database that fails only ends the release.
Release(r) ==
  /\ at[r] = "remove" /\ Goto(r, "rules") /\ listed' = [listed EXCEPT ![r] = 0]
  /\ \/ entry \in {"person", "auto"} /\ entry' = "none" /\ released' = listed[r]
     \/ UNCHANGED <<entry, released>>
  /\ UNCHANGED <<history, covered, found>>

ReadRules(r) ==
  /\ at[r] = "rules" /\ Goto(r, "find")
  /\ covered' = IF entry = "none" THEN covered ELSE covered \cup {r}
  /\ UNCHANGED <<history, entry, listed, found, released>>

LooksFlaky(outcomes) ==
  LET obs == [i \in DOMAIN outcomes |-> Observation(outcomes[i])] IN
  /\ Flaky!IsFlaky(obs)
  /\ Flaky!Flips(obs) * 100 >= Threshold * (IF Len(obs) > 1 THEN Len(obs) - 1 ELSE 1)

\* Mistake: the last outcome is not asked for.
FindAny(r) ==
  /\ at[r] = "find"
  /\ Goto(r, IF LooksFlaky(Seen(LastOf(history, Window))) /\ r \notin covered THEN "add" ELSE "none")
  /\ found' = [found EXCEPT ![r] = IF at'[r] = "add" THEN Len(history) ELSE 0]
  /\ covered' = covered \ {r}
  /\ UNCHANGED <<history, entry, listed, released>>

\* A flaky test whose last outcome is a failure, and which no rule covers.
Find(r) ==
  /\ at[r] = "find"
  /\ LET seen == Seen(LastOf(history, Window)) IN
     Goto(r, IF LooksFlaky(seen) /\ Last(seen) = "fail" /\ r \notin covered THEN "add" ELSE "none")
  /\ found' = [found EXCEPT ![r] = IF at'[r] = "add" THEN Len(history) ELSE 0]
  /\ covered' = covered \ {r}
  /\ UNCHANGED <<history, entry, listed, released>>

\* merge(): an entry that was added meanwhile is replaced.
AutoAdd(r) ==
  /\ at[r] = "add" /\ Goto(r, "none") /\ found' = [found EXCEPT ![r] = 0]
  /\ entry' = (IF entry = "glob" THEN "glob" ELSE "auto") \/ UNCHANGED entry
  /\ UNCHANGED <<history, covered, listed, released>>

Next ==
  \/ \E r \in Passes, o \in {"pass", "retried", "fail", "absent"} : Record(r, o)
  \/ AddByHand \/ RemoveByHand
  \/ \E r \in Passes : ListReleasable(r) \/ Release(r) \/ ReadRules(r) \/ Find(r) \/ AutoAdd(r)

Spec == Init /\ [][Next]_vars

-----------------------------------------------------------------------------
(* A test leaves quarantine by itself only when it earned it: since it last    *)
(* failed or needed a retry, of what the pass looked at, it was in as many     *)
(* runs as are asked for and passed them all (quarantine_store.py lines        *)
(* 242-283).                                                                   *)
EarnedRelease ==
  \A r \in Passes :
    at[r] = "remove" /\ at'[r] = "rules" =>
      \E k \in 1 .. listed[r] :
        LET since == Seen(SubSeq(history, k, listed[r])) IN
        Len(since) >= ReleaseAfter /\ \A i \in DOMAIN since : since[i] = "pass"

ReleaseIsEarned == [][EarnedRelease]_vars

(* The same of what is recorded by the time the test leaves: "removes          *)
(* exact-name entries whose test passed on the first try in each of its last   *)
(* ... runs" (Quarantine From the UI).                                         *)
LastRunsClean ==
  \A r \in Passes :
    at[r] = "remove" /\ at'[r] = "rules" /\ entry' # entry => Clean(LastOf(Seen(history), ReleaseAfter))

(* A test that was released comes back by itself only when it fails again: no  *)
(* pass that looked at the runs after the release puts it back for a failure   *)
(* from before (quarantine_store.py lines 339-365).                            *)
FailedSince ==
  \A r \in Passes :
    at[r] = "add" /\ at'[r] = "none" /\ entry' # entry /\ found[r] >= released /\ released > 0 =>
      \E i \in released + 1 .. found[r] : history[i] = "fail"

BackOnlyOnFailure == [][FailedSince]_vars
=============================================================================
