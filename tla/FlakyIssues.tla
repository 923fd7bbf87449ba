---------------------------- MODULE FlakyIssues ----------------------------
(* A GitHub issue for each flaky test of a cycle (services/flaky_issues.py):   *)
(* after every recorded run a pass closes the issues of tests that became      *)
(* stable, then opens one for each test that the run made flaky. Passes run    *)
(* outside the lock of the cycle; each works on the history and the list of    *)
(* open issues that it read at its beginning.                                  *)
EXTENDS Integers, FiniteSets

CONSTANTS Tests,
          MaxOpen,     \* MAX_OPEN_PER_RUN
          CloseAfter,  \* TESTO_ISSUES_CLOSE_AFTER
          Errors,      \* GitHub may fail
          Passes,      \* passes that can be under way at a time
          MaxRuns      \* bound

VARIABLES flaky,       \* the tests that are flaky by the recorded runs
          calm,        \* test -> runs in a row that it passed, up to CloseAfter
          issues,      \* test -> its issues: a sequence number each, the open ones
          at,          \* pass -> none, read, list, close, open
          newly,       \* pass -> tests its run made flaky, still to be looked at
          closable,    \* pass -> tests that were stable when it read the history
          seen,        \* pass -> test -> its issues that were open when it listed them
          opened,      \* pass -> how many issues it opened
          due,         \* pass -> tests left by an earlier pass and flaky when it read (history)
          waiting,     \* tests that a pass left for the next (history)
          excused,     \* flaky tests that some pass could not give an issue (history)
          together,    \* how many passes were ever under way at once (history)
          runs, numbers

passVars == <<at, newly, closable, seen, opened, due>>
historyVars == <<waiting, excused, together>>
vars == <<flaky, calm, issues, passVars, historyVars, runs, numbers>>

NoIssues == [t \in Tests |-> {}]

Init ==
  /\ flaky = {} /\ calm = [t \in Tests |-> CloseAfter] /\ issues = NoIssues
  /\ at = [p \in Passes |-> "none"] /\ newly = [p \in Passes |-> {}]
  /\ closable = [p \in Passes |-> {}] /\ seen = [p \in Passes |-> NoIssues]
  /\ opened = [p \in Passes |-> 0] /\ due = [p \in Passes |-> {}]
  /\ waiting = {} /\ excused = {} /\ together = 1
  /\ runs = 0 /\ numbers = 0

Goto(p, place) == at' = [at EXCEPT ![p] = place]

\* A run is recorded: some tests fail, some are flaky by now.
Record(p) ==
  /\ at[p] = "none" /\ Goto(p, "read")
  /\ runs < MaxRuns /\ runs' = runs + 1
  /\ \E failing, unstable \in SUBSET Tests :
       /\ calm' = [t \in Tests |-> IF t \in failing THEN 0
                                   ELSE IF calm[t] < CloseAfter THEN calm[t] + 1 ELSE CloseAfter]
       /\ flaky' = unstable
       /\ newly' = [newly EXCEPT ![p] = unstable \ flaky]
       /\ waiting' = waiting \cap unstable /\ excused' = excused \cap unstable
  /\ LET others == Cardinality({q \in Passes : at[q] # "none"}) IN
       together' = IF others < together THEN together ELSE others + 1
  /\ UNCHANGED <<issues, closable, seen, opened, due, numbers>>

\* The pass ends; what it had read is forgotten.
Ended(p) ==
  /\ Goto(p, "none")
  /\ newly' = [newly EXCEPT ![p] = {}] /\ closable' = [closable EXCEPT ![p] = {}]
  /\ seen' = [seen EXCEPT ![p] = NoIssues] /\ opened' = [opened EXCEPT ![p] = 0]
  /\ due' = [due EXCEPT ![p] = {}]

ReadHistory(p) ==
  /\ at[p] = "read" /\ Goto(p, "list")
  /\ closable' = [closable EXCEPT ![p] = {t \in Tests \ flaky : calm[t] = CloseAfter}]
  /\ due' = [due EXCEPT ![p] = waiting]
  /\ UNCHANGED <<flaky, calm, issues, newly, seen, opened, historyVars, runs, numbers>>

ListOpen(p) ==
  /\ at[p] = "list" /\ Goto(p, "close")
  /\ seen' = [seen EXCEPT ![p] = issues]
  /\ UNCHANGED <<flaky, calm, issues, newly, closable, opened, due, historyVars, runs, numbers>>

\* An error of the history or of GitHub ends the pass, wherever it is.
Fail(p) ==
  /\ Errors /\ at[p] # "none" /\ Ended(p)
  /\ excused' = excused \cup (newly[p] \cap flaky)
  /\ UNCHANGED <<flaky, calm, issues, waiting, together, runs, numbers>>

\* Mistake: the last runs are not asked for.
ToCloseAny(p) == {t \in Tests : seen[p][t] # {}}

\* _close_pass(): one issue of a test, the oldest that was listed.
ToClose(p) == {t \in closable[p] : seen[p][t] # {}}

Close(p) ==
  /\ at[p] = "close"
  /\ \/ \E t \in ToClose(p) :
          /\ issues' = [issues EXCEPT ![t] = @ \ {CHOOSE n \in seen[p][t] : \A m \in seen[p][t] : n <= m}]
          /\ closable' = [closable EXCEPT ![p] = @ \ {t}]
          /\ excused' = excused \cup ({t} \cap flaky \cap closable[p])
          /\ UNCHANGED at
     \/ ToClose(p) = {} /\ Goto(p, "open") /\ UNCHANGED <<issues, closable, excused>>
  /\ UNCHANGED <<flaky, calm, newly, seen, opened, due, waiting, together, runs, numbers>>

\* Mistake: what is open already is not looked up.
HasIssueNot(p, t) == FALSE

HasIssue(p, t) == seen[p][t] # {}

\* _open_pass(): the next test that the run made flaky.
Open(p) ==
  /\ at[p] = "open"
  /\ \E t \in newly[p] :
       /\ newly' = [newly EXCEPT ![p] = @ \ {t}]
       /\ IF ~HasIssue(p, t) /\ opened[p] < MaxOpen
          THEN /\ numbers' = numbers + 1
               /\ issues' = [issues EXCEPT ![t] = @ \cup {numbers + 1}]
               /\ seen' = [seen EXCEPT ![p][t] = {numbers + 1}]
               /\ opened' = [opened EXCEPT ![p] = @ + 1]
               /\ waiting' = waiting \ {t} /\ excused' = excused \ {t}
          ELSE /\ waiting' = IF HasIssue(p, t) THEN waiting ELSE waiting \cup ({t} \cap flaky)
               /\ excused' = IF issues[t] # {} THEN excused ELSE excused \cup ({t} \cap flaky)
               /\ UNCHANGED <<issues, seen, opened, numbers>>
  /\ UNCHANGED <<flaky, calm, at, closable, due, together, runs>>

Finish(p) ==
  /\ at[p] = "open" /\ newly[p] = {} /\ Ended(p)
  /\ UNCHANGED <<flaky, calm, issues, historyVars, runs, numbers>>

Next ==
  \E p \in Passes :
    Record(p) \/ ReadHistory(p) \/ ListOpen(p) \/ Fail(p) \/ Close(p) \/ Open(p) \/ Finish(p)

Spec == Init /\ [][Next]_vars

-----------------------------------------------------------------------------
(* A test never has more open issues than passes were under way at once: a     *)
(* pass finds the issue of every pass that was over when it listed them        *)
(* (flaky_issues.py lines 304-316, 371), and never opens two for one test.     *)
OneOpenIssue == \A t \in Tests : Cardinality(issues[t]) <= together

(* "found again by a hidden marker so there is never a duplicate" (docs,       *)
(* CI-CD Pipeline Setup.md line 82), which passes that overlap do not keep.    *)
NeverADuplicate == \A t \in Tests : Cardinality(issues[t]) <= 1

(* Every flaky test has an open issue or is about to get one. A test gets none *)
(* only where a pass met its limit or an error, or went by a list or a history *)
(* that was old by then; and a later run does not make up for it.              *)
FlakyHasIssue ==
  \A t \in flaky : issues[t] # {} \/ t \in excused \/ \E p \in Passes : t \in newly[p]

(* "At most MAX_OPEN_PER_RUN per pass; the rest are listed and wait for the    *)
(* next" (flaky_issues.py line 16): a pass that ends in order, with room for   *)
(* one more, leaves no test without an issue that an earlier one left and that *)
(* was still flaky. It does: the test is not newly flaky in the next run.      *)
TakesLeft ==
  \A p \in Passes :
    at[p] = "open" /\ at'[p] = "none" /\ newly[p] = {} /\ opened[p] < MaxOpen =>
      \A t \in due[p] : issues[t] # {}

LeftIsNext == [][TakesLeft]_vars
=============================================================================
