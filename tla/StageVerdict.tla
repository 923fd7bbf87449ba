----------------------------- MODULE StageVerdict -----------------------------
(* How a run comes to its exit code: what the executor makes of the end of a   *)
(* stage (timeout, stop, quarantine, chosen tests, crash), and run_plan() of   *)
(* its stages, one after the other (engine/executor.py, engine/quarantine.py,  *)
(* engine/crash_signatures.py, engine/exit_codes.py, engine/orchestrator.py).  *)
(* What a runner does is taken for granted: it writes a result per test that   *)
(* failed, exits 1 when one did and never 0, 5 when it has no tests; a worker  *)
(* of it may die with a test and its result.                                   *)
EXTENDS Naturals, FiniteSets

CONSTANTS
  Stages,       \* 1 .. n
  Tests,
  Rules,        \* the tests a quarantine rule matches
  Chosen        \* the run is of chosen tests

VARIABLES
  at,           \* per stage: "none", "runs", "exited", "over"
  results,      \* per stage and test: "none", "failed" or, unreadable or missing, "torn"
  printed,      \* per stage: "nothing", "crash" or "overflow" in its output
  code,         \* per stage, of its process; 124 after a timeout
  returncode, crash,    \* per stage, in its result
  waived,       \* the stages whose code 1 quarantine made 0
  stop,         \* a stop was asked for
  stopped,      \* the stages that saw it
  exit          \* of the run, or NoExit

vars == <<at, results, printed, code, returncode, crash, waived, stop, stopped, exit>>
NoExit == 999
Segfault == 139
Timeout == 124
Missing == 127
NoContainer == 125

Init ==
  /\ at = [s \in Stages |-> "none"] /\ results = [s \in Stages |-> [t \in Tests |-> "none"]]
  /\ printed = [s \in Stages |-> "nothing"]
  /\ code = [s \in Stages |-> 0] /\ returncode = [s \in Stages |-> 0]
  /\ crash = [s \in Stages |-> "nothing"] /\ waived = {}
  /\ stop = FALSE /\ stopped = {} /\ exit = NoExit

Begin(s) ==
  /\ exit = NoExit /\ ~stop /\ at[s] = "none" /\ \A p \in 1 .. s - 1 : at[p] = "over"
  /\ at' = [at EXCEPT ![s] = "runs"]
  /\ UNCHANGED <<results, printed, code, returncode, crash, waived, stop, stopped, exit>>

\* There is no process: its executable is not there, its container does not start, or
\* it gets no key from a resource pool.
Unlaunched(s, rc) ==
  /\ exit = NoExit /\ ~stop /\ at[s] = "none" /\ \A p \in 1 .. s - 1 : at[p] = "over"
  /\ at' = [at EXCEPT ![s] = "over"] /\ returncode' = [returncode EXCEPT ![s] = rc]
  /\ code' = [code EXCEPT ![s] = rc]
  /\ UNCHANGED <<results, printed, crash, waived, stop, stopped, exit>>

TestFails(s, t, result) ==
  /\ at[s] = "runs" /\ results[s][t] = "none"
  /\ results' = [results EXCEPT ![s][t] = result]
  /\ UNCHANGED <<at, printed, code, returncode, crash, waived, stop, stopped, exit>>

Prints(s, what) ==
  /\ at[s] = "runs" /\ printed[s] # "overflow" /\ what # printed[s]
  /\ printed' = [printed EXCEPT ![s] = what]
  /\ UNCHANGED <<at, results, code, returncode, crash, waived, stop, stopped, exit>>

Failing(s) == {t \in Tests : results[s][t] # "none"}

Exits(s, rc) ==
  /\ at[s] = "runs" /\ at' = [at EXCEPT ![s] = "exited"]
  /\ rc \in {0, 5} => Failing(s) = {}
  /\ rc = 1 => Failing(s) # {}
  /\ code' = [code EXCEPT ![s] = rc]
  /\ UNCHANGED <<results, printed, returncode, crash, waived, stop, stopped, exit>>

\* Terminated at its timeout, whatever it exits with.
TimesOut(s) ==
  /\ at[s] = "runs" /\ at' = [at EXCEPT ![s] = "exited"]
  /\ code' = [code EXCEPT ![s] = Timeout]
  /\ UNCHANGED <<results, printed, returncode, crash, waived, stop, stopped, exit>>

StopAsked ==
  /\ ~stop /\ exit = NoExit /\ stop' = TRUE
  /\ UNCHANGED <<at, results, printed, code, returncode, crash, waived, stopped, exit>>

-----------------------------------------------------------------------------
\* evaluate(): of the results that can be read.
Failed(s) == {t \in Tests : results[s][t] = "failed"}

\* Mistake: one quarantined failure is enough.
WaivesAny(s) == Failed(s) \cap Rules # {}

WaivesStage(s) == Failed(s) # {} /\ Failed(s) \subseteq Rules

\* stage_crash(): only of a stage that failed; the output first, the exit status only of
\* a process that QASight did not kill.
CrashOf(s, rc) ==
  IF rc = 0 THEN "nothing"
  ELSE IF printed[s] # "nothing" \/ code[s] = Timeout THEN printed[s]
  ELSE IF rc = Segfault THEN "crash" ELSE "nothing"

Judge(s) ==
  /\ at[s] = "exited" /\ at' = [at EXCEPT ![s] = "over"]
  /\ LET timedOut == code[s] = Timeout
         raw == IF stop /\ ~timedOut THEN 143 ELSE code[s]
         waives == Rules # {} /\ raw = 1 /\ WaivesStage(s)
         rc == IF waives \/ (raw = 5 /\ Chosen) THEN 0 ELSE raw
     IN  /\ returncode' = [returncode EXCEPT ![s] = rc]
         /\ waived' = IF waives THEN waived \cup {s} ELSE waived
         /\ crash' = [crash EXCEPT ![s] = CrashOf(s, rc)]
         /\ stopped' = IF stop /\ ~timedOut THEN stopped \cup {s} ELSE stopped
  /\ UNCHANGED <<results, printed, code, stop, exit>>

\* classify_exit_code().
Classify(codes) ==
  IF codes = {} THEN 4
  ELSE IF codes \cap {Timeout, Missing} # {} THEN 3
  ELSE IF codes # {0} THEN 1 ELSE 0

Finish ==
  /\ exit = NoExit /\ \A s \in Stages : at[s] = "over" \/ (stop /\ at[s] = "none")
  /\ exit' = IF stop THEN 143 ELSE Classify({returncode[s] : s \in {q \in Stages : at[q] = "over"}})
  /\ UNCHANGED <<at, results, printed, code, returncode, crash, waived, stop, stopped>>

Next ==
  \/ \E s \in Stages :
       \/ Begin(s) \/ TimesOut(s) \/ Judge(s)
       \/ \E rc \in {Missing, NoContainer, Timeout} : Unlaunched(s, rc)
       \/ \E t \in Tests, result \in {"failed", "torn"} : TestFails(s, t, result)
       \/ \E what \in {"crash", "overflow"} : Prints(s, what)
       \/ \E rc \in {0, 1, 5, Segfault} : Exits(s, rc)
  \/ StopAsked \/ Finish

Spec == Init /\ [][Next]_vars

-----------------------------------------------------------------------------
TypeOK ==
  /\ at \in [Stages -> {"none", "runs", "exited", "over"}]
  /\ results \in [Stages -> [Tests -> {"none", "failed", "torn"}]]
  /\ waived \cup stopped \subseteq Stages
  /\ exit \in {NoExit, 0, 1, 3, 4, 143}

(* A run that exits 0 has run every stage, none of them timed out, crashed or  *)
(* was stopped, and every test that failed is quarantined or left no result    *)
(* that can be read; and a run with a failure that is not, does not exit 0.    *)
GreenIsGreen ==
  exit = 0 =>
    \A s \in Stages :
      /\ at[s] = "over" /\ s \notin stopped /\ code[s] \in {0, 1, 5}
      /\ code[s] = 5 => Chosen
      /\ \A t \in Failing(s) : t \in Rules \/ results[s][t] = "torn"
      /\ code[s] = 1 => s \in waived /\ Failed(s) # {}

(* A stage that failed is told to have crashed if its output says so, or, but  *)
(* for one QASight killed, its signal; one that passed or was waived is not.   *)
CrashIsTold ==
  \A s \in Stages : at[s] = "over" =>
    /\ returncode[s] = 0 => crash[s] = "nothing"
    /\ returncode[s] # 0 /\ printed[s] # "nothing" => crash[s] = printed[s]
    /\ crash[s] = "crash" /\ printed[s] = "nothing" => code[s] = Segfault /\ s \notin stopped

(* The code of the run says the worst that happened: a stop before anything    *)
(* else, then a timeout, a missing program or key, then a failure.             *)
ExitSaysWorst ==
  exit # NoExit =>
    /\ exit = 143 <=> stop
    /\ ~stop => (exit = 3 <=> \E s \in Stages : code[s] \in {Timeout, Missing})
    /\ stopped # {} => exit = 143

(* "Anything else keeps failing the stage: an unquarantined failure"           *)
(* (quarantine.py), and not so for a test whose result cannot be read.         *)
WaivesOnlyQuarantined == \A s \in waived : Failing(s) \subseteq Rules
=============================================================================
