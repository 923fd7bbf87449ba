---------------------------- MODULE LaunchReport ----------------------------
(* The upload of a run to ReportPortal: a launch, in it a suite per stage, in  *)
(* that an item per test, each started and finished by a call of its own. A    *)
(* call may be refused, or served while its answer is lost; the upload may be  *)
(* interrupted between any two.                                                *)
EXTENDS Integers, Sequences, FiniteSets, SequencesExt

CONSTANTS
  Stages         \* the stages of the run: a sequence of sets of tests

VARIABLES
  failed,        \* the tests of the run that failed
  next,          \* the call that is made next
  at,            \* "upload", "close" after an error, "told" or "interrupted"
  launch,        \* on the server: "none", "open", "passed" or "failed"
  open,          \* calls that began something that has not been finished
  ended,         \* calls that finished something
  lost           \* the call whose answer was lost, if one was

vars == <<failed, next, at, launch, open, ended, lost>>

Tests == UNION ToSet(Stages)

Call(what, s, t) == [what |-> what, stage |-> s, test |-> t]

\* The calls of a test, and of a stage, in their order.
TestCalls(s, t) ==
  <<Call("item", s, t), Call("end item", s, t)>>
  \o IF t \in failed THEN <<Call("log", s, t)>> ELSE <<>>

StageCalls(s) ==
  <<Call("suite", s, 0)>>
  \o FlattenSeq([i \in 1 .. Cardinality(Stages[s]) |-> TestCalls(s, SetToSeq(Stages[s])[i])])
  \o <<Call("end suite", s, 0)>>

Calls ==
  <<Call("launch", 0, 0)>> \o FlattenSeq([s \in DOMAIN Stages |-> StageCalls(s)])
  \o <<Call("end launch", 0, 0)>>

OverallPassed == failed = {}

TypeOK ==
  /\ failed \subseteq Tests
  /\ next \in 1 .. Len(Calls) + 1
  /\ at \in {"upload", "close", "told", "interrupted"}
  /\ launch \in {"none", "open", "passed", "failed"}
  /\ open \subseteq ToSet(Calls) /\ ended \subseteq ToSet(Calls)
  /\ lost \in {"", "refused", "close"} \cup {c.what : c \in ToSet(Calls)}

Init ==
  /\ failed \in SUBSET Tests
  /\ next = 1 /\ at = "upload" /\ launch = "none"
  /\ open = {} /\ ended = {} /\ lost = ""
-----------------------------------------------------------------------------
Current == Calls[next]

\* What the server does with a call.
Serve(call) ==
  /\ launch' = CASE call.what = "launch" -> "open"
                 [] call.what = "end launch" -> IF OverallPassed THEN "passed" ELSE "failed"
                 [] OTHER -> launch
  /\ open' = CASE call.what \in {"suite", "item"} -> open \cup {call}
               [] call.what = "end item" -> open \ {Call("item", call.stage, call.test)}
               [] call.what = "end suite" -> open \ {Call("suite", call.stage, call.test)}
               [] OTHER -> open
  /\ ended' = IF call.what \in {"end item", "end suite"} THEN ended \cup {call} ELSE ended

\* The launch is begun before the try: an error there is told at once. A log
\* line that fails is not worth failing the upload.
AfterError(call) ==
  /\ at' = CASE call.what = "launch" -> "told" [] call.what = "log" -> at [] OTHER -> "close"
  /\ next' = IF call.what = "log" THEN next + 1 ELSE next

Answered ==
  /\ at = "upload" /\ next <= Len(Calls)
  /\ Serve(Current) /\ next' = next + 1
  /\ at' = IF next = Len(Calls) THEN "told" ELSE at
  /\ UNCHANGED <<failed, lost>>

AnswerLost ==
  /\ at = "upload" /\ next <= Len(Calls)
  /\ Serve(Current) /\ AfterError(Current)
  /\ lost' = IF Current.what = "log" THEN lost ELSE Current.what
  /\ UNCHANGED failed

Refused ==
  /\ at = "upload" /\ next <= Len(Calls)
  /\ AfterError(Current)
  /\ lost' = IF Current.what = "log" THEN lost ELSE "refused"
  /\ UNCHANGED <<failed, launch, open, ended>>

\* After an error the launch is finished as failed; the server may take that
\* for a launch that is finished already, or refuse it.
Close(served) ==
  /\ at = "close" /\ at' = "told"
  /\ launch' = IF served THEN "failed" ELSE launch
  /\ lost' = IF served THEN lost ELSE "close"
  /\ UNCHANGED <<failed, next, open, ended>>

\* Ctrl-C or the end of the process: no exception that the upload catches.
Interrupt ==
  /\ at \in {"upload", "close"} /\ at' = "interrupted"
  /\ UNCHANGED <<failed, next, launch, open, ended, lost>>

Next ==
  \/ Answered \/ AnswerLost \/ Refused \/ Interrupt
  \/ \E served \in BOOLEAN : Close(served)

Spec == Init /\ [][Next]_vars
-----------------------------------------------------------------------------
(* An upload that came to its end leaves no launch open, but when the answer   *)
(* to its begin was lost or the call that closes it failed as well.            *)
LaunchCloses ==
  at = "told" /\ launch = "open" => lost \in {"launch", "close"}

(* A launch that reads "passed" holds every test of a run in which none        *)
(* failed, and nothing of it is left open; the upload is told as done only     *)
(* when its launch has the run's result and all of its tests.                  *)
PassedIsWhole ==
  LET Whole == open = {} /\ \A s \in DOMAIN Stages : \A t \in Stages[s] :
                               Call("end item", s, t) \in ended
  IN /\ launch = "passed" => OverallPassed /\ Whole
     /\ next > Len(Calls) => Whole /\ launch = IF OverallPassed THEN "passed" ELSE "failed"
=============================================================================
