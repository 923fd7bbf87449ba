------------------------------- MODULE RunPage -------------------------------
(* The page that starts a run and follows it (useCycleExecution.ts): it posts  *)
(* the run, listens to its events until the first that is final, asks for the  *)
(* status when the stream breaks, and may ask to stop it. Answers may be late: *)
(* the page may have started another run by then. A run is a number; one that   *)
(* fail_fast aborted counts as failed.                                         *)
EXTENDS Naturals

CONSTANT MaxRuns    \* bound: runs the page asks for

VARIABLES
  at,           \* per run: "none", "queued", "running", "ended" or, status set, "over";
                \* or "refused"
  outcome,      \* how it ended, "none" before; "dropped" is stopped while queued
  wrote,        \* the runs whose stream gets a final event
  asked,        \* the runs the server was asked to stop
  phase,        \* what the page shows
  shown,        \* of which run, 0 for none
  posting,      \* the runs whose POST is under way
  open, ref,    \* streams that are open; the one that stopStream() closes, or 0
  poll, cancel, \* per run, a request for its status, to stop it: its answer when there is one
  source,       \* what phase was last set by: kind and run (a ghost)
  astray        \* an answer about another run has changed phase or stream (a ghost)

server == <<at, outcome, wrote, asked>>
vars == <<server, phase, shown, posting, open, ref, poll, cancel, source, astray>>

Runs == 1 .. MaxRuns
Busy == phase \in {"starting", "running"}

Init ==
  /\ at = [r \in Runs |-> "none"] /\ outcome = [r \in Runs |-> "none"]
  /\ wrote = {} /\ asked = {}
  /\ phase = "idle" /\ shown = 0 /\ posting = {} /\ open = {} /\ ref = 0
  /\ poll = [r \in Runs |-> "none"] /\ cancel = [r \in Runs |-> "none"]
  /\ source = <<"nothing", 0>> /\ astray = FALSE

-----------------------------------------------------------------------------
(* The server.                                                                 *)
Accept(r) ==
  /\ r \in posting /\ at[r] = "none" /\ at' = [at EXCEPT ![r] = "queued"]
  /\ UNCHANGED <<outcome, wrote, asked, phase, shown, posting, open, ref, poll, cancel, source, astray>>

Begin(r) ==
  /\ at[r] = "queued" /\ at' = [at EXCEPT ![r] = "running"]
  /\ UNCHANGED <<outcome, wrote, asked, phase, shown, posting, open, ref, poll, cancel, source, astray>>

\* plan_finished or plan_aborted is written; a run that crashes may not get that far.
End(r, how) ==
  /\ at[r] = "running" /\ at' = [at EXCEPT ![r] = "ended"]
  /\ how = "stopped" => r \in asked
  /\ outcome' = [outcome EXCEPT ![r] = how]
  /\ wrote' \in IF how = "crashed" THEN {wrote, wrote \cup {r}} ELSE {wrote \cup {r}}
  /\ UNCHANGED <<asked, phase, shown, posting, open, ref, poll, cancel, source, astray>>

MarkDone(r) ==
  /\ at[r] = "ended" /\ at' = [at EXCEPT ![r] = "over"]
  /\ UNCHANGED <<outcome, wrote, asked, phase, shown, posting, open, ref, poll, cancel, source, astray>>

\* What GET /cycle-executions/{id} says: the exit code is not part of it.
Status(r) ==
  IF at[r] # "over" THEN at[r]
  ELSE IF outcome[r] = "crashed" THEN "failed"
  ELSE IF r \in asked THEN "cancelled" ELSE "completed"

-----------------------------------------------------------------------------
(* The page.                                                                   *)
Start(r) ==
  /\ ~Busy /\ r \notin posting /\ at[r] = "none" /\ \A q \in 1 .. r - 1 : at[q] # "none"
  /\ phase' = "starting" /\ shown' = 0 /\ posting' = posting \cup {r}
  /\ open' = open \ {ref} /\ ref' = 0 /\ source' = <<"start", r>>
  /\ UNCHANGED <<server, poll, cancel, astray>>

Created(r) ==
  /\ r \in posting /\ at[r] # "none" /\ posting' = posting \ {r}
  /\ phase' = "running" /\ shown' = r /\ open' = open \cup {r} /\ ref' = r
  /\ source' = <<"start", r>>
  /\ UNCHANGED <<server, poll, cancel, astray>>

\* Refused, or the answer is lost.
CreateFails(r) ==
  /\ r \in posting /\ posting' = posting \ {r}
  /\ phase' = "failed" /\ source' = <<"error", r>>
  /\ at' = [at EXCEPT ![r] = IF @ = "none" THEN "refused" ELSE @]
  /\ UNCHANGED <<outcome, wrote, asked, shown, open, ref, poll, cancel, astray>>

\* The final event of these is an "error".
Error(r) == outcome[r] \in {"crashed", "dropped"}
PhaseOf(r) ==
  CASE outcome[r] = "crashed" -> "failed"
    [] outcome[r] = "dropped" -> "stopped"
    [] OTHER -> outcome[r]

\* applyEvent: plan_started, then a final event.
Started(r) ==
  /\ r \in open /\ (at[r] = "running" \/ (r \in wrote /\ outcome[r] # "dropped"))
  /\ phase' = "running" /\ source' = <<"event", r>>
  /\ UNCHANGED <<server, shown, posting, open, ref, poll, cancel, astray>>

\* An event named "error" is to EventSource an error as well.
Final(r) ==
  /\ r \in open \cap wrote
  /\ phase' = PhaseOf(r) /\ source' = <<"event", r>>
  /\ open' = open \ {ref} /\ ref' = 0
  /\ poll' = [poll EXCEPT ![r] = IF Error(r) /\ @ = "none" THEN "asked" ELSE @]
  /\ UNCHANGED <<server, shown, posting, cancel, astray>>

\* onError: the connection breaks at any time, and the server ends a stream with no
\* final event.
Breaks(r) ==
  /\ r \in open /\ poll[r] = "none"
  /\ open' = open \ {ref} /\ ref' = 0 /\ poll' = [poll EXCEPT ![r] = "asked"]
  /\ UNCHANGED <<server, phase, shown, posting, cancel, source, astray>>

\* Answered, or with an error: the server has evicted the run, or the call fails.
PollServed(r) ==
  /\ poll[r] = "asked" /\ poll' \in {[poll EXCEPT ![r] = a] : a \in {Status(r), "unknown"}}
  /\ UNCHANGED <<server, phase, shown, posting, open, ref, cancel, source, astray>>

\* resolvePhaseFromStatus: a busy page takes what the answer says, whichever run it is
\* about by now.
Told(answer) ==
  CASE answer = "completed" -> "passed"
    [] answer \in {"failed", "unknown"} -> "failed"
    [] answer = "cancelled" -> "stopped"
    [] OTHER -> phase

\* Mistake: a status that is no end is taken for a failure.
ToldEarly(answer) ==
  CASE answer = "completed" -> "passed"
    [] answer = "cancelled" -> "stopped"
    [] OTHER -> "failed"

PollAnswered(r) ==
  /\ poll[r] \notin {"none", "asked"} /\ poll' = [poll EXCEPT ![r] = "none"]
  /\ phase' = IF Busy THEN Told(poll[r]) ELSE phase
  /\ source' = IF Busy THEN <<poll[r], r>> ELSE source
  /\ astray' = (astray \/ (phase' # phase /\ r # shown))
  /\ UNCHANGED <<server, shown, posting, open, ref, cancel>>

\* The button is there while the page is busy with a run it knows.
Stop(r) ==
  /\ Busy /\ r = shown /\ cancel[r] = "none"
  /\ cancel' = [cancel EXCEPT ![r] = "asked"]
  /\ UNCHANGED <<server, phase, shown, posting, open, ref, poll, source, astray>>

\* A queued run is over; a running one is asked; one that is over stays as it is.
CancelServed(r) ==
  /\ cancel[r] = "asked"
  /\ at' = [at EXCEPT ![r] = IF @ = "queued" THEN "over" ELSE @]
  /\ outcome' = [outcome EXCEPT ![r] = IF at[r] = "queued" THEN "dropped" ELSE @]
  /\ wrote' = IF at[r] = "queued" THEN wrote \cup {r} ELSE wrote
  /\ asked' = IF at[r] = "over" THEN asked ELSE asked \cup {r}
  /\ cancel' = [cancel EXCEPT ![r] = Status(r)']
  /\ UNCHANGED <<phase, shown, posting, open, ref, poll, source, astray>>

CancelAnswered(r) ==
  /\ cancel[r] \notin {"none", "asked"} /\ cancel' = [cancel EXCEPT ![r] = "none"]
  /\ IF cancel[r] = "cancelled"
     THEN /\ phase' = "stopped" /\ source' = <<"cancelled", r>>
          /\ open' = open \ {ref} /\ ref' = 0
     ELSE UNCHANGED <<phase, open, ref, source>>
  /\ astray' = (astray \/ (cancel[r] = "cancelled" /\ r # shown))
  /\ UNCHANGED <<server, shown, posting, poll>>

\* Lost on its way, or on its way back.
CancelFails(r) ==
  /\ cancel[r] # "none" /\ cancel' = [cancel EXCEPT ![r] = "none"]
  /\ UNCHANGED <<server, phase, shown, posting, open, ref, poll, source, astray>>

Next ==
  \E r \in Runs :
    \/ Accept(r) \/ Begin(r) \/ MarkDone(r)
    \/ \E how \in {"passed", "failed", "stopped", "crashed"} : End(r, how)
    \/ Start(r) \/ Created(r) \/ CreateFails(r) \/ Started(r) \/ Final(r) \/ Breaks(r)
    \/ PollServed(r) \/ PollAnswered(r)
    \/ Stop(r) \/ CancelServed(r) \/ CancelAnswered(r) \/ CancelFails(r)

Spec == Init /\ [][Next]_vars

-----------------------------------------------------------------------------
TypeOK ==
  /\ at \in [Runs -> {"none", "queued", "running", "ended", "over", "refused"}]
  /\ outcome \in [Runs -> {"none", "passed", "failed", "stopped", "dropped", "crashed"}]
  /\ wrote \cup asked \cup posting \cup open \subseteq Runs
  /\ phase \in {"idle", "starting", "running", "passed", "failed", "stopped"}
  /\ shown \in Runs \cup {0} /\ ref \in Runs \cup {0}

(* Unless an answer about an earlier run has got in between: a page that heard *)
(* the end from the events shows the end of the run it names; "stopped" is     *)
(* never shown of a run nobody stopped, nor "failed" by a status of a run that *)
(* is still at work; the page has one stream, and a busy page has it, a        *)
(* request under way, or was told that its run is not over yet.                *)
TellsItsRun ==
  ~astray =>
    /\ source[1] = "event" /\ ~Busy => source[2] = shown /\ phase = PhaseOf(shown)
    /\ phase = "stopped" => shown \in asked
    /\ phase = "failed" /\ source[1] \notin {"error", "unknown", "event"} => outcome[shown] = "crashed"
    /\ open \subseteq {shown} /\ open = {ref} \ {0}
    /\ Busy => \/ posting # {} \/ open # {} \/ poll[shown] # "none"
               \/ source[1] \in {"queued", "running", "ended"}

(* "Poll the execution's own status endpoint for the real outcome"             *)
(* (useCycleExecution.ts:130).                                                 *)
PassedIsPassed == phase = "passed" /\ ~astray => outcome[shown] = "passed"
=============================================================================
