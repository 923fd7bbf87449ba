---------------------------- MODULE PlanRunProofs ----------------------------
(***************************************************************************)
(* What holds of a run of stages for any plan, any number of stages and    *)
(* slots, any timeouts, and however often it is told to stop.              *)
(***************************************************************************)
EXTENDS PlanRun, FiniteSetTheorems, WellFoundedInduction, TLAPS

-----------------------------------------------------------------------------
(* The inductive invariant.                                                *)

\* A thread that waits for its process is on the scope, one that returned has an end,
\* and the run knows the end of none that did not return.
PlacesInv ==
  \A i \in Stages :
    /\ i \in registered <=> step[i] \in {"check", "wait", "kill"}
    /\ i \in alive => step[i] \in {"add", "check", "wait", "kill"}
    /\ step[i] \in {"add", "check", "wait"} /\ i \notin alive => rc[i] # "none"
    /\ step[i] \in {"ask", "back"} => rc[i] # "none"
    /\ results[i] # "none" => step[i] = "back"

After == {"sample", "record", "status", "over"}

\* A run that waits in sequence waits for one stage; one that left its loop for none.
LoopInv ==
  /\ pc = "fill" => ~Sequential
  /\ Sequential /\ pc \in {"next", "wait"} => ~aborted
  /\ Sequential /\ pc = "next" => Running = {}
  /\ Sequential => \A i, j \in Running : i = j
  /\ pc \in After => Running = {}

Bad(i) == results[i] \notin {"none", "pass"}

\* Why a run was aborted, and what it left out.
ResultInv ==
  /\ \A i \in Stages : rc[i] = "stopped" \/ results[i] = "stopped" => Requested
  /\ aborted => Requested \/ \E i \in Stages : Bad(i)
  /\ plan.failFast /\ (\E i \in Stages : Bad(i)) => aborted
  /\ pc \in After => Pending = {} \/ Requested \/ \E i \in Stages : Bad(i)
  /\ recorded # "none" => pc \in After \ {"sample"}

\* The loop counts the stages it waits for against the slots.
SlotsInv == Cardinality(Running) <= plan.parallel

SafeInv == TypeOK /\ PlacesInv /\ LoopInv /\ ResultInv /\ NoneEscapes /\ RecordFits /\ SlotsInv

-----------------------------------------------------------------------------
(* Types.                                                                  *)

LEMMA FirstIsPending ==
  ASSUME Pending # {}
  PROVE  FirstPending \in Pending
<1>. DEFINE Below == OpToRel(<, Nat)
<1>1. PICK x \in Pending : \A y \in Pending : ~(<<y, x>> \in Below)
  <2>1. Pending \subseteq Nat
    BY PlanRunAssumption DEF Pending, Stages
  <2>2. IsWellFoundedOn(Below, Nat)
    BY NatLessThanWellFounded
  <2>. HIDE DEF Below
  <2>. QED
    BY <2>1, <2>2, WFMin
<1>2. \A y \in Pending : x <= y
  <2>. SUFFICES ASSUME NEW y \in Pending PROVE x <= y
    OBVIOUS
  <2>1. x \in Nat /\ y \in Nat
    BY PlanRunAssumption DEF Pending, Stages
  <2>2. y < x => <<y, x>> \in Below
    BY <2>1 DEF OpToRel
  <2>3. ~(y < x)
    BY <1>1, <2>2
  <2>. QED
    BY <2>1, <2>3
<1>. QED
  BY <1>2 DEF FirstPending

LEMMA CodeType ==
  ASSUME TypeOK
  PROVE  ExitCode \in {"success", "domain", "infra", "internal"}
BY DEF ExitCode

LEMMA InitType == Init => TypeOK
<1>. SUFFICES ASSUME Init PROVE TypeOK
  OBVIOUS
<1>1. count \in 0 .. MaxStops
  BY PlanRunAssumption DEF Init
<1>. QED
  BY <1>1 DEF Init, TypeOK, Ends

LEMMA LoopType ==
  ASSUME TypeOK, Loop
  PROVE  TypeOK'
<1>. USE DEF TypeOK, Go, StageTo, Ends
<1>1. CASE SeqStart
  BY <1>1 DEF SeqStart, scopeVars
<1>2. CASE SeqLeave
  BY <1>2 DEF SeqLeave, scopeVars, stageVars
<1>3. CASE SeqFinish
  BY <1>3 DEF SeqFinish, Collect, scopeVars, stageVars
<1>4. CASE ParCheck
  BY <1>4 DEF ParCheck, Requested, scopeVars, stageVars
<1>5. CASE ParStart
  BY <1>5 DEF ParStart, loopVars, scopeVars
<1>6. CASE ParBlock
  BY <1>6 DEF ParBlock, scopeVars, stageVars
<1>7. CASE ParFinish
  BY <1>7 DEF ParFinish, Collect, scopeVars, stageVars
<1>8. CASE ParLeave
  BY <1>8 DEF ParLeave, scopeVars, stageVars
<1>9. CASE Sample
  BY <1>9, CodeType DEF Sample, scopeVars, stageVars
<1>10. CASE Record
  BY <1>10 DEF Record, scopeVars, stageVars
<1>11. CASE Answer
  BY <1>11 DEF Answer, scopeVars, stageVars
<1>. QED
  BY <1>1, <1>2, <1>3, <1>4, <1>5, <1>6, <1>7, <1>8, <1>9, <1>10, <1>11 DEF Loop

LEMMA StageType ==
  ASSUME TypeOK, NEW i \in Stages, Stage(i) \/ ProcessEnds(i) \/ TimeOut(i)
  PROVE  TypeOK'
<1>. USE DEF TypeOK, StageTo, Ends, loopVars, scopeVars
<1>1. CASE LaunchFails(i)
  BY <1>1 DEF LaunchFails
<1>2. CASE Launch(i)
  BY <1>2 DEF Launch
<1>3. CASE Register(i)
  BY <1>3 DEF Register
<1>4. CASE Check(i)
  BY <1>4 DEF Check
<1>5. CASE Reap(i)
  BY <1>5 DEF Reap
<1>6. CASE TimeOutKill(i)
  BY <1>6 DEF TimeOutKill
<1>7. CASE AskStopped(i)
  BY <1>7 DEF AskStopped
<1>8. CASE ProcessEnds(i)
  BY <1>8 DEF ProcessEnds
<1>9. CASE TimeOut(i)
  BY <1>9 DEF TimeOut
<1>. QED
  BY <1>1, <1>2, <1>3, <1>4, <1>5, <1>6, <1>7, <1>8, <1>9 DEF Stage

LEMMA NextType == TypeOK /\ [Next]_vars => TypeOK'
<1>. SUFFICES ASSUME TypeOK, [Next]_vars PROVE TypeOK'
  OBVIOUS
<1>. USE DEF TypeOK
<1>1. CASE Loop
  BY <1>1, LoopType
<1>2. ASSUME NEW i \in Stages, Stage(i) \/ ProcessEnds(i) \/ TimeOut(i) PROVE TypeOK'
  BY <1>2, StageType
<1>3. CASE Request
  BY <1>3, PlanRunAssumption DEF Request, Requests, stageVars, loopVars
<1>4. ASSUME NEW k \in Requests, StopAll(k) PROVE TypeOK'
  BY <1>4 DEF StopAll, loopVars, Ends
<1>5. CASE UNCHANGED vars
  BY <1>5 DEF vars, stageVars, loopVars, scopeVars
<1>. QED
  BY <1>1, <1>2, <1>3, <1>4, <1>5 DEF Next

(* Every variable has its type, whatever the plan and the stops.           *)
THEOREM PlanTypes == Spec => []TypeOK
BY InitType, NextType, PTL DEF Spec

-----------------------------------------------------------------------------
(* Stages and their processes.                                             *)

LEMMA LoopPlaces ==
  ASSUME TypeOK, PlacesInv, Loop
  PROVE  PlacesInv'
<1>. USE DEF TypeOK, PlacesInv, Go, StageTo, Ends, Pending, Returned, Running
<1>1. CASE SeqStart
  BY <1>1, FirstIsPending DEF SeqStart, scopeVars
<1>2. CASE SeqLeave
  BY <1>2 DEF SeqLeave, scopeVars, stageVars
<1>3. CASE SeqFinish
  BY <1>3 DEF SeqFinish, Collect, scopeVars, stageVars
<1>4. CASE ParCheck
  BY <1>4 DEF ParCheck, scopeVars, stageVars
<1>5. CASE ParStart
  BY <1>5, FirstIsPending DEF ParStart, MayStart, loopVars, scopeVars
<1>6. CASE ParBlock
  BY <1>6 DEF ParBlock, scopeVars, stageVars
<1>7. CASE ParFinish
  BY <1>7 DEF ParFinish, Collect, scopeVars, stageVars
<1>8. CASE ParLeave
  BY <1>8 DEF ParLeave, scopeVars, stageVars
<1>9. CASE Sample
  BY <1>9 DEF Sample, scopeVars, stageVars
<1>10. CASE Record
  BY <1>10 DEF Record, scopeVars, stageVars
<1>11. CASE Answer
  BY <1>11 DEF Answer, scopeVars, stageVars
<1>. QED
  BY <1>1, <1>2, <1>3, <1>4, <1>5, <1>6, <1>7, <1>8, <1>9, <1>10, <1>11 DEF Loop

LEMMA StagePlaces ==
  ASSUME TypeOK, PlacesInv, NEW i \in Stages, Stage(i) \/ ProcessEnds(i) \/ TimeOut(i)
  PROVE  PlacesInv'
<1>. USE DEF TypeOK, PlacesInv, StageTo, Ends, loopVars, scopeVars
<1>1. CASE LaunchFails(i)
  BY <1>1 DEF LaunchFails
<1>2. CASE Launch(i)
  BY <1>2 DEF Launch
<1>3. CASE Register(i)
  BY <1>3 DEF Register
<1>4. CASE Check(i)
  BY <1>4 DEF Check
<1>5. CASE Reap(i)
  BY <1>5 DEF Reap
<1>6. CASE TimeOutKill(i)
  BY <1>6 DEF TimeOutKill
<1>7. CASE AskStopped(i)
  BY <1>7 DEF AskStopped
<1>8. CASE ProcessEnds(i)
  BY <1>8 DEF ProcessEnds
<1>9. CASE TimeOut(i)
  BY <1>9 DEF TimeOut
<1>. QED
  BY <1>1, <1>2, <1>3, <1>4, <1>5, <1>6, <1>7, <1>8, <1>9 DEF Stage

LEMMA NextPlaces == TypeOK /\ PlacesInv /\ [Next]_vars => PlacesInv'
<1>. SUFFICES ASSUME TypeOK, PlacesInv, [Next]_vars PROVE PlacesInv'
  OBVIOUS
<1>1. CASE Loop
  BY <1>1, LoopPlaces
<1>2. ASSUME NEW i \in Stages, Stage(i) \/ ProcessEnds(i) \/ TimeOut(i) PROVE PlacesInv'
  BY <1>2, StagePlaces
<1>3. CASE Request
  BY <1>3 DEF Request, PlacesInv, stageVars, loopVars
<1>4. ASSUME NEW k \in Requests, StopAll(k) PROVE PlacesInv'
  BY <1>4 DEF StopAll, PlacesInv, TypeOK, loopVars
<1>5. CASE UNCHANGED vars
  BY <1>5 DEF PlacesInv, vars, stageVars, loopVars, scopeVars
<1>. QED
  BY <1>1, <1>2, <1>3, <1>4, <1>5 DEF Next

-----------------------------------------------------------------------------
(* Stops.                                                                  *)

LEMMA NextEscapes == TypeOK /\ PlacesInv /\ NoneEscapes /\ [Next]_vars => NoneEscapes'
<1>. SUFFICES ASSUME TypeOK, PlacesInv, NoneEscapes, [Next]_vars PROVE NoneEscapes'
  OBVIOUS
<1>. USE DEF TypeOK, PlacesInv, NoneEscapes, Requested
<1>1. CASE Loop
  <2>1. UNCHANGED <<alive, termed, scopeVars>>
    BY <1>1 DEF Loop, SeqStart, SeqLeave, SeqFinish, ParCheck, ParStart, ParBlock, ParFinish, ParLeave,
                Sample, Record, Answer, loopVars, stageVars
  <2>2. \A i \in Stages : step'[i] = "wait" => step[i] = "wait"
    BY <1>1 DEF Loop, SeqStart, SeqLeave, SeqFinish, ParCheck, ParStart, ParBlock, ParFinish, ParLeave,
                Sample, Record, Answer, StageTo, loopVars, stageVars
  <2>. QED
    BY <2>1, <2>2 DEF scopeVars
<1>2. ASSUME NEW i \in Stages, Stage(i) \/ ProcessEnds(i) \/ TimeOut(i) PROVE NoneEscapes'
  BY <1>2 DEF Stage, LaunchFails, Launch, Register, Check, Reap, TimeOutKill, AskStopped, ProcessEnds,
              TimeOut, StageTo, loopVars, scopeVars
<1>3. CASE Request
  BY <1>3 DEF Request
<1>4. ASSUME NEW k \in Requests, StopAll(k) PROVE NoneEscapes'
  BY <1>4 DEF StopAll
<1>5. CASE UNCHANGED vars
  BY <1>5 DEF vars, stageVars, loopVars, scopeVars
<1>. QED
  BY <1>1, <1>2, <1>3, <1>4, <1>5 DEF Next

-----------------------------------------------------------------------------
(* The loop over the stages.                                               *)

LEMMA LoopLoop ==
  ASSUME TypeOK, PlacesInv, LoopInv, Loop
  PROVE  LoopInv'
<1>. USE DEF TypeOK, PlacesInv, LoopInv, After, Sequential, Go, StageTo, Ends, Pending, Returned, Running
<1>1. CASE SeqStart
  BY <1>1, FirstIsPending DEF SeqStart, scopeVars
<1>2. CASE SeqLeave
  BY <1>2 DEF SeqLeave, scopeVars, stageVars
<1>3. CASE SeqFinish
  BY <1>3 DEF SeqFinish, Collect, scopeVars, stageVars
<1>4. CASE ParCheck
  BY <1>4 DEF ParCheck, scopeVars, stageVars
<1>5. CASE ParStart
  BY <1>5, FirstIsPending DEF ParStart, MayStart, loopVars, scopeVars
<1>6. CASE ParBlock
  BY <1>6 DEF ParBlock, scopeVars, stageVars
<1>7. CASE ParFinish
  BY <1>7 DEF ParFinish, Collect, scopeVars, stageVars
<1>8. CASE ParLeave
  BY <1>8 DEF ParLeave, scopeVars, stageVars
<1>9. CASE Sample
  BY <1>9 DEF Sample, scopeVars, stageVars
<1>10. CASE Record
  BY <1>10 DEF Record, scopeVars, stageVars
<1>11. CASE Answer
  BY <1>11 DEF Answer, scopeVars, stageVars
<1>. QED
  BY <1>1, <1>2, <1>3, <1>4, <1>5, <1>6, <1>7, <1>8, <1>9, <1>10, <1>11 DEF Loop

\* A stage's own steps change nothing the run knows of it.
LEMMA StageRunning ==
  ASSUME TypeOK, NEW i \in Stages, Stage(i) \/ ProcessEnds(i) \/ TimeOut(i)
  PROVE  Running' = Running /\ Pending' = Pending /\ UNCHANGED <<plan, loopVars, count>>
BY DEF TypeOK, Running, Pending, Stage, LaunchFails, Launch, Register, Check, Reap, TimeOutKill, AskStopped,
       ProcessEnds, TimeOut, StageTo, loopVars, scopeVars

LEMMA NextLoop == TypeOK /\ PlacesInv /\ LoopInv /\ [Next]_vars => LoopInv'
<1>. SUFFICES ASSUME TypeOK, PlacesInv, LoopInv, [Next]_vars PROVE LoopInv'
  OBVIOUS
<1>. USE DEF LoopInv, After, Sequential
<1>1. CASE Loop
  BY <1>1, LoopLoop
<1>2. ASSUME NEW i \in Stages, Stage(i) \/ ProcessEnds(i) \/ TimeOut(i) PROVE LoopInv'
  BY <1>2, StageRunning DEF loopVars
<1>3. CASE Request
  BY <1>3 DEF Request, Running, stageVars, loopVars
<1>4. ASSUME NEW k \in Requests, StopAll(k) PROVE LoopInv'
  BY <1>4 DEF StopAll, Running, loopVars
<1>5. CASE UNCHANGED vars
  BY <1>5 DEF Running, vars, stageVars, loopVars, scopeVars
<1>. QED
  BY <1>1, <1>2, <1>3, <1>4, <1>5 DEF Next

-----------------------------------------------------------------------------
(* Slots.                                                                  *)

LEMMA StagesFinite == \A S \in SUBSET Stages : IsFiniteSet(S) /\ Cardinality(S) \in Nat
<1>1. IsFiniteSet(Stages)
  BY FS_Interval, PlanRunAssumption DEF Stages
<1>. QED
  BY <1>1, FS_Subset, FS_CardinalityType

\* When no stage runs there is a slot.
LEMMA SlotFree == TypeOK /\ Running = {} => Cardinality(Running) < plan.parallel
BY FS_EmptySet, PlanRunAssumption DEF TypeOK, Plans

LEMMA NextSlots == TypeOK /\ PlacesInv /\ LoopInv /\ SlotsInv /\ [Next]_vars => SlotsInv'
<1>. SUFFICES ASSUME TypeOK, PlacesInv, LoopInv, SlotsInv, [Next]_vars PROVE SlotsInv'
  OBVIOUS
<1>1. plan' = plan /\ plan.parallel \in Nat
  BY PlanRunAssumption DEF Next, Loop, SeqStart, SeqLeave, SeqFinish, ParCheck, ParStart, ParBlock, ParFinish,
        ParLeave, Sample, Record, Answer, Stage, LaunchFails, Launch, Register, Check, Reap, TimeOutKill,
        AskStopped, ProcessEnds, TimeOut, Request, StopAll, vars, TypeOK, Plans
\* A step that starts a stage has a slot for it.
<1>2. CASE SeqStart \/ ParStart
  <2>1. Running' \subseteq Running \cup {FirstPending} /\ Cardinality(Running) < plan.parallel
    <3>1. CASE SeqStart
      BY <1>2, <3>1, SlotFree DEF SeqStart, StageTo, Running, LoopInv, TypeOK
    <3>2. CASE ParStart
      BY <1>2, <3>2 DEF ParStart, MayStart, StageTo, Running, loopVars, TypeOK
    <3>. QED
      BY <1>2, <3>1, <3>2
  <2>2. IsFiniteSet(Running) /\ Cardinality(Running) \in Nat
    BY StagesFinite DEF Running
  <2>3. Cardinality(Running') <= Cardinality(Running \cup {FirstPending})
    BY <2>1, <2>2, FS_AddElement, FS_Subset
  <2>4. Cardinality(Running \cup {FirstPending}) <= Cardinality(Running) + 1
    BY <2>2, FS_AddElement
  <2>5. Cardinality(Running') \in Nat /\ Cardinality(Running \cup {FirstPending}) \in Nat
    BY <2>1, <2>2, FS_AddElement, FS_Subset, FS_CardinalityType
  <2>. QED
    BY <1>1, <2>1, <2>2, <2>3, <2>4, <2>5 DEF SlotsInv
\* Every other step leaves at most the stages that ran before.
<1>3. CASE ~(SeqStart \/ ParStart)
  <2>1. Running' \subseteq Running
    <3>1. CASE SeqFinish \/ ParFinish
      BY <3>1 DEF SeqFinish, ParFinish, Collect, Running, Returned, stageVars, PlacesInv, TypeOK
    <3>2. CASE SeqLeave \/ ParCheck \/ ParBlock \/ ParLeave \/ Sample \/ Record \/ Answer
      BY <3>2 DEF SeqLeave, ParCheck, ParBlock, ParLeave, Sample, Record, Answer, Running, stageVars
    <3>3. ASSUME NEW i \in Stages, Stage(i) \/ ProcessEnds(i) \/ TimeOut(i) PROVE Running' \subseteq Running
      BY <3>3, StageRunning
    <3>4. CASE Request \/ \E k \in Requests : StopAll(k)
      BY <3>4 DEF Request, StopAll, Running, stageVars, loopVars
    <3>5. CASE UNCHANGED vars
      BY <3>5 DEF vars, stageVars, loopVars, Running
    <3>. QED
      BY <1>3, <3>1, <3>2, <3>3, <3>4, <3>5 DEF Next, Loop
  <2>2. Cardinality(Running') <= Cardinality(Running)
    BY <2>1, StagesFinite, FS_Subset DEF Running
  <2>3. Cardinality(Running) \in Nat /\ Cardinality(Running') \in Nat
    BY <2>1, StagesFinite DEF Running
  <2>. QED
    BY <1>1, <2>2, <2>3 DEF SlotsInv
<1>. QED
  BY <1>2, <1>3

-----------------------------------------------------------------------------
(* Results.                                                                *)

LEMMA LoopResults ==
  ASSUME TypeOK, PlacesInv, LoopInv, ResultInv, Loop
  PROVE  ResultInv'
<1>. USE DEF TypeOK, PlacesInv, LoopInv, ResultInv, Bad, After, Sequential, Requested, Go, StageTo, Ends,
             Pending, Returned, Running
<1>1. CASE SeqStart
  BY <1>1, FirstIsPending DEF SeqStart, scopeVars
<1>2. CASE SeqLeave
  BY <1>2 DEF SeqLeave, scopeVars, stageVars
<1>3. CASE SeqFinish
  BY <1>3 DEF SeqFinish, Collect, scopeVars, stageVars
<1>4. CASE ParCheck
  BY <1>4 DEF ParCheck, scopeVars, stageVars
<1>5. CASE ParStart
  BY <1>5, FirstIsPending DEF ParStart, MayStart, loopVars, scopeVars
<1>6. CASE ParBlock
  BY <1>6, SlotFree DEF ParBlock, MayStart, scopeVars, stageVars
<1>7. CASE ParFinish
  BY <1>7 DEF ParFinish, Collect, scopeVars, stageVars
<1>8. CASE ParLeave
  BY <1>8 DEF ParLeave, scopeVars, stageVars
<1>9. CASE Sample
  BY <1>9, CodeType DEF Sample, scopeVars, stageVars
<1>10. CASE Record
  BY <1>10 DEF Record, scopeVars, stageVars
<1>11. CASE Answer
  BY <1>11 DEF Answer, scopeVars, stageVars
<1>. QED
  BY <1>1, <1>2, <1>3, <1>4, <1>5, <1>6, <1>7, <1>8, <1>9, <1>10, <1>11 DEF Loop

LEMMA NextResults == TypeOK /\ PlacesInv /\ LoopInv /\ ResultInv /\ [Next]_vars => ResultInv'
<1>. SUFFICES ASSUME TypeOK, PlacesInv, LoopInv, ResultInv, [Next]_vars PROVE ResultInv'
  OBVIOUS
<1>. USE DEF ResultInv, Bad, After, Requested
<1>1. CASE Loop
  BY <1>1, LoopResults
<1>2. ASSUME NEW i \in Stages, Stage(i) \/ ProcessEnds(i) \/ TimeOut(i) PROVE ResultInv'
  <2>1. \A j \in Stages : rc'[j] = "stopped" => rc[j] = "stopped" \/ Requested
    BY <1>2 DEF TypeOK, Stage, LaunchFails, Launch, Register, Check, Reap, TimeOutKill, AskStopped,
                ProcessEnds, TimeOut
  <2>. QED
    BY <1>2, <2>1, StageRunning DEF loopVars
<1>3. CASE Request
  BY <1>3 DEF Request, Pending, TypeOK, stageVars, loopVars
<1>4. ASSUME NEW k \in Requests, StopAll(k) PROVE ResultInv'
  BY <1>4 DEF StopAll, Pending, loopVars
<1>5. CASE UNCHANGED vars
  BY <1>5 DEF Pending, vars, stageVars, loopVars, scopeVars
<1>. QED
  BY <1>1, <1>2, <1>3, <1>4, <1>5 DEF Next

\* What is recorded follows from the results, which then stay.
LEMMA NextRecord ==
  TypeOK /\ LoopInv /\ ResultInv /\ RecordFits /\ [Next]_vars => RecordFits'
<1>. SUFFICES ASSUME TypeOK, LoopInv, ResultInv, RecordFits, [Next]_vars PROVE RecordFits'
  OBVIOUS
<1>1. CASE Sample
  <2>1. CASE Requested
    BY <1>1, <2>1 DEF Sample, RecordFits
  <2>2. CASE ~Requested
    <3>1. UNCHANGED results /\ recorded' = ExitCode
      BY <1>1, <2>2 DEF Sample
    <3>2. \A i \in Stages : results[i] # "stopped"
      BY <2>2 DEF ResultInv
    <3>3. ASSUME ExitCode = "success" PROVE \A i \in Stages : results[i] = "pass"
      <4>1. \A i \in Stages : results[i] \in {"none", "pass"}
        BY <3>3 DEF ExitCode
      <4>2. Pending = {} /\ Running = {}
        BY <1>1, <2>2, <4>1 DEF Sample, ResultInv, LoopInv, Bad, After
      <4>. QED
        BY <4>1, <4>2 DEF Pending, Running
    <3>. QED
      BY <3>1, <3>2, <3>3 DEF RecordFits
  <2>. QED
    BY <2>1, <2>2
<1>2. CASE ~Sample
  <2>1. recorded' = recorded
    BY <1>2 DEF Next, Loop, SeqStart, SeqLeave, SeqFinish, ParCheck, ParStart, ParBlock, ParFinish, ParLeave,
        Record, Answer, Stage, LaunchFails, Launch, Register, Check, Reap, TimeOutKill,
        AskStopped, ProcessEnds, TimeOut, Request, StopAll, vars, loopVars
  <2>2. recorded # "none" => results' = results
    BY <1>2 DEF Next, Loop, SeqStart, SeqLeave, SeqFinish, ParCheck, ParStart, ParBlock, ParFinish, ParLeave,
        Record, Answer, Stage, LaunchFails, Launch, Register, Check, Reap, TimeOutKill,
        AskStopped, ProcessEnds, TimeOut, Request, StopAll, vars, loopVars, ResultInv, After
  <2>. QED
    BY <2>1, <2>2 DEF RecordFits
<1>. QED
  BY <1>1, <1>2

-----------------------------------------------------------------------------
(* The theorems.                                                           *)

LEMMA InitSafe == Init => SafeInv
<1>. SUFFICES ASSUME Init PROVE SafeInv
  OBVIOUS
<1>1. TypeOK
  BY InitType
<1>2. Running = {}
  BY DEF Init, Running
<1>3. SlotsInv
  BY <1>1, <1>2, SlotFree, FS_EmptySet, PlanRunAssumption DEF SlotsInv, TypeOK, Plans
<1>. QED
  BY <1>1, <1>2, <1>3 DEF Init, SafeInv, PlacesInv, LoopInv, ResultInv, NoneEscapes, RecordFits, Bad, After,
                          Requested

LEMMA NextSafe == SafeInv /\ [Next]_vars => SafeInv'
BY NextType, NextPlaces, NextLoop, NextResults, NextEscapes, NextRecord, NextSlots DEF SafeInv

LEMMA SafeHolds == Spec => []SafeInv
BY InitSafe, NextSafe, PTL DEF Spec

(* A stop reaches every process: once the requests have sent their signals, *)
(* whatever a stage waits for was told to end (executor.py, interrupt.py).  *)
THEOREM StopReachesAll == Spec => []NoneEscapes
<1>1. SafeInv => NoneEscapes
  BY DEF SafeInv
<1>. QED
  BY <1>1, SafeHolds, PTL

(* A run that left its loop has no process and a result for each stage it    *)
(* started (orchestrator.py).                                                *)
THEOREM LeavesNothing == Spec => []NothingLeftBehind
<1>1. SafeInv => NothingLeftBehind
  BY DEF SafeInv, TypeOK, PlacesInv, LoopInv, NothingLeftBehind, Running, After
<1>. QED
  BY <1>1, SafeHolds, PTL

(* No more processes than max_parallel_stages run at once.                   *)
THEOREM SlotsKept == Spec => []AtMostMaxParallel
<1>1. SafeInv => AtMostMaxParallel
  <2>. SUFFICES ASSUME SafeInv PROVE AtMostMaxParallel
    OBVIOUS
  <2>1. alive \subseteq Running
    BY DEF SafeInv, TypeOK, PlacesInv, Running
  <2>2. Cardinality(alive) <= Cardinality(Running)
    BY <2>1, StagesFinite, FS_Subset DEF Running
  <2>3. /\ Cardinality(alive) \in Nat /\ Cardinality(Running) \in Nat /\ plan.parallel \in Nat
    BY <2>1, StagesFinite, PlanRunAssumption DEF Running, SafeInv, TypeOK, Plans
  <2>. QED
    BY <2>2, <2>3 DEF SafeInv, SlotsInv, AtMostMaxParallel
<1>. QED
  BY <1>1, SafeHolds, PTL

(* The history fits the stages: a stopped stage makes a stopped run, and a   *)
(* success is one of all stages (orchestrator.py).                           *)
THEOREM HistoryFits == Spec => []RecordFits
<1>1. SafeInv => RecordFits
  BY DEF SafeInv
<1>. QED
  BY <1>1, SafeHolds, PTL

(* With fail_fast nothing starts after a failure was seen (orchestrator.py). *)
THEOREM FailsFast == Spec => FailFastStops
<1>. DEFINE Failed == plan.failFast /\ \E i \in Stages : results[i] \notin {"none", "pass"}
            SameStarted == {i \in Stages : step'[i] # "idle"} = {i \in Stages : step[i] # "idle"}
<1>1. SafeInv /\ [Next]_vars => [Failed => SameStarted]_vars
  <2>. SUFFICES ASSUME SafeInv, Next, Failed PROVE SameStarted
    BY DEF SafeInv
  <2>1. aborted
    BY DEF SafeInv, ResultInv, Bad
  <2>2. ~SeqStart /\ ~ParStart
    BY <2>1 DEF SafeInv, LoopInv, SeqStart, ParStart, MayStart
  <2>. QED
    BY <2>2 DEF SafeInv, TypeOK, Next, Loop, SeqLeave, SeqFinish, ParCheck, ParBlock, ParFinish, ParLeave,
        Sample, Record, Answer, Stage, LaunchFails, Launch, Register, Check, Reap, TimeOutKill, StageTo,
        AskStopped, ProcessEnds, TimeOut, Request, StopAll, stageVars
<1>. QED
  BY <1>1, SafeHolds, PTL DEF FailFastStops, Spec
=============================================================================
