----------------------------- MODULE RunnerProofs ----------------------------
(***************************************************************************)
(* What holds of the runner service for any number of stages and of slots, *)
(* whatever the stages ignore and however often the service dies.          *)
(***************************************************************************)
EXTENDS RunnerService, FiniteSetTheorems, TLAPS

\* What is assumed of the constants.
Finite == IsFiniteSet(Stages) /\ MaxRuns \in Nat

-----------------------------------------------------------------------------
(* The inductive invariant.                                                *)

TypesInv ==
  /\ handler \in [Stages -> {"none", "wait", "start", "stream", "reap", "leave", "over"}]
  /\ container \in [Stages -> {"none", "creating", "up", "ended", "removed"}]
  /\ service \in {"up", "down"}
  /\ client \in [Stages -> {"new", "on", "term", "grace", "kill", "done"}]
  /\ code \in [Stages -> {"none", "exit", "lost", "failed"}]
  /\ \A r \in Stages : client[r] = "done" <=> code[r] # "none"
  /\ open \subseteq Stages /\ sent \subseteq Stages /\ killed \subseteq Stages
  /\ active = Holding
  /\ \A r \in Stages : handler[r] # "none" => client[r] # "new"

\* What is left of the semaphore is what the threads did not take.
SlotsInv ==
  /\ slots \in Nat
  /\ slots = MaxRuns - Cardinality(Holding)

\* A container that runs is waited for by its thread, unless the service has died: then
\* no thread is left, and the containers are no more than there were slots.
ContainerInv ==
  /\ service = "up" => \A r \in Stages : container[r] \in {"creating", "up"} =>
                                           handler[r] \in {"stream", "reap"}
  /\ service = "down" => \A r \in Stages : handler[r] \in {"none", "over"}

\* An exit code is on its way, or read, only when the container is over; nobody starts
\* another for the same stage.
ExitInv ==
  \A r \in Stages : r \in sent \/ code[r] = "exit" =>
    handler[r] \in {"leave", "over"} /\ container[r] \notin {"creating", "up"}

SafeInv == TypesInv /\ SlotsInv /\ ContainerInv /\ ExitInv

-----------------------------------------------------------------------------
(* Each part is kept by each step.                                         *)

LEMMA NextTypes ==
  ASSUME Finite, TypesInv, [Next]_vars
  PROVE  TypesInv'
<1>. USE DEF TypesInv, Holding, serviceVars, clientVars
<1>1. ASSUME NEW r \in Stages, Post(r) PROVE TypesInv'
  BY <1>1 DEF Post, Thread
<1>2. ASSUME NEW r \in Stages, TakeSlot(r) PROVE TypesInv'
  BY <1>2 DEF TakeSlot, Thread
<1>3. ASSUME NEW r \in Stages, StartDocker(r) PROVE TypesInv'
  BY <1>3 DEF StartDocker, Thread, Becomes
<1>4. ASSUME NEW r \in Stages, Notice(r) PROVE TypesInv'
  BY <1>4 DEF Notice, Thread, Signal, Becomes
<1>5. ASSUME NEW r \in Stages, Exit(r) PROVE TypesInv'
  BY <1>5 DEF Exit, Thread
<1>6. ASSUME NEW r \in Stages, Reap(r) PROVE TypesInv'
  BY <1>6 DEF Reap, Thread
<1>7. ASSUME NEW r \in Stages, Leave(r) PROVE TypesInv'
  BY <1>7 DEF Leave, Thread
<1>8. ASSUME NEW r \in Stages, Created(r) PROVE TypesInv'
  BY <1>8 DEF Created, Becomes
<1>9. ASSUME NEW r \in Stages, Ends(r) PROVE TypesInv'
  BY <1>9 DEF Ends, Becomes
<1>10. ASSUME NEW r \in Stages, ReadExit(r) PROVE TypesInv'
  BY <1>10 DEF ReadExit, Live, Finish
<1>11. ASSUME NEW r \in Stages, IdleTimeout(r) PROVE TypesInv'
  BY <1>11 DEF IdleTimeout, Live, Finish
<1>12. ASSUME NEW r \in Stages, Lost(r) PROVE TypesInv'
  BY <1>12 DEF Lost, Live, Finish
<1>13. ASSUME NEW r \in Stages, Stop(r) PROVE TypesInv'
  BY <1>13 DEF Stop
<1>14. ASSUME NEW r \in Stages, Terminate(r) PROVE TypesInv'
  BY <1>14 DEF Terminate, Delete, Signal, Becomes
<1>15. CASE Crash
  BY <1>15 DEF Crash
<1>16. CASE Restart
  BY <1>16 DEF Restart
<1>17. CASE UNCHANGED vars
  BY <1>17 DEF vars
<1>. QED
  BY <1>1, <1>2, <1>3, <1>4, <1>5, <1>6, <1>7, <1>8, <1>9, <1>10,
     <1>11, <1>12, <1>13, <1>14, <1>15, <1>16, <1>17
     DEF Next, Handle

LEMMA HoldingFinite ==
  ASSUME Finite
  PROVE  IsFiniteSet(Holding) /\ Cardinality(Holding) \in Nat
<1>1. IsFiniteSet(Holding)
  BY FS_Subset DEF Finite, Holding
<1>. QED
  BY <1>1, FS_CardinalityType

LEMMA NextSlots ==
  ASSUME Finite, TypesInv, SlotsInv, [Next]_vars
  PROVE  SlotsInv'
<1>. USE DEF TypesInv, SlotsInv, Holding, serviceVars, clientVars
<1>1. ASSUME NEW r \in Stages, Post(r) PROVE SlotsInv'
  <2>1. Holding' = Holding /\ slots' = slots
    BY <1>1 DEF Post, Thread
  <2>. QED
    BY <2>1
<1>2. ASSUME NEW r \in Stages, TakeSlot(r) PROVE SlotsInv'
  <2>1. Holding' = Holding \cup {r} /\ r \notin Holding
    BY <1>2 DEF TakeSlot, Thread
  <2>2. Cardinality(Holding') = Cardinality(Holding) + 1
    BY <2>1, HoldingFinite, FS_AddElement
  <2>3. slots > 0 /\ slots' = slots - 1
    BY <1>2 DEF TakeSlot
  <2>. QED
    BY <2>2, <2>3, HoldingFinite DEF Finite
<1>3. ASSUME NEW r \in Stages, StartDocker(r) PROVE SlotsInv'
  <2>1. Holding' = Holding /\ slots' = slots
    BY <1>3 DEF StartDocker, Thread, Becomes
  <2>. QED
    BY <2>1
<1>4. ASSUME NEW r \in Stages, Notice(r) PROVE SlotsInv'
  <2>1. Holding' = Holding /\ slots' = slots
    BY <1>4 DEF Notice, Thread, Signal, Becomes
  <2>. QED
    BY <2>1
<1>5. ASSUME NEW r \in Stages, Exit(r) PROVE SlotsInv'
  <2>1. Holding' = Holding /\ slots' = slots
    BY <1>5 DEF Exit, Thread
  <2>. QED
    BY <2>1
<1>6. ASSUME NEW r \in Stages, Reap(r) PROVE SlotsInv'
  <2>1. Holding' = Holding /\ slots' = slots
    BY <1>6 DEF Reap, Thread
  <2>. QED
    BY <2>1
<1>7. ASSUME NEW r \in Stages, Leave(r) PROVE SlotsInv'
  <2>1. Holding' = Holding \ {r} /\ r \in Holding
    BY <1>7 DEF Leave, Thread
  <2>2. Cardinality(Holding') = Cardinality(Holding) - 1
    BY <2>1, HoldingFinite, FS_RemoveElement
  <2>3. slots' = slots + 1
    BY <1>7 DEF Leave
  <2>. QED
    BY <2>2, <2>3, HoldingFinite DEF Finite
<1>8. ASSUME NEW r \in Stages, Created(r) PROVE SlotsInv'
  <2>1. Holding' = Holding /\ slots' = slots
    BY <1>8 DEF Created, Becomes
  <2>. QED
    BY <2>1
<1>9. ASSUME NEW r \in Stages, Ends(r) PROVE SlotsInv'
  <2>1. Holding' = Holding /\ slots' = slots
    BY <1>9 DEF Ends, Becomes
  <2>. QED
    BY <2>1
<1>10. ASSUME NEW r \in Stages, ReadExit(r) PROVE SlotsInv'
  <2>1. Holding' = Holding /\ slots' = slots
    BY <1>10 DEF ReadExit, Live, Finish
  <2>. QED
    BY <2>1
<1>11. ASSUME NEW r \in Stages, IdleTimeout(r) PROVE SlotsInv'
  <2>1. Holding' = Holding /\ slots' = slots
    BY <1>11 DEF IdleTimeout, Live, Finish
  <2>. QED
    BY <2>1
<1>12. ASSUME NEW r \in Stages, Lost(r) PROVE SlotsInv'
  <2>1. Holding' = Holding /\ slots' = slots
    BY <1>12 DEF Lost, Live, Finish
  <2>. QED
    BY <2>1
<1>13. ASSUME NEW r \in Stages, Stop(r) PROVE SlotsInv'
  <2>1. Holding' = Holding /\ slots' = slots
    BY <1>13 DEF Stop
  <2>. QED
    BY <2>1
<1>14. ASSUME NEW r \in Stages, Terminate(r) PROVE SlotsInv'
  <2>1. Holding' = Holding /\ slots' = slots
    BY <1>14 DEF Terminate, Delete, Signal, Becomes
  <2>. QED
    BY <2>1
<1>15. CASE Crash
  <2>1. Holding' = {} /\ slots' = MaxRuns
    BY <1>15 DEF Crash
  <2>2. Cardinality(Holding') = 0
    BY <2>1, FS_EmptySet
  <2>. QED
    BY <2>1, <2>2 DEF Finite
<1>16. CASE Restart
  <2>1. Holding' = Holding /\ slots' = slots
    BY <1>16 DEF Restart
  <2>. QED
    BY <2>1
<1>17. CASE UNCHANGED vars
  <2>1. Holding' = Holding /\ slots' = slots
    BY <1>17 DEF vars
  <2>. QED
    BY <2>1
<1>. QED
  BY <1>1, <1>2, <1>3, <1>4, <1>5, <1>6, <1>7, <1>8, <1>9, <1>10,
     <1>11, <1>12, <1>13, <1>14, <1>15, <1>16, <1>17
     DEF Next, Handle

LEMMA NextContainer ==
  ASSUME Finite, SafeInv, [Next]_vars
  PROVE  ContainerInv'
<1>. USE DEF SafeInv, TypesInv, ContainerInv, serviceVars, clientVars
<1>1. ASSUME NEW r \in Stages, Post(r) PROVE ContainerInv'
  BY <1>1 DEF Post, Thread
<1>2. ASSUME NEW r \in Stages, TakeSlot(r) PROVE ContainerInv'
  BY <1>2 DEF TakeSlot, Thread
<1>3. ASSUME NEW r \in Stages, StartDocker(r) PROVE ContainerInv'
  BY <1>3 DEF StartDocker, Thread, Becomes
<1>4. ASSUME NEW r \in Stages, Notice(r) PROVE ContainerInv'
  BY <1>4 DEF Notice, Thread, Signal, Becomes
<1>5. ASSUME NEW r \in Stages, Exit(r) PROVE ContainerInv'
  BY <1>5 DEF Exit, Thread
<1>6. ASSUME NEW r \in Stages, Reap(r) PROVE ContainerInv'
  BY <1>6 DEF Reap, Thread
<1>7. ASSUME NEW r \in Stages, Leave(r) PROVE ContainerInv'
  BY <1>7 DEF Leave, Thread
<1>8. ASSUME NEW r \in Stages, Created(r) PROVE ContainerInv'
  BY <1>8 DEF Created, Becomes
<1>9. ASSUME NEW r \in Stages, Ends(r) PROVE ContainerInv'
  BY <1>9 DEF Ends, Becomes
<1>10. ASSUME NEW r \in Stages, ReadExit(r) PROVE ContainerInv'
  BY <1>10 DEF ReadExit, Live, Finish
<1>11. ASSUME NEW r \in Stages, IdleTimeout(r) PROVE ContainerInv'
  BY <1>11 DEF IdleTimeout, Live, Finish
<1>12. ASSUME NEW r \in Stages, Lost(r) PROVE ContainerInv'
  BY <1>12 DEF Lost, Live, Finish
<1>13. ASSUME NEW r \in Stages, Stop(r) PROVE ContainerInv'
  BY <1>13 DEF Stop
<1>14. ASSUME NEW r \in Stages, Terminate(r) PROVE ContainerInv'
  BY <1>14 DEF Terminate, Delete, Signal, Becomes
<1>15. CASE Crash
  BY <1>15 DEF Crash
<1>16. CASE Restart
  BY <1>16 DEF Restart
<1>17. CASE UNCHANGED vars
  BY <1>17 DEF vars
<1>. QED
  BY <1>1, <1>2, <1>3, <1>4, <1>5, <1>6, <1>7, <1>8, <1>9, <1>10,
     <1>11, <1>12, <1>13, <1>14, <1>15, <1>16, <1>17
     DEF Next, Handle

LEMMA NextExit ==
  ASSUME Finite, SafeInv, [Next]_vars
  PROVE  ExitInv'
<1>. USE DEF SafeInv, TypesInv, ContainerInv, ExitInv, serviceVars, clientVars
<1>1. ASSUME NEW r \in Stages, Post(r) PROVE ExitInv'
  BY <1>1 DEF Post, Thread
<1>2. ASSUME NEW r \in Stages, TakeSlot(r) PROVE ExitInv'
  BY <1>2 DEF TakeSlot, Thread
<1>3. ASSUME NEW r \in Stages, StartDocker(r) PROVE ExitInv'
  BY <1>3 DEF StartDocker, Thread, Becomes
<1>4. ASSUME NEW r \in Stages, Notice(r) PROVE ExitInv'
  BY <1>4 DEF Notice, Thread, Signal, Becomes
<1>5. ASSUME NEW r \in Stages, Exit(r) PROVE ExitInv'
  BY <1>5 DEF Exit, Thread
<1>6. ASSUME NEW r \in Stages, Reap(r) PROVE ExitInv'
  BY <1>6 DEF Reap, Thread
<1>7. ASSUME NEW r \in Stages, Leave(r) PROVE ExitInv'
  BY <1>7 DEF Leave, Thread
<1>8. ASSUME NEW r \in Stages, Created(r) PROVE ExitInv'
  BY <1>8 DEF Created, Becomes
<1>9. ASSUME NEW r \in Stages, Ends(r) PROVE ExitInv'
  BY <1>9 DEF Ends, Becomes
<1>10. ASSUME NEW r \in Stages, ReadExit(r) PROVE ExitInv'
  BY <1>10 DEF ReadExit, Live, Finish
<1>11. ASSUME NEW r \in Stages, IdleTimeout(r) PROVE ExitInv'
  BY <1>11 DEF IdleTimeout, Live, Finish
<1>12. ASSUME NEW r \in Stages, Lost(r) PROVE ExitInv'
  BY <1>12 DEF Lost, Live, Finish
<1>13. ASSUME NEW r \in Stages, Stop(r) PROVE ExitInv'
  BY <1>13 DEF Stop
<1>14. ASSUME NEW r \in Stages, Terminate(r) PROVE ExitInv'
  BY <1>14 DEF Terminate, Delete, Signal, Becomes
<1>15. CASE Crash
  BY <1>15 DEF Crash
<1>16. CASE Restart
  BY <1>16 DEF Restart
<1>17. CASE UNCHANGED vars
  BY <1>17 DEF vars
<1>. QED
  BY <1>1, <1>2, <1>3, <1>4, <1>5, <1>6, <1>7, <1>8, <1>9, <1>10,
     <1>11, <1>12, <1>13, <1>14, <1>15, <1>16, <1>17
     DEF Next, Handle

LEMMA DownStartsNone ==
  ASSUME Finite, SafeInv, service' = "down", [Next]_vars
  PROVE  Running' \subseteq Running
<1>. USE DEF SafeInv, TypesInv, ContainerInv, Running, serviceVars, clientVars
<1>1. ASSUME NEW r \in Stages, Post(r) PROVE Running' \subseteq Running
  BY <1>1 DEF Post, Thread
<1>2. ASSUME NEW r \in Stages, TakeSlot(r) PROVE Running' \subseteq Running
  BY <1>2 DEF TakeSlot, Thread
<1>3. ASSUME NEW r \in Stages, StartDocker(r) PROVE Running' \subseteq Running
  BY <1>3 DEF StartDocker, Thread, Becomes
<1>4. ASSUME NEW r \in Stages, Notice(r) PROVE Running' \subseteq Running
  BY <1>4 DEF Notice, Thread, Signal, Becomes
<1>5. ASSUME NEW r \in Stages, Exit(r) PROVE Running' \subseteq Running
  BY <1>5 DEF Exit, Thread
<1>6. ASSUME NEW r \in Stages, Reap(r) PROVE Running' \subseteq Running
  BY <1>6 DEF Reap, Thread
<1>7. ASSUME NEW r \in Stages, Leave(r) PROVE Running' \subseteq Running
  BY <1>7 DEF Leave, Thread
<1>8. ASSUME NEW r \in Stages, Created(r) PROVE Running' \subseteq Running
  BY <1>8 DEF Created, Becomes
<1>9. ASSUME NEW r \in Stages, Ends(r) PROVE Running' \subseteq Running
  BY <1>9 DEF Ends, Becomes
<1>10. ASSUME NEW r \in Stages, ReadExit(r) PROVE Running' \subseteq Running
  BY <1>10 DEF ReadExit, Live, Finish
<1>11. ASSUME NEW r \in Stages, IdleTimeout(r) PROVE Running' \subseteq Running
  BY <1>11 DEF IdleTimeout, Live, Finish
<1>12. ASSUME NEW r \in Stages, Lost(r) PROVE Running' \subseteq Running
  BY <1>12 DEF Lost, Live, Finish
<1>13. ASSUME NEW r \in Stages, Stop(r) PROVE Running' \subseteq Running
  BY <1>13 DEF Stop
<1>14. ASSUME NEW r \in Stages, Terminate(r) PROVE Running' \subseteq Running
  BY <1>14 DEF Terminate, Delete, Signal, Becomes
<1>15. CASE Crash
  BY <1>15 DEF Crash
<1>16. CASE Restart
  BY <1>16 DEF Restart
<1>17. CASE UNCHANGED vars
  BY <1>17 DEF vars
<1>. QED
  BY <1>1, <1>2, <1>3, <1>4, <1>5, <1>6, <1>7, <1>8, <1>9, <1>10,
     <1>11, <1>12, <1>13, <1>14, <1>15, <1>16, <1>17
     DEF Next, Handle

LEMMA UpBounded ==
  ASSUME Finite, SafeInv, service = "up"
  PROVE  AtMostMaxRuns
<1>1. Running \subseteq Holding
  BY DEF SafeInv, ContainerInv, Running, Holding
<1>2. Cardinality(Running) <= Cardinality(Holding)
  BY <1>1, HoldingFinite, FS_Subset
<1>3. IsFiniteSet(Running) /\ Cardinality(Running) \in Nat
  BY <1>1, HoldingFinite, FS_Subset, FS_CardinalityType
<1>. QED
  BY <1>2, <1>3, HoldingFinite DEF SafeInv, SlotsInv, AtMostMaxRuns, Finite

LEMMA RunningFinite ==
  ASSUME Finite
  PROVE  IsFiniteSet(Running) /\ Cardinality(Running) \in Nat
<1>1. IsFiniteSet(Running)
  BY FS_Subset DEF Finite, Running
<1>. QED
  BY <1>1, FS_CardinalityType

-----------------------------------------------------------------------------
(* Theorems.                                                               *)

LEMMA SafeHolds == Finite /\ Spec => []SafeInv
<1>. SUFFICES ASSUME Finite PROVE Spec => []SafeInv
  OBVIOUS
<1>1. Init => SafeInv
  <2>. SUFFICES ASSUME Init PROVE SafeInv
    OBVIOUS
  <2>1. Holding = {}
    BY DEF Init, Holding
  <2>2. SlotsInv
    BY <2>1, FS_EmptySet DEF Init, Finite, SlotsInv
  <2>. QED
    BY <2>1, <2>2 DEF Init, SafeInv, TypesInv, ContainerInv, ExitInv
<1>2. SafeInv /\ [Next]_vars => SafeInv'
  BY NextTypes, NextSlots, NextContainer, NextExit DEF SafeInv
<1>. QED
  BY <1>1, <1>2, PTL DEF Spec

\* The types; also: the names that a signal finds are those of the threads that have a
\* slot, and what is left of the semaphore is what they did not take, so a slot is
\* neither lost nor given back twice (runner_service.py lines 319-333).
THEOREM RunnerTypes == Finite /\ Spec => []TypeOK
<1>. SUFFICES ASSUME Finite PROVE Spec => []TypeOK
  OBVIOUS
<1>1. SafeInv => TypeOK
  BY DEF SafeInv, TypesInv, SlotsInv, TypeOK
<1>. QED
  BY <1>1, SafeHolds, PTL

\* There are never more containers than slots: neither after a crash of the service,
\* which keeps its containers, nor when clients go away while Docker is still at work
\* (runner_service.py lines 326-334, 382-403).
THEOREM BoundedRuns == Finite /\ Spec => []AtMostMaxRuns
<1>. SUFFICES ASSUME Finite PROVE Spec => []AtMostMaxRuns
  OBVIOUS
<1>1. SafeInv /\ Init => AtMostMaxRuns
  BY UpBounded DEF Init
<1>2. SafeInv /\ SafeInv' /\ AtMostMaxRuns /\ [Next]_vars => AtMostMaxRuns'
  <2>. SUFFICES ASSUME SafeInv, SafeInv', AtMostMaxRuns, [Next]_vars PROVE AtMostMaxRuns'
    OBVIOUS
  <2>1. CASE service' = "up"
    <3>1. (SafeInv /\ service = "up" => AtMostMaxRuns)'
      BY UpBounded, PTL
    <3>. QED
      BY <2>1, <3>1
  <2>2. CASE service' = "down"
    <3>1. Running' \subseteq Running
      BY <2>2, DownStartsNone
    <3>2. Cardinality(Running') <= Cardinality(Running) /\ Cardinality(Running') \in Nat
      BY <3>1, RunningFinite, FS_Subset, FS_CardinalityType
    <3>. QED
      BY <3>2, RunningFinite DEF AtMostMaxRuns, Finite
  <2>. QED
    BY <2>1, <2>2 DEF SafeInv, TypesInv
<1>. QED
  BY <1>1, <1>2, SafeHolds, PTL DEF Spec

\* A stage that has its own exit code is over for good: no container of it runs behind the
\* next stage, whatever is stopped, lost or started again (container.py lines 140-145).
THEOREM ExitMeansOver == Finite /\ Spec => []EndedForGood
<1>. SUFFICES ASSUME Finite PROVE Spec => []EndedForGood
  OBVIOUS
<1>1. SafeInv => EndedForGood
  BY DEF SafeInv, ExitInv, EndedForGood, Running
<1>. QED
  BY <1>1, SafeHolds, PTL

=============================================================================
