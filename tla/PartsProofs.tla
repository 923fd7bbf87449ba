---------------------------- MODULE PartsProofs ----------------------------
(***************************************************************************)
(* What the parts of MCParts promise, for any values of their constants:   *)
(* that no change is skipped or lost, that what was settled when a backup  *)
(* was taken comes back, that a key outlives its command and an expired    *)
(* lease stays so, what `pool` may create and destroy, that upgrades which *)
(* race leave a whole schema, and that no run is started twice. Where a    *)
(* part is a component that LeaseProofs or ServerProofs is about, each of  *)
(* its steps is shown to be a step there.                                  *)
(***************************************************************************)
EXTENDS MCParts, FiniteSetTheorems, TLAPS

-----------------------------------------------------------------------------
(* CycleTrigger, whose work is r2, head r3, base r4, snapshot r5, at r7,   *)
(* mode r8, seen r9, began r10, passed r11 and moved r12.                  *)

LEMMA TriggerNext ==
  ASSUME [PartsNext]_regs, part = "trigger"
  PROVE  /\ part' = "trigger"
         /\ TriggerStep \/ UNCHANGED Trigger!vars
BY DEF PartsNext, In, regs, Trigger!vars

LEMMA NothingRemembered ==
  ASSUME Trigger!TypesInv
  PROVE  /\ Trigger!Catalog(r2) \in [Globbed -> Nat]
         /\ Trigger!Catalog(r2) # Trigger!NoSnapshot
<1>1. PICK f \in Globbed : f \in Changeable
  BY TriggerAssumption
<1>2. Trigger!Catalog(r2)[f] \in Nat /\ Trigger!NoSnapshot[f] = -1
  BY <1>1 DEF Trigger!TypesInv, Trigger!Catalog, Trigger!NoSnapshot
<1>3. Trigger!Catalog(r2) \in [Globbed -> Nat]
  BY TriggerAssumption DEF Trigger!TypesInv, Trigger!Catalog
<1>. QED
  BY <1>2, <1>3

LEMMA TriggerBegins ==
  ASSUME Trigger!Init
  PROVE  Trigger!TriggerInv
<1>. USE DEF Trigger!Init
<1>1. Trigger!TypesInv
  BY TriggerAssumption DEF Trigger!TypesInv, Trigger!Catalog
<1>2. Trigger!OnInv /\ Trigger!SnapshotInv /\ Trigger!GitInv
  BY DEF Trigger!OnInv, Trigger!SnapshotInv, Trigger!GitInv
<1>. QED
  BY <1>1, <1>2 DEF Trigger!TriggerInv

\* What has moved under a run stays so while the run is at its place, and after it.
LEMMA TriggerMoves ==
  ASSUME Trigger!TypesInv, NEW files \in SUBSET Changeable, NEW places, Trigger!Moves(files, places)
  PROVE  /\ r12' \in [CycleRuns -> SUBSET Changeable]
         /\ \A r \in CycleRuns :
              /\ r12[r] \subseteq r12'[r]
              /\ r7[r] \in places => files \subseteq r12'[r]
BY DEF Trigger!TypesInv, Trigger!Moves

\* The snapshot stands as long as what moved under the runs that are over is kept.
LEMMA SnapshotStands ==
  ASSUME Trigger!SnapshotInv, r5' = r5, r10' = r10, r8' = r8, r11 \subseteq r11', r11 \subseteq CycleRuns,
         \A q \in CycleRuns : r7[q] = "done" => r7'[q] = "done" /\ r12[q] \subseteq r12'[q]
  PROVE  Trigger!SnapshotInv'
BY DEF Trigger!SnapshotInv, Trigger!NoSnapshot

LEMMA TriggerEdit ==
  ASSUME Trigger!TriggerInv, NEW f \in Changeable, Trigger!Edit(f)
  PROVE  Trigger!TriggerInv'
<1>. USE DEF Trigger!TriggerInv, Trigger!Edit
<1>1. PICK content \in {0, r13 + 1} : r2' = [r2 EXCEPT ![f] = content]
  OBVIOUS
<1>2. /\ r12' \in [CycleRuns -> SUBSET Changeable]
      /\ \A r \in CycleRuns :
           /\ r12[r] \subseteq r12'[r]
           /\ r7[r] \in {"list", "run", "after"} => f \in r12'[r]
  BY TriggerMoves
<1>3. Trigger!TypesInv'
  BY <1>1, <1>2 DEF Trigger!TypesInv
<1>4. Trigger!OnInv'
  BY <1>1, <1>2, TriggerAssumption DEF Trigger!OnInv, Trigger!TypesInv
<1>5. Trigger!SnapshotInv'
  BY <1>2, SnapshotStands DEF Trigger!TypesInv
<1>6. \A g \in Changeable \ {f} : g \in Trigger!Diff' => g \in Trigger!Diff
  BY <1>1 DEF Trigger!Diff, Trigger!Untracked, Trigger!TypesInv
<1>7. Trigger!Diff' \subseteq Changeable
  BY DEF Trigger!Diff
<1>8. Trigger!GitInv'
  BY <1>2, <1>6, <1>7 DEF Trigger!GitInv
<1>. QED
  BY <1>3, <1>4, <1>5, <1>8

LEMMA TriggerCommit ==
  ASSUME Trigger!TriggerInv, Trigger!Commit
  PROVE  Trigger!TriggerInv'
<1>. DEFINE Moving == {f \in Changeable : r3[f] # r2[f]}
<1>. USE DEF Trigger!TriggerInv, Trigger!Commit
<1>1. /\ r12' \in [CycleRuns -> SUBSET Changeable]
      /\ \A r \in CycleRuns :
           /\ r12[r] \subseteq r12'[r]
           /\ r7[r] = "list" => Moving \subseteq r12'[r]
  BY TriggerMoves
<1>2. Trigger!TypesInv'
  BY <1>1 DEF Trigger!TypesInv
<1>3. Trigger!OnInv'
  BY <1>1 DEF Trigger!OnInv
<1>4. Trigger!SnapshotInv'
  BY <1>1, SnapshotStands DEF Trigger!TypesInv
<1>5. Trigger!Diff' \subseteq Trigger!Diff \cup Moving
  BY DEF Trigger!Diff, Trigger!Untracked, Trigger!TypesInv
<1>6. Trigger!GitInv'
  BY <1>1, <1>5 DEF Trigger!GitInv
<1>. QED
  BY <1>2, <1>3, <1>4, <1>6

LEMMA TriggerMerge ==
  ASSUME Trigger!TriggerInv, Trigger!Merge
  PROVE  Trigger!TriggerInv'
<1>. USE DEF Trigger!TriggerInv, Trigger!Merge
<1>1. Trigger!TypesInv' /\ Trigger!OnInv'
  BY DEF Trigger!TypesInv, Trigger!OnInv
<1>2. Trigger!SnapshotInv'
  BY SnapshotStands DEF Trigger!TypesInv
<1>3. Trigger!Diff' = {}
  BY DEF Trigger!Diff
<1>4. Trigger!GitInv'
  BY <1>3 DEF Trigger!GitInv
<1>. QED
  BY <1>1, <1>2, <1>4

\* A run that looks at the files, or is not to look.
LEMMA TriggerLook ==
  ASSUME Trigger!TriggerInv, NEW r \in CycleRuns,
         \/ Trigger!GitDiff(r) \/ Trigger!GitList(r) \/ Trigger!EvaluateSnapshot(r)
         \/ Trigger!Force(r)
  PROVE  Trigger!TriggerInv'
<1>. USE DEF Trigger!TriggerInv, Trigger!Goto, Trigger!By
<1>1. /\ UNCHANGED <<r1, r2, r3, r4, r5, r10, r11, r13>>
      /\ r7[r] \in {"new", "list"}
      /\ \E place \in {"list", "skipped", "wait"} : r7' = [r7 EXCEPT ![r] = place]
      /\ \E way \in {"none", "git", "unlisted", "snapshot"} : r8' = [r8 EXCEPT ![r] = way]
      /\ \E files \in SUBSET Changeable : r9' = [r9 EXCEPT ![r] = files]
      /\ \E files \in SUBSET Changeable : r12' = [r12 EXCEPT ![r] = files]
  <2>1. Trigger!Diff \cap Matched \in SUBSET Changeable
    BY DEF Trigger!Diff
  <2>2. /\ r8 = [r8 EXCEPT ![r] = r8[r]] /\ r8[r] \in {"none", "git", "unlisted", "snapshot"}
        /\ r9 = [r9 EXCEPT ![r] = r9[r]] /\ r9[r] \in SUBSET Changeable
        /\ r12 = [r12 EXCEPT ![r] = r12[r]] /\ r12[r] \in SUBSET Changeable
    BY DEF Trigger!TypesInv
  <2>3. CASE Trigger!GitDiff(r)
    BY <2>1, <2>2, <2>3 DEF Trigger!GitDiff
  <2>4. CASE Trigger!GitList(r)
    BY <2>2, <2>4 DEF Trigger!GitList
  <2>5. CASE Trigger!EvaluateSnapshot(r)
    BY <2>2, <2>5 DEF Trigger!EvaluateSnapshot
  <2>6. CASE Trigger!Force(r)
    BY <2>2, <2>6 DEF Trigger!Force
  <2>. QED
    BY <2>3, <2>4, <2>5, <2>6
<1>2. Trigger!TypesInv'
  BY <1>1 DEF Trigger!TypesInv
<1>3. Trigger!OnInv'
  BY <1>1 DEF Trigger!OnInv, Trigger!TypesInv
<1>4. Trigger!SnapshotInv'
  BY <1>1 DEF Trigger!SnapshotInv, Trigger!TypesInv, Trigger!NoSnapshot
<1>5. Trigger!Diff' = Trigger!Diff
  BY <1>1 DEF Trigger!Diff, Trigger!Untracked
<1>6. r7'[r] = "list" => r9'[r] = Trigger!Diff \cap Matched
  BY <1>1 DEF Trigger!GitDiff, Trigger!GitList, Trigger!EvaluateSnapshot, Trigger!Force,
              Trigger!TypesInv
<1>7. Trigger!GitInv'
  BY <1>1, <1>5, <1>6 DEF Trigger!GitInv, Trigger!TypesInv
<1>. QED
  BY <1>2, <1>3, <1>4, <1>7

LEMMA TriggerRun ==
  ASSUME Trigger!TriggerInv, NEW r \in CycleRuns,
         Trigger!Start(r) \/ Trigger!End(r) \/ Trigger!Remember(r)
  PROVE  Trigger!TriggerInv'
<1>. USE DEF Trigger!TriggerInv, Trigger!Goto
<1>1. Trigger!Diff' = Trigger!Diff
  BY DEF Trigger!Start, Trigger!End, Trigger!Remember, Trigger!Diff, Trigger!Untracked
<1>2. CASE Trigger!Start(r)
  <2>1. Trigger!Catalog(r2) \in [Globbed -> Nat]
    BY NothingRemembered
  <2>2. Trigger!TypesInv'
    BY <1>2, <2>1 DEF Trigger!Start, Trigger!TypesInv
  <2>3. Trigger!OnInv'
    BY <1>2 DEF Trigger!Start, Trigger!TypesInv, Trigger!OnInv, Trigger!Catalog
  <2>4. Trigger!SnapshotInv'
    BY <1>2 DEF Trigger!Start, Trigger!TypesInv, Trigger!SnapshotInv, Trigger!NoSnapshot
  <2>5. Trigger!GitInv'
    BY <1>1, <1>2 DEF Trigger!Start, Trigger!TypesInv, Trigger!GitInv
  <2>. QED
    BY <2>2, <2>3, <2>4, <2>5
<1>3. CASE Trigger!End(r)
  <2>1. Trigger!TypesInv'
    BY <1>3 DEF Trigger!End, Trigger!Onward, Trigger!TypesInv
  <2>2. Trigger!OnInv'
    BY <1>3 DEF Trigger!End, Trigger!Onward, Trigger!TypesInv, Trigger!OnInv
  <2>3. Trigger!SnapshotInv'
    BY <1>3, SnapshotStands DEF Trigger!End, Trigger!TypesInv
  <2>4. Trigger!GitInv'
    BY <1>1, <1>3 DEF Trigger!End, Trigger!Onward, Trigger!TypesInv, Trigger!GitInv
  <2>. QED
    BY <2>1, <2>2, <2>3, <2>4
<1>4. CASE Trigger!Remember(r)
  <2>1. Trigger!TypesInv' /\ Trigger!OnInv'
    BY <1>4 DEF Trigger!Remember, Trigger!TypesInv, Trigger!OnInv
  <2>2. ASSUME r5' = Trigger!NoSnapshot
        PROVE  Trigger!SnapshotInv'
    <3>1. Trigger!NoSnapshot' = Trigger!NoSnapshot
      BY DEF Trigger!NoSnapshot
    <3>. QED
      BY <2>2, <3>1 DEF Trigger!SnapshotInv
  <2>3. ASSUME r5' = Trigger!Catalog(r2)
        PROVE  Trigger!SnapshotInv'
    <3>1. r \in r11 /\ r8[r] = "snapshot" /\ \A f \in Globbed : r2[f] = r10[r][f] \/ f \in r12[r]
      BY <1>4 DEF Trigger!Remember, Trigger!OnInv
    <3>2. r7'[r] = "done"
      BY <1>4 DEF Trigger!Remember, Trigger!TypesInv
    <3>3. \A f \in Globbed : r5'[f] = r2[f]
      BY <2>3 DEF Trigger!Catalog
    <3>4. UNCHANGED <<r8, r10, r11, r12>>
      BY <1>4 DEF Trigger!Remember
    <3>. QED
      BY <3>1, <3>2, <3>3, <3>4 DEF Trigger!SnapshotInv
  <2>4. Trigger!SnapshotInv'
    BY <1>4, <2>2, <2>3 DEF Trigger!Remember
  <2>5. Trigger!GitInv'
    BY <1>1, <1>4 DEF Trigger!Remember, Trigger!TypesInv, Trigger!GitInv
  <2>. QED
    BY <2>1, <2>4, <2>5
<1>. QED
  BY <1>2, <1>3, <1>4

LEMMA TriggerHolds ==
  ASSUME Trigger!TriggerInv, TriggerStep \/ UNCHANGED Trigger!vars
  PROVE  Trigger!TriggerInv'
<1>1. CASE UNCHANGED Trigger!vars
  BY <1>1 DEF Trigger!vars, Trigger!TriggerInv, Trigger!TypesInv, Trigger!OnInv,
              Trigger!SnapshotInv, Trigger!NoSnapshot, Trigger!GitInv, Trigger!Diff,
              Trigger!Untracked
<1>. QED
  BY <1>1, TriggerEdit, TriggerCommit, TriggerMerge, TriggerLook, TriggerRun DEF TriggerStep

\* Only a run that looks is skipped, and for nothing that counts.
LEMMA TriggerSkips ==
  ASSUME Trigger!TriggerInv, TriggerStep \/ UNCHANGED Trigger!vars
  PROVE  Trigger!SkipsTested
<1>. SUFFICES ASSUME NEW r \in CycleRuns, r7[r] # "skipped", r7'[r] = "skipped"
              PROVE  IF r8'[r] = "snapshot" THEN Trigger!LikeARunThatPassed
                                            ELSE Trigger!NoDifference(r)
  BY DEF Trigger!SkipsTested
<1>. USE DEF Trigger!TriggerInv
<1>1. Trigger!GitList(r) \/ Trigger!EvaluateSnapshot(r)
  <2>1. r7' # r7
    OBVIOUS
  <2>2. PICK q \in CycleRuns :
           \/ Trigger!GitDiff(q) \/ Trigger!GitList(q) \/ Trigger!EvaluateSnapshot(q)
           \/ Trigger!Force(q) \/ Trigger!Start(q) \/ Trigger!End(q) \/ Trigger!Remember(q)
    BY <2>1 DEF TriggerStep, Trigger!Edit, Trigger!Commit, Trigger!Merge, Trigger!vars
  <2>3. q = r
    BY <2>2 DEF Trigger!GitDiff, Trigger!GitList, Trigger!EvaluateSnapshot, Trigger!Force,
                Trigger!Start, Trigger!End, Trigger!Remember, Trigger!Goto, Trigger!TypesInv
  <2>4. Trigger!GitList(q) \/ Trigger!EvaluateSnapshot(q)
    BY <2>2, <2>3 DEF Trigger!GitDiff, Trigger!Force, Trigger!Start, Trigger!End, Trigger!Onward,
                      Trigger!Remember, Trigger!Goto, Trigger!TypesInv
  <2>. QED
    BY <2>3, <2>4
<1>2. CASE Trigger!EvaluateSnapshot(r)
  <2>1. r8'[r] = "snapshot" /\ r5 = Trigger!Catalog(r2)
    BY <1>2 DEF Trigger!EvaluateSnapshot, Trigger!SnapshotStimulus, Trigger!Goto, Trigger!By,
                Trigger!TypesInv
  <2>2. Trigger!LikeARunThatPassed
    BY <2>1, NothingRemembered DEF Trigger!SnapshotInv, Trigger!LikeARunThatPassed, Trigger!Catalog
  <2>. QED
    BY <2>1, <2>2
<1>3. CASE Trigger!GitList(r)
  <2>1. PICK listed \in BOOLEAN :
          /\ r8' = [r8 EXCEPT ![r] = IF listed THEN "git" ELSE "unlisted"]
          /\ r9[r] \cup (IF listed THEN Trigger!Untracked \cap Matched ELSE {}) = {}
    BY <1>3 DEF Trigger!GitList, Trigger!Goto, Trigger!By, Trigger!TypesInv
  <2>2. Trigger!Diff \cap Matched \subseteq r12[r]
    BY <1>3, <2>1 DEF Trigger!GitList, Trigger!GitInv
  <2>3. r8'[r] = IF listed THEN "git" ELSE "unlisted"
    BY <2>1 DEF Trigger!TypesInv
  <2>4. Trigger!NoDifference(r)
    BY <2>1, <2>2, <2>3 DEF Trigger!NoDifference
  <2>. QED
    BY <2>3, <2>4
<1>. QED
  BY <1>1, <1>2, <1>3

-----------------------------------------------------------------------------
(* Watch, whose tree is r1, events r2 and timers r3.                       *)

LEMMA WatchNext ==
  ASSUME [PartsNext]_regs, part = "watch"
  PROVE  /\ part' = "watch"
         /\ WatcherStep \/ UNCHANGED Watcher!vars
BY DEF PartsNext, In, regs, Watcher!vars

LEMMA WatchBegins ==
  ASSUME Watcher!Init
  PROVE  Watcher!WatchInv
<1>1. Watcher!TypeOK
  BY WatchAssumption DEF Watcher!Init, Watcher!TypeOK
<1>. QED
  BY <1>1 DEF Watcher!Init, Watcher!WatchInv, Watcher!OnItsWay

LEMMA WatchHandles ==
  ASSUME Watcher!WatchInv, Watcher!Change \/ Watcher!Handle
  PROVE  Watcher!WatchInv'
<1>. USE DEF Watcher!WatchInv
<1>1. CASE Watcher!Change
  <2>1. r1 + 1 \in Watcher!Timers
    BY <1>1, WatchAssumption DEF Watcher!Change, Watcher!TypeOK, Watcher!Timers
  <2>2. r2' \in Seq(Watcher!Timers)' /\ r2' # <<>>
    BY <1>1, <2>1 DEF Watcher!Change, Watcher!Timers
  <2>3. Watcher!TypeOK'
    BY <1>1, WatchAssumption DEF Watcher!Change, Watcher!TypeOK, Watcher!Timers
  <2>. QED
    BY <2>2, <2>3 DEF Watcher!OnItsWay
<1>2. CASE Watcher!Handle
  <2>1. Head(r2) \in Watcher!Timers /\ Tail(r2) \in Seq(Watcher!Timers)
    BY <1>2 DEF Watcher!Handle
  <2>2. r3'[Head(r2)] = "waiting"
    BY <1>2, <2>1 DEF Watcher!Handle
  <2>3. Watcher!OnItsWay'
    BY <2>1, <2>2 DEF Watcher!OnItsWay, Watcher!Timers
  <2>4. r3' \in [Watcher!Timers -> {"none", "waiting", "cancelled", "expired", "fired", "running",
         "over"}]
    BY <1>2 DEF Watcher!Handle, Watcher!Cancelled, Watcher!TypeOK
  <2>5. Watcher!TypeOK'
    BY <1>2, <2>1, <2>4 DEF Watcher!Handle, Watcher!TypeOK, Watcher!Timers
  <2>. QED
    BY <1>2, <2>1, <2>3, <2>5 DEF Watcher!Handle, Watcher!Timers
<1>. QED
  BY <1>1, <1>2

LEMMA WatchTimer ==
  ASSUME Watcher!WatchInv, NEW t \in Watcher!Timers,
         Watcher!Expire(t) \/ Watcher!Fire(t) \/ Watcher!RunStarts(t) \/ Watcher!RunEnds(t)
  PROVE  Watcher!WatchInv'
<1>. USE DEF Watcher!WatchInv, Watcher!TypeOK
<1>1. CASE Watcher!Expire(t)
  BY <1>1 DEF Watcher!Expire, Watcher!OnItsWay, Watcher!Timers
<1>2. CASE Watcher!Fire(t)
  BY <1>2 DEF Watcher!Fire, Watcher!OnItsWay, Watcher!Timers
<1>3. CASE Watcher!RunStarts(t)
  BY <1>3 DEF Watcher!RunStarts, Watcher!OnItsWay, Watcher!Timers
<1>4. CASE Watcher!RunEnds(t)
  BY <1>4 DEF Watcher!RunEnds, Watcher!OnItsWay, Watcher!Timers
<1>. QED
  BY <1>1, <1>2, <1>3, <1>4

LEMMA WatchHolds ==
  ASSUME Watcher!WatchInv, WatcherStep \/ UNCHANGED Watcher!vars
  PROVE  Watcher!WatchInv'
<1>1. CASE UNCHANGED Watcher!vars
  BY <1>1 DEF Watcher!vars, Watcher!WatchInv, Watcher!TypeOK, Watcher!OnItsWay, Watcher!Timers
<1>. QED
  BY <1>1, WatchHandles, WatchTimer DEF WatcherStep, Watcher!Timers

-----------------------------------------------------------------------------
(* What the two promise together.                                          *)

ChangesInv ==
  /\ part = "trigger" => Trigger!TriggerInv
  /\ part = "watch" => Watcher!WatchInv

LEMMA ChangesBegin == PartsInit => ChangesInv
<1>1. PartsInit /\ part = "trigger" => Trigger!Init
  BY DEF PartsInit
<1>2. PartsInit /\ part = "watch" => Watcher!Init
  BY DEF PartsInit
<1>. QED
  BY <1>1, <1>2, TriggerBegins, WatchBegins DEF ChangesInv

LEMMA ChangesHold == ChangesInv /\ [PartsNext]_regs => ChangesInv'
<1>. SUFFICES ASSUME ChangesInv, [PartsNext]_regs
              PROVE  ChangesInv'
  OBVIOUS
<1>1. part' = part
  BY DEF PartsNext, In, regs
<1>2. ASSUME part = "trigger"
      PROVE  Trigger!TriggerInv'
  BY <1>2, TriggerNext, TriggerHolds DEF ChangesInv
<1>3. ASSUME part = "watch"
      PROVE  Watcher!WatchInv'
  BY <1>3, WatchNext, WatchHolds DEF ChangesInv
<1>. QED
  BY <1>1, <1>2, <1>3 DEF ChangesInv

\* A cycle is skipped by snapshot only if each file under its globs is as a run that passed
\* began with it, or changed under that run; by Git only if no matched file is new to Git or
\* in the diff, but for one that changed while Git was asked or that a failed command did not
\* tell of. And every watched change has a run that started after it, once events and timers
\* have come to rest.
THEOREM ChangesAreTested == PartsSpec => ChangesGetRun
<1>1. ChangesInv /\ [PartsNext]_regs => [part = "trigger" => Trigger!SkipsTested]_regs
  <2>. SUFFICES ASSUME ChangesInv, [PartsNext]_regs, part = "trigger"
                PROVE  Trigger!SkipsTested
    OBVIOUS
  <2>. QED
    BY TriggerNext, TriggerSkips DEF ChangesInv
<1>2. ChangesInv => (part = "watch" => Watcher!NoChangeLost)
  BY DEF ChangesInv, Watcher!WatchInv, Watcher!OnItsWay, Watcher!NoChangeLost
<1>. QED
  BY <1>1, <1>2, ChangesBegin, ChangesHold, PTL DEF PartsSpec, ChangesGetRun

-----------------------------------------------------------------------------
(* LeaseRun, whose wrapper is at r1, lease r2, command r3.                     *)

LEMMA WrapperBegins ==
  ASSUME Wrapper!Init
  PROVE  Wrapper!WrapperInv
<1>1. Wrapper!TypeOK
  BY WrapperAssumption DEF Wrapper!Init, Wrapper!TypeOK, Wrapper!Places
<1>2. Wrapper!KeyOutlivesCommand
  BY DEF Wrapper!Init, Wrapper!KeyOutlivesCommand
<1>. QED
  BY <1>1, <1>2, ZenonT(40) DEF Wrapper!Init, Wrapper!WrapperInv

LEMMA WrapperActs ==
  ASSUME Wrapper!WrapperInv, WrapperStep
  PROVE  Wrapper!WrapperInv'
<1>. USE WrapperAssumption DEF Wrapper!WrapperInv, Wrapper!TypeOK, Wrapper!Places,
         Wrapper!KeyOutlivesCommand, Wrapper!signals
<1>1. CASE Wrapper!Arm
  BY <1>1 DEF Wrapper!Arm
<1>2. CASE Wrapper!Popen
  BY <1>2 DEF Wrapper!Popen
<1>3. CASE Wrapper!Fork
  BY <1>3 DEF Wrapper!Fork
<1>4. CASE Wrapper!PopenReturns
  BY <1>4 DEF Wrapper!PopenReturns
<1>5. CASE Wrapper!PopenFails
  BY <1>5 DEF Wrapper!PopenFails
<1>6. CASE Wrapper!CommandEnds
  BY <1>6 DEF Wrapper!CommandEnds
<1>7. CASE Wrapper!WaitReturns
  BY <1>7 DEF Wrapper!WaitReturns
<1>8. CASE Wrapper!Release
  BY <1>8, ZenonT(40) DEF Wrapper!Release
<1>9. CASE Wrapper!Sigterm
  BY <1>9 DEF Wrapper!Sigterm
<1>10. CASE Wrapper!Sigint
  BY <1>10 DEF Wrapper!Sigint, Wrapper!AfterInt
<1>. QED
  BY <1>1, <1>2, <1>3, <1>4, <1>5, <1>6, <1>7, <1>8, <1>9, <1>10 DEF WrapperStep

LEMMA WrapperRests ==
  ASSUME Wrapper!WrapperInv, UNCHANGED Wrapper!vars
  PROVE  Wrapper!WrapperInv'
BY DEF Wrapper!vars, Wrapper!WrapperInv, Wrapper!TypeOK, Wrapper!KeyOutlivesCommand

LEMMA WrapperNext ==
  ASSUME [PartsNext]_regs, part = "wrapper"
  PROVE  /\ part' = "wrapper"
         /\ WrapperStep \/ UNCHANGED Wrapper!vars
BY DEF PartsNext, In, regs, Wrapper!vars

-----------------------------------------------------------------------------
(* LeaseProofs, whose lease tables are those of the part "frozen", whose pool   *)
(* is that of "provider", whose schema that of "upgrade" and backups of "backup". *)
LeaseP == INSTANCE LeaseProofs WITH
  Clients <- Clients, Keys <- {1}, Wants <- [c \in Clients |-> {1}],
  User <- [c \in Clients |-> "ann"], MaxPerUser <- 0, TTL <- 1, ReuseDelay <- 0,
  WaiterTTL <- 0, Interval <- 1, PrepareTicks <- 1, ResetTicks <- 1, Blips <- 0,
  HasRelease <- TRUE, Prompt <- FALSE, Admin <- TRUE, leases <- r1, waiters <- r2,
  disabled <- r3, clean <- r4, pc <- r5, key <- r6, lid <- r7, todo <- r8, timer <- r9,
  beat <- r10, blips <- r11, lost <- r12, mark <- r13, retry <- r14, used <- r15,
  items <- r1, exists <- r2, held <- r3, at <- r4, pool <- r5, listed <- r6, verb <- r7,
  steps <- r8, unlogged <- r9, moved <- r10, crowded <- r11, changes <- r12,
  dialect <- r1, built <- r2, rows <- r3, stage <- r4, rev <- r5, lacking <- r6, opened <- r7,
  added <- r8, mine <- r9, base <- r10, died <- r11,
  recorded <- r1, runs <- r2, tests <- r3, folder <- r4, dump <- r5, dumping <- r6, unread <- r7,
  settled <- r8, backups <- r9, published <- r10, target <- r11, restore <- r12

LEMMA LeaseConstants == LeaseP!StoreAssumption /\ LeaseP!ClientAssumption
BY DEF LeaseP!StoreAssumption, LeaseP!ClientAssumption, Clients

LEMMA FrozenBegins == Frozen!Init => LeaseP!Init
BY DEF Frozen!Init, LeaseP!Init, Frozen!StoreInit, LeaseP!StoreInit, Frozen!NoRow,
       LeaseP!NoRow, Frozen!NoWaiter, LeaseP!NoWaiter, Frozen!NoKey, LeaseP!NoKey

LEMMA FrozenActs ==
  ASSUME FrozenStep
  PROVE  LeaseP!Next
<1>. USE DEF Frozen!Held, LeaseP!Held, Frozen!Queued, LeaseP!Queued, Frozen!Expired,
         LeaseP!Expired, Frozen!LiveLeases, LeaseP!LiveLeases, Frozen!Without, LeaseP!Without,
         Frozen!LiveWaiters, LeaseP!LiveWaiters, Frozen!Candidates, LeaseP!Candidates,
         Frozen!Free, LeaseP!Free, Frozen!HeldByUserOf, LeaseP!HeldByUserOf, Frozen!OverLimit,
         LeaseP!OverLimit, Frozen!WaitersWith, LeaseP!WaitersWith, Frozen!Ahead, LeaseP!Ahead,
         Frozen!MayTake, LeaseP!MayTake, Frozen!TakeNoItems, LeaseP!TakeNoItems,
         Frozen!TakeLimit, LeaseP!TakeLimit, Frozen!TakeEnqueue, LeaseP!TakeEnqueue,
         Frozen!Insert, LeaseP!Insert, Frozen!AfterInsert, LeaseP!AfterInsert, Frozen!HasRow,
         LeaseP!HasRow, Frozen!MayBeat, LeaseP!MayBeat, Frozen!BeatWrite, LeaseP!BeatWrite,
         Frozen!ReleaseWrite, LeaseP!ReleaseWrite, Frozen!Leave, LeaseP!Leave,
         Frozen!SetDisabled, LeaseP!SetDisabled, Frozen!DisableQuietly, LeaseP!DisableQuietly,
         Frozen!ForceRelease, LeaseP!ForceRelease, Frozen!Later, LeaseP!Later, Frozen!StoreTick,
         LeaseP!StoreTick, Frozen!NoRow, LeaseP!NoRow, Frozen!Cardinality, LeaseP!Cardinality,
         Frozen!NoWaiter, LeaseP!NoWaiter, Frozen!storeVars, LeaseP!storeVars,
         Frozen!threadVars, LeaseP!threadVars, Frozen!NoKey, LeaseP!NoKey, Frozen!Larger,
         LeaseP!Larger, Frozen!MaxTimer, LeaseP!MaxTimer, Frozen!Goto, LeaseP!Goto,
         Frozen!Forget, LeaseP!Forget, Frozen!IsFirst, LeaseP!IsFirst, Frozen!Released,
         LeaseP!Released, Frozen!BetweenCalls, LeaseP!BetweenCalls, Frozen!InTime,
         LeaseP!InTime
<1>1. ASSUME NEW c \in Clients, Frozen!AskNoItems(c)
      PROVE  LeaseP!AskNoItems(c)
  BY <1>1 DEF Frozen!AskNoItems, LeaseP!AskNoItems
<1>2. ASSUME NEW c \in Clients, Frozen!AskLimit(c)
      PROVE  LeaseP!AskLimit(c)
  BY <1>2, ZenonT(40) DEF Frozen!AskLimit, LeaseP!AskLimit
<1>3. ASSUME NEW c \in Clients, Frozen!AskBusy(c)
      PROVE  LeaseP!AskBusy(c)
  BY <1>3, ZenonT(40) DEF Frozen!AskBusy, LeaseP!AskBusy
<1>4. ASSUME NEW c \in Clients, Frozen!AskFree(c)
      PROVE  LeaseP!AskFree(c)
  BY <1>4, ZenonT(40) DEF Frozen!AskFree, LeaseP!AskFree
<1>5. ASSUME NEW c \in Clients, Frozen!InsertLease(c)
      PROVE  LeaseP!InsertLease(c)
  BY <1>5, ZenonT(40) DEF Frozen!InsertLease, LeaseP!InsertLease
<1>6. ASSUME NEW c \in Clients, Frozen!InsertTaken(c)
      PROVE  LeaseP!InsertTaken(c)
  BY <1>6, ZenonT(40) DEF Frozen!InsertTaken, LeaseP!InsertTaken
<1>7. ASSUME NEW c \in Clients, Frozen!InsertNone(c)
      PROVE  LeaseP!InsertNone(c)
  BY <1>7 DEF Frozen!InsertNone, LeaseP!InsertNone
<1>8. ASSUME NEW c \in Clients, Frozen!Granted(c)
      PROVE  LeaseP!Granted(c)
  BY <1>8 DEF Frozen!Granted, LeaseP!Granted
<1>9. ASSUME NEW c \in Clients, Frozen!GrantGone(c)
      PROVE  LeaseP!GrantGone(c)
  BY <1>9 DEF Frozen!GrantGone, LeaseP!GrantGone
<1>10. ASSUME NEW c \in Clients, Frozen!Request(c)
      PROVE  LeaseP!Request(c)
  BY <1>10 DEF Frozen!Request, LeaseP!Request
<1>11. ASSUME NEW c \in Clients, Frozen!GiveUp(c)
      PROVE  LeaseP!GiveUp(c)
  BY <1>11 DEF Frozen!GiveUp, LeaseP!GiveUp
<1>12. ASSUME NEW c \in Clients, Frozen!Quit(c)
      PROVE  LeaseP!Quit(c)
  BY <1>12 DEF Frozen!Quit, LeaseP!Quit
<1>13. ASSUME NEW c \in Clients, Frozen!PrepareOk(c)
      PROVE  LeaseP!PrepareOk(c)
  BY <1>13 DEF Frozen!PrepareOk, LeaseP!PrepareOk
<1>14. ASSUME NEW c \in Clients, Frozen!PrepareFail(c)
      PROVE  LeaseP!PrepareFail(c)
  BY <1>14 DEF Frozen!PrepareFail, LeaseP!PrepareFail
<1>15. ASSUME NEW c \in Clients, Frozen!BeatRead(c)
      PROVE  LeaseP!BeatRead(c)
  BY <1>15 DEF Frozen!BeatRead, LeaseP!BeatRead
<1>16. ASSUME NEW c \in Clients, Frozen!BeatLost(c)
      PROVE  LeaseP!BeatLost(c)
  BY <1>16 DEF Frozen!BeatLost, LeaseP!BeatLost
<1>17. ASSUME NEW c \in Clients, Frozen!BeatBlip(c)
      PROVE  LeaseP!BeatBlip(c)
  BY <1>17 DEF Frozen!BeatBlip, LeaseP!BeatBlip
<1>18. ASSUME NEW c \in Clients, Frozen!BeatDone(c)
      PROVE  LeaseP!BeatDone(c)
  BY <1>18 DEF Frozen!BeatDone, LeaseP!BeatDone
<1>19. ASSUME NEW c \in Clients, Frozen!BeatStale(c)
      PROVE  LeaseP!BeatStale(c)
  BY <1>19 DEF Frozen!BeatStale, LeaseP!BeatStale
<1>20. ASSUME NEW c \in Clients, Frozen!Done(c)
      PROVE  LeaseP!Done(c)
  BY <1>20 DEF Frozen!Done, LeaseP!Done
<1>21. ASSUME NEW c \in Clients, Frozen!Joined(c)
      PROVE  LeaseP!Joined(c)
  BY <1>21 DEF Frozen!Joined, LeaseP!Joined
<1>22. ASSUME NEW c \in Clients, Frozen!CheckRead(c)
      PROVE  LeaseP!CheckRead(c)
  BY <1>22 DEF Frozen!CheckRead, LeaseP!CheckRead
<1>23. ASSUME NEW c \in Clients, Frozen!CheckLost(c)
      PROVE  LeaseP!CheckLost(c)
  BY <1>23 DEF Frozen!CheckLost, LeaseP!CheckLost
<1>24. ASSUME NEW c \in Clients, Frozen!CheckDone(c)
      PROVE  LeaseP!CheckDone(c)
  BY <1>24 DEF Frozen!CheckDone, LeaseP!CheckDone
<1>25. ASSUME NEW c \in Clients, Frozen!CheckStale(c)
      PROVE  LeaseP!CheckStale(c)
  BY <1>25 DEF Frozen!CheckStale, LeaseP!CheckStale
<1>26. ASSUME NEW c \in Clients, Frozen!ResetOk(c)
      PROVE  LeaseP!ResetOk(c)
  BY <1>26 DEF Frozen!ResetOk, LeaseP!ResetOk
<1>27. ASSUME NEW c \in Clients, Frozen!ResetFail(c)
      PROVE  LeaseP!ResetFail(c)
  BY <1>27 DEF Frozen!ResetFail, LeaseP!ResetFail
<1>28. ASSUME NEW c \in Clients, Frozen!GiveGone(c)
      PROVE  LeaseP!GiveGone(c)
  BY <1>28 DEF Frozen!GiveGone, LeaseP!GiveGone
<1>29. ASSUME NEW c \in Clients, Frozen!GiveRead(c)
      PROVE  LeaseP!GiveRead(c)
  BY <1>29 DEF Frozen!GiveRead, LeaseP!GiveRead
<1>30. ASSUME NEW c \in Clients, Frozen!GiveWrite(c)
      PROVE  LeaseP!GiveWrite(c)
  BY <1>30 DEF Frozen!GiveWrite, LeaseP!GiveWrite
<1>31. ASSUME NEW c \in Clients, Frozen!Crash(c)
      PROVE  LeaseP!Crash(c)
  BY <1>31 DEF Frozen!Crash, LeaseP!Crash
<1>32. ASSUME Frozen!AdminStep
      PROVE  LeaseP!AdminStep
  BY <1>32 DEF Frozen!AdminStep, LeaseP!AdminStep
<1>33. ASSUME Frozen!Tick
      PROVE  LeaseP!Tick
  BY <1>33 DEF Frozen!Tick, LeaseP!Tick
<1>34. ASSUME NEW c \in Clients,
             \/ Frozen!Request(c) \/ Frozen!Take(c) \/ Frozen!GiveUp(c) \/ Frozen!Quit(c)
             \/ Frozen!Prepare(c) \/ Frozen!Heartbeat(c) \/ Frozen!Done(c) \/ Frozen!Release(c)
             \/ Frozen!Crash(c)
      PROVE  LeaseP!Next
  <2>1. CASE Frozen!Take(c)
    <3>1. LeaseP!Take(c)
      BY <2>1, <1>1, <1>2, <1>3, <1>4, <1>5, <1>6, <1>7, <1>8, <1>9 DEF Frozen!Take, LeaseP!Take
    <3>. QED
      BY <3>1 DEF LeaseP!Next
  <2>2. CASE Frozen!Prepare(c)
    <3>1. LeaseP!Prepare(c)
      BY <2>2, <1>13, <1>14 DEF Frozen!Prepare, LeaseP!Prepare
    <3>. QED
      BY <3>1 DEF LeaseP!Next
  <2>3. CASE Frozen!Heartbeat(c)
    <3>1. LeaseP!Heartbeat(c)
      BY <2>3, <1>15, <1>16, <1>17, <1>18, <1>19 DEF Frozen!Heartbeat, LeaseP!Heartbeat
    <3>. QED
      BY <3>1 DEF LeaseP!Next
  <2>4. CASE Frozen!Release(c)
    <3>1. Frozen!Check(c) => LeaseP!Check(c)
      BY <1>22, <1>23, <1>24, <1>25 DEF Frozen!Check, LeaseP!Check
    <3>2. LeaseP!Release(c)
      BY <2>4, <3>1, <1>21, <1>26, <1>27, <1>28, <1>29, <1>30 DEF Frozen!Release, LeaseP!Release
    <3>. QED
      BY <3>2 DEF LeaseP!Next
  <2>5. CASE Frozen!Request(c) \/ Frozen!GiveUp(c) \/ Frozen!Quit(c) \/ Frozen!Done(c) \/
         Frozen!Crash(c)
    <3>1. \/ LeaseP!Request(c) \/ LeaseP!GiveUp(c) \/ LeaseP!Quit(c) \/ LeaseP!Done(c)
          \/ LeaseP!Crash(c)
      BY <2>5, <1>10, <1>11, <1>12, <1>20, <1>31
    <3>. QED
      BY <3>1 DEF LeaseP!Next
  <2>. QED
    BY <1>34, <2>1, <2>2, <2>3, <2>4, <2>5
<1>. QED
  BY <1>32, <1>33, <1>34 DEF FrozenStep, LeaseP!Next

LEMMA FrozenNext ==
  ASSUME [PartsNext]_regs, part = "frozen"
  PROVE  part' = "frozen" /\ [LeaseP!Next]_(LeaseP!vars)
<1>1. part' = "frozen" /\ (FrozenStep \/ UNCHANGED regs)
  BY DEF PartsNext, In, regs
<1>2. UNCHANGED regs => UNCHANGED LeaseP!vars
  BY DEF regs, LeaseP!vars, LeaseP!storeVars, LeaseP!threadVars
<1>. QED
  BY <1>1, <1>2, FrozenActs

LEMMA FrozenIsSound == LeaseP!Spec => LeaseP!ExpiredStaysExpired
<1>1. LeaseP!StoreAssumption /\ LeaseP!ClientAssumption
  BY LeaseConstants, ZenonT(40)
<1>. QED
  BY <1>1, LeaseP!NoRevival

-----------------------------------------------------------------------------
(* Backup, whose recorded is r1, runs r2, tests r3, folder r4, dump r5, dumping *)
(* r6, unread r7, settled r8, backups r9, published r10, target r11 and restore *)
(* r12.                                                                         *)

LEMMA BackupBegins ==
  ASSUME Copy!Init
  PROVE  LeaseP!Copy!Init
BY ZenonT(40) DEF Copy!Init, LeaseP!Copy!Init, Copy!Empty, LeaseP!Copy!Empty

LEMMA BackupActs ==
  ASSUME CopyStep
  PROVE  LeaseP!Copy!Next
<1>1. ASSUME NEW i \in BackedUp, Copy!CreateRow(i)
      PROVE  LeaseP!Copy!CreateRow(i)
  BY <1>1
     DEF Copy!CreateRow, LeaseP!Copy!CreateRow, Copy!Server, LeaseP!Copy!Server,
         Copy!backupVars, LeaseP!Copy!backupVars
<1>2. ASSUME NEW i \in BackedUp, Copy!CopyStarts(i)
      PROVE  LeaseP!Copy!CopyStarts(i)
  BY <1>2
     DEF Copy!CopyStarts, LeaseP!Copy!CopyStarts, Copy!Server, LeaseP!Copy!Server,
         Copy!backupVars, LeaseP!Copy!backupVars
<1>3. ASSUME NEW i \in BackedUp, Copy!CopyEnds(i)
      PROVE  LeaseP!Copy!CopyEnds(i)
  BY <1>3
     DEF Copy!CopyEnds, LeaseP!Copy!CopyEnds, Copy!Server, LeaseP!Copy!Server,
         Copy!backupVars, LeaseP!Copy!backupVars
<1>4. ASSUME NEW i \in BackedUp, Copy!WriteTests(i)
      PROVE  LeaseP!Copy!WriteTests(i)
  BY <1>4
     DEF Copy!WriteTests, LeaseP!Copy!WriteTests, Copy!Server, LeaseP!Copy!Server,
         Copy!backupVars, LeaseP!Copy!backupVars
<1>5. ASSUME NEW i \in BackedUp, Copy!RemoveTests(i)
      PROVE  LeaseP!Copy!RemoveTests(i)
  BY <1>5
     DEF Copy!RemoveTests, LeaseP!Copy!RemoveTests, Copy!Server, LeaseP!Copy!Server,
         Copy!backupVars, LeaseP!Copy!backupVars
<1>6. ASSUME NEW i \in BackedUp, Copy!RemoveRow(i)
      PROVE  LeaseP!Copy!RemoveRow(i)
  BY <1>6
     DEF Copy!RemoveRow, LeaseP!Copy!RemoveRow, Copy!Server, LeaseP!Copy!Server,
         Copy!backupVars, LeaseP!Copy!backupVars
<1>7. ASSUME NEW i \in BackedUp, Copy!RemoveFolder(i)
      PROVE  LeaseP!Copy!RemoveFolder(i)
  BY <1>7
     DEF Copy!RemoveFolder, LeaseP!Copy!RemoveFolder, Copy!Server, LeaseP!Copy!Server,
         Copy!backupVars, LeaseP!Copy!backupVars
<1>8. ASSUME NEW i \in BackedUp, Copy!AddFolder(i)
      PROVE  LeaseP!Copy!AddFolder(i)
  BY <1>8
     DEF Copy!AddFolder, LeaseP!Copy!AddFolder, Copy!serverVars, LeaseP!Copy!serverVars
<1>9. ASSUME NEW i \in BackedUp, Copy!Extract(i)
      PROVE  LeaseP!Copy!Extract(i)
  BY <1>9
     DEF Copy!Extract, LeaseP!Copy!Extract, Copy!serverVars, LeaseP!Copy!serverVars,
         Copy!backupVars, LeaseP!Copy!backupVars
<1>10. ASSUME Copy!DumpRuns
      PROVE  LeaseP!Copy!DumpRuns
  BY <1>10
     DEF Copy!DumpRuns, LeaseP!Copy!DumpRuns, Copy!serverVars, LeaseP!Copy!serverVars,
         Copy!Empty, LeaseP!Copy!Empty
<1>11. ASSUME Copy!DumpTests
      PROVE  LeaseP!Copy!DumpTests
  BY <1>11
     DEF Copy!DumpTests, LeaseP!Copy!DumpTests, Copy!serverVars, LeaseP!Copy!serverVars
<1>12. ASSUME Copy!BackupFails
      PROVE  LeaseP!Copy!BackupFails
  BY <1>12
     DEF Copy!BackupFails, LeaseP!Copy!BackupFails, Copy!serverVars, LeaseP!Copy!serverVars
<1>13. ASSUME Copy!Publish
      PROVE  LeaseP!Copy!Publish
  BY <1>13
     DEF Copy!Publish, LeaseP!Copy!Publish, Copy!serverVars, LeaseP!Copy!serverVars,
         Copy!Ready, LeaseP!Copy!Ready
<1>14. ASSUME NEW replace \in BOOLEAN, Copy!Check(replace)
      PROVE  LeaseP!Copy!Check(replace)
  BY <1>14
     DEF Copy!Check, LeaseP!Copy!Check, Copy!serverVars, LeaseP!Copy!serverVars,
         Copy!backupVars, LeaseP!Copy!backupVars
<1>15. ASSUME Copy!Load
      PROVE  LeaseP!Copy!Load
  BY <1>15
     DEF Copy!Load, LeaseP!Copy!Load, Copy!serverVars, LeaseP!Copy!serverVars,
         Copy!backupVars, LeaseP!Copy!backupVars, Copy!Loaded, LeaseP!Copy!Loaded
<1>16. ASSUME Copy!LoadFails
      PROVE  LeaseP!Copy!LoadFails
  BY <1>16
     DEF Copy!LoadFails, LeaseP!Copy!LoadFails, Copy!serverVars, LeaseP!Copy!serverVars,
         Copy!backupVars, LeaseP!Copy!backupVars
<1>17. ASSUME Copy!RestoreCrash
      PROVE  LeaseP!Copy!RestoreCrash
  BY <1>17
     DEF Copy!RestoreCrash, LeaseP!Copy!RestoreCrash, Copy!serverVars,
         LeaseP!Copy!serverVars, Copy!backupVars, LeaseP!Copy!backupVars
<1>18. ASSUME Copy!RestoreEnds
      PROVE  LeaseP!Copy!RestoreEnds
  BY <1>18
     DEF Copy!RestoreEnds, LeaseP!Copy!RestoreEnds, Copy!serverVars, LeaseP!Copy!serverVars,
         Copy!backupVars, LeaseP!Copy!backupVars
<1>. QED
  BY <1>1, <1>2, <1>3, <1>4, <1>5, <1>6, <1>7, <1>8, <1>9, <1>10, <1>11,
     <1>12, <1>13, <1>14, <1>15, <1>16, <1>17, <1>18
     DEF CopyStep, LeaseP!Copy!Next

LEMMA BackupNext ==
  ASSUME [PartsNext]_regs, part = "backup"
  PROVE  part' = "backup" /\ [LeaseP!Copy!Next]_(LeaseP!Copy!vars)
<1>1. part' = "backup" /\ (CopyStep \/ UNCHANGED regs)
  BY DEF PartsNext, In, regs
<1>2. UNCHANGED regs => UNCHANGED LeaseP!Copy!vars
  BY DEF regs, LeaseP!Copy!vars
<1>. QED
  BY <1>1, <1>2, BackupActs

LEMMA BackupIsSound ==
  LeaseP!Copy!Spec => [](LeaseP!Copy!SettledComesBack /\ LeaseP!Copy!NeverMixes)
<1>1. LeaseP!BackupAssumption
  BY BackupAssumption, ZenonT(40) DEF LeaseP!BackupAssumption
<1>2. LeaseP!StoreAssumption /\ LeaseP!ClientAssumption
  BY LeaseConstants, ZenonT(40)
<1>. QED
  BY <1>1, <1>2, LeaseP!BackupIsSound, ZenonT(40)

\* What was settled when the backup was taken is whole in the target when a restore of it is
\* done, and a target never has runs of its own beside restored ones.
THEOREM BackupsComeBack == PartsSpec => []BackupComesBack
<1>. DEFINE Here == part = "backup"
<1>1. PartsInit => (Here => LeaseP!Copy!Init)
  BY BackupBegins DEF PartsInit
<1>2. [PartsNext]_regs => (~Here => ~Here')
  BY DEF PartsNext, In, regs
<1>3. [PartsNext]_regs /\ Here => Here' /\ [LeaseP!Copy!Next]_(LeaseP!Copy!vars)
  BY BackupNext
<1>4. LeaseP!Copy!SettledComesBack /\ LeaseP!Copy!NeverMixes => BackupComesBack
  BY DEF BackupComesBack, Copy!SettledComesBack, LeaseP!Copy!SettledComesBack, Copy!NeverMixes,
         LeaseP!Copy!NeverMixes
<1>5. ~Here => BackupComesBack
  BY DEF BackupComesBack
<1>. HIDE DEF Here
<1>. QED
  BY <1>1, <1>2, <1>3, <1>4, <1>5, BackupIsSound, PTL DEF PartsSpec, LeaseP!Copy!Spec

-----------------------------------------------------------------------------
(* PoolProvider, whose items are r1, keys there r2, held r3, at r4, pool r5,   *)
(* listed r6, verb r7, steps r8, unlogged r9, moved r10 and crowded r11.       *)

LEMMA ProviderCards == \A S : Provider!Cardinality(S) = LeaseP!Provider!Cardinality(S)
BY DEF Provider!Cardinality, LeaseP!Provider!Cardinality

LEMMA ProviderPlans ==
  /\ \A o : /\ Provider!Room(o) = LeaseP!Provider!Room(o)
            /\ Provider!New(o) = LeaseP!Provider!New(o)
  /\ \A S : Provider!Min(S) = LeaseP!Provider!Min(S)
  /\ \A o, k : Provider!SafeToDestroy(o, k) <=> LeaseP!Provider!SafeToDestroy(o, k)
  /\ \A o, what, n, S : Provider!Plan(o, what, n, S) <=> LeaseP!Provider!Plan(o, what, n, S)
<1>1. \A o : Provider!Existing(o) = LeaseP!Provider!Existing(o)
  BY DEF Provider!Existing, LeaseP!Provider!Existing
<1>2. \A S : Provider!Min(S) = LeaseP!Provider!Min(S)
  BY DEF Provider!Min, LeaseP!Provider!Min
<1>3. \A S : Provider!Max(S) = LeaseP!Provider!Max(S)
  BY DEF Provider!Max, LeaseP!Provider!Max
<1>4. \A o : /\ Provider!Room(o) = LeaseP!Provider!Room(o)
             /\ Provider!New(o) = LeaseP!Provider!New(o)
  BY <1>1, <1>3, ProviderCards, ZenonT(40)
     DEF Provider!Room, LeaseP!Provider!Room, Provider!New, LeaseP!Provider!New
<1>5. \A o, k : Provider!SafeToDestroy(o, k) <=> LeaseP!Provider!SafeToDestroy(o, k)
  BY DEF Provider!SafeToDestroy, LeaseP!Provider!SafeToDestroy
<1>6. \A n, S : Provider!First(n, S) = LeaseP!Provider!First(n, S)
  <2>. SUFFICES ASSUME NEW n, NEW S
                PROVE  Provider!First(n, S) = LeaseP!Provider!First(n, S)
    OBVIOUS
  <2>1. Provider!Min({n, Provider!Cardinality(S)})
          = LeaseP!Provider!Min({n, LeaseP!Provider!Cardinality(S)})
    BY <1>2, ProviderCards, ZenonT(40)
  <2>2. \A T : Provider!Injection(T, S) = LeaseP!Provider!Injection(T, S)
    BY DEF Provider!Injection, LeaseP!Provider!Injection, Provider!IsInjective,
           LeaseP!Provider!IsInjective
  <2>. QED
    BY <2>1, <2>2, ZenonT(40) DEF Provider!First, LeaseP!Provider!First
<1>7. \A o, what, n, S : Provider!Plan(o, what, n, S) <=> LeaseP!Provider!Plan(o, what, n, S)
  BY <1>6, ZenonT(40) DEF Provider!Plan, LeaseP!Provider!Plan
<1>. QED
  BY <1>2, <1>4, <1>5, <1>7, ZenonT(40)

LEMMA ProviderBegins ==
  ASSUME Provider!Init
  PROVE  LeaseP!Provider!Init
BY DEF Provider!Init, LeaseP!Provider!Init

LEMMA ProviderActs ==
  ASSUME ProviderStep
  PROVE  LeaseP!Provider!Next
<1>1. ASSUME NEW k \in PoolKeys, Provider!AddItem(k)
      PROVE  LeaseP!Provider!AddItem(k)
  BY <1>1 DEF Provider!AddItem, LeaseP!Provider!AddItem,
     Provider!Change, LeaseP!Provider!Change, Provider!Moves, LeaseP!Provider!Moves,
     Provider!Looked, LeaseP!Provider!Looked
<1>2. ASSUME NEW k \in PoolKeys, Provider!DropItem(k)
      PROVE  LeaseP!Provider!DropItem(k)
  BY <1>2 DEF Provider!DropItem, LeaseP!Provider!DropItem,
     Provider!Change, LeaseP!Provider!Change
<1>3. ASSUME NEW k \in PoolKeys, Provider!Take(k)
      PROVE  LeaseP!Provider!Take(k)
  BY <1>3 DEF Provider!Take, LeaseP!Provider!Take,
     Provider!Change, LeaseP!Provider!Change, Provider!Moves, LeaseP!Provider!Moves,
     Provider!Planned, LeaseP!Provider!Planned
<1>4. ASSUME NEW k \in PoolKeys, Provider!GiveBack(k)
      PROVE  LeaseP!Provider!GiveBack(k)
  BY <1>4 DEF Provider!GiveBack, LeaseP!Provider!GiveBack,
     Provider!Change, LeaseP!Provider!Change
<1>5. ASSUME NEW o \in People, Provider!ReadConfig(o)
      PROVE  LeaseP!Provider!ReadConfig(o)
  BY <1>5 DEF Provider!ReadConfig, LeaseP!Provider!ReadConfig
<1>6. ASSUME NEW o \in People, Provider!List(o)
      PROVE  LeaseP!Provider!List(o)
  BY <1>6 DEF Provider!List, LeaseP!Provider!List
<1>7. ASSUME NEW o \in People, Provider!GiveUp(o)
      PROVE  LeaseP!Provider!GiveUp(o)
  BY <1>7 DEF Provider!GiveUp, LeaseP!Provider!GiveUp
<1>8. ASSUME NEW o \in People, Provider!PlanSweep(o)
      PROVE  LeaseP!Provider!PlanSweep(o)
  BY <1>8, ProviderPlans, ProviderCards DEF Provider!PlanSweep, LeaseP!Provider!PlanSweep
<1>9. ASSUME NEW o \in People, Provider!Confirm(o)
      PROVE  LeaseP!Provider!Confirm(o)
  BY <1>9 DEF Provider!Confirm, LeaseP!Provider!Confirm
<1>10. ASSUME NEW o \in People, Provider!LogStep(o)
      PROVE  LeaseP!Provider!LogStep(o)
  BY <1>10 DEF Provider!LogStep, LeaseP!Provider!LogStep
<1>11. ASSUME NEW o \in People, Provider!LogFails(o)
      PROVE  LeaseP!Provider!LogFails(o)
  BY <1>11 DEF Provider!LogFails, LeaseP!Provider!LogFails
<1>12. ASSUME NEW o \in People, NEW names \in AskedKeys, Provider!PlanAdd(o, names)
      PROVE  LeaseP!Provider!PlanAdd(o, names)
  BY <1>12, ProviderPlans, ProviderCards DEF Provider!PlanAdd, LeaseP!Provider!PlanAdd
<1>13. ASSUME NEW o \in People, NEW names \in AskedKeys, Provider!PlanRemove(o, names)
      PROVE  LeaseP!Provider!PlanRemove(o, names)
  BY <1>13, ProviderPlans, ProviderCards DEF Provider!PlanRemove, LeaseP!Provider!PlanRemove
<1>14. ASSUME NEW o \in People, NEW n \in 1 .. MaxPlanned, Provider!PlanCount(o, n)
      PROVE  LeaseP!Provider!PlanCount(o, n)
  BY <1>14, ProviderPlans, ProviderCards DEF Provider!PlanCount, LeaseP!Provider!PlanCount
<1>15. ASSUME NEW o \in People, NEW works \in BOOLEAN, Provider!RunStep(o, works)
      PROVE  LeaseP!Provider!RunStep(o, works)
  BY <1>15 DEF Provider!RunStep, LeaseP!Provider!RunStep,
     Provider!Looked, LeaseP!Provider!Looked
<1>. QED
  BY <1>1, <1>2, <1>3, <1>4, <1>5, <1>6, <1>7, <1>8, <1>9, <1>10, <1>11, <1>12,
     <1>13, <1>14, <1>15
     DEF ProviderStep, LeaseP!Provider!Next

LEMMA ProviderNext ==
  ASSUME [PartsNext]_regs, part = "provider"
  PROVE  part' = "provider" /\ [LeaseP!Provider!Next]_(LeaseP!Provider!vars)
<1>1. part' = "provider" /\ (ProviderStep \/ UNCHANGED regs)
  BY DEF PartsNext, In, regs
<1>2. UNCHANGED regs => UNCHANGED LeaseP!Provider!vars
  BY DEF regs, LeaseP!Provider!vars
<1>. QED
  BY <1>1, <1>2, ProviderActs

LEMMA ProviderIsSound ==
  LeaseP!Provider!Spec =>
    /\ []LeaseP!Provider!AllLogged
    /\ [][LeaseP!Provider!DestroysOnlyLeft /\ LeaseP!Provider!MaxItemsKept]_(LeaseP!Provider!vars)
<1>1. \A S : IsFiniteSet(S) <=> LeaseP!IsFiniteSet(S)
  BY ZenonT(40) DEF IsFiniteSet, LeaseP!IsFiniteSet
<1>2. LeaseP!ProviderAssumption
  BY <1>1, ProviderAssumption, ZenonT(40) DEF LeaseP!ProviderAssumption
<1>3. LeaseP!ProviderBounds
  BY ProviderBounds, ZenonT(40) DEF LeaseP!ProviderBounds
<1>4. LeaseP!StoreAssumption /\ LeaseP!ClientAssumption
  BY LeaseConstants, ZenonT(40)
<1>. QED
  BY <1>2, <1>3, <1>4, LeaseP!ProviderIsSound, ZenonT(40)

\* An expired lease is never made valid again, a key outlives the command it was taken for, and
\* what `pool` destroys was nobody's, what it creates finds room, and all it does is logged.
THEOREM KeysAreSafe == PartsSpec => KeysSafe
<1>. DEFINE InFrozen == part = "frozen"
            InWrapper == part = "wrapper"
            InProvider == part = "provider"
            HoldInv == InWrapper => Wrapper!WrapperInv
<1>1. PartsInit => /\ InFrozen => LeaseP!Init
                   /\ InProvider => LeaseP!Provider!Init
                   /\ HoldInv
  BY FrozenBegins, WrapperBegins, ProviderBegins DEF PartsInit
<1>2. [PartsNext]_regs => (~InFrozen => ~InFrozen') /\ (~InProvider => ~InProvider')
  BY DEF PartsNext, In, regs
<1>3. [PartsNext]_regs /\ InFrozen => InFrozen' /\ [LeaseP!Next]_(LeaseP!vars)
  BY FrozenNext
<1>4. HoldInv /\ [PartsNext]_regs => HoldInv'
  <2>1. [PartsNext]_regs => (~InWrapper => ~InWrapper')
    BY DEF PartsNext, In, regs
  <2>2. ASSUME [PartsNext]_regs, part = "wrapper", Wrapper!WrapperInv
        PROVE  Wrapper!WrapperInv'
    BY <2>2, WrapperNext, WrapperActs, WrapperRests
  <2>. QED
    BY <2>1, <2>2
<1>5. [PartsNext]_regs /\ InProvider
        => InProvider' /\ [LeaseP!Provider!Next]_(LeaseP!Provider!vars)
  BY ProviderNext
<1>6. [LeaseP!NeverRevived]_(LeaseP!vars)
        => [part = "frozen" => Frozen!NeverRevived]_regs
  BY DEF LeaseP!NeverRevived, Frozen!NeverRevived, LeaseP!NoRow, Frozen!NoRow, LeaseP!vars,
         LeaseP!storeVars
<1>7. ~InFrozen => [part = "frozen" => Frozen!NeverRevived]_regs
  OBVIOUS
<1>8. HoldInv => (part = "wrapper" => Wrapper!KeyOutlivesCommand)
  BY DEF Wrapper!WrapperInv
<1>9. LeaseP!Provider!AllLogged => (part = "provider" => Provider!AllLogged)
  BY ProviderCards DEF LeaseP!Provider!AllLogged, Provider!AllLogged
<1>10. [LeaseP!Provider!DestroysOnlyLeft /\ LeaseP!Provider!MaxItemsKept]_(LeaseP!Provider!vars)
         => [part = "provider" => Provider!DestroysOnlyLeft /\ Provider!MaxItemsKept]_regs
  <2>1. UNCHANGED LeaseP!Provider!vars => Provider!DestroysOnlyLeft /\ Provider!MaxItemsKept
    BY DEF LeaseP!Provider!vars, Provider!DestroysOnlyLeft, Provider!MaxItemsKept
  <2>2. LeaseP!Provider!DestroysOnlyLeft => Provider!DestroysOnlyLeft
    BY DEF LeaseP!Provider!DestroysOnlyLeft, Provider!DestroysOnlyLeft
  <2>3. LeaseP!Provider!MaxItemsKept => Provider!MaxItemsKept
    BY ProviderCards DEF LeaseP!Provider!MaxItemsKept, Provider!MaxItemsKept
  <2>. QED
    BY <2>1, <2>2, <2>3
<1>11. ~InProvider => /\ part = "provider" => Provider!AllLogged
                      /\ [part = "provider" => Provider!DestroysOnlyLeft /\ Provider!MaxItemsKept]_regs
  OBVIOUS
<1>. HIDE DEF InFrozen, InWrapper, InProvider, HoldInv
<1>. QED
  BY <1>1, <1>2, <1>3, <1>4, <1>5, <1>6, <1>7, <1>8, <1>9, <1>10, <1>11, FrozenIsSound,
     ProviderIsSound, PTL
     DEF PartsSpec, KeysSafe, LeaseP!Spec, LeaseP!ExpiredStaysExpired, LeaseP!Provider!Spec

-----------------------------------------------------------------------------
(* SchemaUpgrade, whose dialect is r1, built r2, rows r3, stage r4, rev r5,    *)
(* lacking r6, opened r7, added r8, mine r9, base r10 and died r11.            *)

LEMMA UpgradeLevels ==
  /\ Upgrade!HeadRev = LeaseP!Upgrade!HeadRev
  /\ \A k : Upgrade!UpTo(k) = LeaseP!Upgrade!UpTo(k) /\ Upgrade!Row(k) = LeaseP!Upgrade!Row(k)
<1>1. \A s : Upgrade!ToSet(s) = LeaseP!Upgrade!ToSet(s)
  BY DEF Upgrade!ToSet, LeaseP!Upgrade!ToSet
<1>. QED
  BY <1>1, ZenonT(40)
     DEF Upgrade!HeadRev, LeaseP!Upgrade!HeadRev, Upgrade!UpTo, LeaseP!Upgrade!UpTo,
         Upgrade!Row, LeaseP!Upgrade!Row

LEMMA UpgradeNeeds ==
  /\ \A p : Upgrade!NextItem(p) = LeaseP!Upgrade!NextItem(p)
  /\ \A p : Upgrade!Seen(p) = LeaseP!Upgrade!Seen(p)
  /\ \A r, seen : Upgrade!Lacks(r, seen) = LeaseP!Upgrade!Lacks(r, seen)
  /\ \A p, needed, row : Upgrade!Blocked(p, needed, row) <=> LeaseP!Upgrade!Blocked(p, needed, row)
<1>1. \A s : Upgrade!ToSet(s) = LeaseP!Upgrade!ToSet(s)
  BY DEF Upgrade!ToSet, LeaseP!Upgrade!ToSet
<1>2. \A p : Upgrade!NextItem(p) = LeaseP!Upgrade!NextItem(p)
  BY ZenonT(40) DEF Upgrade!NextItem, LeaseP!Upgrade!NextItem
<1>3. \A p : Upgrade!Seen(p) = LeaseP!Upgrade!Seen(p)
  BY ZenonT(40) DEF Upgrade!Seen, LeaseP!Upgrade!Seen
<1>4. \A r, seen : Upgrade!Lacks(r, seen) = LeaseP!Upgrade!Lacks(r, seen)
  BY <1>1, ZenonT(40) DEF Upgrade!Lacks, LeaseP!Upgrade!Lacks
<1>5. \A p, needed, row : Upgrade!Blocked(p, needed, row) <=> LeaseP!Upgrade!Blocked(p, needed, row)
  BY ZenonT(40) DEF Upgrade!Blocked, LeaseP!Upgrade!Blocked
<1>. QED
  BY <1>2, <1>3, <1>4, <1>5, ZenonT(40)

LEMMA UpgradeBegins ==
  ASSUME Upgrade!Init
  PROVE  LeaseP!Upgrade!Init
BY UpgradeLevels DEF Upgrade!Init, LeaseP!Upgrade!Init

LEMMA UpgradeActs ==
  ASSUME UpgradeStep
  PROVE  LeaseP!Upgrade!Next
<1>1. ASSUME NEW p \in Upgraders, Upgrade!Begin(p)
      PROVE  LeaseP!Upgrade!Begin(p)
  BY <1>1, UpgradeLevels
     DEF Upgrade!Begin, LeaseP!Upgrade!Begin, Upgrade!Goto, LeaseP!Upgrade!Goto
<1>2. ASSUME NEW p \in Upgraders, Upgrade!Inspect(p)
      PROVE  LeaseP!Upgrade!Inspect(p)
  BY <1>2, UpgradeNeeds, ZenonT(40)
     DEF Upgrade!Inspect, LeaseP!Upgrade!Inspect, Upgrade!Goto, LeaseP!Upgrade!Goto
<1>3. ASSUME NEW p \in Upgraders, Upgrade!Create(p)
      PROVE  LeaseP!Upgrade!Create(p)
  BY <1>3, UpgradeNeeds, ZenonT(40)
     DEF Upgrade!Create, LeaseP!Upgrade!Create
<1>4. ASSUME NEW p \in Upgraders, Upgrade!Stamp(p)
      PROVE  LeaseP!Upgrade!Stamp(p)
  BY <1>4, UpgradeLevels, UpgradeNeeds
     DEF Upgrade!Stamp, LeaseP!Upgrade!Stamp, Upgrade!Goto, LeaseP!Upgrade!Goto
<1>5. ASSUME NEW p \in Upgraders, Upgrade!Commit(p)
      PROVE  LeaseP!Upgrade!Commit(p)
  BY <1>5
     DEF Upgrade!Commit, LeaseP!Upgrade!Commit, Upgrade!Goto, LeaseP!Upgrade!Goto
<1>6. ASSUME NEW p \in Upgraders, Upgrade!DatabaseError(p)
      PROVE  LeaseP!Upgrade!DatabaseError(p)
  BY <1>6, UpgradeNeeds
     DEF Upgrade!DatabaseError, LeaseP!Upgrade!DatabaseError, Upgrade!Goto,
         LeaseP!Upgrade!Goto, Upgrade!Rollback, LeaseP!Upgrade!Rollback
<1>7. ASSUME NEW p \in Upgraders, Upgrade!CommandError(p)
      PROVE  LeaseP!Upgrade!CommandError(p)
  BY <1>7, UpgradeNeeds
     DEF Upgrade!CommandError, LeaseP!Upgrade!CommandError, Upgrade!Goto,
         LeaseP!Upgrade!Goto, Upgrade!Rollback, LeaseP!Upgrade!Rollback
<1>8. ASSUME NEW p \in Upgraders, Upgrade!AfterError(p)
      PROVE  LeaseP!Upgrade!AfterError(p)
  BY <1>8, UpgradeLevels
     DEF Upgrade!AfterError, LeaseP!Upgrade!AfterError, Upgrade!Goto, LeaseP!Upgrade!Goto
<1>9. ASSUME NEW p \in Upgraders, Upgrade!Crash(p)
      PROVE  LeaseP!Upgrade!Crash(p)
  BY <1>9
     DEF Upgrade!Crash, LeaseP!Upgrade!Crash, Upgrade!Goto, LeaseP!Upgrade!Goto,
         Upgrade!Rollback, LeaseP!Upgrade!Rollback, Upgrade!Active, LeaseP!Upgrade!Active
<1>. QED
  BY <1>1, <1>2, <1>3, <1>4, <1>5, <1>6, <1>7, <1>8, <1>9
     DEF UpgradeStep, LeaseP!Upgrade!Next

LEMMA UpgradeNext ==
  ASSUME [PartsNext]_regs, part = "upgrade"
  PROVE  part' = "upgrade" /\ [LeaseP!Upgrade!Next]_(LeaseP!Upgrade!vars)
<1>1. part' = "upgrade" /\ (UpgradeStep \/ UNCHANGED regs)
  BY DEF PartsNext, In, regs
<1>2. UNCHANGED regs => UNCHANGED LeaseP!Upgrade!vars
  BY DEF regs, LeaseP!Upgrade!vars
<1>. QED
  BY <1>1, <1>2, UpgradeActs

LEMMA UpgradeIsSound ==
  LeaseP!Upgrade!Spec =>
    /\ []LeaseP!Upgrade!StampedIsWhole
    /\ [][LeaseP!Upgrade!ForwardOnly]_(LeaseP!Upgrade!vars)
<1>1. LeaseP!UpgradeAssumption
  BY UpgradeAssumption, ZenonT(40) DEF LeaseP!UpgradeAssumption
<1>2. LeaseP!StoreAssumption /\ LeaseP!ClientAssumption
  BY LeaseConstants, ZenonT(40)
<1>. QED
  BY <1>1, <1>2, LeaseP!UpgradeIsSound, ZenonT(40)

\* However upgrades of one database race and die, a revision that it says it is at is all there,
\* it says so in one row, it never goes back, and who returns normally leaves the newest one.
THEOREM UpgradesAreWhole == PartsSpec => UpgradesWhole
<1>. DEFINE Here == part = "upgrade"
<1>1. PartsInit => (Here => LeaseP!Upgrade!Init)
  BY UpgradeBegins DEF PartsInit
<1>2. [PartsNext]_regs => (~Here => ~Here')
  BY DEF PartsNext, In, regs
<1>3. [PartsNext]_regs /\ Here => Here' /\ [LeaseP!Upgrade!Next]_(LeaseP!Upgrade!vars)
  BY UpgradeNext
<1>4. LeaseP!Upgrade!StampedIsWhole => (part = "upgrade" => Upgrade!StampedIsWhole)
  <2>1. \A i : Upgrade!Skipped(i) <=> LeaseP!Upgrade!Skipped(i)
    <3>1. \A s : Upgrade!ToSet(s) = LeaseP!Upgrade!ToSet(s)
      BY DEF Upgrade!ToSet, LeaseP!Upgrade!ToSet
    <3>. QED
      BY <3>1, ZenonT(40) DEF Upgrade!Skipped, LeaseP!Upgrade!Skipped
  <2>2. \A k : Upgrade!Whole(k) <=> LeaseP!Upgrade!Whole(k)
    BY <2>1, UpgradeLevels, ZenonT(40) DEF Upgrade!Whole, LeaseP!Upgrade!Whole
  <2>. QED
    BY <2>2, ZenonT(40) DEF Upgrade!StampedIsWhole, LeaseP!Upgrade!StampedIsWhole
<1>5. [PartsNext]_regs /\ Here /\ [LeaseP!Upgrade!ForwardOnly]_(LeaseP!Upgrade!vars)
        => [part = "upgrade" => Upgrade!ForwardOnly]_regs
  <2>. SUFFICES ASSUME [LeaseP!Upgrade!ForwardOnly]_(LeaseP!Upgrade!vars), [PartsNext]_regs,
                       part = "upgrade", ~UNCHANGED regs
                PROVE  Upgrade!ForwardOnly
    BY DEF Here
  <2>1. part' = part /\ UNCHANGED <<r12, r13, r14, r15, r16, r17, r18, r19>>
    <3>1. part' = part /\ Idle(11)
      BY DEF PartsNext, In
    <3>. QED
      BY <3>1 DEF Idle
  <2>2. ~UNCHANGED LeaseP!Upgrade!vars
    BY <2>1 DEF regs, LeaseP!Upgrade!vars
  <2>3. LeaseP!Upgrade!ForwardOnly
    BY <2>2
  <2>. QED
    BY <2>3, UpgradeLevels DEF Upgrade!ForwardOnly, LeaseP!Upgrade!ForwardOnly
<1>6. ~Here => /\ part = "upgrade" => Upgrade!StampedIsWhole
               /\ [part = "upgrade" => Upgrade!ForwardOnly]_regs
  OBVIOUS
<1>. HIDE DEF Here
<1>. QED
  BY <1>1, <1>2, <1>3, <1>4, <1>5, <1>6, UpgradeIsSound, PTL
     DEF PartsSpec, UpgradesWhole, LeaseP!Upgrade!Spec

-----------------------------------------------------------------------------
(* Executions, whose rows, servers and runs are those of the part "shared";    *)
(* nothing else of ServerProofs is there.                                      *)
SharedP == INSTANCE ServerProofs WITH
  Cycles <- {"a"}, MaxRuns <- 2, MaxConcurrent <- 1, MaxFinished <- 1, Durable <- TRUE,
  DbErrors <- TRUE, Crashes <- TRUE, Peek <- FALSE, created <- r1, cycle <- r2, rows <- r3,
  up <- r4, todo <- r5, known <- r6, active <- r7, fifo <- r8, finished <- r9,
  status <- r10, done <- r11, stopped <- r12, outcome <- r13, at <- r14, cancelling <- r15,
  accepted <- r16, started <- r17, refused <- r18, told <- r19,
  holder <- 0, marker <- 0, found <- 0, recorded <- 0, lost <- 0, lockAt <- 0, lockCrashes <- 0,
  row <- 0, metadata <- 0, tests <- 0, folder <- 0, persistAt <- 0, patch <- 0, remover <- 0,
  server <- 0, orphans <- 0, reviewed <- 0, deleted <- 0, picked <- 0, hurried <- 0,
  crashed <- 0, leftover <- 0, historyCrashes <- 0, handler <- 0, container <- 0, names <- 0,
  slots <- 0, service <- 0, client <- 0, open <- 0, sent <- 0, code <- 0, killed <- 0,
  runnerCrashes <- 0

LEMMA SharedInit == Shared!Init => SharedP!Init
BY DEF Shared!Init, SharedP!Init, Shared!Ids, SharedP!Ids, Shared!NoId, SharedP!NoId,
       Shared!NoCycle, SharedP!NoCycle

LEMMA SharedSteps ==
  ASSUME SharedStep
  PROVE  SharedP!Next
<1>. USE DEF Shared!Serving, SharedP!Serving, Shared!Goto, SharedP!Goto, Shared!Freed,
             SharedP!Freed, Shared!Registered, SharedP!Registered, Shared!HasIdle,
             SharedP!HasIdle, Shared!Busy, SharedP!Busy, Shared!Mine, SharedP!Mine, Shared!Kept,
             SharedP!Kept, Shared!Free, SharedP!Free, Shared!MarkDone, SharedP!MarkDone,
             Shared!MayName, SharedP!MayName, Shared!Wiped, SharedP!Wiped, Shared!Oldest,
             SharedP!Oldest, Shared!stateVars, SharedP!stateVars, Shared!dbVars, SharedP!dbVars,
             Shared!threadVars, SharedP!threadVars, Shared!history, SharedP!history, Shared!Ids,
             SharedP!Ids, Shared!NoId, SharedP!NoId, Shared!Cardinality, SharedP!Cardinality
<1>1. ASSUME NEW s \in Servers, Shared!Create(s)
      PROVE  SharedP!Create(s)
  BY <1>1 DEF Shared!Create, SharedP!Create
<1>2. ASSUME NEW s \in Servers, NEW i \in 1 .. 2, Shared!AddRow(s, i)
      PROVE  SharedP!AddRow(s, i)
  BY <1>2 DEF Shared!AddRow, SharedP!AddRow
<1>3. ASSUME NEW s \in Servers, NEW i \in 1 .. 2, Shared!AddFail(s, i)
      PROVE  SharedP!AddFail(s, i)
  BY <1>3 DEF Shared!AddFail, SharedP!AddFail
<1>4. ASSUME NEW s \in Servers, NEW i \in 1 .. 2, Shared!Put(s, i)
      PROVE  SharedP!Put(s, i)
  BY <1>4 DEF Shared!Put, SharedP!Put
<1>5. ASSUME NEW s \in Servers, Shared!Pick(s)
      PROVE  SharedP!Pick(s)
  BY <1>5 DEF Shared!Pick, SharedP!Pick
<1>6. ASSUME NEW s \in Servers, NEW i \in 1 .. 2, Shared!Claim(s, i)
      PROVE  SharedP!Claim(s, i)
  BY <1>6 DEF Shared!Claim, SharedP!Claim
<1>7. ASSUME NEW s \in Servers, NEW i \in 1 .. 2, Shared!ClaimLost(s, i)
      PROVE  SharedP!ClaimLost(s, i)
  BY <1>7 DEF Shared!ClaimLost, SharedP!ClaimLost
<1>8. ASSUME NEW s \in Servers, NEW i \in 1 .. 2, Shared!ClaimFail(s, i)
      PROVE  SharedP!ClaimFail(s, i)
  BY <1>8 DEF Shared!ClaimFail, SharedP!ClaimFail
<1>9. ASSUME NEW s \in Servers, NEW i \in 1 .. 2, Shared!RunEnd(s, i)
      PROVE  SharedP!RunEnd(s, i)
  BY <1>9 DEF Shared!RunEnd, SharedP!RunEnd
<1>10. ASSUME NEW s \in Servers, NEW i \in 1 .. 2, Shared!FinishFree(s, i)
      PROVE  SharedP!FinishFree(s, i)
  BY <1>10 DEF Shared!FinishFree, SharedP!FinishFree
<1>11. ASSUME NEW s \in Servers, NEW i \in 1 .. 2, Shared!FinishMark(s, i)
      PROVE  SharedP!FinishMark(s, i)
  BY <1>11 DEF Shared!FinishMark, SharedP!FinishMark
<1>12. ASSUME NEW s \in Servers, NEW i \in 1 .. 2, Shared!CancelQueued(s, i)
      PROVE  SharedP!CancelQueued(s, i)
  BY <1>12 DEF Shared!CancelQueued, SharedP!CancelQueued
<1>13. ASSUME NEW s \in Servers, NEW i \in 1 .. 2, Shared!CancelRunning(s, i)
      PROVE  SharedP!CancelRunning(s, i)
  BY <1>13 DEF Shared!CancelRunning, SharedP!CancelRunning
<1>14. ASSUME NEW s \in Servers, NEW i \in 1 .. 2, Shared!CancelClaim(s, i)
      PROVE  SharedP!CancelClaim(s, i)
  BY <1>14 DEF Shared!CancelClaim, SharedP!CancelClaim
<1>15. ASSUME NEW s \in Servers, NEW i \in 1 .. 2, Shared!CancelFree(s, i)
      PROVE  SharedP!CancelFree(s, i)
  BY <1>15 DEF Shared!CancelFree, SharedP!CancelFree
<1>16. ASSUME NEW s \in Servers, NEW i \in 1 .. 2, Shared!CancelMark(s, i)
      PROVE  SharedP!CancelMark(s, i)
  BY <1>16 DEF Shared!CancelMark, SharedP!CancelMark
<1>17. ASSUME NEW s \in Servers, Shared!Crash(s)
      PROVE  SharedP!Crash(s)
  BY <1>17 DEF Shared!Crash, SharedP!Crash
<1>18. ASSUME NEW s \in Servers, Shared!Restart(s)
      PROVE  SharedP!Restart(s)
  BY <1>18, ZenonT(40) DEF Shared!Restart, SharedP!Restart
<1>19. ASSUME NEW s \in Servers, Shared!Recover(s)
      PROVE  SharedP!Recover(s)
  BY <1>19 DEF Shared!Recover, SharedP!Recover
<1>20. ASSUME NEW s \in Servers, Shared!RecoverDrop(s)
      PROVE  SharedP!RecoverDrop(s)
  BY <1>20 DEF Shared!RecoverDrop, SharedP!RecoverDrop
<1>21. \A s \in Servers : SharedP!Work(s) \/ SharedP!Trouble(s) \/ SharedP!Recovery(s) \/
       SharedP!Ask(s)
                           => SharedP!Next
  BY DEF SharedP!Next
<1>22. SharedP!Ids = 1 .. 2
  BY DEF SharedP!Ids
<1>23. ASSUME NEW s \in Servers,
              Shared!Pick(s) \/ Shared!Create(s) \/ Shared!Crash(s) \/ Shared!Restart(s)
              \/ Shared!Recover(s) \/ Shared!RecoverDrop(s)
       PROVE  SharedP!Next
  BY <1>1, <1>5, <1>17, <1>18, <1>19, <1>20, <1>21, <1>23
     DEF SharedP!Work, SharedP!Trouble, SharedP!Recovery, SharedP!Ask
<1>24. ASSUME NEW s \in Servers, NEW i \in 1 .. 2,
              Shared!Steps(s, i) \/ Shared!Cancelling(s, i) \/ Shared!CancelQueued(s, i)
              \/ Shared!CancelRunning(s, i)
       PROVE  SharedP!Next
  BY <1>2, <1>3, <1>4, <1>6, <1>7, <1>8, <1>9, <1>10, <1>11, <1>12, <1>13, <1>14, <1>15, <1>16,
     <1>21, <1>22, <1>24
     DEF SharedP!Work, SharedP!Trouble, SharedP!Ask, Shared!Steps, Shared!Cancelling
<1>. QED
  BY <1>23, <1>24 DEF SharedStep

LEMMA SharedNext ==
  ASSUME [PartsNext]_regs, part = "shared"
  PROVE  part' = "shared" /\ [SharedP!Next]_(SharedP!vars)
<1>1. part' = "shared" /\ (SharedStep \/ UNCHANGED regs)
  BY DEF PartsNext, In, regs
<1>2. UNCHANGED regs => UNCHANGED SharedP!vars
  BY DEF regs, SharedP!vars, SharedP!dbVars, SharedP!stateVars, SharedP!threadVars,
         SharedP!history
<1>. QED
  BY <1>1, <1>2, SharedSteps

\* No run starts twice, though servers, however many, find its row, die and start again: what
\* is proved of executions for all constants holds of this part.
THEOREM SharedStartsOnce == PartsSpec => []StartsOnce
<1>. DEFINE Here == part = "shared"
<1>1. PartsInit /\ Here => SharedP!Init
  BY SharedInit DEF PartsInit
<1>2. [PartsNext]_regs => (~Here => ~Here')
  BY DEF PartsNext, In, regs
<1>3. [PartsNext]_regs /\ Here => Here' /\ [SharedP!Next]_(SharedP!vars)
  BY SharedNext
<1>4. SharedP!Spec => []SharedP!StartsOnce
  <2>1. /\ 2 \in Nat /\ 1 \in Nat \ {0} /\ {TRUE, TRUE, TRUE, FALSE} \subseteq BOOLEAN
    OBVIOUS
  <2>. QED
    BY <2>1, SharedP!NoneStartsTwice, PTL
<1>5. SharedP!StartsOnce => StartsOnce
  BY DEF SharedP!StartsOnce, Shared!StartsOnce, StartsOnce, SharedP!Ids, Shared!Ids
<1>6. ~Here => StartsOnce
  BY DEF StartsOnce
<1>. HIDE DEF Here
<1>. QED
  BY <1>1, <1>2, <1>3, <1>4, <1>5, <1>6, PTL DEF PartsSpec, SharedP!Spec
=============================================================================
