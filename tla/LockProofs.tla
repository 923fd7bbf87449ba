------------------------------ MODULE LockProofs -----------------------------
(***************************************************************************)
(* What holds of the lock of a cycle for any number of runs, any number of *)
(* processes that die, and whatever writes to the history fail.            *)
(***************************************************************************)
EXTENDS CycleLock, FiniteSetTheorems, TLAPS

Processes == Runs \cup {Server}

\* The constants name different things, and finitely many runs are asked for.
Distinct ==
  /\ Server \notin Runs /\ None \notin Processes
  /\ IsFiniteSet(Runs) /\ MaxCrashes \in Nat

-----------------------------------------------------------------------------
(* The inductive invariant.                                                *)

TypesInv ==
  /\ holder \in Processes \cup {None} /\ marker \in Runs \cup {None}
  /\ at \in [Processes -> Places \cup {"down", "held", "record", "up"}]
  /\ at[Server] \in {"down", "held", "record", "up"}
  /\ \A r \in Runs : at[r] \in Places
  /\ found \in [Processes -> Runs \cup {None}]
  /\ lost \subseteq Runs
  /\ recorded \in [Runs -> Nat]
  /\ crashes \in 0 .. MaxCrashes

\* Who is inside has the lock, so there is one of them.
OneInside == \A p \in Processes : holder = p <=> at[p] \in Inside \cup {"held"}

\* The file names the run that is going, or one that was killed, or nobody.
MarkerInv ==
  /\ marker # None => at[marker] \in {"run", "report", "killed"}
  /\ \A r \in Runs : at[r] \in {"run", "report"} => marker = r
  /\ \A r \in Runs : at[r] \in {"mark", "unlock"} => marker = None

\* What a process found when it took the lock is in the file until it empties it, and
\* the server has a killed run in hand that nobody else can find any more.
FoundInv ==
  /\ \A p \in Processes : at[p] \in {"left", "truncate", "held"} => found[p] = marker
  /\ at[Server] = "record" /\ found[Server] # None =>
       at[found[Server]] = "killed" /\ marker # found[Server]

\* A marker is emptied only when its run was recorded or the record was lost.
HandledInv ==
  \A r \in Runs : at[r] = "truncate" /\ found[r] # None =>
    recorded[found[r]] > 0 \/ found[r] \in lost

DeadWith(q) == {p \in Runs : at[p] = "dead" /\ found[p] = q}

\* Nobody between recording a run and emptying the file.
Unrecorded(q) ==
  \/ marker = q /\ \A p \in Runs : at[p] # "truncate"
  \/ at[Server] = "record" /\ found[Server] = q

CountAt(q) ==
  /\ recorded[q] <= 1 + Cardinality(DeadWith(q))
  /\ Unrecorded(q) => recorded[q] <= Cardinality(DeadWith(q))

CountInv == \A q \in Runs : CountAt(q)

SafeInv == TypesInv /\ OneInside /\ MarkerInv /\ FoundInv /\ OnlyTheDead

-----------------------------------------------------------------------------
(* Who is inside, and what the file says.                                  *)

LEMMA NextTypes ==
  ASSUME Distinct, TypesInv, [Next]_vars
  PROVE  TypesInv'
<1>. USE DEF TypesInv, Places, Inside, Distinct, Processes, lockVars, historyVars
<1>1. ASSUME NEW r \in Runs, Take(r) PROVE TypesInv'
  BY <1>1 DEF Take, Acquire, Goto
<1>2. ASSUME NEW r \in Runs, RecordLeft(r) PROVE TypesInv'
  BY <1>2 DEF RecordLeft, RecordAs, Goto
<1>3. ASSUME NEW r \in Runs, Truncate(r) PROVE TypesInv'
  BY <1>3 DEF Truncate, Goto
<1>4. ASSUME NEW r \in Runs, Mark(r) PROVE TypesInv'
  BY <1>4 DEF Mark, Goto
<1>5. ASSUME NEW r \in Runs, RunPlan(r) PROVE TypesInv'
  BY <1>5 DEF RunPlan, Goto
<1>6. ASSUME NEW r \in Runs, Clear(r) PROVE TypesInv'
  BY <1>6 DEF Clear, Goto
<1>7. ASSUME NEW r \in Runs, Unlock(r) PROVE TypesInv'
  BY <1>7 DEF Unlock, Goto
<1>8. CASE ServerStart
  BY <1>8 DEF ServerStart, Acquire, Goto
<1>9. CASE ServerTake
  BY <1>9 DEF ServerTake, Goto
<1>10. CASE ServerRecord
  BY <1>10 DEF ServerRecord, RecordAs, Goto
<1>11. ASSUME NEW p \in Processes, Crash(p) PROVE TypesInv'
  BY <1>11 DEF Crash, Grave, FreedByOs, DiesWith, Goto
<1>12. CASE UNCHANGED vars
  BY <1>12 DEF vars
<1>. QED
  BY <1>1, <1>2, <1>3, <1>4, <1>5, <1>6, <1>7, <1>8, <1>9, <1>10, <1>11, <1>12
     DEF Next, Step, ServerStep

LEMMA NextInside ==
  ASSUME Distinct, TypesInv, OneInside, [Next]_vars
  PROVE  OneInside'
<1>. USE DEF TypesInv, OneInside, Places, Inside, Distinct, Processes, lockVars, historyVars
<1>1. ASSUME NEW r \in Runs, Take(r) PROVE OneInside'
  BY <1>1 DEF Take, Acquire, Goto
<1>2. ASSUME NEW r \in Runs, RecordLeft(r) PROVE OneInside'
  BY <1>2 DEF RecordLeft, RecordAs, Goto
<1>3. ASSUME NEW r \in Runs, Truncate(r) PROVE OneInside'
  BY <1>3 DEF Truncate, Goto
<1>4. ASSUME NEW r \in Runs, Mark(r) PROVE OneInside'
  BY <1>4 DEF Mark, Goto
<1>5. ASSUME NEW r \in Runs, RunPlan(r) PROVE OneInside'
  BY <1>5 DEF RunPlan, Goto
<1>6. ASSUME NEW r \in Runs, Clear(r) PROVE OneInside'
  BY <1>6 DEF Clear, Goto
<1>7. ASSUME NEW r \in Runs, Unlock(r) PROVE OneInside'
  BY <1>7 DEF Unlock, Goto
<1>8. CASE ServerStart
  BY <1>8 DEF ServerStart, Acquire, Goto
<1>9. CASE ServerTake
  BY <1>9 DEF ServerTake, Goto
<1>10. CASE ServerRecord
  BY <1>10 DEF ServerRecord, RecordAs, Goto
<1>11. ASSUME NEW p \in Processes, Crash(p) PROVE OneInside'
  BY <1>11 DEF Crash, Grave, FreedByOs, DiesWith, Goto
<1>12. CASE UNCHANGED vars
  BY <1>12 DEF vars
<1>. QED
  BY <1>1, <1>2, <1>3, <1>4, <1>5, <1>6, <1>7, <1>8, <1>9, <1>10, <1>11, <1>12
     DEF Next, Step, ServerStep

LEMMA NextMarker ==
  ASSUME Distinct, SafeInv, [Next]_vars
  PROVE  MarkerInv'
<1>. USE DEF SafeInv, TypesInv, OneInside, MarkerInv, Inside, Distinct, Processes, lockVars, historyVars
<1>1. ASSUME NEW r \in Runs, Take(r) PROVE MarkerInv'
  BY <1>1 DEF Take, Acquire, Goto
<1>2. ASSUME NEW r \in Runs, RecordLeft(r) PROVE MarkerInv'
  BY <1>2 DEF RecordLeft, RecordAs, Goto
<1>3. ASSUME NEW r \in Runs, Truncate(r) PROVE MarkerInv'
  BY <1>3 DEF Truncate, Goto
<1>4. ASSUME NEW r \in Runs, Mark(r) PROVE MarkerInv'
  BY <1>4 DEF Mark, Goto
<1>5. ASSUME NEW r \in Runs, RunPlan(r) PROVE MarkerInv'
  BY <1>5 DEF RunPlan, Goto
<1>6. ASSUME NEW r \in Runs, Clear(r) PROVE MarkerInv'
  BY <1>6 DEF Clear, Goto
<1>7. ASSUME NEW r \in Runs, Unlock(r) PROVE MarkerInv'
  BY <1>7 DEF Unlock, Goto
<1>8. CASE ServerStart
  BY <1>8 DEF ServerStart, Acquire, Goto
<1>9. CASE ServerTake
  BY <1>9 DEF ServerTake, Goto
<1>10. CASE ServerRecord
  BY <1>10 DEF ServerRecord, RecordAs, Goto
<1>11. ASSUME NEW p \in Processes, Crash(p) PROVE MarkerInv'
  BY <1>11 DEF Crash, Grave, FreedByOs, DiesWith, Goto
<1>12. CASE UNCHANGED vars
  BY <1>12 DEF vars
<1>. QED
  BY <1>1, <1>2, <1>3, <1>4, <1>5, <1>6, <1>7, <1>8, <1>9, <1>10, <1>11, <1>12
     DEF Next, Step, ServerStep

LEMMA NextFound ==
  ASSUME Distinct, SafeInv, [Next]_vars
  PROVE  FoundInv'
<1>. USE DEF SafeInv, TypesInv, OneInside, MarkerInv, FoundInv, Inside, Distinct, Processes, lockVars, historyVars
<1>1. ASSUME NEW r \in Runs, Take(r) PROVE FoundInv'
  BY <1>1 DEF Take, Acquire, Goto
<1>2. ASSUME NEW r \in Runs, RecordLeft(r) PROVE FoundInv'
  BY <1>2 DEF RecordLeft, RecordAs, Goto
<1>3. ASSUME NEW r \in Runs, Truncate(r) PROVE FoundInv'
  BY <1>3 DEF Truncate, Goto
<1>4. ASSUME NEW r \in Runs, Mark(r) PROVE FoundInv'
  BY <1>4 DEF Mark, Goto
<1>5. ASSUME NEW r \in Runs, RunPlan(r) PROVE FoundInv'
  BY <1>5 DEF RunPlan, Goto
<1>6. ASSUME NEW r \in Runs, Clear(r) PROVE FoundInv'
  BY <1>6 DEF Clear, Goto
<1>7. ASSUME NEW r \in Runs, Unlock(r) PROVE FoundInv'
  BY <1>7 DEF Unlock, Goto
<1>8. CASE ServerStart
  BY <1>8 DEF ServerStart, Acquire, Goto
<1>9. CASE ServerTake
  BY <1>9 DEF ServerTake, Goto
<1>10. CASE ServerRecord
  BY <1>10 DEF ServerRecord, RecordAs, Goto
<1>11. ASSUME NEW p \in Processes, Crash(p) PROVE FoundInv'
  BY <1>11 DEF Crash, Grave, FreedByOs, DiesWith, Goto
<1>12. CASE UNCHANGED vars
  BY <1>12 DEF vars
<1>. QED
  BY <1>1, <1>2, <1>3, <1>4, <1>5, <1>6, <1>7, <1>8, <1>9, <1>10, <1>11, <1>12
     DEF Next, Step, ServerStep

LEMMA NextDead ==
  ASSUME Distinct, SafeInv, [Next]_vars
  PROVE  OnlyTheDead'
<1>. USE DEF SafeInv, TypesInv, OneInside, MarkerInv, FoundInv, Inside, OnlyTheDead, Distinct, Processes, lockVars, historyVars
<1>1. ASSUME NEW r \in Runs, Take(r) PROVE OnlyTheDead'
  BY <1>1 DEF Take, Acquire, Goto
<1>2. ASSUME NEW r \in Runs, RecordLeft(r) PROVE OnlyTheDead'
  BY <1>2 DEF RecordLeft, RecordAs, Goto
<1>3. ASSUME NEW r \in Runs, Truncate(r) PROVE OnlyTheDead'
  BY <1>3 DEF Truncate, Goto
<1>4. ASSUME NEW r \in Runs, Mark(r) PROVE OnlyTheDead'
  BY <1>4 DEF Mark, Goto
<1>5. ASSUME NEW r \in Runs, RunPlan(r) PROVE OnlyTheDead'
  BY <1>5 DEF RunPlan, Goto
<1>6. ASSUME NEW r \in Runs, Clear(r) PROVE OnlyTheDead'
  BY <1>6 DEF Clear, Goto
<1>7. ASSUME NEW r \in Runs, Unlock(r) PROVE OnlyTheDead'
  BY <1>7 DEF Unlock, Goto
<1>8. CASE ServerStart
  BY <1>8 DEF ServerStart, Acquire, Goto
<1>9. CASE ServerTake
  BY <1>9 DEF ServerTake, Goto
<1>10. CASE ServerRecord
  BY <1>10 DEF ServerRecord, RecordAs, Goto
<1>11. ASSUME NEW p \in Processes, Crash(p) PROVE OnlyTheDead'
  BY <1>11 DEF Crash, Grave, FreedByOs, DiesWith, Goto
<1>12. CASE UNCHANGED vars
  BY <1>12 DEF vars
<1>. QED
  BY <1>1, <1>2, <1>3, <1>4, <1>5, <1>6, <1>7, <1>8, <1>9, <1>10, <1>11, <1>12
     DEF Next, Step, ServerStep

LEMMA NextHandled ==
  ASSUME Distinct, SafeInv, HandledInv, [Next]_vars
  PROVE  HandledInv'
<1>. USE DEF SafeInv, TypesInv, OneInside, FoundInv, HandledInv, Inside, Distinct, Processes, lockVars, historyVars
<1>1. ASSUME NEW r \in Runs, Take(r) PROVE HandledInv'
  BY <1>1 DEF Take, Acquire, Goto
<1>2. ASSUME NEW r \in Runs, RecordLeft(r) PROVE HandledInv'
  BY <1>2 DEF RecordLeft, RecordAs, Goto
<1>3. ASSUME NEW r \in Runs, Truncate(r) PROVE HandledInv'
  BY <1>3 DEF Truncate, Goto
<1>4. ASSUME NEW r \in Runs, Mark(r) PROVE HandledInv'
  BY <1>4 DEF Mark, Goto
<1>5. ASSUME NEW r \in Runs, RunPlan(r) PROVE HandledInv'
  BY <1>5 DEF RunPlan, Goto
<1>6. ASSUME NEW r \in Runs, Clear(r) PROVE HandledInv'
  BY <1>6 DEF Clear, Goto
<1>7. ASSUME NEW r \in Runs, Unlock(r) PROVE HandledInv'
  BY <1>7 DEF Unlock, Goto
<1>8. CASE ServerStart
  BY <1>8 DEF ServerStart, Acquire, Goto
<1>9. CASE ServerTake
  BY <1>9 DEF ServerTake, Goto
<1>10. CASE ServerRecord
  BY <1>10 DEF ServerRecord, RecordAs, Goto
<1>11. ASSUME NEW p \in Processes, Crash(p) PROVE HandledInv'
  BY <1>11 DEF Crash, Grave, FreedByOs, DiesWith, Goto
<1>12. CASE UNCHANGED vars
  BY <1>12 DEF vars
<1>. QED
  BY <1>1, <1>2, <1>3, <1>4, <1>5, <1>6, <1>7, <1>8, <1>9, <1>10, <1>11, <1>12
     DEF Next, Step, ServerStep

LEMMA NextNoticed ==
  ASSUME Distinct, SafeInv, HandledInv, Noticed, [Next]_vars
  PROVE  Noticed'
<1>. USE DEF SafeInv, TypesInv, OneInside, MarkerInv, FoundInv, HandledInv, Noticed, InHand, Inside, Distinct, Processes, lockVars, historyVars
<1>1. ASSUME NEW r \in Runs, Take(r) PROVE Noticed'
  BY <1>1 DEF Take, Acquire, Goto
<1>2. ASSUME NEW r \in Runs, RecordLeft(r) PROVE Noticed'
  BY <1>2 DEF RecordLeft, RecordAs, Goto
<1>3. ASSUME NEW r \in Runs, Truncate(r) PROVE Noticed'
  BY <1>3 DEF Truncate, Goto
<1>4. ASSUME NEW r \in Runs, Mark(r) PROVE Noticed'
  BY <1>4 DEF Mark, Goto
<1>5. ASSUME NEW r \in Runs, RunPlan(r) PROVE Noticed'
  BY <1>5 DEF RunPlan, Goto
<1>6. ASSUME NEW r \in Runs, Clear(r) PROVE Noticed'
  BY <1>6 DEF Clear, Goto
<1>7. ASSUME NEW r \in Runs, Unlock(r) PROVE Noticed'
  BY <1>7 DEF Unlock, Goto
<1>8. CASE ServerStart
  BY <1>8 DEF ServerStart, Acquire, Goto
<1>9. CASE ServerTake
  BY <1>9 DEF ServerTake, Goto
<1>10. CASE ServerRecord
  BY <1>10 DEF ServerRecord, RecordAs, Goto
<1>11. ASSUME NEW p \in Processes, Crash(p) PROVE Noticed'
  <2>. SUFFICES ASSUME NEW r \in Runs, at'[r] = "killed"
                PROVE  marker' = r \/ InHand(r)' \/ recorded'[r] > 0 \/ r \in lost'
    OBVIOUS
  <2>1. /\ UNCHANGED <<marker, found, recorded>> /\ lost \subseteq lost'
        /\ \A o \in Processes \ {p} : at'[o] = at[o]
    BY <1>11 DEF Crash, Goto
  <2>2. CASE r = p
    BY <1>11, <2>1, <2>2 DEF Crash, Goto, Grave
  <2>3. CASE r # p /\ InHand(r)
    <3>1. PICK o \in Processes : found[o] = r /\ at[o] \in {"left", "record"}
      BY <2>3
    <3>2. CASE o = p /\ at[o] = "left"
      BY <2>1, <3>1, <3>2
    <3>3. CASE o = p /\ at[o] = "record"
      BY <1>11, <3>1, <3>3 DEF Crash, DiesWith, Places
    <3>4. CASE o # p
      BY <2>1, <3>1, <3>4
    <3>. QED
      BY <3>1, <3>2, <3>3, <3>4
  <2>4. CASE r # p /\ ~InHand(r)
    BY <2>1, <2>4
  <2>. QED
    BY <2>2, <2>3, <2>4
<1>12. CASE UNCHANGED vars
  BY <1>12 DEF vars
<1>. QED
  BY <1>1, <1>2, <1>3, <1>4, <1>5, <1>6, <1>7, <1>8, <1>9, <1>10, <1>11, <1>12
     DEF Next, Step, ServerStep

-----------------------------------------------------------------------------
(* How often a run is recorded.                                            *)

LEMMA DeadFinite ==
  ASSUME Distinct, NEW q
  PROVE  IsFiniteSet(DeadWith(q)) /\ Cardinality(DeadWith(q)) \in Nat
<1>1. IsFiniteSet(DeadWith(q))
  BY FS_Subset DEF Distinct, DeadWith
<1>. QED
  BY <1>1, FS_CardinalityType

LEMMA NextCount ==
  ASSUME Distinct, SafeInv, CountInv, [Next]_vars
  PROVE  CountInv'
<1>. USE DEF SafeInv, TypesInv, OneInside, MarkerInv, FoundInv, OnlyTheDead, CountInv, CountAt, Unrecorded, Inside, Distinct, Processes, lockVars, historyVars
<1>1. ASSUME NEW r \in Runs, Take(r) PROVE CountInv'
  <2>. SUFFICES ASSUME NEW q \in Runs PROVE CountAt(q)'
    OBVIOUS
  <2>1. DeadWith(q)' = DeadWith(q)
    BY <1>1 DEF Take, Acquire, Goto, DeadWith
  <2>2. Cardinality(DeadWith(q)) \in Nat
    BY DeadFinite
  <2>. QED
    BY <1>1, <2>1, <2>2 DEF Take, Acquire, Goto
<1>2. ASSUME NEW r \in Runs, RecordLeft(r) PROVE CountInv'
  <2>. SUFFICES ASSUME NEW q \in Runs PROVE CountAt(q)'
    OBVIOUS
  <2>1. DeadWith(q)' = DeadWith(q)
    BY <1>2 DEF RecordLeft, RecordAs, Goto, DeadWith
  <2>2. Cardinality(DeadWith(q)) \in Nat
    BY DeadFinite
  <2>. QED
    BY <1>2, <2>1, <2>2 DEF RecordLeft, RecordAs, Goto
<1>3. ASSUME NEW r \in Runs, Truncate(r) PROVE CountInv'
  <2>. SUFFICES ASSUME NEW q \in Runs PROVE CountAt(q)'
    OBVIOUS
  <2>1. DeadWith(q)' = DeadWith(q)
    BY <1>3 DEF Truncate, Goto, DeadWith
  <2>2. Cardinality(DeadWith(q)) \in Nat
    BY DeadFinite
  <2>. QED
    BY <1>3, <2>1, <2>2 DEF Truncate, Goto
<1>4. ASSUME NEW r \in Runs, Mark(r) PROVE CountInv'
  <2>. SUFFICES ASSUME NEW q \in Runs PROVE CountAt(q)'
    OBVIOUS
  <2>1. DeadWith(q)' = DeadWith(q)
    BY <1>4 DEF Mark, Goto, DeadWith
  <2>2. Cardinality(DeadWith(q)) \in Nat
    BY DeadFinite
  <2>. QED
    BY <1>4, <2>1, <2>2 DEF Mark, Goto
<1>5. ASSUME NEW r \in Runs, RunPlan(r) PROVE CountInv'
  <2>. SUFFICES ASSUME NEW q \in Runs PROVE CountAt(q)'
    OBVIOUS
  <2>1. DeadWith(q)' = DeadWith(q)
    BY <1>5 DEF RunPlan, Goto, DeadWith
  <2>2. Cardinality(DeadWith(q)) \in Nat
    BY DeadFinite
  <2>. QED
    BY <1>5, <2>1, <2>2 DEF RunPlan, Goto
<1>6. ASSUME NEW r \in Runs, Clear(r) PROVE CountInv'
  <2>. SUFFICES ASSUME NEW q \in Runs PROVE CountAt(q)'
    OBVIOUS
  <2>1. DeadWith(q)' = DeadWith(q)
    BY <1>6 DEF Clear, Goto, DeadWith
  <2>2. Cardinality(DeadWith(q)) \in Nat
    BY DeadFinite
  <2>. QED
    BY <1>6, <2>1, <2>2 DEF Clear, Goto
<1>7. ASSUME NEW r \in Runs, Unlock(r) PROVE CountInv'
  <2>. SUFFICES ASSUME NEW q \in Runs PROVE CountAt(q)'
    OBVIOUS
  <2>1. DeadWith(q)' = DeadWith(q)
    BY <1>7 DEF Unlock, Goto, DeadWith
  <2>2. Cardinality(DeadWith(q)) \in Nat
    BY DeadFinite
  <2>. QED
    BY <1>7, <2>1, <2>2 DEF Unlock, Goto
<1>8. CASE ServerStart
  <2>. SUFFICES ASSUME NEW q \in Runs PROVE CountAt(q)'
    OBVIOUS
  <2>1. DeadWith(q)' = DeadWith(q)
    BY <1>8 DEF ServerStart, Acquire, Goto, DeadWith
  <2>2. Cardinality(DeadWith(q)) \in Nat
    BY DeadFinite
  <2>. QED
    BY <1>8, <2>1, <2>2 DEF ServerStart, Acquire, Goto
<1>9. CASE ServerTake
  <2>. SUFFICES ASSUME NEW q \in Runs PROVE CountAt(q)'
    OBVIOUS
  <2>1. DeadWith(q)' = DeadWith(q)
    BY <1>9 DEF ServerTake, Goto, DeadWith
  <2>2. Cardinality(DeadWith(q)) \in Nat
    BY DeadFinite
  <2>. QED
    BY <1>9, <2>1, <2>2 DEF ServerTake, Goto
<1>10. CASE ServerRecord
  <2>. SUFFICES ASSUME NEW q \in Runs PROVE CountAt(q)'
    OBVIOUS
  <2>1. DeadWith(q)' = DeadWith(q)
    BY <1>10 DEF ServerRecord, RecordAs, Goto, DeadWith
  <2>2. Cardinality(DeadWith(q)) \in Nat
    BY DeadFinite
  <2>. QED
    BY <1>10, <2>1, <2>2 DEF ServerRecord, RecordAs, Goto
<1>11. ASSUME NEW p \in Processes, Crash(p) PROVE CountInv'
  <2>. SUFFICES ASSUME NEW q \in Runs PROVE CountAt(q)'
    OBVIOUS
  <2>1. DeadWith(q) \subseteq DeadWith(q)' /\ DeadWith(q)' \subseteq Runs
    BY <1>11 DEF Crash, Goto, DeadWith
  <2>2. IsFiniteSet(DeadWith(q)) /\ Cardinality(DeadWith(q)) \in Nat
    BY DeadFinite
  <2>3. IsFiniteSet(DeadWith(q)')
    BY <2>1, FS_Subset
  <2>4. Cardinality(DeadWith(q)') \in Nat /\ Cardinality(DeadWith(q)) <= Cardinality(DeadWith(q)')
    BY <2>1, <2>3, FS_CardinalityType, FS_Subset
  <2>5. CASE at[p] = "truncate" /\ found[p] = q
    <3>1. p \in Runs /\ p \notin DeadWith(q) /\ DeadWith(q)' = DeadWith(q) \cup {p}
      BY <1>11, <2>5 DEF Crash, Goto, Grave, DeadWith
    <3>2. Cardinality(DeadWith(q)') = Cardinality(DeadWith(q)) + 1
      <4>. DEFINE D == DeadWith(q)
      <4>1. Cardinality(D \cup {p}) = Cardinality(D) + 1
        <5>. HIDE DEF D
        <5>1. IsFiniteSet(D) /\ p \notin D /\ Cardinality(D) \in Nat
          BY <2>2, <3>1 DEF D
        <5>. QED
          BY <5>1, FS_AddElement
      <4>. QED
        BY <3>1, <4>1
    <3>. QED
      BY <1>11, <2>2, <3>2 DEF Crash
  <2>6. CASE ~(at[p] = "truncate" /\ found[p] = q)
    <3>1. Unrecorded(q)' => Unrecorded(q)
      BY <1>11, <2>6 DEF Crash, Goto, Grave
    <3>2. recorded' = recorded
      BY <1>11 DEF Crash
    <3>. QED
      BY <2>2, <2>4, <3>1, <3>2
  <2>. QED
    BY <2>5, <2>6
<1>12. CASE UNCHANGED vars
  BY <1>12 DEF vars, DeadWith
<1>. QED
  BY <1>1, <1>2, <1>3, <1>4, <1>5, <1>6, <1>7, <1>8, <1>9, <1>10, <1>11, <1>12
     DEF Next, Step, ServerStep

-----------------------------------------------------------------------------
(* Theorems.                                                               *)

LEMMA SafeHolds == Distinct /\ Spec => []SafeInv
<1>. SUFFICES ASSUME Distinct PROVE Spec => []SafeInv
  OBVIOUS
<1>1. Init => SafeInv
  BY DEF Distinct, Processes, Init, SafeInv, TypesInv, OneInside, MarkerInv, FoundInv, OnlyTheDead,
         Places, Inside
<1>2. SafeInv /\ [Next]_vars => SafeInv'
  BY NextTypes, NextInside, NextMarker, NextFound, NextDead DEF SafeInv
<1>. QED
  BY <1>1, <1>2, PTL DEF Spec

\* One run of a cycle at a time is inside the lock, whoever waits, dies or starts again,
\* and a lock that nobody holds is free (cycle_lock.py lines 160-197).
THEOREM OneAtATime == Distinct /\ Spec => []OneInside
<1>1. SafeInv => OneInside
  BY DEF SafeInv
<1>. QED
  BY <1>1, SafeHolds, PTL

\* Only a run that was killed is recorded as one that did not finish: neither one that
\* still goes nor one that ended is taken for dead (cycle_lock.py lines 119-140).
THEOREM RecordsOnlyTheDead == Distinct /\ Spec => []OnlyTheDead
<1>1. SafeInv => OnlyTheDead
  BY DEF SafeInv
<1>. QED
  BY <1>1, SafeHolds, PTL

\* A killed run is in the file, in somebody's hand or in the history, unless a write
\* failed, a run that is not recorded took its place or the server died with it.
THEOREM TheDeadAreNoticed == Distinct /\ Spec => []Noticed
<1>. SUFFICES ASSUME Distinct PROVE Spec => []Noticed
  OBVIOUS
<1>1. Init => HandledInv /\ Noticed
  BY DEF Distinct, Processes, Init, HandledInv, Noticed
<1>2. SafeInv /\ HandledInv /\ Noticed /\ [Next]_vars => HandledInv' /\ Noticed'
  BY NextHandled, NextNoticed
<1>. QED
  BY <1>1, <1>2, SafeHolds, PTL DEF Spec

\* A run is recorded as unfinished once, and once more for each process that died
\* between recording it and emptying the file (cycle_lock.py lines 177-184).
THEOREM OncePerCrash == Distinct /\ Spec => []AgainOnlyAfterCrash
<1>. SUFFICES ASSUME Distinct PROVE Spec => []AgainOnlyAfterCrash
  OBVIOUS
<1>1. Init => CountInv
  <2>. SUFFICES ASSUME Init, NEW q \in Runs PROVE CountAt(q)
    BY DEF CountInv
  <2>1. recorded[q] = 0
    BY DEF Init
  <2>. QED
    BY <2>1, DeadFinite DEF CountAt
<1>2. SafeInv /\ CountInv /\ [Next]_vars => CountInv'
  BY NextCount
<1>3. CountInv => AgainOnlyAfterCrash
  BY DEF CountInv, CountAt, AgainOnlyAfterCrash, DeadWith
<1>. QED
  BY <1>1, <1>2, <1>3, SafeHolds, PTL DEF Spec

-----------------------------------------------------------------------------
(* Types. That recorded[r] stays below MaxCrashes + 2 needs two counts: the   *)
(* one of OncePerCrash, and that no more runs are dead than processes died.   *)

DeadRuns == {p \in Runs : at[p] = "dead"}
CrashInv == Cardinality(DeadRuns) <= crashes

LEMMA DeadRunsFinite ==
  ASSUME Distinct
  PROVE  IsFiniteSet(DeadRuns) /\ Cardinality(DeadRuns) \in Nat
<1>1. DeadRuns \in SUBSET Runs
  BY DEF DeadRuns
<1>. QED
  BY <1>1, FS_Subset, FS_CardinalityType DEF Distinct

\* Only a crash makes a run dead, and one at a time.
LEMMA NextCrash ==
  ASSUME Distinct, TypesInv, CrashInv, [Next]_vars
  PROVE  CrashInv'
<1>. USE DEF TypesInv, Processes
<1>1. CASE \E r \in Runs : Step(r)
  <2>1. PICK r \in Runs : Step(r)
    BY <1>1
  <2>2. \A p \in Runs : at'[p] = "dead" <=> at[p] = "dead"
    BY <2>1 DEF Step, Take, Acquire, RecordLeft, Truncate, Mark, RunPlan, Clear, Unlock, Goto
  <2>3. DeadRuns' = DeadRuns /\ crashes' = crashes
    BY <2>1, <2>2 DEF DeadRuns, Step, Take, Acquire, RecordLeft, Truncate, Mark, RunPlan, Clear, Unlock
  <2>. QED
    BY <2>3 DEF CrashInv
<1>2. CASE ServerStep
  <2>1. \A p \in Runs : at'[p] = at[p]
    BY <1>2 DEF ServerStep, ServerStart, ServerTake, ServerRecord, Acquire, Goto, Distinct
  <2>2. DeadRuns' = DeadRuns /\ crashes' = crashes
    BY <1>2, <2>1 DEF DeadRuns, ServerStep, ServerStart, ServerTake, ServerRecord, Acquire
  <2>. QED
    BY <2>2 DEF CrashInv
<1>3. ASSUME NEW p \in Processes, Crash(p)
      PROVE  CrashInv'
  <2>1. /\ crashes' = crashes + 1 /\ crashes \in Nat
        /\ DeadRuns' \in SUBSET (DeadRuns \cup {p})
    BY <1>3 DEF Crash, Goto, DeadRuns, Distinct
  <2>2. /\ IsFiniteSet(DeadRuns) /\ Cardinality(DeadRuns) \in Nat
    BY DeadRunsFinite
  <2>3. PICK D : D = DeadRuns
    OBVIOUS
  <2>4. IsFiniteSet(D \cup {p}) /\ Cardinality(D \cup {p}) <= Cardinality(D) + 1
        /\ Cardinality(D \cup {p}) \in Nat
    <3>1. IsFiniteSet(D) /\ Cardinality(D) \in Nat
      BY <2>2, <2>3
    <3>2. /\ IsFiniteSet(D \cup {p})
          /\ Cardinality(D \cup {p}) = IF p \in D THEN Cardinality(D) ELSE Cardinality(D) + 1
      BY <3>1, FS_AddElement
    <3>. QED
      BY <3>1, <3>2
  <2>5. Cardinality(DeadRuns') <= Cardinality(D \cup {p}) /\ Cardinality(DeadRuns') \in Nat
    BY <2>1, <2>3, <2>4, FS_Subset, FS_CardinalityType
  <2>. QED
    BY <2>1, <2>2, <2>3, <2>4, <2>5 DEF CrashInv
<1>4. CASE UNCHANGED vars
  <2>1. DeadRuns' = DeadRuns /\ crashes' = crashes
    BY <1>4 DEF vars, DeadRuns
  <2>. QED
    BY <2>1 DEF CrashInv
<1>. QED
  BY <1>1, <1>2, <1>3, <1>4 DEF Next

LEMMA TypesFact ==
  ASSUME Distinct, SafeInv, CrashInv, AgainOnlyAfterCrash
  PROVE  TypeOK
<1>1. ASSUME NEW r \in Runs
      PROVE  recorded[r] \in 0 .. (MaxCrashes + 1)
  <2>1. DeadWith(r) \in SUBSET DeadRuns
    BY DEF DeadWith, DeadRuns
  <2>2. Cardinality(DeadWith(r)) <= Cardinality(DeadRuns) /\ Cardinality(DeadWith(r)) \in Nat
    BY <2>1, DeadRunsFinite, FS_Subset, FS_CardinalityType
  <2>3. recorded[r] <= 1 + Cardinality(DeadWith(r)) /\ recorded[r] \in Nat
    BY DEF AgainOnlyAfterCrash, DeadWith, SafeInv, TypesInv
  <2>. QED
    BY <2>2, <2>3, DeadRunsFinite DEF CrashInv, SafeInv, TypesInv, Distinct
<1>. QED
  BY <1>1 DEF TypeOK, SafeInv, TypesInv, OneInside, Processes

\* Every variable keeps its type and whoever is inside has the lock; in particular a run
\* is not recorded more often than once and once for each process that died.
THEOREM LockTypes == Distinct /\ Spec => []TypeOK
<1>. SUFFICES ASSUME Distinct PROVE Spec => []TypeOK
  OBVIOUS
<1>1. Init => CrashInv
  <2>. SUFFICES ASSUME Init PROVE CrashInv
    OBVIOUS
  <2>1. DeadRuns = {} /\ crashes = 0
    BY DEF Init, DeadRuns
  <2>2. Cardinality({}) = 0
    BY FS_EmptySet
  <2>. QED
    BY <2>1, <2>2 DEF CrashInv
<1>2. SafeInv /\ CrashInv /\ [Next]_vars => CrashInv'
  BY NextCrash DEF SafeInv
<1>3. SafeInv /\ CrashInv /\ AgainOnlyAfterCrash => TypeOK
  BY TypesFact
<1>. QED
  BY <1>1, <1>2, <1>3, SafeHolds, OncePerCrash, PTL DEF Spec
=============================================================================
