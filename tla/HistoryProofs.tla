---------------------------- MODULE HistoryProofs ----------------------------
(***************************************************************************)
(* What holds of the run history for any number of runs and cycles,        *)
(* however many are kept, whatever fails and whoever dies.                 *)
(***************************************************************************)
EXTENDS RunHistory, FiniteSetTheorems, TLAPS

\* What is assumed of the constants: runs are numbered from 1.
Numbered ==
  /\ IsFiniteSet(Ids) /\ Ids \subseteq Nat \ {0}
  /\ Old \subseteq Ids /\ Keep \in Nat

Keys == {"snapshot_dir", "snapshot_error", "review"}
Writers == Ids \cup {Reviewer}

-----------------------------------------------------------------------------
(* The inductive invariant.                                                *)

TypesInv ==
  /\ row \in [Ids -> {"none", "running", "ended"}]
  /\ metadata \in [Ids -> SUBSET Keys]
  /\ tests \in [Ids -> BOOLEAN] /\ folder \in [Ids -> {"none", "half", "whole"}]
  /\ at \in [Ids -> {"new", "copy", "copying", "point", "note", "tests", "done"}]
  /\ patch \in [Writers -> [run : Writers, seen : SUBSET Keys]]
  /\ \A i \in Ids : patch[i] # NoPatch => patch[i].run = i
  /\ remover \in [Removers -> [at : {"rest", "tests", "rows", "folders"}, ids : SUBSET Ids]]
  /\ \A a \in Removers : remover[a].at = "rest" <=> remover[a].ids = {}
  /\ server \in {"down", "orphans", "up"} /\ reviewed \subseteq orphans /\ orphans \subseteq Ids
  /\ deleted \subseteq Ids /\ picked \subseteq Ids /\ hurried \subseteq Ids
  /\ crashed \subseteq Ids /\ leftover \subseteq Ids

\* Who has no row, and for how long: nothing is there of a run that did not come yet, what
\* is deleted was recorded before and did end, and whoever deletes the folder of a run has
\* deleted its row.
RowInv ==
  /\ \A i \in Ids : at[i] = "new" => row[i] = "none" /\ ~tests[i] /\ folder[i] = "none"
  /\ \A i \in Ids : row[i] = "running" => at[i] = "done"
  /\ \A i \in Ids : row[i] = "none" => metadata[i] = {}
  /\ \A i \in orphans : row[i] = "running"
  /\ \A i \in deleted : row[i] = "none" /\ at[i] # "new"
  /\ \A a \in Removers : \A i \in remover[a].ids : row[i] # "running" /\ at[i] # "new"
  /\ \A a \in Removers : remover[a].at = "folders" => \A i \in remover[a].ids : row[i] = "none"
  /\ \A w \in Writers : \A i \in Ids : patch[w].run = i => at[i] # "new"

\* The pointer to a copy, in a row or in the hand of one who will write it back, is only
\* there after the copy is whole.
CopyInv ==
  /\ \A i \in Ids : at[i] \in {"new", "copy", "copying"} =>
       /\ "snapshot_dir" \notin metadata[i]
       /\ \A w \in Writers : patch[w].run = i => "snapshot_dir" \notin patch[w].seen
  /\ \A i \in Ids : at[i] = "point" /\ row[i] # "none" => folder[i] = "whole"
  /\ \A w \in Writers : \A i \in Ids :
       patch[w].run = i /\ "snapshot_dir" \in patch[w].seen /\ row[i] # "none" =>
         folder[i] = "whole"
  /\ PointsToWhole

\* A run that is deleted while it records itself is known as hurried; of any other the test
\* rows are gone when the row goes.
ExplainInv ==
  /\ \A i \in Ids : at[i] \notin {"new", "done"} /\ row[i] = "none" => i \in hurried
  /\ \A a \in Removers : \A i \in remover[a].ids : at[i] # "done" => i \in hurried
  /\ \A a \in Removers : remover[a].at \in {"rows", "folders"} =>
       \A i \in remover[a].ids : i \in hurried \/ ~tests[i]
  /\ OrphansExplained

\* The newer runs of a cycle, those a person has picked included.
NewerEver(i) == Newer(i) \cup {j \in picked : j > i /\ Cycle[j] = Cycle[i]}

\* What the timer has listed stays expired until it deletes it.
KeepInv ==
  /\ remover["person"].ids \subseteq picked
  /\ remover["timer"].at \in {"tests", "rows"} =>
       \A i \in remover["timer"].ids : Cardinality(NewerEver(i)) >= Keep

\* What KeepsNewest says of a step.
KeepsStep ==
  \A i \in Ids :
    remover["timer"].at = "rows" /\ remover'["timer"].at = "folders"
      /\ i \in remover["timer"].ids =>
    Cardinality(Newer(i) \cup {j \in picked : j > i /\ Cycle[j] = Cycle[i]}) >= Keep

SafeInv == TypesInv /\ RowInv

-----------------------------------------------------------------------------
(* Each part is kept by each step.                                         *)

\* One folder was removed, or would not go, and the next is to be.
FolderGone(a, i) ==
  /\ remover[a].at = "folders"
  /\ \A b \in Removers \ {a} : remover'[b] = remover[b]
  /\ remover'[a].ids = remover[a].ids \ {i}
  /\ remover'[a].at = IF remover[a].ids = {i} THEN "rest" ELSE "folders"
  /\ remover' \in [Removers -> [at : {"rest", "tests", "rows", "folders"}, ids : SUBSET Ids]]
  /\ \/ folder' = [folder EXCEPT ![i] = "none"] /\ UNCHANGED leftover
     \/ leftover' = leftover \cup {i} /\ UNCHANGED folder
  /\ UNCHANGED <<row, metadata, tests, deleted, picked, hurried, server, orphans, reviewed, at,
                 patch, crashed>>

LEMMA FolderSteps ==
  ASSUME TypesInv, NEW a \in Removers, RemoveFolder(a)
  PROVE  \E i \in remover[a].ids : FolderGone(a, i)
<1>1. PICK i \in remover[a].ids :
        /\ \/ folder' = [folder EXCEPT ![i] = "none"] /\ UNCHANGED leftover
           \/ leftover' = leftover \cup {i} /\ UNCHANGED folder
        /\ remover' = [remover EXCEPT ![a] =
             IF @.ids = {i} THEN Resting ELSE [at |-> "folders", ids |-> @.ids \ {i}]]
  BY DEF RemoveFolder
<1>2. remover[a].at = "folders" /\ remover[a].ids \subseteq Ids
  BY DEF TypesInv, RemoveFolder
<1>3. CASE remover[a].ids = {i}
  <2>1. remover' = [remover EXCEPT ![a] = Resting]
    BY <1>1, <1>3
  <2>. QED
    BY <1>1, <1>2, <1>3, <2>1 DEF TypesInv, Resting, RemoveFolder, FolderGone, serverVars
<1>4. CASE remover[a].ids # {i}
  <2>1. remover' = [remover EXCEPT ![a] = [at |-> "folders", ids |-> remover[a].ids \ {i}]]
    BY <1>1, <1>4
  <2>2. remover[a].ids \ {i} \in SUBSET Ids
    BY <1>2
  <2>. QED
    BY <1>1, <1>2, <1>4, <2>1, <2>2, SMTT(30) DEF TypesInv, RemoveFolder, FolderGone, serverVars
<1>. QED
  BY <1>3, <1>4

LEMMA NextTypes ==
  ASSUME Numbered, SafeInv, [Next]_vars
  PROVE  TypesInv'
<1>. USE DEF SafeInv, TypesInv, Keys, Writers, Reviewer, NoPatch, Removers, Resting,
        Numbered, rowVars, removeVars, serverVars
<1>1. ASSUME NEW i \in Ids, CreateRow(i) PROVE TypesInv'
  BY <1>1 DEF CreateRow, Goto
<1>2. ASSUME NEW i \in Ids, CopyStarts(i) PROVE TypesInv'
  BY <1>2 DEF CopyStarts, Goto
<1>3. ASSUME NEW i \in Ids, CopyEnds(i) PROVE TypesInv'
  BY <1>3 DEF CopyEnds, Goto
<1>4. ASSUME NEW i \in Ids, PointRead(i) PROVE TypesInv'
  <2>1. CASE MergeRead(i, i) /\ UNCHANGED at
    <3>1. patch' = [patch EXCEPT ![i] = [run |-> i, seen |-> metadata[i]]]
      BY <2>1 DEF MergeRead
    <3>2. [run |-> i, seen |-> metadata[i]] \in [run : Writers, seen : SUBSET Keys]
      OBVIOUS
    <3>3. patch' \in [Writers -> [run : Writers, seen : SUBSET Keys]]
      BY <3>1, <3>2
    <3>4. \A j \in Ids : patch'[j] # NoPatch => patch'[j].run = j
      BY <3>1
    <3>. QED
      BY <1>4, <2>1, <3>3, <3>4 DEF PointRead
  <2>2. CASE UNCHANGED patch
    BY <1>4, <2>2 DEF PointRead, Goto
  <2>. QED
    BY <1>4, <2>1, <2>2 DEF PointRead
<1>5. ASSUME NEW i \in Ids, PointWrite(i) PROVE TypesInv'
  BY <1>5 DEF PointWrite, MergeWrite, Goto
<1>6. ASSUME NEW i \in Ids, WriteTests(i) PROVE TypesInv'
  BY <1>6 DEF WriteTests, Goto
<1>7. ASSUME NEW i \in Ids, Dies(i) PROVE TypesInv'
  BY <1>7 DEF Dies, Goto
<1>8. ASSUME NEW i \in Ids, PickRun(i) PROVE TypesInv'
  BY <1>8, ZenonT(60) DEF PickRun, Choose, Ended
<1>9. CASE ReviewRead
  <2>1. PICK i \in Ids : MergeRead(Reviewer, i)
    BY <1>9 DEF ReviewRead
  <2>2. patch' = [patch EXCEPT ![Reviewer] = [run |-> i, seen |-> metadata[i]]]
    BY <2>1 DEF MergeRead
  <2>3. [run |-> i, seen |-> metadata[i]] \in [run : Writers, seen : SUBSET Keys]
    OBVIOUS
  <2>4. patch' \in [Writers -> [run : Writers, seen : SUBSET Keys]]
    BY <2>2, <2>3
  <2>5. \A j \in Ids : patch'[j] # NoPatch => patch'[j].run = j
    BY <2>2
  <2>. QED
    BY <1>9, <2>4, <2>5 DEF ReviewRead
<1>10. CASE ReviewWrite
  BY <1>10 DEF ReviewWrite, MergeWrite
<1>11. CASE ListExpired
  BY <1>11 DEF ListExpired, Choose, Expired, Ended
<1>12. ASSUME NEW a \in Removers, RemoveTests(a) PROVE TypesInv'
  BY <1>12 DEF RemoveTests, Remover
<1>13. ASSUME NEW a \in Removers, RemoveRows(a) PROVE TypesInv'
  BY <1>13 DEF RemoveRows, Remover
<1>14. ASSUME NEW a \in Removers, RemoveFolder(a) PROVE TypesInv'
  <2>1. PICK i \in remover[a].ids : FolderGone(a, i)
    BY <1>14, FolderSteps
  <2>2. i \in Ids /\ remover[a].ids \subseteq Ids
    BY <2>1
  <2>3. folder' \in [Ids -> {"none", "half", "whole"}] /\ leftover' \subseteq Ids
    <3>1. CASE folder' = [folder EXCEPT ![i] = "none"] /\ UNCHANGED leftover
      BY <3>1
    <3>2. CASE leftover' = leftover \cup {i} /\ UNCHANGED folder
      BY <2>2, <3>2
    <3>. QED
      BY <2>1, <3>1, <3>2 DEF FolderGone
  <2>4. \A b \in Removers : remover'[b].at = "rest" <=> remover'[b].ids = {}
    BY <2>1, <2>2 DEF FolderGone
  <2>. QED
    BY <2>1, <2>3, <2>4 DEF FolderGone
<1>15. CASE ListOrphans
  BY <1>15 DEF ListOrphans
<1>16. CASE FailOrphans
  BY <1>16 DEF FailOrphans
<1>17. CASE ServerDies
  BY <1>17 DEF ServerDies
<1>18. CASE UNCHANGED vars
  BY <1>18 DEF vars
<1>. QED
  BY <1>1, <1>2, <1>3, <1>4, <1>5, <1>6, <1>7, <1>8, <1>9, <1>10,
     <1>11, <1>12, <1>13, <1>14, <1>15, <1>16, <1>17, <1>18
     DEF Next, Persist, Remove

LEMMA NextRow ==
  ASSUME Numbered, SafeInv, [Next]_vars
  PROVE  RowInv'
<1>15. CASE ListOrphans
  <2>1. /\ UNCHANGED <<row, metadata, tests, folder, deleted, remover, at, patch>>
        /\ orphans' = {i \in Ids : row[i] = "running"}
    BY <1>15 DEF ListOrphans, rowVars, removeVars
  <2>2. \A i \in orphans' : row[i] = "running"
    BY <2>1
  <2>. QED
    BY <2>1, <2>2 DEF SafeInv, RowInv
<1>. USE DEF SafeInv, RowInv, TypesInv, Keys, Writers, Reviewer, NoPatch, Removers,
        Resting, Numbered, rowVars, removeVars, serverVars
<1>1. ASSUME NEW i \in Ids, CreateRow(i) PROVE RowInv'
  BY <1>1 DEF CreateRow, Goto
<1>2. ASSUME NEW i \in Ids, CopyStarts(i) PROVE RowInv'
  BY <1>2 DEF CopyStarts, Goto
<1>3. ASSUME NEW i \in Ids, CopyEnds(i) PROVE RowInv'
  BY <1>3 DEF CopyEnds, Goto
<1>4. ASSUME NEW i \in Ids, PointRead(i) PROVE RowInv'
  BY <1>4 DEF PointRead, MergeRead, Goto
<1>5. ASSUME NEW i \in Ids, PointWrite(i) PROVE RowInv'
  BY <1>5 DEF PointWrite, MergeWrite, Goto
<1>6. ASSUME NEW i \in Ids, WriteTests(i) PROVE RowInv'
  BY <1>6 DEF WriteTests, Goto
<1>7. ASSUME NEW i \in Ids, Dies(i) PROVE RowInv'
  BY <1>7 DEF Dies, Goto
<1>8. ASSUME NEW i \in Ids, PickRun(i) PROVE RowInv'
  BY <1>8 DEF PickRun, Choose, Ended
<1>9. CASE ReviewRead
  BY <1>9 DEF ReviewRead, MergeRead
<1>10. CASE ReviewWrite
  BY <1>10 DEF ReviewWrite, MergeWrite
<1>11. CASE ListExpired
  BY <1>11 DEF ListExpired, Choose, Expired, Ended
<1>12. ASSUME NEW a \in Removers, RemoveTests(a) PROVE RowInv'
  BY <1>12 DEF RemoveTests, Remover
<1>13. ASSUME NEW a \in Removers, RemoveRows(a) PROVE RowInv'
  BY <1>13 DEF RemoveRows, Remover
<1>14. ASSUME NEW a \in Removers, RemoveFolder(a) PROVE RowInv'
  <2>1. PICK i \in remover[a].ids : FolderGone(a, i)
    BY <1>14, FolderSteps
  <2>2. i \in Ids /\ remover[a].ids \subseteq Ids
    BY <2>1
  <2>. QED
    BY <2>1, <2>2 DEF FolderGone
<1>16. CASE FailOrphans
  BY <1>16 DEF FailOrphans
<1>17. CASE ServerDies
  BY <1>17 DEF ServerDies
<1>18. CASE UNCHANGED vars
  BY <1>18 DEF vars
<1>. QED
  BY <1>1, <1>2, <1>3, <1>4, <1>5, <1>6, <1>7, <1>8, <1>9, <1>10,
     <1>11, <1>12, <1>13, <1>14, <1>15, <1>16, <1>17, <1>18
     DEF Next, Persist, Remove

LEMMA NextCopy ==
  ASSUME Numbered, SafeInv, CopyInv, [Next]_vars
  PROVE  CopyInv'
<1>1. ASSUME NEW i \in Ids, CreateRow(i) PROVE CopyInv'
  <2>1. /\ at[i] = "new" /\ metadata[i] = {}
        /\ \A w \in Writers : patch[w].run # i
    BY <1>1 DEF CreateRow, SafeInv, RowInv
  <2>2. /\ at'[i] \in {"copy", "done"} /\ UNCHANGED <<metadata, folder, patch>>
        /\ \A j \in Ids \ {i} : at'[j] = at[j] /\ row'[j] = row[j]
    BY <1>1 DEF CreateRow, Goto, SafeInv, TypesInv
  <2>. QED
    BY <2>1, <2>2 DEF CopyInv, PointsToWhole
<1>15. CASE ListOrphans
  <2>1. UNCHANGED <<row, metadata, folder, at, patch>>
    BY <1>15 DEF ListOrphans, rowVars
  <2>. QED
    BY <2>1 DEF CopyInv, PointsToWhole
<1>16. CASE FailOrphans
  <2>1. /\ UNCHANGED <<folder, at, patch>>
        /\ \A j \in Ids : row'[j] # "none" => row[j] # "none"
        /\ \A j \in Ids : "snapshot_dir" \in metadata'[j] <=> "snapshot_dir" \in metadata[j]
    BY <1>16 DEF FailOrphans, SafeInv, RowInv
  <2>. QED
    BY <2>1 DEF CopyInv, PointsToWhole
<1>. USE DEF SafeInv, CopyInv, PointsToWhole, RowInv, TypesInv, Keys, Writers, Reviewer,
        NoPatch, Removers, Resting, Numbered, rowVars, removeVars, serverVars
<1>2. ASSUME NEW i \in Ids, CopyStarts(i) PROVE CopyInv'
  BY <1>2 DEF CopyStarts, Goto
<1>3. ASSUME NEW i \in Ids, CopyEnds(i) PROVE CopyInv'
  BY <1>3 DEF CopyEnds, Goto
<1>4. ASSUME NEW i \in Ids, PointRead(i) PROVE CopyInv'
  BY <1>4 DEF PointRead, MergeRead, Goto
<1>5. ASSUME NEW i \in Ids, PointWrite(i) PROVE CopyInv'
  BY <1>5 DEF PointWrite, MergeWrite, Goto
<1>6. ASSUME NEW i \in Ids, WriteTests(i) PROVE CopyInv'
  BY <1>6 DEF WriteTests, Goto
<1>7. ASSUME NEW i \in Ids, Dies(i) PROVE CopyInv'
  BY <1>7 DEF Dies, Goto
<1>8. ASSUME NEW i \in Ids, PickRun(i) PROVE CopyInv'
  BY <1>8 DEF PickRun, Choose, Ended
<1>9. CASE ReviewRead
  BY <1>9 DEF ReviewRead, MergeRead
<1>10. CASE ReviewWrite
  BY <1>10 DEF ReviewWrite, MergeWrite
<1>11. CASE ListExpired
  BY <1>11 DEF ListExpired, Choose, Expired, Ended
<1>12. ASSUME NEW a \in Removers, RemoveTests(a) PROVE CopyInv'
  BY <1>12 DEF RemoveTests, Remover
<1>13. ASSUME NEW a \in Removers, RemoveRows(a) PROVE CopyInv'
  BY <1>13 DEF RemoveRows, Remover
<1>14. ASSUME NEW a \in Removers, RemoveFolder(a) PROVE CopyInv'
  BY <1>14 DEF RemoveFolder
<1>17. CASE ServerDies
  BY <1>17 DEF ServerDies
<1>18. CASE UNCHANGED vars
  BY <1>18 DEF vars
<1>. QED
  BY <1>1, <1>2, <1>3, <1>4, <1>5, <1>6, <1>7, <1>8, <1>9, <1>10,
     <1>11, <1>12, <1>13, <1>14, <1>15, <1>16, <1>17, <1>18
     DEF Next, Persist, Remove

LEMMA NextExplain ==
  ASSUME Numbered, SafeInv, ExplainInv, [Next]_vars
  PROVE  ExplainInv'
<1>. USE DEF SafeInv, ExplainInv, OrphansExplained, Going, RowInv, TypesInv, Keys,
        Writers, Reviewer, NoPatch, Removers, Resting, Numbered, rowVars, removeVars,
        serverVars
<1>1. ASSUME NEW i \in Ids, CreateRow(i) PROVE ExplainInv'
  BY <1>1 DEF CreateRow, Goto
<1>2. ASSUME NEW i \in Ids, CopyStarts(i) PROVE ExplainInv'
  BY <1>2 DEF CopyStarts, Goto
<1>3. ASSUME NEW i \in Ids, CopyEnds(i) PROVE ExplainInv'
  BY <1>3 DEF CopyEnds, Goto
<1>4. ASSUME NEW i \in Ids, PointRead(i) PROVE ExplainInv'
  BY <1>4 DEF PointRead, MergeRead, Goto
<1>5. ASSUME NEW i \in Ids, PointWrite(i) PROVE ExplainInv'
  BY <1>5 DEF PointWrite, MergeWrite, Goto
<1>6. ASSUME NEW i \in Ids, WriteTests(i) PROVE ExplainInv'
  <2>1. /\ UNCHANGED <<row, folder, remover, hurried, crashed, leftover>>
        /\ \A j \in Ids \ {i} : tests'[j] = tests[j] /\ at'[j] = at[j]
        /\ at[i] = "tests" /\ at'[i] = "done"
    BY <1>6 DEF WriteTests, Goto
  <2>2. \A j \in Ids : at'[j] \notin {"new", "done"} /\ row'[j] = "none" => j \in hurried'
    BY <2>1
  <2>3. \A b \in Removers : \A j \in remover'[b].ids : at'[j] # "done" => j \in hurried'
    BY <2>1
  <2>4. ASSUME NEW b \in Removers, remover'[b].at \in {"rows", "folders"}, NEW j \in remover'[b].ids
        PROVE  j \in hurried' \/ ~tests'[j]
    <3>1. j \in Ids
      BY <2>1, <2>4
    <3>. QED
      BY <2>1, <2>4, <3>1
  <2>5. ASSUME NEW j \in Ids, row'[j] = "none", tests'[j] \/ folder'[j] # "none",
               at'[j] = "done", ~Going(j)'
        PROVE  j \in crashed' \cup leftover' \cup hurried'
    BY <2>1, <2>5
  <2>. QED
    BY <2>2, <2>3, <2>4, <2>5
<1>7. ASSUME NEW i \in Ids, Dies(i) PROVE ExplainInv'
  BY <1>7 DEF Dies, Goto
<1>8. ASSUME NEW i \in Ids, PickRun(i) PROVE ExplainInv'
  BY <1>8 DEF PickRun, Choose, Ended
<1>9. CASE ReviewRead
  BY <1>9 DEF ReviewRead, MergeRead
<1>10. CASE ReviewWrite
  BY <1>10 DEF ReviewWrite, MergeWrite
<1>11. CASE ListExpired
  BY <1>11 DEF ListExpired, Choose, Expired, Ended
<1>12. ASSUME NEW a \in Removers, RemoveTests(a) PROVE ExplainInv'
  BY <1>12, ZenonT(60) DEF RemoveTests, Remover
<1>13. ASSUME NEW a \in Removers, RemoveRows(a) PROVE ExplainInv'
  BY <1>13 DEF RemoveRows, Remover
<1>14. ASSUME NEW a \in Removers, RemoveFolder(a) PROVE ExplainInv'
  <2>1. PICK i \in remover[a].ids : FolderGone(a, i)
    BY <1>14, FolderSteps
  <2>2. i \in Ids /\ remover[a].ids \subseteq Ids
    BY <2>1
  <2>. QED
    BY <2>1, <2>2 DEF FolderGone
<1>15. CASE ListOrphans
  BY <1>15 DEF ListOrphans
<1>16. CASE FailOrphans
  BY <1>16 DEF FailOrphans
<1>17. CASE ServerDies
  BY <1>17 DEF ServerDies
<1>18. CASE UNCHANGED vars
  BY <1>18 DEF vars
<1>. QED
  BY <1>1, <1>2, <1>3, <1>4, <1>5, <1>6, <1>7, <1>8, <1>9, <1>10,
     <1>11, <1>12, <1>13, <1>14, <1>15, <1>16, <1>17, <1>18
     DEF Next, Persist, Remove

-----------------------------------------------------------------------------
(* What is expired stays so.                                               *)

\* Of the runs that have ended only those go that a person picked.
EndedStay ==
  /\ picked \subseteq picked'
  /\ \A j \in Ended : row'[j] = "ended" \/ j \in picked'

LEMMA EverFinite ==
  ASSUME Numbered, TypesInv, NEW i
  PROVE  IsFiniteSet(NewerEver(i)) /\ Cardinality(NewerEver(i)) \in Nat
<1>1. NewerEver(i) \subseteq Ids
  BY DEF NewerEver, Newer, Ended, TypesInv
<1>2. IsFiniteSet(NewerEver(i))
  BY <1>1, FS_Subset DEF Numbered
<1>. QED
  BY <1>2, FS_CardinalityType

LEMMA EverGrows ==
  ASSUME Numbered, TypesInv, TypesInv', EndedStay, NEW i
  PROVE  Cardinality(NewerEver(i)) <= Cardinality(NewerEver(i)')
<1>1. NewerEver(i) \subseteq NewerEver(i)'
  BY DEF EndedStay, NewerEver, Newer, Ended
<1>2. IsFiniteSet(NewerEver(i)')
  <2>1. NewerEver(i)' \subseteq Ids
    BY DEF NewerEver, Newer, Ended, TypesInv
  <2>. QED
    BY <2>1, FS_Subset DEF Numbered
<1>. QED
  BY <1>1, <1>2, FS_Subset

LEMMA NextEnded ==
  ASSUME Numbered, SafeInv, KeepInv, ~RemoveRows("timer"), [Next]_vars
  PROVE  EndedStay
<1>. USE DEF SafeInv, KeepInv, EndedStay, Ended, RowInv, TypesInv, Keys, Writers,
        Reviewer, NoPatch, Removers, Resting, Numbered, rowVars, removeVars, serverVars
<1>1. ASSUME NEW i \in Ids, CreateRow(i) PROVE EndedStay
  BY <1>1 DEF CreateRow, Goto
<1>2. ASSUME NEW i \in Ids, CopyStarts(i) PROVE EndedStay
  BY <1>2 DEF CopyStarts, Goto
<1>3. ASSUME NEW i \in Ids, CopyEnds(i) PROVE EndedStay
  BY <1>3 DEF CopyEnds, Goto
<1>4. ASSUME NEW i \in Ids, PointRead(i) PROVE EndedStay
  BY <1>4 DEF PointRead, MergeRead, Goto
<1>5. ASSUME NEW i \in Ids, PointWrite(i) PROVE EndedStay
  BY <1>5 DEF PointWrite, MergeWrite, Goto
<1>6. ASSUME NEW i \in Ids, WriteTests(i) PROVE EndedStay
  BY <1>6 DEF WriteTests, Goto
<1>7. ASSUME NEW i \in Ids, Dies(i) PROVE EndedStay
  BY <1>7 DEF Dies, Goto
<1>8. ASSUME NEW i \in Ids, PickRun(i) PROVE EndedStay
  BY <1>8 DEF PickRun, Choose, Ended
<1>9. CASE ReviewRead
  BY <1>9 DEF ReviewRead, MergeRead
<1>10. CASE ReviewWrite
  BY <1>10 DEF ReviewWrite, MergeWrite
<1>11. CASE ListExpired
  BY <1>11 DEF ListExpired, Choose, Expired, Ended
<1>12. ASSUME NEW a \in Removers, RemoveTests(a) PROVE EndedStay
  BY <1>12 DEF RemoveTests, Remover
<1>13. ASSUME NEW a \in Removers, RemoveRows(a) PROVE EndedStay
  BY <1>13 DEF RemoveRows, Remover
<1>14. ASSUME NEW a \in Removers, RemoveFolder(a) PROVE EndedStay
  <2>1. PICK i \in remover[a].ids : FolderGone(a, i)
    BY <1>14, FolderSteps
  <2>2. i \in Ids /\ remover[a].ids \subseteq Ids
    BY <2>1
  <2>. QED
    BY <2>1, <2>2 DEF FolderGone
<1>15. CASE ListOrphans
  BY <1>15 DEF ListOrphans
<1>16. CASE FailOrphans
  BY <1>16 DEF FailOrphans
<1>17. CASE ServerDies
  BY <1>17 DEF ServerDies
<1>18. CASE UNCHANGED vars
  BY <1>18 DEF vars
<1>. QED
  BY <1>1, <1>2, <1>3, <1>4, <1>5, <1>6, <1>7, <1>8, <1>9, <1>10,
     <1>11, <1>12, <1>13, <1>14, <1>15, <1>16, <1>17, <1>18
     DEF Next, Persist, Remove

\* The person's list is of picked runs; the timer's is the one it had, or what is expired.
Listed ==
  /\ remover'["person"].ids \subseteq picked'
  /\ remover'["timer"].at \in {"tests", "rows"} =>
       \/ remover["timer"].at \in {"tests", "rows"} /\ remover'["timer"].ids = remover["timer"].ids
       \/ remover'["timer"].ids = Expired

LEMMA NextListed ==
  ASSUME Numbered, SafeInv, KeepInv, [Next]_vars
  PROVE  Listed
<1>. USE DEF SafeInv, KeepInv, Listed, TypesInv, Keys, Writers, Reviewer, NoPatch,
        Removers, Resting, Numbered, rowVars, removeVars, serverVars
<1>1. ASSUME NEW i \in Ids, CreateRow(i) PROVE Listed
  BY <1>1 DEF CreateRow, Goto
<1>2. ASSUME NEW i \in Ids, CopyStarts(i) PROVE Listed
  BY <1>2 DEF CopyStarts, Goto
<1>3. ASSUME NEW i \in Ids, CopyEnds(i) PROVE Listed
  BY <1>3 DEF CopyEnds, Goto
<1>4. ASSUME NEW i \in Ids, PointRead(i) PROVE Listed
  BY <1>4 DEF PointRead, MergeRead, Goto
<1>5. ASSUME NEW i \in Ids, PointWrite(i) PROVE Listed
  BY <1>5 DEF PointWrite, MergeWrite, Goto
<1>6. ASSUME NEW i \in Ids, WriteTests(i) PROVE Listed
  BY <1>6 DEF WriteTests, Goto
<1>7. ASSUME NEW i \in Ids, Dies(i) PROVE Listed
  BY <1>7 DEF Dies, Goto
<1>8. ASSUME NEW i \in Ids, PickRun(i) PROVE Listed
  BY <1>8 DEF PickRun, Choose, Ended
<1>9. CASE ReviewRead
  BY <1>9 DEF ReviewRead, MergeRead
<1>10. CASE ReviewWrite
  BY <1>10 DEF ReviewWrite, MergeWrite
<1>11. CASE ListExpired
  BY <1>11 DEF ListExpired, Choose, Expired, Ended
<1>12. ASSUME NEW a \in Removers, RemoveTests(a) PROVE Listed
  BY <1>12 DEF RemoveTests, Remover
<1>13. ASSUME NEW a \in Removers, RemoveRows(a) PROVE Listed
  BY <1>13 DEF RemoveRows, Remover
<1>14. ASSUME NEW a \in Removers, RemoveFolder(a) PROVE Listed
  <2>1. PICK i \in remover[a].ids : FolderGone(a, i)
    BY <1>14, FolderSteps
  <2>2. i \in Ids /\ remover[a].ids \subseteq Ids
    BY <2>1
  <2>. QED
    BY <2>1, <2>2 DEF FolderGone
<1>15. CASE ListOrphans
  BY <1>15 DEF ListOrphans
<1>16. CASE FailOrphans
  BY <1>16 DEF FailOrphans
<1>17. CASE ServerDies
  BY <1>17 DEF ServerDies
<1>18. CASE UNCHANGED vars
  BY <1>18 DEF vars
<1>. QED
  BY <1>1, <1>2, <1>3, <1>4, <1>5, <1>6, <1>7, <1>8, <1>9, <1>10,
     <1>11, <1>12, <1>13, <1>14, <1>15, <1>16, <1>17, <1>18
     DEF Next, Persist, Remove

LEMMA DeletedGrows ==
  ASSUME Numbered, SafeInv, [Next]_vars
  PROVE  deleted \subseteq deleted'
<1>. USE DEF SafeInv, rowVars, removeVars, serverVars
<1>1. ASSUME NEW i \in Ids, CreateRow(i) PROVE deleted \subseteq deleted'
  BY <1>1 DEF CreateRow, Goto
<1>2. ASSUME NEW i \in Ids, CopyStarts(i) PROVE deleted \subseteq deleted'
  BY <1>2 DEF CopyStarts, Goto
<1>3. ASSUME NEW i \in Ids, CopyEnds(i) PROVE deleted \subseteq deleted'
  BY <1>3 DEF CopyEnds, Goto
<1>4. ASSUME NEW i \in Ids, PointRead(i) PROVE deleted \subseteq deleted'
  BY <1>4 DEF PointRead, MergeRead, Goto
<1>5. ASSUME NEW i \in Ids, PointWrite(i) PROVE deleted \subseteq deleted'
  BY <1>5 DEF PointWrite, MergeWrite, Goto
<1>6. ASSUME NEW i \in Ids, WriteTests(i) PROVE deleted \subseteq deleted'
  BY <1>6 DEF WriteTests, Goto
<1>7. ASSUME NEW i \in Ids, Dies(i) PROVE deleted \subseteq deleted'
  BY <1>7 DEF Dies, Goto
<1>8. ASSUME NEW i \in Ids, PickRun(i) PROVE deleted \subseteq deleted'
  BY <1>8 DEF PickRun, Choose, Ended
<1>9. CASE ReviewRead
  BY <1>9 DEF ReviewRead, MergeRead
<1>10. CASE ReviewWrite
  BY <1>10 DEF ReviewWrite, MergeWrite
<1>11. CASE ListExpired
  BY <1>11 DEF ListExpired, Choose, Expired, Ended
<1>12. ASSUME NEW a \in Removers, RemoveTests(a) PROVE deleted \subseteq deleted'
  BY <1>12 DEF RemoveTests, Remover
<1>13. ASSUME NEW a \in Removers, RemoveRows(a) PROVE deleted \subseteq deleted'
  BY <1>13 DEF RemoveRows, Remover
<1>14. ASSUME NEW a \in Removers, RemoveFolder(a) PROVE deleted \subseteq deleted'
  BY <1>14 DEF RemoveFolder
<1>15. CASE ListOrphans
  BY <1>15 DEF ListOrphans
<1>16. CASE FailOrphans
  BY <1>16 DEF FailOrphans
<1>17. CASE ServerDies
  BY <1>17 DEF ServerDies
<1>18. CASE UNCHANGED vars
  BY <1>18 DEF vars
<1>. QED
  BY <1>1, <1>2, <1>3, <1>4, <1>5, <1>6, <1>7, <1>8, <1>9, <1>10,
     <1>11, <1>12, <1>13, <1>14, <1>15, <1>16, <1>17, <1>18
     DEF Next, Persist, Remove

LEMMA NextKeep ==
  ASSUME Numbered, SafeInv, SafeInv', KeepInv, [Next]_vars
  PROVE  KeepInv'
<1>1. Listed
  BY NextListed
<1>2. CASE RemoveRows("timer")
  <2>1. remover'["timer"].at = "folders"
    BY <1>2 DEF RemoveRows, Remover, SafeInv, TypesInv, Removers
  <2>. QED
    BY <1>1, <2>1 DEF Listed, KeepInv
<1>3. CASE ~RemoveRows("timer")
  <2>. SUFFICES ASSUME remover'["timer"].at \in {"tests", "rows"}, NEW i \in remover'["timer"].ids
                PROVE  Cardinality(NewerEver(i)') >= Keep
    BY <1>1 DEF Listed, KeepInv, NewerEver, Newer, Ended
  <2>1. Cardinality(NewerEver(i)) <= Cardinality(NewerEver(i)')
    BY <1>3, NextEnded, EverGrows DEF SafeInv
  <2>2. Cardinality(NewerEver(i)) \in Nat
    BY EverFinite DEF SafeInv
  <2>3. Cardinality(NewerEver(i)') \in Nat
    <3>1. NewerEver(i)' \subseteq Ids
      BY DEF NewerEver, Newer, Ended, SafeInv, TypesInv
    <3>2. IsFiniteSet(NewerEver(i)')
      BY <3>1, FS_Subset DEF Numbered
    <3>. QED
      BY <3>2, FS_CardinalityType
  <2>4. Cardinality(NewerEver(i)) >= Keep
    <3>1. CASE i \in remover["timer"].ids /\ remover["timer"].at \in {"tests", "rows"}
      BY <3>1 DEF KeepInv
    <3>2. CASE i \in Expired
      <4>1. Cardinality(Newer(i)) >= Keep
        BY <3>2 DEF Expired
      <4>2. Newer(i) \subseteq NewerEver(i)
        BY DEF NewerEver
      <4>3. IsFiniteSet(Newer(i))
        BY <4>2, EverFinite, FS_Subset DEF SafeInv
      <4>4. Cardinality(Newer(i)) <= Cardinality(NewerEver(i)) /\ Cardinality(Newer(i)) \in Nat
        BY <4>2, <4>3, EverFinite, FS_Subset, FS_CardinalityType DEF SafeInv
      <4>. QED
        BY <4>1, <4>4, <2>2 DEF Numbered
    <3>. QED
      BY <1>1, <3>1, <3>2 DEF Listed
  <2>. QED
    BY <2>1, <2>2, <2>3, <2>4 DEF Numbered
<1>. QED
  BY <1>2, <1>3

-----------------------------------------------------------------------------
(* Theorems.                                                               *)

LEMMA SafeHolds == Numbered /\ Spec => []SafeInv
<1>. SUFFICES ASSUME Numbered PROVE Spec => []SafeInv
  OBVIOUS
<1>1. Init => SafeInv
  BY DEF Numbered, Init, SafeInv, TypesInv, RowInv, Keys, Writers, Reviewer, NoPatch, Removers,
         Resting
<1>2. SafeInv /\ [Next]_vars => SafeInv'
  BY NextTypes, NextRow DEF SafeInv
<1>. QED
  BY <1>1, <1>2, PTL DEF Spec

\* The types; also: a run without a row has no metadata (adapters.py lines 112-121).
THEOREM HistoryTypes == Numbered /\ Spec => []TypeOK
<1>. SUFFICES ASSUME Numbered PROVE Spec => []TypeOK
  OBVIOUS
<1>1. SafeInv => TypeOK
  BY DEF SafeInv, TypesInv, RowInv, TypeOK, Keys, Writers, Reviewer, Removers
<1>. QED
  BY <1>1, SafeHolds, PTL

\* A row that names a copy of its results has a whole one, whatever is deleted, lost or
\* patched meanwhile (retention.py lines 100-102).
THEOREM RowsPointToWhole == Numbered /\ Spec => []PointsToWhole
<1>. SUFFICES ASSUME Numbered PROVE Spec => []PointsToWhole
  OBVIOUS
<1>1. Init => CopyInv
  BY DEF Numbered, Init, CopyInv, PointsToWhole, NoPatch, Writers
<1>2. SafeInv /\ CopyInv /\ [Next]_vars => CopyInv'
  BY NextCopy
<1>3. CopyInv => PointsToWhole
  BY DEF CopyInv
<1>. QED
  BY <1>1, <1>2, <1>3, SafeHolds, PTL DEF Spec

\* Test rows and folders without a run are on their way in or out, or left by a death, a
\* folder that would not go, or a deletion that came before the run was recorded
\* (retention.py lines 153-176, db_backend.py lines 209-215).
THEOREM LeftoversExplained == Numbered /\ Spec => []OrphansExplained
<1>. SUFFICES ASSUME Numbered PROVE Spec => []OrphansExplained
  OBVIOUS
<1>1. Init => ExplainInv
  BY DEF Numbered, Init, ExplainInv, OrphansExplained, Removers, Resting
<1>2. SafeInv /\ ExplainInv /\ [Next]_vars => ExplainInv'
  BY NextExplain
<1>3. ExplainInv => OrphansExplained
  BY DEF ExplainInv
<1>. QED
  BY <1>1, <1>2, <1>3, SafeHolds, PTL DEF Spec

\* A run whose row was deleted never has one again: no patch of its metadata and no repair
\* at a start of the server inserts it (adapters.py lines 112-121, 218-226).
THEOREM DeletedForGood == Numbered /\ Spec => DeletedStays
<1>. SUFFICES ASSUME Numbered PROVE Spec => DeletedStays
  OBVIOUS
<1>1. SafeInv /\ SafeInv' /\ [Next]_vars => [\A i \in deleted : row'[i] = "none"]_vars
  <2>. SUFFICES ASSUME SafeInv, SafeInv', [Next]_vars, NEW i \in deleted PROVE row'[i] = "none"
    OBVIOUS
  <2>1. deleted \subseteq deleted'
    BY DeletedGrows
  <2>. QED
    BY <2>1 DEF SafeInv, RowInv
<1>. QED
  BY <1>1, SafeHolds, PTL DEF Spec, DeletedStays

\* What retention deletes has as many newer runs of its cycle as are kept, or had them until
\* a person deleted them, though rows come and go between its list and its deletion
\* (retention.py lines 63-108).
THEOREM NewestAreKept == Numbered /\ Spec => KeepsNewest
<1>. SUFFICES ASSUME Numbered PROVE Spec => KeepsNewest
  OBVIOUS
<1>1. Init => KeepInv
  BY DEF Init, KeepInv, Removers, Resting
<1>2. SafeInv /\ SafeInv' /\ KeepInv /\ [Next]_vars => KeepInv'
  BY NextKeep
<1>3. KeepInv => [KeepsStep]_vars
  BY DEF KeepInv, KeepsStep, NewerEver
<1>. QED
  BY <1>1, <1>2, <1>3, SafeHolds, PTL DEF Spec, KeepsNewest, KeepsStep

=============================================================================
