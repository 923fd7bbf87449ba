------------------------------- MODULE Backup -------------------------------
(* Backup and restore of the run history (qasight/history/backup.py) while the *)
(* server it is taken from records and deletes runs. Tables are read one after *)
(* the other, each by a connection of its own, and then the folders of the     *)
(* runs; a restore writes all tables in one transaction and then the folders.  *)
(* Of the tables there are those of the runs, of the test rows and of the      *)
(* accounts; the manifest, columns of other versions and encodings are left    *)
(* out. The deletion of a run is that of module RunHistory.                    *)
EXTENDS Naturals, FiniteSets

CONSTANTS
  Ids,          \* runs of the server that is backed up
  Earlier,      \* of these, the ones recorded before everything else
  Mine,         \* runs the target has at first: replaced, or in the way
  MaxBackups,   \* bound: attempts at a backup
  None

VARIABLES
  at,           \* per run, how far its recording or its deletion is
  row, tests,   \* runs with a row, with test rows
  folder,       \* per run: "none", "half", "whole"
  dump,         \* the file under way: what of it is written, or None
  step,         \* of the backup: "idle", "tests", "files"
  todo,         \* folders it has listed and not read yet
  settled,      \* runs recorded before it started, and not picked for deletion since (a ghost)
  backups,      \* attempts so far
  out,          \* the published file, with what was settled, or None
  target,       \* rows, tests and folders of the server that is restored to, and
                \* whether it has an account that the backup has as well
  restore       \* of the restore: "idle", "checked", "loaded", "done", with its --replace
                \* and the file it reads

vars == <<at, row, tests, folder, dump, step, todo, settled, backups, out, target, restore>>
serverVars == <<at, row, tests, folder>>
backupVars == <<dump, step, todo, backups, out>>

Empty == [row |-> {}, tests |-> {}, folder |-> [i \in Ids |-> "none"]]

\* What a backup may hold, and a file that was published.
Tables == [row : SUBSET Ids, tests : SUBSET Ids, folder : [Ids -> {"none", "half", "whole"}]]
Published == [tables : Tables, settled : SUBSET Ids]

TypeOK ==
  /\ at \in [Ids -> {"new", "row", "copying", "copied", "done", "untested", "rowless", "gone"}]
  /\ row \subseteq Ids /\ tests \subseteq Ids /\ folder \in [Ids -> {"none", "half", "whole"}]
  /\ step \in {"idle", "tests", "files"} /\ (step # "idle" => dump \in Tables)
  /\ todo \subseteq Ids /\ settled \subseteq Ids /\ backups \in 0 .. MaxBackups
  /\ out \in Published \cup {None}
  /\ target \in [row : SUBSET (Ids \cup Mine), tests : SUBSET (Ids \cup Mine),
                 folder : [Ids -> {"none", "half", "whole"}], admin : BOOLEAN]
  /\ restore \in [at : {"idle", "checked", "loaded", "done"}, replace : BOOLEAN, todo : SUBSET Ids,
                  from : Published \cup {None}]

Init ==
  /\ at = [i \in Ids |-> IF i \in Earlier THEN "done" ELSE "new"]
  /\ row = Earlier /\ tests = Earlier
  /\ folder = [i \in Ids |-> IF i \in Earlier THEN "whole" ELSE "none"]
  /\ dump = None /\ step = "idle" /\ todo = {} /\ settled = {} /\ backups = 0 /\ out = None
  /\ \E m \in {{}, Mine}, admin \in BOOLEAN :
       target = [row |-> m, tests |-> m, folder |-> Empty.folder, admin |-> admin]
  /\ restore = [at |-> "idle", replace |-> FALSE, todo |-> {}, from |-> None]

-----------------------------------------------------------------------------
(* The server records runs and deletes them.                                   *)
Server(i, from, to) ==
  /\ at[i] = from /\ at' = [at EXCEPT ![i] = to]
  /\ UNCHANGED <<backupVars, target, restore>>

CreateRow(i) ==
  /\ Server(i, "new", "row")
  /\ row' = row \cup {i} /\ UNCHANGED <<tests, folder, settled>>

CopyStarts(i) ==
  /\ Server(i, "row", "copying")
  /\ folder' = [folder EXCEPT ![i] = "half"] /\ UNCHANGED <<row, tests, settled>>

CopyEnds(i) ==
  /\ Server(i, "copying", "copied")
  /\ folder' = [folder EXCEPT ![i] = "whole"] /\ UNCHANGED <<row, tests, settled>>

WriteTests(i) ==
  /\ Server(i, "copied", "done")
  /\ tests' = tests \cup {i} /\ UNCHANGED <<row, folder, settled>>

RemoveTests(i) ==
  /\ Server(i, "done", "untested")
  /\ tests' = tests \ {i} /\ settled' = settled \ {i} /\ UNCHANGED <<row, folder>>

RemoveRow(i) ==
  /\ Server(i, "untested", "rowless")
  /\ row' = row \ {i} /\ UNCHANGED <<tests, folder, settled>>

RemoveFolder(i) ==
  /\ Server(i, "rowless", "gone")
  /\ folder' = [folder EXCEPT ![i] = "none"] /\ UNCHANGED <<row, tests, settled>>

-----------------------------------------------------------------------------
(* create_backup writes <out>.partial and then renames it.                     *)
DumpRuns ==
  /\ step = "idle" /\ backups < MaxBackups
  /\ backups' = backups + 1 /\ step' = "tests"
  /\ dump' = [Empty EXCEPT !.row = row]
  /\ settled' = {i \in Ids : at[i] = "done"}
  /\ UNCHANGED <<serverVars, todo, out, target, restore>>

\* The folders are listed once the tables are written.
DumpTests ==
  /\ step = "tests" /\ step' = "files"
  /\ dump' = [dump EXCEPT !.tests = tests]
  /\ todo' = {i \in Ids : folder[i] # "none"}
  /\ UNCHANGED <<serverVars, settled, backups, out, target, restore>>

\* A folder that is gone by now is passed over.
AddFolder(i) ==
  /\ step = "files" /\ i \in todo /\ todo' = todo \ {i}
  /\ dump' = [dump EXCEPT !.folder[i] = folder[i]]
  /\ UNCHANGED <<serverVars, step, settled, backups, out, target, restore>>

\* A file that goes between the look at it and the reading ends the backup, as a crash
\* does; the partial file stays until the next attempt writes over it.
BackupFails ==
  /\ step # "idle" /\ step' = "idle" /\ todo' = {}
  /\ UNCHANGED <<serverVars, dump, settled, backups, out, target, restore>>

\* Mistake: the file is published before the folders are in it.
ReadyEarly == step = "files"

Ready == step = "files" /\ todo = {}

Publish ==
  /\ Ready /\ step' = "idle" /\ todo' = {}
  /\ out' = [tables |-> dump, settled |-> settled] /\ dump' = None
  /\ UNCHANGED <<serverVars, settled, backups, target, restore>>

-----------------------------------------------------------------------------
(* restore_backup.                                                             *)
\* A database with runs is only restored to with --replace.
Check(replace) ==
  /\ restore.at = "idle" /\ out # None
  /\ replace \/ target.row = {}
  /\ restore' = [at |-> "checked", replace |-> replace, todo |-> {},
               from |-> None]
  /\ UNCHANGED <<serverVars, backupVars, settled, target>>

\* Mistake: the tables are not emptied first.
LoadedOver(t, tables, replace) ==
  [t EXCEPT !.row = @ \cup tables.row, !.tests = @ \cup tables.tests]

\* The tables of target t after the transaction.
Loaded(t, tables, replace) ==
  LET kept == IF replace THEN {} ELSE t.row IN
  [t EXCEPT !.row = kept \cup tables.row, !.tests = kept \cup tables.tests]

Load ==
  /\ restore.at = "checked" /\ (restore.replace \/ ~target.admin)
  /\ target' = Loaded(target, out.tables, restore.replace)
  /\ restore' = [restore EXCEPT !.at = "loaded", !.from = out,
                                !.todo = {i \in Ids : out.tables.folder[i] # "none"}]
  /\ UNCHANGED <<serverVars, backupVars, settled>>

\* An account of the backup is there already: the transaction is rolled back.
LoadFails ==
  /\ restore.at = "checked" /\ ~restore.replace /\ target.admin
  /\ restore' = [restore EXCEPT !.at = "idle"]
  /\ UNCHANGED <<serverVars, backupVars, settled, target>>

Extract(i) ==
  /\ restore.at = "loaded" /\ i \in restore.todo
  /\ target' = [target EXCEPT !.folder[i] = restore.from.tables.folder[i]]
  /\ restore' = [restore EXCEPT !.todo = @ \ {i}]
  /\ UNCHANGED <<serverVars, backupVars, settled>>

\* A crash after the transaction; the restore can be started again with --replace.
RestoreCrash ==
  /\ restore.at = "loaded" /\ restore.todo # {}
  /\ restore' = [restore EXCEPT !.at = "idle", !.todo = {}]
  /\ UNCHANGED <<serverVars, backupVars, settled, target>>

RestoreEnds ==
  /\ restore.at = "loaded" /\ restore.todo = {}
  /\ restore' = [restore EXCEPT !.at = "done"]
  /\ UNCHANGED <<serverVars, backupVars, settled, target>>

Next ==
  \/ \E i \in Ids :
       \/ CreateRow(i) \/ CopyStarts(i) \/ CopyEnds(i) \/ WriteTests(i)
       \/ RemoveTests(i) \/ RemoveRow(i) \/ RemoveFolder(i)
       \/ AddFolder(i) \/ Extract(i)
  \/ DumpRuns \/ DumpTests \/ BackupFails \/ Publish
  \/ \E replace \in BOOLEAN : Check(replace)
  \/ Load \/ LoadFails \/ RestoreCrash \/ RestoreEnds

Spec == Init /\ [][Next]_vars

-----------------------------------------------------------------------------
(* A run that was recorded when the backup began and that nobody deleted       *)
(* before it ended comes back whole, whatever was recorded and deleted around  *)
(* it, and though a restore crashed and was started again.                     *)
SettledComesBack ==
  restore.at = "done" =>
    \A i \in restore.from.settled :
      i \in target.row /\ i \in target.tests /\ target.folder[i] = "whole"

(* Once tables of a backup are in the target, no run of the target's own       *)
(* history is among them: a restore never mixes two histories.                 *)
NeverMixes ==
  target.row \cap Mine # {} => target.row \cap Ids = {} /\ target.tests \cap Ids = {}

-----------------------------------------------------------------------------
(* Why they hold: what is true of the run, the file and the restore at every   *)
(* moment, as the proof needs it.                                              *)

\* What a run has, by how far it is.
RecordedInv ==
  \A i \in Ids :
    /\ at[i] \in {"row", "copying", "copied", "done"} => i \in row
    /\ at[i] \in {"copied", "done"} => folder[i] = "whole"
    /\ at[i] = "done" => i \in tests

\* What is settled is still there, and what the backup has read it has.
DumpInv ==
  \A i \in settled :
    /\ at[i] = "done"
    /\ step # "idle" => i \in dump.row
    /\ step = "files" => i \in dump.tests /\ (i \in todo \/ dump.folder[i] = "whole")

WholeFile(file) ==
  /\ file \in Published
  /\ \A i \in file.settled :
       i \in file.tables.row /\ i \in file.tables.tests /\ file.tables.folder[i] = "whole"

\* A published file has what was settled.
OutInv == out # None \/ restore.at = "checked" => WholeFile(out)

\* What was loaded is there, or still to be extracted.
RestoreInv ==
  /\ restore.at \in {"loaded", "done"} =>
       /\ WholeFile(restore.from)
       /\ \A i \in restore.from.settled :
            /\ i \in target.row /\ i \in target.tests
            /\ i \in restore.todo \/ target.folder[i] = "whole"
  /\ restore.at = "done" => restore.todo = {}
  /\ restore.at = "checked" /\ ~restore.replace => target.row = {}

BackupInv == TypeOK /\ RecordedInv /\ DumpInv /\ OutInv /\ RestoreInv /\ NeverMixes
=============================================================================
