---------------------------- MODULE SchemaUpgrade ----------------------------
(* Processes that bring one database to the newest revision at the same time   *)
(* (qasight/repository/migrations). A revision creates the tables and columns  *)
(* that are missing and then moves the one row of alembic_version on. All      *)
(* revisions of an attempt are one transaction -- on PostgreSQL from its       *)
(* start; on SQLite, whose driver runs DDL outside of one, from the first      *)
(* write to alembic_version.                                                   *)
EXTENDS Naturals, FiniteSets, SequencesExt

CONSTANTS
  Processes,
  Items,        \* per revision, what it creates, in order
  Early,        \* the revisions that return when the first of their items is there
  Starts,       \* the revisions the database may be at, 0: none of our tables
  MaxCrashes    \* bound: processes that die

VARIABLES
  dialect,
  built,        \* items of the schema that are committed
  rows,         \* of alembic_version, committed
  at,           \* per process, where upgrade_to_head is
  rev,          \* the revision it applies
  todo,         \* items it has found missing
  open,         \* it is in a transaction
  fresh,        \* the items that transaction created
  mine,         \* the row that transaction wrote, 0 when none
  base,         \* the committed row that this one replaces, 0 when none
  crashes

vars == <<dialect, built, rows, at, rev, todo, open, fresh, mine, base, crashes>>

HeadRev == Len(Items)
Levels == 0 .. HeadRev
Seen(p) == built \cup fresh[p]
UpTo(r) == UNION {ToSet(Items[i]) : i \in 1 .. r}
Row(r) == IF r = 0 THEN {} ELSE {r}

Init ==
  /\ dialect \in {"sqlite", "postgresql"}
  /\ \E r \in Starts : rows = Row(r) /\ built = UpTo(r)
  /\ at = [p \in Processes |-> "start"] /\ rev = [p \in Processes |-> 0]
  /\ todo = [p \in Processes |-> {}] /\ open = [p \in Processes |-> FALSE]
  /\ fresh = [p \in Processes |-> {}] /\ mine = [p \in Processes |-> 0]
  /\ base = [p \in Processes |-> 0] /\ crashes = 0

Active(p) == at[p] \in {"inspect", "create", "commit"}

Goto(p, place) == at' = [at EXCEPT ![p] = place]

Rollback(p) ==
  /\ open' = [open EXCEPT ![p] = FALSE] /\ fresh' = [fresh EXCEPT ![p] = {}]
  /\ mine' = [mine EXCEPT ![p] = 0] /\ base' = [base EXCEPT ![p] = 0]
  /\ todo' = [todo EXCEPT ![p] = {}] /\ rev' = [rev EXCEPT ![p] = 0]
  /\ UNCHANGED <<dialect, built, rows>>

-----------------------------------------------------------------------------
(* _upgrade reads the revision; at head there is nothing to do.                *)
Begin(p) ==
  /\ at[p] = "start"
  /\ IF rows = {HeadRev} THEN Goto(p, "done") /\ UNCHANGED <<rev, open>>
     ELSE /\ Goto(p, "inspect")
          /\ rev' = [rev EXCEPT ![p] = IF rows = {} THEN 1 ELSE (CHOOSE r \in rows : TRUE) + 1]
          /\ open' = [open EXCEPT ![p] = dialect = "postgresql"]
  /\ UNCHANGED <<dialect, built, rows, todo, fresh, mine, base, crashes>>

\* Mistake: a revision returns when any of its items is there.
LacksOrNone(r, seen) == IF ToSet(Items[r]) \cap seen # {} THEN {} ELSE ToSet(Items[r])

Lacks(r, seen) ==
  IF r \in Early /\ Head(Items[r]) \in seen THEN {} ELSE ToSet(Items[r]) \ seen

Inspect(p) ==
  /\ at[p] = "inspect" /\ Goto(p, "create")
  /\ todo' = [todo EXCEPT ![p] = Lacks(rev[p], Seen(p))]
  /\ UNCHANGED <<dialect, built, rows, rev, open, fresh, mine, base, crashes>>

\* What it creates next, nothing when all is there: its revision's items come in order.
NextItem(p) ==
  {i \in todo[p] : \E n \in DOMAIN Items[rev[p]] :
     Items[rev[p]][n] = i /\ \A m \in 1 .. n - 1 : Items[rev[p]][m] \notin todo[p]}

\* Another transaction holds what a write needs: on SQLite the whole database.
Blocked(p, items, row) ==
  \E q \in Processes \ {p} :
    open[q] /\ (dialect = "sqlite" \/ items \cap fresh[q] # {} \/ (row # 0 /\ base[q] = row))

Create(p) ==
  /\ at[p] = "create"
  /\ \E item \in NextItem(p) :
       /\ ~Blocked(p, {item}, 0) /\ item \notin built
       /\ IF open[p] THEN fresh' = [fresh EXCEPT ![p] = @ \cup {item}] /\ UNCHANGED built
          ELSE built' = built \cup {item} /\ UNCHANGED fresh
       /\ todo' = [todo EXCEPT ![p] = @ \ {item}]
  /\ UNCHANGED <<dialect, rows, at, rev, open, mine, base, crashes>>

\* Alembic moves the row from the revision before to this one.
Stamp(p) ==
  LET from == rev[p] - 1 IN
  /\ at[p] = "create" /\ todo[p] = {}
  /\ ~Blocked(p, {}, from)
  /\ rev[p] \notin rows
  /\ mine[p] # 0 \/ from = 0 \/ from \in rows
  /\ base' = [base EXCEPT ![p] = IF mine[p] = 0 THEN from ELSE @]
  /\ mine' = [mine EXCEPT ![p] = rev[p]]
  /\ open' = [open EXCEPT ![p] = TRUE]
  /\ IF rev[p] = HeadRev THEN Goto(p, "commit") /\ UNCHANGED rev
     ELSE Goto(p, "inspect") /\ rev' = [rev EXCEPT ![p] = @ + 1]
  /\ UNCHANGED <<dialect, built, rows, todo, fresh, crashes>>

Commit(p) ==
  /\ at[p] = "commit" /\ Goto(p, "done")
  /\ built' = built \cup fresh[p] /\ rows' = (rows \ {base[p]}) \cup {mine[p]}
  /\ open' = [open EXCEPT ![p] = FALSE] /\ fresh' = [fresh EXCEPT ![p] = {}]
  /\ mine' = [mine EXCEPT ![p] = 0] /\ base' = [base EXCEPT ![p] = 0]
  /\ UNCHANGED <<dialect, rev, todo, crashes>>

\* A DatabaseError: the item or the row is there already, or SQLite's wait for the lock ends.
DatabaseError(p) ==
  /\ at[p] = "create"
  /\ \/ NextItem(p) \cap built # {}
     \/ todo[p] = {} /\ rev[p] \in rows
     \/ dialect = "sqlite" /\ Blocked(p, {}, 0)
  /\ Goto(p, "failed") /\ Rollback(p) /\ UNCHANGED crashes

\* Alembic's update matched no row: a CommandError, which upgrade_to_head does not catch.
CommandError(p) ==
  LET from == rev[p] - 1 IN
  /\ at[p] = "create" /\ todo[p] = {} /\ ~Blocked(p, {}, from)
  /\ mine[p] = 0 /\ from # 0 /\ from \notin rows
  /\ Goto(p, "broken") /\ Rollback(p) /\ UNCHANGED crashes

\* The loser of a race is done when the winner is; it tries again, or its 30 s are over.
AfterError(p) ==
  /\ at[p] = "failed"
  /\ IF rows = {HeadRev} THEN Goto(p, "done") ELSE \E place \in {"start", "late"} : Goto(p, place)
  /\ UNCHANGED <<dialect, built, rows, rev, todo, open, fresh, mine, base, crashes>>

Crash(p) ==
  /\ crashes < MaxCrashes /\ Active(p)
  /\ Goto(p, "dead") /\ Rollback(p) /\ crashes' = crashes + 1

Next ==
  \E p \in Processes :
    \/ Begin(p) \/ Inspect(p) \/ Create(p) \/ Stamp(p) \/ Commit(p)
    \/ DatabaseError(p) \/ CommandError(p) \/ AfterError(p) \/ Crash(p)

Spec == Init /\ [][Next]_vars

-----------------------------------------------------------------------------
TypeOK ==
  /\ dialect \in {"sqlite", "postgresql"}
  /\ built \subseteq UpTo(HeadRev) /\ rows \subseteq 1 .. HeadRev
  /\ at \in [Processes -> {"start", "inspect", "create", "commit", "failed", "done", "broken",
                           "late", "dead"}]
  /\ rev \in [Processes -> Levels]
  /\ mine \in [Processes -> Levels] /\ base \in [Processes -> Levels]
  /\ open \in [Processes -> BOOLEAN]
  /\ todo \in [Processes -> SUBSET UpTo(HeadRev)] /\ fresh \in [Processes -> SUBSET UpTo(HeadRev)]
  /\ \A p \in Processes :
       /\ fresh[p] # {} => open[p]
       /\ Active(p) => rev[p] > 0
       /\ open[p] => Active(p)

\* Left out, because the first item of its revision was there, perhaps alone, on SQLite.
Skipped(i) ==
  dialect = "sqlite" /\ \E n \in Early : i \in ToSet(Items[n]) /\ Head(Items[n]) \in built

Whole(r) == \A i \in UpTo(r) : i \in built \/ Skipped(i)

(* A database that says it is at a revision has all of it, whoever built it    *)
(* and whoever died meanwhile -- but for what the early return of a revision   *)
(* skips on SQLite. It says so in one row.                                     *)
StampedIsWhole == \A r \in rows : rows = {r} /\ Whole(r)

(* "Bring the database to the newest revision" (upgrade_to_head): once one has *)
(* returned and no other is at it, everything the revisions create is there,   *)
(* on any database and whoever died.                                           *)
NewestIsThere ==
  (\E p \in Processes : at[p] = "done") /\ (\A p \in Processes : ~Active(p)) =>
    UpTo(HeadRev) \subseteq built

(* A revision is never taken back, and who returns normally leaves the newest. *)
ForwardOnly ==
  /\ \A r \in rows : \E n \in rows' : n >= r
  /\ \A p \in Processes : at'[p] = "done" => rows' = {HeadRev}

(* "Parallel workers lease keys at the same moment; the loser must not crash." *)
LoserGoesOn == \A p \in Processes : at[p] # "broken"

-----------------------------------------------------------------------------
(* Why they hold: the row moves once, from where it was to the newest          *)
(* revision. Until it does, who has written it in its own transaction is alone.*)
\* The revision that p has reached.
Level(p) == IF at[p] = "commit" THEN rev[p] ELSE rev[p] - 1

Has(p, r) == \A i \in UpTo(r) : i \in Seen(p) \/ Skipped(i)

\* A process on its way from revision k.
OnItsWay(p, k) ==
  /\ at[p] # "done"
  /\ mine[p] # 0 => base[p] = k
  /\ Active(p) =>
       /\ Level(p) \in k .. HeadRev /\ Has(p, Level(p))
       /\ mine[p] = (IF Level(p) = k THEN 0 ELSE Level(p))
       /\ open[p] <=> dialect = "postgresql" \/ mine[p] # 0
  /\ ~Active(p) => mine[p] = 0
  /\ at[p] = "inspect" => fresh[p] \subseteq UpTo(rev[p] - 1)
  /\ at[p] = "create" =>
       /\ fresh[p] \subseteq UpTo(rev[p]) /\ todo[p] \subseteq ToSet(Items[rev[p]])
       /\ \A i \in ToSet(Items[rev[p]]) \ todo[p] : i \in Seen(p) \/ Skipped(i)
  /\ at[p] = "commit" => rev[p] = HeadRev

Racing(k) ==
  /\ \A p \in Processes : OnItsWay(p, k)
  /\ \A p, q \in Processes :
       p # q => fresh[p] \cap fresh[q] = {} /\ (mine[p] = 0 \/ mine[q] = 0)
  /\ dialect = "postgresql" => built = UpTo(k)

UpgradeInv ==
  /\ TypeOK
  /\ \E k \in Levels :
       /\ rows = Row(k) /\ Whole(k)
       /\ k = HeadRev => \A p \in Processes : at[p] # "commit"
       /\ k # HeadRev => Racing(k)
=============================================================================
