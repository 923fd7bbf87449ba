---------------------------- MODULE PoolProvider ----------------------------
(* `qasight pool add`, `remove` and `sweep` with --apply: people at several    *)
(* machines have the provider's own commands create and destroy keys of one    *)
(* pool. Each reads the configuration, lists the keys that exist, for a        *)
(* destroy reads who holds what, plans, asks, and only then runs one command   *)
(* after the other; meanwhile keys are taken and the configuration is edited.  *)
EXTENDS Integers, Sequences, FiniteSets, FiniteSetsExt, Functions

CONSTANTS
  Keys,          \* numbers: the names there are
  Prefixed,      \* the keys that begin with name_prefix; at least MaxItems
  MaxItems,      \* max_items
  MaxSteps,      \* MAX_KEYS_PER_COMMAND
  Names,         \* what may be asked for: sets of keys, named in any order
  HeldAtFirst,   \* keys that are held at the start
  Items,         \* the items of the pool at the start
  Operators,     \* people, each with one command
  MaxChanges     \* bounds what happens beside the commands

VARIABLES
  items,         \* the keys of the pool in the configuration
  exists,        \* the keys that are there
  held,          \* the keys that someone holds
  at,            \* how far the command of an operator is
  pool,          \* the items it read
  listed,        \* the keys provider.list printed for it
  verb,          \* of its plan
  steps,         \* that are left of its plan
  unlogged,      \* commands it ran that are not in the log
  moved,         \* keys that joined the pool or were taken since it looked
  crowded,       \* keys came since it looked that it did not make
  changes

vars == <<items, exists, held, at, pool, listed, verb, steps, unlogged, moved, crowded, changes>>

Places == {"idle", "config", "listed", "planned", "run", "log", "over"}

TypeOK ==
  /\ items \subseteq Keys /\ exists \subseteq Keys /\ held \subseteq Keys
  /\ at \in [Operators -> Places]
  /\ pool \in [Operators -> SUBSET Keys] /\ listed \in [Operators -> SUBSET Keys]
  /\ verb \in [Operators -> {"none", "create", "destroy"}]
  /\ steps \in [Operators -> Seq(Keys)] /\ \A o \in Operators : Len(steps[o]) <= MaxSteps
  /\ unlogged \in [Operators -> SUBSET Keys] /\ moved \in [Operators -> SUBSET Keys]
  /\ crowded \subseteq Operators /\ changes \in 0 .. MaxChanges

Init ==
  /\ items = Items /\ exists \in SUBSET Keys /\ held = HeldAtFirst
  /\ at = [o \in Operators |-> "idle"]
  /\ pool = [o \in Operators |-> {}] /\ listed = [o \in Operators |-> {}]
  /\ verb = [o \in Operators |-> "none"] /\ steps = [o \in Operators |-> <<>>]
  /\ unlogged = [o \in Operators |-> {}] /\ moved = [o \in Operators |-> {}]
  /\ crowded = {} /\ changes = 0
-----------------------------------------------------------------------------
(* What people do beside the commands.                                         *)
Looked == {o \in Operators : at[o] \notin {"idle", "over"}}
Planned == {o \in Operators : at[o] \in {"planned", "run", "log"}}

Moves(k, who) == moved' = [o \in Operators |-> moved[o] \cup IF o \in who THEN {k} ELSE {}]

Change == changes < MaxChanges /\ changes' = changes + 1

AddItem(k) ==
  /\ Change
  /\ k \notin items /\ items' = items \cup {k}
  /\ Moves(k, Looked) /\ crowded' = crowded \cup Looked
  /\ UNCHANGED <<exists, held, at, pool, listed, verb, steps, unlogged>>

DropItem(k) ==
  /\ Change
  /\ k \in items /\ items' = items \ {k}
  /\ UNCHANGED <<exists, held, at, pool, listed, verb, steps, unlogged, moved, crowded>>

\* A client whose configuration may be another checkout's, so k need not be in items.
Take(k) ==
  /\ Change
  /\ k \notin held /\ held' = held \cup {k}
  /\ Moves(k, Planned)
  /\ UNCHANGED <<items, exists, at, pool, listed, verb, steps, unlogged, crowded>>

GiveBack(k) ==
  /\ Change
  /\ k \in held /\ held' = held \ {k}
  /\ UNCHANGED <<items, exists, at, pool, listed, verb, steps, unlogged, moved, crowded>>
-----------------------------------------------------------------------------
(* Looking and planning.                                                       *)
Existing(o) == pool[o] \cup listed[o]

Room(o) == Max({0, MaxItems - Cardinality(Existing(o))})

\* New keys, each once, whose names begin as they must.
New(o) == Prefixed \ Existing(o)

\* The first n of S, in the order of the names given, of numbers or of provider.list: in any.
First(n, S) == Injection(1 .. Min({n, Cardinality(S)}), S)

SafeToDestroy(o, k) == k \notin pool[o] /\ k \in Prefixed /\ k \notin held /\ k \in listed[o]

ReadConfig(o) ==
  /\ at[o] = "idle" /\ at' = [at EXCEPT ![o] = "config"]
  /\ pool' = [pool EXCEPT ![o] = items]
  /\ UNCHANGED <<items, exists, held, listed, verb, steps, unlogged, moved, crowded, changes>>

List(o) ==
  /\ at[o] = "config" /\ at' = [at EXCEPT ![o] = "listed"]
  /\ listed' = [listed EXCEPT ![o] = exists]
  /\ UNCHANGED <<items, exists, held, pool, verb, steps, unlogged, moved, crowded, changes>>

\* provider.list, the reading of the leases or the person says no; or a dry run.
GiveUp(o) ==
  /\ at[o] \in {"config", "listed", "planned"} /\ at' = [at EXCEPT ![o] = "over"]
  /\ UNCHANGED <<items, exists, held, pool, listed, verb, steps, unlogged, moved, crowded, changes>>

Plan(o, what, n, S) ==
  /\ at[o] = "listed"
  /\ \E some \in First(n, S) :
       /\ at' = [at EXCEPT ![o] = IF some = <<>> THEN "over" ELSE "planned"]
       /\ steps' = [steps EXCEPT ![o] = some]
  /\ verb' = [verb EXCEPT ![o] = what]
  /\ UNCHANGED <<items, exists, held, pool, listed, unlogged, moved, crowded, changes>>

PlanAdd(o, names) ==
  Cardinality(names) <= MaxSteps /\ Plan(o, "create", Room(o), names \cap New(o))

PlanCount(o, n) ==
  n <= MaxSteps /\ Plan(o, "create", Min({n, Room(o)}), New(o))

PlanRemove(o, names) ==
  /\ Cardinality(names) <= MaxSteps
  /\ Plan(o, "destroy", MaxSteps, {k \in names : SafeToDestroy(o, k)})

PlanSweep(o) ==
  Plan(o, "destroy", MaxSteps, {k \in Keys : SafeToDestroy(o, k)})

Confirm(o) ==
  /\ at[o] = "planned" /\ at' = [at EXCEPT ![o] = "run"]
  /\ UNCHANGED <<items, exists, held, pool, listed, verb, steps, unlogged, moved, crowded, changes>>
-----------------------------------------------------------------------------
(* Carrying it out.                                                            *)

\* One command; one that fails, or is too slow, may still have done its work.
RunStep(o, works) ==
  LET k == Head(steps[o]) IN
  /\ at[o] = "run" /\ at' = [at EXCEPT ![o] = "log"]
  /\ exists' = IF ~works THEN exists
               ELSE IF verb[o] = "create" THEN exists \cup {k} ELSE exists \ {k}
  /\ unlogged' = [unlogged EXCEPT ![o] = @ \cup {k}]
  /\ crowded' = IF works /\ verb[o] = "create" THEN crowded \cup (Looked \ {o}) ELSE crowded
  /\ UNCHANGED <<items, held, pool, listed, verb, steps, moved, changes>>

LogStep(o) ==
  /\ at[o] = "log"
  /\ at' = [at EXCEPT ![o] = IF Len(steps[o]) = 1 THEN "over" ELSE "run"]
  /\ steps' = [steps EXCEPT ![o] = Tail(@)]
  /\ unlogged' = [unlogged EXCEPT ![o] = @ \ {Head(steps[o])}]
  /\ UNCHANGED <<items, exists, held, pool, listed, verb, moved, crowded, changes>>

\* The log is part of the deal.
LogFails(o) ==
  /\ at[o] = "log" /\ at' = [at EXCEPT ![o] = "over"]
  /\ UNCHANGED <<items, exists, held, pool, listed, verb, steps, unlogged, moved, crowded, changes>>

Next ==
  \/ \E k \in Keys : AddItem(k) \/ DropItem(k) \/ Take(k) \/ GiveBack(k)
  \/ \E o \in Operators :
       \/ ReadConfig(o) \/ List(o) \/ GiveUp(o) \/ PlanSweep(o) \/ Confirm(o)
       \/ LogStep(o) \/ LogFails(o)
       \/ \E names \in Names : PlanAdd(o, names) \/ PlanRemove(o, names)
       \/ \E n \in 1 .. MaxSteps : PlanCount(o, n)
       \/ \E works \in BOOLEAN : RunStep(o, works)

Spec == Init /\ [][Next]_vars
-----------------------------------------------------------------------------
(* What goes away is a key that nobody holds and no pool has: provider.py says *)
(* "destroy never touches a key in the pool's items or one someone holds". It  *)
(* is so but for a key that was taken, or added to the pool, since the command *)
(* looked: it does not look again after it asked.                              *)
DestroysOnlyLeft ==
  \A k \in exists \ exists' :
    \E o \in Operators :
      /\ at[o] = "run" /\ verb[o] = "destroy" /\ k = Head(steps[o]) /\ k \in Prefixed
      /\ k \in items \cup held => k \in moved[o]

(* A pool and its leftovers never grow beyond max_items by a create, but for   *)
(* keys that others made or added since the command looked.                    *)
MaxItemsKept ==
  \A k \in exists' \ exists :
    Cardinality(items \cup exists') > MaxItems =>
      \E o \in Operators : at[o] = "run" /\ k = Head(steps[o]) /\ o \in crowded

(* Every command that ran is in the log, but for the last of an operator: when *)
(* the log fails, nothing more is run.                                         *)
AllLogged ==
  \A o \in Operators :
    /\ unlogged[o] # {} => at[o] \in {"log", "over"} /\ Cardinality(unlogged[o]) = 1

-----------------------------------------------------------------------------
(* Why they hold: what a command knows is so, but for what was noted since.    *)
OnTheWay(o) == at[o] \in {"planned", "run", "log"}

\* It read all items and listed all keys, but for those that came since.
LookedInv ==
  \A o \in Looked :
    /\ items \ pool[o] \subseteq moved[o]
    /\ o \notin crowded => items \subseteq pool[o]
    /\ o \notin crowded /\ at[o] \in {"listed", "planned"} => exists \subseteq Existing(o)

\* There is something left to do,
StepsInv == \A o \in Operators : OnTheWay(o) => steps[o] # <<>> /\ verb[o] # "none"

\* what is to be destroyed was nobody's,
DestroyInv ==
  \A o \in Operators : OnTheWay(o) /\ verb[o] = "destroy" =>
    \A n \in 1 .. Len(steps[o]) :
      /\ steps[o][n] \in Prefixed
      /\ steps[o][n] \in items \cup held => steps[o][n] \in moved[o]

\* and there is room for what is to be created.
Needed(o) == IF at[o] = "log" THEN Len(steps[o]) - 1 ELSE Len(steps[o])
CreateInv ==
  \A o \in Operators : OnTheWay(o) /\ verb[o] = "create" /\ o \notin crowded =>
    Cardinality(items \cup exists) + Needed(o) <= MaxItems

LogInv ==
  \A o \in Operators :
    /\ at[o] = "log" => unlogged[o] = {Head(steps[o])}
    /\ at[o] \notin {"log", "over"} => unlogged[o] = {}

ProviderInv ==
  TypeOK /\ LookedInv /\ StepsInv /\ DestroyInv /\ CreateInv /\ LogInv /\ AllLogged
=============================================================================
