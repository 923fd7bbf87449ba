-------------------------------- MODULE Watch --------------------------------
(* qasight watch: a run of a cycle after its files change (cli/commands/       *)
(* watch.py). The observer's thread handles one event after the other and      *)
(* starts a timer for each; every timer has a thread of its own, and cancel()  *)
(* has no effect on one that has expired. A change is a number, the tree is    *)
(* the number of changes so far.                                               *)
EXTENDS Naturals, Sequences

CONSTANTS
  MaxChanges,   \* bound: files changed
  None

VARIABLES
  tree,         \* changes so far
  events,       \* changes the observer has not handled
  timers,       \* per timer, what it does: a timer per event
  slot,         \* timer[0]
  running,      \* timers whose run is at work: the cycle's lock lets one in
  covered       \* the newest change a run has started after

vars == <<tree, events, timers, slot, running, covered>>

Timers == 1 .. MaxChanges

Init ==
  /\ tree = 0 /\ events = <<>> /\ timers = [t \in Timers |-> "none"] /\ slot = None
  /\ running = {} /\ covered = 0

Change ==
  /\ tree < MaxChanges /\ tree' = tree + 1
  /\ events' = Append(events, tree')
  /\ UNCHANGED <<timers, slot, running, covered>>

\* on_any_event, under the lock: cancel the timer of the slot, start a new one.
Cancelled(t) == IF timers[t] = "waiting" THEN "cancelled" ELSE timers[t]

\* Mistake: events are ignored while a run is at work.
HandleIdle ==
  /\ events # <<>> /\ events' = Tail(events)
  /\ IF running # {} THEN UNCHANGED <<timers, slot>>
     ELSE /\ timers' = [t \in Timers |-> IF t = Head(events) THEN "waiting"
                                         ELSE IF t = slot THEN Cancelled(t) ELSE timers[t]]
          /\ slot' = Head(events)
  /\ UNCHANGED <<tree, running, covered>>

Handle ==
  /\ events # <<>> /\ events' = Tail(events)
  /\ timers' = [t \in Timers |-> IF t = Head(events) THEN "waiting"
                                 ELSE IF t = slot THEN Cancelled(t) ELSE timers[t]]
  /\ slot' = Head(events)
  /\ UNCHANGED <<tree, running, covered>>

Expire(t) ==
  /\ timers[t] = "waiting" /\ timers' = [timers EXCEPT ![t] = "expired"]
  /\ UNCHANGED <<tree, events, slot, running, covered>>

\* _fire takes the lock and clears the slot, whichever timer is in it by now.
Fire(t) ==
  /\ timers[t] = "expired" /\ timers' = [timers EXCEPT ![t] = "fired"]
  /\ slot' = None
  /\ UNCHANGED <<tree, events, running, covered>>

RunStarts(t) ==
  /\ timers[t] = "fired" /\ running = {}
  /\ timers' = [timers EXCEPT ![t] = "running"]
  /\ running' = {t} /\ covered' = tree
  /\ UNCHANGED <<tree, events, slot>>

RunEnds(t) ==
  /\ timers[t] = "running" /\ timers' = [timers EXCEPT ![t] = "over"] /\ running' = {}
  /\ UNCHANGED <<tree, events, slot, covered>>

Next ==
  \/ Change \/ Handle
  \/ \E t \in Timers : Expire(t) \/ Fire(t) \/ RunStarts(t) \/ RunEnds(t)

Spec == Init /\ [][Next]_vars

-----------------------------------------------------------------------------
TypeOK ==
  /\ tree \in 0 .. MaxChanges /\ covered \in 0 .. tree
  /\ slot \in Timers \cup {None} /\ running \subseteq Timers
  /\ timers \in [Timers -> {"none", "waiting", "cancelled", "expired", "fired", "running", "over"}]

(* When everything has come to rest, a run has started after the last change:  *)
(* no change is lost between a timer that expired and the event that would     *)
(* have cancelled it. More runs than changes need are allowed: a late _fire    *)
(* clears the slot of a newer timer, which then cannot be cancelled.           *)
NoChangeLost ==
  (events = <<>> /\ \A t \in Timers : timers[t] \notin {"waiting", "expired", "fired"})
  => covered = tree

(* Why it holds: as long as no run has started after the last change, an event *)
(* is to be handled or a timer is on its way.                                  *)
OnItsWay ==
  covered # tree =>
    events # <<>> \/ \E t \in Timers : timers[t] \in {"waiting", "expired", "fired"}

WatchInv == TypeOK /\ events \in Seq(Timers) /\ OnItsWay
=============================================================================
