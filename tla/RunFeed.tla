------------------------------ MODULE RunFeed ------------------------------
(***************************************************************************)
(* What the viewer of a run is promised: the run's events, each of them    *)
(* once, in the order they were written and without a gap, and the end of  *)
(* the stream only when the run is over and all of them were sent.         *)
(***************************************************************************)
EXTENDS Naturals

CONSTANTS Runs, Viewers

VARIABLES
  written,   \* run -> number of events it has written
  over,      \* runs that write no more
  watched,   \* viewer -> the run it follows, 0 before it asks
  seen,      \* viewer -> number of the run's events it has
  closed     \* viewers who have seen the end of the stream

vars == <<written, over, watched, seen, closed>>

Init ==
  /\ written = [r \in Runs |-> 0]
  /\ over = {}
  /\ watched = [v \in Viewers |-> 0]
  /\ seen = [v \in Viewers |-> 0]
  /\ closed = {}

Write(r) ==
  /\ r \notin over
  /\ written' = [written EXCEPT ![r] = @ + 1]
  /\ UNCHANGED <<over, watched, seen, closed>>

End(r) ==
  /\ over' = over \union {r}
  /\ UNCHANGED <<written, watched, seen, closed>>

Ask(v, r) ==
  /\ watched[v] = 0
  /\ watched' = [watched EXCEPT ![v] = r]
  /\ UNCHANGED <<written, over, seen, closed>>

Send(v) ==
  /\ watched[v] # 0 /\ v \notin closed
  /\ \E n \in seen[v] .. written[watched[v]] : seen' = [seen EXCEPT ![v] = n]
  /\ UNCHANGED <<written, over, watched, closed>>

Close(v) ==
  /\ watched[v] \in over
  /\ seen' = [seen EXCEPT ![v] = written[watched[v]]]
  /\ closed' = closed \union {v}
  /\ UNCHANGED <<written, over, watched>>

Next ==
  \/ \E r \in Runs : Write(r) \/ End(r)
  \/ \E v \in Viewers : Send(v) \/ Close(v) \/ \E r \in Runs : Ask(v, r)

Spec == Init /\ [][Next]_vars
=============================================================================
