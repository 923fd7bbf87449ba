----------------------------- MODULE Executions -----------------------------
(***************************************************************************)
(* The runs of the dashboard server: CycleExecutionManager                 *)
(* (qasight_api/cycle_execution_manager.py) over the run queue of          *)
(* qasight_api/run_queue.py, with request threads, workers, crashes and    *)
(* restarts, for one or more server processes on one database.             *)
(*                                                                         *)
(* One step is one critical section, one transaction or one queue          *)
(* operation. at[s][i] is where server s is with execution i:              *)
(*   none    not known to this process                                     *)
(*   add     _start() has registered it, its row is not written yet        *)
(*   put     its row is written, it is not in the FIFO yet                 *)
(*   queued  in the FIFO; the request was answered                         *)
(*   claim   a worker took it off the FIFO and set it running              *)
(*   run     its row is claimed; CycleRunService.run()                     *)
(*   free    in _finish(), about to free the cycle                         *)
(*   mark    in _finish(), about to call mark_done()                       *)
(*   over    nothing left to do                                            *)
(* A worker has one execution in claim .. mark. cancel() has a thread of   *)
(* its own: cancelling[s][i] goes no, claim, free, mark, no.               *)
(***************************************************************************)
EXTENDS Integers, FiniteSets, Sequences

CONSTANTS
  Servers,        \* server processes that share the database
  Cycles,
  MaxRuns,        \* bound: executions ever asked for
  MaxConcurrent,  \* worker threads of a server
  MaxFinished,    \* finished executions a server remembers
  Durable,        \* TESTO_RUN_QUEUE=db; FALSE is memory
  DbErrors,       \* calls of the run store may raise
  Crashes,        \* servers may die and start again
  Peek            \* clients also cancel ids they know only from a 409 answer

ASSUME ExecutionsAssumption ==
  /\ MaxRuns \in Nat
  /\ MaxConcurrent \in Nat \ {0}
  /\ MaxFinished \in Nat \ {0}
  /\ {Durable, DbErrors, Crashes, Peek} \subseteq BOOLEAN

Ids == 1 .. MaxRuns     \* in the order of their created_at
NoId == 0
NoCycle == "no cycle"

VARIABLES
  created,     \* executions asked for so far
  cycle,       \* id -> the cycle it runs, from its request
  rows,        \* ids with a row in queued_run
  up,          \* servers that are up
  todo,        \* server -> rows recover_queued() has still to queue
  known,       \* server -> ids in _states
  active,      \* server, cycle -> _active_by_cycle
  fifo,        \* server -> _queue
  finished,    \* server -> _finished
  status,      \* server, id -> state.status
  done,        \* server, id -> state.done
  stopped,     \* server, id -> state.stop was requested
  outcome,     \* server, id -> status that _finish() is to set
  at,          \* server, id -> see above
  cancelling,  \* server, id -> see above
  accepted,    \* ids whose request was answered (history)
  started,     \* id -> how often its run began, on any server (history)
  refused,     \* ids being cancelled while queued, or failed on a claim (history)
  told         \* ids of which a client was told that they never start (history)

dbVars == <<created, cycle, rows>>
stateVars == <<known, active, finished, status, done, stopped, outcome>>
threadVars == <<up, todo, fifo, at, cancelling>>
history == <<accepted, started, refused, told>>
vars == <<dbVars, stateVars, threadVars, history>>

Statuses == {"none", "queued", "running", "completed", "failed", "cancelled"}
Places == {"none", "add", "put", "queued", "claim", "run", "free", "mark", "over"}

TypeOK ==
  /\ created \in 0 .. MaxRuns
  /\ cycle \in [Ids -> Cycles \union {NoCycle}]
  /\ rows \subseteq Ids
  /\ up \subseteq Servers
  /\ todo \in [Servers -> Seq(Ids)]
  /\ known \in [Servers -> SUBSET Ids]
  /\ active \in [Servers -> [Cycles -> Ids \union {NoId}]]
  /\ fifo \in [Servers -> Seq(Ids)]
  /\ finished \in [Servers -> Seq(Ids)]
  /\ status \in [Servers -> [Ids -> Statuses]]
  /\ done \in [Servers -> [Ids -> BOOLEAN]]
  /\ stopped \in [Servers -> [Ids -> BOOLEAN]]
  /\ outcome \in [Servers -> [Ids -> Statuses]]
  /\ at \in [Servers -> [Ids -> Places]]
  /\ cancelling \in [Servers -> [Ids -> {"no", "claim", "free", "mark"}]]
  /\ accepted \subseteq Ids
  /\ started \in [Ids -> Nat]
  /\ refused \subseteq Ids
  /\ told \subseteq Ids

Init ==
  /\ created = 0
  /\ cycle = [i \in Ids |-> NoCycle]
  /\ rows = {}
  /\ up = Servers
  /\ todo = [s \in Servers |-> <<>>]
  /\ known = [s \in Servers |-> {}]
  /\ active = [s \in Servers |-> [c \in Cycles |-> NoId]]
  /\ fifo = [s \in Servers |-> <<>>]
  /\ finished = [s \in Servers |-> <<>>]
  /\ status = [s \in Servers |-> [i \in Ids |-> "none"]]
  /\ done = [s \in Servers |-> [i \in Ids |-> FALSE]]
  /\ stopped = [s \in Servers |-> [i \in Ids |-> FALSE]]
  /\ outcome = [s \in Servers |-> [i \in Ids |-> "none"]]
  /\ at = [s \in Servers |-> [i \in Ids |-> "none"]]
  /\ cancelling = [s \in Servers |-> [i \in Ids |-> "no"]]
  /\ accepted = {}
  /\ started = [i \in Ids |-> 0]
  /\ refused = {}
  /\ told = {}

\* recover_queued() runs before the first request is served.
Serving(s) == s \in up /\ todo[s] = <<>>

\* Server s moves on with i.
Goto(s, i, place) == at' = [at EXCEPT ![s][i] = place]

\* Mistake: the entry stays when the execution is over.
FreedNot(s, i) == active

\* _active_by_cycle.pop(cycle) of an execution that owns the entry.
Freed(s, i) ==
  IF active[s][cycle[i]] = i THEN [active EXCEPT ![s][cycle[i]] = NoId] ELSE active

-----------------------------------------------------------------------------
(* _start()                                                                *)

\* Mistake: the cycle is not looked up first.
RegisteredAnyway(s, i, c) ==
  /\ known' = [known EXCEPT ![s] = @ \union {i}]
  /\ active' = [active EXCEPT ![s][c] = i]
  /\ status' = [status EXCEPT ![s][i] = "queued"]

\* The registration that _start() makes under the states lock.
Registered(s, i, c) ==
  /\ active[s][c] = NoId
  /\ known' = [known EXCEPT ![s] = @ \union {i}]
  /\ active' = [active EXCEPT ![s][c] = i]
  /\ status' = [status EXCEPT ![s][i] = "queued"]

\* A request for a run of a cycle that is free here.
Create(s) ==
  /\ Serving(s)
  /\ created < MaxRuns
  /\ created' = created + 1
  /\ \E c \in Cycles :
       /\ Registered(s, created + 1, c)
       /\ cycle' = [cycle EXCEPT ![created + 1] = c]
  /\ Goto(s, created + 1, "add")
  /\ UNCHANGED <<rows, finished, done, stopped, outcome, up, todo, fifo, cancelling, history>>

AddRow(s, i) ==
  /\ at[s][i] = "add"
  /\ rows' = IF Durable THEN rows \union {i} ELSE rows
  /\ Goto(s, i, "put")
  /\ UNCHANGED <<created, cycle, stateVars, up, todo, fifo, cancelling, history>>

\* add() raised: the registration is undone, whoever has the cycle by now.
AddFail(s, i) ==
  /\ DbErrors /\ Durable
  /\ at[s][i] = "add"
  /\ known' = [known EXCEPT ![s] = @ \ {i}]
  /\ active' = [active EXCEPT ![s][cycle[i]] = NoId]
  /\ Goto(s, i, "over")
  /\ UNCHANGED <<dbVars, finished, status, done, stopped, outcome, up, todo, fifo, cancelling, history>>

Put(s, i) ==
  /\ at[s][i] = "put"
  /\ fifo' = [fifo EXCEPT ![s] = Append(@, i)]
  /\ accepted' = accepted \union {i}
  /\ Goto(s, i, "queued")
  /\ UNCHANGED <<dbVars, stateVars, up, todo, cancelling, started, refused, told>>

-----------------------------------------------------------------------------
(* A worker: _claim_and_run(), _run_execution(), _finish()                 *)

Busy(s) == {i \in Ids : at[s][i] \in {"claim", "run", "free", "mark"}}

HasIdle(s) == Cardinality(Busy(s)) < MaxConcurrent

\* An idle worker takes the next job; one that was stopped while it waited is left alone.
Pick(s) ==
  /\ fifo[s] # <<>>
  /\ HasIdle(s)
  /\ LET i == Head(fifo[s]) IN
       \/ /\ status[s][i] = "queued"
          /\ status' = [status EXCEPT ![s][i] = "running"]
          /\ Goto(s, i, "claim")
       \/ /\ status[s][i] # "queued"
          /\ UNCHANGED status
          /\ Goto(s, i, "over")
  /\ fifo' = [fifo EXCEPT ![s] = Tail(@)]
  /\ UNCHANGED <<dbVars, known, active, finished, done, stopped, outcome, up, todo, cancelling, history>>

\* Mistake: a row that is gone does not stop the run.
MineAnyway(i) == TRUE

\* claim() deleted the row: the run is this process's to start.
Mine(i) == i \in rows \/ ~Durable

Claim(s, i) ==
  /\ at[s][i] = "claim"
  /\ Mine(i)
  /\ rows' = rows \ {i}
  /\ started' = [started EXCEPT ![i] = @ + 1]
  /\ Goto(s, i, "run")
  /\ UNCHANGED <<created, cycle, stateVars, up, todo, fifo, cancelling, accepted, refused, told>>

\* Another process took the row. The state stays "running" and is never done.
ClaimLost(s, i) ==
  /\ at[s][i] = "claim"
  /\ ~Mine(i)
  /\ known' = [known EXCEPT ![s] = @ \ {i}]
  /\ active' = Freed(s, i)
  /\ Goto(s, i, "over")
  /\ UNCHANGED <<dbVars, finished, status, done, stopped, outcome, up, todo, fifo, cancelling, history>>

\* claim() raised: the execution fails and its row is left.
ClaimFail(s, i) ==
  /\ DbErrors /\ Durable
  /\ at[s][i] = "claim"
  /\ outcome' = [outcome EXCEPT ![s][i] = "failed"]
  /\ refused' = refused \union {i}
  /\ Goto(s, i, "free")
  /\ UNCHANGED <<dbVars, known, active, finished, status, done, stopped, up, todo, fifo, cancelling,
                 accepted, started, told>>

\* The run is over; what its stop switch says then decides what it was.
RunEnd(s, i) ==
  /\ at[s][i] = "run"
  /\ \/ outcome' = [outcome EXCEPT ![s][i] = "failed"]
     \/ outcome' = [outcome EXCEPT ![s][i] = IF stopped[s][i] THEN "cancelled" ELSE "completed"]
  /\ Goto(s, i, "free")
  /\ UNCHANGED <<dbVars, known, active, finished, status, done, stopped, up, todo, fifo, cancelling, history>>

\* Mistake: one finished execution more than max_finished is kept.
KeptLast(fs) == IF Len(fs) > MaxFinished + 1 THEN Tail(fs) ELSE fs

\* _finished after an append: the oldest goes when there are too many.
Kept(fs) == IF Len(fs) > MaxFinished THEN Tail(fs) ELSE fs

\* _finish() under the states lock.
Free(s, i) ==
  LET all == Append(finished[s], i) IN
  /\ active' = Freed(s, i)
  /\ finished' = [finished EXCEPT ![s] = Kept(all)]
  /\ known' = [known EXCEPT ![s] = IF Kept(all) = all THEN @ ELSE @ \ {Head(all)}]

\* Mistake: a cancelled execution gets a status of the run history.
MarkStopped(s, i, result) ==
  /\ status' = [status EXCEPT ![s][i] = IF result = "cancelled" THEN "stopped" ELSE result]
  /\ done' = [done EXCEPT ![s][i] = TRUE]

MarkDone(s, i, result) ==
  /\ status' = [status EXCEPT ![s][i] = result]
  /\ done' = [done EXCEPT ![s][i] = TRUE]

\* Mistake: done is reported before the cycle is freed.
FinishMarkFirst(s, i) ==
  /\ at[s][i] = "free"
  /\ MarkDone(s, i, outcome[s][i])
  /\ Goto(s, i, "mark")
  /\ UNCHANGED <<dbVars, known, active, finished, stopped, outcome, up, todo, fifo, cancelling, history>>

FinishFree(s, i) ==
  /\ at[s][i] = "free"
  /\ Free(s, i)
  /\ Goto(s, i, "mark")
  /\ UNCHANGED <<dbVars, status, done, stopped, outcome, up, todo, fifo, cancelling, history>>

FinishMark(s, i) ==
  /\ at[s][i] = "mark"
  /\ MarkDone(s, i, outcome[s][i])
  /\ Goto(s, i, "over")
  /\ UNCHANGED <<dbVars, known, active, finished, stopped, outcome, up, todo, fifo, cancelling, history>>

-----------------------------------------------------------------------------
(* cancel()                                                                *)

\* Whose id a client can name: one it was given, or one it read in a 409.
MayName(s, i) == i \in known[s] /\ (i \in accepted \/ Peek)

CancelQueued(s, i) ==
  /\ Serving(s) /\ MayName(s, i)
  /\ status[s][i] = "queued"
  /\ status' = [status EXCEPT ![s][i] = "cancelled"]
  /\ stopped' = [stopped EXCEPT ![s][i] = TRUE]
  /\ cancelling' = [cancelling EXCEPT ![s][i] = "claim"]
  /\ refused' = refused \union {i}
  /\ UNCHANGED <<dbVars, known, active, finished, done, outcome, up, todo, fifo, at, accepted, started, told>>

CancelRunning(s, i) ==
  /\ Serving(s) /\ MayName(s, i)
  /\ status[s][i] # "queued" /\ ~done[s][i]
  /\ stopped' = [stopped EXCEPT ![s][i] = TRUE]
  /\ UNCHANGED <<dbVars, known, active, finished, status, done, outcome, threadVars, history>>

\* Mistake: the row stays on the durable queue.
CancelClaimNot(s, i) ==
  /\ cancelling[s][i] = "claim"
  /\ cancelling' = [cancelling EXCEPT ![s][i] = "free"]
  /\ UNCHANGED <<dbVars, stateVars, up, todo, fifo, at, history>>

\* claim() takes the row off the queue, or raises, which is only logged.
CancelClaim(s, i) ==
  /\ cancelling[s][i] = "claim"
  /\ rows' = rows \ {i} \/ (DbErrors /\ Durable /\ rows' = rows)
  /\ cancelling' = [cancelling EXCEPT ![s][i] = "free"]
  /\ UNCHANGED <<created, cycle, stateVars, up, todo, fifo, at, history>>

CancelFree(s, i) ==
  /\ cancelling[s][i] = "free"
  /\ Free(s, i)
  /\ cancelling' = [cancelling EXCEPT ![s][i] = "mark"]
  /\ UNCHANGED <<dbVars, status, done, stopped, outcome, up, todo, fifo, at, history>>

CancelMark(s, i) ==
  /\ cancelling[s][i] = "mark"
  /\ MarkDone(s, i, "cancelled")
  /\ cancelling' = [cancelling EXCEPT ![s][i] = "no"]
  /\ told' = told \union {i}
  /\ UNCHANGED <<dbVars, known, active, finished, stopped, outcome, up, todo, fifo, at, accepted, started, refused>>

-----------------------------------------------------------------------------
(* Crash and restart                                                       *)

\* What server s has in memory, reset to `value` for every id.
Wiped(f, s, value) == [f EXCEPT ![s] = [i \in Ids |-> value]]

Crash(s) ==
  /\ Crashes
  /\ s \in up
  /\ up' = up \ {s}
  /\ todo' = [todo EXCEPT ![s] = <<>>]
  /\ known' = [known EXCEPT ![s] = {}]
  /\ active' = [active EXCEPT ![s] = [c \in Cycles |-> NoId]]
  /\ fifo' = [fifo EXCEPT ![s] = <<>>]
  /\ finished' = [finished EXCEPT ![s] = <<>>]
  /\ status' = Wiped(status, s, "none")
  /\ done' = Wiped(done, s, FALSE)
  /\ stopped' = Wiped(stopped, s, FALSE)
  /\ outcome' = Wiped(outcome, s, "none")
  /\ at' = Wiped(at, s, "none")
  /\ cancelling' = Wiped(cancelling, s, "no")
  /\ UNCHANGED <<dbVars, history>>

\* q holds the ids of S, oldest first: pending().
Oldest(q, S) == \A j, k \in 1 .. Cardinality(S) : j < k => q[j] < q[k]

Restart(s) ==
  /\ s \notin up
  /\ up' = up \union {s}
  /\ \E q \in [1 .. Cardinality(rows) -> rows] :
       /\ Oldest(q, rows)
       /\ todo' = [todo EXCEPT ![s] = IF Durable THEN q ELSE <<>>]
  /\ UNCHANGED <<dbVars, stateVars, fifo, at, cancelling, history>>

\* Mistake: the row is taken when it is queued again, not when its run starts.
RecoverTaken(s) ==
  /\ todo[s] # <<>>
  /\ LET i == Head(todo[s]) IN
       /\ Registered(s, i, cycle[i])
       /\ rows' = rows \ {i}
       /\ fifo' = [fifo EXCEPT ![s] = Append(@, i)]
       /\ Goto(s, i, "queued")
  /\ todo' = [todo EXCEPT ![s] = Tail(@)]
  /\ UNCHANGED <<created, cycle, finished, done, stopped, outcome, up, cancelling, history>>

\* Mistake: the execution is registered again, its job is not queued.
RecoverUnqueued(s) ==
  /\ todo[s] # <<>>
  /\ LET i == Head(todo[s]) IN
       /\ Registered(s, i, cycle[i])
       /\ Goto(s, i, "queued")
  /\ todo' = [todo EXCEPT ![s] = Tail(@)]
  /\ UNCHANGED <<dbVars, fifo, finished, done, stopped, outcome, up, cancelling, history>>

\* recover_queued() queues the next row again, under its old id.
Recover(s) ==
  /\ todo[s] # <<>>
  /\ LET i == Head(todo[s]) IN
       /\ Registered(s, i, cycle[i])
       /\ fifo' = [fifo EXCEPT ![s] = Append(@, i)]
       /\ Goto(s, i, "queued")
  /\ todo' = [todo EXCEPT ![s] = Tail(@)]
  /\ UNCHANGED <<dbVars, finished, done, stopped, outcome, up, cancelling, history>>

\* Its cycle is already queued here: the row is dropped.
RecoverDrop(s) ==
  /\ todo[s] # <<>>
  /\ active[s][cycle[Head(todo[s])]] # NoId
  /\ rows' = rows \ {Head(todo[s])}
  /\ todo' = [todo EXCEPT ![s] = Tail(@)]
  /\ UNCHANGED <<created, cycle, stateVars, up, fifo, at, cancelling, history>>

-----------------------------------------------------------------------------
Work(s) ==
  \/ Pick(s)
  \/ \E i \in Ids :
       \/ AddRow(s, i) \/ Put(s, i) \/ Claim(s, i) \/ ClaimLost(s, i) \/ RunEnd(s, i)
       \/ FinishFree(s, i) \/ FinishMark(s, i)
       \/ CancelClaim(s, i) \/ CancelFree(s, i) \/ CancelMark(s, i)
Trouble(s) == Crash(s) \/ \E i \in Ids : AddFail(s, i) \/ ClaimFail(s, i)
Recovery(s) == Restart(s) \/ Recover(s) \/ RecoverDrop(s)
Ask(s) == Create(s) \/ \E i \in Ids : CancelQueued(s, i) \/ CancelRunning(s, i)

Next == \E s \in Servers : Work(s) \/ Trouble(s) \/ Recovery(s) \/ Ask(s)

Spec == Init /\ [][Next]_vars

-----------------------------------------------------------------------------
(* Properties                                                              *)

\* A server never runs two executions of one cycle at once, whatever is cancelled,
\* fails or is asked for meanwhile (cycle_execution_manager.py:163, "one cycle still
\* can't be queued or running twice").
OneRunPerCycle ==
  \A s \in Servers, i, j \in Ids :
    /\ at[s][i] \in {"claim", "run"} /\ at[s][j] \in {"claim", "run"}
    /\ cycle[i] = cycle[j]
    => i = j

\* No execution is started twice: not by two servers that both queued its row, not
\* by a server that restarts (run_queue.py:13).
StartsOnce == \A i \in Ids : started[i] <= 1

\* An accepted execution that nobody started, cancelled or failed is in the database:
\* a restart finds it (run_queue.py:8, "so a restart or deploy loses nothing that had
\* not started yet").
NothingLost == Durable => \A i \in accepted : i \in rows \/ started[i] > 0 \/ i \in refused

\* A client that sees an execution done can start its cycle again at once
\* (cycle_execution_manager.py:552).
DoneFrees == \A s \in Servers, i \in Ids : done[s][i] => active[s][cycle[i]] # i

\* A server remembers at most max_finished executions that are over.
RegistryBounded ==
  \A s \in Servers : Cardinality({i \in known[s] : done[s][i]}) <= MaxFinished

\* A run that was cancelled while it waited never starts (routes/cycles.py:305, "a
\* queued one never starts").
CancelledNeverStarts == [][\A i \in told : started'[i] = started[i]]_vars

Steps(s, i) ==
  \/ AddRow(s, i) \/ AddFail(s, i) \/ Put(s, i)
  \/ Claim(s, i) \/ ClaimLost(s, i) \/ ClaimFail(s, i) \/ RunEnd(s, i)
  \/ FinishFree(s, i) \/ FinishMark(s, i)
Cancelling(s, i) == CancelClaim(s, i) \/ CancelFree(s, i) \/ CancelMark(s, i)

\* Threads are scheduled and runs end, by themselves, by their timeouts or by a stop.
Fairness ==
  \A s \in Servers :
    /\ WF_vars(Pick(s))
    /\ \A i \in Ids : WF_vars(Steps(s, i)) /\ WF_vars(Cancelling(s, i))

FairSpec == Spec /\ Fairness

\* Whatever waits in a server's queue gets its turn.
EveryJobRuns ==
  \A s \in Servers, i \in Ids : at[s][i] = "queued" ~> at[s][i] \in {"over", "none"}

\* No cycle stays marked busy by an execution that is over (the comment at
\* cycle_execution_manager.py:339).
CycleFreed ==
  \A s \in Servers, c \in Cycles, i \in Ids : active[s][c] = i ~> active[s][c] # i
=============================================================================
