--------------------------- MODULE RunnerService ---------------------------
(* Stages that run in containers: the service that starts them, with a bounded *)
(* number of slots (engine/backends/runner_service.py), and the process of a   *)
(* stage as the executor sees it (engine/backends/container.py).               *)
(*                                                                             *)
(* A stage has a connection: the service's handler thread sends output,        *)
(* heartbeats and at last the exit code over it; a client that goes away       *)
(* closes it. Signals come by another request and name the container. Docker   *)
(* is outside: a container is created some time after `docker run` was         *)
(* started, and a signal before that goes nowhere.                             *)
EXTENDS Integers, FiniteSets

CONSTANTS Stages,
          MaxRuns,     \* TESTO_RUNNER_MAX_RUNS
          Endless,     \* the stages that do not end by themselves
          Stubborn,    \* the stages that ignore SIGTERM
          MaxCrashes   \* bound on the crashes of the service

VARIABLES handler,    \* stage -> its thread: none, wait, start, stream, reap, leave, over
          container,  \* stage -> "none", "creating", "up", "ended" or "removed"
          active,     \* names a signal finds
          slots,      \* what is left of the semaphore
          service,    \* "up" or "down"
          client,     \* stage -> its executor: new, on, term, grace, kill, done
          open,       \* stages whose connection is open
          sent,       \* stages whose exit code is on the connection
          code,       \* stage -> "none", "exit" (the stage's own), "lost" or "failed" (125)
          killed,     \* stages that a signal stopped (history)
          crashes

serviceVars == <<handler, active, slots, service>>
clientVars == <<client, code>>
vars == <<serviceVars, clientVars, container, open, sent, killed, crashes>>

Init ==
  /\ handler = [r \in Stages |-> "none"] /\ container = [r \in Stages |-> "none"]
  /\ active = {} /\ slots = MaxRuns /\ service = "up"
  /\ client = [r \in Stages |-> "new"] /\ code = [r \in Stages |-> "none"]
  /\ open = {} /\ sent = {} /\ killed = {} /\ crashes = 0

Thread(r, place) == handler' = [handler EXCEPT ![r] = place]

Becomes(r, what) == container' = [container EXCEPT ![r] = what]

-----------------------------------------------------------------------------
(* The handler of a stage. The answer names the run before there is a slot.    *)
Post(r) ==
  /\ client[r] = "new"
  /\ IF service = "up"
     THEN /\ client' = [client EXCEPT ![r] = "on"] /\ Thread(r, "wait")
          /\ open' = open \cup {r} /\ UNCHANGED code
     ELSE /\ client' = [client EXCEPT ![r] = "done"] /\ code' = [code EXCEPT ![r] = "failed"]
          /\ UNCHANGED <<handler, open>>
  /\ UNCHANGED <<active, slots, service, container, sent, killed, crashes>>

TakeSlot(r) ==
  /\ handler[r] = "wait" /\ slots > 0 /\ Thread(r, "start")
  /\ slots' = slots - 1 /\ active' = active \cup {r}
  /\ UNCHANGED <<service, clientVars, container, open, sent, killed, crashes>>

\* `docker run` is started, or cannot be (exit code 125).
StartDocker(r) ==
  /\ handler[r] = "start"
  /\ \/ Thread(r, "stream") /\ Becomes(r, "creating") /\ UNCHANGED sent
     \/ Thread(r, "leave") /\ sent' = sent \cup ({r} \cap open) /\ UNCHANGED container
  /\ UNCHANGED <<active, slots, service, clientVars, open, killed, crashes>>

\* What a signal does to the containers.
Signal(r, name) ==
  IF container[r] = "up" /\ (name = "KILL" \/ r \notin Stubborn)
  THEN Becomes(r, "ended") /\ killed' = killed \cup {r}
  ELSE UNCHANGED <<container, killed>>

\* Mistake: the docker client is left to itself.
NoticeOnly(r) ==
  /\ handler[r] = "stream" /\ r \notin open
  /\ Thread(r, "leave")
  /\ UNCHANGED <<active, slots, service, clientVars, container, open, sent, killed, crashes>>

\* The connection is closed, or a frame cannot be written: the container is killed.
Notice(r) ==
  /\ handler[r] = "stream" /\ r \notin open
  /\ Thread(r, "reap") /\ Signal(r, "KILL")
  /\ UNCHANGED <<active, slots, service, clientVars, open, sent, crashes>>

\* Mistake: the output may end before the container does.
ExitAtEof(r) ==
  /\ handler[r] = "stream" /\ container[r] # "creating"
  /\ IF r \in open THEN Thread(r, "leave") /\ sent' = sent \cup {r}
     ELSE Thread(r, "reap") /\ UNCHANGED sent
  /\ UNCHANGED <<active, slots, service, clientVars, container, open, killed, crashes>>

\* The output ends; the last frame is the exit code.
Exit(r) ==
  /\ handler[r] = "stream" /\ container[r] \in {"ended", "removed"}
  /\ IF r \in open THEN Thread(r, "leave") /\ sent' = sent \cup {r}
     ELSE Thread(r, "reap") /\ UNCHANGED sent
  /\ UNCHANGED <<active, slots, service, clientVars, container, open, killed, crashes>>

Reap(r) ==
  /\ handler[r] = "reap" /\ container[r] \in {"ended", "removed"} /\ Thread(r, "leave")
  /\ UNCHANGED <<active, slots, service, clientVars, container, open, sent, killed, crashes>>

\* Mistake: the name stays known.
LeaveNamed(r) ==
  /\ handler[r] = "leave" /\ Thread(r, "over")
  /\ slots' = slots + 1
  /\ UNCHANGED <<active, service, clientVars, container, open, sent, killed, crashes>>

\* The name is forgotten, the slot given back.
Leave(r) ==
  /\ handler[r] = "leave" /\ Thread(r, "over")
  /\ slots' = slots + 1 /\ active' = active \ {r}
  /\ UNCHANGED <<service, clientVars, container, open, sent, killed, crashes>>

-----------------------------------------------------------------------------
(* Docker                                                                      *)
Created(r) ==
  /\ container[r] = "creating" /\ Becomes(r, "up")
  /\ UNCHANGED <<serviceVars, clientVars, open, sent, killed, crashes>>

Ends(r) ==
  /\ container[r] = "up" /\ r \notin Endless /\ Becomes(r, "ended")
  /\ UNCHANGED <<serviceVars, clientVars, open, sent, killed, crashes>>

-----------------------------------------------------------------------------
(* The client: its reader waits for frames, its stage may be stopped.          *)
Live(r) == client[r] \notin {"new", "done"}

Finish(r, result) ==
  /\ client' = [client EXCEPT ![r] = "done"]
  /\ code' = [code EXCEPT ![r] = result]
  /\ open' = open \ {r}

ReadExit(r) ==
  /\ Live(r) /\ r \in sent /\ r \in open
  /\ Finish(r, IF container[r] = "none" THEN "failed" ELSE "exit")
  /\ UNCHANGED <<serviceVars, container, sent, killed, crashes>>

\* Mistake: the clock starts with the first frame.
IdleTimeoutLate(r) ==
  /\ Live(r) /\ handler[r] = "wait" /\ r \in active
  /\ Finish(r, "lost")
  /\ UNCHANGED <<serviceVars, container, sent, killed, crashes>>

\* 90 s without a frame: only a stage that waits for a slot sends none.
IdleTimeout(r) ==
  /\ Live(r) /\ handler[r] = "wait"
  /\ Finish(r, "lost")
  /\ UNCHANGED <<serviceVars, container, sent, killed, crashes>>

\* The connection breaks, or the service is not there any more.
Lost(r) ==
  /\ Live(r) /\ Finish(r, "lost")
  /\ UNCHANGED <<serviceVars, container, sent, killed, crashes>>

\* The stage exceeds its timeout, or its run is stopped: SIGTERM, then SIGKILL.
Stop(r) ==
  /\ client[r] = "on" /\ client' = [client EXCEPT ![r] = "term"]
  /\ UNCHANGED <<serviceVars, code, container, open, sent, killed, crashes>>

\* A signal by name; 404 when the name is not active is not told from success.
Delete(r, name) ==
  IF service = "up" /\ r \in active THEN Signal(r, name) ELSE UNCHANGED <<container, killed>>

\* Mistake: the second signal is SIGTERM as well.
TermTwice(r) ==
  \/ /\ client[r] = "term" /\ client' = [client EXCEPT ![r] = "grace"]
     /\ Delete(r, "TERM")
     /\ UNCHANGED <<serviceVars, code, open, sent, crashes>>
  \/ /\ client[r] = "grace" /\ client' = [client EXCEPT ![r] = "kill"]
     /\ Delete(r, "TERM")
     /\ UNCHANGED <<serviceVars, code, open, sent, crashes>>

Terminate(r) ==
  \/ /\ client[r] = "term" /\ client' = [client EXCEPT ![r] = "grace"]
     /\ Delete(r, "TERM")
     /\ UNCHANGED <<serviceVars, code, open, sent, crashes>>
  \/ /\ client[r] = "grace" /\ client' = [client EXCEPT ![r] = "kill"]
     /\ Delete(r, "KILL")
     /\ UNCHANGED <<serviceVars, code, open, sent, crashes>>

-----------------------------------------------------------------------------
(* The service dies, and its docker clients with it; containers stay.          *)
Crash ==
  /\ service # "down" /\ service' = "down"
  /\ crashes < MaxCrashes /\ crashes' = crashes + 1
  /\ handler' = [r \in Stages |-> IF handler[r] = "none" THEN "none" ELSE "over"]
  /\ open' = {} /\ sent' = {} /\ active' = {} /\ slots' = MaxRuns
  /\ \E late \in SUBSET {r \in Stages : container[r] = "creating"} :
       container' = [r \in Stages |-> CASE r \in late -> "up"
                                        [] container[r] = "creating" -> "removed"
                                        [] OTHER -> container[r]]
  /\ UNCHANGED <<clientVars, killed>>

\* Mistake: only containers that have stopped are removed.
RestartKeeping ==
  /\ service = "down" /\ service' = "up"
  /\ container' = [r \in Stages |-> IF container[r] = "ended" THEN "removed" ELSE container[r]]
  /\ UNCHANGED <<handler, active, slots, clientVars, open, sent, killed, crashes>>

\* remove_leftovers(), before the first request is served. Docker is taken to answer then:
\* when it does not, the code goes on and the containers stay.
Restart ==
  /\ service = "down" /\ service' = "up"
  /\ container' = [r \in Stages |-> IF container[r] = "none" THEN "none" ELSE "removed"]
  /\ UNCHANGED <<handler, active, slots, clientVars, open, sent, killed, crashes>>

Handle(r) ==
  \/ TakeSlot(r) \/ StartDocker(r) \/ Notice(r) \/ Exit(r) \/ Reap(r) \/ Leave(r)

Next ==
  \/ \E r \in Stages :
       \/ Post(r) \/ Handle(r) \/ Created(r) \/ Ends(r)
       \/ ReadExit(r) \/ IdleTimeout(r) \/ Lost(r) \/ Stop(r) \/ Terminate(r)
  \/ Crash \/ Restart

Spec == Init /\ [][Next]_vars

\* Threads are scheduled, Docker creates what it was asked for, a broken connection
\* is seen, and a service that died is started again (restart: unless-stopped in
\* deploy/server/docker-compose.runner.yml). Nobody has to stop a stage.
Fairness ==
  /\ WF_vars(Restart)
  /\ \A r \in Stages :
       /\ WF_vars(Handle(r)) /\ WF_vars(Created(r)) /\ WF_vars(Ends(r))
       /\ WF_vars(ReadExit(r)) /\ WF_vars(IdleTimeout(r)) /\ WF_vars(Terminate(r))
       /\ WF_vars(Lost(r) /\ r \notin open)

FairSpec == Spec /\ Fairness

-----------------------------------------------------------------------------
Holding == {r \in Stages : handler[r] \in {"start", "stream", "reap", "leave"}}

TypeOK ==
  /\ handler \in [Stages -> {"none", "wait", "start", "stream", "reap", "leave", "over"}]
  /\ container \in [Stages -> {"none", "creating", "up", "ended", "removed"}]
  /\ active = Holding /\ slots = MaxRuns - Cardinality(Holding) /\ slots >= 0
  /\ service \in {"up", "down"}
  /\ client \in [Stages -> {"new", "on", "term", "grace", "kill", "done"}]
  /\ code \in [Stages -> {"none", "exit", "lost", "failed"}]
  /\ \A r \in Stages : client[r] = "done" <=> code[r] # "none"
  /\ open \subseteq Stages /\ sent \subseteq Stages /\ killed \subseteq Stages

Running == {r \in Stages : container[r] \in {"creating", "up"}}

(* There are never more stage containers than slots: not after a crash of the  *)
(* service, not when a client goes away while Docker still creates its         *)
(* container (runner_service.py lines 326-334, 384-403).                       *)
AtMostMaxRuns == Cardinality(Running) <= MaxRuns

(* A stage that has its own exit code is over: its container does not run on   *)
(* behind the next stage (container.py lines 140-145).                         *)
EndedForGood == \A r \in Stages : code[r] = "exit" => r \notin Running

(* A container whose client is gone is stopped, if it was there when the       *)
(* handler looked (runner_service.py lines 354-377).                           *)
GoneIsStopped ==
  \A r \in Stages :
    handler[r] = "stream" /\ container[r] = "up" /\ r \notin open ~> container[r] # "up"

(* A stage that is killed while its container runs ends, whatever it ignores,  *)
(* and gives its slot back.                                                    *)
KillEnds ==
  \A r \in Stages :
    client[r] = "grace" /\ container[r] = "up" ~> client[r] = "done" /\ r \notin active

(* Every stage gets an end: of its own, by the idle timeout of its client, or  *)
(* by a service that is gone; only a stage that runs for ever may not.         *)
StageEnds == \A r \in Stages \ Endless : client[r] = "on" ~> client[r] = "done"
=============================================================================
