---------------------------- MODULE EventStream ----------------------------
(***************************************************************************)
(* The events file of a cycle and its viewers.  Every run of the cycle     *)
(* appends its events to one file, artifacts/<cycle>/events.ndjson; the    *)
(* dashboard server samples the size of the file when one of its runs      *)
(* opens it and when the run is over, and a viewer sends what lies between *)
(* (qasight_api/execution_events.py, with _run_in_scope() and _finish() of *)
(* qasight_api/cycle_execution_manager.py).  Runs of a CLI on the same     *)
(* artifacts folder write the same file; the lock of the cycle keeps their *)
(* stages apart, not the offsets.                                          *)
(*                                                                         *)
(* The file is a sequence of cells, a byte offset counts cells. The line   *)
(* of event n of run r is a head cell, a cell for a secret if it has one,  *)
(* and a cell with the newline; a masked secret takes MaskSize cells.      *)
(* place[r] is where a run is:                                             *)
(*   none    not asked for                                                 *)
(*   load    its worker loads the configuration                            *)
(*   wait    it knows the file; its trigger, then the lock of the cycle    *)
(*   run     it holds the lock and writes                                  *)
(*   half    the same, a line is written but for its end                   *)
(*   rewrite it holds the lock, redaction has emptied the file             *)
(*   report  redaction is done, reporters run                              *)
(*   raised  an exception left the run, the error event is to be written   *)
(*   end     about to sample where its events end                          *)
(*   free    about to free the cycle                                       *)
(*   mark    about to set done                                             *)
(*   over    done                                                          *)
(* view[v] is where viewer v is with the run it watches:                   *)
(*   off     it has not asked for a run                                    *)
(*   look    polls until the run knows its file                            *)
(*   tail    about to ask whether the run is done                          *)
(*   read    it is not: about to read what there is                        *)
(*   drain   it is: about to read up to its end                            *)
(*   cut     its state was evicted: about to read up to offset 0           *)
(*   closed  the stream ended after drain                                  *)
(*   gone    the stream ended without the run's end                        *)
(***************************************************************************)
EXTENDS Integers, Sequences, FiniteSets, FiniteSetsExt

CONSTANTS
  MaxRuns,     \* bound: runs of the cycle, started in the order 1, 2, ...
  Outside,     \* those of them that are the CLI's
  Long,        \* runs with lines that reach the file in two pieces
  Viewers,     \* clients of the events route; each asks for one stream
  MaxEvents,   \* bound: events of a run, an error event not counted
  Secrets,     \* <<run, n>>: stage events with something that redaction masks
  MaskSize,    \* cells of a mask; a secret has one
  Evicts       \* states of finished runs are evicted

ASSUME EventStreamAssumption ==
  /\ MaxRuns \in Nat
  /\ MaxEvents \in Nat \ {0}
  /\ MaskSize \in Nat
  /\ Evicts \in BOOLEAN

Runs == 1 .. MaxRuns
Served == Runs \ Outside
Events == Runs \X (1 .. MaxEvents + 1)

VARIABLES
  file,      \* events.ndjson
  holder,    \* run that holds the lock of the cycle, 0 for none
  place,     \* run -> see above
  written,   \* run -> number of events written
  startAt,   \* run -> state.events_start_offset_bytes
  endAt,     \* run -> state.events_end_offset_bytes
  opened,    \* runs whose state.events_path is set
  known,     \* server runs in _states
  clean,     \* what redaction is to write back
  view,      \* viewer -> see above
  watched,   \* viewer -> the run whose stream it asked for, 0 for none yet
  offset,    \* viewer -> where it reads next
  sent       \* viewer -> events it was sent, as <<run, n>>

runVars == <<holder, place, written, startAt, endAt, opened, known>>
viewVars == <<view, watched, offset, sent>>
vars == <<file, clean, runVars, viewVars>>

Cells == [event : Events, part : {"head", "secret", "mask", "newline"}]

TypeOK ==
  /\ file \in Seq(Cells)
  /\ clean \in Seq(Cells)
  /\ holder \in 0 .. MaxRuns
  /\ place \in [Runs -> {"none", "load", "wait", "run", "half", "rewrite", "report", "raised",
                         "end", "free", "mark", "over"}]
  /\ written \in [Runs -> 0 .. MaxEvents + 1]
  /\ startAt \in [Runs -> Nat]
  /\ endAt \in [Runs -> Nat]
  /\ opened \subseteq Served
  /\ known \subseteq Served
  /\ view \in [Viewers -> {"off", "look", "tail", "read", "drain", "cut", "closed", "gone"}]
  /\ watched \in [Viewers -> Served \union {0}]
  /\ offset \in [Viewers -> Nat]
  /\ sent \in [Viewers -> Seq(Events)]

Init ==
  /\ file = <<>>
  /\ clean = <<>>
  /\ holder = 0
  /\ place = [r \in Runs |-> "none"]
  /\ written = [r \in Runs |-> 0]
  /\ startAt = [r \in Runs |-> 0]
  /\ endAt = [r \in Runs |-> 0]
  /\ opened = {}
  /\ known = {}
  /\ view = [v \in Viewers |-> "off"]
  /\ watched = [v \in Viewers |-> 0]
  /\ offset = [v \in Viewers |-> 0]
  /\ sent = [v \in Viewers |-> <<>>]

-----------------------------------------------------------------------------
(* Lines of the file                                                       *)

Cell(e, part) == [event |-> e, part |-> part]

Body(e) == <<Cell(e, "head")>> \o (IF e \in Secrets THEN <<Cell(e, "secret")>> ELSE <<>>)

\* A line of the server itself: it is short and has no secret.
Line(e) == <<Cell(e, "head"), Cell(e, "newline")>>

\* Cells that the first n cells take when they are redacted.
Size(cells, n) == n + (MaskSize - 1) * Cardinality({k \in 1 .. n : cells[k].part = "secret"})

\* redact_text(): a mask in the place of every secret. Cell k makes those from
\* Size(cells, k - 1) + 1 to Size(cells, k).
Redacted(cells) ==
  [n \in 1 .. Size(cells, Len(cells)) |->
    LET k == CHOOSE k \in DOMAIN cells : Size(cells, k - 1) < n /\ n <= Size(cells, k)
    IN IF cells[k].part = "secret" THEN Cell(cells[k].event, "mask") ELSE cells[k]]

\* redact_text() changes the text.
Secret(cells) == \E k \in DOMAIN cells : cells[k].part = "secret"

\* A chunk is what is read of the file after an offset. The line that ends at k is whole
\* when it begins in the chunk and nothing else was written into it; part of a line is no
\* JSON, nor are two in one.
Whole(from, k) ==
  /\ file[k].part = "newline"
  /\ \E j \in from + 1 .. k - 1 :
       /\ file[j] = Cell(file[k].event, "head")
       /\ \A i \in j .. k : file[i].event = file[k].event
       /\ j > from + 1 => file[j - 1].part = "newline"

\* The events of a chunk that parse, in order.
Parsed(from, to) ==
  LET ends == {k \in from + 1 .. to : Whole(from, k)}
  IN [n \in 1 .. Cardinality(ends) |->
       file[CHOOSE k \in ends : Cardinality({j \in ends : j <= k}) = n].event]

\* Mistake: a line that is still being written is consumed too.
ConsumedAll(from) == Max({from, Len(file)})

\* chunk.rfind(newline) + 1, as an offset in the file
Consumed(from) == Max({from} \union {k \in from + 1 .. Len(file) : file[k].part = "newline"})

-----------------------------------------------------------------------------
(* Runs of the server                                                      *)

Goto(r, p) == place' = [place EXCEPT ![r] = p]

Appended(r) ==
  /\ file' = file \o Line(<<r, written[r] + 1>>)
  /\ written' = [written EXCEPT ![r] = @ + 1]

\* The cycle is free and a request or the queue starts the next run.
Start(r) ==
  /\ r \in Served
  /\ place[r] = "none"
  /\ \A s \in Runs : s < r => place[s] # "none"
  /\ \A s \in Served : place[s] \in {"none", "mark", "over"}
  /\ known' = known \union {r}
  /\ Goto(r, "load")
  /\ UNCHANGED <<file, clean, holder, written, startAt, endAt, opened, viewVars>>

\* The configuration does not load, or a cancel came first: there is no events file.
FailEarly(r) ==
  /\ r \in Served
  /\ place[r] = "load"
  /\ Goto(r, "free")
  /\ UNCHANGED <<file, clean, holder, written, startAt, endAt, opened, known, viewVars>>

\* Mistake: the file is taken to be this run's alone.
OpenAtZero(r) ==
  /\ r \in Served
  /\ place[r] = "load"
  /\ opened' = opened \union {r}
  /\ Goto(r, "wait")
  /\ UNCHANGED <<file, clean, holder, written, startAt, endAt, known, viewVars>>

Open(r) ==
  /\ r \in Served
  /\ place[r] = "load"
  /\ startAt' = [startAt EXCEPT ![r] = Len(file)]
  /\ opened' = opened \union {r}
  /\ Goto(r, "wait")
  /\ UNCHANGED <<file, clean, holder, written, endAt, known, viewVars>>

\* Mistake: the verdict is written again while the run waits for the lock.
TriggerAgain(r) ==
  /\ r \in Served
  /\ place[r] = "wait"
  /\ Appended(r)
  /\ UNCHANGED <<clean, holder, place, startAt, endAt, opened, known, viewVars>>

\* The trigger verdict, in CI mode.
Trigger(r) ==
  /\ r \in Served
  /\ place[r] = "wait" /\ written[r] = 0
  /\ Appended(r)
  /\ UNCHANGED <<clean, holder, place, startAt, endAt, opened, known, viewVars>>

\* The trigger rests: the run is only a plan_finished event.
Rest(r) ==
  /\ r \in Served
  /\ place[r] = "wait" /\ written[r] < MaxEvents
  /\ Appended(r)
  /\ Goto(r, "end")
  /\ UNCHANGED <<clean, holder, startAt, endAt, opened, known, viewVars>>

Lock(r) ==
  /\ holder = 0
  /\ \/ place[r] = "wait"
     \/ /\ r \in Outside
        /\ place[r] = "none"
        /\ \A s \in Runs : s < r => place[s] # "none"
  /\ holder' = r
  /\ Goto(r, "run")
  /\ UNCHANGED <<file, clean, written, startAt, endAt, opened, known, viewVars>>

\* The recorder writes an event. A long line reaches the file in pieces.
WriteHalf(r) ==
  /\ r \in Long
  /\ place[r] = "run" /\ written[r] < MaxEvents
  /\ file' = file \o Body(<<r, written[r] + 1>>)
  /\ Goto(r, "half")
  /\ UNCHANGED <<clean, holder, written, startAt, endAt, opened, known, viewVars>>

WriteRest(r) ==
  /\ place[r] = "half"
  /\ file' = Append(file, Cell(<<r, written[r] + 1>>, "newline"))
  /\ written' = [written EXCEPT ![r] = @ + 1]
  /\ Goto(r, "run")
  /\ UNCHANGED <<clean, holder, startAt, endAt, opened, known, viewVars>>

\* A short line reaches it in one piece.
WriteLine(r) ==
  /\ r \notin Long
  /\ place[r] = "run" /\ written[r] < MaxEvents
  /\ file' = file \o Append(Body(<<r, written[r] + 1>>), Cell(<<r, written[r] + 1>>, "newline"))
  /\ written' = [written EXCEPT ![r] = @ + 1]
  /\ UNCHANGED <<clean, holder, place, startAt, endAt, opened, known, viewVars>>

\* redact_run_artifacts() reads the file and, when there is something to hide, opens it
\* for writing, which empties it.
Redact(r) ==
  /\ place[r] = "run"
  /\ Secret(file)
  /\ clean' = Redacted(file)
  /\ file' = <<>>
  /\ Goto(r, "rewrite")
  /\ UNCHANGED <<holder, written, startAt, endAt, opened, known, viewVars>>

Rewrite(r) ==
  /\ place[r] = "rewrite"
  /\ file' = clean \o SubSeq(file, Len(clean) + 1, Len(file))
  /\ clean' = <<>>
  /\ Goto(r, "report")
  /\ UNCHANGED <<holder, written, startAt, endAt, opened, known, viewVars>>

\* Redaction is done or had nothing to do: the run is recorded and reported.
Recording(r) == place[r] = "report" \/ (place[r] = "run" /\ ~Secret(file))

\* The selection, the history or a reporter raised; the lock is free again. The stages
\* do not raise (orchestrator.py:326).
Raise(r) ==
  /\ r \in Served
  /\ place[r] = "wait" \/ Recording(r)
  /\ holder' = IF holder = r THEN 0 ELSE holder
  /\ Goto(r, "raised")
  /\ UNCHANGED <<file, clean, written, startAt, endAt, opened, known, viewVars>>

Unlock(r) ==
  /\ Recording(r)
  /\ holder' = 0
  /\ Goto(r, IF r \in Served THEN "end" ELSE "over")
  /\ UNCHANGED <<file, clean, written, startAt, endAt, opened, known, viewVars>>

ErrorEvent(r) ==
  /\ place[r] = "raised"
  /\ Appended(r)
  /\ Goto(r, "end")
  /\ UNCHANGED <<clean, holder, startAt, endAt, opened, known, viewVars>>

\* Mistake: the value for a file that cannot be read is always taken.
SampleEndStale(r) ==
  /\ place[r] = "end"
  /\ endAt' = [endAt EXCEPT ![r] = startAt[r]]
  /\ Goto(r, "free")
  /\ UNCHANGED <<file, clean, holder, written, startAt, opened, known, viewVars>>

\* _finish() samples the size of the file,
SampleEnd(r) ==
  /\ place[r] = "end"
  /\ endAt' = [endAt EXCEPT ![r] = Len(file)]
  /\ Goto(r, "free")
  /\ UNCHANGED <<file, clean, holder, written, startAt, opened, known, viewVars>>

\* then frees the cycle,
Free(r) ==
  /\ place[r] = "free"
  /\ Goto(r, "mark")
  /\ UNCHANGED <<file, clean, holder, written, startAt, endAt, opened, known, viewVars>>

\* then says so.
MarkDone(r) ==
  /\ place[r] = "mark"
  /\ Goto(r, "over")
  /\ UNCHANGED <<file, clean, holder, written, startAt, endAt, opened, known, viewVars>>

Done(r) == place[r] = "over"

\* max_finished runs of other cycles finished after this one.
Evict(r) ==
  /\ Evicts
  /\ r \in known /\ place[r] \in {"mark", "over"}
  /\ known' = known \ {r}
  /\ UNCHANGED <<file, clean, holder, place, written, startAt, endAt, opened, viewVars>>

-----------------------------------------------------------------------------
(* A viewer v: iter_execution_sse() and iter_sse_from_ndjson_file()        *)

LookTo(v, step) == view' = [view EXCEPT ![v] = step]

\* The events route knows the execution.
Attach(v, r) ==
  /\ view[v] = "off"
  /\ r \in known
  /\ watched' = [watched EXCEPT ![v] = r]
  /\ LookTo(v, "look")
  /\ UNCHANGED <<file, clean, runVars, offset, sent>>

\* The file of the run is known: tail it from where the run began.
Follow(v) ==
  /\ view[v] = "look"
  /\ watched[v] \in known \intersect opened
  /\ offset' = [offset EXCEPT ![v] = startAt[watched[v]]]
  /\ LookTo(v, "tail")
  /\ UNCHANGED <<file, clean, runVars, watched, sent>>

\* Mistake: a run that is over without an events file is waited for.
GiveUpEvicted(v) ==
  /\ view[v] = "look"
  /\ watched[v] \notin known
  /\ LookTo(v, "gone")
  /\ UNCHANGED <<file, clean, runVars, watched, offset, sent>>

\* Evicted, or over without an events file: nothing to tail.
GiveUp(v) ==
  /\ view[v] = "look"
  /\ watched[v] \notin known \/ (watched[v] \notin opened /\ Done(watched[v]))
  /\ LookTo(v, "gone")
  /\ UNCHANGED <<file, clean, runVars, watched, offset, sent>>

\* end_offset()
AskEnd(v) ==
  /\ view[v] = "tail"
  /\ LookTo(v, IF watched[v] \notin known THEN "cut" ELSE IF Done(watched[v]) THEN "drain" ELSE "read")
  /\ UNCHANGED <<file, clean, runVars, watched, offset, sent>>

Send(v, to) == sent' = [sent EXCEPT ![v] = @ \o Parsed(offset[v], to)]

\* The run is live: up to the last line that is whole.
Read(v) ==
  /\ view[v] = "read"
  /\ Send(v, Consumed(offset[v]))
  /\ offset' = [offset EXCEPT ![v] = Consumed(@)]
  /\ LookTo(v, "tail")
  /\ UNCHANGED <<file, clean, runVars, watched>>

\* The run is over: up to its end, as far as the file goes, and that is all.
Drain(v) ==
  /\ view[v] = "drain"
  /\ Send(v, Min({endAt[watched[v]], Len(file)}))
  /\ LookTo(v, "closed")
  /\ UNCHANGED <<file, clean, runVars, watched, offset>>

\* Evicted: the end is 0, nothing more is read.
Cut(v) ==
  /\ view[v] = "cut"
  /\ LookTo(v, "gone")
  /\ UNCHANGED <<file, clean, runVars, watched, offset, sent>>

-----------------------------------------------------------------------------
Work(r) ==
  \/ FailEarly(r) \/ Open(r) \/ Trigger(r) \/ Rest(r)
  \/ WriteHalf(r) \/ WriteRest(r) \/ WriteLine(r)
  \/ Redact(r) \/ Rewrite(r) \/ Raise(r) \/ Unlock(r) \/ ErrorEvent(r)
  \/ SampleEnd(r) \/ Free(r) \/ MarkDone(r)
Poll(v) == Follow(v) \/ GiveUp(v) \/ AskEnd(v) \/ Read(v) \/ Drain(v) \/ Cut(v)

Next ==
  \/ \E r \in Runs : Start(r) \/ Lock(r) \/ Work(r) \/ Evict(r)
  \/ \E v \in Viewers : Poll(v) \/ \E r \in Served : Attach(v, r)

Spec == Init /\ [][Next]_vars

\* Runs end, a run that waits for the lock takes it when it is free, and a viewer that
\* stays connected goes on reading.
FairSpec ==
  /\ Spec
  /\ \A r \in Runs : WF_vars(Work(r) \/ (Lock(r) /\ place[r] = "wait"))
  /\ \A v \in Viewers : WF_vars(Poll(v))

-----------------------------------------------------------------------------
(* Properties                                                              *)

\* What a viewer has of the run it watches: where it is among what the viewer was sent.
Own(v) == {n \in DOMAIN sent[v] : sent[v][n][1] = watched[v]}

Feed == INSTANCE RunFeed WITH
  Runs <- Served,
  written <- [r \in Served |-> written[r]],
  over <- {r \in Served : Done(r)},
  seen <- [v \in Viewers |-> Cardinality(Own(v))],
  closed <- {v \in Viewers : view[v] = "closed"}

\* The stream of a run grows and ends as RunFeed says: it never takes an event back and
\* is not closed before the run is over and its last event was sent, whatever is
\* written to the file before, between or after.
FeedsTheRun == Feed!Spec

\* A viewer gets the run's own events without a gap, a repetition or a swap.
InOrder ==
  \A v \in Viewers : \A n \in Own(v) :
    sent[v][n] = <<watched[v], Cardinality(Own(v) \intersect (1 .. n))>>

Foreign(v, e) == e[1] \notin {watched[v]} \union Outside

\* No viewer is sent an event of another execution of the server, not of the run
\* before nor of the one that starts as soon as this one has freed the cycle
\* (cycle_execution_manager.py:543, "the next run appends to the same file, and streams
\* of this run must stop here").
NoOtherExecution == \A v \in Viewers : \A n \in DOMAIN sent[v] : ~Foreign(v, sent[v][n])

\* When a viewer is sent another execution's event all the same, it is of a run that
\* came later, and the run's own events have all been sent: an earlier run never shows
\* up, and nothing comes in between.
OthersOnlyAfter ==
  \A v \in Viewers : \A n \in DOMAIN sent[v] :
    Foreign(v, sent[v][n]) =>
      /\ sent[v][n][1] > watched[v]
      /\ \A k \in 1 .. written[watched[v]] : \E j \in 1 .. n : sent[v][j] = <<watched[v], k>>

\* A stream that ended at the end of its run has sent the run's last event
\* (execution_events.py:121, "Sample the end before reading: it is recorded after the
\* worker's last event, so this read is guaranteed to include that event").
LastEventSent ==
  \A v \in Viewers :
    LET r == watched[v] IN
    view[v] = "closed" /\ written[r] > 0 => \E n \in DOMAIN sent[v] : sent[v][n] = <<r, written[r]>>

\* Every stream ends: a viewer of a run that ends is not left polling.
StreamEnds == \A v \in Viewers : view[v] = "look" ~> view[v] \in {"closed", "gone"}
=============================================================================
