------------------------------ MODULE RunOutput ------------------------------
(* The output of a stage: its process writes to a pipe, a reader thread feeds  *)
(* every chunk to the LogBuffer (the log file, a bounded tail, a callback that *)
(* looks for a crash and forwards), and the executor, when the process is      *)
(* over, waits for the reader at most two seconds and reads the tail           *)
(* (engine/log_buffer.py, engine/executor.py). A process that the stage left   *)
(* behind may keep the pipe open and go on writing.                            *)
EXTENDS Naturals, SequencesExt

CONSTANTS
  Sizes,        \* per kind of chunk, its bytes
  Crashes,      \* the kinds that tell of a crash
  Capacity,     \* of the tail, in bytes
  MaxChunks     \* bound: chunks written

VARIABLES
  written,      \* all that the processes wrote
  unread,       \* of it, what is still in the pipe
  writers,      \* who holds the pipe open: "stage", "left"
  reader,       \* "read", "feed" or "tell" a chunk, or "ended"
  chunk,        \* the one the reader holds, or a sequence of none
  log, ring,    \* the file, the tail in memory
  closed,
  told,         \* the chunks the callback got
  found,        \* the scanner has seen a crash
  main,         \* the executor: "wait", "joined", "over"
  tail, verdict,\* what the stage's result says
  late          \* the executor did not wait for the reader's end (a ghost)

vars == <<written, unread, writers, reader, chunk, log, ring, closed, told, found, main, tail, verdict, late>>

Kinds == DOMAIN Sizes
Bytes(s) == FoldLeft(LAMBDA n, c : n + Sizes[c], 0, s)

Init ==
  /\ written = <<>> /\ unread = <<>> /\ writers = {"stage"}
  /\ reader = "read" /\ chunk = <<>>
  /\ log = <<>> /\ ring = <<>> /\ closed = FALSE /\ told = <<>> /\ found = FALSE
  /\ main = "wait" /\ tail = <<>> /\ verdict = FALSE /\ late = FALSE

Write(c) ==
  /\ writers # {} /\ Len(written) < MaxChunks
  /\ written' = Append(written, c) /\ unread' = Append(unread, c)
  /\ UNCHANGED <<writers, reader, chunk, log, ring, closed, told, found, main, tail, verdict, late>>

\* The stage is over; it may leave a process behind.
StageExits ==
  /\ "stage" \in writers /\ writers' \in {{}, {"left"}}
  /\ UNCHANGED <<written, unread, reader, chunk, log, ring, closed, told, found, main, tail, verdict, late>>

LeftExits ==
  /\ "left" \in writers /\ writers' = {}
  /\ UNCHANGED <<written, unread, reader, chunk, log, ring, closed, told, found, main, tail, verdict, late>>

-----------------------------------------------------------------------------
(* The reader thread.                                                          *)
Read ==
  /\ reader = "read" /\ unread # <<>>
  /\ chunk' = <<Head(unread)>> /\ unread' = Tail(unread) /\ reader' = "feed"
  /\ UNCHANGED <<written, writers, log, ring, closed, told, found, main, tail, verdict, late>>

ReadEof ==
  /\ reader = "read" /\ unread = <<>> /\ writers = {} /\ reader' = "ended"
  /\ UNCHANGED <<written, unread, writers, chunk, log, ring, closed, told, found, main, tail, verdict, late>>

\* Mistake: the newest chunk makes room.
TrimNewest(s) ==
  LET Fits(n) == Bytes(SubSeq(s, 1, n)) <= Capacity
  IN SubSeq(s, 1, CHOOSE n \in 0 .. Len(s) : Fits(n) /\ \A m \in n + 1 .. Len(s) : ~Fits(m))

\* The oldest chunks go until the rest fits.
Trim(s) ==
  LET Fits(n) == Bytes(SubSeq(s, n, Len(s))) <= Capacity
  IN SubSeq(s, CHOOSE n \in 1 .. Len(s) + 1 : Fits(n) /\ \A m \in 1 .. n - 1 : ~Fits(m), Len(s))

\* Under the lock. A chunk that comes after close() is dropped.
Feed ==
  /\ reader = "feed"
  /\ IF closed THEN reader' = "read" /\ chunk' = <<>> /\ UNCHANGED <<log, ring>>
     ELSE reader' = "tell" /\ log' = log \o chunk /\ ring' = Trim(ring \o chunk) /\ UNCHANGED chunk
  /\ UNCHANGED <<written, unread, writers, closed, told, found, main, tail, verdict, late>>

\* The callback, after the lock is free again.
Tell ==
  /\ reader = "tell" /\ reader' = "read" /\ chunk' = <<>>
  /\ told' = told \o chunk /\ found' = (found \/ chunk[1] \in Crashes)
  /\ UNCHANGED <<written, unread, writers, log, ring, closed, main, tail, verdict, late>>

-----------------------------------------------------------------------------
(* The executor. The reader has ended, or the two seconds are over.            *)
\* Mistake: it looks at the tail without waiting.
JoinNot(giveUp) ==
  /\ main = "wait" /\ "stage" \notin writers /\ giveUp
  /\ main' = "joined" /\ tail' = ring /\ late' = FALSE
  /\ UNCHANGED <<written, unread, writers, reader, chunk, log, ring, closed, told, found, verdict>>

Join(giveUp) ==
  /\ main = "wait" /\ "stage" \notin writers
  /\ giveUp = (reader # "ended")
  /\ main' = "joined" /\ tail' = ring /\ late' = giveUp
  /\ UNCHANGED <<written, unread, writers, reader, chunk, log, ring, closed, told, found, verdict>>

Close ==
  /\ main = "joined" /\ ~closed /\ closed' = TRUE
  /\ UNCHANGED <<written, unread, writers, reader, chunk, log, ring, told, found, main, tail, verdict, late>>

Judge ==
  /\ closed /\ main # "over" /\ main' = "over" /\ verdict' = found
  /\ UNCHANGED <<written, unread, writers, reader, chunk, log, ring, closed, told, found, tail, late>>

Next ==
  \/ \E c \in Kinds : Write(c)
  \/ StageExits \/ LeftExits \/ Read \/ ReadEof \/ Feed \/ Tell
  \/ (\E giveUp \in BOOLEAN : Join(giveUp)) \/ Close \/ Judge

Spec == Init /\ [][Next]_vars

-----------------------------------------------------------------------------
TypeOK ==
  /\ reader \in {"read", "feed", "tell", "ended"} /\ Len(chunk) <= 1
  /\ writers \subseteq {"stage", "left"} /\ main \in {"wait", "joined", "over"}
  /\ chunk = <<>> <=> reader \in {"read", "ended"}
  /\ Len(written) <= MaxChunks /\ ToSet(written) \subseteq Kinds

(* The log file is what was written, in order and with no gap; the callback is *)
(* at most one chunk behind it; the tail in memory is the end of the log, as   *)
(* much of it as fits.                                                         *)
LogInOrder ==
  /\ IsPrefix(log, written) /\ IsPrefix(told, log) /\ Len(log) <= Len(told) + 1
  /\ IsSuffix(ring, log) /\ Bytes(ring) <= Capacity
  /\ LET n == Len(log) - Len(ring) IN n > 0 => Bytes(ring) + Sizes[log[n]] > Capacity

(* The result of a stage whose output had ended knows all of it: the end in    *)
(* its tail, and a crash in its verdict. No result tells of a crash the log    *)
(* does not hold.                                                              *)
ResultKnowsAll ==
  /\ main = "over" /\ ~late => /\ log = written /\ IsSuffix(tail, written)
                              /\ verdict = (ToSet(written) \cap Crashes # {})
  /\ verdict => ToSet(log) \cap Crashes # {}

(* A log that was closed is not written to any more, and at most one chunk is  *)
(* forwarded after it.                                                         *)
ClosedStays == closed => log' = log /\ (told' # told => told' = log)
=============================================================================
