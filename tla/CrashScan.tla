------------------------------ MODULE CrashScan ------------------------------
(* The scanner that rides on the output of a stage and names a crash, fed one  *)
(* chunk after the other (CrashScanner in engine/crash_signatures.py). A text  *)
(* is a sequence of cells: a line that begins with "own" is QASight's, the     *)
(* cells "c" "x" side by side tell of a crash, "s" "x" of a stack overflow.    *)
EXTENDS Naturals, SequencesExt

CONSTANTS
  MaxText,      \* bound: cells of the output
  CarryMax      \* cells kept of a line that has not ended

VARIABLES
  text,         \* fed so far
  carry, found, \* the scanner's; found is <<>> or <<kind, line>>
  over          \* finish() was called

vars == <<text, carry, found, over>>

Cells == {"own", "c", "s", "x", "nl"}

Init == text = <<>> /\ carry = <<>> /\ found = <<>> /\ over = FALSE

Holds(line, a) == \E i \in 1 .. Len(line) - 1 : line[i] = a /\ line[i + 1] = "x"

\* _scan and _match_line: nothing, or what the line tells.
Match(line) ==
  IF line # <<>> /\ line[1] = "own" THEN <<>>
  ELSE IF Holds(line, "s") THEN <<"overflow", line>>
  ELSE IF Holds(line, "c") THEN <<"crash", line>> ELSE <<>>

\* _prefer: the first one, but for an overflow after a crash.
Prefer(current, new) ==
  IF new = <<>> THEN current
  ELSE IF current = <<>> \/ (current[1] = "crash" /\ new[1] = "overflow") THEN new
  ELSE current

Done(f) == f # <<>> /\ f[1] = "overflow"

\* The lines of a text that have ended, and the rest.
Ends(t) == SelectSeq([i \in DOMAIN t |-> i], LAMBDA i : t[i] = "nl")
Lines(t) ==
  LET e == Ends(t)
  IN [k \in DOMAIN e |-> SubSeq(t, (IF k = 1 THEN 0 ELSE e[k - 1]) + 1, e[k] - 1)]
Rest(t) == SubSeq(t, (IF Ends(t) = <<>> THEN 0 ELSE Last(Ends(t))) + 1, Len(t))

ScanAll(f, lines) == FoldLeft(LAMBDA g, line : IF Done(g) THEN g ELSE Prefer(g, Match(line)), f, lines)

LastCells(t, n) == SubSeq(t, (IF Len(t) > n THEN Len(t) - n ELSE 0) + 1, Len(t))

\* Mistake: a chunk is taken to end with a line.
FeedNoCarry(chunk) ==
  /\ ~over /\ Len(text) + Len(chunk) <= MaxText /\ text' = text \o chunk
  /\ IF Done(found) THEN UNCHANGED <<carry, found>>
     ELSE found' = ScanAll(found, Append(Lines(chunk), Rest(chunk))) /\ carry' = <<>>
  /\ UNCHANGED over

Feed(chunk) ==
  /\ ~over /\ Len(text) + Len(chunk) <= MaxText /\ text' = text \o chunk
  /\ IF Done(found) THEN UNCHANGED <<carry, found>>
     ELSE LET data == carry \o chunk
          IN  /\ found' = ScanAll(found, Lines(data))
              /\ carry' = IF Done(found') THEN <<>> ELSE LastCells(Rest(data), CarryMax)
  /\ UNCHANGED over

Finish ==
  /\ ~over /\ over' = TRUE /\ carry' = <<>>
  /\ found' = IF Done(found) THEN found ELSE Prefer(found, Match(carry))
  /\ UNCHANGED text

Next == Finish \/ \E n \in 1 .. MaxText : \E chunk \in [1 .. n -> Cells] : Feed(chunk)

Spec == Init /\ [][Next]_vars

-----------------------------------------------------------------------------
\* The definition: the first line that tells of an overflow, else of a crash.
Told(t) ==
  LET told == SelectSeq([k \in DOMAIN Append(Lines(t), Rest(t)) |->
                          Match(Append(Lines(t), Rest(t))[k])], LAMBDA m : m # <<>>)
      overflows == SelectSeq(told, LAMBDA m : m[1] = "overflow")
  IN  IF overflows # <<>> THEN overflows[1] ELSE IF told # <<>> THEN told[1] ELSE <<>>

(* However the output is cut into chunks, the scanner finds what the whole of  *)
(* it tells, as long as no line is longer than what is kept of one.            *)
CutNoMatter ==
  over /\ (\A k \in DOMAIN Lines(text) : Len(Lines(text)[k]) <= CarryMax) /\ Len(Rest(text)) <= CarryMax
  => found = Told(text)

(* The carry is the end of the line that has not ended.                        *)
CarryFits == Len(carry) <= CarryMax /\ (carry # <<>> => IsSuffix(carry, Rest(text)))
=============================================================================
