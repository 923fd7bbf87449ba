---------------------------- MODULE EventProofs ----------------------------
(***************************************************************************)
(* Proofs about the events file and its viewers, EventStream: the types;   *)
(* that a viewer gets the events of its run without a gap, a repetition or *)
(* a swap, and another execution's only after all of them; and that its    *)
(* stream is what RunFeed promises.                                        *)
(*                                                                         *)
(* A step changes what the file holds (Log) in one of four ways: it hides  *)
(* secrets where they are, or it adds a line, the first part of one, or    *)
(* its end (LogStep, proved of every action in LogSteps). What lines and   *)
(* viewers need is proved of those four, not of twenty-five actions.       *)
(***************************************************************************)
EXTENDS EventStream, FiniteSetTheorems, SequenceTheorems, WellFoundedInduction, TLAPS

-----------------------------------------------------------------------------
(* What is assumed of the constants.                                       *)

\* What redaction hides, if anything, is as long as the mask, so that no event moves.
SameSize == Secrets # {} => MaskSize = 1

\* No line is torn by another, and no run of the command line empties the file while the
\* server uses it: the lines it writes are short and have no secret.
PlainOutside == Long \subseteq Served /\ \A e \in Secrets : e[1] \in Served

\* Only the first run of the server rewrites the file.
FirstRedacts == \A e \in Secrets : \A s \in Served : e[1] <= s

-----------------------------------------------------------------------------
(* The inductive invariant.                                                *)

\* What the file holds, or will hold again when redaction has written it back.
Rewriting == \E r \in Runs : place[r] = "rewrite"
Log == IF Rewriting THEN clean ELSE file

Holding == {"run", "half", "rewrite", "report"}
Idle == {"none", "mark", "over"}

\* An error event is one more than the events of a run.
CountInv ==
  \A r \in Runs :
    /\ place[r] = "half" => written[r] < MaxEvents
    /\ place[r] \notin {"end", "free", "mark", "over"} => written[r] <= MaxEvents

\* A viewer that asked for a run asked for one of the server's.
AskedInv == \A v \in Viewers : view[v] = "off" <=> watched[v] = 0

TypesInv == TypeOK /\ CountInv /\ AskedInv

\* One run of the server at a time, in their order; the holder of the lock writes, and
\* the file is empty while it is rewritten.
RunsInv ==
  /\ \A r, s \in Served : s < r /\ place[r] # "none" => place[s] \in {"mark", "over"}
  /\ \A r \in Runs : holder = r <=> place[r] \in Holding
  /\ \A r \in Runs : place[r] \in {"half", "rewrite", "raised"} => r \in Served
  /\ \A r \in Runs : place[r] = "rewrite" => file = <<>>
  /\ \A r \in Served : place[r] \in {"wait", "raised", "end"} \union Holding => r \in opened
  /\ \A r \in Served \ opened : written[r] = 0
  /\ \A r \in opened \union known : place[r] # "none"
  /\ \A r \in opened : place[r] # "load"
  /\ \A r \in Runs : place[r] = "none" => written[r] = 0

\* The line of event e begins at j and goes on to k without its end.
Begun(cells, j, k, e) ==
  /\ cells[j] = Cell(e, "head")
  /\ \A i \in j .. k : cells[i].event = e /\ cells[i].part # "newline"
  /\ j > 1 => cells[j - 1].part = "newline"

\* Between two lines.
Edge(cells, o) == o \in 0 .. Len(cells) /\ (o > 0 => cells[o].part = "newline")

\* The lines are whole, but for one that is being written.
LinesInv ==
  /\ \A k \in DOMAIN Log : Log[k].part = "newline" =>
       \E j \in 1 .. k - 1 : Begun(Log, j, k - 1, Log[k].event)
  /\ \A r \in Runs : place[r] = "half" =>
       \E j \in DOMAIN Log : Begun(Log, j, Len(Log), <<r, written[r] + 1>>)
  /\ (\A r \in Runs : place[r] # "half") => Edge(Log, Len(Log))

\* What a run has written is there, in its order, and nothing else of it.
WrittenInv ==
  /\ \A k \in DOMAIN Log :
       LET e == Log[k].event IN
       /\ e[2] \in 1 .. written[e[1]] \/
          (place[e[1]] = "half" /\ e[2] = written[e[1]] + 1 /\ Log[k].part # "newline")
  /\ \A r \in Runs : \A n \in 1 .. written[r] :
       \E k \in DOMAIN Log : Log[k] = Cell(<<r, n>>, "newline")
  /\ \A k, l \in DOMAIN Log :
       k < l /\ Log[k].part = "newline" /\ Log[k].event[1] = Log[l].event[1] =>
         Log[k].event[2] < Log[l].event[2]
  /\ \A k \in DOMAIN Log : Log[k].part = "secret" =>
       Log[k].event \in Secrets /\ place[Log[k].event[1]] \in {"run", "half"}

\* The runs of the server follow each other, and what the server samples lies between them.
OrderInv ==
  /\ \A k, l \in DOMAIN Log :
       Log[k].event[1] \in Served /\ Log[l].event[1] \in Served /\ k < l =>
         Log[k].event[1] <= Log[l].event[1]
  /\ \A r \in opened :
       /\ Edge(Log, startAt[r])
       /\ \A k \in DOMAIN Log : Log[k].event[1] = r => startAt[r] < k
       /\ \A k \in DOMAIN Log : Log[k].event[1] \in Served /\ Log[k].event[1] < r => k <= startAt[r]
  /\ \A r \in opened : place[r] \in {"free", "mark", "over"} =>
       /\ endAt[r] <= Len(Log)
       /\ \A k \in DOMAIN Log : Log[k].event[1] = r => k <= endAt[r]

LogInv == LinesInv /\ WrittenInv /\ OrderInv

Following == {"tail", "read", "drain", "cut"}

\* Where a viewer is.
ViewOf(v) ==
  /\ watched[v] # 0 => place[watched[v]] # "none"
  /\ view[v] \in {"off", "look"} => sent[v] = <<>>
  /\ view[v] \in Following =>
       watched[v] \in opened /\ Edge(Log, offset[v]) /\ startAt[watched[v]] <= offset[v]
  /\ view[v] = "drain" => Done(watched[v])

ViewInv == \A v \in Viewers : ViewOf(v)

Was(v, e) == \E n \in DOMAIN sent[v] : sent[v][n] = e

\* What it was sent: its run's events in order, those that lie before its offset, and others
\* after all of them.
SentOf(v) ==
  /\ \A n \in Own(v) : sent[v][n][2] \in 1 .. written[watched[v]]
  /\ \A m, n \in Own(v) : m < n => sent[v][m][2] < sent[v][n][2]
  /\ \A n \in Own(v) : \A k \in 1 .. sent[v][n][2] - 1 :
       \E j \in 1 .. n - 1 : sent[v][j] = <<watched[v], k>>
  /\ view[v] \in Following =>
       \A k \in DOMAIN Log : Log[k].part = "newline" /\ Log[k].event[1] = watched[v] =>
         (k <= offset[v] <=> Was(v, Log[k].event))
  /\ \A n \in DOMAIN sent[v] : Foreign(v, sent[v][n]) =>
       /\ place[watched[v]] \in {"mark", "over"}
       /\ sent[v][n][1] > watched[v]
       /\ \A k \in 1 .. written[watched[v]] : \E j \in 1 .. n : sent[v][j] = <<watched[v], k>>

SentInv == \A v \in Viewers : SentOf(v)

StreamInv == TypesInv /\ RunsInv /\ LogInv /\ ViewInv /\ SentInv

\* A stream that was closed is complete.
ClosedInv ==
  \A v \in Viewers : view[v] = "closed" =>
    /\ Done(watched[v])
    /\ \A k \in 1 .. written[watched[v]] : Was(v, <<watched[v], k>>)

-----------------------------------------------------------------------------
(* Sets of numbers.                                                        *)

LEMMA Least ==
  ASSUME NEW T, T \subseteq Nat, T # {}
  PROVE  \E x \in T : \A y \in T : x <= y
<1>. DEFINE Below == OpToRel(<, Nat)
<1>1. IsWellFoundedOn(Below, Nat)
  BY NatLessThanWellFounded
<1>2. PICK x \in T : \A y \in T : ~(<<y, x>> \in Below)
  <2>. HIDE DEF Below
  <2>. QED
    BY <1>1, WFMin
<1>3. \A y \in T : x <= y
  <2>. SUFFICES ASSUME NEW y \in T PROVE x <= y
    OBVIOUS
  <2>1. x \in Nat /\ y \in Nat
    OBVIOUS
  <2>2. y < x => <<y, x>> \in Below
    BY <2>1 DEF OpToRel
  <2>3. ~(y < x)
    BY <1>2, <2>2
  <2>. QED
    BY <2>1, <2>3
<1>. QED
  BY <1>3

LEMMA Greatest ==
  ASSUME NEW n \in Nat, NEW T, T \subseteq 0 .. n, T # {}
  PROVE  Max(T) \in T /\ \A y \in T : y <= Max(T)
<1>. DEFINE D == {n - y : y \in T}
<1>0. \A y : y \in T => y \in Int /\ 0 <= y /\ y <= n
  OBVIOUS
<1>1. D \subseteq Nat /\ D # {}
  BY <1>0
<1>2. PICK d \in D : \A y \in D : d <= y
  BY <1>1, Least
<1>3. PICK x \in T : d = n - x
  OBVIOUS
<1>4. \A y \in T : x >= y
  <2>. SUFFICES ASSUME NEW y \in T PROVE x >= y
    OBVIOUS
  <2>1. d <= n - y
    BY <1>2
  <2>. QED
    BY <1>3, <2>1
<1>. QED
  BY <1>4 DEF Max

LEMMA Smaller ==
  ASSUME NEW a \in Nat, NEW b \in Nat
  PROVE  Min({a, b}) \in {a, b} /\ Min({a, b}) <= a /\ Min({a, b}) <= b
<1>1. \E x \in {a, b} : \A y \in {a, b} : x <= y
  OBVIOUS
<1>. QED
  BY <1>1 DEF Min

\* How many of E there are up to k.
UpTo(E, k) == {j \in E : j <= k}
Rank(E, k) == Cardinality(UpTo(E, k))

LEMMA RankStep ==
  ASSUME NEW n \in Nat, NEW E, E \subseteq 1 .. n
  PROVE  /\ IsFiniteSet(E) /\ Cardinality(E) \in Nat
         /\ \A k \in 0 .. n : IsFiniteSet(UpTo(E, k)) /\ Rank(E, k) \in 0 .. Cardinality(E)
         /\ Rank(E, 0) = 0 /\ Rank(E, n) = Cardinality(E)
         /\ \A k \in 1 .. n : Rank(E, k) = Rank(E, k - 1) + IF k \in E THEN 1 ELSE 0
<1>1. \A i : i \in E => i \in Int /\ 1 <= i /\ i <= n
  OBVIOUS
<1>. USE <1>1
<1>2. IsFiniteSet(E) /\ Cardinality(E) \in Nat
  <2>1. E \in SUBSET (1 .. n) /\ IsFiniteSet(1 .. n)
    BY FS_Interval
  <2>. QED
    BY <2>1, FS_Subset, FS_CardinalityType
<1>3. \A k \in 0 .. n : IsFiniteSet(UpTo(E, k)) /\ Rank(E, k) \in 0 .. Cardinality(E)
  <2>. SUFFICES ASSUME NEW k \in 0 .. n
                PROVE  IsFiniteSet(UpTo(E, k)) /\ Rank(E, k) \in 0 .. Cardinality(E)
    OBVIOUS
  <2>1. UpTo(E, k) \subseteq E
    BY DEF UpTo
  <2>2. IsFiniteSet(UpTo(E, k)) /\ Cardinality(UpTo(E, k)) <= Cardinality(E)
    <3>1. UpTo(E, k) \in SUBSET E
      BY <2>1
    <3>. QED
      BY <1>2, <3>1, FS_Subset
  <2>3. Cardinality(UpTo(E, k)) \in Nat
    BY <2>2, FS_CardinalityType
  <2>. QED
    BY <1>2, <2>2, <2>3 DEF Rank
<1>4. Rank(E, 0) = 0
  <2>1. UpTo(E, 0) = {}
    BY DEF UpTo
  <2>. QED
    BY <2>1, FS_EmptySet DEF Rank
<1>5. Rank(E, n) = Cardinality(E)
  <2>1. UpTo(E, n) = E
    BY DEF UpTo
  <2>. QED
    BY <2>1 DEF Rank
<1>6. ASSUME NEW k \in 1 .. n
      PROVE  Rank(E, k) = Rank(E, k - 1) + IF k \in E THEN 1 ELSE 0
  <2>1. IsFiniteSet(UpTo(E, k - 1)) /\ k \notin UpTo(E, k - 1)
    <3>1. k - 1 \in 0 .. n
      OBVIOUS
    <3>2. k \notin UpTo(E, k - 1)
      BY DEF UpTo
    <3>. QED
      BY <1>3, <3>1, <3>2
  <2>2. CASE k \in E
    <3>1. UpTo(E, k) = UpTo(E, k - 1) \cup {k}
      BY <2>2 DEF UpTo
    <3>. QED
      BY <2>1, <2>2, <3>1, FS_AddElement DEF Rank
  <2>3. CASE k \notin E
    <3>1. UpTo(E, k) = UpTo(E, k - 1)
      BY <2>3 DEF UpTo
    <3>2. Rank(E, k - 1) \in Nat
      BY <1>3
    <3>. QED
      BY <2>3, <3>1, <3>2 DEF Rank
  <2>. QED
    BY <2>2, <2>3
<1>. QED
  BY <1>2, <1>3, <1>4, <1>5, <1>6

\* The first k by which there are n of E is the n-th of them.
LEMMA RankHits ==
  ASSUME NEW n \in Nat, NEW E, E \subseteq 1 .. n, NEW m \in 1 .. Cardinality(E)
  PROVE  \E k \in E : Rank(E, k) = m
<1>. DEFINE T == {k \in 0 .. n : Rank(E, k) >= m}
<1>1. Cardinality(E) \in Nat
  BY RankStep
<1>2. \A k \in 0 .. n : Rank(E, k) \in 0 .. Cardinality(E)
  BY RankStep
<1>3. \A k \in 0 .. n : Rank(E, k) \in Nat
  BY <1>1, <1>2
<1>4. Rank(E, 0) = 0 /\ Rank(E, n) = Cardinality(E)
  BY RankStep
<1>5. \A k \in 1 .. n : Rank(E, k) = Rank(E, k - 1) + IF k \in E THEN 1 ELSE 0
  BY RankStep
<1>6. T \subseteq Nat /\ n \in T
  BY <1>1, <1>4
<1>7. PICK k \in T : \A j \in T : k <= j
  BY <1>6, Least
<1>8. k # 0
  BY <1>1, <1>4
<1>9. k \in 1 .. n /\ k - 1 \in 0 .. n /\ k - 1 \notin T
  BY <1>7, <1>8
<1>10. Rank(E, k) \in Nat /\ Rank(E, k - 1) \in Nat
  BY <1>3, <1>9
<1>11. Rank(E, k) >= m /\ Rank(E, k - 1) < m
  BY <1>1, <1>9, <1>10
<1>12. Rank(E, k) = Rank(E, k - 1) + IF k \in E THEN 1 ELSE 0
  BY <1>5, <1>9
<1>13. k \in E /\ Rank(E, k) = m
  BY <1>1, <1>10, <1>11, <1>12
<1>. QED
  BY <1>13

LEMMA RankGrows ==
  ASSUME NEW n \in Nat, NEW E, E \subseteq 1 .. n, NEW j \in E, NEW k \in E, j < k
  PROVE  Rank(E, j) < Rank(E, k)
<1>1. \A i : i \in E => i \in Int /\ 1 <= i /\ i <= n
  OBVIOUS
<1>. USE <1>1
<1>2. UpTo(E, j) \subseteq UpTo(E, k) \ {k}
  BY DEF UpTo
<1>3. IsFiniteSet(UpTo(E, k)) /\ IsFiniteSet(UpTo(E, j)) /\ k \in UpTo(E, k)
  <2>1. j \in 0 .. n /\ k \in 0 .. n
    OBVIOUS
  <2>. QED
    BY <2>1, RankStep DEF UpTo
<1>4. /\ IsFiniteSet(UpTo(E, k) \ {k})
      /\ Cardinality(UpTo(E, k) \ {k}) = Cardinality(UpTo(E, k)) - 1
  BY <1>3, FS_RemoveElement
<1>5. Cardinality(UpTo(E, j)) <= Cardinality(UpTo(E, k) \ {k})
  <2>1. UpTo(E, j) \in SUBSET (UpTo(E, k) \ {k})
    BY <1>2
  <2>. QED
    BY <1>4, <2>1, FS_Subset
<1>6. Cardinality(UpTo(E, j)) \in Nat /\ Cardinality(UpTo(E, k)) \in Nat
  BY <1>3, FS_CardinalityType
<1>. QED
  BY <1>4, <1>5, <1>6 DEF Rank

-----------------------------------------------------------------------------
(* What the operators on the file return.                                  *)

LEMMA CellType ==
  ASSUME NEW e \in Events, NEW part \in {"head", "secret", "mask", "newline"}
  PROVE  Cell(e, part) \in Cells
BY DEF Cell, Cells

LEMMA FileCell ==
  ASSUME NEW cells \in Seq(Cells), NEW k \in DOMAIN cells
  PROVE  /\ cells[k] \in Cells /\ cells[k].event \in Events
         /\ cells[k].part \in {"head", "secret", "mask", "newline"}
<1>1. cells[k] \in Cells
  BY ElementOfSeq, LenProperties
<1>. QED
  BY <1>1 DEF Cells

\* Cells hidden among the first n.
Hidden(cells, n) == Cardinality({k \in 1 .. n : cells[k].part = "secret"})

LEMMA SizeType ==
  ASSUME NEW cells, NEW n \in Nat
  PROVE  Hidden(cells, n) \in Nat /\ Size(cells, n) \in Int
<1>. DEFINE S == {k \in 1 .. n : cells[k].part = "secret"}
<1>1. S \in SUBSET (1 .. n) /\ IsFiniteSet(1 .. n)
  BY FS_Interval
<1>2. Hidden(cells, n) \in Nat
  BY <1>1, FS_Subset, FS_CardinalityType DEF Hidden
<1>3. (MaskSize - 1) \in Int
  BY EventStreamAssumption
<1>4. Size(cells, n) = n + (MaskSize - 1) * Hidden(cells, n)
  BY DEF Size, Hidden
<1>. QED
  BY <1>2, <1>3, <1>4

LEMMA SizeOfNone ==
  ASSUME NEW cells
  PROVE  Size(cells, 0) = 0
<1>1. {k \in 1 .. 0 : cells[k].part = "secret"} = {}
  OBVIOUS
<1>. QED
  BY <1>1, FS_EmptySet, EventStreamAssumption DEF Size

\* Every cell of the redacted text is made from one.
LEMMA RedactedFrom ==
  ASSUME NEW cells, Len(cells) \in Nat, DOMAIN cells = 1 .. Len(cells),
         NEW n \in 1 .. Size(cells, Len(cells))
  PROVE  \E k \in DOMAIN cells : Size(cells, k - 1) < n /\ n <= Size(cells, k)
<1>. DEFINE T == {k \in 0 .. Len(cells) : n <= Size(cells, k)}
<1>1. T \subseteq Nat /\ Len(cells) \in T
  BY SizeType
<1>2. PICK k \in T : \A j \in T : k <= j
  BY <1>1, Least
<1>3. k # 0
  BY <1>2, SizeOfNone
<1>4. k \in 1 .. Len(cells) /\ k - 1 \in 0 .. Len(cells) /\ k - 1 \notin T
  BY <1>2, <1>3
<1>5. Size(cells, k - 1) \in Int
  BY <1>4, SizeType
<1>. QED
  BY <1>2, <1>4, <1>5

LEMMA RedactedType ==
  ASSUME NEW cells \in Seq(Cells)
  PROVE  Redacted(cells) \in Seq(Cells)
<1>. DEFINE From(n) == CHOOSE k \in DOMAIN cells :
                         Size(cells, k - 1) < n /\ n <= Size(cells, k)
            Made(n) == IF cells[From(n)].part = "secret" THEN Cell(cells[From(n)].event, "mask")
                                                         ELSE cells[From(n)]
            N == Size(cells, Len(cells))
<1>1. Len(cells) \in Nat /\ DOMAIN cells = 1 .. Len(cells)
  BY LenProperties
<1>2. ASSUME NEW n \in 1 .. N
      PROVE  Made(n) \in Cells
  <2>1. From(n) \in DOMAIN cells
    BY <1>1, RedactedFrom
  <2>2. cells[From(n)] \in Cells /\ cells[From(n)].event \in Events
    BY <2>1, FileCell
  <2>. HIDE DEF From
  <2>. QED
    BY <2>2, CellType
<1>3. Redacted(cells) = [n \in 1 .. N |-> Made(n)]
  BY DEF Redacted
<1>4. N \in Int
  BY <1>1, SizeType
<1>. HIDE DEF Made, N
<1>5. CASE N \in Nat
  <2>1. [n \in 1 .. N |-> Made(n)] \in Seq(Cells)
    BY <1>2, <1>5, IsASeq
  <2>. QED
    BY <1>3, <2>1
<1>6. CASE N \notin Nat
  <2>1. 1 .. N = 1 .. 0
    BY <1>4, <1>6
  <2>2. [n \in 1 .. 0 |-> Made(n)] \in Seq(Cells)
    BY IsASeq
  <2>. QED
    BY <1>3, <2>1, <2>2
<1>. QED
  BY <1>5, <1>6

\* A mask of one cell leaves every other cell where it is.
LEMMA RedactedInPlace ==
  ASSUME MaskSize = 1, NEW cells \in Seq(Cells)
  PROVE  /\ Len(Redacted(cells)) = Len(cells)
         /\ \A k \in DOMAIN cells : Redacted(cells)[k] =
              IF cells[k].part = "secret" THEN Cell(cells[k].event, "mask") ELSE cells[k]
<1>1. Len(cells) \in Nat /\ DOMAIN cells = 1 .. Len(cells)
  BY LenProperties
<1>2. ASSUME NEW n \in Nat
      PROVE  Size(cells, n) = n
  <2>1. Size(cells, n) = n + (1 - 1) * Hidden(cells, n)
    BY DEF Size, Hidden
  <2>2. Hidden(cells, n) \in Nat
    BY SizeType
  <2>. QED
    BY <2>1, <2>2
<1>. DEFINE From(n) == CHOOSE k \in DOMAIN cells :
                         Size(cells, k - 1) < n /\ n <= Size(cells, k)
            Made(n) == IF cells[From(n)].part = "secret" THEN Cell(cells[From(n)].event, "mask")
                                                         ELSE cells[From(n)]
<1>3. ASSUME NEW n \in 1 .. Len(cells)
      PROVE  From(n) = n
  <2>1. \A k \in DOMAIN cells : Size(cells, k - 1) < n /\ n <= Size(cells, k) <=> k = n
    BY <1>1, <1>2
  <2>. QED
    BY <1>1, <2>1
<1>4. Size(cells, Len(cells)) = Len(cells)
  BY <1>1, <1>2
<1>5. Redacted(cells) = [n \in 1 .. Len(cells) |-> Made(n)]
  BY <1>4 DEF Redacted
<1>6. \A n \in 1 .. Len(cells) : Made(n) =
        IF cells[n].part = "secret" THEN Cell(cells[n].event, "mask") ELSE cells[n]
  <2>. HIDE DEF From
  <2>. QED
    BY <1>3
<1>. HIDE DEF Made
<1>. QED
  BY <1>1, <1>5, <1>6

LEMMA ConsumedIsLast ==
  ASSUME file \in Seq(Cells), NEW from \in Nat
  PROVE  /\ Consumed(from) \in Nat /\ from <= Consumed(from)
         /\ Consumed(from) # from =>
              Consumed(from) \in DOMAIN file /\ file[Consumed(from)].part = "newline"
         /\ \A k \in DOMAIN file : file[k].part = "newline" => k <= from \/ k <= Consumed(from)
<1>. DEFINE T == {from} \union {k \in from + 1 .. Len(file) : file[k].part = "newline"}
<1>1. Len(file) \in Nat /\ DOMAIN file = 1 .. Len(file)
  BY LenProperties
<1>2. from + Len(file) \in Nat /\ T # {}
  BY <1>1
<1>3. T \subseteq 0 .. from + Len(file)
  BY <1>1
<1>4. Consumed(from) = Max(T)
  BY DEF Consumed
<1>5. Max(T) \in T /\ \A y \in T : y <= Max(T)
  <2>. HIDE DEF T
  <2>. QED
    BY <1>2, <1>3, Greatest
<1>6. Consumed(from) \in T /\ \A y \in T : y <= Consumed(from)
  BY <1>4, <1>5
<1>. HIDE DEF Consumed
<1>. QED
  BY <1>1, <1>6

Chunk(from, to) == \A k : k \in from + 1 .. to => k \in DOMAIN file
Ends(from, to) == {k \in from + 1 .. to : Whole(from, k)}
Nth(from, to, n) == CHOOSE k \in Ends(from, to) : Rank(Ends(from, to), k) = n

\* What is parsed are the events of the whole lines of the chunk, each once, in order.
LEMMA ParsedLines ==
  ASSUME file \in Seq(Cells), NEW from \in Nat, NEW to \in Nat, Chunk(from, to)
  PROVE  /\ Parsed(from, to) \in Seq(Events)
         /\ \A n \in DOMAIN Parsed(from, to) :
              /\ Nth(from, to, n) \in Ends(from, to)
              /\ Parsed(from, to)[n] = file[Nth(from, to, n)].event
         /\ \A m, n \in DOMAIN Parsed(from, to) : m < n => Nth(from, to, m) < Nth(from, to, n)
         /\ \A k \in Ends(from, to) : \E n \in DOMAIN Parsed(from, to) : Nth(from, to, n) = k
<1>. DEFINE E == Ends(from, to)
            N == Cardinality(E)
<1>0. \A k : k \in E => k \in Int /\ from + 1 <= k /\ k <= to
  BY DEF Ends
<1>1. E \subseteq 1 .. to
  BY <1>0
<1>2. N \in Nat
  BY <1>1, RankStep
<1>3. ASSUME NEW n \in 1 .. N
      PROVE  Nth(from, to, n) \in E /\ Rank(E, Nth(from, to, n)) = n
  <2>1. \E k \in E : Rank(E, k) = n
    BY <1>1, <1>3, RankHits
  <2>. QED
    BY <2>1 DEF Nth
<1>4. Parsed(from, to) = [n \in 1 .. N |-> file[Nth(from, to, n)].event]
  BY DEF Parsed, Nth, Ends, Rank, UpTo
<1>5. ASSUME NEW n \in 1 .. N
      PROVE  file[Nth(from, to, n)].event \in Events
  <2>1. Nth(from, to, n) \in DOMAIN file
    BY <1>3, <1>5 DEF Ends, Chunk
  <2>. QED
    BY <2>1, FileCell
<1>6. Parsed(from, to) \in Seq(Events)
  BY <1>2, <1>4, <1>5, IsASeq
<1>7. DOMAIN Parsed(from, to) = 1 .. N
  BY <1>4
<1>8. ASSUME NEW m \in 1 .. N, NEW n \in 1 .. N, m < n
      PROVE  Nth(from, to, m) < Nth(from, to, n)
  <2>1. /\ Nth(from, to, m) \in E /\ Nth(from, to, n) \in E
        /\ Rank(E, Nth(from, to, m)) = m /\ Rank(E, Nth(from, to, n)) = n
    BY <1>3
  <2>2. CASE Nth(from, to, n) < Nth(from, to, m)
    <3>1. Rank(E, Nth(from, to, n)) < Rank(E, Nth(from, to, m))
      BY <1>1, <2>1, <2>2, RankGrows
    <3>. QED
      BY <1>8, <2>1, <3>1
  <2>3. CASE Nth(from, to, n) = Nth(from, to, m)
    BY <1>8, <2>1, <2>3
  <2>4. Nth(from, to, m) \in Int /\ Nth(from, to, n) \in Int
    BY <1>0, <2>1
  <2>. QED
    BY <2>2, <2>3, <2>4
<1>9. ASSUME NEW k \in E
      PROVE  \E n \in 1 .. N : Nth(from, to, n) = k
  <2>1. k \in 1 .. to
    BY <1>1
  <2>2. Rank(E, k) \in 0 .. N /\ Rank(E, k - 1) \in 0 .. N
    <3>1. k \in 0 .. to /\ k - 1 \in 0 .. to
      BY <2>1
    <3>. QED
      BY <1>1, <3>1, RankStep
  <2>3. Rank(E, k) = Rank(E, k - 1) + IF k \in E THEN 1 ELSE 0
    BY <1>1, <2>1, RankStep
  <2>4. Rank(E, k) \in 1 .. N
    BY <1>2, <2>2, <2>3
  <2>5. Nth(from, to, Rank(E, k)) \in E /\ Rank(E, Nth(from, to, Rank(E, k))) = Rank(E, k)
    BY <1>3, <2>4
  <2>. DEFINE j == Nth(from, to, Rank(E, k))
  <2>6. j \in Int /\ k \in Int
    BY <1>0, <2>5
  <2>7. ASSUME j < k
        PROVE  FALSE
    BY <1>1, <1>2, <2>2, <2>5, <2>7, RankGrows
  <2>8. ASSUME k < j
        PROVE  FALSE
    BY <1>1, <1>2, <2>2, <2>5, <2>8, RankGrows
  <2>9. j = k
    BY <2>6, <2>7, <2>8
  <2>. QED
    BY <2>4, <2>9
<1>. QED
  BY <1>3, <1>4, <1>6, <1>7, <1>8, <1>9

-----------------------------------------------------------------------------
(* Types.                                                                  *)

LEMMA NextEvent ==
  ASSUME TypeOK, NEW r \in Runs, written[r] <= MaxEvents
  PROVE  <<r, written[r] + 1>> \in Events /\ written[r] + 1 \in 0 .. MaxEvents + 1
BY EventStreamAssumption DEF TypeOK, Events

LEMMA LineTypes ==
  ASSUME NEW e \in Events
  PROVE  Line(e) \in Seq(Cells) /\ Body(e) \in Seq(Cells)
<1>1. Cell(e, "head") \in Cells /\ Cell(e, "secret") \in Cells /\ Cell(e, "newline") \in Cells
  BY CellType
<1>. QED
  BY <1>1 DEF Line, Body

LEMMA AppendedType ==
  ASSUME TypeOK, NEW r \in Runs, written[r] <= MaxEvents
  PROVE  /\ file \o Line(<<r, written[r] + 1>>) \in Seq(Cells)
         /\ file \o Body(<<r, written[r] + 1>>) \in Seq(Cells)
         /\ Append(file, Cell(<<r, written[r] + 1>>, "newline")) \in Seq(Cells)
         /\ file \o Append(Body(<<r, written[r] + 1>>), Cell(<<r, written[r] + 1>>, "newline"))
              \in Seq(Cells)
<1>. DEFINE e == <<r, written[r] + 1>>
<1>1. e \in Events
  BY NextEvent
<1>2. Cell(e, "newline") \in Cells /\ Line(e) \in Seq(Cells) /\ Body(e) \in Seq(Cells)
  BY <1>1, CellType, LineTypes
<1>3. file \in Seq(Cells)
  BY DEF TypeOK
<1>. HIDE DEF e
<1>4. Append(Body(e), Cell(e, "newline")) \in Seq(Cells)
  BY <1>2, AppendProperties
<1>. QED
  BY <1>2, <1>3, <1>4, AppendProperties, ConcatProperties DEF e

LEMMA RewrittenType ==
  ASSUME TypeOK
  PROVE  clean \o SubSeq(file, Len(clean) + 1, Len(file)) \in Seq(Cells)
<1>1. clean \in Seq(Cells) /\ file \in Seq(Cells)
  BY DEF TypeOK
<1>2. Len(clean) \in Nat /\ Len(file) \in Nat
  BY <1>1, LenProperties
<1>3. \A i \in Len(clean) + 1 .. Len(file) : file[i] \in Cells
  BY <1>1, <1>2, ElementOfSeq
<1>4. SubSeq(file, Len(clean) + 1, Len(file)) \in Seq(Cells)
  BY <1>2, <1>3, SubSeqProperties
<1>. QED
  BY <1>1, <1>4, ConcatProperties

LEMMA ReadChunk ==
  ASSUME TypeOK, NEW v \in Viewers
  PROVE  Chunk(offset[v], Consumed(offset[v]))
<1>1. file \in Seq(Cells) /\ offset[v] \in Nat
  BY DEF TypeOK
<1>2. Len(file) \in Nat /\ DOMAIN file = 1 .. Len(file)
  BY <1>1, LenProperties
<1>. DEFINE to == Consumed(offset[v])
<1>3. to \in Nat /\ (to # offset[v] => to \in DOMAIN file)
  BY <1>1, ConsumedIsLast
<1>. HIDE DEF to
<1>4. Chunk(offset[v], to)
  BY <1>1, <1>2, <1>3 DEF Chunk
<1>. QED
  BY <1>4 DEF to

LEMMA DrainChunk ==
  ASSUME TypeOK, NEW v \in Viewers, watched[v] \in Runs
  PROVE  LET to == Min({endAt[watched[v]], Len(file)})
         IN  to \in Nat /\ Chunk(offset[v], to)
<1>1. file \in Seq(Cells) /\ offset[v] \in Nat /\ endAt[watched[v]] \in Nat
  BY DEF TypeOK
<1>2. Len(file) \in Nat /\ DOMAIN file = 1 .. Len(file)
  BY <1>1, LenProperties
<1>. DEFINE to == Min({endAt[watched[v]], Len(file)})
<1>3. to \in {endAt[watched[v]], Len(file)} /\ to <= Len(file)
  BY <1>1, <1>2, Smaller
<1>. HIDE DEF to
<1>4. to \in Nat /\ Chunk(offset[v], to)
  BY <1>1, <1>2, <1>3 DEF Chunk
<1>. QED
  BY <1>4 DEF to

LEMMA SentType ==
  ASSUME TypeOK, NEW v \in Viewers, NEW to \in Nat, Chunk(offset[v], to), Send(v, to)
  PROVE  sent' \in [Viewers -> Seq(Events)]
<1>1. file \in Seq(Cells) /\ offset[v] \in Nat /\ sent[v] \in Seq(Events)
  BY DEF TypeOK
<1>2. Parsed(offset[v], to) \in Seq(Events)
  BY <1>1, ParsedLines
<1>3. sent[v] \o Parsed(offset[v], to) \in Seq(Events)
  BY <1>1, <1>2, ConcatProperties
<1>. QED
  BY <1>3 DEF Send, TypeOK

LEMMA InitTypes == Init => TypesInv
<1>. SUFFICES ASSUME Init PROVE TypesInv
  OBVIOUS
<1>1. <<>> \in Seq(Cells) /\ <<>> \in Seq(Events)
  OBVIOUS
<1>2. 0 \in 0 .. MaxRuns /\ 0 \in 0 .. MaxEvents + 1 /\ 0 <= MaxEvents
  BY EventStreamAssumption
<1>. QED
  BY <1>1, <1>2 DEF Init, TypesInv, TypeOK, CountInv, AskedInv, Runs, Served

Places == {"none", "load", "wait", "run", "half", "rewrite", "report", "raised",
           "end", "free", "mark", "over"}

LEMMA RunTypes ==
  ASSUME TypesInv
  PROVE  /\ place \in [Runs -> Places] /\ written \in [Runs -> 0 .. MaxEvents + 1]
         /\ opened \subseteq Served /\ known \subseteq Served /\ 0 \notin Runs
         /\ \A r \in Runs : r \in Int
<1>1. TypeOK
  BY DEF TypesInv
<1>2. 0 \notin Runs /\ \A r \in Runs : r \in Int
  BY DEF Runs
<1>. QED
  BY <1>1, <1>2 DEF TypeOK, Places

\* A run in its last places has all its events and perhaps the one of an error; before, it
\* has no more than it may write, and fewer while a line is half written.
Last == {"end", "free", "mark", "over"}

LEMMA CountStep ==
  ASSUME CountInv, NEW r \in Runs,
         \A q \in Runs \ {r} : place'[q] = place[q] /\ written'[q] = written[q],
         place'[r] = "half" => written'[r] < MaxEvents,
         place'[r] \notin Last => written'[r] <= MaxEvents
  PROVE  CountInv'
<1>. SUFFICES ASSUME NEW q \in Runs
              PROVE  /\ place'[q] = "half" => written'[q] < MaxEvents
                     /\ place'[q] \notin Last => written'[q] <= MaxEvents
  BY DEF CountInv, Last
<1>1. CASE q = r
  BY <1>1
<1>2. CASE q # r
  BY <1>2 DEF CountInv, Last
<1>. QED
  BY <1>1, <1>2

LEMMA CountMoves ==
  ASSUME TypesInv, NEW r \in Runs, NEW p, Goto(r, p), UNCHANGED written,
         p = "half" => written[r] < MaxEvents, p \notin Last => place[r] \notin Last
  PROVE  CountInv'
<1>1. \A q \in Runs \ {r} : place'[q] = place[q] /\ written'[q] = written[q]
  BY RunTypes DEF Goto
<1>2. place'[r] = p /\ written'[r] = written[r]
  BY RunTypes DEF Goto
<1>3. CountInv /\ (place[r] \notin Last => written[r] <= MaxEvents)
  BY DEF TypesInv, CountInv, Last
<1>. QED
  BY <1>1, <1>2, <1>3, CountStep

LEMMA CountWrites ==
  ASSUME TypesInv, NEW r \in Runs, NEW p \in Places \ {"half"}, place' = [place EXCEPT ![r] = p],
         written' = [written EXCEPT ![r] = @ + 1],
         written[r] < MaxEvents \/ p \in Last
  PROVE  CountInv'
<1>1. \A q \in Runs \ {r} : place'[q] = place[q] /\ written'[q] = written[q]
  BY RunTypes
<1>2. place'[r] = p /\ written'[r] = written[r] + 1
  BY RunTypes
<1>3. written[r] \in 0 .. MaxEvents + 1 /\ MaxEvents \in Nat
  BY RunTypes, EventStreamAssumption
<1>4. written[r] < MaxEvents => written[r] + 1 <= MaxEvents
  BY <1>3
<1>5. CountInv
  BY DEF TypesInv
<1>. QED
  BY <1>1, <1>2, <1>4, <1>5, CountStep

LEMMA NextCounts ==
  ASSUME TypesInv, [Next]_vars
  PROVE  CountInv'
<1>0. CountInv /\ MaxEvents \in Nat /\ 1 <= MaxEvents
  BY EventStreamAssumption DEF TypesInv
<1>1. ASSUME NEW r \in Runs, Start(r)
      PROVE  CountInv'
  BY <1>1, CountMoves DEF Start, Last
<1>2. ASSUME NEW r \in Runs, Lock(r)
      PROVE  CountInv'
  BY <1>2, CountMoves DEF Lock, Last
<1>3. ASSUME NEW r \in Runs, FailEarly(r)
      PROVE  CountInv'
  BY <1>3, CountMoves DEF FailEarly, Last
<1>4. ASSUME NEW r \in Runs, Open(r)
      PROVE  CountInv'
  BY <1>4, CountMoves DEF Open, Last
<1>5. ASSUME NEW r \in Runs, WriteHalf(r)
      PROVE  CountInv'
  BY <1>5, CountMoves DEF WriteHalf, Last
<1>6. ASSUME NEW r \in Runs, Redact(r)
      PROVE  CountInv'
  BY <1>6, CountMoves DEF Redact, Last
<1>7. ASSUME NEW r \in Runs, Rewrite(r)
      PROVE  CountInv'
  BY <1>7, CountMoves DEF Rewrite, Last
<1>8. ASSUME NEW r \in Runs, Raise(r)
      PROVE  CountInv'
  BY <1>8, CountMoves DEF Raise, Recording, Last
<1>9. ASSUME NEW r \in Runs, Unlock(r)
      PROVE  CountInv'
  BY <1>9, CountMoves DEF Unlock, Recording, Last
<1>10. ASSUME NEW r \in Runs, SampleEnd(r)
      PROVE  CountInv'
  BY <1>10, CountMoves DEF SampleEnd, Last
<1>11. ASSUME NEW r \in Runs, Free(r)
      PROVE  CountInv'
  BY <1>11, CountMoves DEF Free, Last
<1>12. ASSUME NEW r \in Runs, MarkDone(r)
      PROVE  CountInv'
  BY <1>12, CountMoves DEF MarkDone, Last
<1>13. ASSUME NEW r \in Runs, Trigger(r)
      PROVE  CountInv'
  <2>1. /\ place[r] = "wait" /\ UNCHANGED place /\ written[r] < MaxEvents
        /\ written' = [written EXCEPT ![r] = @ + 1]
    BY <1>0, <1>13 DEF Trigger, Appended
  <2>2. place' = [place EXCEPT ![r] = "wait"]
    BY <2>1, RunTypes
  <2>. QED
    BY <2>1, <2>2, CountWrites DEF Places
<1>14. ASSUME NEW r \in Runs, WriteLine(r)
      PROVE  CountInv'
  <2>1. /\ place[r] = "run" /\ UNCHANGED place /\ written[r] < MaxEvents
        /\ written' = [written EXCEPT ![r] = @ + 1]
    BY <1>14 DEF WriteLine
  <2>2. place' = [place EXCEPT ![r] = "run"]
    BY <2>1, RunTypes
  <2>. QED
    BY <2>1, <2>2, CountWrites DEF Places
<1>15. ASSUME NEW r \in Runs, WriteRest(r)
      PROVE  CountInv'
  <2>1. place[r] = "half" => written[r] < MaxEvents
    BY <1>0 DEF CountInv
  <2>. QED
    BY <1>15, <2>1, CountWrites DEF WriteRest, Goto, Places
<1>16. ASSUME NEW r \in Runs, Rest(r)
      PROVE  CountInv'
  BY <1>16, CountWrites DEF Rest, Appended, Goto, Places, Last
<1>17. ASSUME NEW r \in Runs, ErrorEvent(r)
      PROVE  CountInv'
  BY <1>17, CountWrites DEF ErrorEvent, Appended, Goto, Places, Last
<1>18. ASSUME UNCHANGED <<place, written>>
      PROVE  CountInv'
  BY <1>0, <1>18 DEF CountInv
<1>19. (\A r \in Runs : ~(Start(r) \/ Lock(r) \/ Work(r))) => UNCHANGED <<place, written>>
  BY DEF Next, Work, Poll, vars, runVars, Follow, GiveUp, AskEnd, Read, Drain, Cut, Attach, Evict
<1>. QED
  BY <1>1, <1>2, <1>3, <1>4, <1>5, <1>6, <1>7, <1>8, <1>9, <1>10, <1>11, <1>12, <1>13, <1>14, <1>15, <1>16, <1>17, <1>18, <1>19 DEF Work

LEMMA NextTypes ==
  ASSUME TypesInv, [Next]_vars
  PROVE  TypesInv'
<1>0. TypeOK /\ MaxEvents \in Nat /\ 1 <= MaxEvents /\ MaxRuns \in Nat
  BY EventStreamAssumption DEF TypesInv
<1>c. CountInv'
  BY NextCounts
<1>. USE DEF TypesInv, TypeOK, AskedInv, runVars, viewVars, Runs, Served
<1>1. ASSUME NEW r \in Runs, Start(r)
      PROVE  TypesInv'
  BY <1>0, <1>c, <1>1 DEF Start, Goto
<1>2. ASSUME NEW r \in Runs, Lock(r)
      PROVE  TypesInv'
  <2>1. holder' \in 0 .. MaxRuns
    BY <1>0, <1>2 DEF Lock
  <2>. QED
    BY <1>0, <1>c, <1>2, <2>1 DEF Lock, Goto
<1>3. ASSUME NEW r \in Runs, FailEarly(r)
      PROVE  TypesInv'
  BY <1>0, <1>c, <1>3 DEF FailEarly, Goto
<1>4. ASSUME NEW r \in Runs, Open(r)
      PROVE  TypesInv'
  <2>1. Len(file) \in Nat
    BY LenProperties
  <2>. QED
    BY <1>0, <1>c, <1>4, <2>1 DEF Open, Goto
<1>5. ASSUME NEW r \in Runs, Trigger(r)
      PROVE  TypesInv'
  <2>1. written[r] + 1 \in 0 .. MaxEvents + 1
    BY <1>0, <1>5, NextEvent DEF Trigger, Appended, CountInv
  <2>2. file' \in Seq(Cells)
    BY <1>0, <1>5, AppendedType DEF Trigger, Appended, CountInv
  <2>3. written' = [written EXCEPT ![r] = written[r] + 1]
    BY <1>5 DEF Trigger, Appended
  <2>4. written' \in [Runs -> 0 .. MaxEvents + 1]
    BY <1>0, <2>1, <2>3
  <2>. QED
    BY <1>0, <1>c, <1>5, <2>2, <2>4 DEF Trigger, Appended
<1>6. ASSUME NEW r \in Runs, Rest(r)
      PROVE  TypesInv'
  <2>1. written[r] + 1 \in 0 .. MaxEvents + 1
    BY <1>0, <1>6, NextEvent DEF Rest, Goto, Appended, CountInv
  <2>2. file' \in Seq(Cells)
    BY <1>0, <1>6, AppendedType DEF Rest, Goto, Appended, CountInv
  <2>3. written' = [written EXCEPT ![r] = written[r] + 1]
    BY <1>6 DEF Rest, Goto, Appended
  <2>4. written' \in [Runs -> 0 .. MaxEvents + 1]
    BY <1>0, <2>1, <2>3
  <2>. QED
    BY <1>0, <1>c, <1>6, <2>2, <2>4 DEF Rest, Goto, Appended
<1>7. ASSUME NEW r \in Runs, WriteHalf(r)
      PROVE  TypesInv'
  <2>1. written[r] + 1 \in 0 .. MaxEvents + 1
    BY <1>0, <1>7, NextEvent DEF WriteHalf, Goto, CountInv
  <2>2. file' \in Seq(Cells)
    BY <1>0, <1>7, AppendedType DEF WriteHalf, Goto, CountInv
  <2>3. UNCHANGED written
    BY <1>7 DEF WriteHalf, Goto
  <2>4. written' \in [Runs -> 0 .. MaxEvents + 1]
    BY <1>0, <2>1, <2>3
  <2>. QED
    BY <1>0, <1>c, <1>7, <2>2, <2>4 DEF WriteHalf, Goto
<1>8. ASSUME NEW r \in Runs, WriteRest(r)
      PROVE  TypesInv'
  <2>1. written[r] + 1 \in 0 .. MaxEvents + 1
    BY <1>0, <1>8, NextEvent DEF WriteRest, Goto, CountInv
  <2>2. file' \in Seq(Cells)
    BY <1>0, <1>8, AppendedType DEF WriteRest, Goto, CountInv
  <2>3. written' = [written EXCEPT ![r] = written[r] + 1]
    BY <1>8 DEF WriteRest, Goto
  <2>4. written' \in [Runs -> 0 .. MaxEvents + 1]
    BY <1>0, <2>1, <2>3
  <2>. QED
    BY <1>0, <1>c, <1>8, <2>2, <2>4 DEF WriteRest, Goto
<1>9. ASSUME NEW r \in Runs, WriteLine(r)
      PROVE  TypesInv'
  <2>1. written[r] + 1 \in 0 .. MaxEvents + 1
    BY <1>0, <1>9, NextEvent DEF WriteLine, CountInv
  <2>2. file' \in Seq(Cells)
    BY <1>0, <1>9, AppendedType DEF WriteLine, CountInv
  <2>3. written' = [written EXCEPT ![r] = written[r] + 1]
    BY <1>9 DEF WriteLine
  <2>4. written' \in [Runs -> 0 .. MaxEvents + 1]
    BY <1>0, <2>1, <2>3
  <2>. QED
    BY <1>0, <1>c, <1>9, <2>2, <2>4 DEF WriteLine
<1>10. ASSUME NEW r \in Runs, Redact(r)
      PROVE  TypesInv'
  <2>1. clean' \in Seq(Cells) /\ file' \in Seq(Cells)
    BY <1>10, RedactedType DEF Redact
  <2>. QED
    BY <1>0, <1>c, <1>10, <2>1 DEF Redact, Goto
<1>11. ASSUME NEW r \in Runs, Rewrite(r)
      PROVE  TypesInv'
  <2>1. clean' \in Seq(Cells) /\ file' \in Seq(Cells)
    BY <1>0, <1>11, RewrittenType DEF Rewrite
  <2>. QED
    BY <1>0, <1>c, <1>11, <2>1 DEF Rewrite, Goto
<1>12. ASSUME NEW r \in Runs, Raise(r)
      PROVE  TypesInv'
  <2>1. holder' \in 0 .. MaxRuns
    BY <1>0, <1>12 DEF Raise
  <2>. QED
    BY <1>0, <1>c, <1>12, <2>1 DEF Raise, Goto, Recording
<1>13. ASSUME NEW r \in Runs, Unlock(r)
      PROVE  TypesInv'
  <2>1. place' = [place EXCEPT ![r] = IF r \in Served THEN "end" ELSE "over"]
    BY <1>13 DEF Unlock, Goto
  <2>2. holder' = 0 /\ UNCHANGED <<file, clean, written, startAt, endAt, opened, known, viewVars>>
    BY <1>13 DEF Unlock
  <2>3. 0 \in 0 .. MaxRuns
    BY <1>0
  <2>. QED
    BY <1>0, <1>c, <2>1, <2>2, <2>3
<1>14. ASSUME NEW r \in Runs, ErrorEvent(r)
      PROVE  TypesInv'
  <2>1. written[r] + 1 \in 0 .. MaxEvents + 1
    BY <1>0, <1>14, NextEvent DEF ErrorEvent, Goto, Appended, CountInv
  <2>2. file' \in Seq(Cells)
    BY <1>0, <1>14, AppendedType DEF ErrorEvent, Goto, Appended, CountInv
  <2>3. written' = [written EXCEPT ![r] = written[r] + 1]
    BY <1>14 DEF ErrorEvent, Goto, Appended
  <2>4. written' \in [Runs -> 0 .. MaxEvents + 1]
    BY <1>0, <2>1, <2>3
  <2>. QED
    BY <1>0, <1>c, <1>14, <2>2, <2>4 DEF ErrorEvent, Goto, Appended
<1>15. ASSUME NEW r \in Runs, SampleEnd(r)
      PROVE  TypesInv'
  <2>1. Len(file) \in Nat
    BY LenProperties
  <2>. QED
    BY <1>0, <1>c, <1>15, <2>1 DEF SampleEnd, Goto
<1>16. ASSUME NEW r \in Runs, Free(r)
      PROVE  TypesInv'
  BY <1>0, <1>c, <1>16 DEF Free, Goto
<1>17. ASSUME NEW r \in Runs, MarkDone(r)
      PROVE  TypesInv'
  BY <1>0, <1>c, <1>17 DEF MarkDone, Goto
<1>18. ASSUME NEW r \in Runs, Evict(r)
      PROVE  TypesInv'
  BY <1>0, <1>c, <1>18 DEF Evict
<1>19. ASSUME NEW v \in Viewers, Follow(v)
      PROVE  TypesInv'
  BY <1>0, <1>c, <1>19 DEF Follow, LookTo
<1>20. ASSUME NEW v \in Viewers, GiveUp(v)
      PROVE  TypesInv'
  BY <1>0, <1>c, <1>20 DEF GiveUp, LookTo, Done
<1>21. ASSUME NEW v \in Viewers, AskEnd(v)
      PROVE  TypesInv'
  BY <1>0, <1>c, <1>21 DEF AskEnd, LookTo, Done
<1>22. ASSUME NEW v \in Viewers, Read(v)
      PROVE  TypesInv'
  <2>1. Chunk(offset[v], Consumed(offset[v])) /\ Consumed(offset[v]) \in Nat
    BY <1>0, ReadChunk, ConsumedIsLast
  <2>2. sent' \in [Viewers -> Seq(Events)]
    BY <1>0, <1>22, <2>1, SentType DEF Read
  <2>3. offset' \in [Viewers -> Nat]
    BY <1>22, <2>1 DEF Read
  <2>. HIDE DEF Send
  <2>. QED
    BY <1>0, <1>c, <1>22, <2>2, <2>3 DEF Read, LookTo
<1>23. ASSUME NEW v \in Viewers, Drain(v)
      PROVE  TypesInv'
  <2>. DEFINE to == Min({endAt[watched[v]], Len(file)})
  <2>1. watched[v] \in Runs
    BY <1>23 DEF Drain
  <2>2. to \in Nat /\ Chunk(offset[v], to)
    BY <1>0, <2>1, DrainChunk
  <2>3. Send(v, to)
    BY <1>23 DEF Drain
  <2>. HIDE DEF to
  <2>4. sent' \in [Viewers -> Seq(Events)]
    BY <1>0, <2>2, <2>3, SentType
  <2>. QED
    BY <1>0, <1>c, <1>23, <2>4 DEF Drain, LookTo
<1>24. ASSUME NEW v \in Viewers, Cut(v)
      PROVE  TypesInv'
  BY <1>0, <1>c, <1>24 DEF Cut, LookTo
<1>25. ASSUME NEW v \in Viewers, NEW r \in Served, Attach(v, r)
      PROVE  TypesInv'
  <2>1. r # 0 /\ r \in Runs
    BY <1>25
  <2>. QED
    BY <1>0, <1>c, <1>25, <2>1 DEF Attach, LookTo
<1>26. CASE UNCHANGED vars
  BY <1>0, <1>c, <1>26 DEF vars
<1>. QED
  BY <1>1, <1>2, <1>3, <1>4, <1>5, <1>6, <1>7, <1>8, <1>9, <1>10, <1>11, <1>12, <1>13,
     <1>14, <1>15, <1>16, <1>17, <1>18, <1>19, <1>20, <1>21, <1>22, <1>23, <1>24, <1>25,
     <1>26 DEF Next, Work, Poll

-----------------------------------------------------------------------------
(* Runs.                                                                   *)

LEMMA InitRuns == Init => RunsInv
BY DEF Init, RunsInv, Holding, Runs, Served

\* A run that uses the file while no rewriting is its own sees all of it.
LEMMA NobodyElse ==
  ASSUME TypesInv, RunsInv, NEW r \in Runs,
         r = holder \/ (r \in Served /\ place[r] \notin Idle)
  PROVE  \A q \in Runs : place[q] \in {"half", "rewrite"} => q = r
<1>. SUFFICES ASSUME NEW q \in Runs, place[q] \in {"half", "rewrite"}
              PROVE  q = r
  OBVIOUS
<1>1. q \in Served /\ holder = q
  BY DEF RunsInv, Holding
<1>2. CASE r \in Served /\ place[r] \notin Idle
  <2>1. ~(q < r) /\ ~(r < q)
    BY <1>1, <1>2 DEF RunsInv, Idle
  <2>. QED
    BY <2>1 DEF Runs
<1>. QED
  BY <1>1, <1>2

LEMMA FileIsLog ==
  ASSUME TypesInv, RunsInv, NEW r \in Runs, place[r] # "rewrite",
         r = holder \/ (r \in Served /\ place[r] \notin Idle)
  PROVE  ~Rewriting /\ Log = file
<1>1. ~Rewriting
  BY NobodyElse DEF Rewriting
<1>. QED
  BY <1>1 DEF Log

\* A secret is in the file only while its run is at its stages.
LEMMA RedactsItsOwn ==
  ASSUME TypesInv, RunsInv, WrittenInv, NEW r \in Runs, Redact(r)
  PROVE  \E n : <<r, n>> \in Secrets
<1>1. place[r] = "run" /\ holder = r
  BY DEF Redact, RunsInv, Holding
<1>2. Log = file
  BY <1>1, FileIsLog
<1>3. PICK k \in DOMAIN Log : Log[k].part = "secret"
  BY <1>2 DEF Redact, Secret
<1>. DEFINE e == Log[k].event
<1>4. e \in Secrets /\ place[e[1]] \in {"run", "half"}
  BY <1>3 DEF WrittenInv
<1>5. e \in Events
  <2>1. Log \in Seq(Cells)
    BY <1>2 DEF TypesInv, TypeOK
  <2>. QED
    BY <1>3, <2>1, FileCell
<1>. HIDE DEF e
<1>6. e[1] \in Runs /\ e = <<e[1], e[2]>>
  BY <1>5 DEF Events
<1>7. e[1] = r
  BY <1>1, <1>4, <1>6 DEF RunsInv, Holding
<1>. QED
  BY <1>4, <1>6, <1>7

LEMMA NextRuns ==
  ASSUME PlainOutside, TypesInv, RunsInv, WrittenInv, [Next]_vars
  PROVE  RunsInv'
<1>0. /\ place \in [Runs -> Places] /\ written \in [Runs -> 0 .. MaxEvents + 1]
      /\ opened \subseteq Served /\ known \subseteq Served /\ 0 \notin Runs
      /\ \A r \in Runs : r \in Int
  BY RunTypes
<1>. USE DEF RunsInv, Holding, Served, runVars, viewVars
<1>1. ASSUME NEW r \in Runs, Start(r)
      PROVE  RunsInv'
  BY <1>0, <1>1 DEF Start, Goto
<1>2. ASSUME NEW r \in Runs, Lock(r)
      PROVE  RunsInv'
  BY <1>0, <1>2 DEF Lock, Goto
<1>3. ASSUME NEW r \in Runs, FailEarly(r)
      PROVE  RunsInv'
  BY <1>0, <1>3 DEF FailEarly, Goto
<1>4. ASSUME NEW r \in Runs, Open(r)
      PROVE  RunsInv'
  BY <1>0, <1>4 DEF Open, Goto
<1>5. ASSUME NEW r \in Runs, Trigger(r)
      PROVE  RunsInv'
  <2>1. /\ r \in opened \/ r \notin Served
        /\ place[r] # "none" /\ place'[r] # "none"
        /\ \A q \in Runs : q # r => written'[q] = written[q]
    BY <1>0, <1>5 DEF Trigger, Appended
  <2>. QED
    BY <1>0, <1>5, <2>1 DEF Trigger
<1>6. ASSUME NEW r \in Runs, Rest(r)
      PROVE  RunsInv'
  <2>1. /\ r \in opened \/ r \notin Served
        /\ place[r] # "none" /\ place'[r] # "none"
        /\ \A q \in Runs : q # r => written'[q] = written[q]
    BY <1>0, <1>6 DEF Rest, Goto, Appended
  <2>. QED
    BY <1>0, <1>6, <2>1 DEF Rest, Goto
<1>7. ASSUME NEW r \in Runs, WriteHalf(r)
      PROVE  RunsInv'
  BY <1>0, <1>7 DEF WriteHalf, Goto, PlainOutside
<1>8. ASSUME NEW r \in Runs, WriteRest(r)
      PROVE  RunsInv'
  BY <1>0, <1>8 DEF WriteRest, Goto
<1>9. ASSUME NEW r \in Runs, WriteLine(r)
      PROVE  RunsInv'
  BY <1>0, <1>9 DEF WriteLine
<1>10. ASSUME NEW r \in Runs, Redact(r)
      PROVE  RunsInv'
  <2>1. r \in Served
    <3>1. PICK n : <<r, n>> \in Secrets
      BY <1>10, RedactsItsOwn
    <3>. QED
      BY <3>1 DEF PlainOutside
  <2>. QED
    BY <1>0, <1>10, <2>1 DEF Redact, Goto
<1>11. ASSUME NEW r \in Runs, Rewrite(r)
      PROVE  RunsInv'
  BY <1>0, <1>11 DEF Rewrite, Goto
<1>12. ASSUME NEW r \in Runs, Raise(r)
      PROVE  RunsInv'
  BY <1>0, <1>12 DEF Raise, Goto, Recording
<1>13. ASSUME NEW r \in Runs, Unlock(r)
      PROVE  RunsInv'
  BY <1>0, <1>13 DEF Unlock, Goto, Recording
<1>14. ASSUME NEW r \in Runs, ErrorEvent(r)
      PROVE  RunsInv'
  <2>1. /\ r \in opened \/ r \notin Served
        /\ place[r] # "none" /\ place'[r] # "none"
        /\ \A q \in Runs : q # r => written'[q] = written[q]
    BY <1>0, <1>14 DEF ErrorEvent, Goto, Appended
  <2>. QED
    BY <1>0, <1>14, <2>1 DEF ErrorEvent, Goto
<1>15. ASSUME NEW r \in Runs, SampleEnd(r)
      PROVE  RunsInv'
  BY <1>0, <1>15 DEF SampleEnd, Goto
<1>16. ASSUME NEW r \in Runs, Free(r)
      PROVE  RunsInv'
  BY <1>0, <1>16 DEF Free, Goto
<1>17. ASSUME NEW r \in Runs, MarkDone(r)
      PROVE  RunsInv'
  BY <1>0, <1>17 DEF MarkDone, Goto
<1>18. ASSUME NEW r \in Runs, Evict(r)
      PROVE  RunsInv'
  BY <1>0, <1>18 DEF Evict
<1>19. ASSUME NEW v \in Viewers, Poll(v) \/ \E r \in Served : Attach(v, r)
      PROVE  RunsInv'
  BY <1>0, <1>19 DEF Poll, Follow, GiveUp, AskEnd, Read, Drain, Cut, Attach
<1>20. CASE UNCHANGED vars
  BY <1>0, <1>20 DEF vars
<1>. QED
  BY <1>1, <1>2, <1>3, <1>4, <1>5, <1>6, <1>7, <1>8, <1>9, <1>10, <1>11, <1>12, <1>13,
     <1>14, <1>15, <1>16, <1>17, <1>18, <1>19, <1>20 DEF Next, Work

-----------------------------------------------------------------------------
(* What a step does to what the file holds: nothing but hiding secrets, or a line, the     *)
(* first part of one, or its end is added.                                                 *)

LEMMA LogType ==
  ASSUME TypesInv
  PROVE  /\ Log \in Seq(Cells) /\ Len(Log) \in Nat /\ DOMAIN Log = 1 .. Len(Log)
         /\ \A k \in DOMAIN Log :
              /\ Log[k] \in Cells /\ Log[k].event \in Events
              /\ Log[k].event[1] \in Runs /\ Log[k].event[2] \in Nat
<1>1. Log \in Seq(Cells)
  BY DEF TypesInv, TypeOK, Log
<1>2. Len(Log) \in Nat /\ DOMAIN Log = 1 .. Len(Log)
  BY <1>1, LenProperties
<1>3. ASSUME NEW k \in DOMAIN Log
      PROVE  /\ Log[k] \in Cells /\ Log[k].event \in Events
             /\ Log[k].event[1] \in Runs /\ Log[k].event[2] \in Nat
  <2>1. Log[k] \in Cells /\ Log[k].event \in Events
    BY <1>1, FileCell
  <2>. QED
    BY <2>1 DEF Events
<1>. QED
  BY <1>1, <1>2, <1>3

Masked(c, d) == d = c \/ (c.part = "secret" /\ d = Cell(c.event, "mask"))

Kept ==
  /\ written' = written
  /\ \A q \in Runs : place'[q] = "half" <=> place[q] = "half"
  /\ Len(Log') = Len(Log) /\ DOMAIN Log' = DOMAIN Log
  /\ \A k \in DOMAIN Log : Masked(Log[k], Log'[k])
  /\ \A k \in DOMAIN Log : Log'[k].part = "secret" => place'[Log[k].event[1]] \in {"run", "half"}

Grows(r) ==
  /\ place[r] \in {"run", "half"} \/ (r \in Served /\ place[r] \in {"wait", "raised"})
  /\ \A q \in Runs : q # r => place'[q] = place[q] /\ written'[q] = written[q]
  /\ place[r] \in {"run", "half"} => place'[r] \in {"run", "half"}
  /\ Len(Log') \in Nat /\ Len(Log) < Len(Log') /\ DOMAIN Log' = 1 .. Len(Log')
  /\ \A k \in DOMAIN Log : Log'[k] = Log[k]
  /\ \A k \in Len(Log) + 1 .. Len(Log') :
       /\ Log'[k].event = <<r, written[r] + 1>>
       /\ Log'[k].part = "secret" =>
            <<r, written[r] + 1>> \in Secrets /\ place'[r] \in {"run", "half"}

AddsLine(r) ==
  /\ Grows(r)
  /\ place[r] # "half" /\ place'[r] # "half" /\ written'[r] = written[r] + 1
  /\ Len(Log) + 1 < Len(Log') /\ Log'[Len(Log) + 1] = Cell(<<r, written[r] + 1>>, "head")
  /\ Log'[Len(Log')] = Cell(<<r, written[r] + 1>>, "newline")
  /\ \A k \in Len(Log) + 1 .. Len(Log') : Log'[k].part = "newline" => k = Len(Log')

AddsBody(r) ==
  /\ Grows(r)
  /\ place[r] = "run" /\ place'[r] = "half" /\ written'[r] = written[r]
  /\ Log'[Len(Log) + 1] = Cell(<<r, written[r] + 1>>, "head")
  /\ \A k \in Len(Log) + 1 .. Len(Log') : Log'[k].part # "newline"

AddsEnd(r) ==
  /\ Grows(r)
  /\ place[r] = "half" /\ place'[r] = "run" /\ written'[r] = written[r] + 1
  /\ Len(Log') = Len(Log) + 1
  /\ Log'[Len(Log')] = Cell(<<r, written[r] + 1>>, "newline")

LogStep == Kept \/ \E r \in Runs : AddsLine(r) \/ AddsBody(r) \/ AddsEnd(r)

\* A step that leaves the file alone.
LEMMA NothingWritten ==
  ASSUME TypesInv, WrittenInv, UNCHANGED <<file, clean, written>>,
         NEW r \in Runs, NEW p \in Places, place' = [place EXCEPT ![r] = p],
         place[r] \notin {"half", "rewrite"}, p \notin {"half", "rewrite"},
         \A k \in DOMAIN Log : Log[k].part = "secret" /\ Log[k].event[1] = r => p = "run"
  PROVE  LogStep
<1>1. place \in [Runs -> Places]
  BY RunTypes
<1>2. Log' = Log
  BY <1>1 DEF Log, Rewriting
<1>3. \A k \in DOMAIN Log : Log[k].event[1] \in Runs
  BY LogType
<1>4. \A k \in DOMAIN Log : Log'[k].part = "secret" => place'[Log[k].event[1]] \in {"run", "half"}
  BY <1>1, <1>2, <1>3 DEF WrittenInv
<1>. QED
  BY <1>1, <1>2, <1>4 DEF LogStep, Kept, Masked

LEMMA NobodyMoved ==
  ASSUME TypesInv, WrittenInv, UNCHANGED <<file, clean, written, place>>
  PROVE  LogStep
<1>1. Log' = Log
  BY DEF Log, Rewriting
<1>. QED
  BY <1>1 DEF LogStep, Kept, Masked, WrittenInv

\* No secret is left of a run that is not at its stages.
LEMMA NoSecretOf ==
  ASSUME TypesInv, WrittenInv, NEW r \in Runs, place[r] \notin {"run", "half"}
  PROVE  \A k \in DOMAIN Log : Log[k].part = "secret" => Log[k].event[1] # r
BY DEF WrittenInv

\* Cells that are added at the end of the file, and of the log with it.
LEMMA CellsAdded ==
  ASSUME TypesInv, RunsInv, NEW r \in Runs, place[r] # "rewrite", place'[r] # "rewrite",
         r = holder \/ (r \in Served /\ place[r] \notin Idle),
         \A q \in Runs : q # r => place'[q] = place[q],
         NEW cells \in Seq(Cells), file' = file \o cells, cells # <<>>
  PROVE  /\ Log = file /\ Log' = file'
         /\ Len(Log') \in Nat /\ Len(Log') = Len(Log) + Len(cells) /\ Len(Log) < Len(Log')
         /\ DOMAIN Log' = 1 .. Len(Log')
         /\ \A k \in DOMAIN Log : Log'[k] = Log[k]
         /\ \A k \in Len(Log) + 1 .. Len(Log') : Log'[k] = cells[k - Len(Log)]
<1>1. ~Rewriting /\ Log = file
  BY FileIsLog
<1>2. ~Rewriting' /\ Log' = file'
  BY <1>1 DEF Rewriting, Log
<1>3. file \in Seq(Cells) /\ Len(file) \in Nat /\ DOMAIN file = 1 .. Len(file)
  BY <1>1, LogType
<1>4. Len(cells) \in Nat \ {0} /\ DOMAIN cells = 1 .. Len(cells)
  BY LenProperties, EmptySeq
<1>5. /\ file' \in Seq(Cells) /\ Len(file') = Len(file) + Len(cells)
      /\ \A i \in 1 .. Len(file) + Len(cells) :
           file'[i] = IF i <= Len(file) THEN file[i] ELSE cells[i - Len(file)]
  BY <1>3, ConcatProperties
<1>6. DOMAIN file' = 1 .. Len(file')
  BY <1>5, LenProperties
<1>. QED
  BY <1>1, <1>2, <1>3, <1>4, <1>5, <1>6

\* The pieces of a line of event e.
LEMMA LineCells ==
  ASSUME NEW e
  PROVE  /\ Len(Line(e)) = 2 /\ Line(e)[1] = Cell(e, "head") /\ Line(e)[2] = Cell(e, "newline")
         /\ Len(Body(e)) \in 1 .. 2 /\ Body(e)[1] = Cell(e, "head")
         /\ Len(Body(e)) = 2 => Body(e)[2] = Cell(e, "secret") /\ e \in Secrets
<1>1. CASE e \in Secrets
  <2>. DEFINE a == Cell(e, "head")
              b == Cell(e, "secret")
  <2>1. <<a>> \in Seq({a, b}) /\ <<b>> \in Seq({a, b})
    OBVIOUS
  <2>2. Body(e) = <<a>> \o <<b>>
    BY <1>1 DEF Body
  <2>. HIDE DEF a, b
  <2>3. Len(<<a>> \o <<b>>) = 2 /\ (<<a>> \o <<b>>)[1] = a /\ (<<a>> \o <<b>>)[2] = b
    BY <2>1, ConcatProperties
  <2>. QED
    BY <1>1, <2>2, <2>3 DEF Line, a, b
<1>2. CASE e \notin Secrets
  <2>1. Body(e) = <<Cell(e, "head")>>
    BY <1>2 DEF Body
  <2>. QED
    BY <2>1 DEF Line
<1>. QED
  BY <1>1, <1>2

LEMMA CellParts == \A e, part : Cell(e, part).event = e /\ Cell(e, part).part = part
BY DEF Cell

LEMMA LineAdded ==
  ASSUME TypesInv, RunsInv, NEW r \in Runs, place[r] \in {"wait", "raised"}, r \in Served,
         place'[r] \notin {"half", "rewrite"},
         \A q \in Runs : q # r => place'[q] = place[q],
         Appended(r)
  PROVE  AddsLine(r)
<1>. DEFINE e == <<r, written[r] + 1>>
<1>1. e \in Events /\ written \in [Runs -> 0 .. MaxEvents + 1]
  BY NextEvent, RunTypes DEF TypesInv, CountInv
<1>2. Line(e) \in Seq(Cells) /\ Len(Line(e)) = 2 /\ Line(e) # <<>>
  BY <1>1, LineTypes, LineCells, EmptySeq
<1>3. file' = file \o Line(e) /\ written' = [written EXCEPT ![r] = written[r] + 1]
  BY DEF Appended
<1>. HIDE DEF e
<1>4. /\ Len(Log') \in Nat /\ Len(Log') = Len(Log) + 2 /\ DOMAIN Log' = 1 .. Len(Log')
      /\ \A k \in DOMAIN Log : Log'[k] = Log[k]
      /\ \A k \in Len(Log) + 1 .. Len(Log') : Log'[k] = Line(e)[k - Len(Log)]
  BY <1>2, <1>3, CellsAdded DEF Idle
<1>5. Len(Log) \in Nat
  BY LogType
<1>6. Log'[Len(Log) + 1] = Cell(e, "head") /\ Log'[Len(Log')] = Cell(e, "newline")
  BY <1>4, <1>5, LineCells
<1>7. \A k \in Len(Log) + 1 .. Len(Log') : k = Len(Log) + 1 \/ k = Len(Log')
  BY <1>4, <1>5
<1>8. Grows(r)
  BY <1>1, <1>3, <1>4, <1>5, <1>6, <1>7, CellParts DEF Grows, e
<1>. QED
  BY <1>1, <1>3, <1>4, <1>5, <1>6, <1>7, <1>8, CellParts DEF AddsLine, e

-----------------------------------------------------------------------------
(* Every step is one of them.                                              *)

LEMMA BodyAdded ==
  ASSUME PlainOutside, TypesInv, RunsInv, NEW r \in Runs, WriteHalf(r)
  PROVE  AddsBody(r)
<1>. DEFINE e == <<r, written[r] + 1>>
<1>0. /\ place[r] = "run" /\ place' = [place EXCEPT ![r] = "half"] /\ written' = written
      /\ written[r] <= MaxEvents /\ r \in Served /\ r = holder
  BY DEF WriteHalf, Goto, PlainOutside, RunsInv, Holding, TypesInv, CountInv
<1>1. /\ e \in Events /\ written \in [Runs -> 0 .. MaxEvents + 1]
      /\ place \in [Runs -> Places]
  BY <1>0, NextEvent, RunTypes DEF TypesInv
<1>2. Body(e) \in Seq(Cells) /\ Len(Body(e)) \in 1 .. 2 /\ Body(e) # <<>>
  BY <1>1, LineTypes, LineCells, EmptySeq
<1>3. file' = file \o Body(e)
  BY DEF WriteHalf
<1>4. place'[r] = "half" /\ \A q \in Runs : q # r => place'[q] = place[q]
  BY <1>0, <1>1
<1>. HIDE DEF e
<1>5. /\ Len(Log') \in Nat /\ Len(Log') = Len(Log) + Len(Body(e)) /\ DOMAIN Log' = 1 .. Len(Log')
      /\ \A k \in DOMAIN Log : Log'[k] = Log[k]
      /\ \A k \in Len(Log) + 1 .. Len(Log') : Log'[k] = Body(e)[k - Len(Log)]
  BY <1>0, <1>2, <1>3, <1>4, CellsAdded
<1>6. Len(Log) \in Nat
  BY LogType
<1>7. Log'[Len(Log) + 1] = Cell(e, "head")
  BY <1>2, <1>5, <1>6, LineCells
<1>8. \A k \in Len(Log) + 1 .. Len(Log') :
        Log'[k] = Cell(e, "head") \/ (Log'[k] = Cell(e, "secret") /\ e \in Secrets)
  <2>. SUFFICES ASSUME NEW k \in Len(Log) + 1 .. Len(Log')
                PROVE  Log'[k] = Cell(e, "head") \/ (Log'[k] = Cell(e, "secret") /\ e \in Secrets)
    OBVIOUS
  <2>1. k - Len(Log) = 1 \/ (k - Len(Log) = 2 /\ Len(Body(e)) = 2)
    BY <1>2, <1>5, <1>6
  <2>. QED
    BY <1>5, <2>1, LineCells
<1>9. /\ Len(Log) < Len(Log')
      /\ \A k \in Len(Log) + 1 .. Len(Log') :
           /\ Log'[k].event = e /\ Log'[k].part # "newline"
           /\ Log'[k].part = "secret" => e \in Secrets
  BY <1>2, <1>5, <1>6, <1>8, CellParts
<1>10. \A q \in Runs : q # r => written'[q] = written[q]
  BY <1>0
<1>11. Grows(r)
  BY <1>0, <1>4, <1>5, <1>9, <1>10 DEF Grows, e
<1>. QED
  BY <1>0, <1>4, <1>7, <1>9, <1>11 DEF AddsBody, e

LEMMA EndAdded ==
  ASSUME TypesInv, RunsInv, NEW r \in Runs, WriteRest(r)
  PROVE  AddsEnd(r)
<1>. DEFINE e == <<r, written[r] + 1>>
            c == Cell(e, "newline")
<1>0. /\ place[r] = "half" /\ place' = [place EXCEPT ![r] = "run"]
      /\ written' = [written EXCEPT ![r] = written[r] + 1]
      /\ written[r] <= MaxEvents /\ r \in Served /\ r = holder
  <2>1. written[r] < MaxEvents
    BY DEF WriteRest, TypesInv, CountInv
  <2>2. written[r] \in Int /\ MaxEvents \in Int
    BY RunTypes, EventStreamAssumption
  <2>. QED
    BY <2>1, <2>2 DEF WriteRest, Goto, RunsInv, Holding
<1>1. /\ e \in Events /\ written \in [Runs -> 0 .. MaxEvents + 1]
      /\ place \in [Runs -> Places]
  BY <1>0, NextEvent, RunTypes DEF TypesInv
<1>2. c \in Cells
  BY <1>1, CellType
<1>3. file' = Append(file, c)
  BY DEF WriteRest
<1>4. place'[r] = "run" /\ \A q \in Runs : q # r => place'[q] = place[q]
  BY <1>0, <1>1
<1>. HIDE DEF e, c
<1>5. file \in Seq(Cells)
  BY DEF TypesInv, TypeOK
<1>6. file' = file \o <<c>>
  BY <1>2, <1>3, <1>5, AppendIsConcat
<1>7. <<c>> \in Seq(Cells) /\ <<c>> # <<>> /\ Len(<<c>>) = 1 /\ <<c>>[1] = c
  BY <1>2
<1>8. /\ Len(Log') \in Nat /\ Len(Log') = Len(Log) + 1 /\ DOMAIN Log' = 1 .. Len(Log')
      /\ \A k \in DOMAIN Log : Log'[k] = Log[k]
      /\ \A k \in Len(Log) + 1 .. Len(Log') : Log'[k] = <<c>>[k - Len(Log)]
  <2>. DEFINE cells == <<c>>
  <2>. HIDE DEF cells
  <2>1. cells \in Seq(Cells) /\ cells # <<>> /\ Len(cells) = 1 /\ file' = file \o cells
    BY <1>6, <1>7 DEF cells
  <2>2. /\ Len(Log') \in Nat /\ Len(Log') = Len(Log) + 1 /\ DOMAIN Log' = 1 .. Len(Log')
        /\ \A k \in DOMAIN Log : Log'[k] = Log[k]
        /\ \A k \in Len(Log) + 1 .. Len(Log') : Log'[k] = cells[k - Len(Log)]
    BY <1>0, <1>4, <2>1, CellsAdded
  <2>. QED
    BY <2>2 DEF cells
<1>9. Len(Log) \in Nat
  BY LogType
<1>10. Log'[Len(Log')] = c /\ \A k \in Len(Log) + 1 .. Len(Log') : Log'[k] = c
  BY <1>7, <1>8, <1>9
<1>11. Grows(r)
  BY <1>0, <1>1, <1>4, <1>8, <1>9, <1>10, CellParts DEF Grows, e, c
<1>. QED
  BY <1>0, <1>1, <1>4, <1>8, <1>10, <1>11, CellParts DEF AddsEnd, e, c

LEMMA CellOfLine ==
  ASSUME NEW m \in Nat, NEW b \in 1 .. 2, NEW k \in m + 1 .. m + b + 1, k # m + b + 1
  PROVE  (k - m = 1 \/ (k - m = 2 /\ b = 2)) /\ k - m \in 1 .. b
OBVIOUS

LEMMA WholeLineAdded ==
  ASSUME TypesInv, RunsInv, NEW r \in Runs, WriteLine(r)
  PROVE  AddsLine(r)
<1>. DEFINE e == <<r, written[r] + 1>>
            c == Cell(e, "newline")
            cells == Append(Body(e), c)
<1>0. /\ place[r] = "run" /\ place' = place
      /\ written' = [written EXCEPT ![r] = written[r] + 1]
      /\ written[r] <= MaxEvents /\ r = holder
  BY DEF WriteLine, RunsInv, Holding, TypesInv, CountInv
<1>1. /\ e \in Events /\ written \in [Runs -> 0 .. MaxEvents + 1]
      /\ place \in [Runs -> Places]
  BY <1>0, NextEvent, RunTypes DEF TypesInv
<1>2. Body(e) \in Seq(Cells) /\ Len(Body(e)) \in 1 .. 2 /\ c \in Cells
  BY <1>1, LineTypes, LineCells, CellType
<1>3. file' = file \o cells
  BY DEF WriteLine
<1>4. /\ cells \in Seq(Cells) /\ cells # <<>> /\ Len(cells) = Len(Body(e)) + 1
      /\ \A i \in 1 .. Len(Body(e)) : cells[i] = Body(e)[i]
      /\ cells[Len(Body(e)) + 1] = c
  <2>. HIDE DEF e, c
  <2>. QED
    BY <1>2, AppendProperties
<1>. HIDE DEF e, c, cells
<1>5. /\ Len(Log') \in Nat /\ Len(Log') = Len(Log) + Len(cells) /\ DOMAIN Log' = 1 .. Len(Log')
      /\ \A k \in DOMAIN Log : Log'[k] = Log[k]
      /\ \A k \in Len(Log) + 1 .. Len(Log') : Log'[k] = cells[k - Len(Log)]
  BY <1>0, <1>3, <1>4, CellsAdded
<1>6. Len(Log) \in Nat
  BY LogType
<1>7. Log'[Len(Log) + 1] = Cell(e, "head") /\ Log'[Len(Log')] = c /\ Len(Log) + 1 < Len(Log')
  BY <1>2, <1>4, <1>5, <1>6, LineCells
<1>8. \A k \in Len(Log) + 1 .. Len(Log') :
        \/ Log'[k] = Cell(e, "head") \/ (Log'[k] = Cell(e, "secret") /\ e \in Secrets)
        \/ k = Len(Log')
  <2>. SUFFICES ASSUME NEW k \in Len(Log) + 1 .. Len(Log'), k # Len(Log')
                PROVE  Log'[k] = Cell(e, "head") \/ (Log'[k] = Cell(e, "secret") /\ e \in Secrets)
    OBVIOUS
  <2>. DEFINE m == Len(Log)
              b == Len(Body(e))
  <2>0. m \in Nat /\ b \in 1 .. 2 /\ Len(Log') = m + b + 1
    BY <1>2, <1>4, <1>5, <1>6
  <2>. HIDE DEF m, b
  <2>1. (k - m = 1 \/ (k - m = 2 /\ b = 2)) /\ k - m \in 1 .. b
    <3>1. k \in m + 1 .. m + b + 1 /\ k # m + b + 1
      BY <2>0 DEF m
    <3>. QED
      BY <2>0, <3>1, CellOfLine
  <2>2. Log'[k] = Body(e)[k - m]
    BY <1>4, <1>5, <2>1 DEF m, b
  <2>. QED
    BY <2>1, <2>2, LineCells DEF b
<1>9. \A k \in Len(Log) + 1 .. Len(Log') :
        /\ Log'[k].event = e
        /\ Log'[k].part = "secret" => e \in Secrets
        /\ Log'[k].part = "newline" => k = Len(Log')
  BY <1>7, <1>8, CellParts DEF c
<1>10. Len(Log) < Len(Log')
  BY <1>5, <1>6, <1>7
<1>11. \A q \in Runs : q # r => place'[q] = place[q] /\ written'[q] = written[q]
  BY <1>0, <1>1
<1>12. Grows(r)
  BY <1>0, <1>5, <1>9, <1>10, <1>11 DEF Grows, e
<1>. QED
  BY <1>0, <1>1, <1>5, <1>7, <1>9, <1>12 DEF AddsLine, e, c

LEMMA RedactKeeps ==
  ASSUME SameSize, TypesInv, RunsInv, WrittenInv, NEW r \in Runs, Redact(r)
  PROVE  Kept
<1>0. MaskSize = 1
  BY RedactsItsOwn DEF SameSize
<1>1. /\ place[r] = "run" /\ place' = [place EXCEPT ![r] = "rewrite"] /\ written' = written
      /\ clean' = Redacted(file) /\ r = holder /\ place \in [Runs -> Places]
  BY RunTypes DEF Redact, Goto, RunsInv, Holding
<1>2. Log = file
  BY <1>1, FileIsLog
<1>3. Log' = Redacted(file)
  BY <1>1 DEF Log, Rewriting
<1>4. file \in Seq(Cells) /\ Redacted(file) \in Seq(Cells)
  BY RedactedType DEF TypesInv, TypeOK
<1>5. /\ Len(Redacted(file)) = Len(file)
      /\ \A k \in DOMAIN file : Redacted(file)[k] =
           IF file[k].part = "secret" THEN Cell(file[k].event, "mask") ELSE file[k]
  BY <1>0, <1>4, RedactedInPlace
<1>6. Len(Log') = Len(Log) /\ DOMAIN Log' = DOMAIN Log
  BY <1>2, <1>3, <1>4, <1>5, LenProperties
<1>7. ASSUME NEW k \in DOMAIN Log
      PROVE  Masked(Log[k], Log'[k]) /\ Log'[k].part # "secret"
  BY <1>2, <1>3, <1>5, CellParts DEF Masked
<1>. QED
  BY <1>1, <1>6, <1>7 DEF Kept

LEMMA RewriteKeeps ==
  ASSUME TypesInv, RunsInv, WrittenInv, NEW r \in Runs, Rewrite(r)
  PROVE  Kept
<1>1. /\ place[r] = "rewrite" /\ place' = [place EXCEPT ![r] = "report"] /\ written' = written
      /\ r = holder /\ place \in [Runs -> Places] /\ file = <<>>
      /\ file' = clean \o SubSeq(file, Len(clean) + 1, Len(file))
  BY RunTypes DEF Rewrite, Goto, RunsInv, Holding
<1>2. clean \in Seq(Cells) /\ Len(clean) \in Nat
  BY LenProperties DEF TypesInv, TypeOK
<1>3. SubSeq(file, Len(clean) + 1, Len(file)) = <<>>
  BY <1>1, <1>2
<1>4. file' = clean
  BY <1>1, <1>2, <1>3, ConcatEmptySeq
<1>5. Log = clean
  BY <1>1 DEF Log, Rewriting
<1>6. ~Rewriting'
  BY <1>1, NobodyElse DEF Rewriting
<1>7. Log' = Log
  BY <1>4, <1>5, <1>6 DEF Log
<1>8. \A k \in DOMAIN Log : Log[k].part = "secret" => Log[k].event[1] # r
  BY <1>1, NoSecretOf
<1>9. \A k \in DOMAIN Log : Log[k].event[1] \in Runs
  BY LogType
<1>10. \A k \in DOMAIN Log : Log[k].part = "secret" => place'[Log[k].event[1]] \in {"run", "half"}
  BY <1>1, <1>8, <1>9 DEF WrittenInv
<1>. QED
  BY <1>1, <1>7, <1>10 DEF Kept, Masked

LEMMA LogSteps ==
  ASSUME SameSize, PlainOutside, TypesInv, RunsInv, WrittenInv, [Next]_vars
  PROVE  LogStep
<1>1. ASSUME NEW r \in Runs, Start(r)
      PROVE  LogStep
  <2>. PICK p \in Places : p = "load"
    BY DEF Places
  <2>1. UNCHANGED <<file, clean, written>> /\ place' = [place EXCEPT ![r] = p]
    BY <1>1 DEF Start, Goto
  <2>2. \A k \in DOMAIN Log : Log[k].part = "secret" => Log[k].event[1] # r
    BY <1>1, NoSecretOf DEF Start
  <2>3. place[r] \notin {"half", "rewrite"} /\ p \notin {"half", "rewrite"}
    BY <1>1 DEF Start
  <2>. QED
    BY <1>1, <2>1, <2>2, <2>3, NothingWritten
<1>2. ASSUME NEW r \in Runs, Lock(r)
      PROVE  LogStep
  <2>1. UNCHANGED <<file, clean, written>> /\ place' = [place EXCEPT ![r] = "run"]
    BY <1>2 DEF Lock, Goto
  <2>. QED
    BY <1>2, <2>1, NothingWritten DEF Lock, Places
<1>3. ASSUME NEW r \in Runs, FailEarly(r)
      PROVE  LogStep
  <2>. PICK p \in Places : p = "free"
    BY DEF Places
  <2>1. UNCHANGED <<file, clean, written>> /\ place' = [place EXCEPT ![r] = p]
    BY <1>3 DEF FailEarly, Goto
  <2>2. \A k \in DOMAIN Log : Log[k].part = "secret" => Log[k].event[1] # r
    BY <1>3, NoSecretOf DEF FailEarly
  <2>3. place[r] \notin {"half", "rewrite"} /\ p \notin {"half", "rewrite"}
    BY <1>3 DEF FailEarly
  <2>. QED
    BY <1>3, <2>1, <2>2, <2>3, NothingWritten
<1>4. ASSUME NEW r \in Runs, Open(r)
      PROVE  LogStep
  <2>. PICK p \in Places : p = "wait"
    BY DEF Places
  <2>1. UNCHANGED <<file, clean, written>> /\ place' = [place EXCEPT ![r] = p]
    BY <1>4 DEF Open, Goto
  <2>2. \A k \in DOMAIN Log : Log[k].part = "secret" => Log[k].event[1] # r
    BY <1>4, NoSecretOf DEF Open
  <2>3. place[r] \notin {"half", "rewrite"} /\ p \notin {"half", "rewrite"}
    BY <1>4 DEF Open
  <2>. QED
    BY <1>4, <2>1, <2>2, <2>3, NothingWritten
<1>5. ASSUME NEW r \in Runs, Trigger(r)
      PROVE  LogStep
  <2>1. place \in [Runs -> Places]
    BY RunTypes
  <2>2. /\ place[r] \in {"wait", "raised"} /\ r \in Served /\ Appended(r)
        /\ place'[r] \notin {"half", "rewrite"} /\ \A q \in Runs : q # r => place'[q] = place[q]
    BY <1>5, <2>1 DEF Trigger
  <2>. QED
    BY <2>2, LineAdded DEF LogStep
<1>6. ASSUME NEW r \in Runs, Rest(r)
      PROVE  LogStep
  <2>1. place \in [Runs -> Places]
    BY RunTypes
  <2>2. /\ place[r] \in {"wait", "raised"} /\ r \in Served /\ Appended(r)
        /\ place'[r] \notin {"half", "rewrite"} /\ \A q \in Runs : q # r => place'[q] = place[q]
    BY <1>6, <2>1 DEF Rest, Goto
  <2>. QED
    BY <2>2, LineAdded DEF LogStep
<1>7. ASSUME NEW r \in Runs, WriteHalf(r)
      PROVE  LogStep
  BY <1>7, BodyAdded DEF LogStep
<1>8. ASSUME NEW r \in Runs, WriteRest(r)
      PROVE  LogStep
  BY <1>8, EndAdded DEF LogStep
<1>9. ASSUME NEW r \in Runs, WriteLine(r)
      PROVE  LogStep
  BY <1>9, WholeLineAdded DEF LogStep
<1>10. ASSUME NEW r \in Runs, Redact(r)
      PROVE  LogStep
  BY <1>10, RedactKeeps DEF LogStep
<1>11. ASSUME NEW r \in Runs, Rewrite(r)
      PROVE  LogStep
  BY <1>11, RewriteKeeps DEF LogStep
<1>12. ASSUME NEW r \in Runs, Raise(r)
      PROVE  LogStep
  <2>1. ASSUME NEW p \in {"raised", "end", "over"}, place' = [place EXCEPT ![r] = p]
        PROVE  LogStep
    <3>1. UNCHANGED <<file, clean, written>> /\ p \in Places
      BY <1>12, <2>1 DEF Raise, Places
    <3>2. \A k \in DOMAIN Log : Log[k].part = "secret" => Log[k].event[1] # r
      <4>1. CASE place[r] = "run"
        <5>1. ~Secret(file) /\ r = holder
          BY <1>12, <4>1 DEF Raise, Recording, RunsInv, Holding
        <5>. QED
          BY <4>1, <5>1, FileIsLog DEF Secret
      <4>2. CASE place[r] # "run"
        <5>1. place[r] \notin {"run", "half"}
          BY <1>12, <4>2 DEF Raise, Recording
        <5>. QED
          BY <5>1, NoSecretOf
      <4>. QED
        BY <4>1, <4>2
    <3>3. place[r] \notin {"half", "rewrite"}
      BY <1>12 DEF Raise, Recording
    <3>. QED
      BY <2>1, <3>1, <3>2, <3>3, NothingWritten
  <2>. QED
    BY <1>12, <2>1 DEF Raise, Goto
<1>13. ASSUME NEW r \in Runs, Unlock(r)
      PROVE  LogStep
  <2>1. ASSUME NEW p \in {"raised", "end", "over"}, place' = [place EXCEPT ![r] = p]
        PROVE  LogStep
    <3>1. UNCHANGED <<file, clean, written>> /\ p \in Places
      BY <1>13, <2>1 DEF Unlock, Places
    <3>2. \A k \in DOMAIN Log : Log[k].part = "secret" => Log[k].event[1] # r
      <4>1. CASE place[r] = "run"
        <5>1. ~Secret(file) /\ r = holder
          BY <1>13, <4>1 DEF Unlock, Recording, RunsInv, Holding
        <5>. QED
          BY <4>1, <5>1, FileIsLog DEF Secret
      <4>2. CASE place[r] # "run"
        <5>1. place[r] \notin {"run", "half"}
          BY <1>13, <4>2 DEF Unlock, Recording
        <5>. QED
          BY <5>1, NoSecretOf
      <4>. QED
        BY <4>1, <4>2
    <3>3. place[r] \notin {"half", "rewrite"}
      BY <1>13 DEF Unlock, Recording
    <3>. QED
      BY <2>1, <3>1, <3>2, <3>3, NothingWritten
  <2>. QED
    BY <1>13, <2>1 DEF Unlock, Goto
<1>14. ASSUME NEW r \in Runs, ErrorEvent(r)
      PROVE  LogStep
  <2>1. place \in [Runs -> Places]
    BY RunTypes
  <2>2. /\ place[r] \in {"wait", "raised"} /\ r \in Served /\ Appended(r)
        /\ place'[r] \notin {"half", "rewrite"} /\ \A q \in Runs : q # r => place'[q] = place[q]
    BY <1>14, <2>1 DEF ErrorEvent, Goto, RunsInv
  <2>. QED
    BY <2>2, LineAdded DEF LogStep
<1>15. ASSUME NEW r \in Runs, SampleEnd(r)
      PROVE  LogStep
  <2>. PICK p \in Places : p = "free"
    BY DEF Places
  <2>1. UNCHANGED <<file, clean, written>> /\ place' = [place EXCEPT ![r] = p]
    BY <1>15 DEF SampleEnd, Goto
  <2>2. \A k \in DOMAIN Log : Log[k].part = "secret" => Log[k].event[1] # r
    BY <1>15, NoSecretOf DEF SampleEnd
  <2>3. place[r] \notin {"half", "rewrite"} /\ p \notin {"half", "rewrite"}
    BY <1>15 DEF SampleEnd
  <2>. QED
    BY <1>15, <2>1, <2>2, <2>3, NothingWritten
<1>16. ASSUME NEW r \in Runs, Free(r)
      PROVE  LogStep
  <2>. PICK p \in Places : p = "mark"
    BY DEF Places
  <2>1. UNCHANGED <<file, clean, written>> /\ place' = [place EXCEPT ![r] = p]
    BY <1>16 DEF Free, Goto
  <2>2. \A k \in DOMAIN Log : Log[k].part = "secret" => Log[k].event[1] # r
    BY <1>16, NoSecretOf DEF Free
  <2>3. place[r] \notin {"half", "rewrite"} /\ p \notin {"half", "rewrite"}
    BY <1>16 DEF Free
  <2>. QED
    BY <1>16, <2>1, <2>2, <2>3, NothingWritten
<1>17. ASSUME NEW r \in Runs, MarkDone(r)
      PROVE  LogStep
  <2>. PICK p \in Places : p = "over"
    BY DEF Places
  <2>1. UNCHANGED <<file, clean, written>> /\ place' = [place EXCEPT ![r] = p]
    BY <1>17 DEF MarkDone, Goto
  <2>2. \A k \in DOMAIN Log : Log[k].part = "secret" => Log[k].event[1] # r
    BY <1>17, NoSecretOf DEF MarkDone
  <2>3. place[r] \notin {"half", "rewrite"} /\ p \notin {"half", "rewrite"}
    BY <1>17 DEF MarkDone
  <2>. QED
    BY <1>17, <2>1, <2>2, <2>3, NothingWritten
<1>18. ASSUME NEW r \in Runs, Evict(r)
      PROVE  LogStep
  BY <1>18, NobodyMoved DEF Evict
<1>19. ASSUME NEW v \in Viewers, Poll(v) \/ \E r \in Served : Attach(v, r)
      PROVE  LogStep
  <2>1. UNCHANGED <<file, clean, written, place>>
    BY <1>19 DEF Poll, Follow, GiveUp, AskEnd, Read, Drain, Cut, Attach, runVars
  <2>. QED
    BY <2>1, NobodyMoved
<1>20. CASE UNCHANGED vars
  BY <1>20, NobodyMoved DEF vars, runVars
<1>. QED
  BY <1>1, <1>2, <1>3, <1>4, <1>5, <1>6, <1>7, <1>8, <1>9, <1>10, <1>11, <1>12, <1>13,
     <1>14, <1>15, <1>16, <1>17, <1>18, <1>19, <1>20 DEF Next, Work

-----------------------------------------------------------------------------
(* Lines.                                                                  *)

\* A cell never moves, and only secrets change.
LEMMA CellsStay ==
  ASSUME TypesInv, LogStep
  PROVE  /\ Len(Log) \in Nat /\ Len(Log') \in Nat /\ Len(Log) <= Len(Log')
         /\ DOMAIN Log = 1 .. Len(Log) /\ DOMAIN Log' = 1 .. Len(Log')
         /\ \A k \in DOMAIN Log :
              /\ k \in DOMAIN Log'
              /\ Log'[k].event = Log[k].event
              /\ Log'[k].part = "newline" <=> Log[k].part = "newline"
              /\ Log[k].part # "secret" => Log'[k] = Log[k]
              /\ Log'[k].part = "secret" => Log[k].part = "secret"
<1>1. Len(Log) \in Nat /\ DOMAIN Log = 1 .. Len(Log)
  BY LogType
<1>2. CASE Kept
  <2>1. /\ Len(Log') \in Nat /\ Len(Log) <= Len(Log')
        /\ DOMAIN Log' = 1 .. Len(Log')
    BY <1>1, <1>2 DEF Kept
  <2>2. ASSUME NEW k \in DOMAIN Log
        PROVE  /\ k \in DOMAIN Log'
               /\ Log'[k].event = Log[k].event
               /\ Log'[k].part = "newline" <=> Log[k].part = "newline"
               /\ Log[k].part # "secret" => Log'[k] = Log[k]
               /\ Log'[k].part = "secret" => Log[k].part = "secret"
    BY <1>2, CellParts DEF Kept, Masked
  <2>. QED
    BY <1>1, <2>1, <2>2
<1>3. ASSUME NEW r \in Runs, Grows(r)
      PROVE  /\ Len(Log') \in Nat /\ Len(Log) <= Len(Log')
             /\ DOMAIN Log' = 1 .. Len(Log')
             /\ \A k \in DOMAIN Log : k \in DOMAIN Log' /\ Log'[k] = Log[k]
  BY <1>1, <1>3 DEF Grows
<1>. QED
  BY <1>1, <1>2, <1>3 DEF LogStep, AddsLine, AddsBody, AddsEnd

\* A cell is new only when a line grows, and then it is of that line.
LEMMA CellsNew ==
  ASSUME TypesInv, LogStep, NEW k \in DOMAIN Log', k \notin DOMAIN Log
  PROVE  \E r \in Runs :
           /\ Grows(r) /\ (AddsLine(r) \/ AddsBody(r) \/ AddsEnd(r))
           /\ k \in Len(Log) + 1 .. Len(Log')
           /\ Log'[k].event = <<r, written[r] + 1>>
<1>1. PICK r \in Runs : AddsLine(r) \/ AddsBody(r) \/ AddsEnd(r)
  BY DEF LogStep, Kept
<1>2. Grows(r)
  BY <1>1 DEF AddsLine, AddsBody, AddsEnd
<1>3. k \in Len(Log) + 1 .. Len(Log')
  BY CellsStay
<1>. QED
  BY <1>1, <1>2, <1>3 DEF Grows

\* Whoever adds to the file is the only one that does.
LEMMA Alone ==
  ASSUME TypesInv, RunsInv, NEW r \in Runs, Grows(r)
  PROVE  /\ \A q \in Runs : place[q] \in {"half", "rewrite"} => q = r
         /\ place[r] \notin {"none", "free", "mark", "over"}
<1>1. r = holder \/ (r \in Served /\ place[r] \notin Idle)
  BY DEF Grows, RunsInv, Holding, Idle
<1>. QED
  BY <1>1, NobodyElse DEF Grows

LEMMA BegunKept ==
  ASSUME TypesInv, LogStep, NEW k \in DOMAIN Log, NEW j \in 1 .. k, NEW e, Begun(Log, j, k, e)
  PROVE  Begun(Log', j, k, e)
<1>1. j \in DOMAIN Log /\ (j > 1 => j - 1 \in DOMAIN Log) /\ \A i \in j .. k : i \in DOMAIN Log
  BY CellsStay
<1>2. Log'[j] = Cell(e, "head")
  BY <1>1, CellsStay, CellParts DEF Begun
<1>3. \A i \in j .. k : Log'[i].event = e /\ Log'[i].part # "newline"
  BY <1>1, CellsStay DEF Begun
<1>4. j > 1 => Log'[j - 1].part = "newline"
  BY <1>1, CellsStay DEF Begun
<1>. QED
  BY <1>2, <1>3, <1>4 DEF Begun

LEMMA EdgeKept ==
  ASSUME TypesInv, LogStep, NEW o, Edge(Log, o)
  PROVE  Edge(Log', o)
<1>1. o \in 0 .. Len(Log) /\ (o > 0 => o \in DOMAIN Log)
  BY CellsStay DEF Edge
<1>2. o \in 0 .. Len(Log') /\ (o > 0 => Log'[o].part = "newline")
  BY <1>1, CellsStay DEF Edge
<1>. QED
  BY <1>2 DEF Edge

\* A line that begins between two lines.
LEMMA BegunNew ==
  ASSUME TypesInv, RunsInv, LinesInv, LogStep, NEW r \in Runs, Grows(r), place[r] # "half",
         NEW n, n = Len(Log), NEW e, e = <<r, written[r] + 1>>, Log'[n + 1] = Cell(e, "head"),
         NEW l \in n + 1 .. Len(Log'), \A k \in n + 1 .. l : Log'[k].part # "newline"
  PROVE  Begun(Log', n + 1, l, e)
<1>1. Edge(Log, Len(Log))
  BY Alone DEF LinesInv
<1>2. n \in Nat /\ Len(Log') \in Nat /\ DOMAIN Log = 1 .. n
  BY CellsStay
<1>3. n > 0 => n \in DOMAIN Log /\ Log[n].part = "newline"
  BY <1>1, <1>2 DEF Edge
<1>4. n > 0 => Log'[n].part = "newline"
  BY <1>3, CellsStay
<1>5. \A k \in n + 1 .. l : Log'[k].event = e
  BY <1>2 DEF Grows
<1>6. n + 1 > 1 => Log'[n + 1 - 1].part = "newline"
  BY <1>2, <1>4
<1>. QED
  BY <1>5, <1>6 DEF Begun

LEMMA NextLines ==
  ASSUME TypesInv, RunsInv, LinesInv, LogStep
  PROVE  LinesInv'
<1>0. /\ Len(Log) \in Nat /\ Len(Log') \in Nat /\ Len(Log) <= Len(Log')
      /\ DOMAIN Log = 1 .. Len(Log) /\ DOMAIN Log' = 1 .. Len(Log')
  BY CellsStay
<1>1. ASSUME NEW k \in DOMAIN Log', Log'[k].part = "newline"
      PROVE  \E j \in 1 .. k - 1 : Begun(Log', j, k - 1, Log'[k].event)
  <2>1. CASE k \in DOMAIN Log
    <3>1. PICK j \in 1 .. k - 1 : Begun(Log, j, k - 1, Log[k].event)
      BY <1>1, <2>1, CellsStay DEF LinesInv
    <3>. DEFINE e == Log[k].event
    <3>2. Log'[k].event = e /\ k - 1 \in DOMAIN Log
      BY <1>0, <2>1, <3>1, CellsStay
    <3>3. Begun(Log, j, k - 1, e)
      BY <3>1
    <3>. HIDE DEF e
    <3>4. ASSUME NEW f, f = e
          PROVE  Begun(Log', j, k - 1, f)
      BY <3>1, <3>2, <3>3, <3>4, BegunKept
    <3>. QED
      BY <3>1, <3>2, <3>4
  <2>2. CASE k \notin DOMAIN Log
    <3>1. PICK r \in Runs : /\ Grows(r) /\ (AddsLine(r) \/ AddsBody(r) \/ AddsEnd(r))
                            /\ k \in Len(Log) + 1 .. Len(Log')
                            /\ Log'[k].event = <<r, written[r] + 1>>
      BY <1>1, <2>2, CellsNew
    <3>. DEFINE e == <<r, written[r] + 1>>
    <3>. DEFINE n == Len(Log)
    <3>2. CASE AddsLine(r)
      <4>0. k = Len(Log') /\ n + 1 < k
        BY <1>1, <3>1, <3>2 DEF AddsLine
      <4>1. \A i \in n + 1 .. k - 1 : Log'[i].part # "newline"
        <5>0. n \in Nat /\ k \in Nat
          BY <1>0, <4>0
        <5>. HIDE DEF n
        <5>1. \A i \in n + 1 .. k - 1 : i \in n + 1 .. k /\ i # k
          BY <5>0
        <5>. USE DEF n
        <5>. QED
          BY <3>2, <4>0, <5>1 DEF AddsLine
      <4>2. k - 1 \in n + 1 .. Len(Log')
        BY <1>0, <4>0
      <4>3. Begun(Log', n + 1, k - 1, e)
        BY <3>1, <3>2, <4>0, <4>1, <4>2, BegunNew DEF AddsLine
      <4>. QED
        BY <1>0, <3>1, <4>0, <4>3
    <3>3. CASE AddsBody(r)
      BY <1>1, <3>1, <3>3 DEF AddsBody
    <3>4. CASE AddsEnd(r)
      <4>1. PICK j \in DOMAIN Log : Begun(Log, j, n, e)
        BY <3>4 DEF AddsEnd, LinesInv
      <4>2. k = n + 1 /\ n \in DOMAIN Log /\ j \in 1 .. n
        BY <1>0, <3>1, <3>4, <4>1 DEF AddsEnd
      <4>3. Begun(Log', j, n, e)
        BY <4>1, <4>2, BegunKept
      <4>4. k - 1 = n /\ j \in 1 .. k - 1
        BY <1>0, <4>2
      <4>. QED
        BY <3>1, <4>3, <4>4
    <3>. QED
      BY <3>1, <3>2, <3>3, <3>4
  <2>. QED
    BY <2>1, <2>2
<1>2. ASSUME NEW r \in Runs, place'[r] = "half"
      PROVE  \E j \in DOMAIN Log' : Begun(Log', j, Len(Log'), <<r, written'[r] + 1>>)
  <2>. DEFINE e == <<r, written'[r] + 1>>
  <2>1. CASE Kept
    <3>. DEFINE n == Len(Log)
    <3>1. place[r] = "half" /\ written' = written /\ Len(Log') = n
      BY <1>2, <2>1 DEF Kept
    <3>2. PICK j \in DOMAIN Log : Begun(Log, j, n, e)
      BY <3>1 DEF LinesInv
    <3>3. n \in DOMAIN Log /\ j \in 1 .. n
      BY <1>0, <3>2
    <3>4. Begun(Log', j, n, e)
      BY <3>2, <3>3, BegunKept
    <3>. QED
      BY <3>1, <3>2, <3>4, CellsStay
  <2>2. ASSUME NEW q \in Runs, AddsLine(q) \/ AddsBody(q) \/ AddsEnd(q)
        PROVE  \E j \in DOMAIN Log' : Begun(Log', j, Len(Log'), <<r, written'[r] + 1>>)
    <3>1. Grows(q)
      BY <2>2 DEF AddsLine, AddsBody, AddsEnd
    <3>2. r = q
      BY <1>2, <3>1, Alone DEF Grows
    <3>3. AddsBody(r)
      BY <1>2, <2>2, <3>2 DEF AddsLine, AddsEnd
    <3>. DEFINE n == Len(Log)
    <3>. DEFINE l == Len(Log')
    <3>4. l \in n + 1 .. l /\ n + 1 \in DOMAIN Log' /\ e = <<r, written[r] + 1>>
      BY <1>0, <3>1, <3>3 DEF Grows, AddsBody
    <3>5. Begun(Log', n + 1, l, e)
      BY <3>1, <3>2, <3>3, <3>4, BegunNew DEF AddsBody
    <3>. QED
      BY <3>4, <3>5
  <2>. QED
    BY <2>1, <2>2 DEF LogStep
<1>3. ASSUME \A r \in Runs : place'[r] # "half"
      PROVE  Edge(Log', Len(Log'))
  <2>1. CASE Kept
    <3>1. Edge(Log, Len(Log))
      BY <1>3, <2>1 DEF Kept, LinesInv
    <3>. DEFINE n == Len(Log)
    <3>2. Edge(Log', n)
      BY <3>1, EdgeKept
    <3>. QED
      BY <2>1, <3>2 DEF Kept
  <2>2. ASSUME NEW q \in Runs, AddsLine(q) \/ AddsBody(q) \/ AddsEnd(q)
        PROVE  Edge(Log', Len(Log'))
    <3>1. AddsLine(q) \/ AddsEnd(q)
      BY <1>3, <2>2 DEF AddsBody
    <3>2. Log'[Len(Log')].part = "newline"
      BY <3>1, CellParts DEF AddsLine, AddsEnd
    <3>. QED
      BY <1>0, <3>2 DEF Edge
  <2>. QED
    BY <2>1, <2>2 DEF LogStep
<1>. QED
  BY <1>1, <1>2, <1>3 DEF LinesInv

-----------------------------------------------------------------------------
(* What is written.                                                        *)

\* A run that is over writes no more, and none takes an event back.
LEMMA WrittenGrows ==
  ASSUME TypesInv, LogStep, NEW r \in Runs
  PROVE  /\ written[r] \in Nat /\ written'[r] \in Nat /\ written[r] <= written'[r]
         /\ place[r] \in {"free", "mark", "over"} => written'[r] = written[r]
<1>1. written[r] \in Nat
  BY RunTypes
<1>2. CASE Kept
  BY <1>1, <1>2 DEF Kept
<1>3. ASSUME NEW q \in Runs, AddsLine(q) \/ AddsBody(q) \/ AddsEnd(q)
      PROVE  /\ written'[r] \in Nat /\ written[r] <= written'[r]
             /\ place[r] \in {"free", "mark", "over"} => written'[r] = written[r]
  <2>1. Grows(q)
    BY <1>3 DEF AddsLine, AddsBody, AddsEnd
  <2>2. CASE q = r
    <3>1. place[r] \notin {"free", "mark", "over"}
      BY <2>1, <2>2 DEF Grows
    <3>. QED
      BY <1>1, <1>3, <2>2, <3>1 DEF AddsLine, AddsBody, AddsEnd
  <2>3. CASE q # r
    BY <1>1, <2>1, <2>3 DEF Grows
  <2>. QED
    BY <2>2, <2>3
<1>. QED
  BY <1>1, <1>2, <1>3 DEF LogStep

\* The number of an event that is in the log.
LEMMA WrittenCell ==
  ASSUME TypesInv, WrittenInv, NEW k \in DOMAIN Log
  PROVE  LET e == Log[k].event IN
         /\ e \in Events /\ e[1] \in Runs /\ e = <<e[1], e[2]>>
         /\ e[2] \in 1 .. written[e[1]] \/
            (place[e[1]] = "half" /\ e[2] = written[e[1]] + 1 /\ Log[k].part # "newline")
         /\ Log[k].part = "newline" => e[2] \in 1 .. written[e[1]] /\ Log[k] = Cell(e, "newline")
<1>. DEFINE e == Log[k].event
<1>1. e \in Events /\ Log[k] \in Cells
  BY LogType
<1>2. e[1] \in Runs /\ e = <<e[1], e[2]>>
  BY <1>1 DEF Events
<1>3. e[2] \in 1 .. written[e[1]] \/
      (place[e[1]] = "half" /\ e[2] = written[e[1]] + 1 /\ Log[k].part # "newline")
  BY DEF WrittenInv
<1>4. Log[k].part = "newline" => Log[k] = Cell(e, "newline")
  BY <1>1 DEF Cells, Cell
<1>. QED
  BY <1>1, <1>2, <1>3, <1>4

LEMMA NextWritten ==
  ASSUME TypesInv, RunsInv, WrittenInv, LogStep
  PROVE  WrittenInv'
<1>0. /\ Len(Log) \in Nat /\ Len(Log') \in Nat /\ Len(Log) <= Len(Log')
      /\ DOMAIN Log = 1 .. Len(Log) /\ DOMAIN Log' = 1 .. Len(Log')
  BY CellsStay
<1>1. ASSUME NEW k \in DOMAIN Log'
      PROVE  LET e == Log'[k].event IN
             e[2] \in 1 .. written'[e[1]] \/
             (place'[e[1]] = "half" /\ e[2] = written'[e[1]] + 1 /\ Log'[k].part # "newline")
  <2>. DEFINE e == Log'[k].event
              q == e[1]
  <2>1. CASE k \in DOMAIN Log
    <3>1. /\ e = Log[k].event /\ (Log'[k].part = "newline" <=> Log[k].part = "newline")
          /\ q \in Runs
          /\ e[2] \in 1 .. written[q] \/
             (place[q] = "half" /\ e[2] = written[q] + 1 /\ Log[k].part # "newline")
      BY <2>1, CellsStay, WrittenCell
    <3>2. written[q] \in Nat /\ written'[q] \in Nat /\ written[q] <= written'[q]
      BY <3>1, WrittenGrows
    <3>3. CASE place[q] = "half" /\ place'[q] # "half"
      <4>1. AddsEnd(q)
        BY <3>1, <3>3 DEF LogStep, Kept, AddsLine, AddsBody, AddsEnd, Grows
      <4>2. written'[q] = written[q] + 1
        BY <4>1 DEF AddsEnd
      <4>. QED
        BY <3>1, <3>2, <4>2
    <3>4. CASE place[q] = "half" /\ place'[q] = "half"
      <4>1. written'[q] = written[q]
        BY <3>1, <3>4 DEF LogStep, Kept, AddsLine, AddsBody, AddsEnd, Grows
      <4>. QED
        BY <3>1, <3>2, <3>4, <4>1
    <3>5. CASE place[q] # "half"
      BY <3>1, <3>2, <3>5
    <3>. QED
      BY <3>3, <3>4, <3>5
  <2>2. CASE k \notin DOMAIN Log
    <3>1. PICK r \in Runs : /\ Grows(r) /\ (AddsLine(r) \/ AddsBody(r) \/ AddsEnd(r))
                            /\ k \in Len(Log) + 1 .. Len(Log')
                            /\ Log'[k].event = <<r, written[r] + 1>>
      BY <2>2, CellsNew
    <3>2. q = r /\ e[2] = written[r] + 1 /\ written[r] \in Nat
      BY <3>1, WrittenGrows
    <3>3. CASE AddsBody(r)
      BY <3>1, <3>2, <3>3 DEF AddsBody
    <3>4. CASE AddsLine(r) \/ AddsEnd(r)
      <4>1. written'[r] = written[r] + 1
        BY <3>4 DEF AddsLine, AddsEnd
      <4>. QED
        BY <3>2, <4>1
    <3>. QED
      BY <3>1, <3>3, <3>4
  <2>. QED
    BY <2>1, <2>2
<1>2. ASSUME NEW r \in Runs, NEW n \in 1 .. written'[r]
      PROVE  \E k \in DOMAIN Log' : Log'[k] = Cell(<<r, n>>, "newline")
  <2>1. CASE n <= written[r]
    <3>1. n \in 1 .. written[r]
      BY <2>1, WrittenGrows
    <3>2. PICK k \in DOMAIN Log : Log[k] = Cell(<<r, n>>, "newline")
      BY <3>1 DEF WrittenInv
    <3>. QED
      BY <3>2, CellsStay, CellParts
  <2>2. CASE ~(n <= written[r])
    <3>1. written'[r] # written[r]
      BY <2>2, WrittenGrows
    <3>2. PICK q \in Runs : AddsLine(q) \/ AddsEnd(q)
      BY <3>1 DEF LogStep, Kept, AddsBody, Grows
    <3>3. q = r
      BY <3>1, <3>2 DEF AddsLine, AddsEnd, Grows
    <3>4. written'[r] = written[r] + 1 /\ Log'[Len(Log')] = Cell(<<r, written[r] + 1>>, "newline")
      BY <3>2, <3>3 DEF AddsLine, AddsEnd
    <3>5. n = written[r] + 1
      BY <2>2, <3>4, WrittenGrows
    <3>6. Len(Log') \in DOMAIN Log'
      <4>1. Len(Log) < Len(Log') /\ DOMAIN Log' = 1 .. Len(Log')
        BY <3>2 DEF AddsLine, AddsEnd, Grows
      <4>2. ASSUME NEW m \in Nat, NEW n2 \in Nat, m < n2
            PROVE  n2 \in 1 .. n2
        BY <4>2
      <4>. QED
        BY <1>0, <4>1, <4>2
    <3>. QED
      BY <3>4, <3>5, <3>6
  <2>. QED
    BY <2>1, <2>2
<1>3. ASSUME NEW k \in DOMAIN Log', NEW l \in DOMAIN Log',
             k < l, Log'[k].part = "newline", Log'[k].event[1] = Log'[l].event[1]
      PROVE  Log'[k].event[2] < Log'[l].event[2]
  <2>1. CASE l \in DOMAIN Log
    <3>1. k \in DOMAIN Log
      BY <1>0, <1>3, <2>1
    <3>. QED
      BY <1>3, <2>1, <3>1, CellsStay DEF WrittenInv
  <2>2. CASE l \notin DOMAIN Log
    <3>1. PICK r \in Runs : /\ Grows(r) /\ (AddsLine(r) \/ AddsBody(r) \/ AddsEnd(r))
                            /\ l \in Len(Log) + 1 .. Len(Log')
                            /\ Log'[l].event = <<r, written[r] + 1>>
      BY <2>2, CellsNew
    <3>2. CASE k \in DOMAIN Log
      <4>1. Log[k].event = Log'[k].event /\ Log[k].part = "newline" /\ Log[k].event[1] = r
        BY <1>3, <3>1, <3>2, CellsStay
      <4>2. Log[k].event[2] \in 1 .. written[r]
        BY <3>2, <4>1, WrittenCell
      <4>. QED
        BY <3>1, <4>1, <4>2, WrittenGrows
    <3>3. CASE k \notin DOMAIN Log
      <4>1. k \in Len(Log) + 1 .. Len(Log') /\ k # Len(Log')
        BY <1>0, <1>3, <3>1, <3>3
      <4>2. ~AddsLine(r) /\ ~AddsBody(r)
        BY <1>3, <4>1 DEF AddsLine, AddsBody
      <4>3. Len(Log') = Len(Log) + 1
        BY <3>1, <4>2 DEF AddsEnd
      <4>. QED
        BY <1>0, <4>1, <4>3
    <3>. QED
      BY <3>2, <3>3
  <2>. QED
    BY <2>1, <2>2
<1>4. ASSUME NEW k \in DOMAIN Log', Log'[k].part = "secret"
      PROVE  Log'[k].event \in Secrets /\ place'[Log'[k].event[1]] \in {"run", "half"}
  <2>1. CASE k \in DOMAIN Log
    <3>1. /\ Log[k].event = Log'[k].event /\ Log[k].part = "secret" /\ Log[k].event[1] \in Runs
          /\ Log[k].event \in Secrets /\ place[Log[k].event[1]] \in {"run", "half"}
      BY <1>4, <2>1, CellsStay, LogType DEF WrittenInv
    <3>2. CASE Kept
      BY <1>4, <2>1, <3>1, <3>2 DEF Kept
    <3>3. ASSUME NEW r \in Runs, Grows(r)
          PROVE  place'[Log[k].event[1]] \in {"run", "half"}
      <4>1. CASE Log[k].event[1] = r
        BY <3>1, <3>3, <4>1 DEF Grows
      <4>2. CASE Log[k].event[1] # r
        BY <3>1, <3>3, <4>2 DEF Grows
      <4>. QED
        BY <4>1, <4>2
    <3>. QED
      BY <3>1, <3>2, <3>3 DEF LogStep, AddsLine, AddsBody, AddsEnd
  <2>2. CASE k \notin DOMAIN Log
    <3>1. PICK r \in Runs : /\ Grows(r) /\ k \in Len(Log) + 1 .. Len(Log')
                            /\ Log'[k].event = <<r, written[r] + 1>>
      BY <2>2, CellsNew
    <3>. QED
      BY <1>4, <3>1 DEF Grows
  <2>. QED
    BY <2>1, <2>2
<1>. QED
  BY <1>1, <1>2, <1>3, <1>4 DEF WrittenInv

-----------------------------------------------------------------------------
(* What is sampled.                                                        *)

Ended == {"free", "mark", "over"}

\* No run is taken back.
Moved ==
  /\ opened \subseteq opened'
  /\ \A r \in Runs :
       /\ place[r] # "none" => place'[r] # "none"
       /\ place[r] \in {"mark", "over"} => place'[r] \in {"mark", "over"}
       /\ place[r] = "over" => place'[r] = "over"

\* The size of the file is sampled when a run opens it and when it is over.
Sampled ==
  /\ \A r \in opened : startAt'[r] = startAt[r]
  /\ \A r \in opened' \ opened :
       place[r] = "load" /\ place'[r] = "wait" /\ startAt'[r] = Len(file) /\ Log' = Log
  /\ \A r \in opened' : place'[r] \in Ended =>
       /\ r \in opened
       /\ \/ place[r] \in Ended /\ endAt'[r] = endAt[r]
          \/ place[r] = "end" /\ endAt'[r] = Len(file) /\ Log' = Log

LEMMA NextSamples ==
  ASSUME TypesInv, RunsInv, [Next]_vars
  PROVE  Moved /\ Sampled
<1>0. /\ place \in [Runs -> Places] /\ startAt \in [Runs -> Nat] /\ endAt \in [Runs -> Nat]
      /\ opened \subseteq Served /\ \A r \in opened : place[r] # "load"
  BY RunTypes DEF TypesInv, TypeOK, RunsInv
<1>. USE DEF Moved, Sampled, Ended, Served, runVars
<1>1. ASSUME NEW r \in Runs, Start(r)
      PROVE  Moved /\ Sampled
  BY <1>0, <1>1 DEF Start, Goto
<1>2. ASSUME NEW r \in Runs, Lock(r)
      PROVE  Moved /\ Sampled
  BY <1>0, <1>2 DEF Lock, Goto
<1>3. ASSUME NEW r \in Runs, FailEarly(r)
      PROVE  Moved /\ Sampled
  BY <1>0, <1>3 DEF FailEarly, Goto
<1>4. ASSUME NEW r \in Runs, Open(r)
      PROVE  Moved /\ Sampled
  <2>1. Log' = Log
    BY <1>0, <1>4 DEF Log, Rewriting, Open, Goto
  <2>. QED
    BY <1>0, <1>4, <2>1 DEF Open, Goto
<1>5. ASSUME NEW r \in Runs, Trigger(r)
      PROVE  Moved /\ Sampled
  BY <1>0, <1>5 DEF Trigger, Appended
<1>6. ASSUME NEW r \in Runs, Rest(r)
      PROVE  Moved /\ Sampled
  BY <1>0, <1>6 DEF Rest, Goto, Appended
<1>7. ASSUME NEW r \in Runs, WriteHalf(r)
      PROVE  Moved /\ Sampled
  BY <1>0, <1>7 DEF WriteHalf, Goto
<1>8. ASSUME NEW r \in Runs, WriteRest(r)
      PROVE  Moved /\ Sampled
  BY <1>0, <1>8 DEF WriteRest, Goto
<1>9. ASSUME NEW r \in Runs, WriteLine(r)
      PROVE  Moved /\ Sampled
  BY <1>0, <1>9 DEF WriteLine
<1>10. ASSUME NEW r \in Runs, Redact(r)
      PROVE  Moved /\ Sampled
  BY <1>0, <1>10 DEF Redact, Goto
<1>11. ASSUME NEW r \in Runs, Rewrite(r)
      PROVE  Moved /\ Sampled
  BY <1>0, <1>11 DEF Rewrite, Goto
<1>12. ASSUME NEW r \in Runs, Raise(r)
      PROVE  Moved /\ Sampled
  BY <1>0, <1>12 DEF Raise, Goto, Recording
<1>13. ASSUME NEW r \in Runs, Unlock(r)
      PROVE  Moved /\ Sampled
  BY <1>0, <1>13 DEF Unlock, Goto, Recording
<1>14. ASSUME NEW r \in Runs, ErrorEvent(r)
      PROVE  Moved /\ Sampled
  BY <1>0, <1>14 DEF ErrorEvent, Goto, Appended
<1>15. ASSUME NEW r \in Runs, SampleEnd(r)
      PROVE  Moved /\ Sampled
  <2>1. Log' = Log
    BY <1>0, <1>15 DEF Log, Rewriting, SampleEnd, Goto
  <2>. QED
    BY <1>0, <1>15, <2>1 DEF SampleEnd, Goto
<1>16. ASSUME NEW r \in Runs, Free(r)
      PROVE  Moved /\ Sampled
  BY <1>0, <1>16 DEF Free, Goto
<1>17. ASSUME NEW r \in Runs, MarkDone(r)
      PROVE  Moved /\ Sampled
  BY <1>0, <1>17 DEF MarkDone, Goto
<1>18. ASSUME NEW r \in Runs, Evict(r)
      PROVE  Moved /\ Sampled
  BY <1>0, <1>18 DEF Evict
<1>19. ASSUME NEW v \in Viewers, Poll(v) \/ \E r \in Served : Attach(v, r)
      PROVE  Moved /\ Sampled
  BY <1>0, <1>19 DEF Poll, Follow, GiveUp, AskEnd, Read, Drain, Cut, Attach
<1>20. CASE UNCHANGED vars
  BY <1>0, <1>20 DEF vars
<1>. QED
  BY <1>1, <1>2, <1>3, <1>4, <1>5, <1>6, <1>7, <1>8, <1>9, <1>10, <1>11, <1>12, <1>13,
     <1>14, <1>15, <1>16, <1>17, <1>18, <1>19, <1>20 DEF Next, Work

\* A run that writes comes after the runs that are in the log.
LEMMA WritesLast ==
  ASSUME TypesInv, RunsInv, WrittenInv, NEW k \in DOMAIN Log, NEW r \in Served,
         place[r] \notin {"none", "mark", "over"}, Log[k].event[1] \in Served
  PROVE  Log[k].event[1] <= r
<1>. DEFINE q == Log[k].event[1]
<1>1. q \in Runs /\ r \in Runs /\ q \in Int /\ r \in Int
  BY LogType, RunTypes DEF Served
<1>2. written[q] # 0 \/ place[q] = "half"
  BY <1>1, WrittenCell, RunTypes
<1>3. place[q] # "none"
  BY <1>1, <1>2 DEF RunsInv
<1>4. ~(r < q)
  BY <1>1, <1>3 DEF RunsInv
<1>. QED
  BY <1>1, <1>4

LEMMA NextOrder ==
  ASSUME TypesInv, RunsInv, LinesInv, WrittenInv, OrderInv, TypesInv', LogStep, [Next]_vars
  PROVE  OrderInv'
<1>1. /\ Len(Log) \in Nat /\ Len(Log') \in Nat /\ Len(Log) <= Len(Log')
      /\ DOMAIN Log = 1 .. Len(Log) /\ DOMAIN Log' = 1 .. Len(Log')
      /\ \A k \in DOMAIN Log : Log'[k].event = Log[k].event /\ Log[k].event[1] \in Runs
  BY CellsStay, LogType
<1>2. Moved /\ Sampled
  BY NextSamples
<1>3. /\ place \in [Runs -> Places] /\ opened \subseteq Served /\ Served \subseteq Runs
      /\ startAt \in [Runs -> Nat] /\ endAt \in [Runs -> Nat] /\ \A r \in Runs : r \in Int
  BY RunTypes DEF TypesInv, TypeOK, Served
<1>4. ASSUME NEW k \in DOMAIN Log', NEW l \in DOMAIN Log', k < l,
             Log'[k].event[1] \in Served, Log'[l].event[1] \in Served
      PROVE  Log'[k].event[1] <= Log'[l].event[1]
  <2>1. CASE l \in DOMAIN Log
    <3>1. k \in DOMAIN Log
      BY <1>1, <1>4, <2>1
    <3>. QED
      BY <1>1, <1>4, <2>1, <3>1 DEF OrderInv
  <2>2. CASE l \notin DOMAIN Log
    <3>1. PICK r \in Runs : Grows(r) /\ Log'[l].event = <<r, written[r] + 1>>
      BY <2>2, CellsNew
    <3>2. CASE k \in DOMAIN Log
      <4>1. place[r] \notin {"none", "mark", "over"} /\ r \in Served
        BY <1>4, <3>1, Alone
      <4>. QED
        BY <1>1, <1>4, <3>1, <3>2, <4>1, WritesLast
    <3>3. CASE k \notin DOMAIN Log
      <4>1. l \in Len(Log) + 1 .. Len(Log') /\ k \in Len(Log) + 1 .. Len(Log')
        BY <1>1, <1>4, <2>2, <3>3
      <4>2. Log'[k].event = Log'[l].event
        BY <3>1, <4>1 DEF Grows
      <4>. QED
        BY <1>3, <3>1, <4>2
    <3>. QED
      BY <3>2, <3>3
  <2>. QED
    BY <2>1, <2>2
<1>5. ASSUME NEW r \in opened'
      PROVE  /\ Edge(Log', startAt'[r])
             /\ \A k \in DOMAIN Log' : Log'[k].event[1] = r => startAt'[r] < k
             /\ \A k \in DOMAIN Log' :
                  Log'[k].event[1] \in Served /\ Log'[k].event[1] < r => k <= startAt'[r]
  <2>1. CASE r \in opened
    <3>1. startAt'[r] = startAt[r] /\ Edge(Log, startAt[r]) /\ r \in Served /\ r \in Runs
      BY <1>2, <1>3, <2>1 DEF Sampled, OrderInv
    <3>2. Edge(Log', startAt'[r]) /\ startAt[r] \in 0 .. Len(Log)
      BY <3>1, EdgeKept DEF Edge
    <3>3. ASSUME NEW k \in DOMAIN Log', k \in DOMAIN Log
          PROVE  /\ Log'[k].event[1] = r => startAt[r] < k
                 /\ Log'[k].event[1] \in Served /\ Log'[k].event[1] < r => k <= startAt[r]
      BY <1>1, <2>1, <3>3 DEF OrderInv
    <3>4. ASSUME NEW k \in DOMAIN Log', k \notin DOMAIN Log
          PROVE  /\ Log'[k].event[1] = r => startAt[r] < k
                 /\ ~(Log'[k].event[1] \in Served /\ Log'[k].event[1] < r)
      <4>1. startAt[r] < k
        BY <1>1, <3>2, <3>4
      <4>2. PICK q \in Runs : Grows(q) /\ Log'[k].event = <<q, written[q] + 1>>
        BY <3>4, CellsNew
      <4>3. place[q] \notin {"mark", "over"} /\ place[r] # "none"
        BY <2>1, <4>2, Alone DEF RunsInv
      <4>4. ~(q \in Served /\ q < r)
        BY <3>1, <4>3 DEF RunsInv
      <4>. QED
        BY <4>1, <4>2, <4>4
    <3>. QED
      BY <3>1, <3>2, <3>3, <3>4
  <2>2. CASE r \notin opened
    <3>1. /\ place[r] = "load" /\ startAt'[r] = Len(file) /\ Log' = Log
          /\ r \in Served /\ r \in Runs
      <4>1. opened' \subseteq Served
        BY DEF TypesInv, TypeOK
      <4>. QED
        BY <1>5, <1>2, <1>3, <2>2, <4>1 DEF Sampled
    <3>2. Log = file
      BY <3>1, FileIsLog DEF Idle
    <3>3. Edge(Log, Len(Log))
      BY <3>1, NobodyElse DEF LinesInv, Idle
    <3>4. written[r] = 0
      BY <2>2, <3>1 DEF RunsInv
    <3>5. ASSUME NEW k \in DOMAIN Log
          PROVE  Log[k].event[1] # r
      BY <3>1, <3>4, WrittenCell
    <3>. QED
      BY <1>1, <3>1, <3>2, <3>3, <3>5
  <2>. QED
    BY <2>1, <2>2
<1>6. ASSUME NEW r \in opened', place'[r] \in Ended
      PROVE  /\ endAt'[r] <= Len(Log')
             /\ \A k \in DOMAIN Log' : Log'[k].event[1] = r => k <= endAt'[r]
  <2>0. r \in opened /\ r \in Served /\ r \in Runs
    BY <1>6, <1>2, <1>3 DEF Sampled
  <2>1. CASE place[r] \in Ended /\ endAt'[r] = endAt[r]
    <3>1. endAt[r] <= Len(Log) /\ \A k \in DOMAIN Log : Log[k].event[1] = r => k <= endAt[r]
      BY <2>0, <2>1 DEF OrderInv, Ended
    <3>2. endAt[r] \in Nat
      BY <1>3, <2>0
    <3>3. ASSUME NEW k \in DOMAIN Log', k \notin DOMAIN Log
          PROVE  Log'[k].event[1] # r
      <4>1. PICK q \in Runs : Grows(q) /\ Log'[k].event = <<q, written[q] + 1>>
        BY <3>3, CellsNew
      <4>2. q # r
        BY <2>1, <4>1, Alone DEF Ended
      <4>. QED
        BY <4>1, <4>2
    <3>. QED
      BY <1>1, <2>1, <3>1, <3>2, <3>3
  <2>2. CASE place[r] = "end" /\ endAt'[r] = Len(file) /\ Log' = Log
    <3>1. Log = file
      BY <2>0, <2>2, FileIsLog DEF Idle
    <3>. QED
      BY <1>1, <2>2, <3>1
  <2>. QED
    BY <1>6, <1>2, <2>1, <2>2 DEF Sampled
<1>. QED
  BY <1>4, <1>5, <1>6 DEF OrderInv, Ended

-----------------------------------------------------------------------------
(* Viewers.                                                                *)

Stays(v) ==
  /\ view'[v] = view[v] /\ watched'[v] = watched[v]
  /\ offset'[v] = offset[v] /\ sent'[v] = sent[v]

ViewTypes ==
  /\ view \in [Viewers -> {"off", "look", "tail", "read", "drain", "cut", "closed", "gone"}]
  /\ watched \in [Viewers -> Served \union {0}]
  /\ offset \in [Viewers -> Nat]
  /\ sent \in [Viewers -> Seq(Events)]

Acts(v) == UNCHANGED <<file, clean, runVars>> /\ (Poll(v) \/ \E r \in Served : Attach(v, r))

LEMMA OneViewer ==
  ASSUME TypesInv, NEW v \in Viewers, [Next]_vars
  PROVE  Stays(v) \/ Acts(v)
<1>0. ViewTypes
  BY DEF TypesInv, TypeOK, ViewTypes
<1>1. ASSUME NEW r \in Runs, Start(r) \/ Lock(r) \/ Work(r) \/ Evict(r)
      PROVE  Stays(v) \/ Acts(v)
  <2>1. UNCHANGED <<view, watched, offset, sent>>
    BY <1>1 DEF Start, Lock, Work, FailEarly, Open, Trigger, Rest, WriteHalf, WriteRest, WriteLine,
      Redact, Rewrite, Raise, Unlock, ErrorEvent, SampleEnd, Free, MarkDone, Evict, viewVars
  <2>. QED
    BY <2>1 DEF Stays
<1>2. ASSUME NEW w \in Viewers, Poll(w) \/ \E r \in Served : Attach(w, r)
      PROVE  Stays(v) \/ Acts(v)
  <2>1. UNCHANGED <<file, clean, runVars>>
    BY <1>2 DEF Poll, Follow, GiveUp, AskEnd, Read, Drain, Cut, Attach
  <2>2. CASE w = v
    BY <1>2, <2>1, <2>2 DEF Acts
  <2>3. CASE w # v
    BY <1>0, <1>2, <2>3 DEF Poll, Follow, GiveUp, AskEnd, Read, Drain, Cut, Attach, LookTo,
      Send, ViewTypes, Stays
  <2>. QED
    BY <2>2, <2>3
<1>3. CASE UNCHANGED vars
  BY <1>3 DEF vars, viewVars, Stays
<1>. QED
  BY <1>1, <1>2, <1>3 DEF Next

\* The end of what is read is between two lines.
LEMMA ReadsToEdge ==
  ASSUME TypesInv, RunsInv, NEW v \in Viewers, Edge(Log, offset[v])
  PROVE  /\ Consumed(offset[v]) \in Nat /\ offset[v] <= Consumed(offset[v])
         /\ Edge(Log, Consumed(offset[v]))
         /\ Consumed(offset[v]) # offset[v] => Log = file
<1>1. file \in Seq(Cells) /\ offset[v] \in Nat
  BY DEF TypesInv, TypeOK
<1>. DEFINE to == Consumed(offset[v])
<1>2. /\ to \in Nat /\ offset[v] <= to
      /\ to # offset[v] => to \in DOMAIN file /\ file[to].part = "newline"
  BY <1>1, ConsumedIsLast
<1>. HIDE DEF to
<1>3. CASE to = offset[v]
  BY <1>2, <1>3 DEF to
<1>4. CASE to # offset[v]
  <2>1. DOMAIN file = 1 .. Len(file) /\ Len(file) \in Nat
    BY <1>1, LenProperties
  <2>2. file # <<>>
    BY <1>2, <1>4, <2>1
  <2>3. Log = file
    BY <2>2 DEF Log, Rewriting, RunsInv
  <2>. QED
    BY <1>2, <1>4, <2>1, <2>3 DEF Edge, to
<1>. QED
  BY <1>3, <1>4

LEMMA NextView ==
  ASSUME TypesInv, RunsInv, OrderInv, ViewInv, RunsInv', LogStep, [Next]_vars
  PROVE  ViewInv'
<1>. SUFFICES ASSUME NEW v \in Viewers
              PROVE  ViewOf(v)'
  BY DEF ViewInv
<1>1. ViewTypes /\ Moved /\ Sampled /\ ViewOf(v)
  BY NextSamples DEF TypesInv, TypeOK, ViewTypes, ViewInv
<1>2. watched[v] # 0 => watched[v] \in Runs
  BY <1>1 DEF ViewTypes, Served
<1>3. CASE Stays(v)
  <2>1. watched'[v] # 0 => place'[watched'[v]] # "none"
    BY <1>1, <1>2, <1>3 DEF Stays, ViewOf, Moved
  <2>2. ASSUME view'[v] \in Following
        PROVE  /\ watched'[v] \in opened' /\ Edge(Log', offset'[v])
               /\ startAt'[watched'[v]] <= offset'[v]
    BY <1>1, <1>3, <2>2, EdgeKept DEF Stays, ViewOf, Moved, Sampled
  <2>3. view'[v] = "drain" => Done(watched[v])'
    BY <1>1, <1>2, <1>3, RunTypes DEF Stays, ViewOf, Moved, Done, Served, Following
  <2>. QED
    BY <1>1, <1>3, <2>1, <2>2, <2>3 DEF ViewOf, Stays
<1>4. ASSUME UNCHANGED <<file, clean, runVars>>
      PROVE  /\ Log' = Log /\ opened' = opened /\ place' = place
             /\ startAt' = startAt /\ known' = known
  BY <1>4 DEF Log, Rewriting, runVars
<1>. USE DEF ViewTypes
<1>5. ASSUME UNCHANGED <<file, clean, runVars>>, NEW r \in Served, Attach(v, r)
      PROVE  ViewOf(v)'
  <2>1. r # 0 /\ place'[r] # "none"
    BY <1>4, <1>5 DEF Attach, RunsInv, Served, Runs
  <2>. QED
    BY <1>1, <1>5, <2>1 DEF Attach, LookTo, ViewOf, Following
<1>6. ASSUME UNCHANGED <<file, clean, runVars>>, Follow(v)
      PROVE  ViewOf(v)'
  <2>1. /\ view'[v] = "tail" /\ watched' = watched /\ offset'[v] = startAt[watched[v]]
        /\ watched[v] \in opened
    BY <1>1, <1>6 DEF Follow, LookTo
  <2>2. Edge(Log, startAt[watched[v]]) /\ startAt[watched[v]] \in Int
    BY <2>1 DEF OrderInv, Edge
  <2>. QED
    BY <1>1, <1>4, <1>6, <2>1, <2>2 DEF ViewOf, Following
<1>7. ASSUME UNCHANGED <<file, clean, runVars>>, GiveUp(v) \/ Cut(v)
      PROVE  ViewOf(v)'
  BY <1>1, <1>4, <1>7 DEF GiveUp, Cut, LookTo, ViewOf, Following
<1>8. ASSUME UNCHANGED <<file, clean, runVars>>, AskEnd(v)
      PROVE  ViewOf(v)'
  BY <1>1, <1>4, <1>8 DEF AskEnd, LookTo, ViewOf, Following, Done
<1>9. ASSUME UNCHANGED <<file, clean, runVars>>, Read(v)
      PROVE  ViewOf(v)'
  <2>1. /\ view[v] = "read" /\ view'[v] = "tail" /\ watched' = watched
        /\ offset'[v] = Consumed(offset[v])
    BY <1>1, <1>9 DEF Read, LookTo
  <2>2. /\ watched[v] \in opened /\ Edge(Log, offset[v]) /\ startAt[watched[v]] <= offset[v]
        /\ startAt[watched[v]] \in Int /\ offset[v] \in Int
    BY <1>1, <2>1 DEF ViewOf, Following, OrderInv, Edge
  <2>3. /\ Edge(Log, Consumed(offset[v])) /\ offset[v] <= Consumed(offset[v])
        /\ Consumed(offset[v]) \in Int
    BY <2>2, ReadsToEdge
  <2>. QED
    BY <1>1, <1>4, <1>9, <2>1, <2>2, <2>3 DEF ViewOf, Following
<1>10. ASSUME UNCHANGED <<file, clean, runVars>>, Drain(v)
      PROVE  ViewOf(v)'
  <2>1. view'[v] = "closed" /\ watched' = watched
    BY <1>1, <1>10 DEF Drain, LookTo
  <2>. QED
    BY <1>1, <1>4, <1>10, <2>1 DEF ViewOf, Following
<1>. QED
  BY <1>3, <1>5, <1>6, <1>7, <1>8, <1>9, <1>10, OneViewer DEF Poll, Acts

-----------------------------------------------------------------------------
(* What is sent.                                                           *)

\* A chunk that begins between two lines is parsed without a loss.
LEMMA Delivered ==
  ASSUME TypesInv, RunsInv, LogInv, NEW v \in Viewers, Edge(Log, offset[v]),
         NEW to \in Nat, Chunk(offset[v], to)
  PROVE  LET from == offset[v]
             P == Parsed(from, to)
         IN /\ P \in Seq(Events)
            /\ \A n \in DOMAIN P : LET k == Nth(from, to, n) IN
                 /\ k \in DOMAIN Log /\ from < k /\ k <= to
                 /\ Log[k].part = "newline" /\ P[n] = Log[k].event
            /\ \A m, n \in DOMAIN P : m < n => Nth(from, to, m) < Nth(from, to, n)
            /\ \A k \in DOMAIN Log : from < k /\ k <= to /\ Log[k].part = "newline" =>
                 \E n \in DOMAIN P : Nth(from, to, n) = k
<1>. DEFINE from == offset[v]
            P == Parsed(from, to)
<1>1. file \in Seq(Cells) /\ from \in Nat
  BY DEF TypesInv, TypeOK
<1>2. /\ P \in Seq(Events)
      /\ \A n \in DOMAIN P : /\ Nth(from, to, n) \in Ends(from, to)
                             /\ P[n] = file[Nth(from, to, n)].event
      /\ \A m, n \in DOMAIN P : m < n => Nth(from, to, m) < Nth(from, to, n)
      /\ \A k \in Ends(from, to) : \E n \in DOMAIN P : Nth(from, to, n) = k
  BY <1>1, ParsedLines
<1>. HIDE DEF P
<1>3. ASSUME NEW k \in from + 1 .. to
      PROVE  k \in DOMAIN file /\ Log = file
  <2>1. k \in DOMAIN file
    BY DEF Chunk
  <2>2. file # <<>>
    BY <2>1
  <2>. QED
    BY <2>1, <2>2 DEF Log, Rewriting, RunsInv
<1>4. ASSUME NEW k \in Ends(from, to)
      PROVE  k \in DOMAIN Log /\ from < k /\ k <= to /\ Log[k].part = "newline" /\ Log = file
  <2>1. k \in from + 1 .. to /\ file[k].part = "newline"
    BY DEF Ends, Whole
  <2>. QED
    BY <1>1, <1>3, <2>1
<1>5. ASSUME NEW n \in DOMAIN P
      PROVE  LET k == Nth(from, to, n) IN
             /\ k \in DOMAIN Log /\ from < k /\ k <= to
             /\ Log[k].part = "newline" /\ P[n] = Log[k].event
  BY <1>2, <1>4
<1>6. ASSUME NEW k \in DOMAIN Log, from < k, k <= to, Log[k].part = "newline"
      PROVE  k \in Ends(from, to)
  <2>1. k \in from + 1 .. to /\ k \in Int
    BY <1>1, <1>6, LogType
  <2>2. Log = file
    BY <1>3, <2>1
  <2>3. PICK j \in 1 .. k - 1 : Begun(Log, j, k - 1, Log[k].event)
    BY <1>6 DEF LogInv, LinesInv
  <2>4. ASSUME j <= from
        PROVE  FALSE
    <3>1. from > 0 /\ from \in j .. k - 1
      BY <1>1, <1>6, <2>1, <2>4
    <3>. QED
      BY <2>3, <3>1 DEF Begun, Edge
  <2>5. j \in from + 1 .. k - 1
    BY <1>1, <2>1, <2>4
  <2>6. /\ file[j] = Cell(file[k].event, "head")
        /\ \A i \in j .. k : file[i].event = file[k].event
        /\ j > from + 1 => file[j - 1].part = "newline"
    BY <1>1, <2>1, <2>2, <2>3, <2>5 DEF Begun
  <2>7. Whole(from, k)
    BY <1>6, <2>2, <2>5, <2>6 DEF Whole
  <2>. QED
    BY <2>1, <2>7 DEF Ends
<1>. QED
  BY <1>2, <1>5, <1>6 DEF P

\* The lines of a run are in the order of their numbers.
LEMMA LineOrder ==
  ASSUME TypesInv, WrittenInv, NEW k \in DOMAIN Log, NEW l \in DOMAIN Log,
         Log[k].part = "newline", Log[l].part = "newline", Log[k].event[1] = Log[l].event[1]
  PROVE  k < l <=> Log[k].event[2] < Log[l].event[2]
<1>1. k \in Int /\ l \in Int /\ Log[k].event[2] \in Int /\ Log[l].event[2] \in Int
  BY LogType
<1>2. k < l => Log[k].event[2] < Log[l].event[2]
  BY DEF WrittenInv
<1>3. l < k => Log[l].event[2] < Log[k].event[2]
  BY DEF WrittenInv
<1>. QED
  BY <1>1, <1>2, <1>3

LEMMA LineOf ==
  ASSUME TypesInv, WrittenInv, NEW r \in Runs, NEW n \in 1 .. written[r]
  PROVE  \E k \in DOMAIN Log : Log[k].part = "newline" /\ Log[k].event = <<r, n>>
<1>1. PICK k \in DOMAIN Log : Log[k] = Cell(<<r, n>>, "newline")
  BY DEF WrittenInv
<1>. QED
  BY <1>1, CellParts

\* What a viewer of a run has of it lies before its offset.
LEMMA OwnBefore ==
  ASSUME TypesInv, WrittenInv, SentInv, NEW v \in Viewers, view[v] \in Following,
         watched[v] \in Runs, NEW n \in Own(v)
  PROVE  \E k \in DOMAIN Log :
           k <= offset[v] /\ Log[k].part = "newline" /\ Log[k].event = sent[v][n]
<1>1. sent[v][n] \in Events /\ n \in DOMAIN sent[v]
  BY ElementOfSeq, LenProperties DEF Own, TypesInv, TypeOK
<1>2. sent[v][n] = <<watched[v], sent[v][n][2]>>
  BY <1>1 DEF Own, Events
<1>3. sent[v][n][2] \in 1 .. written[watched[v]]
  BY DEF SentInv, SentOf
<1>4. PICK k \in DOMAIN Log : Log[k].part = "newline" /\ Log[k].event = sent[v][n]
  BY <1>2, <1>3, LineOf
<1>5. Was(v, sent[v][n])
  BY <1>1 DEF Was
<1>6. Log[k].event[1] = watched[v]
  BY <1>2, <1>4
<1>7. k <= offset[v]
  BY <1>4, <1>5, <1>6 DEF SentInv, SentOf
<1>. QED
  BY <1>4, <1>7

\* What a viewer is sent keeps what SentOf says of it.
LEMMA Receives ==
  ASSUME TypesInv, RunsInv, LogInv, ViewInv, SentInv, NEW v \in Viewers, view[v] \in Following,
         NEW to \in Nat, Chunk(offset[v], to), Send(v, to),
         Log' = Log, UNCHANGED <<place, written, watched>>,
         view'[v] \in Following => offset'[v] = to /\ offset[v] <= to
  PROVE  SentOf(v)'
<1>. DEFINE w == watched[v]
            from == offset[v]
            S == sent[v]
            P == Parsed(from, to)
            L == Len(S)
            N(n) == Nth(from, to, n)
<1>1. /\ w \in opened /\ Edge(Log, from) /\ startAt[w] <= from
      /\ w \in Served /\ w \in Runs /\ w \in Int
  BY RunTypes DEF ViewInv, ViewOf, Served
<1>2. S \in Seq(Events) /\ L \in Nat /\ DOMAIN S = 1 .. L /\ from \in Nat
  BY LenProperties DEF TypesInv, TypeOK
<1>3. /\ P \in Seq(Events)
      /\ \A n \in DOMAIN P : /\ N(n) \in DOMAIN Log /\ from < N(n) /\ N(n) <= to
                             /\ Log[N(n)].part = "newline" /\ P[n] = Log[N(n)].event
      /\ \A m, n \in DOMAIN P : m < n => N(m) < N(n)
      /\ \A k \in DOMAIN Log : from < k /\ k <= to /\ Log[k].part = "newline" =>
           \E n \in DOMAIN P : N(n) = k
  BY <1>1, Delivered
<1>4. sent'[v] = S \o P
  BY DEF Send, TypesInv, TypeOK
<1>. HIDE DEF P, N
<1>5. /\ Len(P) \in Nat /\ DOMAIN P = 1 .. Len(P)
      /\ DOMAIN sent'[v] = 1 .. L + Len(P)
      /\ \A n \in 1 .. L + Len(P) : sent'[v][n] = IF n <= L THEN S[n] ELSE P[n - L]
  <2>. HIDE DEF S
  <2>. QED
    BY <1>2, <1>3, <1>4, ConcatProperties, LenProperties
<1>. HIDE DEF S, L
<1>6. ASSUME NEW n \in DOMAIN S
      PROVE  n \in 1 .. L /\ n \in DOMAIN sent'[v] /\ sent'[v][n] = S[n]
  BY <1>2, <1>5
<1>7. ASSUME NEW n \in DOMAIN P
      PROVE  n \in Int /\ L + n \in DOMAIN sent'[v] /\ sent'[v][L + n] = P[n] /\ L < L + n
  BY <1>2, <1>5
<1>8. ASSUME NEW n \in DOMAIN sent'[v]
      PROVE  n \in Int /\ (n \in DOMAIN S \/ n - L \in DOMAIN P)
  BY <1>2, <1>5
<1>9. ASSUME NEW n \in DOMAIN sent'[v], n \notin DOMAIN S
      PROVE  /\ n - L \in DOMAIN P /\ L < n
             /\ N(n - L) \in DOMAIN Log /\ from < N(n - L) /\ N(n - L) <= to
             /\ Log[N(n - L)].part = "newline" /\ sent'[v][n] = Log[N(n - L)].event
  <2>1. n - L \in DOMAIN P /\ L + (n - L) = n
    BY <1>2, <1>8, <1>9
  <2>. QED
    BY <1>3, <1>7, <2>1
<1>10. Own(v)' = {n \in DOMAIN sent'[v] : sent'[v][n][1] = w}
  BY DEF Own
<1>11. ASSUME NEW n \in DOMAIN S, sent'[v][n][1] = w
       PROVE  n \in Own(v)
  BY <1>6, <1>11 DEF Own, S
\* A line of the run that lies before one that is sent was sent before.
<1>12. ASSUME NEW k \in DOMAIN Log, Log[k].part = "newline", Log[k].event[1] = w, k <= from
       PROVE  \E j \in DOMAIN S : S[j] = Log[k].event
  BY <1>12 DEF SentInv, SentOf, Was, S
<1>13. ASSUME NEW n \in DOMAIN sent'[v], n \notin DOMAIN S,
              NEW k \in DOMAIN Log, Log[k].part = "newline", Log[k].event[1] = w, k < N(n - L)
       PROVE  \E j \in 1 .. n - 1 : sent'[v][j] = Log[k].event
  <2>1. k \in Int /\ N(n - L) \in Int /\ n \in Int /\ L < n
    BY <1>8, <1>9, <1>13, LogType
  <2>2. CASE k <= from
    <3>1. PICK j \in DOMAIN S : S[j] = Log[k].event
      BY <1>12, <1>13, <2>2
    <3>2. j \in 1 .. n - 1
      BY <1>2, <1>6, <2>1
    <3>. QED
      BY <1>6, <3>1, <3>2
  <2>3. CASE ~(k <= from)
    <3>1. from < k /\ k <= to
      BY <1>2, <1>9, <1>13, <2>1, <2>3
    <3>2. PICK m \in DOMAIN P : N(m) = k
      BY <1>3, <1>13, <3>1
    <3>3. n - L \in DOMAIN P /\ m \in Int /\ n - L \in Int
      BY <1>7, <1>9, <1>13
    <3>4. m < n - L
      <4>1. ~(n - L < m) /\ n - L # m
        BY <1>3, <1>13, <2>1, <3>2, <3>3
      <4>. QED
        BY <3>3, <4>1
    <3>5. L + m \in 1 .. n - 1
      BY <1>2, <1>5, <2>1, <3>2, <3>4
    <3>6. sent'[v][L + m] = Log[k].event
      BY <1>3, <1>7, <3>2
    <3>. QED
      BY <3>5, <3>6
  <2>. QED
    BY <2>2, <2>3
<1>14. ASSUME NEW n \in Own(v)'
       PROVE  sent'[v][n][2] \in 1 .. written'[w]
  <2>1. n \in DOMAIN sent'[v] /\ sent'[v][n][1] = w
    BY <1>10
  <2>2. CASE n \in DOMAIN S
    BY <1>6, <1>11, <2>1, <2>2 DEF SentInv, SentOf, S
  <2>3. CASE n \notin DOMAIN S
    BY <1>9, <2>1, <2>3, WrittenCell DEF LogInv
  <2>. QED
    BY <2>2, <2>3
<1>15. ASSUME NEW m \in Own(v)', NEW n \in Own(v)', m < n
       PROVE  sent'[v][m][2] < sent'[v][n][2]
  <2>1. /\ m \in DOMAIN sent'[v] /\ sent'[v][m][1] = w
        /\ n \in DOMAIN sent'[v] /\ sent'[v][n][1] = w
    BY <1>10
  <2>2. CASE n \in DOMAIN S
    <3>1. m \in DOMAIN S
      BY <1>2, <1>5, <1>15, <2>1, <2>2
    <3>. QED
      BY <1>6, <1>11, <1>15, <2>1, <2>2, <3>1 DEF SentInv, SentOf, S
  <2>3. CASE n \notin DOMAIN S
    <3>1. \E k \in DOMAIN Log :
            Log[k].part = "newline" /\ Log[k].event = sent'[v][m] /\ k < N(n - L)
      <4>1. CASE m \in DOMAIN S
        <5>1. PICK k \in DOMAIN Log : k <= from /\ Log[k].part = "newline" /\ Log[k].event = S[m]
          BY <1>1, <1>11, <2>1, <4>1, OwnBefore DEF LogInv, S
        <5>2. k < N(n - L)
          BY <1>2, <1>9, <2>1, <2>3, <5>1, LogType
        <5>. QED
          BY <1>6, <4>1, <5>1, <5>2
      <4>2. CASE m \notin DOMAIN S
        <5>1. m - L \in DOMAIN P /\ n - L \in DOMAIN P /\ m - L < n - L
          BY <1>2, <1>8, <1>9, <1>15, <2>1, <2>3, <4>2
        <5>2. N(m - L) < N(n - L)
          BY <1>3, <5>1
        <5>. QED
          BY <1>9, <2>1, <4>2, <5>2
      <4>. QED
        BY <4>1, <4>2
    <3>2. PICK k \in DOMAIN Log :
            Log[k].part = "newline" /\ Log[k].event = sent'[v][m] /\ k < N(n - L)
      BY <3>1
    <3>3. /\ N(n - L) \in DOMAIN Log /\ Log[N(n - L)].part = "newline"
          /\ sent'[v][n] = Log[N(n - L)].event
      BY <1>9, <2>1, <2>3
    <3>4. Log[k].event[2] < Log[N(n - L)].event[2]
      BY <2>1, <3>2, <3>3 DEF LogInv, WrittenInv
    <3>. QED
      BY <3>2, <3>3, <3>4
  <2>. QED
    BY <2>2, <2>3
<1>16. ASSUME NEW n \in Own(v)', NEW k \in 1 .. sent'[v][n][2] - 1
       PROVE  \E j \in 1 .. n - 1 : sent'[v][j] = <<w, k>>
  <2>1. n \in DOMAIN sent'[v] /\ sent'[v][n][1] = w
    BY <1>10
  <2>2. CASE n \in DOMAIN S
    <3>1. n \in Own(v) /\ sent'[v][n] = S[n]
      BY <1>6, <1>11, <2>1, <2>2
    <3>2. PICK j \in 1 .. n - 1 : S[j] = <<w, k>>
      BY <1>16, <3>1 DEF SentInv, SentOf, S
    <3>3. j \in DOMAIN S
      BY <1>2, <2>2, <3>2
    <3>. QED
      BY <1>6, <3>2, <3>3
  <2>3. CASE n \notin DOMAIN S
    <3>1. /\ N(n - L) \in DOMAIN Log /\ Log[N(n - L)].part = "newline"
          /\ sent'[v][n] = Log[N(n - L)].event
      BY <1>9, <2>1, <2>3
    <3>2. Log[N(n - L)].event[2] \in 1 .. written[w] /\ written[w] \in Int
      BY <1>1, <2>1, <3>1, WrittenCell, RunTypes DEF LogInv
    <3>3. k \in 1 .. written[w] /\ k < Log[N(n - L)].event[2]
      BY <1>16, <3>1, <3>2
    <3>4. PICK l \in DOMAIN Log : Log[l].part = "newline" /\ Log[l].event = <<w, k>>
      BY <1>1, <3>3, LineOf DEF LogInv
    <3>5. l < N(n - L)
      BY <2>1, <3>1, <3>3, <3>4, LineOrder DEF LogInv
    <3>. QED
      BY <1>13, <2>1, <2>3, <3>4, <3>5
  <2>. QED
    BY <2>2, <2>3
<1>17. ASSUME view'[v] \in Following, NEW k \in DOMAIN Log, Log[k].part = "newline",
              Log[k].event[1] = w
       PROVE  k <= offset'[v] <=> Was(v, Log[k].event)'
  <2>0. offset'[v] = to /\ from <= to /\ k \in Int
    BY <1>17, LogType
  <2>1. ASSUME k <= to
        PROVE  \E j \in DOMAIN sent'[v] : sent'[v][j] = Log[k].event
    <3>1. CASE k <= from
      <4>1. PICK j \in DOMAIN S : S[j] = Log[k].event
        BY <1>12, <1>17, <3>1
      <4>. QED
        BY <1>6, <4>1
    <3>2. CASE ~(k <= from)
      <4>1. from < k
        BY <1>2, <2>0, <3>2
      <4>2. PICK m \in DOMAIN P : N(m) = k
        BY <1>3, <1>17, <2>1, <4>1
      <4>. QED
        BY <1>3, <1>7, <4>2
    <3>. QED
      BY <3>1, <3>2
  <2>2. ASSUME NEW j \in DOMAIN sent'[v], sent'[v][j] = Log[k].event
        PROVE  k <= to
    <3>1. CASE j \in DOMAIN S
      <4>1. Was(v, Log[k].event)
        BY <1>6, <2>2, <3>1 DEF Was, S
      <4>2. k <= from
        BY <1>17, <4>1 DEF SentInv, SentOf
      <4>. QED
        BY <1>2, <2>0, <4>2
    <3>2. CASE j \notin DOMAIN S
      <4>1. /\ N(j - L) \in DOMAIN Log /\ Log[N(j - L)].part = "newline" /\ N(j - L) <= to
            /\ Log[N(j - L)].event = Log[k].event
        BY <1>9, <2>2, <3>2
      <4>2. k \in Int /\ N(j - L) \in Int /\ Log[k].event[2] \in Int
        BY <4>1, LogType
      <4>3. ~(k < N(j - L)) /\ ~(N(j - L) < k)
        BY <1>17, <4>1, <4>2, LineOrder DEF LogInv
      <4>. QED
        BY <4>1, <4>2, <4>3
    <3>. QED
      BY <3>1, <3>2
  <2>. QED
    BY <2>0, <2>1, <2>2 DEF Was
<1>18. ASSUME NEW n \in DOMAIN sent'[v], Foreign(v, sent[v][n])'
       PROVE  /\ place[w] \in {"mark", "over"}
              /\ sent'[v][n][1] > w
              /\ \A k \in 1 .. written[w] : \E j \in 1 .. n : sent'[v][j] = <<w, k>>
  <2>0. sent'[v][n][1] \notin {w} \union Outside
    BY <1>18 DEF Foreign
  <2>1. CASE n \in DOMAIN S
    <3>1. Foreign(v, S[n]) /\ sent'[v][n] = S[n]
      BY <1>6, <2>0, <2>1 DEF Foreign
    <3>2. /\ place[w] \in {"mark", "over"} /\ S[n][1] > w
          /\ \A k \in 1 .. written[w] : \E j \in 1 .. n : S[j] = <<w, k>>
      BY <2>1, <3>1 DEF SentInv, SentOf, S
    <3>3. \A j \in 1 .. n : sent'[v][j] = S[j]
      BY <1>2, <1>6, <2>1
    <3>. QED
      BY <3>1, <3>2, <3>3
  <2>2. CASE n \notin DOMAIN S
    <3>. DEFINE l == N(n - L)
                q == Log[l].event[1]
    <3>1. /\ l \in DOMAIN Log /\ Log[l].part = "newline" /\ from < l
          /\ sent'[v][n] = Log[l].event /\ L < n /\ n \in Int
      BY <1>8, <1>9, <2>2
    <3>. HIDE DEF l
    <3>2. q \in Runs /\ q \in Int /\ q \in Served /\ q # w /\ l \in Int
      BY <2>0, <3>1, LogType, RunTypes DEF Served
    <3>3. ~(q < w)
      <4>1. startAt[w] \in Int /\ from \in Int
        BY <1>1, <1>2 DEF OrderInv, LogInv, Edge
      <4>2. q < w => l <= startAt[w]
        BY <1>1, <3>1, <3>2 DEF OrderInv, LogInv
      <4>. QED
        BY <1>1, <3>1, <3>2, <4>1, <4>2
    <3>4. w < q
      BY <1>1, <3>2, <3>3
    <3>5. place[q] # "none"
      <4>1. Log[l].event[2] \in 1 .. written[q]
        BY <3>1, WrittenCell DEF LogInv
      <4>2. written[q] # 0
        BY <4>1
      <4>. QED
        BY <3>2, <4>2 DEF RunsInv
    <3>6. place[w] \in {"mark", "over"}
      BY <1>1, <3>2, <3>4, <3>5 DEF RunsInv
    <3>7. ASSUME NEW k \in 1 .. written[w]
          PROVE  \E j \in 1 .. n : sent'[v][j] = <<w, k>>
      <4>1. PICK i \in DOMAIN Log : Log[i].part = "newline" /\ Log[i].event = <<w, k>>
        BY <1>1, LineOf DEF LogInv
      <4>2. i \in Int /\ i # l
        BY <3>2, <4>1, LogType
      <4>3. ~(l < i)
        <5>1. l < i => q <= w
          BY <1>1, <3>1, <3>2, <4>1 DEF OrderInv, LogInv
        <5>. QED
          BY <1>1, <3>2, <3>4, <5>1
      <4>4. i < N(n - L)
        BY <3>2, <4>2, <4>3 DEF l
      <4>5. PICK j \in 1 .. n - 1 : sent'[v][j] = <<w, k>>
        BY <1>13, <2>2, <4>1, <4>4
      <4>. QED
        BY <3>1, <4>5
    <3>. QED
      BY <1>1, <3>1, <3>2, <3>4, <3>6, <3>7
  <2>. QED
    BY <2>1, <2>2
<1>. QED
  BY <1>14, <1>15, <1>16, <1>17, <1>18 DEF SentOf

\* Whatever is written to the file in the meantime.
LEMMA KeepsSent ==
  ASSUME TypesInv, RunsInv, WrittenInv, ViewInv, SentInv, LogStep, Moved, NEW v \in Viewers,
         watched'[v] = watched[v], sent'[v] = sent[v],
         view'[v] \in Following => view[v] \in Following /\ offset'[v] = offset[v]
  PROVE  SentOf(v)'
<1>. DEFINE w == watched[v]
            S == sent[v]
<1>1. S \in Seq(Events) /\ DOMAIN S = 1 .. Len(S) /\ Len(S) \in Nat
  BY LenProperties DEF TypesInv, TypeOK
<1>2. w \in Runs \/ S = <<>>
  BY DEF TypesInv, TypeOK, AskedInv, ViewInv, ViewOf, Served
<1>3. \A n \in DOMAIN S : w \in Runs
  BY <1>1, <1>2
<1>4. w \in Runs => /\ written[w] \in Nat /\ written'[w] \in Nat /\ written[w] <= written'[w]
                    /\ place[w] \in {"mark", "over"} =>
                         written'[w] = written[w] /\ place'[w] \in {"mark", "over"}
  BY WrittenGrows DEF Moved
<1>5. SentOf(v)
  BY DEF SentInv
<1>6. Own(v)' = Own(v)
  BY DEF Own
<1>7. ASSUME NEW n \in Own(v)
      PROVE  S[n][2] \in 1 .. written'[w]
  <2>1. n \in DOMAIN S /\ S[n][2] \in 1 .. written[w]
    BY <1>5 DEF SentOf, Own
  <2>. QED
    BY <1>3, <1>4, <2>1
<1>8. ASSUME view'[v] \in Following, NEW k \in DOMAIN Log', Log'[k].part = "newline",
             Log'[k].event[1] = w
      PROVE  k <= offset'[v] <=> \E n \in DOMAIN S : S[n] = Log'[k].event
  <2>0. view[v] \in Following /\ offset'[v] = offset[v]
    BY <1>8
  <2>1. CASE k \in DOMAIN Log
    BY <1>5, <1>8, <2>0, <2>1, CellsStay DEF SentOf, Was
  <2>2. CASE k \notin DOMAIN Log
    <3>1. Edge(Log, offset[v])
      BY <2>0 DEF ViewInv, ViewOf
    <3>2. ~(k <= offset'[v])
      BY <2>0, <2>2, <3>1, <1>8, CellsStay DEF Edge
    <3>3. PICK r \in Runs : Log'[k].event = <<r, written[r] + 1>>
      BY <1>8, <2>2, CellsNew
    <3>4. r = w
      BY <1>8, <3>3
    <3>5. ASSUME NEW n \in DOMAIN S, S[n] = Log'[k].event
          PROVE  FALSE
      <4>1. n \in Own(v)
        BY <1>8, <3>5 DEF Own
      <4>2. S[n][2] \in 1 .. written[w]
        BY <1>5, <4>1 DEF SentOf
      <4>. QED
        BY <1>4, <3>3, <3>4, <3>5, <4>2
    <3>. QED
      BY <3>2, <3>5
  <2>. QED
    BY <2>1, <2>2
<1>9. ASSUME NEW n \in DOMAIN S, Foreign(v, S[n])
      PROVE  /\ place'[w] \in {"mark", "over"} /\ S[n][1] > w
             /\ \A k \in 1 .. written'[w] : \E j \in 1 .. n : S[j] = <<w, k>>
  <2>1. /\ place[w] \in {"mark", "over"} /\ S[n][1] > w
        /\ \A k \in 1 .. written[w] : \E j \in 1 .. n : S[j] = <<w, k>>
    BY <1>5, <1>9 DEF SentOf
  <2>2. w \in Runs
    BY <1>3
  <2>. QED
    BY <1>4, <2>1, <2>2
<1>10. ASSUME NEW n \in DOMAIN sent'[v], Foreign(v, sent[v][n])'
       PROVE  n \in DOMAIN S /\ Foreign(v, S[n])
  BY <1>10 DEF Foreign
<1>11. \A n \in Own(v) : S[n][2] \in 1 .. written'[w]
  BY <1>7
<1>12. /\ \A m, n \in Own(v) : m < n => S[m][2] < S[n][2]
       /\ \A n \in Own(v) : \A k \in 1 .. S[n][2] - 1 : \E j \in 1 .. n - 1 : S[j] = <<w, k>>
  BY <1>5 DEF SentOf
<1>13. view'[v] \in Following =>
         \A k \in DOMAIN Log' : Log'[k].part = "newline" /\ Log'[k].event[1] = w =>
           (k <= offset'[v] <=> Was(v, Log[k].event)')
  BY <1>8 DEF Was
<1>14. \A n \in DOMAIN sent'[v] : Foreign(v, sent[v][n])' =>
         /\ place'[w] \in {"mark", "over"} /\ S[n][1] > w
         /\ \A k \in 1 .. written'[w] : \E j \in 1 .. n : S[j] = <<w, k>>
  BY <1>9, <1>10
<1>. QED
  BY <1>6, <1>11, <1>12, <1>13, <1>14 DEF SentOf

LEMMA NothingSent ==
  ASSUME NEW v \in Viewers, sent'[v] = <<>>,
         view'[v] \in Following =>
           \A k \in DOMAIN Log' : Log'[k].event[1] = watched'[v] => ~(k <= offset'[v])
  PROVE  SentOf(v)'
BY DEF SentOf, Own, Was

LEMMA NextSent ==
  ASSUME TypesInv, RunsInv, LogInv, ViewInv, SentInv, LogStep, [Next]_vars
  PROVE  SentInv'
<1>. SUFFICES ASSUME NEW v \in Viewers
              PROVE  SentOf(v)'
  BY DEF SentInv
<1>0. ViewTypes /\ Moved
  BY NextSamples DEF TypesInv, TypeOK, ViewTypes
<1>1. CASE Stays(v)
  BY <1>0, <1>1, KeepsSent DEF Stays, LogInv
<1>2. ASSUME UNCHANGED <<file, clean, runVars>>
      PROVE  Log' = Log /\ opened' = opened /\ place' = place /\ written' = written
  BY <1>2 DEF Log, Rewriting, runVars
<1>3. ASSUME UNCHANGED <<file, clean, runVars>>, NEW r \in Served, Attach(v, r)
      PROVE  SentOf(v)'
  <2>1. view[v] = "off" /\ sent' = sent /\ view'[v] = "look"
    BY <1>0, <1>3 DEF Attach, LookTo, ViewTypes
  <2>2. sent'[v] = <<>>
    BY <2>1 DEF ViewInv, ViewOf
  <2>. QED
    BY <2>1, <2>2, NothingSent DEF Following
<1>4. ASSUME UNCHANGED <<file, clean, runVars>>, Follow(v)
      PROVE  SentOf(v)'
  <2>1. /\ view[v] = "look" /\ sent' = sent /\ watched' = watched
        /\ offset'[v] = startAt[watched[v]] /\ watched[v] \in opened
    BY <1>0, <1>4 DEF Follow, ViewTypes
  <2>2. sent'[v] = <<>>
    BY <2>1 DEF ViewInv, ViewOf
  <2>3. ASSUME NEW k \in DOMAIN Log', Log'[k].event[1] = watched'[v]
        PROVE  ~(k <= offset'[v])
    <3>1. startAt[watched[v]] < k /\ startAt[watched[v]] \in Int
      BY <1>2, <1>4, <2>1, <2>3 DEF LogInv, OrderInv, Edge
    <3>. QED
      BY <1>2, <1>4, <2>1, <2>3, <3>1, LogType
  <2>. QED
    BY <2>2, <2>3, NothingSent
<1>5. ASSUME UNCHANGED <<file, clean, runVars>>, GiveUp(v) \/ Cut(v)
      PROVE  SentOf(v)'
  <2>1. sent' = sent /\ watched' = watched /\ view'[v] = "gone"
    BY <1>0, <1>5 DEF GiveUp, Cut, LookTo, ViewTypes
  <2>. QED
    BY <1>0, <2>1, KeepsSent DEF Following, LogInv
<1>6. ASSUME UNCHANGED <<file, clean, runVars>>, AskEnd(v)
      PROVE  SentOf(v)'
  <2>1. sent' = sent /\ watched' = watched /\ offset' = offset /\ view[v] = "tail"
    BY <1>6 DEF AskEnd
  <2>. QED
    BY <1>0, <2>1, KeepsSent DEF Following, LogInv
<1>7. ASSUME UNCHANGED <<file, clean, runVars>>, Read(v)
      PROVE  SentOf(v)'
  <2>. DEFINE to == Consumed(offset[v])
  <2>1. /\ view[v] \in Following /\ Send(v, to) /\ watched' = watched /\ offset'[v] = to
    BY <1>0, <1>7 DEF Read, Following, ViewTypes
  <2>2. to \in Nat /\ offset[v] <= to /\ Chunk(offset[v], to)
    BY <2>1, ReadsToEdge, ReadChunk DEF ViewInv, ViewOf, TypesInv
  <2>. HIDE DEF to
  <2>. QED
    BY <1>2, <1>7, <2>1, <2>2, Receives
<1>8. ASSUME UNCHANGED <<file, clean, runVars>>, Drain(v)
      PROVE  SentOf(v)'
  <2>. DEFINE to == Min({endAt[watched[v]], Len(file)})
  <2>1. view[v] = "drain" /\ Send(v, to) /\ watched' = watched /\ view'[v] = "closed"
    BY <1>0, <1>8 DEF Drain, LookTo, ViewTypes
  <2>2. to \in Nat /\ Chunk(offset[v], to)
    <3>1. watched[v] \in Runs
      BY <2>1, RunTypes DEF ViewInv, ViewOf, Following, Served
    <3>. QED
      BY <3>1, DrainChunk DEF TypesInv
  <2>. HIDE DEF to
  <2>. QED
    BY <1>2, <1>8, <2>1, <2>2, Receives DEF Following
<1>. QED
  BY <1>1, <1>3, <1>4, <1>5, <1>6, <1>7, <1>8, OneViewer DEF Poll, Acts

-----------------------------------------------------------------------------
(* The theorems.                                                           *)

LEMMA InitStream == Init => StreamInv
<1>. SUFFICES ASSUME Init PROVE StreamInv
  OBVIOUS
<1>1. TypesInv /\ RunsInv
  BY InitTypes, InitRuns
<1>2. Log = <<>> /\ DOMAIN Log = {} /\ Len(Log) = 0
  BY DEF Init, Log
<1>3. LogInv
  BY <1>2 DEF Init, LogInv, LinesInv, WrittenInv, OrderInv, Edge
<1>4. ViewInv /\ SentInv
  BY DEF Init, ViewInv, ViewOf, SentInv, SentOf, Own, Following
<1>. QED
  BY <1>1, <1>3, <1>4 DEF StreamInv

LEMMA NextStream ==
  ASSUME SameSize, PlainOutside, StreamInv, [Next]_vars
  PROVE  StreamInv' /\ LogStep
<1>. USE DEF StreamInv, LogInv
<1>1. TypesInv' /\ RunsInv'
  BY NextTypes, NextRuns
<1>2. LogStep
  BY LogSteps
<1>3. LinesInv' /\ WrittenInv'
  BY <1>2, NextLines, NextWritten
<1>4. OrderInv'
  BY <1>1, <1>2, NextOrder
<1>5. ViewInv'
  BY <1>1, <1>2, NextView
<1>6. SentInv'
  BY <1>2, NextSent
<1>. QED
  BY <1>1, <1>2, <1>3, <1>4, <1>5, <1>6

\* The types of all variables (TypeOK), with no hypothesis: whatever the runs write, in how many
\* pieces, and however long the masks are.
THEOREM EventTypes == Spec => []TypeOK
<1>1. Init => TypesInv
  BY InitTypes
<1>2. TypesInv /\ [Next]_vars => TypesInv'
  BY NextTypes
<1>3. TypesInv => TypeOK
  BY DEF TypesInv
<1>. QED
  BY <1>1, <1>2, <1>3, PTL DEF Spec

LEMMA StreamInvHolds ==
  ASSUME SameSize, PlainOutside
  PROVE  Spec => []StreamInv
<1>1. Init => StreamInv
  BY InitStream
<1>2. StreamInv /\ [Next]_vars => StreamInv'
  BY NextStream
<1>. QED
  BY <1>1, <1>2, PTL DEF Spec

\* A viewer has as many of its run's events as the number of the last one it has.
LEMMA Counted ==
  ASSUME TypesInv, SentInv, NEW v \in Viewers, NEW n \in Own(v)
  PROVE  sent[v][n] = <<watched[v], Cardinality(Own(v) \intersect (1 .. n))>>
<1>. DEFINE S == sent[v]
            w == watched[v]
            m == S[n][2]
            E == Own(v) \intersect (1 .. n)
<1>1. S \in Seq(Events) /\ DOMAIN S = 1 .. Len(S) /\ Len(S) \in Nat
  BY LenProperties DEF TypesInv, TypeOK
<1>2. n \in DOMAIN S /\ S[n] \in Events /\ S[n] = <<w, m>> /\ m \in Nat \ {0}
  <2>1. n \in DOMAIN S /\ S[n] \in Events /\ S[n][1] = w
    BY <1>1, ElementOfSeq DEF Own
  <2>. QED
    BY <2>1, EventStreamAssumption DEF Events
<1>3. ASSUME NEW j \in E
      PROVE  j \in 1 .. n /\ j \in Own(v) /\ S[j][2] \in 1 .. m
  <2>1. j \in 1 .. n /\ j \in Own(v)
    OBVIOUS
  <2>2. S[j][2] \in 1 .. written[w]
    BY <2>1 DEF SentInv, SentOf
  <2>3. j < n => S[j][2] < m
    BY <2>1 DEF SentInv, SentOf
  <2>. QED
    BY <1>1, <1>2, <2>1, <2>2, <2>3
<1>4. ASSUME NEW i \in E, NEW j \in E, S[i][2] = S[j][2]
      PROVE  i = j
  <2>1. /\ i < j => S[i][2] < S[j][2]
        /\ j < i => S[j][2] < S[i][2]
    BY DEF SentInv, SentOf
  <2>2. i \in Int /\ j \in Int /\ S[j][2] \in Int
    BY <1>3
  <2>. QED
    BY <1>4, <2>1, <2>2
<1>5. ASSUME NEW k \in 1 .. m
      PROVE  \E j \in E : S[j][2] = k
  <2>1. CASE k = m
    BY <1>1, <1>2, <2>1
  <2>2. CASE k # m
    <3>1. k \in 1 .. m - 1
      BY <1>2, <2>2
    <3>2. PICK j \in 1 .. n - 1 : S[j] = <<w, k>>
      BY <3>1 DEF SentInv, SentOf
    <3>3. j \in DOMAIN S /\ j \in 1 .. n
      BY <1>1, <1>2, <3>2
    <3>4. j \in Own(v)
      BY <3>2, <3>3 DEF Own
    <3>. QED
      BY <3>2, <3>3, <3>4
  <2>. QED
    BY <2>1, <2>2
<1>. DEFINE f == [j \in E |-> S[j][2]]
<1>. HIDE DEF E, m
<1>6. ExistsBijection(E, 1 .. m)
  <2>1. f \in [E -> 1 .. m] /\ (\A i, j \in E : f[i] = f[j] => i = j)
    BY <1>3, <1>4
  <2>2. \A k \in 1 .. m : \E j \in E : f[j] = k
    BY <1>5
  <2>3. f \in Bijection(E, 1 .. m)
    BY <2>1, <2>2 DEF Bijection, Injection, Surjection, IsInjective
  <2>. QED
    BY <2>3 DEF ExistsBijection
<1>7. IsFiniteSet(E)
  <2>1. E \in SUBSET (1 .. n) /\ n \in Int /\ 1 \in Int
    BY <1>1, <1>2 DEF E
  <2>. QED
    BY <2>1, FS_Interval, FS_Subset
<1>8. Cardinality(1 .. m) = Cardinality(E)
  BY <1>6, <1>7, FS_Bijection
<1>9. Cardinality(1 .. m) = m
  BY <1>2, FS_Interval
<1>. QED
  BY <1>2, <1>8, <1>9 DEF E

LEMMA StreamInOrder ==
  ASSUME StreamInv
  PROVE  InOrder
BY Counted DEF InOrder, StreamInv

\* Every viewer gets the events of the run it watches without a gap, a repetition or a swap
\* (InOrder), for any number of runs, viewers and events, however the runs, the redaction, the
\* samples and the polls interleave.
THEOREM Ordered == SameSize /\ PlainOutside /\ Spec => []InOrder
<1>1. SameSize /\ PlainOutside => (Spec => []InOrder)
  <2>. SUFFICES ASSUME SameSize, PlainOutside
                PROVE  Spec => []InOrder
    OBVIOUS
  <2>1. StreamInv => InOrder
    BY StreamInOrder
  <2>. QED
    BY <2>1, StreamInvHolds, PTL
<1>. QED
  BY <1>1

\* An event of another execution is of a later run and comes when the viewer has the whole of
\* its own (OthersOnlyAfter).
THEOREM OthersComeAfter == SameSize /\ PlainOutside /\ Spec => []OthersOnlyAfter
<1>1. SameSize /\ PlainOutside => (Spec => []OthersOnlyAfter)
  <2>. SUFFICES ASSUME SameSize, PlainOutside
                PROVE  Spec => []OthersOnlyAfter
    OBVIOUS
  <2>1. StreamInv => OthersOnlyAfter
    BY DEF StreamInv, SentInv, SentOf, OthersOnlyAfter
  <2>. QED
    BY <2>1, StreamInvHolds, PTL
<1>. QED
  BY <1>1

-----------------------------------------------------------------------------
(* The stream of a run is what RunFeed promises.                           *)

\* Once a run is over nobody rewrites the file, when only the first run does.
FirstInv == \A r \in Runs : place[r] = "rewrite" => \A s \in Served : r <= s

LEMMA NextFirst ==
  ASSUME FirstRedacts, TypesInv, RunsInv, WrittenInv, FirstInv, [Next]_vars
  PROVE  FirstInv'
<1>0. place \in [Runs -> Places]
  BY RunTypes
<1>. USE DEF FirstInv, runVars
<1>1. ASSUME NEW r \in Runs, Start(r)
      PROVE  FirstInv'
  BY <1>0, <1>1 DEF Start, Goto
<1>2. ASSUME NEW r \in Runs, Lock(r)
      PROVE  FirstInv'
  BY <1>0, <1>2 DEF Lock, Goto
<1>3. ASSUME NEW r \in Runs, FailEarly(r)
      PROVE  FirstInv'
  BY <1>0, <1>3 DEF FailEarly, Goto
<1>4. ASSUME NEW r \in Runs, Open(r)
      PROVE  FirstInv'
  BY <1>0, <1>4 DEF Open, Goto
<1>5. ASSUME NEW r \in Runs, Trigger(r)
      PROVE  FirstInv'
  BY <1>0, <1>5 DEF Trigger, Appended
<1>6. ASSUME NEW r \in Runs, Rest(r)
      PROVE  FirstInv'
  BY <1>0, <1>6 DEF Rest, Goto, Appended
<1>7. ASSUME NEW r \in Runs, WriteHalf(r)
      PROVE  FirstInv'
  BY <1>0, <1>7 DEF WriteHalf, Goto
<1>8. ASSUME NEW r \in Runs, WriteRest(r)
      PROVE  FirstInv'
  BY <1>0, <1>8 DEF WriteRest, Goto
<1>9. ASSUME NEW r \in Runs, WriteLine(r)
      PROVE  FirstInv'
  BY <1>0, <1>9 DEF WriteLine
<1>10. ASSUME NEW r \in Runs, Redact(r)
      PROVE  FirstInv'
  <2>1. PICK n : <<r, n>> \in Secrets
    BY <1>10, RedactsItsOwn
  <2>2. \A s \in Served : r <= s
    BY <2>1 DEF FirstRedacts
  <2>. QED
    BY <1>0, <1>10, <2>2 DEF Redact, Goto
<1>11. ASSUME NEW r \in Runs, Rewrite(r)
      PROVE  FirstInv'
  BY <1>0, <1>11 DEF Rewrite, Goto
<1>12. ASSUME NEW r \in Runs, Raise(r)
      PROVE  FirstInv'
  BY <1>0, <1>12 DEF Raise, Goto, Recording
<1>13. ASSUME NEW r \in Runs, Unlock(r)
      PROVE  FirstInv'
  BY <1>0, <1>13 DEF Unlock, Goto, Recording
<1>14. ASSUME NEW r \in Runs, ErrorEvent(r)
      PROVE  FirstInv'
  BY <1>0, <1>14 DEF ErrorEvent, Goto, Appended
<1>15. ASSUME NEW r \in Runs, SampleEnd(r)
      PROVE  FirstInv'
  BY <1>0, <1>15 DEF SampleEnd, Goto
<1>16. ASSUME NEW r \in Runs, Free(r)
      PROVE  FirstInv'
  BY <1>0, <1>16 DEF Free, Goto
<1>17. ASSUME NEW r \in Runs, MarkDone(r)
      PROVE  FirstInv'
  BY <1>0, <1>17 DEF MarkDone, Goto
<1>18. ASSUME NEW r \in Runs, Evict(r)
      PROVE  FirstInv'
  BY <1>0, <1>18 DEF Evict
<1>19. ASSUME NEW v \in Viewers, Poll(v) \/ \E r \in Served : Attach(v, r)
      PROVE  FirstInv'
  BY <1>0, <1>19 DEF Poll, Follow, GiveUp, AskEnd, Read, Drain, Cut, Attach
<1>20. CASE UNCHANGED vars
  BY <1>0, <1>20 DEF vars
<1>. QED
  BY <1>1, <1>2, <1>3, <1>4, <1>5, <1>6, <1>7, <1>8, <1>9, <1>10, <1>11, <1>12, <1>13,
     <1>14, <1>15, <1>16, <1>17, <1>18, <1>19, <1>20 DEF Next, Work

LEMMA FileBack ==
  ASSUME TypesInv, RunsInv, FirstInv, NEW r \in Served, place[r] = "over"
  PROVE  Log = file
<1>1. ASSUME NEW q \in Runs, place[q] = "rewrite"
      PROVE  FALSE
  <2>1. q \in Served /\ q <= r /\ q # r /\ r \in Runs
    BY <1>1 DEF RunsInv, FirstInv, Served
  <2>2. q < r
    BY <2>1, RunTypes
  <2>. QED
    BY <1>1, <2>1, <2>2 DEF RunsInv
<1>. QED
  BY <1>1 DEF Log, Rewriting

\* The last read of a stream gets all that is left of the run.
LEMMA DrainsAll ==
  ASSUME TypesInv, RunsInv, LogInv, ViewInv, SentInv, FirstInv, NEW v \in Viewers, Drain(v),
         NEW k \in 1 .. written[watched[v]]
  PROVE  \E n \in DOMAIN sent'[v] : sent'[v][n] = <<watched[v], k>>
<1>. DEFINE w == watched[v]
            to == Min({endAt[w], Len(file)})
            S == sent[v]
            P == Parsed(offset[v], to)
<1>1. /\ view[v] = "drain" /\ Edge(Log, offset[v]) /\ Done(w) /\ w \in opened
      /\ w \in Served /\ w \in Runs
  BY RunTypes DEF Drain, ViewInv, ViewOf, Following, Served
<1>2. Log = file
  BY <1>1, FileBack DEF Done
<1>3. PICK l \in DOMAIN Log : Log[l].part = "newline" /\ Log[l].event = <<w, k>>
  BY <1>1, LineOf DEF LogInv
<1>4. /\ to \in Nat /\ Chunk(offset[v], to)
      /\ endAt[w] \in Nat /\ Len(file) \in Nat /\ l \in 1 .. Len(file)
      /\ offset[v] \in Nat /\ S \in Seq(Events)
  BY <1>1, <1>2, DrainChunk, LogType DEF TypesInv, TypeOK
<1>5. l <= endAt[w] /\ l <= Len(file)
  BY <1>1, <1>3, <1>4 DEF LogInv, OrderInv, Done
<1>6. to \in {endAt[w], Len(file)}
  BY <1>4, Smaller
<1>7. l <= to
  BY <1>4, <1>5, <1>6
<1>8. sent'[v] = S \o P
  BY <1>1 DEF Drain, Send, TypesInv, TypeOK
<1>9. /\ P \in Seq(Events)
      /\ \A n \in DOMAIN P : LET i == Nth(offset[v], to, n) IN P[n] = Log[i].event
      /\ \A i \in DOMAIN Log : offset[v] < i /\ i <= to /\ Log[i].part = "newline" =>
           \E n \in DOMAIN P : Nth(offset[v], to, n) = i
  <2>. HIDE DEF to
  <2>. QED
    BY <1>1, <1>4, Delivered
<1>. HIDE DEF P, to
<1>10. /\ Len(S) \in Nat /\ DOMAIN S = 1 .. Len(S) /\ Len(P) \in Nat /\ DOMAIN P = 1 .. Len(P)
       /\ DOMAIN sent'[v] = 1 .. Len(S) + Len(P)
       /\ \A n \in 1 .. Len(S) + Len(P) : sent'[v][n] = IF n <= Len(S) THEN S[n] ELSE P[n - Len(S)]
  <2>. HIDE DEF S
  <2>. QED
    BY <1>4, <1>8, <1>9, ConcatProperties, LenProperties
<1>11. CASE l <= offset[v]
  <2>1. Was(v, Log[l].event)
    BY <1>1, <1>3, <1>11 DEF SentInv, SentOf, Following
  <2>2. PICK n \in DOMAIN S : S[n] = <<w, k>>
    BY <1>3, <2>1 DEF Was
  <2>. QED
    BY <1>10, <2>2
<1>12. CASE ~(l <= offset[v])
  <2>1. offset[v] < l
    BY <1>4, <1>12
  <2>2. PICK n \in DOMAIN P : P[n] = <<w, k>>
    BY <1>3, <1>7, <1>9, <2>1
  <2>3. Len(S) + n \in DOMAIN sent'[v] /\ sent'[v][Len(S) + n] = P[n]
    <3>1. n \in 1 .. Len(P)
      BY <1>10
    <3>2. ASSUME NEW m, m = Len(S) + n
          PROVE  m \in DOMAIN sent'[v] /\ sent'[v][m] = P[n]
      <4>1. m \in 1 .. Len(S) + Len(P) /\ ~(m <= Len(S)) /\ m - Len(S) = n
        BY <1>10, <3>1, <3>2
      <4>. QED
        BY <1>10, <4>1
    <3>. QED
      BY <3>2
  <2>. QED
    BY <2>2, <2>3
<1>. QED
  BY <1>11, <1>12

LEMMA NextClosed ==
  ASSUME TypesInv, RunsInv, LogInv, ViewInv, SentInv, FirstInv, ClosedInv, LogStep, [Next]_vars
  PROVE  ClosedInv'
<1>. SUFFICES ASSUME NEW v \in Viewers, view'[v] = "closed"
              PROVE  /\ place'[watched'[v]] = "over"
                     /\ \A k \in 1 .. written'[watched'[v]] :
                          \E n \in DOMAIN sent'[v] : sent'[v][n] = <<watched'[v], k>>
  BY DEF ClosedInv, Was, Done
<1>0. ViewTypes /\ Moved
  BY NextSamples DEF TypesInv, TypeOK, ViewTypes
<1>1. CASE Stays(v)
  <2>1. watched'[v] = watched[v] /\ sent'[v] = sent[v] /\ view[v] = "closed"
    BY <1>1 DEF Stays
  <2>2. watched[v] \in Runs
    BY <1>0, <2>1 DEF ViewTypes, Served, TypesInv, AskedInv
  <2>3. place[watched[v]] = "over"
    BY <2>1 DEF ClosedInv, Done
  <2>4. place'[watched[v]] = "over" /\ written'[watched[v]] = written[watched[v]]
    BY <1>0, <2>2, <2>3, WrittenGrows DEF Moved
  <2>. QED
    BY <2>1, <2>4 DEF ClosedInv, Was
<1>2. ASSUME Acts(v)
      PROVE  Drain(v)
  BY <1>0, <1>2 DEF Acts, Poll, Attach, Follow, GiveUp, AskEnd, Read, Cut, LookTo, ViewTypes
<1>3. ASSUME Acts(v)
      PROVE  /\ place'[watched'[v]] = "over"
             /\ \A k \in 1 .. written'[watched'[v]] :
                  \E n \in DOMAIN sent'[v] : sent'[v][n] = <<watched'[v], k>>
  <2>1. Drain(v) /\ place' = place /\ written' = written
    BY <1>2, <1>3 DEF Acts, runVars
  <2>2. watched' = watched /\ view[v] = "drain"
    BY <2>1 DEF Drain
  <2>3. place[watched[v]] = "over"
    BY <2>2 DEF ViewInv, ViewOf, Done
  <2>. QED
    BY <2>1, <2>2, <2>3, DrainsAll
<1>. QED
  BY <1>1, <1>3, OneViewer

FeedInv == StreamInv /\ FirstInv /\ ClosedInv

LEMMA FeedInvHolds ==
  ASSUME SameSize, PlainOutside, FirstRedacts
  PROVE  Spec => []FeedInv
<1>1. Init => FeedInv
  <2>1. Init => FirstInv /\ ClosedInv
    BY DEF Init, FirstInv, ClosedInv
  <2>. QED
    BY <2>1, InitStream DEF FeedInv
<1>2. ASSUME FeedInv, [Next]_vars
      PROVE  FeedInv'
  <2>1. StreamInv' /\ LogStep
    BY <1>2, NextStream DEF FeedInv
  <2>2. FirstInv' /\ ClosedInv'
    BY <1>2, <2>1, NextFirst, NextClosed DEF FeedInv, StreamInv, LogInv
  <2>. QED
    BY <2>1, <2>2 DEF FeedInv
<1>3. FeedInv /\ [Next]_vars => FeedInv'
  BY <1>2
<1>. QED
  BY <1>1, <1>3, PTL DEF Spec

\* How many of its run's events a viewer has.
OwnCounted ==
  \A v \in Viewers :
    /\ IsFiniteSet(Own(v)) /\ Cardinality(Own(v)) \in Nat
    /\ watched[v] \in Runs => Cardinality(Own(v)) <= written[watched[v]]
    /\ watched[v] \in Runs /\ (\A k \in 1 .. written[watched[v]] : Was(v, <<watched[v], k>>)) =>
         Cardinality(Own(v)) = written[watched[v]]

LEMMA CountsOwn ==
  ASSUME TypesInv, SentInv
  PROVE  OwnCounted
<1>. SUFFICES ASSUME NEW v \in Viewers
              PROVE  /\ IsFiniteSet(Own(v)) /\ Cardinality(Own(v)) \in Nat
                     /\ watched[v] \in Runs => Cardinality(Own(v)) <= written[watched[v]]
                     /\ /\ watched[v] \in Runs
                        /\ \A k \in 1 .. written[watched[v]] : Was(v, <<watched[v], k>>)
                        => Cardinality(Own(v)) = written[watched[v]]
  BY DEF OwnCounted
<1>. DEFINE S == sent[v]
            w == watched[v]
            E == Own(v)
            I == {S[n][2] : n \in E}
<1>1. S \in Seq(Events) /\ DOMAIN S = 1 .. Len(S) /\ Len(S) \in Nat
  BY LenProperties DEF TypesInv, TypeOK
<1>2. IsFiniteSet(E) /\ Cardinality(E) \in Nat
  <2>1. E \in SUBSET (1 .. Len(S)) /\ 1 \in Int /\ Len(S) \in Int
    BY <1>1 DEF Own
  <2>. HIDE DEF E
  <2>2. IsFiniteSet(E)
    BY <2>1, FS_Interval, FS_Subset
  <2>. QED
    BY <2>2, FS_CardinalityType
<1>3. ASSUME NEW i \in E, NEW j \in E, S[i][2] = S[j][2]
      PROVE  i = j
  <2>1. /\ i < j => S[i][2] < S[j][2]
        /\ j < i => S[j][2] < S[i][2]
    BY DEF SentInv, SentOf
  <2>2. i \in Int /\ j \in Int
    BY <1>1 DEF Own
  <2>3. S[j][2] \in 1 .. written[w]
    BY DEF SentInv, SentOf
  <2>. QED
    BY <1>3, <2>1, <2>2, <2>3
<1>4. \A n \in E : S[n][2] \in 1 .. written[w]
  BY DEF SentInv, SentOf
<1>. DEFINE f == [n \in E |-> S[n][2]]
<1>5. Cardinality(I) = Cardinality(E) /\ IsFiniteSet(I)
  <2>1. /\ f \in [E -> I] /\ (\A i, j \in E : f[i] = f[j] => i = j)
        /\ \A k \in I : \E n \in E : f[n] = k
    BY <1>3
  <2>. HIDE DEF f, I
  <2>2. f \in Bijection(E, I)
    BY <2>1 DEF Bijection, Injection, Surjection, IsInjective
  <2>3. ExistsBijection(E, I)
    BY <2>2 DEF ExistsBijection
  <2>. QED
    BY <1>2, <2>3, FS_Bijection
<1>6. ASSUME w \in Runs
      PROVE  IsFiniteSet(1 .. written[w]) /\ Cardinality(1 .. written[w]) = written[w]
  <2>. DEFINE n == written[w]
  <2>1. n \in Nat
    BY <1>6, RunTypes
  <2>. HIDE DEF n
  <2>2. IsFiniteSet(1 .. n) /\ Cardinality(1 .. n) = n
    BY <2>1, FS_Interval
  <2>. QED
    BY <2>2 DEF n
<1>7. I \in SUBSET (1 .. written[w])
  BY <1>4
<1>8. ASSUME w \in Runs
      PROVE  Cardinality(E) <= written[w]
  <2>. HIDE DEF I, E
  <2>. QED
    BY <1>5, <1>6, <1>7, <1>8, FS_Subset
<1>9. ASSUME w \in Runs, \A k \in 1 .. written[w] : Was(v, <<w, k>>)
      PROVE  Cardinality(E) = written[w]
  <2>1. ASSUME NEW k \in 1 .. written[w]
        PROVE  k \in I
    <3>1. PICK n \in DOMAIN S : S[n] = <<w, k>>
      BY <1>9 DEF Was
    <3>2. n \in E /\ S[n][2] = k
      BY <3>1 DEF Own
    <3>. QED
      BY <3>2
  <2>. HIDE DEF I, E
  <2>2. I = 1 .. written[w]
    BY <1>7, <2>1
  <2>. QED
    BY <1>5, <1>6, <1>9, <2>2
<1>. HIDE DEF E
<1>. QED
  BY <1>2, <1>8, <1>9 DEF E

\* What RunFeed sees.
FeedWritten == [r \in Served |-> written[r]]
FeedOver == {r \in Served : Done(r)}
FeedSeen == [v \in Viewers |-> Cardinality(Own(v))]
FeedClosed == {v \in Viewers : view[v] = "closed"}
FeedVars == <<FeedWritten, FeedOver, watched, FeedSeen, FeedClosed>>

LEMMA InitFeed == Init => Feed!Init
<1>. SUFFICES ASSUME Init PROVE Feed!Init
  OBVIOUS
<1>1. \A v \in Viewers : Own(v) = {}
  BY DEF Init, Own
<1>2. \A v \in Viewers : Cardinality(Own(v)) = 0
  BY <1>1, FS_EmptySet
<1>. QED
  BY <1>2 DEF Init, Feed!Init, Done, Served

\* What a step of a run does to them.
LEMMA RunsFeed ==
  ASSUME TypesInv, RunsInv, LogStep, UNCHANGED <<view, watched, sent>>,
         NEW r \in Runs, Start(r) \/ Lock(r) \/ Work(r) \/ Evict(r)
  PROVE  [Feed!Next]_FeedVars
<1>0. /\ place \in [Runs -> Places] /\ written \in [Runs -> 0 .. MaxEvents + 1]
      /\ Served \subseteq Runs
  BY RunTypes DEF Served
<1>1. FeedSeen' = FeedSeen /\ FeedClosed' = FeedClosed /\ watched' = watched
  BY DEF FeedSeen, FeedClosed, Own
<1>2. CASE MarkDone(r) /\ r \in Served
  <2>1. FeedWritten' = FeedWritten
    BY <1>2 DEF MarkDone, FeedWritten
  <2>2. FeedOver' = FeedOver \union {r}
    BY <1>0, <1>2 DEF MarkDone, Goto, FeedOver, Done
  <2>3. Feed!End(r)
    BY <1>1, <2>1, <2>2 DEF Feed!End, FeedWritten, FeedOver, FeedSeen, FeedClosed
  <2>. QED
    BY <1>2, <2>3 DEF Feed!Next
<1>3. CASE ~(MarkDone(r) /\ r \in Served)
  <2>1. \A q \in Served : place'[q] = "over" <=> place[q] = "over"
    BY <1>0, <1>3 DEF Start, Lock, Work, FailEarly, Open, Trigger, Rest, WriteHalf, WriteRest,
      WriteLine, Redact, Rewrite, Raise, Unlock, ErrorEvent, SampleEnd, Free, MarkDone, Evict,
      Goto, Recording
  <2>2. FeedOver' = FeedOver
    BY <2>1 DEF FeedOver, Done
  <2>3. CASE \A q \in Served : written'[q] = written[q]
    <3>1. FeedWritten' = FeedWritten
      BY <2>3 DEF FeedWritten
    <3>. QED
      BY <1>1, <2>2, <3>1 DEF FeedVars
  <2>4. CASE ~(\A q \in Served : written'[q] = written[q])
    <3>1. PICK q \in Served : written'[q] # written[q]
      BY <2>4
    <3>2. PICK p \in Runs : AddsLine(p) \/ AddsBody(p) \/ AddsEnd(p)
      BY <3>1 DEF LogStep, Kept
    <3>3. Grows(p)
      BY <3>2 DEF AddsLine, AddsBody, AddsEnd
    <3>4. p = q
      <4>1. \A s \in Runs : s # p => written'[s] = written[s]
        BY <3>3, Zenon DEF Grows
      <4>. QED
        BY <1>0, <3>1, <4>1, Zenon
    <3>5. written'[q] = written[q] + 1 /\ \A s \in Served : s # q => written'[s] = written[s]
      BY <1>0, <3>1, <3>2, <3>3, <3>4 DEF AddsLine, AddsBody, AddsEnd, Grows
    <3>6. place[q] # "over"
      BY <3>3, <3>4, Alone
    <3>7. FeedWritten' = [FeedWritten EXCEPT ![q] = FeedWritten[q] + 1] /\ q \notin FeedOver
      BY <3>1, <3>5, <3>6 DEF FeedWritten, FeedOver, Done
    <3>8. Feed!Write(q)
      BY <1>1, <2>2, <3>7 DEF Feed!Write, FeedWritten, FeedOver, FeedSeen, FeedClosed
    <3>. QED
      BY <3>1, <3>8 DEF Feed!Next
  <2>. QED
    BY <2>3, <2>4
<1>. QED
  BY <1>2, <1>3

LEMMA AsksFeed ==
  ASSUME TypesInv, ViewInv, NEW v \in Viewers, NEW r \in Served, Attach(v, r)
  PROVE  [Feed!Next]_FeedVars
<1>0. ViewTypes
  BY DEF TypesInv, TypeOK, ViewTypes
<1>1. FeedWritten' = FeedWritten /\ FeedOver' = FeedOver
  BY DEF Attach, runVars, FeedWritten, FeedOver, Done
<1>2. FeedClosed' = FeedClosed
  BY <1>0 DEF Attach, LookTo, FeedClosed, ViewTypes
<1>3. watched[v] = 0 /\ watched' = [watched EXCEPT ![v] = r] /\ sent' = sent /\ sent[v] = <<>>
  BY DEF Attach, TypesInv, AskedInv, ViewInv, ViewOf
<1>4. \A u \in Viewers : Own(u)' = Own(u)
  BY <1>0, <1>3 DEF Own, ViewTypes
<1>5. FeedSeen' = FeedSeen
  BY <1>4 DEF FeedSeen
<1>6. Feed!Ask(v, r)
  BY <1>1, <1>2, <1>3, <1>5 DEF Feed!Ask, FeedWritten, FeedOver, FeedSeen, FeedClosed
<1>. QED
  BY <1>6 DEF Feed!Next

LEMMA ReadsFeed ==
  ASSUME FeedInv, FeedInv', OwnCounted, OwnCounted', NEW v \in Viewers, Read(v) \/ Drain(v)
  PROVE  [Feed!Next]_FeedVars
<1>. DEFINE w == watched[v]
<1>0. TypesInv /\ RunsInv /\ ViewInv /\ SentInv /\ ClosedInv'
  BY DEF FeedInv, StreamInv
<1>1. ViewTypes
  BY <1>0 DEF TypesInv, TypeOK, ViewTypes
<1>2. FeedWritten' = FeedWritten /\ FeedOver' = FeedOver /\ watched' = watched /\ written' = written
  BY DEF Read, Drain, runVars, FeedWritten, FeedOver, Done
<1>3. view[v] \in {"read", "drain"} /\ w \in Served /\ w \in Runs /\ w # 0
  BY <1>0, RunTypes DEF Read, Drain, ViewInv, ViewOf, Following, Served
<1>4. \A u \in Viewers : u # v => sent'[u] = sent[u] /\ view'[u] = view[u]
  BY <1>1 DEF Read, Drain, Send, LookTo, ViewTypes
<1>5. \A u \in Viewers : u # v => Own(u)' = Own(u)
  BY <1>2, <1>4 DEF Own
<1>6. FeedSeen' = [FeedSeen EXCEPT ![v] = Cardinality(Own(v)')]
  BY <1>5 DEF FeedSeen
<1>7. CASE Read(v)
  <2>1. view[v] = "read" /\ view'[v] = "tail"
    BY <1>1, <1>7 DEF Read, LookTo, ViewTypes
  <2>2. FeedClosed' = FeedClosed /\ v \notin FeedClosed
    BY <1>4, <2>1 DEF FeedClosed
  <2>3. Cardinality(Own(v)) <= Cardinality(Own(v)')
    <3>. DEFINE to == Consumed(offset[v])
                P == Parsed(offset[v], to)
    <3>1. /\ sent'[v] = sent[v] \o P /\ sent[v] \in Seq(Events) /\ P \in Seq(Events)
      <4>1. file \in Seq(Cells) /\ offset[v] \in Nat /\ sent[v] \in Seq(Events)
        BY <1>0 DEF TypesInv, TypeOK
      <4>2. to \in Nat /\ Chunk(offset[v], to)
        BY <1>0, <4>1, ConsumedIsLast, ReadChunk DEF TypesInv
      <4>3. sent'[v] = sent[v] \o P
        BY <1>1, <1>7 DEF Read, Send, ViewTypes
      <4>. HIDE DEF to
      <4>4. P \in Seq(Events)
        BY <4>1, <4>2, ParsedLines
      <4>. QED
        BY <4>1, <4>3, <4>4 DEF to
    <3>. HIDE DEF P
    <3>2. /\ Len(sent[v]) \in Nat /\ Len(P) \in Nat /\ DOMAIN sent[v] = 1 .. Len(sent[v])
          /\ DOMAIN sent'[v] = 1 .. Len(sent[v]) + Len(P)
          /\ \A n \in 1 .. Len(sent[v]) : sent'[v][n] = sent[v][n]
      BY <3>1, ConcatProperties, LenProperties
    <3>3. Own(v) \in SUBSET (Own(v)')
      BY <1>2, <3>2 DEF Own
    <3>4. IsFiniteSet(Own(v)')
      BY DEF OwnCounted
    <3>. QED
      BY <3>3, <3>4, FS_Subset
  <2>4. /\ Cardinality(Own(v)) \in Nat /\ Cardinality(Own(v)') \in Nat
        /\ Cardinality(Own(v)') <= written[w] /\ written[w] \in Nat
    BY <1>0, <1>2, <1>3, RunTypes DEF OwnCounted
  <2>5. Cardinality(Own(v)') \in FeedSeen[v] .. FeedWritten[w]
    BY <1>3, <2>3, <2>4 DEF FeedSeen, FeedWritten
  <2>6. Feed!Send(v)
    BY <1>2, <1>3, <1>6, <2>2, <2>5 DEF Feed!Send, FeedWritten, FeedOver, FeedSeen, FeedClosed
  <2>. QED
    BY <2>6 DEF Feed!Next
<1>8. CASE Drain(v)
  <2>1. view[v] = "drain" /\ view'[v] = "closed"
    BY <1>1, <1>8 DEF Drain, LookTo, ViewTypes
  <2>2. FeedClosed' = FeedClosed \union {v}
    BY <1>4, <2>1 DEF FeedClosed
  <2>3. w \in FeedOver
    BY <1>0, <1>3, <2>1 DEF FeedOver, ViewInv, ViewOf
  <2>4. \A k \in 1 .. written'[watched'[v]] : Was(v, <<watched[v], k>>)'
    BY <1>0, <2>1 DEF ClosedInv
  <2>5. Cardinality(Own(v)') = FeedWritten[w]
    BY <1>2, <1>3, <2>4 DEF OwnCounted, FeedWritten
  <2>6. Feed!Close(v)
    BY <1>2, <1>6, <2>2, <2>3, <2>5 DEF Feed!Close, FeedWritten, FeedOver, FeedSeen, FeedClosed
  <2>. QED
    BY <2>6 DEF Feed!Next
<1>. QED
  BY <1>7, <1>8

LEMMA FeedNext ==
  ASSUME SameSize, PlainOutside, FeedInv, FeedInv', OwnCounted, OwnCounted', [Next]_vars
  PROVE  [Feed!Next]_FeedVars
<1>0. TypesInv /\ RunsInv /\ ViewInv /\ LogStep /\ ViewTypes
  BY NextStream DEF FeedInv, StreamInv, TypesInv, TypeOK, ViewTypes
<1>1. ASSUME NEW r \in Runs, Start(r) \/ Lock(r) \/ Work(r) \/ Evict(r)
      PROVE  [Feed!Next]_FeedVars
  <2>1. UNCHANGED <<view, watched, sent>>
    BY <1>1 DEF Start, Lock, Work, FailEarly, Open, Trigger, Rest, WriteHalf, WriteRest, WriteLine,
      Redact, Rewrite, Raise, Unlock, ErrorEvent, SampleEnd, Free, MarkDone, Evict, viewVars
  <2>. QED
    BY <1>0, <1>1, <2>1, RunsFeed
<1>2. ASSUME NEW v \in Viewers, NEW r \in Served, Attach(v, r)
      PROVE  [Feed!Next]_FeedVars
  BY <1>0, <1>2, AsksFeed
<1>3. ASSUME NEW v \in Viewers, Read(v) \/ Drain(v)
      PROVE  [Feed!Next]_FeedVars
  BY <1>3, ReadsFeed
<1>4. ASSUME UNCHANGED <<place, written, watched, sent>>,
             \A v \in Viewers : view'[v] = "closed" <=> view[v] = "closed"
      PROVE  [Feed!Next]_FeedVars
  <2>1. FeedWritten' = FeedWritten /\ FeedOver' = FeedOver /\ FeedClosed' = FeedClosed
    BY <1>4 DEF FeedWritten, FeedOver, Done, FeedClosed
  <2>2. FeedSeen' = FeedSeen
    BY <1>4 DEF FeedSeen, Own
  <2>. QED
    BY <1>4, <2>1, <2>2 DEF FeedVars
<1>5. ASSUME NEW v \in Viewers, Follow(v) \/ GiveUp(v) \/ AskEnd(v) \/ Cut(v)
      PROVE  [Feed!Next]_FeedVars
  <2>1. UNCHANGED <<place, written, watched, sent>>
    BY <1>5 DEF Follow, GiveUp, AskEnd, Cut, runVars
  <2>2. \A u \in Viewers : view'[u] = "closed" <=> view[u] = "closed"
    BY <1>0, <1>5 DEF Follow, GiveUp, AskEnd, Cut, LookTo, ViewTypes
  <2>. QED
    BY <1>4, <2>1, <2>2
<1>6. CASE UNCHANGED vars
  BY <1>4, <1>6 DEF vars, runVars, viewVars
<1>. QED
  BY <1>1, <1>2, <1>3, <1>5, <1>6 DEF Next, Poll

\* The stream of a run grows and ends as RunFeed says (FeedsTheRun), when no later run empties the
\* file to redact it: every step is one of RunFeed's or none that it sees.
THEOREM RefinesFeed == SameSize /\ PlainOutside /\ FirstRedacts /\ Spec => FeedsTheRun
<1>1. SameSize /\ PlainOutside /\ FirstRedacts => (Spec => FeedsTheRun)
  <2>. SUFFICES ASSUME SameSize, PlainOutside, FirstRedacts
                PROVE  Spec => FeedsTheRun
    OBVIOUS
  <2>1. FeedInv => OwnCounted
    BY CountsOwn DEF FeedInv, StreamInv
  <2>2. FeedInv /\ FeedInv' /\ OwnCounted /\ OwnCounted' /\ [Next]_vars => [Feed!Next]_Feed!vars
    BY FeedNext DEF FeedVars, Feed!vars, FeedWritten, FeedOver, FeedSeen, FeedClosed
  <2>3. Spec => []FeedInv
    BY FeedInvHolds
  <2>. QED
    BY <2>1, <2>2, <2>3, InitFeed, PTL DEF Spec, FeedsTheRun, Feed!Spec
<1>. QED
  BY <1>1

\* A stream that was closed has sent the run's last event (LastEventSent), under the same
\* hypotheses.
THEOREM ClosedStreams == SameSize /\ PlainOutside /\ FirstRedacts /\ Spec => []LastEventSent
<1>1. SameSize /\ PlainOutside /\ FirstRedacts => (Spec => []LastEventSent)
  <2>. SUFFICES ASSUME SameSize, PlainOutside, FirstRedacts
                PROVE  Spec => []LastEventSent
    OBVIOUS
  <2>1. ASSUME FeedInv
        PROVE  LastEventSent
    <3>. SUFFICES ASSUME NEW v \in Viewers, view[v] = "closed", written[watched[v]] > 0
                  PROVE  \E n \in DOMAIN sent[v] :
                           sent[v][n] = <<watched[v], written[watched[v]]>>
      BY DEF LastEventSent
    <3>1. watched[v] \in Runs
      BY <2>1 DEF FeedInv, StreamInv, TypesInv, TypeOK, AskedInv, Served
    <3>2. written[watched[v]] \in 1 .. written[watched[v]]
      BY <2>1, <3>1, RunTypes DEF FeedInv, StreamInv
    <3>. QED
      BY <2>1, <3>2 DEF FeedInv, ClosedInv, Was
  <2>2. FeedInv => LastEventSent
    BY <2>1
  <2>. QED
    BY <2>2, FeedInvHolds, PTL
<1>. QED
  BY <1>1
=============================================================================
