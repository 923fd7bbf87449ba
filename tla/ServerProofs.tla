---------------------------- MODULE ServerProofs ----------------------------
(***************************************************************************)
(* First the executions: what holds of them for any number of servers,     *)
(* cycles, workers and runs, with crashes and restarts anywhere. Then the  *)
(* server as a whole (MCServer): a behaviour of the composition is, seen   *)
(* through the variables of one part, a behaviour of that part, so that    *)
(* what is proved of each part for all its constants holds of all of them  *)
(* together.                                                               *)
(***************************************************************************)
EXTENDS MCServer, FiniteSetTheorems, TLAPS

\* An execution that nobody can cancel before its request was answered cannot lose its
\* registration to the undo of a failed insert, and without failures there is no undo.
UndoSafe == ~Peek \/ ~DbErrors

\* One server, a run store that is used and does not fail, and clients that cancel only what
\* they were answered for.
Alone == (\A s, t \in Servers : s = t) /\ ~DbErrors /\ ~Peek /\ Durable

\* Runs are kept in memory, or the store of their rows does not fail and clients cancel only
\* what they were answered for.
RowsGoFirst == Durable => ~DbErrors /\ ~Peek

-----------------------------------------------------------------------------
(* The inductive invariant.                                                *)

Queued(q, i) == \E k \in 1 .. Len(q) : q[k] = i
Sorted(q) == \A j, k \in 1 .. Len(q) : j < k => q[j] < q[k]

\* Nothing is known of an id that nobody asked for.
FreshInv ==
  /\ rows \subseteq 1 .. created /\ accepted \subseteq 1 .. created
  /\ \A i \in 1 .. created : cycle[i] \in Cycles
  /\ \A i \in Ids : started[i] # 0 => i <= created
  /\ \A s \in Servers, i \in Ids :
       at[s][i] # "none" \/ Queued(todo[s], i) => i <= created

\* A server knows nothing of an execution that it did not create or recover.
SeenInv ==
  \A s \in Servers, i \in Ids :
    i \in known[s] \/ done[s][i] \/ cancelling[s][i] # "no" \/ Queued(fifo[s], i)
      => at[s][i] # "none"

\* A server that is down has nothing in memory; while one recovers, no request is under
\* way, and it has not seen the rows that it has still to queue.
QuietAt(s) ==
  /\ s \notin up => todo[s] = <<>> /\ \A i \in Ids : at[s][i] = "none"
  /\ todo[s] # <<>> =>
       \A i \in Ids : at[s][i] \notin {"add", "put"} /\ cancelling[s][i] = "no"
  /\ Sorted(todo[s])
  /\ \A i \in Ids : Queued(todo[s], i) => at[s][i] = "none"

QuietInv == \A s \in Servers : QuietAt(s)

Owns(s, i) == active[s][cycle[i]] = i
AtWork == {"claim", "run", "free", "mark"}

\* Whoever may still start has its cycle, or was cancelled.
OwnAt(s, i) ==
  /\ at[s][i] \in {"claim", "run", "free"} => Owns(s, i)
  /\ at[s][i] \in AtWork => status[s][i] # "queued" /\ cancelling[s][i] = "no"
  /\ (at[s][i] \in {"add", "put"} \/ Queued(fifo[s], i)) /\ status[s][i] = "queued" => Owns(s, i)
  /\ at[s][i] \in {"add", "put"} => ~Queued(fifo[s], i)
  /\ cancelling[s][i] # "no" => status[s][i] = "cancelled"
  /\ outcome[s][i] # "queued"
  /\ at[s][i] = "add" /\ ~Peek => status[s][i] = "queued"

OwnInv == \A s \in Servers, i \in Ids : OwnAt(s, i)

\* A row is written once, by the server that was asked, and nobody has started it.
RowInv ==
  /\ \A s, t \in Servers, i \in Ids :
       at[s][i] \in {"add", "put"} /\ at[t][i] \in {"add", "put"} => s = t
  /\ \A s \in Servers, i \in Ids :
       at[s][i] = "add" => i \notin rows /\ i \notin accepted /\ (Durable => started[i] = 0)
  /\ \A i \in Ids : Durable /\ i \in rows => started[i] = 0

\* Who is over, or about to say so, has given its cycle up.
GoneAt(s, i) == at[s][i] = "mark" \/ cancelling[s][i] = "mark" \/ done[s][i]

GivenUp == \A s \in Servers, i \in Ids : GoneAt(s, i) => ~Owns(s, i)

\* A row goes when its run starts or is cancelled, and nobody cancels what was not answered.
GoneRowInv ==
  \A s \in Servers, i \in Ids :
    /\ at[s][i] \in {"run", "free", "mark"} \/ cancelling[s][i] = "free" => i \notin rows
    /\ at[s][i] = "put" => i \in rows
    /\ at[s][i] \in {"add", "put"} => i \notin accepted /\ cancelling[s][i] = "no"
    /\ cancelling[s][i] # "no" => i \in refused

\* The rows of a server that is up are of the executions that have their cycle, one per
\* cycle, or of those it has still to queue, whose cycles are free. So it drops none.
KeepRowInv ==
  /\ \A i, j \in rows : cycle[i] = cycle[j] => i = j
  /\ \A s \in up, i \in rows : Queued(todo[s], i) \/ Owns(s, i)
  /\ \A s \in Servers, i \in Ids : Queued(todo[s], i) => i \in rows /\ active[s][cycle[i]] = NoId
  /\ \A s \in Servers \ up, c \in Cycles : active[s][c] = NoId

\* Who is over, or about to say so, is among the finished if it is known at all.
BoundInv ==
  /\ \A s \in Servers : Len(finished[s]) <= MaxFinished
  /\ \A s \in Servers : \A i \in known[s] : GoneAt(s, i) => Queued(finished[s], i)

\* Nobody can start execution i any more: its row is gone, or, without rows, no server has
\* it waiting.
Withdrawn(i) ==
  IF Durable THEN i \notin rows ELSE \A s \in Servers : status[s][i] # "queued" /\ at[s][i] # "claim"

\* Whoever was told so is withdrawn, and so is what a cancel has taken off the queue.
WithdrawnInv ==
  /\ \A i \in told : Withdrawn(i) /\ i <= created /\ (Durable => i \in accepted)
  /\ \A s \in Servers, i \in Ids : cancelling[s][i] \in {"free", "mark"} => Withdrawn(i)
  /\ \A s \in Servers, i \in Ids :
       cancelling[s][i] # "no" => IF Durable THEN i \in accepted ELSE Withdrawn(i)

\* Without rows an execution is known to the one server that was asked.
MemoryInv ==
  ~Durable =>
    /\ \A s \in Servers : todo[s] = <<>>
    /\ \A s, t \in Servers, i \in Ids : at[s][i] # "none" /\ at[t][i] # "none" => s = t
    /\ \A s \in Servers, i \in Ids : status[s][i] = "queued" => at[s][i] \in {"add", "put", "queued"}
    /\ \A s \in Servers, i \in Ids : outcome[s][i] # "queued"

SafeInv == TypeOK /\ FreshInv /\ SeenInv /\ QuietInv /\ RowInv
-----------------------------------------------------------------------------
(* Queues.                                                                 *)

LEMMA QueuedEmpty == \A i : ~Queued(<<>>, i)
BY DEF Queued

LEMMA QueuedAppend ==
  ASSUME NEW q \in Seq(Ids), NEW i \in Ids, NEW j
  PROVE  Queued(Append(q, i), j) <=> Queued(q, j) \/ j = i
<1>. DEFINE r == Append(q, i)
<1>1. /\ Len(r) = Len(q) + 1 /\ Len(q) \in Nat /\ r[Len(q) + 1] = i
      /\ \A k \in 1 .. Len(q) : r[k] = q[k]
  OBVIOUS
<1>. HIDE DEF r
<1>2. Queued(r, j) <=> Queued(q, j) \/ j = i
  BY <1>1 DEF Queued
<1>. QED
  BY <1>2 DEF r

LEMMA QueuedTail ==
  ASSUME NEW q \in Seq(Ids), q # <<>>
  PROVE  /\ Head(q) \in Ids /\ Tail(q) \in Seq(Ids) /\ Queued(q, Head(q))
         /\ \A j : Queued(Tail(q), j) => Queued(q, j)
<1>1. /\ Len(q) \in Nat \ {0} /\ Len(Tail(q)) = Len(q) - 1 /\ q[1] = Head(q)
      /\ \A k \in 1 .. Len(q) - 1 : Tail(q)[k] = q[k + 1]
  OBVIOUS
<1>2. Queued(q, Head(q))
  BY <1>1 DEF Queued
<1>3. \A j : Queued(Tail(q), j) => Queued(q, j)
  BY <1>1 DEF Queued
<1>. QED
  BY <1>2, <1>3

LEMMA QueuedHead ==
  ASSUME NEW q \in Seq(Ids), q # <<>>, NEW j, Queued(q, j)
  PROVE  j = Head(q) \/ Queued(Tail(q), j)
<1>1. PICK k \in 1 .. Len(q) : q[k] = j
  BY DEF Queued
<1>2. CASE k = 1
  BY <1>1, <1>2
<1>3. CASE k # 1
  <2>1. k - 1 \in 1 .. Len(Tail(q)) /\ Tail(q)[k - 1] = q[k]
    BY <1>3
  <2>. QED
    BY <1>1, <2>1 DEF Queued
<1>. QED
  BY <1>2, <1>3

LEMMA RowsFinite == ASSUME TypeOK PROVE Cardinality(rows) \in Nat
<1>1. IsFiniteSet(Ids)
  BY ExecutionsAssumption, FS_Interval DEF Ids
<1>2. IsFiniteSet(rows)
  BY <1>1, FS_Subset DEF TypeOK
<1>. QED
  BY <1>2, FS_CardinalityType

LEMMA RestoredQueue ==
  ASSUME TypeOK, NEW q \in [1 .. Cardinality(rows) -> rows]
  PROVE  q \in Seq(Ids) /\ \A j : Queued(q, j) => j \in rows
<1>1. q \in [1 .. Cardinality(rows) -> Ids]
  BY DEF TypeOK
<1>2. q \in Seq(Ids) /\ Len(q) = Cardinality(rows)
  BY <1>1, RowsFinite
<1>. QED
  BY <1>2 DEF Queued

\* What is restored is all there is.
LEMMA RestoresAll ==
  ASSUME TypeOK, NEW q \in [1 .. Cardinality(rows) -> rows], Oldest(q, rows)
  PROVE  \A i \in rows : Queued(q, i)
<1>1. IsFiniteSet(rows)
  <2>1. IsFiniteSet(Ids)
    BY ExecutionsAssumption, FS_Interval DEF Ids
  <2>. QED
    BY <2>1, FS_Subset DEF TypeOK
<1>2. Cardinality(rows) \in Nat /\ \A j \in rows : j \in Nat
  BY RowsFinite DEF TypeOK, Ids
<1>3. q \in Injection(1 .. Cardinality(rows), rows)
  <2>1. ASSUME NEW j \in 1 .. Cardinality(rows), NEW k \in 1 .. Cardinality(rows), q[j] = q[k]
        PROVE  j = k
    <3>1. ~(j < k) /\ ~(k < j)
      BY <1>2, <2>1 DEF Oldest
    <3>. QED
      BY <1>2, <3>1
  <2>. QED
    BY <2>1 DEF Injection, IsInjective
<1>4. Cardinality(1 .. Cardinality(rows)) = Cardinality(rows)
  BY <1>2, FS_Interval
<1>5. q \in Surjection(1 .. Cardinality(rows), rows)
  BY <1>1, <1>3, <1>4, FS_Injection
<1>6. Len(q) = Cardinality(rows)
  BY <1>2
<1>. QED
  BY <1>5, <1>6 DEF Surjection, Queued

LEMMA FreeType ==
  ASSUME TypeOK, NEW s \in Servers, NEW i \in Ids, Free(s, i)
  PROVE  /\ active' \in [Servers -> [Cycles -> Ids \union {NoId}]]
         /\ known' \in [Servers -> SUBSET Ids] /\ finished' \in [Servers -> Seq(Ids)]
<1>. DEFINE ended == Append(finished[s], i)
<1>1. ended \in Seq(Ids) /\ Tail(ended) \in Seq(Ids)
  <2>1. finished[s] \in Seq(Ids) /\ Len(finished[s]) \in Nat
    BY DEF TypeOK
  <2>2. ended \in Seq(Ids) /\ Len(ended) = Len(finished[s]) + 1
    BY <2>1
  <2>3. ended # <<>>
    BY <2>1, <2>2
  <2>. HIDE DEF ended
  <2>. QED
    BY <2>2, <2>3
<1>2. Kept(ended) \in Seq(Ids)
  BY <1>1 DEF Kept
<1>3. active' = Freed(s, i) /\ finished' = [finished EXCEPT ![s] = Kept(ended)]
  BY DEF Free
<1>4. known' \in [Servers -> SUBSET Ids]
  BY DEF Free, TypeOK
<1>5. active' \in [Servers -> [Cycles -> Ids \union {NoId}]]
  BY <1>3 DEF Freed, TypeOK
<1>. HIDE DEF ended
<1>. QED
  BY <1>2, <1>3, <1>4, <1>5 DEF TypeOK

\* What a worker does with a job i that still waits.
Taken(s, i) ==
  /\ status[s][i] = "queued"
  /\ status' = [status EXCEPT ![s][i] = "running"]
  /\ at' = [at EXCEPT ![s][i] = "claim"]
  /\ fifo' = [fifo EXCEPT ![s] = Tail(fifo[s])]
  /\ UNCHANGED <<dbVars, known, active, finished, done, stopped, outcome, up, todo, cancelling, history>>

\* And with one that was stopped.
Skipped(s, i) ==
  /\ status[s][i] # "queued"
  /\ at' = [at EXCEPT ![s][i] = "over"]
  /\ fifo' = [fifo EXCEPT ![s] = Tail(fifo[s])]
  /\ UNCHANGED status
  /\ UNCHANGED <<dbVars, known, active, finished, done, stopped, outcome, up, todo, cancelling, history>>

LEMMA PickTakes ==
  ASSUME TypeOK, NEW s \in Servers, Pick(s)
  PROVE  /\ \E i \in Ids : Queued(fifo[s], i) /\ (Taken(s, i) \/ Skipped(s, i))
         /\ Tail(fifo[s]) \in Seq(Ids)
         /\ \A j : Queued(Tail(fifo[s]), j) => Queued(fifo[s], j)
<1>. DEFINE i == Head(fifo[s])
<1>1. fifo[s] \in Seq(Ids) /\ fifo[s] # <<>>
  BY DEF TypeOK, Pick
<1>2. /\ i \in Ids /\ Tail(fifo[s]) \in Seq(Ids) /\ Queued(fifo[s], i)
      /\ \A j : Queued(Tail(fifo[s]), j) => Queued(fifo[s], j)
  BY <1>1, QueuedTail
<1>3. Taken(s, i) \/ Skipped(s, i)
  BY DEF Pick, Goto, Taken, Skipped
<1>. HIDE DEF i
<1>. QED
  BY <1>1, <1>2, <1>3

LEMMA InitType == Init => TypeOK
BY ExecutionsAssumption DEF Init, TypeOK, Ids, NoId, Statuses, Places

LEMMA NextType == ASSUME TypeOK, [Next]_vars PROVE TypeOK'
<1>. USE ExecutionsAssumption DEF TypeOK, Statuses, Places, dbVars, stateVars, threadVars, history
<1>1. ASSUME NEW s \in Servers, Pick(s) PROVE TypeOK'
  <2>1. PICK i \in Ids : (Taken(s, i) \/ Skipped(s, i))
    BY <1>1, PickTakes
  <2>2. Tail(fifo[s]) \in Seq(Ids) /\ \A j : Queued(Tail(fifo[s]), j) => Queued(fifo[s], j)
    BY <1>1, PickTakes
  <2>3. CASE Taken(s, i)
    BY <2>1, <2>2, <2>3 DEF Taken
  <2>4. CASE Skipped(s, i)
    BY <2>1, <2>2, <2>4 DEF Skipped
  <2>. QED
    BY <2>1, <2>3, <2>4
<1>2. ASSUME NEW s \in Servers, NEW i \in Ids, AddRow(s, i) PROVE TypeOK'
  BY <1>2 DEF AddRow, Goto
<1>3. ASSUME NEW s \in Servers, NEW i \in Ids, Put(s, i) PROVE TypeOK'
  BY <1>3 DEF Put, Goto
<1>4. ASSUME NEW s \in Servers, NEW i \in Ids, Claim(s, i) PROVE TypeOK'
  BY <1>4 DEF Claim, Goto, Mine
<1>5. ASSUME NEW s \in Servers, NEW i \in Ids, ClaimLost(s, i) PROVE TypeOK'
  BY <1>5 DEF ClaimLost, Freed, Goto
<1>6. ASSUME NEW s \in Servers, NEW i \in Ids, RunEnd(s, i) PROVE TypeOK'
  <2>1. outcome' \in [Servers -> [Ids -> Statuses]]
    <3>1. PICK v \in {"failed", "cancelled", "completed"} : outcome' = [outcome EXCEPT ![s][i] = v]
      BY <1>6 DEF RunEnd
    <3>. QED
      BY <3>1
  <2>. QED
    BY <1>6, <2>1 DEF RunEnd, Goto
<1>7. ASSUME NEW s \in Servers, NEW i \in Ids, FinishFree(s, i) PROVE TypeOK'
  <2>1. /\ active' \in [Servers -> [Cycles -> Ids \union {NoId}]]
        /\ known' \in [Servers -> SUBSET Ids] /\ finished' \in [Servers -> Seq(Ids)]
    BY <1>7, FreeType DEF FinishFree
  <2>. QED
    BY <1>7, <2>1 DEF FinishFree, Goto
<1>8. ASSUME NEW s \in Servers, NEW i \in Ids, FinishMark(s, i) PROVE TypeOK'
  BY <1>8 DEF FinishMark, MarkDone, Goto
<1>9. ASSUME NEW s \in Servers, NEW i \in Ids, CancelClaim(s, i) PROVE TypeOK'
  BY <1>9 DEF CancelClaim
<1>10. ASSUME NEW s \in Servers, NEW i \in Ids, CancelFree(s, i) PROVE TypeOK'
  <2>1. /\ active' \in [Servers -> [Cycles -> Ids \union {NoId}]]
        /\ known' \in [Servers -> SUBSET Ids] /\ finished' \in [Servers -> Seq(Ids)]
    BY <1>10, FreeType DEF CancelFree
  <2>. QED
    BY <1>10, <2>1 DEF CancelFree, Goto
<1>11. ASSUME NEW s \in Servers, NEW i \in Ids, CancelMark(s, i) PROVE TypeOK'
  BY <1>11 DEF CancelMark, MarkDone
<1>12. ASSUME NEW s \in Servers, Crash(s) PROVE TypeOK'
  BY <1>12 DEF Crash, Wiped
<1>13. ASSUME NEW s \in Servers, NEW i \in Ids, AddFail(s, i) PROVE TypeOK'
  BY <1>13 DEF AddFail, Goto
<1>14. ASSUME NEW s \in Servers, NEW i \in Ids, ClaimFail(s, i) PROVE TypeOK'
  BY <1>14 DEF ClaimFail, Goto
<1>15. ASSUME NEW s \in Servers, Restart(s) PROVE TypeOK'
  <2>1. todo' \in [Servers -> Seq(Ids)]
    BY <1>15, RestoredQueue DEF Restart
  <2>. QED
    BY <1>15, <2>1 DEF Restart
<1>16. ASSUME NEW s \in Servers, Recover(s) PROVE TypeOK'
  <2>1. Head(todo[s]) \in Ids /\ Tail(todo[s]) \in Seq(Ids)
    BY <1>16, QueuedTail DEF Recover
  <2>2. todo' \in [Servers -> Seq(Ids)] /\ fifo' \in [Servers -> Seq(Ids)]
    BY <1>16, <2>1 DEF Recover
  <2>. QED
    BY <1>16, <2>1, <2>2, ZenonT(40) DEF Recover, Registered, Goto
<1>17. ASSUME NEW s \in Servers, RecoverDrop(s) PROVE TypeOK'
  BY <1>17 DEF RecoverDrop
<1>18. ASSUME NEW s \in Servers, Create(s) PROVE TypeOK'
  <2>1. created + 1 \in Ids /\ created' \in 0 .. MaxRuns
    BY <1>18 DEF Create, Ids
  <2>2. cycle' \in [Ids -> Cycles \union {NoCycle}]
    BY <1>18, <2>1 DEF Create
  <2>. QED
    BY <1>18, <2>1, <2>2 DEF Create, Registered, Goto
<1>19. ASSUME NEW s \in Servers, NEW i \in Ids, CancelQueued(s, i) PROVE TypeOK'
  BY <1>19 DEF CancelQueued, MayName, Serving
<1>20. ASSUME NEW s \in Servers, NEW i \in Ids, CancelRunning(s, i) PROVE TypeOK'
  BY <1>20 DEF CancelRunning
<1>21. CASE UNCHANGED vars
  BY <1>21 DEF vars
<1>. QED
  BY <1>1, <1>2, <1>3, <1>4, <1>5, <1>6, <1>7, <1>8, <1>9, <1>10, <1>11,
     <1>12, <1>13, <1>14, <1>15, <1>16, <1>17, <1>18, <1>19, <1>20, <1>21
     DEF Next, Work, Trouble, Recovery, Ask

-----------------------------------------------------------------------------
(* What a server knows.                                                    *)

LEMMA NextFresh ==
  ASSUME TypeOK, FreshInv, SeenInv, [Next]_vars
  PROVE  FreshInv'
<1>. USE DEF TypeOK, FreshInv, SeenInv, Ids, dbVars, stateVars, threadVars, history
<1>1. ASSUME NEW s \in Servers, Pick(s) PROVE FreshInv'
  <2>1. PICK i \in Ids : Queued(fifo[s], i) /\ (Taken(s, i) \/ Skipped(s, i))
    BY <1>1, PickTakes
  <2>2. Tail(fifo[s]) \in Seq(Ids) /\ \A j : Queued(Tail(fifo[s]), j) => Queued(fifo[s], j)
    BY <1>1, PickTakes
  <2>3. CASE Taken(s, i)
    BY <2>1, <2>2, <2>3 DEF Taken
  <2>4. CASE Skipped(s, i)
    BY <2>1, <2>2, <2>4 DEF Skipped
  <2>. QED
    BY <2>1, <2>3, <2>4
<1>2. ASSUME NEW s \in Servers, NEW i \in Ids, AddRow(s, i) PROVE FreshInv'
  BY <1>2 DEF AddRow, Goto
<1>3. ASSUME NEW s \in Servers, NEW i \in Ids, Put(s, i) PROVE FreshInv'
  BY <1>3, SMTT(30) DEF Put, Goto
<1>4. ASSUME NEW s \in Servers, NEW i \in Ids, Claim(s, i) PROVE FreshInv'
  BY <1>4 DEF Claim, Goto, Mine
<1>5. ASSUME NEW s \in Servers, NEW i \in Ids, ClaimLost(s, i) PROVE FreshInv'
  BY <1>5 DEF ClaimLost, Freed, Goto
<1>6. ASSUME NEW s \in Servers, NEW i \in Ids, RunEnd(s, i) PROVE FreshInv'
  BY <1>6 DEF RunEnd, Goto
<1>7. ASSUME NEW s \in Servers, NEW i \in Ids, FinishFree(s, i) PROVE FreshInv'
  BY <1>7 DEF FinishFree, Free, Freed, Kept, Goto
<1>8. ASSUME NEW s \in Servers, NEW i \in Ids, FinishMark(s, i) PROVE FreshInv'
  BY <1>8 DEF FinishMark, MarkDone, Goto
<1>9. ASSUME NEW s \in Servers, NEW i \in Ids, CancelClaim(s, i) PROVE FreshInv'
  BY <1>9 DEF CancelClaim
<1>10. ASSUME NEW s \in Servers, NEW i \in Ids, CancelFree(s, i) PROVE FreshInv'
  BY <1>10 DEF CancelFree, Free, Freed, Kept
<1>11. ASSUME NEW s \in Servers, NEW i \in Ids, CancelMark(s, i) PROVE FreshInv'
  BY <1>11 DEF CancelMark, MarkDone
<1>12. ASSUME NEW s \in Servers, Crash(s) PROVE FreshInv'
  BY <1>12, QueuedAppend, QueuedTail, QueuedEmpty DEF Crash, Wiped
<1>13. ASSUME NEW s \in Servers, NEW i \in Ids, AddFail(s, i) PROVE FreshInv'
  BY <1>13 DEF AddFail, Goto
<1>14. ASSUME NEW s \in Servers, NEW i \in Ids, ClaimFail(s, i) PROVE FreshInv'
  BY <1>14 DEF ClaimFail, Goto
<1>15. ASSUME NEW s \in Servers, Restart(s) PROVE FreshInv'
  <2>1. PICK q \in Seq(Ids) : /\ todo' = [todo EXCEPT ![s] = q]
                              /\ \A j : Queued(q, j) => j \in rows
    <3>1. PICK q \in [1 .. Cardinality(rows) -> rows] :
            Oldest(q, rows) /\ todo' = [todo EXCEPT ![s] = IF Durable THEN q ELSE <<>>]
      BY <1>15 DEF Restart
    <3>2. q \in Seq(Ids) /\ \A j : Queued(q, j) => j \in rows
      BY RestoredQueue
    <3>3. <<>> \in Seq(Ids) /\ \A j : ~Queued(<<>>, j)
      BY QueuedEmpty
    <3>. QED
      BY <3>1, <3>2, <3>3
  <2>. QED
    BY <1>15, <2>1 DEF Restart
<1>16. ASSUME NEW s \in Servers, Recover(s) PROVE FreshInv'
  <2>. DEFINE i == Head(todo[s])  q == Tail(todo[s])
  <2>1. i \in Ids /\ Queued(todo[s], i) /\ \A j : Queued(q, j) => Queued(todo[s], j)
    BY <1>16, QueuedTail DEF Recover
  <2>2. todo' = [todo EXCEPT ![s] = q] /\ at' = [at EXCEPT ![s][i] = "queued"]
    BY <1>16 DEF Recover, Goto
  <2>3. UNCHANGED <<dbVars, accepted, started>>
    BY <1>16 DEF Recover
  <2>. HIDE DEF i, q
  <2>. QED
    BY <2>1, <2>2, <2>3
<1>17. ASSUME NEW s \in Servers, RecoverDrop(s) PROVE FreshInv'
  BY <1>17, QueuedAppend, QueuedTail, QueuedEmpty DEF RecoverDrop
<1>18. ASSUME NEW s \in Servers, Create(s) PROVE FreshInv'
  <2>1. created + 1 \in Ids /\ created' = created + 1
    BY <1>18, ExecutionsAssumption DEF Create
  <2>2. /\ \A i \in Ids \ {created + 1} : cycle'[i] = cycle[i]
        /\ cycle'[created + 1] \in Cycles
    BY <1>18, <2>1 DEF Create
  <2>3. \A t \in Servers, i \in Ids : at'[t][i] # "none" => at[t][i] # "none" \/ i = created + 1
    BY <1>18, <2>1 DEF Create, Goto
  <2>4. rows' = rows /\ accepted' = accepted /\ todo' = todo /\ started' = started
    BY <1>18 DEF Create
  <2>5. ASSUME NEW i \in 1 .. created' PROVE cycle'[i] \in Cycles
    <3>1. CASE i = created + 1
      BY <2>1, <2>2, <3>1
    <3>2. CASE i # created + 1
      <4>1. i \in 1 .. created /\ i \in Ids
        BY <2>1, <3>2, ExecutionsAssumption
      <4>. QED
        BY <2>2, <3>2, <4>1
    <3>. QED
      BY <3>1, <3>2
  <2>6. rows' \subseteq 1 .. created' /\ accepted' \subseteq 1 .. created'
    BY <2>1, <2>4
  <2>7. ASSUME NEW t \in Servers, NEW i \in Ids, at'[t][i] # "none" \/ Queued(todo'[t], i)
         PROVE  i <= created'
    BY <2>1, <2>3, <2>4, <2>7
  <2>8. \A i \in Ids : started'[i] # 0 => i <= created'
    BY <2>1, <2>4
  <2>. QED
    BY <2>5, <2>6, <2>7, <2>8
<1>19. ASSUME NEW s \in Servers, NEW i \in Ids, CancelQueued(s, i) PROVE FreshInv'
  BY <1>19 DEF CancelQueued, MayName, Serving
<1>20. ASSUME NEW s \in Servers, NEW i \in Ids, CancelRunning(s, i) PROVE FreshInv'
  BY <1>20 DEF CancelRunning
<1>21. CASE UNCHANGED vars
  BY <1>21 DEF vars
<1>. QED
  BY <1>1, <1>2, <1>3, <1>4, <1>5, <1>6, <1>7, <1>8, <1>9, <1>10, <1>11,
     <1>12, <1>13, <1>14, <1>15, <1>16, <1>17, <1>18, <1>19, <1>20, <1>21
     DEF Next, Work, Trouble, Recovery, Ask

LEMMA NextSeen ==
  ASSUME TypeOK, SeenInv, [Next]_vars
  PROVE  SeenInv'
<1>. USE DEF TypeOK, SeenInv, dbVars, stateVars, threadVars, history
<1>1. ASSUME NEW s \in Servers, Pick(s) PROVE SeenInv'
  <2>1. PICK i \in Ids : Queued(fifo[s], i) /\ (Taken(s, i) \/ Skipped(s, i))
    BY <1>1, PickTakes
  <2>2. Tail(fifo[s]) \in Seq(Ids) /\ \A j : Queued(Tail(fifo[s]), j) => Queued(fifo[s], j)
    BY <1>1, PickTakes
  <2>3. CASE Taken(s, i)
    BY <2>1, <2>2, <2>3 DEF Taken
  <2>4. CASE Skipped(s, i)
    BY <2>1, <2>2, <2>4 DEF Skipped
  <2>. QED
    BY <2>1, <2>3, <2>4
<1>2. ASSUME NEW s \in Servers, NEW i \in Ids, AddRow(s, i) PROVE SeenInv'
  BY <1>2 DEF AddRow, Goto
<1>3. ASSUME NEW s \in Servers, NEW i \in Ids, Put(s, i) PROVE SeenInv'
  BY <1>3, QueuedAppend, QueuedTail, QueuedEmpty DEF Put, Goto
<1>4. ASSUME NEW s \in Servers, NEW i \in Ids, Claim(s, i) PROVE SeenInv'
  BY <1>4 DEF Claim, Goto, Mine
<1>5. ASSUME NEW s \in Servers, NEW i \in Ids, ClaimLost(s, i) PROVE SeenInv'
  BY <1>5 DEF ClaimLost, Freed, Goto
<1>6. ASSUME NEW s \in Servers, NEW i \in Ids, RunEnd(s, i) PROVE SeenInv'
  BY <1>6 DEF RunEnd, Goto
<1>7. ASSUME NEW s \in Servers, NEW i \in Ids, FinishFree(s, i) PROVE SeenInv'
  BY <1>7 DEF FinishFree, Free, Freed, Kept, Goto
<1>8. ASSUME NEW s \in Servers, NEW i \in Ids, FinishMark(s, i) PROVE SeenInv'
  BY <1>8 DEF FinishMark, MarkDone, Goto
<1>9. ASSUME NEW s \in Servers, NEW i \in Ids, CancelClaim(s, i) PROVE SeenInv'
  BY <1>9 DEF CancelClaim
<1>10. ASSUME NEW s \in Servers, NEW i \in Ids, CancelFree(s, i) PROVE SeenInv'
  BY <1>10 DEF CancelFree, Free, Freed, Kept
<1>11. ASSUME NEW s \in Servers, NEW i \in Ids, CancelMark(s, i) PROVE SeenInv'
  BY <1>11 DEF CancelMark, MarkDone
<1>12. ASSUME NEW s \in Servers, Crash(s) PROVE SeenInv'
  BY <1>12, QueuedAppend, QueuedTail, QueuedEmpty DEF Crash, Wiped
<1>13. ASSUME NEW s \in Servers, NEW i \in Ids, AddFail(s, i) PROVE SeenInv'
  BY <1>13 DEF AddFail, Goto
<1>14. ASSUME NEW s \in Servers, NEW i \in Ids, ClaimFail(s, i) PROVE SeenInv'
  BY <1>14 DEF ClaimFail, Goto
<1>15. ASSUME NEW s \in Servers, Restart(s) PROVE SeenInv'
  BY <1>15 DEF Restart
<1>16. ASSUME NEW s \in Servers, Recover(s) PROVE SeenInv'
  BY <1>16, QueuedAppend, QueuedTail, QueuedEmpty DEF Recover, Registered, Goto
<1>17. ASSUME NEW s \in Servers, RecoverDrop(s) PROVE SeenInv'
  BY <1>17 DEF RecoverDrop
<1>18. ASSUME NEW s \in Servers, Create(s) PROVE SeenInv'
  BY <1>18 DEF Create, Registered, Goto, Serving
<1>19. ASSUME NEW s \in Servers, NEW i \in Ids, CancelQueued(s, i) PROVE SeenInv'
  BY <1>19 DEF CancelQueued, MayName, Serving
<1>20. ASSUME NEW s \in Servers, NEW i \in Ids, CancelRunning(s, i) PROVE SeenInv'
  BY <1>20 DEF CancelRunning
<1>21. CASE UNCHANGED vars
  BY <1>21 DEF vars
<1>. QED
  BY <1>1, <1>2, <1>3, <1>4, <1>5, <1>6, <1>7, <1>8, <1>9, <1>10, <1>11,
     <1>12, <1>13, <1>14, <1>15, <1>16, <1>17, <1>18, <1>19, <1>20, <1>21
     DEF Next, Work, Trouble, Recovery, Ask

LEMMA SortedEmpty == Sorted(<<>>)
BY DEF Sorted

LEMMA SortedTail ==
  ASSUME NEW q \in Seq(Ids), q # <<>>, Sorted(q)
  PROVE  /\ Sorted(Tail(q))
         /\ \A j : Queued(Tail(q), j) => Queued(q, j) /\ j # Head(q)
<1>1. /\ Len(q) \in Nat \ {0} /\ Len(Tail(q)) = Len(q) - 1 /\ q[1] = Head(q)
      /\ \A k \in 1 .. Len(q) - 1 : Tail(q)[k] = q[k + 1]
      /\ \A k \in 1 .. Len(q) : q[k] \in Nat
  BY ExecutionsAssumption DEF Ids
<1>2. \A j : Queued(Tail(q), j) => Queued(q, j) /\ j # Head(q)
  BY <1>1 DEF Queued, Sorted
<1>3. Sorted(Tail(q))
  BY <1>1 DEF Sorted
<1>. QED
  BY <1>2, <1>3

LEMMA NextQuiet ==
  ASSUME TypeOK, FreshInv, SeenInv, QuietInv, [Next]_vars
  PROVE  QuietInv'
<1>. USE DEF TypeOK, SeenInv, QuietInv, QuietAt, dbVars, stateVars, threadVars, history
<1>1. ASSUME NEW s \in Servers, Pick(s) PROVE QuietInv'
  <2>1. PICK i \in Ids : Queued(fifo[s], i) /\ (Taken(s, i) \/ Skipped(s, i))
    BY <1>1, PickTakes
  <2>2. Tail(fifo[s]) \in Seq(Ids) /\ \A j : Queued(Tail(fifo[s]), j) => Queued(fifo[s], j)
    BY <1>1, PickTakes
  <2>3. CASE Taken(s, i)
    BY <2>1, <2>2, <2>3 DEF Taken
  <2>4. CASE Skipped(s, i)
    BY <2>1, <2>2, <2>4 DEF Skipped
  <2>. QED
    BY <2>1, <2>3, <2>4
<1>2. ASSUME NEW s \in Servers, NEW i \in Ids, AddRow(s, i) PROVE QuietInv'
  BY <1>2 DEF AddRow, Goto
<1>3. ASSUME NEW s \in Servers, NEW i \in Ids, Put(s, i) PROVE QuietInv'
  BY <1>3 DEF Put, Goto
<1>4. ASSUME NEW s \in Servers, NEW i \in Ids, Claim(s, i) PROVE QuietInv'
  BY <1>4 DEF Claim, Goto, Mine
<1>5. ASSUME NEW s \in Servers, NEW i \in Ids, ClaimLost(s, i) PROVE QuietInv'
  BY <1>5 DEF ClaimLost, Freed, Goto
<1>6. ASSUME NEW s \in Servers, NEW i \in Ids, RunEnd(s, i) PROVE QuietInv'
  BY <1>6 DEF RunEnd, Goto
<1>7. ASSUME NEW s \in Servers, NEW i \in Ids, FinishFree(s, i) PROVE QuietInv'
  BY <1>7 DEF FinishFree, Goto
<1>8. ASSUME NEW s \in Servers, NEW i \in Ids, FinishMark(s, i) PROVE QuietInv'
  BY <1>8 DEF FinishMark, MarkDone, Goto
<1>9. ASSUME NEW s \in Servers, NEW i \in Ids, CancelClaim(s, i) PROVE QuietInv'
  BY <1>9 DEF CancelClaim
<1>10. ASSUME NEW s \in Servers, NEW i \in Ids, CancelFree(s, i) PROVE QuietInv'
  BY <1>10, ZenonT(40) DEF CancelFree, Free, Freed, Kept
<1>11. ASSUME NEW s \in Servers, NEW i \in Ids, CancelMark(s, i) PROVE QuietInv'
  BY <1>11 DEF CancelMark, MarkDone
<1>12. ASSUME NEW s \in Servers, Crash(s) PROVE QuietInv'
  BY <1>12, SortedEmpty, QueuedAppend, QueuedTail, QueuedEmpty DEF Crash, Wiped
<1>13. ASSUME NEW s \in Servers, NEW i \in Ids, AddFail(s, i) PROVE QuietInv'
  BY <1>13 DEF AddFail, Goto
<1>14. ASSUME NEW s \in Servers, NEW i \in Ids, ClaimFail(s, i) PROVE QuietInv'
  BY <1>14 DEF ClaimFail, Goto
<1>15. ASSUME NEW s \in Servers, Restart(s) PROVE QuietInv'
  <2>1. PICK q \in Seq(Ids) : /\ todo' = [todo EXCEPT ![s] = q]
                              /\ \A j : Queued(q, j) => j \in rows
                              /\ Sorted(q)
    <3>1. PICK q \in [1 .. Cardinality(rows) -> rows] :
            Oldest(q, rows) /\ todo' = [todo EXCEPT ![s] = IF Durable THEN q ELSE <<>>]
      BY <1>15 DEF Restart
    <3>2. q \in Seq(Ids) /\ \A j : Queued(q, j) => j \in rows
      BY RestoredQueue
    <3>3. <<>> \in Seq(Ids) /\ \A j : ~Queued(<<>>, j)
      BY QueuedEmpty
    <3>4. Sorted(q)
      BY <3>1, RowsFinite DEF Oldest, Sorted
    <3>5. Sorted(<<>>)
      BY DEF Sorted
    <3>. QED
      BY <3>1, <3>2, <3>3, <3>4, <3>5
  <2>2. UNCHANGED <<at, cancelling>> /\ up' = up \union {s} /\ s \notin up
    BY <1>15 DEF Restart
  <2>3. ASSUME NEW t \in Servers, t # s PROVE todo'[t] = todo[t] /\ (t \in up' => t \in up)
    BY <2>1, <2>2, <2>3
  <2>4. todo'[s] = q /\ Sorted(q)
    BY <2>1
  <2>5. \A i \in Ids : at[s][i] = "none" /\ cancelling[s][i] = "no"
    BY <2>2
  <2>6. QuietAt(s)'
    BY <2>2, <2>4, <2>5
  <2>7. ASSUME NEW t \in Servers, t # s PROVE QuietAt(t)'
    BY <2>2, <2>3, <2>7
  <2>. QED
    BY <2>6, <2>7
<1>16. ASSUME NEW s \in Servers, Recover(s) PROVE QuietInv'
  <2>. DEFINE i == Head(todo[s])  q == Tail(todo[s])
  <2>1. i \in Ids /\ q \in Seq(Ids)
    BY <1>16, QueuedTail DEF Recover
  <2>2. /\ Sorted(q)
        /\ \A j : Queued(q, j) => Queued(todo[s], j) /\ j # i
    BY <1>16, SortedTail DEF Recover
  <2>3. todo' = [todo EXCEPT ![s] = q] /\ up' = up /\ cancelling' = cancelling
    BY <1>16 DEF Recover
  <2>4. at' = [at EXCEPT ![s][i] = "queued"]
    BY <1>16 DEF Recover, Goto
  <2>5. s \in up /\ todo[s] # <<>>
    BY <1>16 DEF Recover
  <2>. HIDE DEF i, q
  <2>. QED
    BY <2>1, <2>2, <2>3, <2>4, <2>5
<1>17. ASSUME NEW s \in Servers, RecoverDrop(s) PROVE QuietInv'
  <2>. DEFINE i == Head(todo[s])  q == Tail(todo[s])
  <2>1. i \in Ids /\ q \in Seq(Ids)
    BY <1>17, QueuedTail DEF RecoverDrop
  <2>2. /\ Sorted(q)
        /\ \A j : Queued(q, j) => Queued(todo[s], j) /\ j # i
    BY <1>17, SortedTail DEF RecoverDrop
  <2>3. todo' = [todo EXCEPT ![s] = q] /\ up' = up /\ cancelling' = cancelling
    BY <1>17 DEF RecoverDrop
  <2>4. at' = at
    BY <1>17 DEF RecoverDrop
  <2>5. s \in up /\ todo[s] # <<>>
    BY <1>17 DEF RecoverDrop
  <2>. HIDE DEF i, q
  <2>. QED
    BY <2>1, <2>2, <2>3, <2>4, <2>5
<1>18. ASSUME NEW s \in Servers, Create(s) PROVE QuietInv'
  <2>1. created + 1 \in Ids /\ \A t \in Servers : ~Queued(todo[t], created + 1)
    BY <1>18, ExecutionsAssumption DEF Create, FreshInv, Ids
  <2>. QED
    BY <1>18, <2>1 DEF Create, Goto, Serving
<1>19. ASSUME NEW s \in Servers, NEW i \in Ids, CancelQueued(s, i) PROVE QuietInv'
  BY <1>19 DEF CancelQueued, MayName, Serving
<1>20. ASSUME NEW s \in Servers, NEW i \in Ids, CancelRunning(s, i) PROVE QuietInv'
  BY <1>20 DEF CancelRunning
<1>21. CASE UNCHANGED vars
  BY <1>21 DEF vars
<1>. QED
  BY <1>1, <1>2, <1>3, <1>4, <1>5, <1>6, <1>7, <1>8, <1>9, <1>10, <1>11,
     <1>12, <1>13, <1>14, <1>15, <1>16, <1>17, <1>18, <1>19, <1>20, <1>21
     DEF Next, Work, Trouble, Recovery, Ask

LEMMA NoIdIsNone == NoId \notin Ids
BY DEF NoId, Ids


LEMMA NextOwn ==
  ASSUME SafeInv, OwnInv, UndoSafe, [Next]_vars
  PROVE  OwnInv'
<1>. USE DEF SafeInv, TypeOK, OwnInv, OwnAt, Owns, AtWork, dbVars, stateVars, threadVars, history
<1>0. \A t \in Servers, j \in Ids : at[t][j] # "none" \/ Queued(fifo[t], j) => cycle[j] \in Cycles
  BY DEF FreshInv, SeenInv, Ids
<1>1. ASSUME NEW s \in Servers, Pick(s) PROVE OwnInv'
  <2>1. PICK i \in Ids : Queued(fifo[s], i) /\ (Taken(s, i) \/ Skipped(s, i))
    BY <1>1, PickTakes
  <2>2. Tail(fifo[s]) \in Seq(Ids) /\ \A j : Queued(Tail(fifo[s]), j) => Queued(fifo[s], j)
    BY <1>1, PickTakes
  <2>3. CASE Taken(s, i)
    BY <2>1, <2>2, <2>3, SMTT(30) DEF Taken
  <2>4. CASE Skipped(s, i)
    BY <2>1, <2>2, <2>4, SMTT(30) DEF Skipped
  <2>. QED
    BY <2>1, <2>3, <2>4
<1>2. ASSUME NEW s \in Servers, NEW i \in Ids, AddRow(s, i) PROVE OwnInv'
  BY <1>2 DEF AddRow, Goto
<1>3. ASSUME NEW s \in Servers, NEW i \in Ids, Put(s, i) PROVE OwnInv'
  BY <1>3, QueuedAppend, QueuedTail, QueuedEmpty DEF Put, Goto
<1>4. ASSUME NEW s \in Servers, NEW i \in Ids, Claim(s, i) PROVE OwnInv'
  BY <1>4, SMTT(30) DEF Claim, Goto, Mine
<1>5. ASSUME NEW s \in Servers, NEW i \in Ids, ClaimLost(s, i) PROVE OwnInv'
  BY <1>5 DEF ClaimLost, Freed, Goto
<1>6. ASSUME NEW s \in Servers, NEW i \in Ids, RunEnd(s, i) PROVE OwnInv'
  BY <1>6 DEF RunEnd, Goto
<1>7. ASSUME NEW s \in Servers, NEW i \in Ids, FinishFree(s, i) PROVE OwnInv'
  <2>1. at[s][i] = "free" /\ Owns(s, i)
    BY <1>7 DEF FinishFree
  <2>3. ASSUME NEW t \in Servers, NEW j \in Ids, cycle[j] \in Cycles, Owns(t, j), t # s \/ j # i
         PROVE  Owns(t, j)'
    BY <1>7, <2>1, <2>3 DEF FinishFree, Free, Freed, Kept
  <2>4. /\ cycle' = cycle /\ fifo' = fifo /\ outcome' = outcome
        /\ status' = status
    BY <1>7 DEF FinishFree, Free, Freed, Kept
  <2>5. ASSUME NEW t \in Servers, NEW j \in Ids
         PROVE  OwnAt(t, j)'
    <3>1. CASE t = s /\ j = i
      BY <1>0, <1>7, <2>1, <2>4, <3>1 DEF FinishFree, Free, Freed, Kept, Goto
    <3>2. CASE t # s \/ j # i
      <4>1. at'[t][j] = at[t][j] /\ cancelling'[t][j] = cancelling[t][j]
        BY <1>7, <3>2 DEF FinishFree, Free, Freed, Kept, Goto
      <4>2. (at[t][j] # "none" \/ Queued(fifo[t], j)) /\ Owns(t, j) => Owns(t, j)'
        BY <1>0, <2>3, <3>2
      <4>. HIDE DEF Owns
      <4>. QED
        BY <2>4, <4>1, <4>2
    <3>. QED
      BY <3>1, <3>2
  <2>. QED
    BY <2>5
<1>8. ASSUME NEW s \in Servers, NEW i \in Ids, FinishMark(s, i) PROVE OwnInv'
  BY <1>8 DEF FinishMark, MarkDone, Goto
<1>9. ASSUME NEW s \in Servers, NEW i \in Ids, CancelClaim(s, i) PROVE OwnInv'
  BY <1>9 DEF CancelClaim
<1>10. ASSUME NEW s \in Servers, NEW i \in Ids, CancelFree(s, i) PROVE OwnInv'
  <2>1. cancelling[s][i] = "free" /\ status[s][i] = "cancelled" /\ at' = at
    BY <1>10 DEF CancelFree
  <2>3. ASSUME NEW t \in Servers, NEW j \in Ids, cycle[j] \in Cycles, Owns(t, j), t # s \/ j # i
         PROVE  Owns(t, j)'
    BY <1>10, <2>1, <2>3 DEF CancelFree, Free, Freed, Kept
  <2>4. /\ cycle' = cycle /\ fifo' = fifo /\ outcome' = outcome
        /\ status' = status
    BY <1>10 DEF CancelFree, Free, Freed, Kept
  <2>5. ASSUME NEW t \in Servers, NEW j \in Ids
         PROVE  OwnAt(t, j)'
    <3>1. CASE t = s /\ j = i
      BY <1>0, <1>10, <2>1, <2>4, <3>1 DEF CancelFree, Free, Freed, Kept
    <3>2. CASE t # s \/ j # i
      <4>1. at'[t][j] = at[t][j] /\ cancelling'[t][j] = cancelling[t][j]
        BY <1>10, <3>2 DEF CancelFree, Free, Freed, Kept
      <4>2. (at[t][j] # "none" \/ Queued(fifo[t], j)) /\ Owns(t, j) => Owns(t, j)'
        BY <1>0, <2>3, <3>2
      <4>. HIDE DEF Owns
      <4>. QED
        BY <2>4, <4>1, <4>2
    <3>. QED
      BY <3>1, <3>2
  <2>. QED
    BY <2>5
<1>11. ASSUME NEW s \in Servers, NEW i \in Ids, CancelMark(s, i) PROVE OwnInv'
  BY <1>11 DEF CancelMark, MarkDone
<1>12. ASSUME NEW s \in Servers, Crash(s) PROVE OwnInv'
  BY <1>12, QueuedAppend, QueuedTail, QueuedEmpty DEF Crash, Wiped
<1>13. ASSUME NEW s \in Servers, NEW i \in Ids, AddFail(s, i) PROVE OwnInv'
  <2>1. at[s][i] = "add" /\ Owns(s, i)
    BY <1>13 DEF AddFail, UndoSafe
  <2>3. ASSUME NEW t \in Servers, NEW j \in Ids, cycle[j] \in Cycles, Owns(t, j), t # s \/ j # i
         PROVE  Owns(t, j)'
    BY <1>13, <2>1, <2>3 DEF AddFail
  <2>4. /\ cycle' = cycle /\ fifo' = fifo /\ outcome' = outcome
        /\ status' = status
    BY <1>13 DEF AddFail
  <2>5. ASSUME NEW t \in Servers, NEW j \in Ids
         PROVE  OwnAt(t, j)'
    <3>1. CASE t = s /\ j = i
      BY <1>0, <1>13, <2>1, <2>4, <3>1 DEF AddFail, Goto
    <3>2. CASE t # s \/ j # i
      <4>1. at'[t][j] = at[t][j] /\ cancelling'[t][j] = cancelling[t][j]
        BY <1>13, <3>2 DEF AddFail, Goto
      <4>2. (at[t][j] # "none" \/ Queued(fifo[t], j)) /\ Owns(t, j) => Owns(t, j)'
        BY <1>0, <2>3, <3>2
      <4>. HIDE DEF Owns
      <4>. QED
        BY <2>4, <4>1, <4>2
    <3>. QED
      BY <3>1, <3>2
  <2>. QED
    BY <2>5
<1>14. ASSUME NEW s \in Servers, NEW i \in Ids, ClaimFail(s, i) PROVE OwnInv'
  BY <1>14 DEF ClaimFail, Goto
<1>15. ASSUME NEW s \in Servers, Restart(s) PROVE OwnInv'
  BY <1>15 DEF Restart
<1>16. ASSUME NEW s \in Servers, Recover(s) PROVE OwnInv'
  <2>. DEFINE i == Head(todo[s])
  <2>1. i \in Ids /\ Queued(todo[s], i)
    BY <1>16, QueuedTail DEF Recover
  <2>2. cycle[i] \in Cycles /\ active[s][cycle[i]] = NoId
    BY <1>16, <2>1 DEF Recover, Registered, FreshInv, Ids
  <2>3. /\ active' = [active EXCEPT ![s][cycle[i]] = i]
        /\ status' = [status EXCEPT ![s][i] = "queued"]
        /\ at' = [at EXCEPT ![s][i] = "queued"]
        /\ fifo' = [fifo EXCEPT ![s] = Append(@, i)]
        /\ cycle' = cycle /\ outcome' = outcome /\ cancelling' = cancelling
    BY <1>16 DEF Recover, Registered, Goto
  <2>4. \A j \in Ids : at[s][j] \notin {"add", "put"} /\ cancelling[s][j] = "no"
    BY <1>16 DEF Recover, QuietInv, QuietAt
  <2>. HIDE DEF i
  <2>5. \A t \in Servers, j \in Ids : Queued(fifo'[t], j) => Queued(fifo[t], j) \/ (t = s /\ j = i)
    BY <2>1, <2>3, QueuedAppend
  <2>6. ASSUME NEW t \in Servers, NEW j \in Ids PROVE OwnAt(t, j)'
    <3>1. CASE t = s /\ j = i
      BY <2>1, <2>2, <2>3, <2>4, <3>1
    <3>2. CASE t # s \/ j # i
      <4>1. /\ at'[t][j] = at[t][j] /\ status'[t][j] = status[t][j]
            /\ cancelling'[t][j] = cancelling[t][j] /\ outcome'[t][j] = outcome[t][j]
        BY <2>1, <2>3, <3>2
      <4>2. (at[t][j] # "none" \/ Queued(fifo[t], j)) /\ Owns(t, j) => Owns(t, j)'
        BY <1>0, <2>1, <2>2, <2>3, <3>2, NoIdIsNone
      <4>3. at[t][j] \in {"add", "put"} => t # s
        BY <2>4
      <4>4. Queued(fifo'[t], j) => Queued(fifo[t], j)
        BY <2>5, <3>2
      <4>5. t # s => fifo'[t] = fifo[t]
        BY <2>3
      <4>. HIDE DEF Owns
      <4>. QED
        BY <4>1, <4>2, <4>3, <4>4, <4>5
    <3>. QED
      BY <3>1, <3>2
  <2>. QED
    BY <2>6
<1>17. ASSUME NEW s \in Servers, RecoverDrop(s) PROVE OwnInv'
  BY <1>17 DEF RecoverDrop
<1>18. ASSUME NEW s \in Servers, Create(s) PROVE OwnInv'
  <2>. DEFINE i == created + 1
  <2>1. i \in Ids /\ i > created
    BY <1>18, ExecutionsAssumption DEF Create, Ids
  <2>2. PICK c \in Cycles : /\ active[s][c] = NoId
                            /\ active' = [active EXCEPT ![s][c] = i]
                            /\ status' = [status EXCEPT ![s][i] = "queued"]
                            /\ cycle' = [cycle EXCEPT ![i] = c]
    BY <1>18 DEF Create, Registered
  <2>3. /\ at' = [at EXCEPT ![s][i] = "add"]
        /\ fifo' = fifo /\ outcome' = outcome /\ cancelling' = cancelling
    BY <1>18 DEF Create, Goto
  <2>4. \A t \in Servers : at[t][i] = "none" /\ ~Queued(fifo[t], i)
    BY <2>1 DEF FreshInv, SeenInv
  <2>5. cancelling[s][i] = "no"
    BY <2>1 DEF FreshInv, SeenInv
  <2>. HIDE DEF i
  <2>6. ASSUME NEW t \in Servers, NEW j \in Ids PROVE OwnAt(t, j)'
    <3>1. CASE t = s /\ j = i
      BY <2>1, <2>2, <2>3, <2>4, <2>5, <3>1
    <3>2. CASE t # s \/ j # i
      <4>1. /\ at'[t][j] = at[t][j] /\ status'[t][j] = status[t][j]
            /\ cancelling'[t][j] = cancelling[t][j] /\ outcome'[t][j] = outcome[t][j]
        BY <2>1, <2>2, <2>3, <3>2
      <4>2. (at[t][j] # "none" \/ Queued(fifo[t], j)) /\ Owns(t, j) => Owns(t, j)'
        <5>. SUFFICES ASSUME at[t][j] # "none" \/ Queued(fifo[t], j), Owns(t, j) PROVE Owns(t, j)'
          OBVIOUS
        <5>1. j # i
          BY <2>4
        <5>2. cycle'[j] = cycle[j] /\ cycle[j] \in Cycles
          BY <1>0, <2>2, <5>1
        <5>. QED
          BY <2>1, <2>2, <5>1, <5>2, NoIdIsNone
      <4>. HIDE DEF Owns
      <4>. QED
        BY <2>3, <4>1, <4>2
    <3>. QED
      BY <3>1, <3>2
  <2>. QED
    BY <2>6
<1>19. ASSUME NEW s \in Servers, NEW i \in Ids, CancelQueued(s, i) PROVE OwnInv'
  <2>1. at[s][i] = "add" => Peek
    BY <1>19 DEF CancelQueued, MayName, RowInv
  <2>. QED
    BY <1>19, <2>1 DEF CancelQueued
<1>20. ASSUME NEW s \in Servers, NEW i \in Ids, CancelRunning(s, i) PROVE OwnInv'
  BY <1>20 DEF CancelRunning
<1>21. CASE UNCHANGED vars
  BY <1>21 DEF vars
<1>. QED
  BY <1>1, <1>2, <1>3, <1>4, <1>5, <1>6, <1>7, <1>8, <1>9, <1>10, <1>11,
     <1>12, <1>13, <1>14, <1>15, <1>16, <1>17, <1>18, <1>19, <1>20, <1>21
     DEF Next, Work, Trouble, Recovery, Ask

LEMMA NextRow ==
  ASSUME SafeInv, [Next]_vars
  PROVE  RowInv'
<1>. USE DEF SafeInv, TypeOK, RowInv, dbVars, stateVars, threadVars, history
<1>1. ASSUME NEW s \in Servers, Pick(s) PROVE RowInv'
  <2>1. PICK i \in Ids : Queued(fifo[s], i) /\ (Taken(s, i) \/ Skipped(s, i))
    BY <1>1, PickTakes
  <2>2. Tail(fifo[s]) \in Seq(Ids) /\ \A j : Queued(Tail(fifo[s]), j) => Queued(fifo[s], j)
    BY <1>1, PickTakes
  <2>3. CASE Taken(s, i)
    BY <2>1, <2>2, <2>3, SMTT(30) DEF Taken
  <2>4. CASE Skipped(s, i)
    BY <2>1, <2>2, <2>4, SMTT(30) DEF Skipped
  <2>. QED
    BY <2>1, <2>3, <2>4
<1>2. ASSUME NEW s \in Servers, NEW i \in Ids, AddRow(s, i) PROVE RowInv'
  BY <1>2 DEF AddRow, Goto
<1>3. ASSUME NEW s \in Servers, NEW i \in Ids, Put(s, i) PROVE RowInv'
  BY <1>3, SMTT(30) DEF Put, Goto
<1>4. ASSUME NEW s \in Servers, NEW i \in Ids, Claim(s, i) PROVE RowInv'
  BY <1>4, SMTT(30) DEF Claim, Goto, Mine
<1>5. ASSUME NEW s \in Servers, NEW i \in Ids, ClaimLost(s, i) PROVE RowInv'
  BY <1>5, SMTT(30) DEF ClaimLost, Freed, Goto
<1>6. ASSUME NEW s \in Servers, NEW i \in Ids, RunEnd(s, i) PROVE RowInv'
  BY <1>6 DEF RunEnd, Goto
<1>7. ASSUME NEW s \in Servers, NEW i \in Ids, FinishFree(s, i) PROVE RowInv'
  BY <1>7 DEF FinishFree, Free, Freed, Kept, Goto
<1>8. ASSUME NEW s \in Servers, NEW i \in Ids, FinishMark(s, i) PROVE RowInv'
  BY <1>8 DEF FinishMark, MarkDone, Goto
<1>9. ASSUME NEW s \in Servers, NEW i \in Ids, CancelClaim(s, i) PROVE RowInv'
  BY <1>9 DEF CancelClaim
<1>10. ASSUME NEW s \in Servers, NEW i \in Ids, CancelFree(s, i) PROVE RowInv'
  BY <1>10 DEF CancelFree, Free, Freed, Kept
<1>11. ASSUME NEW s \in Servers, NEW i \in Ids, CancelMark(s, i) PROVE RowInv'
  BY <1>11 DEF CancelMark, MarkDone
<1>12. ASSUME NEW s \in Servers, Crash(s) PROVE RowInv'
  BY <1>12 DEF Crash, Wiped
<1>13. ASSUME NEW s \in Servers, NEW i \in Ids, AddFail(s, i) PROVE RowInv'
  BY <1>13 DEF AddFail, Goto
<1>14. ASSUME NEW s \in Servers, NEW i \in Ids, ClaimFail(s, i) PROVE RowInv'
  BY <1>14 DEF ClaimFail, Goto
<1>15. ASSUME NEW s \in Servers, Restart(s) PROVE RowInv'
  BY <1>15 DEF Restart
<1>16. ASSUME NEW s \in Servers, Recover(s) PROVE RowInv'
  BY <1>16, ZenonT(40) DEF Recover, Registered, Goto
<1>17. ASSUME NEW s \in Servers, RecoverDrop(s) PROVE RowInv'
  BY <1>17 DEF RecoverDrop
<1>18. ASSUME NEW s \in Servers, Create(s) PROVE RowInv'
  <2>1. created + 1 \in Ids /\ \A t \in Servers : at[t][created + 1] = "none"
    BY <1>18, ExecutionsAssumption DEF Create, Ids, FreshInv
  <2>2. created + 1 \notin rows /\ created + 1 \notin accepted /\ started[created + 1] = 0
    BY <1>18, <2>1 DEF FreshInv
  <2>. QED
    BY <1>18, <2>1, <2>2, SMTT(30) DEF Create, Goto
<1>19. ASSUME NEW s \in Servers, NEW i \in Ids, CancelQueued(s, i) PROVE RowInv'
  BY <1>19 DEF CancelQueued, MayName, Serving
<1>20. ASSUME NEW s \in Servers, NEW i \in Ids, CancelRunning(s, i) PROVE RowInv'
  BY <1>20 DEF CancelRunning
<1>21. CASE UNCHANGED vars
  BY <1>21 DEF vars
<1>. QED
  BY <1>1, <1>2, <1>3, <1>4, <1>5, <1>6, <1>7, <1>8, <1>9, <1>10, <1>11,
     <1>12, <1>13, <1>14, <1>15, <1>16, <1>17, <1>18, <1>19, <1>20, <1>21
     DEF Next, Work, Trouble, Recovery, Ask

LEMMA NextGivenUp ==
  ASSUME SafeInv, GivenUp, [Next]_vars
  PROVE  GivenUp'
<1>. USE DEF SafeInv, TypeOK, GivenUp, GoneAt, Owns, dbVars, stateVars, threadVars, history
<1>0. \A t \in Servers, j \in Ids : at[t][j] # "none" \/ GoneAt(t, j) => cycle[j] \in Cycles
  BY DEF FreshInv, SeenInv, Ids
<1>1. ASSUME NEW s \in Servers, Pick(s) PROVE GivenUp'
  <2>1. PICK i \in Ids : Queued(fifo[s], i) /\ (Taken(s, i) \/ Skipped(s, i))
    BY <1>1, PickTakes
  <2>2. Tail(fifo[s]) \in Seq(Ids) /\ \A j : Queued(Tail(fifo[s]), j) => Queued(fifo[s], j)
    BY <1>1, PickTakes
  <2>3. CASE Taken(s, i)
    BY <2>1, <2>2, <2>3 DEF Taken
  <2>4. CASE Skipped(s, i)
    BY <2>1, <2>2, <2>4 DEF Skipped
  <2>. QED
    BY <2>1, <2>3, <2>4
<1>2. ASSUME NEW s \in Servers, NEW i \in Ids, AddRow(s, i) PROVE GivenUp'
  BY <1>2 DEF AddRow, Goto
<1>3. ASSUME NEW s \in Servers, NEW i \in Ids, Put(s, i) PROVE GivenUp'
  BY <1>3 DEF Put, Goto
<1>4. ASSUME NEW s \in Servers, NEW i \in Ids, Claim(s, i) PROVE GivenUp'
  BY <1>4 DEF Claim, Goto, Mine
<1>5. ASSUME NEW s \in Servers, NEW i \in Ids, ClaimLost(s, i) PROVE GivenUp'
  <2>1. \A t \in Servers, j \in Ids : cycle[j] \in Cycles /\ Owns(t, j)' => Owns(t, j)
    BY <1>5, NoIdIsNone DEF ClaimLost, Freed
  <2>2. UNCHANGED <<done, cancelling, cycle>>
    BY <1>5 DEF ClaimLost
  <2>3. \A t \in Servers, j \in Ids : at'[t][j] = "mark" => at[t][j] = "mark"
    BY <1>5 DEF ClaimLost, Goto
  <2>. HIDE DEF Owns
  <2>. QED
    BY <1>0, <2>1, <2>2, <2>3
<1>6. ASSUME NEW s \in Servers, NEW i \in Ids, RunEnd(s, i) PROVE GivenUp'
  BY <1>6 DEF RunEnd, Goto
<1>7. ASSUME NEW s \in Servers, NEW i \in Ids, FinishFree(s, i) PROVE GivenUp'
  <2>1. cycle[i] \in Cycles
    BY <1>0, <1>7 DEF FinishFree, SeenInv
  <2>2. \A t \in Servers, j \in Ids : cycle[j] \in Cycles /\ Owns(t, j)' => Owns(t, j) /\ ~(t = s /\ j = i)
    BY <1>7, <2>1, NoIdIsNone DEF FinishFree, Free, Freed
  <2>3. \A t \in Servers, j \in Ids :
          GoneAt(t, j)' => (GoneAt(t, j) /\ cycle[j] \in Cycles) \/ (t = s /\ j = i)
    BY <1>0, <1>7 DEF FinishFree, Goto
  <2>4. cycle' = cycle
    BY <1>7 DEF FinishFree
  <2>. HIDE DEF Owns, GoneAt
  <2>. QED
    BY <2>1, <2>2, <2>3, <2>4
<1>8. ASSUME NEW s \in Servers, NEW i \in Ids, FinishMark(s, i) PROVE GivenUp'
  BY <1>8 DEF FinishMark, MarkDone, Goto
<1>9. ASSUME NEW s \in Servers, NEW i \in Ids, CancelClaim(s, i) PROVE GivenUp'
  BY <1>9 DEF CancelClaim
<1>10. ASSUME NEW s \in Servers, NEW i \in Ids, CancelFree(s, i) PROVE GivenUp'
  <2>1. cycle[i] \in Cycles
    BY <1>0, <1>10 DEF CancelFree, SeenInv
  <2>2. \A t \in Servers, j \in Ids : cycle[j] \in Cycles /\ Owns(t, j)' => Owns(t, j) /\ ~(t = s /\ j = i)
    BY <1>10, <2>1, NoIdIsNone DEF CancelFree, Free, Freed
  <2>3. \A t \in Servers, j \in Ids :
          GoneAt(t, j)' => (GoneAt(t, j) /\ cycle[j] \in Cycles) \/ (t = s /\ j = i)
    BY <1>0, <1>10 DEF CancelFree, Goto
  <2>4. cycle' = cycle
    BY <1>10 DEF CancelFree
  <2>. HIDE DEF Owns, GoneAt
  <2>. QED
    BY <2>1, <2>2, <2>3, <2>4
<1>11. ASSUME NEW s \in Servers, NEW i \in Ids, CancelMark(s, i) PROVE GivenUp'
  BY <1>11 DEF CancelMark, MarkDone
<1>12. ASSUME NEW s \in Servers, Crash(s) PROVE GivenUp'
  <2>1. \A t \in Servers, j \in Ids : GoneAt(t, j)' => t # s
    BY <1>12 DEF Crash, Wiped
  <2>2. \A t \in Servers, j \in Ids : t # s => (GoneAt(t, j)' <=> GoneAt(t, j)) /\ (Owns(t, j)' <=> Owns(t, j))
    BY <1>12 DEF Crash, Wiped
  <2>. HIDE DEF Owns, GoneAt
  <2>. QED
    BY <2>1, <2>2
<1>13. ASSUME NEW s \in Servers, NEW i \in Ids, AddFail(s, i) PROVE GivenUp'
  <2>1. \A t \in Servers, j \in Ids : cycle[j] \in Cycles /\ Owns(t, j)' => Owns(t, j)
    BY <1>13, NoIdIsNone DEF AddFail, Freed
  <2>2. UNCHANGED <<done, cancelling, cycle>>
    BY <1>13 DEF AddFail
  <2>3. \A t \in Servers, j \in Ids : at'[t][j] = "mark" => at[t][j] = "mark"
    BY <1>13 DEF AddFail, Goto
  <2>. HIDE DEF Owns
  <2>. QED
    BY <1>0, <2>1, <2>2, <2>3
<1>14. ASSUME NEW s \in Servers, NEW i \in Ids, ClaimFail(s, i) PROVE GivenUp'
  BY <1>14 DEF ClaimFail, Goto
<1>15. ASSUME NEW s \in Servers, Restart(s) PROVE GivenUp'
  BY <1>15 DEF Restart
<1>16. ASSUME NEW s \in Servers, Recover(s) PROVE GivenUp'
  <2>. DEFINE i == Head(todo[s])
  <2>1. i \in Ids /\ Queued(todo[s], i)
    BY <1>16, QueuedTail DEF Recover
  <2>2. cycle[i] \in Cycles
    BY <2>1 DEF FreshInv, Ids
  <2>3. ~GoneAt(s, i)
    BY <2>1 DEF QuietInv, QuietAt, SeenInv
  <2>4. /\ active' = [active EXCEPT ![s][cycle[i]] = i] /\ at' = [at EXCEPT ![s][i] = "queued"]
        /\ UNCHANGED <<done, cancelling, cycle>>
    BY <1>16 DEF Recover, Registered, Goto
  <2>. HIDE DEF i
  <2>5. \A t \in Servers, j \in Ids : GoneAt(t, j)' => GoneAt(t, j)
    BY <2>1, <2>4
  <2>6. \A t \in Servers, j \in Ids : cycle[j] \in Cycles /\ Owns(t, j)' => Owns(t, j) \/ (t = s /\ j = i)
    BY <2>1, <2>2, <2>4
  <2>7. \A t \in Servers, j \in Ids : GoneAt(t, j) => cycle[j] \in Cycles
    BY <1>0
  <2>. HIDE DEF Owns, GoneAt
  <2>. QED
    BY <2>3, <2>5, <2>6, <2>7
<1>17. ASSUME NEW s \in Servers, RecoverDrop(s) PROVE GivenUp'
  BY <1>17 DEF RecoverDrop
<1>18. ASSUME NEW s \in Servers, Create(s) PROVE GivenUp'
  <2>. DEFINE i == created + 1
  <2>1. i \in Ids /\ i > created
    BY <1>18, ExecutionsAssumption DEF Create, Ids
  <2>2. PICK c \in Cycles : /\ active' = [active EXCEPT ![s][c] = i]
                            /\ cycle' = [cycle EXCEPT ![i] = c]
    BY <1>18 DEF Create, Registered
  <2>3. at' = [at EXCEPT ![s][i] = "add"] /\ UNCHANGED <<done, cancelling>>
    BY <1>18 DEF Create, Goto
  <2>4. \A t \in Servers : ~GoneAt(t, i)
    BY <2>1 DEF FreshInv, SeenInv
  <2>. HIDE DEF i
  <2>5. \A t \in Servers, j \in Ids : GoneAt(t, j)' => GoneAt(t, j)
    BY <2>1, <2>3
  <2>6. ASSUME NEW t \in Servers, NEW j \in Ids, GoneAt(t, j) PROVE Owns(t, j)' => Owns(t, j)
    <3>1. j # i /\ cycle[j] \in Cycles
      BY <1>0, <2>4, <2>6
    <3>2. cycle'[j] = cycle[j]
      BY <2>1, <2>2, <3>1
    <3>. QED
      BY <2>1, <2>2, <3>1, <3>2
  <2>. HIDE DEF Owns, GoneAt
  <2>. QED
    BY <2>5, <2>6
<1>19. ASSUME NEW s \in Servers, NEW i \in Ids, CancelQueued(s, i) PROVE GivenUp'
  BY <1>19 DEF CancelQueued, MayName, Serving
<1>20. ASSUME NEW s \in Servers, NEW i \in Ids, CancelRunning(s, i) PROVE GivenUp'
  BY <1>20 DEF CancelRunning
<1>21. CASE UNCHANGED vars
  BY <1>21 DEF vars
<1>. QED
  BY <1>1, <1>2, <1>3, <1>4, <1>5, <1>6, <1>7, <1>8, <1>9, <1>10, <1>11,
     <1>12, <1>13, <1>14, <1>15, <1>16, <1>17, <1>18, <1>19, <1>20, <1>21
     DEF Next, Work, Trouble, Recovery, Ask

LEMMA NextOnce ==
  ASSUME SafeInv, StartsOnce, Durable, [Next]_vars
  PROVE  StartsOnce'
<1>. USE DEF StartsOnce, dbVars, stateVars, threadVars, history
<1>1. ASSUME NEW s \in Servers, Pick(s) PROVE StartsOnce'
  BY <1>1 DEF Pick
<1>2. ASSUME NEW s \in Servers, NEW i \in Ids, AddRow(s, i) PROVE StartsOnce'
  BY <1>2 DEF AddRow
<1>3. ASSUME NEW s \in Servers, NEW i \in Ids, Put(s, i) PROVE StartsOnce'
  BY <1>3 DEF Put
<1>4. ASSUME NEW s \in Servers, NEW i \in Ids, Claim(s, i) PROVE StartsOnce'
  <2>1. started[i] = 0
    BY <1>4 DEF SafeInv, RowInv, Claim, Mine
  <2>2. started' = [started EXCEPT ![i] = @ + 1] /\ started \in [Ids -> Nat]
    BY <1>4 DEF Claim, SafeInv, TypeOK
  <2>. QED
    BY <2>1, <2>2
<1>5. ASSUME NEW s \in Servers, NEW i \in Ids, ClaimLost(s, i) PROVE StartsOnce'
  BY <1>5 DEF ClaimLost
<1>6. ASSUME NEW s \in Servers, NEW i \in Ids, RunEnd(s, i) PROVE StartsOnce'
  BY <1>6 DEF RunEnd
<1>7. ASSUME NEW s \in Servers, NEW i \in Ids, FinishFree(s, i) PROVE StartsOnce'
  BY <1>7 DEF FinishFree
<1>8. ASSUME NEW s \in Servers, NEW i \in Ids, FinishMark(s, i) PROVE StartsOnce'
  BY <1>8 DEF FinishMark
<1>9. ASSUME NEW s \in Servers, NEW i \in Ids, CancelClaim(s, i) PROVE StartsOnce'
  BY <1>9 DEF CancelClaim
<1>10. ASSUME NEW s \in Servers, NEW i \in Ids, CancelFree(s, i) PROVE StartsOnce'
  BY <1>10 DEF CancelFree
<1>11. ASSUME NEW s \in Servers, NEW i \in Ids, CancelMark(s, i) PROVE StartsOnce'
  BY <1>11 DEF CancelMark
<1>12. ASSUME NEW s \in Servers, Crash(s) PROVE StartsOnce'
  BY <1>12 DEF Crash
<1>13. ASSUME NEW s \in Servers, NEW i \in Ids, AddFail(s, i) PROVE StartsOnce'
  BY <1>13 DEF AddFail
<1>14. ASSUME NEW s \in Servers, NEW i \in Ids, ClaimFail(s, i) PROVE StartsOnce'
  BY <1>14 DEF ClaimFail
<1>15. ASSUME NEW s \in Servers, Restart(s) PROVE StartsOnce'
  BY <1>15 DEF Restart
<1>16. ASSUME NEW s \in Servers, Recover(s) PROVE StartsOnce'
  BY <1>16 DEF Recover
<1>17. ASSUME NEW s \in Servers, RecoverDrop(s) PROVE StartsOnce'
  BY <1>17 DEF RecoverDrop
<1>18. ASSUME NEW s \in Servers, Create(s) PROVE StartsOnce'
  BY <1>18 DEF Create
<1>19. ASSUME NEW s \in Servers, NEW i \in Ids, CancelQueued(s, i) PROVE StartsOnce'
  BY <1>19 DEF CancelQueued
<1>20. ASSUME NEW s \in Servers, NEW i \in Ids, CancelRunning(s, i) PROVE StartsOnce'
  BY <1>20 DEF CancelRunning
<1>21. CASE UNCHANGED vars
  BY <1>21 DEF vars
<1>. QED
  BY <1>1, <1>2, <1>3, <1>4, <1>5, <1>6, <1>7, <1>8, <1>9, <1>10, <1>11,
     <1>12, <1>13, <1>14, <1>15, <1>16, <1>17, <1>18, <1>19, <1>20, <1>21
     DEF Next, Work, Trouble, Recovery, Ask

-----------------------------------------------------------------------------
(* Nothing is lost, and not everything is kept.                            *)

LEMMA NextGoneRow ==
  ASSUME Alone, SafeInv, OwnInv, GoneRowInv, [Next]_vars
  PROVE  GoneRowInv'
<1>. USE DEF SafeInv, TypeOK, OwnInv, OwnAt, Owns, Alone, GoneRowInv, RowInv, dbVars, stateVars, threadVars, history
<1>1. ASSUME NEW s \in Servers, Pick(s) PROVE GoneRowInv'
  <2>1. PICK i \in Ids : Queued(fifo[s], i) /\ (Taken(s, i) \/ Skipped(s, i))
    BY <1>1, PickTakes
  <2>2. CASE Taken(s, i)
    BY <2>1, <2>2 DEF Taken
  <2>3. CASE Skipped(s, i)
    BY <2>1, <2>3 DEF Skipped
  <2>. QED
    BY <2>1, <2>2, <2>3
<1>2. ASSUME NEW s \in Servers, NEW i \in Ids, AddRow(s, i) PROVE GoneRowInv'
  BY <1>2 DEF AddRow, Goto
<1>3. ASSUME NEW s \in Servers, NEW i \in Ids, Put(s, i) PROVE GoneRowInv'
  BY <1>3 DEF Put, Goto
<1>4. ASSUME NEW s \in Servers, NEW i \in Ids, Claim(s, i) PROVE GoneRowInv'
  BY <1>4 DEF Claim, Goto, Mine
<1>5. ASSUME NEW s \in Servers, NEW i \in Ids, ClaimLost(s, i) PROVE GoneRowInv'
  BY <1>5 DEF ClaimLost, Freed, Goto, Mine
<1>6. ASSUME NEW s \in Servers, NEW i \in Ids, RunEnd(s, i) PROVE GoneRowInv'
  BY <1>6 DEF RunEnd, Goto
<1>7. ASSUME NEW s \in Servers, NEW i \in Ids, FinishFree(s, i) PROVE GoneRowInv'
  BY <1>7 DEF FinishFree, Free, Freed, Goto
<1>8. ASSUME NEW s \in Servers, NEW i \in Ids, FinishMark(s, i) PROVE GoneRowInv'
  BY <1>8 DEF FinishMark, MarkDone, Goto
<1>9. ASSUME NEW s \in Servers, NEW i \in Ids, CancelClaim(s, i) PROVE GoneRowInv'
  BY <1>9 DEF CancelClaim
<1>10. ASSUME NEW s \in Servers, NEW i \in Ids, CancelFree(s, i) PROVE GoneRowInv'
  BY <1>10 DEF CancelFree, Free, Freed
<1>11. ASSUME NEW s \in Servers, NEW i \in Ids, CancelMark(s, i) PROVE GoneRowInv'
  BY <1>11 DEF CancelMark, MarkDone
<1>12. ASSUME NEW s \in Servers, Crash(s) PROVE GoneRowInv'
  BY <1>12 DEF Crash, Wiped
<1>13. ASSUME NEW s \in Servers, NEW i \in Ids, AddFail(s, i) PROVE GoneRowInv'
  BY <1>13 DEF AddFail
<1>14. ASSUME NEW s \in Servers, NEW i \in Ids, ClaimFail(s, i) PROVE GoneRowInv'
  BY <1>14 DEF ClaimFail
<1>15. ASSUME NEW s \in Servers, Restart(s) PROVE GoneRowInv'
  BY <1>15 DEF Restart
<1>16. ASSUME NEW s \in Servers, Recover(s) PROVE GoneRowInv'
  <2>. DEFINE h == Head(todo[s])
  <2>1. h \in Ids /\ Queued(todo[s], h)
    BY <1>16, QueuedTail DEF Recover
  <2>2. at' = [at EXCEPT ![s][h] = "queued"] /\ UNCHANGED <<rows, accepted, refused, cancelling>>
    BY <1>16 DEF Recover, Goto
  <2>. HIDE DEF h
  <2>. QED
    BY <2>1, <2>2
<1>17. ASSUME NEW s \in Servers, RecoverDrop(s) PROVE GoneRowInv'
  <2>1. rows' = rows \ {Head(todo[s])} /\ UNCHANGED <<at, accepted, refused, cancelling>>
    BY <1>17 DEF RecoverDrop
  <2>2. \A i \in Ids : at[s][i] # "put"
    BY <1>17 DEF RecoverDrop, QuietInv, QuietAt
  <2>. QED
    BY <2>1, <2>2
<1>18. ASSUME NEW s \in Servers, Create(s) PROVE GoneRowInv'
  <2>1. created + 1 \in Ids /\ created + 1 \notin rows /\ created + 1 \notin accepted
    BY <1>18, ExecutionsAssumption DEF Create, Ids, FreshInv
  <2>2. cancelling[s][created + 1] = "no"
    BY <2>1 DEF SeenInv, FreshInv
  <2>. QED
    BY <1>18, <2>1, <2>2 DEF Create, Goto
<1>19. ASSUME NEW s \in Servers, NEW i \in Ids, CancelQueued(s, i) PROVE GoneRowInv'
  BY <1>19 DEF CancelQueued, MayName, Serving
<1>20. ASSUME NEW s \in Servers, NEW i \in Ids, CancelRunning(s, i) PROVE GoneRowInv'
  BY <1>20 DEF CancelRunning
<1>21. CASE UNCHANGED vars
  BY <1>21 DEF vars
<1>. QED
  BY <1>1, <1>2, <1>3, <1>4, <1>5, <1>6, <1>7, <1>8, <1>9, <1>10, <1>11,
     <1>12, <1>13, <1>14, <1>15, <1>16, <1>17, <1>18, <1>19, <1>20, <1>21
     DEF Next, Work, Trouble, Recovery, Ask

LEMMA NextKeepRow ==
  ASSUME Alone, SafeInv, OwnInv, GoneRowInv, KeepRowInv, [Next]_vars
  PROVE  KeepRowInv'
<1>. USE DEF SafeInv, TypeOK, OwnInv, OwnAt, Owns, Alone, GoneRowInv, KeepRowInv, QuietInv, QuietAt, dbVars, stateVars, threadVars, history
<1>0. /\ \A i \in Ids : i \in rows => cycle[i] \in Cycles
      /\ \A t \in Servers, i \in Ids : at[t][i] # "none" => cycle[i] \in Cycles
      /\ NoId \notin Ids
  BY NoIdIsNone DEF FreshInv, Ids
<1>1. ASSUME NEW s \in Servers, Pick(s) PROVE KeepRowInv'
  <2>1. PICK i \in Ids : Queued(fifo[s], i) /\ (Taken(s, i) \/ Skipped(s, i))
    BY <1>1, PickTakes
  <2>2. CASE Taken(s, i)
    BY <2>1, <2>2 DEF Taken
  <2>3. CASE Skipped(s, i)
    BY <2>1, <2>3 DEF Skipped
  <2>. QED
    BY <2>1, <2>2, <2>3
<1>2. ASSUME NEW s \in Servers, NEW i \in Ids, AddRow(s, i) PROVE KeepRowInv'
  <2>1. /\ rows' = rows \union {i} /\ UNCHANGED <<todo, active, cycle, up>>
        /\ at[s][i] = "add"
    BY <1>2 DEF AddRow
  <2>2. Owns(s, i) /\ s \in up
    BY <2>1
  <2>3. \A j \in Ids : ~Queued(todo[s], j)
    BY <2>1, QueuedEmpty
  <2>4. \A j \in rows : cycle[j] = cycle[i] => j = i
    <3>. SUFFICES ASSUME NEW j \in rows, cycle[j] = cycle[i] PROVE j = i
      OBVIOUS
    <3>1. Queued(todo[s], j) \/ Owns(s, j)
      BY <2>2
    <3>. QED
      BY <2>2, <2>3, <3>1
  <2>5. \A j, k \in rows' : cycle'[j] = cycle'[k] => j = k
    BY <2>1, <2>4
  <2>6. \A t \in up', j \in rows' : (Queued(todo[t], j) \/ Owns(t, j))'
    BY <2>1, <2>2
  <2>. QED
    BY <2>1, <2>5, <2>6
<1>3. ASSUME NEW s \in Servers, NEW i \in Ids, Put(s, i) PROVE KeepRowInv'
  BY <1>0, <1>3 DEF Put, Goto
<1>4. ASSUME NEW s \in Servers, NEW i \in Ids, Claim(s, i) PROVE KeepRowInv'
  BY <1>0, <1>4 DEF Claim, Goto, Mine
<1>5. ASSUME NEW s \in Servers, NEW i \in Ids, ClaimLost(s, i) PROVE KeepRowInv'
  BY <1>0, <1>5 DEF ClaimLost, Freed, Goto, Mine
<1>6. ASSUME NEW s \in Servers, NEW i \in Ids, RunEnd(s, i) PROVE KeepRowInv'
  BY <1>0, <1>6 DEF RunEnd, Goto
<1>7. ASSUME NEW s \in Servers, NEW i \in Ids, FinishFree(s, i) PROVE KeepRowInv'
  BY <1>0, <1>7 DEF FinishFree, Free, Freed, Goto
<1>8. ASSUME NEW s \in Servers, NEW i \in Ids, FinishMark(s, i) PROVE KeepRowInv'
  BY <1>0, <1>8 DEF FinishMark, MarkDone, Goto
<1>9. ASSUME NEW s \in Servers, NEW i \in Ids, CancelClaim(s, i) PROVE KeepRowInv'
  <2>1. /\ rows' = rows \ {i} /\ UNCHANGED <<todo, active, cycle, up>>
        /\ cancelling[s][i] # "no"
    BY <1>9 DEF CancelClaim
  <2>2. \A t \in Servers : ~Queued(todo[t], i)
    BY <2>1, QueuedEmpty
  <2>. QED
    BY <2>1, <2>2
<1>10. ASSUME NEW s \in Servers, NEW i \in Ids, CancelFree(s, i) PROVE KeepRowInv'
  BY <1>0, <1>10 DEF CancelFree, Free, Freed
<1>11. ASSUME NEW s \in Servers, NEW i \in Ids, CancelMark(s, i) PROVE KeepRowInv'
  BY <1>0, <1>11 DEF CancelMark, MarkDone
<1>12. ASSUME NEW s \in Servers, Crash(s) PROVE KeepRowInv'
  <2>1. \A i \in Ids : ~Queued(todo'[s], i)
    BY <1>12, QueuedEmpty DEF Crash
  <2>. QED
    BY <1>0, <1>12, <2>1 DEF Crash
<1>13. ASSUME NEW s \in Servers, NEW i \in Ids, AddFail(s, i) PROVE KeepRowInv'
  BY <1>0, <1>13 DEF AddFail
<1>14. ASSUME NEW s \in Servers, NEW i \in Ids, ClaimFail(s, i) PROVE KeepRowInv'
  BY <1>0, <1>14 DEF ClaimFail
<1>15. ASSUME NEW s \in Servers, Restart(s) PROVE KeepRowInv'
  <2>1. PICK q \in [1 .. Cardinality(rows) -> rows] :
          Oldest(q, rows) /\ todo' = [todo EXCEPT ![s] = q]
    BY <1>15 DEF Restart
  <2>2. \A i \in Ids : Queued(q, i) <=> i \in rows
    BY <2>1, RestoredQueue, RestoresAll
  <2>. QED
    BY <1>0, <1>15, <2>1, <2>2 DEF Restart
<1>16. ASSUME NEW s \in Servers, Recover(s) PROVE KeepRowInv'
  <2>. DEFINE h == Head(todo[s])
  <2>1. /\ h \in Ids /\ Queued(todo[s], h)
        /\ \A j : Queued(Tail(todo[s]), j) => Queued(todo[s], j)
        /\ \A j : Queued(todo[s], j) => j = h \/ Queued(Tail(todo[s]), j)
    BY <1>16, QueuedTail, QueuedHead DEF Recover
  <2>2. ~Queued(Tail(todo[s]), h)
    BY <1>16, SortedTail DEF Recover
  <2>3. /\ active' = [active EXCEPT ![s][cycle[h]] = h] /\ active[s][cycle[h]] = NoId
        /\ todo' = [todo EXCEPT ![s] = Tail(todo[s])]
        /\ UNCHANGED <<rows, cycle, up>>
    BY <1>16 DEF Recover, Registered
  <2>. HIDE DEF h
  <2>4. h \in rows /\ cycle[h] \in Cycles /\ s \in up
    BY <1>0, <2>1, QueuedEmpty
  <2>5. \A j \in rows : j # h => cycle[j] # cycle[h]
    BY <2>4
  <2>6. \A t \in up', j \in rows' : (Queued(todo[t], j) \/ Owns(t, j))'
    <3>. SUFFICES ASSUME NEW j \in rows PROVE (Queued(todo[s], j) \/ Owns(s, j))'
      BY <2>3
    <3>1. CASE j = h
      BY <2>3, <2>4, <3>1
    <3>2. CASE j # h
      <4>1. active'[s][cycle[j]] = active[s][cycle[j]]
        BY <1>0, <2>3, <2>5, <3>2
      <4>2. Queued(todo[s], j) \/ Owns(s, j)
        BY <2>4
      <4>. QED
        BY <2>1, <2>3, <3>2, <4>1, <4>2
    <3>. QED
      BY <3>1, <3>2
  <2>7. \A t \in Servers, j \in Ids :
          Queued(todo'[t], j) => j \in rows' /\ active'[t][cycle'[j]] = NoId
    <3>. SUFFICES ASSUME NEW j \in Ids, Queued(Tail(todo[s]), j)
                  PROVE  j \in rows /\ active'[s][cycle[j]] = NoId
      BY <2>3
    <3>1. j \in rows /\ j # h /\ active[s][cycle[j]] = NoId
      BY <2>1, <2>2
    <3>. QED
      BY <1>0, <2>3, <2>5, <3>1
  <2>8. \A t \in Servers \ up', c \in Cycles : active'[t][c] = NoId
    BY <2>3, <2>4
  <2>. QED
    BY <2>3, <2>6, <2>7, <2>8
<1>17. ASSUME NEW s \in Servers, RecoverDrop(s) PROVE KeepRowInv'
  <2>1. Head(todo[s]) \in Ids /\ Queued(todo[s], Head(todo[s]))
    BY <1>17, QueuedTail DEF RecoverDrop
  <2>. QED
    BY <1>17, <2>1 DEF RecoverDrop
<1>18. ASSUME NEW s \in Servers, Create(s) PROVE KeepRowInv'
  <2>1. created + 1 \in Ids /\ created + 1 \notin rows
    BY <1>18, ExecutionsAssumption DEF Create, Ids, FreshInv
  <2>2. \A i \in Ids : ~Queued(todo[s], i)
    BY <1>18, QueuedEmpty DEF Create, Serving
  <2>3. PICK c \in Cycles : Registered(s, created + 1, c) /\ cycle' = [cycle EXCEPT ![created + 1] = c]
    BY <1>18 DEF Create
  <2>4. /\ s \in up /\ active[s][c] = NoId /\ active' = [active EXCEPT ![s][c] = created + 1]
        /\ UNCHANGED <<todo, rows, up>>
    BY <1>18, <2>3 DEF Create, Registered, Serving
  <2>5. \A j \in rows : cycle'[j] = cycle[j]
    BY <2>1, <2>3
  <2>6. \A t \in up', j \in rows' : (Queued(todo[t], j) \/ Owns(t, j))'
    <3>. SUFFICES ASSUME NEW j \in rows PROVE Owns(s, j)'
      BY <2>4
    <3>1. Owns(s, j) /\ cycle[j] \in Cycles /\ j \in Ids
      BY <1>0, <2>2, <2>4
    <3>2. cycle[j] # c
      BY <1>0, <2>4, <3>1
    <3>. QED
      BY <2>4, <2>5, <3>1, <3>2
  <2>. QED
    BY <2>2, <2>4, <2>5, <2>6
<1>19. ASSUME NEW s \in Servers, NEW i \in Ids, CancelQueued(s, i) PROVE KeepRowInv'
  BY <1>0, <1>19 DEF CancelQueued, MayName, Serving
<1>20. ASSUME NEW s \in Servers, NEW i \in Ids, CancelRunning(s, i) PROVE KeepRowInv'
  BY <1>0, <1>20 DEF CancelRunning
<1>21. CASE UNCHANGED vars
  BY <1>21 DEF vars
<1>. QED
  BY <1>1, <1>2, <1>3, <1>4, <1>5, <1>6, <1>7, <1>8, <1>9, <1>10, <1>11,
     <1>12, <1>13, <1>14, <1>15, <1>16, <1>17, <1>18, <1>19, <1>20, <1>21
     DEF Next, Work, Trouble, Recovery, Ask

LEMMA NextLost ==
  ASSUME Alone, SafeInv, OwnInv, GoneRowInv, KeepRowInv, NothingLost, [Next]_vars
  PROVE  NothingLost'
<1>. USE DEF SafeInv, TypeOK, OwnInv, OwnAt, Owns, Alone, GoneRowInv, KeepRowInv, NothingLost, dbVars, stateVars, threadVars, history
<1>1. ASSUME NEW s \in Servers, Pick(s) PROVE NothingLost'
  <2>1. PICK i \in Ids : Queued(fifo[s], i) /\ (Taken(s, i) \/ Skipped(s, i))
    BY <1>1, PickTakes
  <2>2. CASE Taken(s, i)
    BY <2>1, <2>2 DEF Taken
  <2>3. CASE Skipped(s, i)
    BY <2>1, <2>3 DEF Skipped
  <2>. QED
    BY <2>1, <2>2, <2>3
<1>2. ASSUME NEW s \in Servers, NEW i \in Ids, AddRow(s, i) PROVE NothingLost'
  BY <1>2 DEF AddRow, Goto
<1>3. ASSUME NEW s \in Servers, NEW i \in Ids, Put(s, i) PROVE NothingLost'
  BY <1>3 DEF Put, Goto
<1>4. ASSUME NEW s \in Servers, NEW i \in Ids, Claim(s, i) PROVE NothingLost'
  BY <1>4 DEF Claim, Goto, Mine
<1>5. ASSUME NEW s \in Servers, NEW i \in Ids, ClaimLost(s, i) PROVE NothingLost'
  BY <1>5 DEF ClaimLost, Freed, Goto, Mine
<1>6. ASSUME NEW s \in Servers, NEW i \in Ids, RunEnd(s, i) PROVE NothingLost'
  BY <1>6 DEF RunEnd, Goto
<1>7. ASSUME NEW s \in Servers, NEW i \in Ids, FinishFree(s, i) PROVE NothingLost'
  BY <1>7 DEF FinishFree, Free, Freed, Goto
<1>8. ASSUME NEW s \in Servers, NEW i \in Ids, FinishMark(s, i) PROVE NothingLost'
  BY <1>8 DEF FinishMark, MarkDone, Goto
<1>9. ASSUME NEW s \in Servers, NEW i \in Ids, CancelClaim(s, i) PROVE NothingLost'
  BY <1>9 DEF CancelClaim
<1>10. ASSUME NEW s \in Servers, NEW i \in Ids, CancelFree(s, i) PROVE NothingLost'
  BY <1>10 DEF CancelFree, Free, Freed
<1>11. ASSUME NEW s \in Servers, NEW i \in Ids, CancelMark(s, i) PROVE NothingLost'
  BY <1>11 DEF CancelMark, MarkDone
<1>12. ASSUME NEW s \in Servers, Crash(s) PROVE NothingLost'
  BY <1>12 DEF Crash, Wiped
<1>13. ASSUME NEW s \in Servers, NEW i \in Ids, AddFail(s, i) PROVE NothingLost'
  BY <1>13 DEF AddFail
<1>14. ASSUME NEW s \in Servers, NEW i \in Ids, ClaimFail(s, i) PROVE NothingLost'
  BY <1>14 DEF ClaimFail
<1>15. ASSUME NEW s \in Servers, Restart(s) PROVE NothingLost'
  BY <1>15 DEF Restart
<1>16. ASSUME NEW s \in Servers, Recover(s) PROVE NothingLost'
  BY <1>16 DEF Recover, Registered, Goto
<1>17. ASSUME NEW s \in Servers, RecoverDrop(s) PROVE NothingLost'
  <2>1. Head(todo[s]) \in Ids /\ Queued(todo[s], Head(todo[s]))
    BY <1>17, QueuedTail DEF RecoverDrop
  <2>. QED
    BY <1>17, <2>1 DEF RecoverDrop
<1>18. ASSUME NEW s \in Servers, Create(s) PROVE NothingLost'
  BY <1>18 DEF Create, Registered, Goto, Serving
<1>19. ASSUME NEW s \in Servers, NEW i \in Ids, CancelQueued(s, i) PROVE NothingLost'
  BY <1>19 DEF CancelQueued, MayName, Serving
<1>20. ASSUME NEW s \in Servers, NEW i \in Ids, CancelRunning(s, i) PROVE NothingLost'
  BY <1>20 DEF CancelRunning
<1>21. CASE UNCHANGED vars
  BY <1>21 DEF vars
<1>. QED
  BY <1>1, <1>2, <1>3, <1>4, <1>5, <1>6, <1>7, <1>8, <1>9, <1>10, <1>11,
     <1>12, <1>13, <1>14, <1>15, <1>16, <1>17, <1>18, <1>19, <1>20, <1>21
     DEF Next, Work, Trouble, Recovery, Ask

\* One more is over: the list is as long as allowed, and who falls off it is forgotten.
LEMMA KeptFacts ==
  ASSUME NEW q \in Seq(Ids), Len(q) <= MaxFinished, NEW i \in Ids, NEW r, r = Append(q, i)
  PROVE  /\ Len(Kept(r)) <= MaxFinished
         /\ \A j : Queued(r, j) => Queued(Kept(r), j) \/ (Kept(r) # r /\ j = Head(r))
         /\ \A j : Queued(q, j) \/ j = i => Queued(r, j)
<1>1. /\ r \in Seq(Ids) /\ r # <<>> /\ Len(r) = Len(q) + 1 /\ Len(Tail(r)) = Len(q)
      /\ Len(q) \in Nat
  OBVIOUS
<1>2. \A j : Queued(q, j) \/ j = i => Queued(r, j)
  BY QueuedAppend
<1>3. CASE Len(r) > MaxFinished
  <2>1. Kept(r) = Tail(r) /\ Tail(r) # r
    BY <1>1, <1>3 DEF Kept
  <2>. QED
    BY <1>1, <1>2, <2>1, QueuedHead
<1>4. CASE Len(r) <= MaxFinished
  <2>1. Kept(r) = r
    BY <1>1, <1>4, ExecutionsAssumption DEF Kept
  <2>. QED
    BY <1>2, <1>4, <2>1
<1>. QED
  BY <1>1, <1>3, <1>4, ExecutionsAssumption

\* What is freed keeps the list complete.
LEMMA FreeBounds ==
  ASSUME TypeOK, BoundInv, NEW s \in Servers, NEW i \in Ids, Free(s, i)
  PROVE  /\ \A t \in Servers : Len(finished'[t]) <= MaxFinished
         /\ \A t \in Servers \ {s} : finished'[t] = finished[t] /\ known'[t] = known[t]
         /\ known'[s] \subseteq known[s]
         /\ \A j \in known'[s] : GoneAt(s, j) \/ j = i => Queued(finished'[s], j)
<1>. DEFINE r == Append(finished[s], i)
<1>1. finished[s] \in Seq(Ids) /\ Len(finished[s]) <= MaxFinished
  BY DEF TypeOK, BoundInv
<1>2. /\ finished' = [finished EXCEPT ![s] = Kept(r)]
      /\ known' = [known EXCEPT ![s] = IF Kept(r) = r THEN known[s] ELSE known[s] \ {Head(r)}]
  BY DEF Free
<1>3. /\ Len(Kept(r)) <= MaxFinished
      /\ \A j : Queued(r, j) => Queued(Kept(r), j) \/ (Kept(r) # r /\ j = Head(r))
      /\ \A j : Queued(finished[s], j) \/ j = i => Queued(r, j)
  BY <1>1, KeptFacts
<1>. HIDE DEF r
<1>. QED
  BY <1>2, <1>3 DEF TypeOK, BoundInv

LEMMA NextBound ==
  ASSUME SafeInv, BoundInv, [Next]_vars
  PROVE  BoundInv'
<1>. USE DEF SafeInv, TypeOK, BoundInv, GoneAt, FreshInv, dbVars, stateVars, threadVars, history
<1>1. ASSUME NEW s \in Servers, Pick(s) PROVE BoundInv'
  <2>1. PICK i \in Ids : Queued(fifo[s], i) /\ (Taken(s, i) \/ Skipped(s, i))
    BY <1>1, PickTakes
  <2>2. CASE Taken(s, i)
    BY <2>1, <2>2 DEF Taken
  <2>3. CASE Skipped(s, i)
    BY <2>1, <2>3 DEF Skipped
  <2>. QED
    BY <2>1, <2>2, <2>3
<1>2. ASSUME NEW s \in Servers, NEW i \in Ids, AddRow(s, i) PROVE BoundInv'
  BY <1>2 DEF AddRow, Goto
<1>3. ASSUME NEW s \in Servers, NEW i \in Ids, Put(s, i) PROVE BoundInv'
  BY <1>3 DEF Put, Goto
<1>4. ASSUME NEW s \in Servers, NEW i \in Ids, Claim(s, i) PROVE BoundInv'
  BY <1>4 DEF Claim, Goto, Mine
<1>5. ASSUME NEW s \in Servers, NEW i \in Ids, ClaimLost(s, i) PROVE BoundInv'
  BY <1>5 DEF ClaimLost, Freed, Goto, Mine
<1>6. ASSUME NEW s \in Servers, NEW i \in Ids, RunEnd(s, i) PROVE BoundInv'
  BY <1>6 DEF RunEnd, Goto
<1>7. ASSUME NEW s \in Servers, NEW i \in Ids, FinishFree(s, i) PROVE BoundInv'
  <2>1. /\ \A t \in Servers : Len(finished'[t]) <= MaxFinished
        /\ \A t \in Servers \ {s} : finished'[t] = finished[t] /\ known'[t] = known[t]
        /\ known'[s] \subseteq known[s]
        /\ \A j \in known'[s] : GoneAt(s, j) \/ j = i => Queued(finished'[s], j)
    BY <1>7, FreeBounds DEF FinishFree
  <2>. QED
    BY <1>7, <2>1 DEF FinishFree, Goto
<1>8. ASSUME NEW s \in Servers, NEW i \in Ids, FinishMark(s, i) PROVE BoundInv'
  BY <1>8 DEF FinishMark, MarkDone, Goto
<1>9. ASSUME NEW s \in Servers, NEW i \in Ids, CancelClaim(s, i) PROVE BoundInv'
  BY <1>9 DEF CancelClaim
<1>10. ASSUME NEW s \in Servers, NEW i \in Ids, CancelFree(s, i) PROVE BoundInv'
  <2>1. /\ \A t \in Servers : Len(finished'[t]) <= MaxFinished
        /\ \A t \in Servers \ {s} : finished'[t] = finished[t] /\ known'[t] = known[t]
        /\ known'[s] \subseteq known[s]
        /\ \A j \in known'[s] : GoneAt(s, j) \/ j = i => Queued(finished'[s], j)
    BY <1>10, FreeBounds DEF CancelFree
  <2>. QED
    BY <1>10, <2>1 DEF CancelFree
<1>11. ASSUME NEW s \in Servers, NEW i \in Ids, CancelMark(s, i) PROVE BoundInv'
  BY <1>11 DEF CancelMark, MarkDone
<1>12. ASSUME NEW s \in Servers, Crash(s) PROVE BoundInv'
  <2>1. Len(<<>>) = 0
    OBVIOUS
  <2>. QED
    BY <1>12, <2>1, ExecutionsAssumption DEF Crash, Wiped
<1>13. ASSUME NEW s \in Servers, NEW i \in Ids, AddFail(s, i) PROVE BoundInv'
  BY <1>13 DEF AddFail, Goto
<1>14. ASSUME NEW s \in Servers, NEW i \in Ids, ClaimFail(s, i) PROVE BoundInv'
  BY <1>14 DEF ClaimFail, Goto
<1>15. ASSUME NEW s \in Servers, Restart(s) PROVE BoundInv'
  BY <1>15 DEF Restart
<1>16. ASSUME NEW s \in Servers, Recover(s) PROVE BoundInv'
  <2>. DEFINE h == Head(todo[s])
  <2>1. h \in Ids /\ Queued(todo[s], h)
    BY <1>16, QueuedTail DEF Recover
  <2>2. at[s][h] = "none"
    BY <2>1 DEF QuietInv, QuietAt
  <2>3. ~GoneAt(s, h)
    BY <2>1, <2>2 DEF SeenInv
  <2>4. /\ at' = [at EXCEPT ![s][h] = "queued"] /\ known' = [known EXCEPT ![s] = known[s] \union {h}]
        /\ UNCHANGED <<done, cancelling, finished>>
    BY <1>16 DEF Recover, Registered, Goto
  <2>. HIDE DEF h
  <2>. QED
    BY <2>1, <2>3, <2>4
<1>17. ASSUME NEW s \in Servers, RecoverDrop(s) PROVE BoundInv'
  BY <1>17 DEF RecoverDrop
<1>18. ASSUME NEW s \in Servers, Create(s) PROVE BoundInv'
  <2>1. created + 1 \in Ids /\ at[s][created + 1] = "none"
    BY <1>18, ExecutionsAssumption DEF Create, Ids
  <2>2. ~GoneAt(s, created + 1)
    BY <2>1 DEF SeenInv
  <2>3. /\ at' = [at EXCEPT ![s][created + 1] = "add"]
        /\ known' = [known EXCEPT ![s] = known[s] \union {created + 1}]
        /\ UNCHANGED <<done, cancelling, finished>>
    BY <1>18 DEF Create, Registered, Goto
  <2>. QED
    BY <2>1, <2>2, <2>3
<1>19. ASSUME NEW s \in Servers, NEW i \in Ids, CancelQueued(s, i) PROVE BoundInv'
  BY <1>19 DEF CancelQueued, MayName, Serving
<1>20. ASSUME NEW s \in Servers, NEW i \in Ids, CancelRunning(s, i) PROVE BoundInv'
  BY <1>20 DEF CancelRunning
<1>21. CASE UNCHANGED vars
  BY <1>21 DEF vars
<1>. QED
  BY <1>1, <1>2, <1>3, <1>4, <1>5, <1>6, <1>7, <1>8, <1>9, <1>10, <1>11,
     <1>12, <1>13, <1>14, <1>15, <1>16, <1>17, <1>18, <1>19, <1>20, <1>21
     DEF Next, Work, Trouble, Recovery, Ask

-----------------------------------------------------------------------------
(* Theorems.                                                               *)

\* An execution that is kept in memory alone is one server's.
LEMMA NextMemory ==
  ASSUME SafeInv, MemoryInv, [Next]_vars
  PROVE  MemoryInv'
<1>. SUFFICES ASSUME ~Durable PROVE MemoryInv'
  BY DEF MemoryInv
<1>. USE DEF SafeInv, TypeOK, MemoryInv, FreshInv, dbVars, stateVars, threadVars, history
<1>1. ASSUME NEW s \in Servers, Pick(s) PROVE MemoryInv'
  <2>1. PICK i \in Ids : Queued(fifo[s], i) /\ (Taken(s, i) \/ Skipped(s, i))
    BY <1>1, PickTakes
  <2>2. CASE Taken(s, i)
    BY <2>1, <2>2 DEF Taken, SeenInv
  <2>3. CASE Skipped(s, i)
    BY <2>1, <2>3 DEF Skipped, SeenInv
  <2>. QED
    BY <2>1, <2>2, <2>3
<1>2. ASSUME NEW s \in Servers, NEW i \in Ids, AddRow(s, i) PROVE MemoryInv'
  BY <1>2 DEF AddRow, Goto
<1>3. ASSUME NEW s \in Servers, NEW i \in Ids, Put(s, i) PROVE MemoryInv'
  BY <1>3 DEF Put, Goto
<1>4. ASSUME NEW s \in Servers, NEW i \in Ids, Claim(s, i) PROVE MemoryInv'
  BY <1>4 DEF Claim, Goto, Mine
<1>5. ASSUME NEW s \in Servers, NEW i \in Ids, ClaimLost(s, i) PROVE MemoryInv'
  BY <1>5 DEF ClaimLost, Freed, Goto, Mine
<1>6. ASSUME NEW s \in Servers, NEW i \in Ids, RunEnd(s, i) PROVE MemoryInv'
  <2>1. \E o \in Statuses \ {"queued"} : outcome' = [outcome EXCEPT ![s][i] = o]
    BY <1>6 DEF RunEnd, Statuses
  <2>2. at' = [at EXCEPT ![s][i] = "free"] /\ at[s][i] = "run" /\ UNCHANGED <<todo, status>>
    BY <1>6 DEF RunEnd, Goto
  <2>. QED
    BY <2>1, <2>2
<1>7. ASSUME NEW s \in Servers, NEW i \in Ids, FinishFree(s, i) PROVE MemoryInv'
  BY <1>7 DEF FinishFree, Free, Freed, Goto
<1>8. ASSUME NEW s \in Servers, NEW i \in Ids, FinishMark(s, i) PROVE MemoryInv'
  BY <1>8 DEF FinishMark, MarkDone, Goto
<1>9. ASSUME NEW s \in Servers, NEW i \in Ids, CancelClaim(s, i) PROVE MemoryInv'
  BY <1>9 DEF CancelClaim
<1>10. ASSUME NEW s \in Servers, NEW i \in Ids, CancelFree(s, i) PROVE MemoryInv'
  BY <1>10 DEF CancelFree, Free, Freed
<1>11. ASSUME NEW s \in Servers, NEW i \in Ids, CancelMark(s, i) PROVE MemoryInv'
  BY <1>11 DEF CancelMark, MarkDone
<1>12. ASSUME NEW s \in Servers, Crash(s) PROVE MemoryInv'
  BY <1>12 DEF Crash, Wiped
<1>13. ASSUME NEW s \in Servers, NEW i \in Ids, AddFail(s, i) PROVE MemoryInv'
  BY <1>13 DEF AddFail, Goto
<1>14. ASSUME NEW s \in Servers, NEW i \in Ids, ClaimFail(s, i) PROVE MemoryInv'
  BY <1>14 DEF ClaimFail, Goto
<1>15. ASSUME NEW s \in Servers, Restart(s) PROVE MemoryInv'
  BY <1>15 DEF Restart
<1>16. ASSUME NEW s \in Servers, Recover(s) PROVE MemoryInv'
  <2>. DEFINE h == Head(todo[s])
  <2>1. h \in Ids /\ Queued(todo[s], h) /\ Durable
    BY <1>16, QueuedTail DEF Recover
  <2>2. at' = [at EXCEPT ![s][h] = "queued"] /\ UNCHANGED <<rows, created, accepted, told, cancelling>>
    BY <1>16 DEF Recover, Goto
  <2>. HIDE DEF h
  <2>. QED
    BY <2>1, <2>2
<1>17. ASSUME NEW s \in Servers, RecoverDrop(s) PROVE MemoryInv'
  BY <1>17 DEF RecoverDrop
<1>18. ASSUME NEW s \in Servers, Create(s) PROVE MemoryInv'
  <2>1. created + 1 \in Ids /\ created + 1 \notin rows /\ created \in Nat
    BY <1>18, ExecutionsAssumption DEF Create, Ids, FreshInv
  <2>2. \A t \in Servers : cancelling[t][created + 1] = "no" /\ at[t][created + 1] = "none"
    BY <2>1 DEF SeenInv, FreshInv
  <2>. QED
    BY <1>18, <2>1, <2>2 DEF Create, Registered, Goto
<1>19. ASSUME NEW s \in Servers, NEW i \in Ids, CancelQueued(s, i) PROVE MemoryInv'
  BY <1>19 DEF CancelQueued, MayName, Serving
<1>20. ASSUME NEW s \in Servers, NEW i \in Ids, CancelRunning(s, i) PROVE MemoryInv'
  BY <1>20 DEF CancelRunning
<1>21. CASE UNCHANGED vars
  BY <1>21 DEF vars
<1>. QED
  BY <1>1, <1>2, <1>3, <1>4, <1>5, <1>6, <1>7, <1>8, <1>9, <1>10, <1>11,
     <1>12, <1>13, <1>14, <1>15, <1>16, <1>17, <1>18, <1>19, <1>20, <1>21
     DEF Next, Work, Trouble, Recovery, Ask

\* A row that is gone stays gone, and without rows a stopped execution is not taken.
LEMMA NextWithdrawn ==
  ASSUME RowsGoFirst, SafeInv, MemoryInv, WithdrawnInv, [Next]_vars
  PROVE  WithdrawnInv'
<1>. USE DEF SafeInv, TypeOK, RowsGoFirst, RowInv, FreshInv, MemoryInv, WithdrawnInv, Withdrawn, dbVars, stateVars, threadVars, history
<1>1. ASSUME NEW s \in Servers, Pick(s) PROVE WithdrawnInv'
  <2>1. PICK i \in Ids : Queued(fifo[s], i) /\ (Taken(s, i) \/ Skipped(s, i))
    BY <1>1, PickTakes
  <2>2. CASE Taken(s, i)
    BY <2>1, <2>2 DEF Taken, SeenInv
  <2>3. CASE Skipped(s, i)
    BY <2>1, <2>3 DEF Skipped, SeenInv
  <2>. QED
    BY <2>1, <2>2, <2>3
<1>2. ASSUME NEW s \in Servers, NEW i \in Ids, AddRow(s, i) PROVE WithdrawnInv'
  BY <1>2 DEF AddRow, Goto
<1>3. ASSUME NEW s \in Servers, NEW i \in Ids, Put(s, i) PROVE WithdrawnInv'
  BY <1>3 DEF Put, Goto
<1>4. ASSUME NEW s \in Servers, NEW i \in Ids, Claim(s, i) PROVE WithdrawnInv'
  BY <1>4 DEF Claim, Goto, Mine
<1>5. ASSUME NEW s \in Servers, NEW i \in Ids, ClaimLost(s, i) PROVE WithdrawnInv'
  BY <1>5 DEF ClaimLost, Freed, Goto, Mine
<1>6. ASSUME NEW s \in Servers, NEW i \in Ids, RunEnd(s, i) PROVE WithdrawnInv'
  BY <1>6 DEF RunEnd, Goto
<1>7. ASSUME NEW s \in Servers, NEW i \in Ids, FinishFree(s, i) PROVE WithdrawnInv'
  BY <1>7 DEF FinishFree, Free, Freed, Goto
<1>8. ASSUME NEW s \in Servers, NEW i \in Ids, FinishMark(s, i) PROVE WithdrawnInv'
  BY <1>8 DEF FinishMark, MarkDone, Goto
<1>9. ASSUME NEW s \in Servers, NEW i \in Ids, CancelClaim(s, i) PROVE WithdrawnInv'
  BY <1>9 DEF CancelClaim
<1>10. ASSUME NEW s \in Servers, NEW i \in Ids, CancelFree(s, i) PROVE WithdrawnInv'
  BY <1>10, SMTT(30) DEF CancelFree, Free, Freed
<1>11. ASSUME NEW s \in Servers, NEW i \in Ids, CancelMark(s, i) PROVE WithdrawnInv'
  <2>1. /\ told' = told \union {i} /\ cancelling[s][i] = "mark"
        /\ status' = [status EXCEPT ![s][i] = "cancelled"]
        /\ cancelling' = [cancelling EXCEPT ![s][i] = "no"] /\ UNCHANGED <<at, rows, created, accepted>>
    BY <1>11 DEF CancelMark, MarkDone
  <2>2. i <= created /\ Withdrawn(i) /\ (Durable => i \in accepted)
    BY <2>1 DEF SeenInv
  <2>3. \A j \in Ids : Withdrawn(j) => Withdrawn(j)'
    BY <2>1
  <2>4. \A j \in told' : Withdrawn(j)' /\ j <= created' /\ (Durable => j \in accepted')
    BY <2>1, <2>2, <2>3
  <2>5. \A t \in Servers, j \in Ids : cancelling'[t][j] # "no" => cancelling'[t][j] = cancelling[t][j]
    BY <2>1
  <2>. QED
    BY <2>1, <2>3, <2>4, <2>5
<1>12. ASSUME NEW s \in Servers, Crash(s) PROVE WithdrawnInv'
  BY <1>12 DEF Crash, Wiped
<1>13. ASSUME NEW s \in Servers, NEW i \in Ids, AddFail(s, i) PROVE WithdrawnInv'
  BY <1>13 DEF AddFail, Goto
<1>14. ASSUME NEW s \in Servers, NEW i \in Ids, ClaimFail(s, i) PROVE WithdrawnInv'
  BY <1>14 DEF ClaimFail, Goto
<1>15. ASSUME NEW s \in Servers, Restart(s) PROVE WithdrawnInv'
  BY <1>15 DEF Restart
<1>16. ASSUME NEW s \in Servers, Recover(s) PROVE WithdrawnInv'
  <2>. DEFINE h == Head(todo[s])
  <2>1. h \in Ids /\ Queued(todo[s], h) /\ Durable
    BY <1>16, QueuedTail DEF Recover
  <2>2. at' = [at EXCEPT ![s][h] = "queued"] /\ UNCHANGED <<rows, created, accepted, told, cancelling>>
    BY <1>16 DEF Recover, Goto
  <2>. HIDE DEF h
  <2>. QED
    BY <2>1, <2>2
<1>17. ASSUME NEW s \in Servers, RecoverDrop(s) PROVE WithdrawnInv'
  BY <1>17 DEF RecoverDrop
<1>18. ASSUME NEW s \in Servers, Create(s) PROVE WithdrawnInv'
  <2>1. created + 1 \in Ids /\ created + 1 \notin rows /\ created \in Nat
    BY <1>18, ExecutionsAssumption DEF Create, Ids, FreshInv
  <2>2. \A t \in Servers : cancelling[t][created + 1] = "no" /\ at[t][created + 1] = "none"
    BY <2>1 DEF SeenInv, FreshInv
  <2>. QED
    BY <1>18, <2>1, <2>2 DEF Create, Registered, Goto
<1>19. ASSUME NEW s \in Servers, NEW i \in Ids, CancelQueued(s, i) PROVE WithdrawnInv'
  <2>1. /\ status[s][i] = "queued" /\ i \in known[s] /\ (i \in accepted \/ Peek)
        /\ status' = [status EXCEPT ![s][i] = "cancelled"]
        /\ cancelling' = [cancelling EXCEPT ![s][i] = "claim"]
        /\ UNCHANGED <<at, rows, created, accepted, told>>
    BY <1>19 DEF CancelQueued, MayName
  <2>2. \A j \in Ids : Withdrawn(j) => Withdrawn(j)'
    BY <2>1
  <2>3. ASSUME ~Durable PROVE Withdrawn(i)'
    <3>1. \A t \in Servers : t = s \/ at[t][i] = "none"
      BY <2>1, <2>3 DEF SeenInv
    <3>2. \A t \in Servers : at[t][i] # "claim"
      BY <2>1, <2>3, <3>1
    <3>3. \A t \in Servers : t = s \/ status[t][i] # "queued"
      BY <2>3, <3>1
    <3>. QED
      BY <2>1, <2>3, <3>2, <3>3
  <2>4. \A t \in Servers, j \in Ids : cancelling'[t][j] = cancelling[t][j] \/ (t = s /\ j = i)
    BY <2>1
  <2>5. cancelling'[s][i] = "claim" /\ (Durable => i \in accepted)
    BY <2>1
  <2>. QED
    BY <2>1, <2>2, <2>3, <2>4, <2>5, SMTT(30)
<1>20. ASSUME NEW s \in Servers, NEW i \in Ids, CancelRunning(s, i) PROVE WithdrawnInv'
  BY <1>20 DEF CancelRunning
<1>21. CASE UNCHANGED vars
  BY <1>21 DEF vars
<1>. QED
  BY <1>1, <1>2, <1>3, <1>4, <1>5, <1>6, <1>7, <1>8, <1>9, <1>10, <1>11,
     <1>12, <1>13, <1>14, <1>15, <1>16, <1>17, <1>18, <1>19, <1>20, <1>21
     DEF Next, Work, Trouble, Recovery, Ask

\* Only a claim starts a run, and only of an execution that is not withdrawn.
LEMMA StartsWaiting ==
  ASSUME SafeInv, WithdrawnInv, [Next]_vars, NEW i \in told
  PROVE  started'[i] = started[i]
<1>1. ASSUME NEW s \in Servers, NEW j \in Ids, Claim(s, j) PROVE started'[i] = started[i]
  <2>1. j # i
    BY <1>1 DEF SafeInv, TypeOK, WithdrawnInv, Withdrawn, Claim, Mine
  <2>. QED
    BY <1>1, <2>1 DEF SafeInv, TypeOK, Claim
<1>2. ASSUME NEW s \in Servers, Work(s), \A j \in Ids : ~Claim(s, j) PROVE UNCHANGED started
  BY <1>2 DEF Work, history, Pick, AddRow, Put, ClaimLost, RunEnd, FinishFree, FinishMark,
              CancelClaim, CancelFree, CancelMark
<1>3. ASSUME NEW s \in Servers, Trouble(s) \/ Recovery(s) \/ Ask(s) PROVE UNCHANGED started
  BY <1>3 DEF Trouble, Recovery, Ask, history, Crash, AddFail, ClaimFail, Restart, Recover, RecoverDrop,
              Create, CancelQueued, CancelRunning
<1>4. CASE UNCHANGED vars
  BY <1>4 DEF vars, history
<1>. QED
  BY <1>1, <1>2, <1>3, <1>4 DEF Next

LEMMA SafeHolds == Spec => []SafeInv
<1>1. Init => SafeInv
  <2>1. Init => FreshInv
    BY QueuedEmpty DEF Init, FreshInv, Ids
  <2>2. Init => SeenInv
    BY QueuedEmpty DEF Init, SeenInv
  <2>3. Init => QuietInv
    BY QueuedEmpty, SortedEmpty DEF Init, QuietInv, QuietAt
  <2>4. Init => RowInv
    BY DEF Init, RowInv
  <2>. QED
    BY InitType, <2>1, <2>2, <2>3, <2>4 DEF SafeInv
<1>2. SafeInv /\ [Next]_vars => SafeInv'
  BY NextType, NextFresh, NextSeen, NextQuiet, NextRow DEF SafeInv
<1>. QED
  BY <1>1, <1>2, PTL DEF Spec

\* What a server has in memory is well formed whatever fails and whenever it dies: its
\* registry, its FIFO and what it restores hold ids that somebody asked for.
THEOREM ExecutionTypes == Spec => []TypeOK
<1>1. SafeInv => TypeOK
  BY DEF SafeInv
<1>. QED
  BY <1>1, SafeHolds, PTL

\* A client that sees an execution done can start its cycle again at once, for any number
\* of servers, workers and executions, after any cancellation, failure or restart.
THEOREM DoneIsFree == Spec => []DoneFrees
<1>1. Init => GivenUp
  BY DEF Init, GivenUp, GoneAt
<1>2. SafeInv /\ GivenUp /\ [Next]_vars => GivenUp'
  BY NextGivenUp
<1>3. GivenUp => DoneFrees
  BY DEF GivenUp, GoneAt, DoneFrees, Owns
<1>. QED
  BY <1>1, <1>2, <1>3, SafeHolds, PTL DEF Spec

\* A server runs no cycle twice at once, when clients cancel only the executions they were
\* answered for or the run store does not fail. Without either the undo of a failed insert
\* may free the cycle of another execution (cycle_execution_manager.py:342).
THEOREM RunsOnePerCycle == UndoSafe /\ Spec => []OneRunPerCycle
<1>1. Init => OwnInv
  BY QueuedEmpty DEF Init, OwnInv, OwnAt, AtWork
<1>2. UndoSafe /\ SafeInv /\ OwnInv /\ [Next]_vars => OwnInv'
  BY NextOwn
<1>3. OwnInv => OneRunPerCycle
  BY DEF OwnInv, OwnAt, OneRunPerCycle, Owns
<1>. SUFFICES ASSUME UndoSafe PROVE Spec => []OneRunPerCycle
  OBVIOUS
<1>4. SafeInv /\ OwnInv /\ [Next]_vars => OwnInv'
  BY <1>2
<1>. QED
  BY <1>1, <1>3, <1>4, SafeHolds, PTL DEF Spec

\* No execution is started twice when runs are kept in the database: whichever servers
\* queue its row, and however often they die and recover, one claim finds it.
THEOREM NoneStartsTwice == Durable /\ Spec => []StartsOnce
<1>. SUFFICES ASSUME Durable PROVE Spec => []StartsOnce
  OBVIOUS
<1>1. Init => StartsOnce
  BY DEF Init, StartsOnce
<1>2. SafeInv /\ StartsOnce /\ [Next]_vars => StartsOnce'
  BY NextOnce
<1>. QED
  BY <1>1, <1>2, SafeHolds, PTL DEF Spec

\* With one server whose run store does not fail, and clients that cancel what they were
\* answered for, an accepted execution is on the queue in the database until it is started
\* or cancelled, however often the server dies (run_queue.py:8).
THEOREM AcceptedIsKept == Alone /\ Spec => []NothingLost
<1>. SUFFICES ASSUME Alone PROVE Spec => []NothingLost
  OBVIOUS
<1>. DEFINE LostInv == OwnInv /\ GoneRowInv /\ KeepRowInv /\ NothingLost
<1>1. Init => LostInv
  <2>. SUFFICES ASSUME Init PROVE LostInv
    OBVIOUS
  <2>1. OwnInv
    BY QueuedEmpty DEF Init, OwnInv, OwnAt, AtWork
  <2>2. GoneRowInv /\ KeepRowInv /\ NothingLost
    BY QueuedEmpty DEF Init, GoneRowInv, KeepRowInv, NothingLost
  <2>. QED
    BY <2>1, <2>2
<1>2. SafeInv /\ LostInv /\ [Next]_vars => LostInv'
  BY NextOwn, NextGoneRow, NextKeepRow, NextLost DEF Alone, UndoSafe
<1>3. LostInv => NothingLost
  OBVIOUS
<1>. QED
  BY <1>1, <1>2, <1>3, SafeHolds, PTL DEF Spec

\* A server remembers at most max_finished executions that are over, however they ended.
THEOREM RegistryIsBounded == Spec => []RegistryBounded
<1>1. Init => BoundInv
  BY ExecutionsAssumption DEF Init, BoundInv, GoneAt
<1>2. SafeInv /\ BoundInv /\ [Next]_vars => BoundInv'
  BY NextBound
<1>3. SafeInv /\ BoundInv => RegistryBounded
  <2>. SUFFICES ASSUME SafeInv, BoundInv, NEW s \in Servers
                PROVE  Cardinality({i \in known[s] : done[s][i]}) <= MaxFinished
    BY DEF RegistryBounded
  <2>. DEFINE Over == {i \in known[s] : done[s][i]}
              Listed == {i \in Ids : Queued(finished[s], i)}
  <2>1. Over \subseteq Listed
    BY DEF SafeInv, TypeOK, BoundInv, GoneAt
  <2>2. Len(finished[s]) \in Nat /\ finished[s] \in [1 .. Len(finished[s]) -> Ids]
    BY DEF SafeInv, TypeOK
  <2>3. finished[s] \in Surjection(1 .. Len(finished[s]), Listed)
    BY <2>2 DEF Surjection, Queued
  <2>4. IsFiniteSet(1 .. Len(finished[s])) /\ Cardinality(1 .. Len(finished[s])) = Len(finished[s])
    <3>1. ASSUME NEW n \in Nat PROVE IsFiniteSet(1 .. n) /\ Cardinality(1 .. n) = n
      BY FS_Interval
    <3>. QED
      BY <2>2, <3>1
  <2>5. IsFiniteSet(Listed) /\ Cardinality(Listed) <= Len(finished[s])
    BY <2>3, <2>4, FS_Surjection
  <2>6. Cardinality(Over) <= Cardinality(Listed) /\ Cardinality(Over) \in Nat
    BY <2>1, <2>5, FS_Subset, FS_CardinalityType
  <2>7. Cardinality(Listed) \in Nat
    BY <2>5, FS_CardinalityType
  <2>. HIDE DEF Over, Listed
  <2>8. Cardinality(Over) <= MaxFinished
    BY <2>2, <2>5, <2>6, <2>7, ExecutionsAssumption DEF BoundInv
  <2>. QED
    BY <2>8 DEF Over
<1>. QED
  BY <1>1, <1>2, <1>3, SafeHolds, PTL DEF Spec

\* A run that was cancelled while it waited never starts, on any server and after any
\* restart (routes/cycles.py:305): with rows, the cancel took its row, which nobody writes
\* again; in memory, it is passed over by whoever takes it from the FIFO.
THEOREM CancelledStays == RowsGoFirst /\ Spec => CancelledNeverStarts
<1>. SUFFICES ASSUME RowsGoFirst PROVE Spec => CancelledNeverStarts
  OBVIOUS
<1>. DEFINE CancelInv == MemoryInv /\ WithdrawnInv
<1>1. Init => CancelInv
  BY DEF Init, MemoryInv, WithdrawnInv
<1>2. SafeInv /\ CancelInv /\ [Next]_vars => CancelInv'
  BY NextMemory, NextWithdrawn
<1>3. SafeInv /\ CancelInv /\ [Next]_vars => [\A i \in told : started'[i] = started[i]]_vars
  BY StartsWaiting
<1>. QED
  BY <1>1, <1>2, <1>3, SafeHolds, PTL DEF Spec, CancelledNeverStarts
-----------------------------------------------------------------------------
(* The composition.                                                        *)

LockP == INSTANCE LockProofs WITH
  Runs <- LockRuns, Server <- 9, None <- 0, MaxCrashes <- 2, Quiet <- {1}, DbErrors <- TRUE,
  at <- lockAt, crashes <- lockCrashes

HistoryP == INSTANCE HistoryProofs WITH
  Ids <- Kept3, Cycle <- [i \in Kept3 |-> IF i = 2 THEN "b" ELSE "a"], Old <- {1, 2},
  Keep <- 1, Failures <- TRUE, MaxCrashes <- 1, at <- persistAt, crashes <- historyCrashes

RunnerP == INSTANCE RunnerProofs WITH
  MaxRuns <- 1, Endless <- {1}, Stubborn <- Stages, MaxCrashes <- 1,
  active <- names, crashes <- runnerCrashes

LEMMA SmallSets == IsFiniteSet({1, 2}) /\ IsFiniteSet({1, 2, 3})
<1>1. IsFiniteSet(1 .. 2) /\ IsFiniteSet(1 .. 3)
  <2>1. 1 \in Int /\ 2 \in Int /\ 3 \in Int
    OBVIOUS
  <2>2. IsFiniteSet(1 .. 2)
    BY <2>1, FS_Interval, Zenon
  <2>3. IsFiniteSet(1 .. 3)
    BY <2>1, FS_Interval, Zenon
  <2>. QED
    BY <2>2, <2>3
<1>2. 1 .. 2 = {1, 2} /\ 1 .. 3 = {1, 2, 3}
  OBVIOUS
<1>. QED
  BY <1>1, <1>2

-----------------------------------------------------------------------------
(* Executions.                                                             *)

LEMMA ExecutionsNextStep == [ServerNext]_all => [Next]_vars
<1>. SUFFICES ASSUME [ServerNext]_all
              PROVE  Next \/ UNCHANGED vars
  OBVIOUS
<1>1. CASE UNCHANGED all
  BY <1>1 DEF all
<1>2. CASE LockNext
  BY <1>2 DEF LockNext, In
<1>3. CASE HistoryNext
  BY <1>3 DEF HistoryNext, In
<1>4. CASE RunnerNext
  BY <1>4 DEF RunnerNext, In
<1>5. CASE ExecutionsNext
  <2>1. \E s \in Servers :
          \/ Pick(s) \/ Create(s) \/ Crash(s) \/ Restart(s) \/ Recover(s) \/ RecoverDrop(s)
          \/ \E i \in Ids : Steps(s, i) \/ Cancelling(s, i) \/ CancelQueued(s, i) \/ CancelRunning(s, i)
    BY <1>5 DEF ExecutionsNext, In
  <2>2. PICK s \in Servers :
          \/ Pick(s) \/ Create(s) \/ Crash(s) \/ Restart(s) \/ Recover(s) \/ RecoverDrop(s)
          \/ \E i \in Ids : Steps(s, i) \/ Cancelling(s, i) \/ CancelQueued(s, i) \/ CancelRunning(s, i)
    BY <2>1
  <2>3. Work(s) \/ Trouble(s) \/ Recovery(s) \/ Ask(s)
    BY <2>2 DEF Work, Trouble, Recovery, Ask, Steps, Cancelling
  <2>. QED
    BY <2>3 DEF Next
<1>. QED
  BY <1>1, <1>2, <1>3, <1>4, <1>5 DEF ServerNext

LEMMA ExecutionsSpec == ServerSpec => Spec
<1>1. ServerInit => Init
  BY DEF ServerInit
<1>. QED
  BY <1>1, ExecutionsNextStep, PTL DEF ServerSpec, Spec

-----------------------------------------------------------------------------
(* CycleLock.                                                              *)

LEMMA LockInit == ServerInit => LockP!Init
BY DEF ServerInit, Lock!Init, LockP!Init

\* The run's actions are those its proofs are about.
LEMMA LockStep ==
  ASSUME NEW r \in LockRuns,
         \/ Lock!Take(r) \/ Lock!RecordLeft(r) \/ Lock!Truncate(r) \/ Lock!Mark(r)
         \/ Lock!RunPlan(r) \/ Lock!Clear(r) \/ Lock!Unlock(r)
  PROVE  LockP!Next
<1>. USE DEF Lock!lockVars, Lock!historyVars, LockP!lockVars, LockP!historyVars, Lock!Goto, LockP!Goto
<1>1. LockP!Step(r)
  BY DEF LockP!Step, Lock!Take, LockP!Take, Lock!Acquire, LockP!Acquire,
         Lock!RecordLeft, LockP!RecordLeft, Lock!RecordAs, LockP!RecordAs,
         Lock!Truncate, LockP!Truncate, Lock!Mark, LockP!Mark, Lock!RunPlan, LockP!RunPlan,
         Lock!Clear, LockP!Clear, Lock!Unlock, LockP!Unlock
<1>. QED
  BY <1>1 DEF LockP!Next

LEMMA LockServerStep ==
  ASSUME \/ Lock!ServerStart \/ Lock!ServerTake \/ Lock!ServerRecord
         \/ \E p \in LockRuns \cup {9} : Lock!Crash(p)
  PROVE  LockP!Next
<1>. USE DEF Lock!lockVars, Lock!historyVars, LockP!lockVars, LockP!historyVars, Lock!Goto, LockP!Goto
<1>1. Lock!ServerStart => LockP!ServerStart
  BY DEF Lock!ServerStart, LockP!ServerStart, Lock!Acquire, LockP!Acquire
<1>2. Lock!ServerTake => LockP!ServerTake
  BY DEF Lock!ServerTake, LockP!ServerTake
<1>3. Lock!ServerRecord => LockP!ServerRecord
  BY DEF Lock!ServerRecord, LockP!ServerRecord, Lock!RecordAs, LockP!RecordAs
<1>4. ASSUME NEW p \in LockRuns \cup {9}, Lock!Crash(p)
      PROVE  LockP!Crash(p)
  BY <1>4 DEF Lock!Crash, LockP!Crash, Lock!Grave, LockP!Grave, Lock!FreedByOs, LockP!FreedByOs,
              Lock!DiesWith, LockP!DiesWith
<1>. QED
  BY <1>1, <1>2, <1>3, <1>4 DEF LockP!Next, LockP!ServerStep

LEMMA LockNextStep == [ServerNext]_all => [LockP!Next]_(LockP!vars)
<1>. SUFFICES ASSUME [ServerNext]_all
              PROVE  LockP!Next \/ UNCHANGED LockP!vars
  OBVIOUS
<1>1. ASSUME UNCHANGED lockPart
      PROVE  UNCHANGED LockP!vars
  BY <1>1 DEF lockPart, LockP!vars, LockP!lockVars, LockP!historyVars
<1>2. CASE UNCHANGED all
  BY <1>1, <1>2 DEF all
<1>3. CASE ExecutionsNext
  BY <1>1, <1>3 DEF ExecutionsNext, In
<1>4. CASE HistoryNext
  BY <1>1, <1>4 DEF HistoryNext, In
<1>5. CASE RunnerNext
  BY <1>1, <1>5 DEF RunnerNext, In
<1>6. CASE LockNext
  <2>1. \/ \E r \in LockRuns : \/ Lock!Take(r) \/ Lock!RecordLeft(r) \/ Lock!Truncate(r) \/ Lock!Mark(r)
                               \/ Lock!RunPlan(r) \/ Lock!Clear(r) \/ Lock!Unlock(r)
        \/ Lock!ServerStart \/ Lock!ServerTake \/ Lock!ServerRecord
        \/ \E p \in LockRuns \cup {9} : Lock!Crash(p)
    BY <1>6 DEF LockNext, In
  <2>. QED
    BY <2>1, LockStep, LockServerStep
<1>. QED
  BY <1>2, <1>3, <1>4, <1>5, <1>6 DEF ServerNext

LEMMA LockSpec == ServerSpec => LockP!Spec
BY LockInit, LockNextStep, PTL DEF ServerSpec, LockP!Spec

LEMMA LockDistinct == LockP!Distinct
<1>1. IsFiniteSet(LockRuns)
  BY SmallSets DEF LockRuns
<1>. QED
  BY <1>1 DEF LockP!Distinct, LockP!Processes, LockRuns, LockP!IsFiniteSet, IsFiniteSet

\* Nobody is taken for dead who is not, every run that died is noticed, and it is
\* recorded again only after a crash: in the composition too.
THEOREM LocksSafe == ServerSpec => []LockSafe
<1>1. LockP!OnlyTheDead /\ LockP!Noticed /\ LockP!AgainOnlyAfterCrash => LockSafe
  BY DEF LockSafe, Lock!OnlyTheDead, LockP!OnlyTheDead, Lock!Noticed, LockP!Noticed,
         Lock!InHand, LockP!InHand, Lock!AgainOnlyAfterCrash, LockP!AgainOnlyAfterCrash,
         Lock!Cardinality, LockP!Cardinality
<1>. QED
  BY <1>1, LockSpec, LockDistinct, LockP!RecordsOnlyTheDead, LockP!TheDeadAreNoticed, LockP!OncePerCrash, PTL

-----------------------------------------------------------------------------
(* RunHistory.                                                             *)

LEMMA HistoryInit == ServerInit => HistoryP!Init
BY DEF ServerInit, History!Init, HistoryP!Init, History!Reviewer, HistoryP!Reviewer,
       History!NoPatch, HistoryP!NoPatch, History!Removers, HistoryP!Removers,
       History!Resting, HistoryP!Resting

LEMMA HistoryRunStep ==
  ASSUME NEW i \in Kept3,
         \/ History!CreateRow(i) \/ History!CopyStarts(i) \/ History!CopyEnds(i)
         \/ History!PointRead(i) \/ History!PointWrite(i) \/ History!WriteTests(i)
         \/ History!Dies(i) \/ History!PickRun(i)
  PROVE  HistoryP!Next
<1>. USE DEF History!rowVars, HistoryP!rowVars, History!removeVars, HistoryP!removeVars,
             History!serverVars, HistoryP!serverVars, History!Goto, HistoryP!Goto,
             History!NoPatch, HistoryP!NoPatch
<1>1. History!CreateRow(i) => HistoryP!CreateRow(i)
  BY DEF History!CreateRow, HistoryP!CreateRow
<1>2. History!CopyStarts(i) => HistoryP!CopyStarts(i)
  BY DEF History!CopyStarts, HistoryP!CopyStarts
<1>3. History!CopyEnds(i) => HistoryP!CopyEnds(i)
  BY DEF History!CopyEnds, HistoryP!CopyEnds
<1>4. History!PointRead(i) => HistoryP!PointRead(i)
  BY DEF History!PointRead, HistoryP!PointRead, History!MergeRead, HistoryP!MergeRead
<1>5. History!PointWrite(i) => HistoryP!PointWrite(i)
  BY DEF History!PointWrite, HistoryP!PointWrite, History!MergeWrite, HistoryP!MergeWrite
<1>6. History!WriteTests(i) => HistoryP!WriteTests(i)
  BY DEF History!WriteTests, HistoryP!WriteTests
<1>7. History!Dies(i) => HistoryP!Dies(i)
  BY DEF History!Dies, HistoryP!Dies
<1>8. History!PickRun(i) => HistoryP!PickRun(i)
  BY DEF History!PickRun, HistoryP!PickRun, History!Ended, HistoryP!Ended,
         History!Choose, HistoryP!Choose, History!Resting, HistoryP!Resting
<1>. QED
  BY <1>1, <1>2, <1>3, <1>4, <1>5, <1>6, <1>7, <1>8 DEF HistoryP!Next, HistoryP!Persist

LEMMA HistoryServerStep ==
  ASSUME \/ History!ReviewRead \/ History!ReviewWrite \/ History!ListExpired
         \/ \E a \in History!Removers :
              History!RemoveTests(a) \/ History!RemoveRows(a) \/ History!RemoveFolder(a)
         \/ History!ListOrphans \/ History!FailOrphans \/ History!ServerDies
  PROVE  HistoryP!Next
<1>. USE DEF History!rowVars, HistoryP!rowVars, History!removeVars, HistoryP!removeVars,
             History!serverVars, HistoryP!serverVars, History!Remover, HistoryP!Remover,
             History!NoPatch, HistoryP!NoPatch, History!Resting, HistoryP!Resting
<1>1. History!ReviewRead => HistoryP!ReviewRead
  BY DEF History!ReviewRead, HistoryP!ReviewRead, History!MergeRead, HistoryP!MergeRead,
         History!Reviewer, HistoryP!Reviewer
<1>2. History!ReviewWrite => HistoryP!ReviewWrite
  BY DEF History!ReviewWrite, HistoryP!ReviewWrite, History!MergeWrite, HistoryP!MergeWrite,
         History!Reviewer, HistoryP!Reviewer
<1>3. HistoryP!Expired = History!Expired
  BY DEF History!Expired, HistoryP!Expired, History!Ended, HistoryP!Ended,
         History!Newer, HistoryP!Newer, History!Cardinality, HistoryP!Cardinality
<1>4. History!ListExpired => HistoryP!ListExpired
  BY <1>3 DEF History!ListExpired, HistoryP!ListExpired, History!Choose, HistoryP!Choose
<1>5. ASSUME NEW a \in History!Removers
      PROVE  /\ a \in HistoryP!Removers
             /\ History!RemoveTests(a) => HistoryP!RemoveTests(a)
             /\ History!RemoveRows(a) => HistoryP!RemoveRows(a)
             /\ History!RemoveFolder(a) => HistoryP!RemoveFolder(a)
  <2>1. a \in HistoryP!Removers
    BY DEF History!Removers, HistoryP!Removers
  <2>2. History!RemoveTests(a) => HistoryP!RemoveTests(a)
    BY DEF History!RemoveTests, HistoryP!RemoveTests
  <2>3. History!RemoveRows(a) => HistoryP!RemoveRows(a)
    BY DEF History!RemoveRows, HistoryP!RemoveRows
  <2>4. History!RemoveFolder(a) => HistoryP!RemoveFolder(a)
    BY DEF History!RemoveFolder, HistoryP!RemoveFolder
  <2>. QED
    BY <2>1, <2>2, <2>3, <2>4
<1>6. History!ListOrphans => HistoryP!ListOrphans
  BY DEF History!ListOrphans, HistoryP!ListOrphans
<1>7. History!FailOrphans => HistoryP!FailOrphans
  BY DEF History!FailOrphans, HistoryP!FailOrphans
<1>8. History!ServerDies => HistoryP!ServerDies
  BY DEF History!ServerDies, HistoryP!ServerDies
<1>. QED
  BY <1>1, <1>2, <1>4, <1>5, <1>6, <1>7, <1>8 DEF HistoryP!Next, HistoryP!Remove

LEMMA HistoryNextStep == [ServerNext]_all => [HistoryP!Next]_(HistoryP!vars)
<1>. SUFFICES ASSUME [ServerNext]_all
              PROVE  HistoryP!Next \/ UNCHANGED HistoryP!vars
  OBVIOUS
<1>1. ASSUME UNCHANGED historyPart
      PROVE  UNCHANGED HistoryP!vars
  BY <1>1 DEF historyPart, HistoryP!vars, HistoryP!rowVars, HistoryP!removeVars, HistoryP!serverVars
<1>2. CASE UNCHANGED all
  BY <1>1, <1>2 DEF all
<1>3. CASE ExecutionsNext
  BY <1>1, <1>3 DEF ExecutionsNext, In
<1>4. CASE LockNext
  BY <1>1, <1>4 DEF LockNext, In
<1>5. CASE RunnerNext
  BY <1>1, <1>5 DEF RunnerNext, In
<1>6. CASE HistoryNext
  <2>1. \/ \E i \in Kept3 :
             \/ History!CreateRow(i) \/ History!CopyStarts(i) \/ History!CopyEnds(i)
             \/ History!PointRead(i) \/ History!PointWrite(i) \/ History!WriteTests(i)
             \/ History!Dies(i) \/ History!PickRun(i)
        \/ History!ReviewRead \/ History!ReviewWrite \/ History!ListExpired
        \/ \E a \in History!Removers :
             History!RemoveTests(a) \/ History!RemoveRows(a) \/ History!RemoveFolder(a)
        \/ History!ListOrphans \/ History!FailOrphans \/ History!ServerDies
    BY <1>6 DEF HistoryNext, In
  <2>. QED
    BY <2>1, HistoryRunStep, HistoryServerStep
<1>. QED
  BY <1>2, <1>3, <1>4, <1>5, <1>6 DEF ServerNext

LEMMA HistorySpec == ServerSpec => HistoryP!Spec
BY HistoryInit, HistoryNextStep, PTL DEF ServerSpec, HistoryP!Spec

LEMMA HistoryNumbered == HistoryP!Numbered
<1>1. IsFiniteSet(Kept3) /\ Kept3 \subseteq Nat \ {0} /\ {1, 2} \subseteq Kept3
  BY SmallSets DEF Kept3
<1>. QED
  BY <1>1 DEF HistoryP!Numbered, HistoryP!IsFiniteSet, IsFiniteSet

\* A row points to a whole copy, what has no row is explained, retention keeps the
\* newest runs and a deleted run stays deleted: in the composition too.
THEOREM HistoryIsSafe == ServerSpec => HistorySafe
<1>1. HistoryP!PointsToWhole /\ HistoryP!OrphansExplained
        => History!PointsToWhole /\ History!OrphansExplained
  BY DEF HistoryP!PointsToWhole, History!PointsToWhole, HistoryP!OrphansExplained, History!OrphansExplained,
         HistoryP!Going, History!Going, HistoryP!Removers, History!Removers
<1>2. HistoryP!KeepsNewest => History!KeepsNewest
  BY PTL DEF HistoryP!KeepsNewest, History!KeepsNewest, HistoryP!Newer, History!Newer,
         HistoryP!Ended, History!Ended, HistoryP!Cardinality, History!Cardinality,
         HistoryP!vars, History!vars, HistoryP!rowVars, History!rowVars,
         HistoryP!removeVars, History!removeVars, HistoryP!serverVars, History!serverVars
<1>3. HistoryP!DeletedStays => History!DeletedStays
  BY PTL DEF HistoryP!DeletedStays, History!DeletedStays,
         HistoryP!vars, History!vars, HistoryP!rowVars, History!rowVars,
         HistoryP!removeVars, History!removeVars, HistoryP!serverVars, History!serverVars
<1>. QED
  BY <1>1, <1>2, <1>3, HistorySpec, HistoryNumbered, HistoryP!RowsPointToWhole, HistoryP!LeftoversExplained,
     HistoryP!NewestAreKept, HistoryP!DeletedForGood, PTL DEF HistorySafe

-----------------------------------------------------------------------------
(* RunnerService.                                                          *)

LEMMA RunnerInit == ServerInit => RunnerP!Init
BY DEF ServerInit, Runner!Init, RunnerP!Init

LEMMA RunnerStep ==
  ASSUME NEW r \in Stages,
         \/ Runner!Post(r) \/ Runner!TakeSlot(r) \/ Runner!StartDocker(r) \/ Runner!Notice(r)
         \/ Runner!Exit(r) \/ Runner!Reap(r) \/ Runner!Leave(r) \/ Runner!Created(r) \/ Runner!Ends(r)
         \/ Runner!ReadExit(r) \/ Runner!IdleTimeout(r) \/ Runner!Lost(r) \/ Runner!Stop(r)
         \/ Runner!Terminate(r)
  PROVE  RunnerP!Next
<1>. USE DEF Runner!serviceVars, RunnerP!serviceVars, Runner!clientVars, RunnerP!clientVars,
             Runner!Thread, RunnerP!Thread, Runner!Becomes, RunnerP!Becomes,
             Runner!Signal, RunnerP!Signal
<1>1. ASSUME Runner!Post(r) \/ Runner!TakeSlot(r) \/ Runner!StartDocker(r) \/ Runner!Notice(r)
             \/ Runner!Exit(r) \/ Runner!Reap(r) \/ Runner!Leave(r)
      PROVE  RunnerP!Post(r) \/ RunnerP!Handle(r)
  BY <1>1 DEF Runner!Post, RunnerP!Post, RunnerP!Handle, Runner!TakeSlot, RunnerP!TakeSlot,
              Runner!StartDocker, RunnerP!StartDocker, Runner!Notice, RunnerP!Notice,
              Runner!Exit, RunnerP!Exit, Runner!Reap, RunnerP!Reap, Runner!Leave, RunnerP!Leave
<1>2. Runner!Created(r) \/ Runner!Ends(r) => RunnerP!Created(r) \/ RunnerP!Ends(r)
  BY DEF Runner!Created, RunnerP!Created, Runner!Ends, RunnerP!Ends
<1>3. Runner!ReadExit(r) \/ Runner!IdleTimeout(r) \/ Runner!Lost(r)
        => RunnerP!ReadExit(r) \/ RunnerP!IdleTimeout(r) \/ RunnerP!Lost(r)
  BY DEF Runner!ReadExit, RunnerP!ReadExit, Runner!IdleTimeout, RunnerP!IdleTimeout,
         Runner!Lost, RunnerP!Lost, Runner!Live, RunnerP!Live, Runner!Finish, RunnerP!Finish
<1>4. Runner!Stop(r) \/ Runner!Terminate(r) => RunnerP!Stop(r) \/ RunnerP!Terminate(r)
  BY DEF Runner!Stop, RunnerP!Stop, Runner!Terminate, RunnerP!Terminate, Runner!Delete, RunnerP!Delete
<1>. QED
  BY <1>1, <1>2, <1>3, <1>4 DEF RunnerP!Next

LEMMA RunnerServiceStep ==
  ASSUME Runner!Crash \/ Runner!Restart
  PROVE  RunnerP!Next
<1>. USE DEF Runner!clientVars, RunnerP!clientVars
<1>1. Runner!Crash => RunnerP!Crash
  BY DEF Runner!Crash, RunnerP!Crash
<1>2. Runner!Restart => RunnerP!Restart
  BY DEF Runner!Restart, RunnerP!Restart
<1>. QED
  BY <1>1, <1>2 DEF RunnerP!Next

LEMMA RunnerNextStep == [ServerNext]_all => [RunnerP!Next]_(RunnerP!vars)
<1>. SUFFICES ASSUME [ServerNext]_all
              PROVE  RunnerP!Next \/ UNCHANGED RunnerP!vars
  OBVIOUS
<1>1. ASSUME UNCHANGED runnerPart
      PROVE  UNCHANGED RunnerP!vars
  BY <1>1 DEF runnerPart, RunnerP!vars, RunnerP!serviceVars, RunnerP!clientVars
<1>2. CASE UNCHANGED all
  BY <1>1, <1>2 DEF all
<1>3. CASE ExecutionsNext
  BY <1>1, <1>3 DEF ExecutionsNext, In
<1>4. CASE LockNext
  BY <1>1, <1>4 DEF LockNext, In
<1>5. CASE HistoryNext
  BY <1>1, <1>5 DEF HistoryNext, In
<1>6. CASE RunnerNext
  <2>1. \/ \E r \in Stages :
             \/ Runner!Post(r) \/ Runner!TakeSlot(r) \/ Runner!StartDocker(r) \/ Runner!Notice(r)
             \/ Runner!Exit(r) \/ Runner!Reap(r) \/ Runner!Leave(r) \/ Runner!Created(r) \/ Runner!Ends(r)
             \/ Runner!ReadExit(r) \/ Runner!IdleTimeout(r) \/ Runner!Lost(r) \/ Runner!Stop(r)
             \/ Runner!Terminate(r)
        \/ Runner!Crash \/ Runner!Restart
    BY <1>6 DEF RunnerNext, In
  <2>. QED
    BY <2>1, RunnerStep, RunnerServiceStep
<1>. QED
  BY <1>2, <1>3, <1>4, <1>5, <1>6 DEF ServerNext

LEMMA RunnerSpec == ServerSpec => RunnerP!Spec
BY RunnerInit, RunnerNextStep, PTL DEF ServerSpec, RunnerP!Spec

LEMMA RunnerFinite == RunnerP!Finite
<1>1. IsFiniteSet(Stages)
  BY SmallSets DEF Stages
<1>. QED
  BY <1>1 DEF RunnerP!Finite, RunnerP!IsFiniteSet, IsFiniteSet

\* There are never more containers than slots, and an exit code is that of a stage that
\* is over: in the composition too.
THEOREM RunnersSafe == ServerSpec => []RunnerSafe
<1>1. RunnerP!AtMostMaxRuns /\ RunnerP!EndedForGood => RunnerSafe
  BY DEF RunnerSafe, RunnerP!AtMostMaxRuns, Runner!AtMostMaxRuns, RunnerP!EndedForGood, Runner!EndedForGood,
         RunnerP!Running, Runner!Running, RunnerP!Cardinality, Runner!Cardinality
<1>. QED
  BY <1>1, RunnerSpec, RunnerFinite, RunnerP!BoundedRuns, RunnerP!ExitMeansOver, PTL

-----------------------------------------------------------------------------
(* All parts.                                                              *)

\* With one server that cancels only what it was answered for and whose store does not
\* fail, an accepted run is known or has its row until it is over; a cycle is busy only
\* while its run is not over; the registry forgets only runs that are over, oldest first.
THEOREM RegistryIsSound == Alone /\ ServerSpec => []RegistrySound
<1>1. NothingLost /\ DoneFrees /\ RegistryBounded => RegistrySound
  BY DEF RegistrySound
<1>. QED
  BY <1>1, ExecutionsSpec, AcceptedIsKept, DoneIsFree, RegistryIsBounded, PTL

\* Every variable of every part keeps its type.
THEOREM AllTypes == ServerSpec => []TypesOK
<1>1. LockP!TypeOK => Lock!TypeOK
  BY DEF LockP!TypeOK, Lock!TypeOK, LockP!Inside, Lock!Inside, LockP!Places, Lock!Places
<1>2. HistoryP!TypeOK => History!TypeOK
  BY DEF HistoryP!TypeOK, History!TypeOK, HistoryP!Reviewer, History!Reviewer,
         HistoryP!Removers, History!Removers
<1>3. RunnerP!TypeOK => Runner!TypeOK
  BY DEF RunnerP!TypeOK, Runner!TypeOK, RunnerP!Holding, Runner!Holding,
         RunnerP!Cardinality, Runner!Cardinality
<1>4. ServerSpec => []LockP!TypeOK
  BY LockSpec, LockDistinct, LockP!LockTypes, PTL
<1>5. ServerSpec => []HistoryP!TypeOK
  BY HistorySpec, HistoryNumbered, HistoryP!HistoryTypes, PTL
<1>6. ServerSpec => []RunnerP!TypeOK
  BY RunnerSpec, RunnerFinite, RunnerP!RunnerTypes, PTL
<1>7. ServerSpec => []TypeOK
  BY ExecutionsSpec, ExecutionTypes, PTL
<1>8. TypeOK /\ Lock!TypeOK /\ History!TypeOK /\ Runner!TypeOK => TypesOK
  BY DEF TypesOK
<1>. QED
  BY <1>1, <1>2, <1>3, <1>4, <1>5, <1>6, <1>7, <1>8, PTL
=============================================================================
