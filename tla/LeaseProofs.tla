----------------------------- MODULE LeaseProofs -----------------------------
(***************************************************************************)
(* What holds of a resource pool for any number of clients and keys, any   *)
(* labels, accounts, limits and timings. After it, each over variables of  *)
(* its own, the proofs of three modules that run by themselves and whose   *)
(* state is the database too: PoolProvider, SchemaUpgrade and Backup.      *)
(***************************************************************************)
EXTENDS LeaseClient, Sequences, FiniteSetTheorems, TLAPS

-----------------------------------------------------------------------------
(* Types, in every environment: processes that freeze, keys taken back by  *)
(* hand, hooks of any length.                                              *)

\* Where a client has a key, in its own eyes.
Holding == {"finish", "prepare", "using", "join", "check", "reset", "give", "giving"}
KeyInv == \A c \in Clients : pc[c] \in Holding => key[c] \in Keys
TypeInv == TypeOK /\ KeyInv

\* Leases and waiters are rows or nothing.
LeaseTable == [Keys -> Row \union {NoRow}]
WaiterTable == [Clients -> Waiter \union {NoWaiter}]

LEMMA WithoutType ==
  ASSUME NEW ws \in WaiterTable, NEW gone
  PROVE  Without(ws, gone) \in WaiterTable
<1>1. ASSUME NEW c \in Clients, ws[c] # NoWaiter
      PROVE  [want |-> ws[c].want, age |-> ws[c].age, before |-> ws[c].before \ gone] \in Waiter
  <2>1. ws[c] \in Waiter
    BY <1>1 DEF WaiterTable
  <2>. QED
    BY <2>1 DEF Waiter
<1>. QED
  BY <1>1 DEF Without, WaiterTable

\* The rows take() leaves behind, whatever it answers.
LEMMA LiveType ==
  ASSUME StoreTypeOK, NEW c \in Clients
  PROVE  /\ LiveLeases \in LeaseTable
         /\ LiveWaiters \in WaiterTable
         /\ WaitersWith(c) \in WaiterTable
<1>1. LiveLeases \in LeaseTable
  BY DEF LiveLeases, StoreTypeOK, LeaseTable
<1>2. LiveWaiters \in WaiterTable
  BY WithoutType DEF LiveWaiters, StoreTypeOK, WaiterTable
<1>3. [want |-> Candidates(c), age |-> 0, before |-> Queued(LiveWaiters)] \in Waiter
  BY StoreAssumption DEF Waiter, Candidates, Queued
<1>4. ASSUME LiveWaiters[c] # NoWaiter
      PROVE  [want |-> LiveWaiters[c].want, age |-> 0, before |-> LiveWaiters[c].before] \in Waiter
  <2>1. LiveWaiters[c] \in Waiter
    BY <1>2, <1>4 DEF WaiterTable
  <2>. QED
    BY <2>1, StoreAssumption DEF Waiter
<1>5. WaitersWith(c) \in WaiterTable
  BY <1>2, <1>3, <1>4 DEF WaitersWith, WaiterTable
<1>. QED
  BY <1>1, <1>2, <1>5

LEMMA TakeType ==
  ASSUME StoreTypeOK, NEW c \in Clients, TakeNoItems(c) \/ TakeLimit(c) \/ TakeEnqueue(c)
  PROVE  StoreTypeOK'
BY LiveType, WithoutType DEF TakeNoItems, TakeLimit, TakeEnqueue, StoreTypeOK, LeaseTable, WaiterTable

\* A new row, and a row pushed to its full TTL, are rows.
LEMMA RowType ==
  ASSUME StoreTypeOK, NEW c \in Clients, NEW k \in Keys
  PROVE  /\ [id |-> c, left |-> TTL] \in Row
         /\ leases[k] # NoRow => [id |-> leases[k].id, left |-> TTL] \in Row
BY StoreAssumption DEF StoreTypeOK, Row, Lefts

LEMMA WriteType ==
  ASSUME StoreTypeOK, NEW c \in Clients, NEW k \in Keys,
         \/ Insert(c, k) \/ AfterInsert(c, k) \/ BeatWrite(k)
         \/ \E m \in {"clean", "dirty", "same"} : ReleaseWrite(k, m)
         \/ \E off \in BOOLEAN : SetDisabled(k, off)
         \/ DisableQuietly(k) \/ ForceRelease(k)
  PROVE  StoreTypeOK'
<1>1. CASE Insert(c, k)
  BY <1>1, RowType DEF Insert, StoreTypeOK
<1>2. CASE AfterInsert(c, k)
  BY <1>2, WithoutType DEF AfterInsert, StoreTypeOK, WaiterTable
<1>3. CASE BeatWrite(k)
  BY <1>3, RowType DEF BeatWrite, StoreTypeOK
<1>4. ASSUME NEW m \in {"clean", "dirty", "same"}, ReleaseWrite(k, m)
      PROVE  StoreTypeOK'
  BY <1>4 DEF ReleaseWrite, StoreTypeOK
<1>5. ASSUME NEW off \in BOOLEAN, SetDisabled(k, off)
      PROVE  StoreTypeOK'
  BY <1>5 DEF SetDisabled, StoreTypeOK
<1>6. CASE ForceRelease(k)
  BY <1>6 DEF ForceRelease, StoreTypeOK
<1>7. CASE DisableQuietly(k)
  BY <1>7 DEF DisableQuietly, SetDisabled, StoreTypeOK, storeVars
<1>. QED
  BY <1>1, <1>2, <1>3, <1>4, <1>5, <1>6, <1>7

LEMMA LeaveType ==
  ASSUME StoreTypeOK, NEW c \in Clients, Leave(c)
  PROVE  StoreTypeOK'
BY WithoutType DEF Leave, StoreTypeOK, WaiterTable

LEMMA SameType ==
  ASSUME StoreTypeOK, UNCHANGED storeVars
  PROVE  StoreTypeOK'
BY DEF StoreTypeOK, storeVars

LEMMA TickType ==
  ASSUME StoreTypeOK, StoreTick
  PROVE  StoreTypeOK'
<1>. USE StoreAssumption
<1>1. ASSUME NEW k \in Keys, leases[k] # NoRow, ~Expired(leases[k])
      PROVE  [id |-> leases[k].id, left |-> leases[k].left - 1] \in Row
  BY <1>1 DEF StoreTypeOK, Row, Lefts, Expired
<1>2. leases' \in LeaseTable
  BY <1>1 DEF StoreTick, StoreTypeOK, LeaseTable
<1>3. ASSUME NEW c \in Clients, waiters[c] # NoWaiter
      PROVE  [want |-> waiters[c].want, age |-> Later(waiters[c].age, WaiterTTL + 1),
              before |-> waiters[c].before] \in Waiter
  BY <1>3 DEF StoreTypeOK, Waiter, Later
<1>4. waiters' \in WaiterTable
  BY <1>3 DEF StoreTick, StoreTypeOK, WaiterTable
<1>. QED
  BY <1>2, <1>4 DEF StoreTick, StoreTypeOK, LeaseTable, WaiterTable

-----------------------------------------------------------------------------
\* Init, and every step, keep the types.

LEMMA InitType == Init => TypeInv
BY ClientAssumption, StoreAssumption
   DEF Init, StoreInit, TypeInv, TypeOK, StoreTypeOK, ThreadTypeOK, KeyInv, Holding, Places, MaxTimer, Larger

\* acquire() up to the grant.
LEMMA AskType ==
  ASSUME TypeInv, NEW c \in Clients,
         AskNoItems(c) \/ AskLimit(c) \/ AskBusy(c) \/ AskFree(c)
  PROVE  TypeInv'
<1>. USE ClientAssumption DEF TypeInv, TypeOK, ThreadTypeOK, KeyInv, Holding, Places, Goto, MaxTimer, Larger
<1>1. StoreTypeOK'
  BY TakeType DEF AskNoItems, AskLimit, AskBusy, AskFree
<1>2. Free(c) \subseteq Keys
  BY StoreAssumption DEF Free, Candidates
<1>3. ThreadTypeOK'
  BY <1>2 DEF AskNoItems, AskLimit, AskBusy, AskFree
<1>4. KeyInv'
  BY DEF AskNoItems, AskLimit, AskBusy, AskFree
<1>. QED
  BY <1>1, <1>3, <1>4

LEMMA GrantType ==
  ASSUME TypeInv, NEW c \in Clients,
         InsertLease(c) \/ InsertTaken(c) \/ InsertNone(c) \/ Granted(c) \/ GrantGone(c)
  PROVE  TypeInv'
<1>. USE ClientAssumption DEF TypeInv, TypeOK, ThreadTypeOK, KeyInv, Holding, Places, Goto, MaxTimer, Larger
<1>1. CASE InsertLease(c)
  <2>1. PICK k \in todo[c] : Insert(c, k) /\ key' = [key EXCEPT ![c] = k]
    BY <1>1 DEF InsertLease
  <2>2. k \in Keys
    BY <2>1
  <2>3. StoreTypeOK'
    BY <2>1, <2>2, WriteType
  <2>. QED
    BY <1>1, <2>1, <2>2, <2>3 DEF InsertLease
<1>2. CASE InsertTaken(c)
  BY <1>2 DEF InsertTaken, StoreTypeOK, storeVars
<1>3. CASE InsertNone(c)
  BY <1>3 DEF InsertNone, StoreTypeOK, storeVars
<1>4. CASE Granted(c)
  <2>1. key[c] \in Keys
    BY <1>4 DEF Granted
  <2>2. StoreTypeOK'
    BY <1>4, <2>1, WriteType DEF Granted
  <2>3. leases[key[c]].id \in Clients
    BY <1>4, <2>1 DEF Granted, StoreTypeOK, Row
  <2>. QED
    BY <1>4, <2>1, <2>2, <2>3 DEF Granted
<1>5. CASE GrantGone(c)
  <2>1. key[c] \in Keys
    BY <1>5 DEF GrantGone
  <2>2. StoreTypeOK'
    BY <1>5, <2>1, WriteType DEF GrantGone
  <2>. QED
    BY <1>5, <2>2 DEF GrantGone
<1>. QED
  BY <1>1, <1>2, <1>3, <1>4, <1>5

\* The rest of acquire().
LEMMA AcquireType ==
  ASSUME TypeInv, NEW c \in Clients,
         Request(c) \/ PrepareOk(c) \/ PrepareFail(c) \/ GiveUp(c) \/ Quit(c)
  PROVE  TypeInv'
<1>. USE ClientAssumption DEF TypeInv, TypeOK, ThreadTypeOK, KeyInv, Holding, Places, Goto, MaxTimer, Larger
<1>1. CASE Request(c) \/ PrepareOk(c) \/ GiveUp(c)
  <2>1. StoreTypeOK'
    BY <1>1, SameType DEF Request, PrepareOk, GiveUp
  <2>. QED
    BY <1>1, <2>1 DEF Request, PrepareOk, GiveUp
<1>2. CASE PrepareFail(c)
  <2>1. StoreTypeOK'
    BY <1>2, WriteType DEF PrepareFail
  <2>. QED
    BY <1>2, <2>1 DEF PrepareFail
<1>3. CASE Quit(c)
  <2>1. StoreTypeOK'
    BY <1>3, LeaveType DEF Quit
  <2>. QED
    BY <1>3, <2>1 DEF Quit, Forget
<1>. QED
  BY <1>1, <1>2, <1>3

LEMMA HeartbeatType ==
  ASSUME TypeInv, NEW c \in Clients, Heartbeat(c)
  PROVE  TypeInv'
<1>. USE ClientAssumption DEF TypeInv, TypeOK, ThreadTypeOK, KeyInv, Holding, Places, MaxTimer, Larger
<1>1. CASE BeatRead(c) \/ BeatLost(c) \/ BeatBlip(c) \/ BeatStale(c)
  <2>1. StoreTypeOK'
    BY <1>1, SameType DEF BeatRead, BeatLost, BeatBlip, BeatStale
  <2>2. CASE BeatRead(c)
    BY <2>1, <2>2 DEF BeatRead
  <2>3. CASE BeatLost(c)
    BY <2>1, <2>3 DEF BeatLost
  <2>4. CASE BeatBlip(c)
    BY <2>1, <2>4 DEF BeatBlip
  <2>5. CASE BeatStale(c)
    BY <2>1, <2>5 DEF BeatStale
  <2>. QED
    BY <1>1, <2>2, <2>3, <2>4, <2>5
<1>2. CASE BeatDone(c)
  <2>1. StoreTypeOK'
    BY <1>2, WriteType DEF BeatDone
  <2>. QED
    BY <1>2, <2>1 DEF BeatDone
<1>. QED
  BY <1>1, <1>2 DEF Heartbeat

LEMMA ReleaseType ==
  ASSUME TypeInv, NEW c \in Clients, Done(c) \/ Release(c)
  PROVE  TypeInv'
<1>. USE ClientAssumption
     DEF TypeInv, TypeOK, ThreadTypeOK, KeyInv, Holding, Places, Goto, Forget, Released, MaxTimer, Larger
<1>1. CASE Done(c) \/ Joined(c) \/ ResetOk(c) \/ GiveGone(c) \/ GiveRead(c)
  <2>1. StoreTypeOK'
    BY <1>1, SameType DEF Done, Joined, ResetOk, GiveGone, GiveRead
  <2>2. CASE Done(c)
    BY <2>1, <2>2 DEF Done
  <2>3. CASE Joined(c)
    BY <2>1, <2>3 DEF Joined
  <2>4. CASE ResetOk(c)
    BY <2>1, <2>4 DEF ResetOk
  <2>5. CASE GiveGone(c)
    BY <2>1, <2>5 DEF GiveGone
  <2>6. CASE GiveRead(c)
    BY <2>1, <2>6 DEF GiveRead
  <2>. QED
    BY <1>1, <2>2, <2>3, <2>4, <2>5, <2>6
<1>2. CASE CheckRead(c) \/ CheckLost(c) \/ CheckStale(c)
  <2>1. StoreTypeOK'
    BY <1>2, SameType DEF CheckRead, CheckLost, CheckStale
  <2>2. CASE CheckRead(c)
    BY <2>1, <2>2 DEF CheckRead
  <2>3. CASE CheckLost(c)
    BY <2>1, <2>3 DEF CheckLost
  <2>4. CASE CheckStale(c)
    BY <2>1, <2>4 DEF CheckStale
  <2>. QED
    BY <1>2, <2>2, <2>3, <2>4
<1>3. CASE CheckDone(c)
  <2>1. StoreTypeOK'
    BY <1>3, WriteType DEF CheckDone
  <2>. QED
    BY <1>3, <2>1 DEF CheckDone
<1>4. CASE ResetFail(c)
  <2>1. StoreTypeOK'
    BY <1>4, WriteType DEF ResetFail
  <2>. QED
    BY <1>4, <2>1 DEF ResetFail
<1>5. CASE GiveWrite(c)
  <2>1. StoreTypeOK'
    BY <1>5, WriteType DEF GiveWrite
  <2>. QED
    BY <1>5, <2>1 DEF GiveWrite
<1>. QED
  BY <1>1, <1>2, <1>3, <1>4, <1>5 DEF Release, Check

LEMMA OtherType ==
  ASSUME TypeInv, AdminStep \/ Tick \/ \E c \in Clients : Crash(c)
  PROVE  TypeInv'
<1>. USE ClientAssumption DEF TypeInv, TypeOK, ThreadTypeOK, KeyInv, Holding, Places, MaxTimer, Larger
<1>1. CASE AdminStep
  <2>1. PICK k \in Keys : ForceRelease(k) \/ SetDisabled(k, k \notin disabled)
    BY <1>1 DEF AdminStep
  <2>2. StoreTypeOK'
    <3>1. CASE ForceRelease(k)
      BY <3>1 DEF ForceRelease, StoreTypeOK
    <3>2. CASE SetDisabled(k, k \notin disabled)
      BY <3>2 DEF SetDisabled, StoreTypeOK
    <3>. QED
      BY <2>1, <3>1, <3>2
  <2>. QED
    BY <1>1, <2>2 DEF AdminStep, threadVars
<1>2. CASE Tick
  <2>1. StoreTypeOK'
    BY <1>2, TickType DEF Tick
  <2>. QED
    BY <1>2, <2>1 DEF Tick, Later
<1>3. CASE \E c \in Clients : Crash(c)
  BY <1>3 DEF Crash, Goto, Forget, StoreTypeOK, storeVars
<1>. QED
  BY <1>1, <1>2, <1>3

LEMMA NextType == TypeInv /\ [Next]_vars => TypeInv'
<1>. SUFFICES ASSUME TypeInv, [Next]_vars
              PROVE  TypeInv'
  OBVIOUS
<1>1. CASE UNCHANGED vars
  BY <1>1 DEF vars, storeVars, threadVars, TypeInv, TypeOK, StoreTypeOK, ThreadTypeOK, KeyInv
<1>2. ASSUME NEW c \in Clients, Request(c) \/ GiveUp(c) \/ Quit(c) \/ Prepare(c)
      PROVE  TypeInv'
  BY <1>2, AcquireType DEF Prepare
<1>3. ASSUME NEW c \in Clients, Take(c)
      PROVE  TypeInv'
  BY <1>3, AskType, GrantType DEF Take
<1>4. ASSUME NEW c \in Clients, Heartbeat(c) \/ Done(c) \/ Release(c)
      PROVE  TypeInv'
  BY <1>4, HeartbeatType, ReleaseType
<1>5. CASE AdminStep \/ Tick \/ \E c \in Clients : Crash(c)
  BY <1>5, OtherType
<1>. QED
  BY <1>1, <1>2, <1>3, <1>4, <1>5 DEF Next

\* Every variable of the pool keeps its type, and a client that holds a key knows
\* which: for any timings, with frozen processes and keys taken back by hand.
THEOREM TypeCorrect == Spec => []TypeOK
<1>1. Spec => []TypeInv
  BY InitType, NextType, PTL DEF Spec
<1>2. TypeInv => TypeOK
  BY DEF TypeInv
<1>. QED
  BY <1>1, <1>2, PTL

-----------------------------------------------------------------------------
(* One user per key, provided that                                         *)
(*   - processes are scheduled in time and nobody takes keys back by hand; *)
(*   - a lease outlives the hooks that run before the first heartbeat, and *)
(*     after them as many heartbeats as may fail, and one more;            *)
(*   - with reuse_delay it outlives the hook that runs after the last one. *)
(* The run leases_default shows that the code's default timings break the  *)
(* second of these, and what comes of it.                                  *)

\* How long a lease must still last when b heartbeats in a row have failed.
Slack(b) == (Blips - b + 1) * Interval

Timely ==
  /\ Prompt
  /\ ~Admin
  /\ PrepareTicks + Slack(0) <= TTL
  /\ ResetTicks <= TTL + ReuseDelay

Left(c) == leases[key[c]].left

\* c's key has c's row, and no take() may remove it yet.
OwnRow(c) ==
  /\ leases[key[c]] # NoRow
  /\ leases[key[c]].id = c
  /\ Left(c) + ReuseDelay >= 0

\* The row lasts for what c may still do before it pushes it again.
LongEnough(c) ==
  /\ pc[c] = "finish" => Left(c) = TTL
  /\ pc[c] = "prepare" => timer[c] <= PrepareTicks /\ Left(c) >= TTL - timer[c]
  /\ pc[c] = "using" => timer[c] <= Interval
  /\ pc[c] = "using" /\ beat[c] = "none" => Left(c) >= Slack(blips[c]) - timer[c]
  /\ pc[c] \in {"using", "join", "check"} => Left(c) >= 0
  /\ pc[c] = "reset" => timer[c] <= ResetTicks /\ Left(c) >= TTL - timer[c]

\* What a thread that is not yet, or no longer, in the middle of something left behind.
Tidy(c) ==
  /\ lid[c] = c
  /\ lost[c] => pc[c] \in {"give", "giving"}
  /\ beat[c] = "read" => pc[c] \in {"using", "join", "check"}
  /\ blips[c] # 0 => pc[c] \in {"using", "join", "check", "reset", "give", "giving"}

ClientInv(c) ==
  /\ Tidy(c)
  /\ pc[c] \in Holding => OwnRow(c) /\ LongEnough(c)

SafeInv == TypeInv /\ \A c \in Clients : ClientInv(c)

\* A step of c leaves the other clients, and the rows of their keys, alone.
OthersKept(c) ==
  \A d \in Clients \ {c} :
    /\ pc'[d] = pc[d] /\ key'[d] = key[d] /\ lid'[d] = lid[d] /\ timer'[d] = timer[d]
    /\ beat'[d] = beat[d] /\ blips'[d] = blips[d] /\ lost'[d] = lost[d]
    /\ pc[d] \in Holding => leases'[key[d]] = leases[key[d]]

LEMMA Frame ==
  ASSUME SafeInv, TypeInv', NEW c \in Clients, OthersKept(c), ClientInv(c)'
  PROVE  SafeInv'
<1>1. ASSUME NEW d \in Clients, d # c
      PROVE  ClientInv(d)'
  BY <1>1 DEF SafeInv, ClientInv, Tidy, OwnRow, LongEnough, Left, OthersKept, Slack
<1>. QED
  BY <1>1 DEF SafeInv

\* One failed heartbeat costs one interval; the last one leaves one.
LEMMA SlackFact ==
  /\ \A b \in 0 .. Blips : Slack(b) \in Int /\ Slack(b) >= Interval
  /\ \A b \in 0 .. Blips : b < Blips => Slack(b + 1) = Slack(b) - Interval
<1>. USE ClientAssumption
<1>1. ASSUME NEW b \in 0 .. Blips
      PROVE  Slack(b) \in Int /\ Slack(b) >= Interval
  <2>1. PICK n \in Nat : n = Blips - b
    OBVIOUS
  <2>2. n * Interval \in Nat
    BY <2>1
  <2>3. Slack(b) = n * Interval + Interval
    BY <2>1 DEF Slack
  <2>. QED
    BY <2>2, <2>3
<1>2. ASSUME NEW b \in 0 .. Blips, b < Blips
      PROVE  Slack(b + 1) = Slack(b) - Interval
  BY DEF Slack
<1>. QED
  BY <1>1, <1>2

\* Two holders of one key are one client: a key has one row, a row one id.
LEMMA HoldersDiffer ==
  ASSUME SafeInv, NEW c \in Clients, NEW d \in Clients,
         pc[c] \in Holding, pc[d] \in Holding, key[c] = key[d]
  PROVE  c = d
BY DEF SafeInv, ClientInv, OwnRow

LEMMA RowFact ==
  ASSUME SafeInv, NEW d \in Clients, pc[d] \in Holding
  PROVE  /\ key[d] \in Keys
         /\ leases[key[d]] # NoRow
         /\ Left(d) \in Lefts /\ Left(d) + ReuseDelay >= 0
<1>1. key[d] \in Keys /\ OwnRow(d)
  BY DEF SafeInv, TypeInv, KeyInv, ClientInv
<1>2. leases[key[d]] \in Row
  BY <1>1 DEF SafeInv, TypeInv, TypeOK, StoreTypeOK, OwnRow
<1>. QED
  BY <1>1, <1>2 DEF OwnRow, Left, Row

\* take()'s purge spares the rows of the clients that hold one.
LEMMA PurgeSpares ==
  ASSUME SafeInv, NEW d \in Clients, pc[d] \in Holding
  PROVE  LiveLeases[key[d]] = leases[key[d]]
<1>1. ~Expired(leases[key[d]])
  BY RowFact, StoreAssumption DEF Expired, Left, Lefts
<1>. QED
  BY <1>1, RowFact DEF LiveLeases

\* The hypotheses and the goal of every lemma below: a step of c.
StepOf(c) == c \in Clients /\ SafeInv /\ Timely /\ TypeInv'
Kept(c) == OthersKept(c) /\ ClientInv(c)'

LEMMA AskKeeps ==
  ASSUME NEW c, StepOf(c),
         AskNoItems(c) \/ AskLimit(c) \/ AskBusy(c) \/ AskFree(c)
  PROVE  Kept(c)
<1>. USE DEF StepOf, SafeInv, TypeInv, TypeOK, ThreadTypeOK, Goto
<1>1. leases' = LiveLeases
  BY DEF AskNoItems, AskLimit, AskBusy, AskFree, TakeNoItems, TakeLimit, TakeEnqueue
<1>2. OthersKept(c)
  BY <1>1, PurgeSpares DEF OthersKept, AskNoItems, AskLimit, AskBusy, AskFree
<1>3. pc[c] = "ask" /\ pc'[c] \in {"quit", "ask", "insert"}
  BY DEF AskNoItems, AskLimit, AskBusy, AskFree
<1>4. /\ lid' = lid /\ lost' = lost /\ beat' = beat /\ blips' = blips
  BY DEF AskNoItems, AskLimit, AskBusy, AskFree
<1>5. ClientInv(c)'
  BY <1>3, <1>4 DEF ClientInv, Tidy, Holding
<1>. QED
  BY <1>2, <1>5 DEF Kept

LEMMA GrantKeeps ==
  ASSUME NEW c, StepOf(c),
         InsertLease(c) \/ InsertTaken(c) \/ InsertNone(c) \/ Granted(c) \/ GrantGone(c)
  PROVE  Kept(c)
<1>. USE DEF StepOf, SafeInv, TypeInv, TypeOK, ThreadTypeOK, Goto, Kept
<1>1. CASE InsertLease(c)
  <2>1. PICK k \in todo[c] : Insert(c, k) /\ key' = [key EXCEPT ![c] = k]
    BY <1>1 DEF InsertLease
  <2>2. k \in Keys /\ leases[k] = NoRow /\ leases' = [leases EXCEPT ![k] = [id |-> c, left |-> TTL]]
    BY <2>1 DEF Insert
  <2>3. \A d \in Clients : pc[d] \in Holding => key[d] # k
    BY <2>2 DEF ClientInv, OwnRow
  <2>4. OthersKept(c)
    BY <1>1, <2>1, <2>2, <2>3 DEF OthersKept, InsertLease, StoreTypeOK
  <2>5. [id |-> c, left |-> TTL] # NoRow
    BY StoreAssumption DEF NoRow
  <2>6. ClientInv(c)'
    <3>1. pc[c] = "insert" /\ pc'[c] = "finish" /\ key'[c] = k
      BY <1>1, <2>1 DEF InsertLease
    <3>2. leases'[k] = [id |-> c, left |-> TTL]
      BY <2>2 DEF StoreTypeOK
    <3>3. Tidy(c)'
      BY <1>1, <3>1 DEF InsertLease, ClientInv, Tidy
    <3>4. OwnRow(c)'
      BY <3>1, <3>2, <2>5, StoreAssumption DEF OwnRow, Left
    <3>5. LongEnough(c)'
      BY <3>1, <3>2 DEF LongEnough, Left
    <3>. QED
      BY <3>3, <3>4, <3>5 DEF ClientInv
  <2>. QED
    BY <2>4, <2>6
<1>2. CASE InsertTaken(c)
  BY <1>2 DEF InsertTaken, OthersKept, storeVars, ClientInv, Tidy, Holding
<1>3. CASE InsertNone(c)
  BY <1>3 DEF InsertNone, OthersKept, storeVars, ClientInv, Tidy, Holding
<1>4. CASE Granted(c)
  <2>1. pc[c] = "finish" /\ OwnRow(c) /\ LongEnough(c) /\ Tidy(c) /\ leases' = leases
    BY <1>4 DEF Granted, AfterInsert, ClientInv, Holding
  <2>2. OthersKept(c)
    BY <1>4, <2>1 DEF Granted, OthersKept
  <2>3. pc'[c] = "prepare" /\ key' = key /\ timer'[c] = 0 /\ lid'[c] = c
    BY <1>4, <2>1 DEF Granted, OwnRow
  <2>4. Tidy(c)'
    BY <1>4, <2>1, <2>3 DEF Granted, Tidy
  <2>5. OwnRow(c)' /\ Left(c)' = TTL
    BY <2>1, <2>3 DEF OwnRow, Left, LongEnough
  <2>6. LongEnough(c)'
    BY <2>3, <2>5, ClientAssumption, StoreAssumption DEF LongEnough
  <2>. QED
    BY <2>2, <2>4, <2>5, <2>6 DEF ClientInv
<1>5. CASE GrantGone(c)
  BY <1>5 DEF GrantGone, ClientInv, Holding, OwnRow
<1>. QED
  BY <1>1, <1>2, <1>3, <1>4, <1>5

LEMMA AcquireKeeps ==
  ASSUME NEW c, StepOf(c),
         Request(c) \/ PrepareOk(c) \/ PrepareFail(c) \/ GiveUp(c) \/ Quit(c) \/ Crash(c)
  PROVE  Kept(c)
<1>. USE DEF StepOf, SafeInv, TypeInv, TypeOK, ThreadTypeOK, Goto, Kept
<1>1. leases' = leases
  BY DEF Request, PrepareOk, PrepareFail, GiveUp, Quit, Crash, storeVars, DisableQuietly, SetDisabled, Leave
<1>2. OthersKept(c)
  <2>1. CASE Request(c) \/ PrepareOk(c) \/ PrepareFail(c) \/ GiveUp(c)
    BY <1>1, <2>1 DEF OthersKept, Request, PrepareOk, PrepareFail, GiveUp
  <2>2. CASE Quit(c) \/ Crash(c)
    BY <1>1, <2>2 DEF OthersKept, Quit, Crash, Forget
  <2>. QED
    BY <2>1, <2>2
<1>3. CASE Request(c) \/ GiveUp(c)
  BY <1>2, <1>3 DEF Request, GiveUp, ClientInv, Tidy, Holding
<1>4. CASE PrepareOk(c)
  <2>1. pc[c] = "prepare" /\ OwnRow(c) /\ LongEnough(c) /\ Tidy(c)
    BY <1>4 DEF PrepareOk, ClientInv, Holding
  <2>2. pc'[c] = "using" /\ timer'[c] = 0 /\ blips[c] = 0
    BY <1>4, <2>1 DEF PrepareOk, Tidy
  <2>3. OwnRow(c)' /\ Left(c)' = Left(c)
    BY <1>1, <1>4, <2>1 DEF PrepareOk, OwnRow, Left
  <2>4. Slack(0) \in Int /\ Slack(0) >= Interval
    BY SlackFact, ClientAssumption
  <2>5. Left(c) \in Int /\ Left(c) >= Slack(0)
    <3>1. Left(c) \in Int
      BY <2>1, RowFact, StoreAssumption DEF Holding, Lefts
    <3>. QED
      BY <2>1, <2>4, <3>1, ClientAssumption, StoreAssumption DEF Timely, LongEnough
  <2>6. LongEnough(c)'
    <3>1. blips'[c] = 0 /\ Slack(blips[c])' = Slack(0)
      BY <1>4, <2>2 DEF PrepareOk, Slack
    <3>. QED
      BY <2>2, <2>3, <2>4, <2>5, <3>1, ClientAssumption DEF LongEnough
  <2>. QED
    BY <1>2, <1>4, <2>1, <2>2, <2>3, <2>6 DEF PrepareOk, ClientInv, Tidy
<1>5. CASE PrepareFail(c)
  BY <1>1, <1>2, <1>5 DEF PrepareFail, ClientInv, Tidy, Holding, OwnRow, LongEnough, Left
<1>6. CASE Quit(c) \/ Crash(c)
  BY <1>2, <1>6 DEF Quit, Crash, Forget, ClientInv, Tidy, Holding
<1>. QED
  BY <1>3, <1>4, <1>5, <1>6

\* A write that pushes c's own row: the other holders have other rows.
LEMMA BeatFact ==
  ASSUME NEW c, StepOf(c), pc[c] \in Holding, BeatWrite(key[c])
  PROVE  /\ leases'[key[c]] = [id |-> c, left |-> TTL]
         /\ leases'[key[c]] # NoRow
         /\ \A d \in Clients \ {c} : pc[d] \in Holding => leases'[key[d]] = leases[key[d]]
<1>1. key[c] \in Keys /\ OwnRow(c)
  BY RowFact DEF StepOf, SafeInv, ClientInv
<1>2. leases'[key[c]] = [id |-> c, left |-> TTL]
  BY <1>1 DEF BeatWrite, OwnRow, StepOf, SafeInv, TypeInv, TypeOK, StoreTypeOK
<1>3. [id |-> c, left |-> TTL] # NoRow
  BY StoreAssumption DEF NoRow, StepOf
<1>4. ASSUME NEW d \in Clients \ {c}, pc[d] \in Holding
      PROVE  leases'[key[d]] = leases[key[d]]
  <2>1. key[d] # key[c] /\ key[d] \in Keys
    BY <1>4, HoldersDiffer, RowFact DEF StepOf
  <2>. QED
    BY <2>1 DEF BeatWrite, StepOf, SafeInv, TypeInv, TypeOK, StoreTypeOK
<1>. QED
  BY <1>2, <1>3, <1>4

LEMMA HeartbeatKeeps ==
  ASSUME NEW c, StepOf(c), Heartbeat(c)
  PROVE  Kept(c)
<1>. USE DEF StepOf, SafeInv, TypeInv, TypeOK, ThreadTypeOK, Kept
<1>1. pc[c] \in {"using", "join"} /\ OwnRow(c) /\ LongEnough(c) /\ Tidy(c)
  BY DEF Heartbeat, BeatRead, BeatLost, BeatBlip, BeatDone, BeatStale, ClientInv, Holding
<1>2. Left(c) \in Int
  BY <1>1, RowFact, StoreAssumption DEF Holding, Lefts
<1>3. CASE BeatRead(c)
  <2>1. OthersKept(c)
    BY <1>3 DEF BeatRead, OthersKept, storeVars
  <2>2. OwnRow(c)' /\ Left(c)' = Left(c)
    BY <1>1, <1>3 DEF BeatRead, OwnRow, Left, storeVars
  <2>. QED
    BY <1>1, <1>3, <2>1, <2>2, ClientAssumption DEF BeatRead, ClientInv, Tidy, LongEnough
<1>4. CASE BeatLost(c)
  <2>1. MayBeat(key[c], lid[c])
    BY <1>1, <1>4 DEF BeatLost, MayBeat, HasRow, OwnRow, LongEnough, Left, Tidy
  <2>. QED
    BY <1>4, <2>1 DEF BeatLost
<1>5. CASE BeatBlip(c)
  <2>1. OthersKept(c)
    BY <1>5 DEF BeatBlip, OthersKept, storeVars
  <2>2. OwnRow(c)' /\ Left(c)' = Left(c)
    BY <1>1, <1>5 DEF BeatBlip, OwnRow, Left, storeVars
  <2>3. blips[c] \in 0 .. Blips /\ blips[c] < Blips /\ pc'[c] = "using" /\ blips'[c] = blips[c] + 1 /\ timer'[c] = 0
    BY <1>5 DEF BeatBlip
  <2>4. Slack(blips[c]) \in Int /\ Slack(blips[c]) >= Interval /\ Slack(blips[c] + 1) = Slack(blips[c]) - Interval
    BY <2>3, SlackFact
  <2>5. Left(c) >= Slack(blips[c]) - Interval
    BY <1>1, <1>2, <1>5, <2>4, ClientAssumption DEF BeatBlip, LongEnough
  <2>6. LongEnough(c)'
    <3>1. Slack(blips[c])' = Slack(blips[c] + 1)
      BY <2>3 DEF Slack
    <3>. QED
      BY <1>2, <2>2, <2>3, <2>4, <2>5, <3>1, ClientAssumption DEF LongEnough
  <2>. QED
    BY <1>1, <1>5, <2>1, <2>2, <2>3, <2>6 DEF BeatBlip, ClientInv, Tidy
<1>6. CASE BeatDone(c)
  <2>1. BeatWrite(key[c]) /\ pc' = pc /\ key' = key
    BY <1>6 DEF BeatDone
  <2>2. /\ leases'[key[c]] = [id |-> c, left |-> TTL]
        /\ leases'[key[c]] # NoRow
        /\ \A d \in Clients \ {c} : pc[d] \in Holding => leases'[key[d]] = leases[key[d]]
    BY <1>1, <2>1, BeatFact DEF Holding
  <2>3. OthersKept(c)
    BY <1>6, <2>1, <2>2 DEF BeatDone, OthersKept
  <2>4. OwnRow(c)' /\ Left(c)' = TTL
    BY <2>1, <2>2, StoreAssumption DEF OwnRow, Left
  <2>5. LongEnough(c)'
    <3>1. blips'[c] = 0 /\ Slack(blips[c])' = Slack(0)
      BY <1>6 DEF BeatDone, Slack
    <3>2. Slack(0) \in Int /\ PrepareTicks + Slack(0) <= TTL
      BY SlackFact, ClientAssumption DEF Timely
    <3>. QED
      BY <1>1, <1>6, <2>1, <2>4, <3>1, <3>2, ClientAssumption, StoreAssumption DEF BeatDone, LongEnough
  <2>. QED
    BY <1>1, <1>6, <2>3, <2>4, <2>5 DEF BeatDone, ClientInv, Tidy
<1>7. CASE BeatStale(c)
  BY <1>1, <1>7 DEF BeatStale, OwnRow
<1>. QED
  BY <1>3, <1>4, <1>5, <1>6, <1>7 DEF Heartbeat

LEMMA ReleaseKeeps ==
  ASSUME NEW c, StepOf(c), Done(c) \/ Release(c)
  PROVE  Kept(c)
<1>. USE DEF StepOf, SafeInv, TypeInv, TypeOK, ThreadTypeOK, Kept, Goto
<1>1. pc[c] \in Holding /\ OwnRow(c) /\ LongEnough(c) /\ Tidy(c)
  BY DEF Done, Release, Joined, Check, CheckRead, CheckLost, CheckDone, CheckStale, ResetOk, ResetFail,
         GiveGone, GiveRead, GiveWrite, ClientInv, Holding
<1>2. Left(c) \in Int /\ key[c] \in Keys
  BY <1>1, RowFact, StoreAssumption DEF Lefts
<1>3. CASE Done(c) \/ Joined(c) \/ CheckRead(c) \/ ResetOk(c) \/ ResetFail(c) \/ GiveRead(c)
  <2>1. leases' = leases /\ key' = key
    BY <1>3 DEF Done, Joined, CheckRead, ResetOk, ResetFail, GiveRead, storeVars, DisableQuietly, SetDisabled
  <2>2. OthersKept(c)
    BY <1>3, <2>1 DEF OthersKept, Done, Joined, CheckRead, ResetOk, ResetFail, GiveRead
  <2>3. OwnRow(c)' /\ Left(c)' = Left(c)
    BY <1>1, <2>1 DEF OwnRow, Left
  <2>4. CASE Done(c)
    BY <1>1, <2>2, <2>3, <2>4 DEF Done, ClientInv, Tidy, LongEnough
  <2>5. CASE Joined(c)
    BY <1>1, <2>2, <2>3, <2>5 DEF Joined, ClientInv, Tidy, LongEnough
  <2>6. CASE CheckRead(c)
    BY <1>1, <2>2, <2>3, <2>6 DEF CheckRead, ClientInv, Tidy, LongEnough
  <2>7. CASE ResetOk(c) \/ ResetFail(c) \/ GiveRead(c)
    <3>1. pc'[c] \in {"give", "giving"} /\ LongEnough(c)'
      BY <2>7 DEF ResetOk, ResetFail, GiveRead, LongEnough
    <3>2. Tidy(c)'
      BY <1>1, <2>7, <3>1 DEF ResetOk, ResetFail, GiveRead, Tidy
    <3>. QED
      BY <2>2, <2>3, <3>1, <3>2 DEF ClientInv
  <2>. QED
    BY <1>3, <2>4, <2>5, <2>6, <2>7
<1>4. CASE CheckLost(c)
  <2>1. OthersKept(c)
    BY <1>4 DEF CheckLost, OthersKept, storeVars
  <2>2. OwnRow(c)'
    BY <1>1, <1>4 DEF CheckLost, OwnRow, Left, storeVars
  <2>. QED
    BY <1>1, <1>4, <2>1, <2>2 DEF CheckLost, ClientInv, Tidy, LongEnough
<1>5. CASE CheckDone(c)
  <2>1. BeatWrite(key[c]) /\ key' = key /\ pc'[c] = "reset" /\ timer'[c] = 0
    BY <1>5 DEF CheckDone
  <2>2. /\ leases'[key[c]] = [id |-> c, left |-> TTL]
        /\ leases'[key[c]] # NoRow
        /\ \A d \in Clients \ {c} : pc[d] \in Holding => leases'[key[d]] = leases[key[d]]
    BY <1>1, <2>1, BeatFact
  <2>3. OthersKept(c)
    BY <1>5, <2>1, <2>2 DEF CheckDone, OthersKept
  <2>4. OwnRow(c)' /\ Left(c)' = TTL
    BY <2>1, <2>2, StoreAssumption DEF OwnRow, Left
  <2>5. LongEnough(c)'
    BY <2>1, <2>4, ClientAssumption, StoreAssumption DEF LongEnough
  <2>. QED
    BY <1>1, <1>5, <2>1, <2>3, <2>4, <2>5 DEF CheckDone, ClientInv, Tidy
<1>6. CASE CheckStale(c)
  BY <1>1, <1>6 DEF CheckStale, OwnRow
<1>7. CASE GiveGone(c) \/ GiveWrite(c)
  <2>1. pc'[c] \in {"ask", "idle"} /\ Tidy(c)'
    BY <1>7 DEF GiveGone, GiveWrite, Forget, Released, Tidy
  <2>2. ASSUME NEW d \in Clients \ {c}, pc[d] \in Holding
        PROVE  leases'[key[d]] = leases[key[d]]
    <3>1. key[d] # key[c] /\ key[d] \in Keys
      BY <1>1, <2>2, HoldersDiffer, RowFact
    <3>. QED
      BY <1>7, <3>1 DEF GiveGone, GiveWrite, ReleaseWrite, StoreTypeOK, storeVars
  <2>3. OthersKept(c)
    BY <1>7, <2>2 DEF OthersKept, GiveGone, GiveWrite, Forget
  <2>. QED
    BY <2>1, <2>3 DEF ClientInv, Holding
<1>. QED
  BY <1>3, <1>4, <1>5, <1>6, <1>7 DEF Release, Check

\* While processes are in time, a tick finds every holder in a hook or between
\* two heartbeats, with time left.
LEMMA TickKeeps ==
  ASSUME SafeInv, Timely, TypeInv', Tick
  PROVE  SafeInv'
<1>1. ASSUME NEW c \in Clients
      PROVE  ClientInv(c)'
  <2>. USE <1>1 DEF SafeInv, TypeInv, TypeOK, ThreadTypeOK
  <2>1. BetweenCalls(c) /\ InTime(c) /\ ClientInv(c)
    BY DEF Tick, Timely
  <2>2. Tidy(c)'
    BY <2>1 DEF Tick, ClientInv, Tidy
  <2>3. pc' = pc /\ key' = key /\ beat' = beat /\ blips' = blips
    BY DEF Tick
  <2>4. pc[c] \in Holding => pc[c] \in {"prepare", "using", "reset"}
    BY <2>1 DEF BetweenCalls, InTime, Holding
  <2>5. ASSUME pc[c] \in {"prepare", "using", "reset"}
        PROVE  OwnRow(c)' /\ LongEnough(c)'
    <3>. USE <2>5, ClientAssumption, StoreAssumption
    <3>1. /\ OwnRow(c) /\ LongEnough(c) /\ key[c] \in Keys /\ leases[key[c]] # NoRow
          /\ Left(c) \in Int /\ Left(c) + ReuseDelay >= 0 /\ lost[c] = FALSE /\ beat[c] = "none"
      BY <2>1, RowFact DEF ClientInv, Holding, Tidy, Lefts, BetweenCalls
    <3>2. leases'[key[c]] = [id |-> c, left |-> Left(c) - 1]
      BY <3>1 DEF Tick, StoreTick, Expired, OwnRow, Left
    <3>3. [id |-> c, left |-> Left(c) - 1] # NoRow
      BY DEF NoRow
    <3>4. timer[c] < MaxTimer /\ timer'[c] = timer[c] + 1 /\ timer[c] \in Nat
      <4>1. MaxTimer \in Nat /\ MaxTimer >= Interval /\ MaxTimer >= PrepareTicks /\ MaxTimer >= ResetTicks
        BY DEF MaxTimer, Larger
      <4>2. timer[c] \in Nat /\ timer[c] < MaxTimer
        BY <2>1, <3>1, <4>1 DEF InTime
      <4>. QED
        BY <4>1, <4>2 DEF Tick, Later
    <3>5. Left(c)' = Left(c) - 1
      BY <2>3, <3>2 DEF Left
    <3>6. /\ blips[c] \in 0 .. Blips
          /\ Slack(blips[c]) \in Int /\ Slack(blips[c]) >= Interval /\ Slack(0) \in Int /\ Slack(0) >= Interval
          /\ Slack(blips[c])' = Slack(blips[c])
      BY <2>3, SlackFact DEF Slack
    <3>7. LongEnough(c)' /\ Left(c)' + ReuseDelay >= 0
      <4>1. CASE pc[c] = "prepare"
        BY <2>1, <2>3, <3>1, <3>4, <3>5, <3>6, <4>1 DEF InTime, LongEnough, Timely
      <4>2. CASE pc[c] = "using"
        BY <2>1, <2>3, <3>1, <3>4, <3>5, <3>6, <4>2 DEF InTime, LongEnough
      <4>3. CASE pc[c] = "reset"
        BY <2>1, <2>3, <3>1, <3>4, <3>5, <4>3 DEF InTime, LongEnough, Timely
      <4>. QED
        BY <4>1, <4>2, <4>3
    <3>8. OwnRow(c)'
      BY <2>3, <3>2, <3>3, <3>7 DEF OwnRow
    <3>. QED
      BY <3>7, <3>8
  <2>. QED
    BY <2>2, <2>3, <2>4, <2>5 DEF ClientInv
<1>. QED
  BY <1>1 DEF SafeInv

LEMMA NextSafe == Timely /\ SafeInv /\ [Next]_vars => SafeInv'
<1>. SUFFICES ASSUME Timely, SafeInv, [Next]_vars
              PROVE  SafeInv'
  OBVIOUS
<1>1. TypeInv'
  BY NextType DEF SafeInv
<1>2. ASSUME NEW c \in Clients, Kept(c)
      PROVE  SafeInv'
  BY <1>1, <1>2, Frame DEF Kept, SafeInv
<1>3. ASSUME NEW c \in Clients
      PROVE  StepOf(c)
  BY <1>1, <1>3 DEF StepOf
<1>4. CASE UNCHANGED vars
  BY <1>1, <1>4 DEF vars, storeVars, threadVars, SafeInv, ClientInv, Tidy, OwnRow, LongEnough, Left, Slack
<1>5. ASSUME NEW c \in Clients, Request(c) \/ GiveUp(c) \/ Quit(c) \/ Prepare(c) \/ Crash(c)
      PROVE  SafeInv'
  BY <1>2, <1>3, <1>5, AcquireKeeps DEF Prepare
<1>6. ASSUME NEW c \in Clients, Take(c)
      PROVE  SafeInv'
  BY <1>2, <1>3, <1>6, AskKeeps, GrantKeeps DEF Take
<1>7. ASSUME NEW c \in Clients, Heartbeat(c)
      PROVE  SafeInv'
  BY <1>2, <1>3, <1>7, HeartbeatKeeps
<1>8. ASSUME NEW c \in Clients, Done(c) \/ Release(c)
      PROVE  SafeInv'
  BY <1>2, <1>3, <1>8, ReleaseKeeps
<1>9. CASE Tick
  BY <1>1, <1>9, TickKeeps
<1>10. ~AdminStep
  BY DEF Timely, AdminStep
<1>. QED
  BY <1>4, <1>5, <1>6, <1>7, <1>8, <1>9, <1>10 DEF Next

LEMMA InitSafe == Init => SafeInv
BY InitType DEF Init, SafeInv, ClientInv, Tidy, Holding

LEMMA SafeInvHolds == Timely /\ Spec => []SafeInv
<1>1. Timely => (Spec => []SafeInv)
  <2>. SUFFICES ASSUME Timely
                PROVE  Spec => []SafeInv
    OBVIOUS
  <2>1. SafeInv /\ [Next]_vars => SafeInv'
    BY NextSafe
  <2>. QED
    BY <2>1, InitSafe, PTL DEF Spec
<1>. QED
  BY <1>1

\* No two clients ever act on one key as its owner.
THEOREM Exclusive == Timely /\ Spec => []OneUserPerKey
<1>1. SafeInv => OneUserPerKey
  BY HoldersDiffer DEF OneUserPerKey, Users, Holding
<1>. QED
  BY <1>1, SafeInvHolds, PTL

\* A client whose process runs keeps its key, whatever heartbeats fail within Blips.
THEOREM AliveKeeps == Timely /\ Spec => []AliveKeepsKey
<1>1. SafeInv => AliveKeepsKey
  BY DEF SafeInv, ClientInv, Tidy, OwnRow, Left, AliveKeepsKey, Users, Holding
<1>. QED
  BY <1>1, SafeInvHolds, PTL

\* A heartbeat or a release that found its row by lease_id and writes it by its
\* primary key still writes its own row.
THEOREM WritesOwnRow == Timely /\ Spec => OwnRowOnly
<1>1. SafeInv =>
        [\A c \in Clients :
           /\ leases' # leases
           /\ \/ pc[c] = "giving" /\ pc'[c] # "giving"
              \/ beat[c] = "read" /\ beat'[c] = "none"
           => leases[key[c]].id = lid[c]]_vars
  BY DEF SafeInv, ClientInv, Tidy, OwnRow, Holding
<1>. QED
  BY <1>1, SafeInvHolds, PTL DEF OwnRowOnly

-----------------------------------------------------------------------------
(* The tables and their clients implement KeyPool.                         *)

\* The refinement mapping, read off the state.
LEMMA UserFact ==
  ASSUME SafeInv, NEW k \in Keys
  PROVE  /\ \A c \in Users : key[c] = k => UserOf(k) = c
         /\ (\A c \in Users : key[c] # k) => UserOf(k) = Nobody
         /\ UserOf(k) \in Users => key[UserOf(k)] = k
<1>1. \A c, d \in Users : key[c] = k /\ key[d] = k => c = d
  BY HoldersDiffer DEF Users, Holding
<1>2. \A c \in Users : c # Nobody
  BY ClientAssumption DEF Users, Nobody
<1>. QED
  BY <1>1, <1>2 DEF UserOf

\* A step that moves no client in or out of Users is a stutter of the pool.
LEMMA SameUsers ==
  ASSUME Users' = Users, \A c \in Users : key'[c] = key[c], NEW k \in Keys
  PROVE  UserOf(k)' = UserOf(k)
BY DEF UserOf

PoolUser == [k \in Keys |-> UserOf(k)]

\* A step of c: a stutter, a grant of the key it then has, or the end of its use.
LEMMA PoolStep ==
  ASSUME SafeInv, SafeInv', NEW c \in Clients, OthersKept(c),
         c \in Users /\ c \in Users' => key'[c] = key[c]
  PROVE  [Pool!Next]_PoolUser
<1>1. Users \subseteq Clients /\ \A d \in Clients \ {c} : (d \in Users <=> d \in Users') /\ key'[d] = key[d]
  BY DEF Users, OthersKept
<1>2. Users' \subseteq Clients
  BY DEF Users
<1>3. CASE c \in Users <=> c \in Users'
  <2>1. Users' = Users /\ \A d \in Users : key'[d] = key[d]
    BY <1>1, <1>2, <1>3
  <2>2. \A k \in Keys : UserOf(k)' = UserOf(k)
    BY <2>1, SameUsers
  <2>. QED
    BY <2>2 DEF PoolUser
<1>4. CASE c \notin Users /\ c \in Users'
  <2>1. PICK k \in Keys : key'[c] = k
    BY <1>4 DEF SafeInv, TypeInv, KeyInv, Users, Holding
  <2>2. \A d \in Users : key[d] # k
    <3>1. ASSUME NEW d \in Users, key[d] = k
          PROVE  FALSE
      <4>1. d \in Users' /\ key'[d] = k /\ d # c
        BY <1>1, <1>4, <3>1
      <4>2. \A a, b \in Users' : key'[a] = key'[b] => a = b
        BY HoldersDiffer DEF SafeInv, ClientInv, OwnRow, Users, Holding
      <4>. QED
        BY <1>4, <2>1, <4>1, <4>2
    <3>. QED
      BY <3>1
  <2>3. UserOf(k) = Nobody /\ UserOf(k)' = c
    <3>1. UserOf(k) = Nobody
      BY <2>2, UserFact
    <3>2. \A d \in Users' : key'[d] = k => d = c
      BY <1>1, <1>2, <2>2
    <3>. QED
      BY <1>4, <2>1, <3>1, <3>2 DEF UserOf
  <2>4. ASSUME NEW j \in Keys, j # k
        PROVE  UserOf(j)' = UserOf(j)
    <3>1. \A d : (d \in Users' /\ key'[d] = j) <=> (d \in Users /\ key[d] = j)
      BY <1>1, <1>2, <1>4, <2>1, <2>4
    <3>. QED
      BY <3>1 DEF UserOf
  <2>5. \A j \in Keys : UserOf(j) # c
    <3>1. c # Nobody
      BY ClientAssumption DEF Nobody
    <3>2. \A j \in Keys : UserOf(j) = Nobody \/ UserOf(j) \in Users
      BY DEF UserOf
    <3>. QED
      BY <1>4, <3>1, <3>2
  <2>6. Pool!Grant(c, k)
    BY <2>3, <2>4, <2>5 DEF Pool!Grant
  <2>. QED
    BY <2>6 DEF Pool!Next
<1>5. CASE c \in Users /\ c \notin Users'
  <2>1. PICK k \in Keys : key[c] = k
    BY <1>5 DEF SafeInv, TypeInv, KeyInv, Users, Holding
  <2>2. UserOf(k) = c
    BY <1>5, <2>1, UserFact
  <2>3. UserOf(k)' = Nobody
    <3>1. \A d \in Users' : key'[d] # k
      <4>1. ASSUME NEW d \in Users', key'[d] = k
            PROVE  FALSE
        <5>1. d \in Users /\ key[d] = k /\ d # c
          BY <1>1, <1>2, <1>5, <4>1
        <5>. QED
          BY <1>5, <2>1, <5>1, HoldersDiffer DEF Users, Holding
      <4>. QED
        BY <4>1
    <3>. QED
      BY <3>1 DEF UserOf
  <2>4. ASSUME NEW j \in Keys, j # k
        PROVE  UserOf(j)' = UserOf(j)
    <3>1. \A d : (d \in Users' /\ key'[d] = j) <=> (d \in Users /\ key[d] = j)
      BY <1>1, <1>2, <1>5, <2>1, <2>4
    <3>. QED
      BY <3>1 DEF UserOf
  <2>5. Pool!GiveBack(c, k)
    BY <2>2, <2>3, <2>4 DEF Pool!GiveBack
  <2>. QED
    BY <2>5 DEF Pool!Next
<1>. QED
  BY <1>3, <1>4, <1>5

\* A client that stays a user stays the user of the same key.
LEMMA KeyStays ==
  ASSUME TypeInv, NEW c \in Clients, c \in Users, c \in Users',
         \/ Request(c) \/ GiveUp(c) \/ Quit(c) \/ Prepare(c) \/ Crash(c)
         \/ Take(c) \/ Heartbeat(c) \/ Done(c) \/ Release(c)
  PROVE  key'[c] = key[c]
<1>. USE DEF TypeInv, TypeOK, ThreadTypeOK, Users, Goto, Forget
<1>1. CASE Request(c) \/ GiveUp(c) \/ Quit(c) \/ Prepare(c) \/ Crash(c)
  BY <1>1 DEF Request, GiveUp, Quit, Prepare, PrepareOk, PrepareFail, Crash
<1>2. CASE Take(c)
  BY <1>2 DEF Take, AskNoItems, AskLimit, AskBusy, AskFree, InsertLease, InsertTaken, InsertNone, Granted, GrantGone
<1>3. CASE Heartbeat(c)
  BY <1>3 DEF Heartbeat, BeatRead, BeatLost, BeatBlip, BeatDone, BeatStale
<1>4. CASE Done(c) \/ Release(c)
  BY <1>4 DEF Done, Release, Joined, Check, CheckRead, CheckLost, CheckDone, CheckStale,
              ResetOk, ResetFail, GiveGone, GiveRead, GiveWrite
<1>. QED
  BY <1>1, <1>2, <1>3, <1>4

LEMMA PoolNext == Timely /\ SafeInv /\ SafeInv' /\ [Next]_vars => [Pool!Next]_PoolUser
<1>. SUFFICES ASSUME Timely, SafeInv, SafeInv', [Next]_vars
              PROVE  [Pool!Next]_PoolUser
  OBVIOUS
<1>1. CASE UNCHANGED vars \/ Tick
  <2>1. Users' = Users /\ key' = key
    BY <1>1 DEF vars, threadVars, Tick, Users
  <2>2. \A k \in Keys : UserOf(k)' = UserOf(k)
    BY <2>1, SameUsers
  <2>. QED
    BY <2>2 DEF PoolUser
<1>2. ASSUME NEW c \in Clients,
             \/ Request(c) \/ GiveUp(c) \/ Quit(c) \/ Prepare(c) \/ Crash(c)
             \/ Take(c) \/ Heartbeat(c) \/ Done(c) \/ Release(c)
      PROVE  [Pool!Next]_PoolUser
  <2>1. StepOf(c)
    BY DEF StepOf, SafeInv
  <2>2. Kept(c)
    BY <1>2, <2>1, AcquireKeeps, AskKeeps, GrantKeeps, HeartbeatKeeps, ReleaseKeeps DEF Prepare, Take
  <2>3. c \in Users /\ c \in Users' => key'[c] = key[c]
    BY <1>2, KeyStays DEF SafeInv
  <2>. QED
    BY <2>2, <2>3, PoolStep DEF Kept
<1>3. ~AdminStep
  BY DEF Timely, AdminStep
<1>. QED
  BY <1>1, <1>2, <1>3 DEF Next

LEMMA PoolInit == Init => Pool!Init
BY DEF Init, Pool!Init, UserOf, Users

\* The lease tables, with clients that run hooks and send heartbeats, give what
\* KeyPool promises: a key is granted only while nobody uses it.
THEOREM LeasesRefinePool == Timely /\ Spec => PoolSpec
<1>1. Timely => (Spec => PoolSpec)
  <2>. SUFFICES ASSUME Timely
                PROVE  Spec => PoolSpec
    OBVIOUS
  <2>1. SafeInv /\ SafeInv' /\ [Next]_vars => [Pool!Next]_[k \in Keys |-> UserOf(k)]
    BY PoolNext DEF PoolUser
  <2>2. Spec => []SafeInv
    BY SafeInvHolds
  <2>. QED
    BY <2>1, <2>2, PoolInit, PTL DEF Spec, PoolSpec, Pool!Spec
<1>. QED
  BY <1>1

-----------------------------------------------------------------------------
(* A lease that ran out is never revived: in every environment, for every  *)
(* timing, with frozen processes and keys taken back by hand.              *)

\* A heartbeat that has found its row writes in the same tick: the row may be gone
\* or another's by then, but not expired.
BeatInv ==
  \A c \in Clients : beat[c] = "read" =>
    pc[c] \in {"using", "join", "check"} /\ (leases[key[c]] = NoRow \/ Left(c) >= 0)
AgeInv == TypeInv /\ BeatInv

\* What a step other than a tick does to a row: nothing, remove it, make it, or push it.
RowStep(k) ==
  \/ leases'[k] = leases[k]
  \/ leases'[k] = NoRow
  \/ leases[k] = NoRow /\ leases'[k].left = TTL
  \/ /\ \E c \in Clients : beat[c] = "read" /\ key[c] = k
     /\ leases'[k].left = TTL

LEMMA RowSteps ==
  ASSUME TypeInv, Next, ~Tick, NEW k \in Keys
  PROVE  RowStep(k)
<1>. USE DEF TypeInv, TypeOK, StoreTypeOK, ThreadTypeOK, RowStep
<1>1. CASE leases' = leases
  BY <1>1
<1>2. CASE leases' = LiveLeases
  BY <1>2 DEF LiveLeases
<1>3. ASSUME NEW c \in Clients, NEW j \in Keys, Insert(c, j)
      PROVE  RowStep(k)
  BY <1>3 DEF Insert
<1>4. ASSUME NEW c \in Clients, beat[c] = "read", BeatWrite(key[c])
      PROVE  RowStep(k)
  BY <1>4 DEF BeatWrite
<1>5. ASSUME NEW j, leases' = [leases EXCEPT ![j] = NoRow]
      PROVE  RowStep(k)
  BY <1>5
<1>6. ASSUME NEW c \in Clients, Request(c) \/ GiveUp(c) \/ Quit(c) \/ Prepare(c) \/ Crash(c) \/ Done(c)
      PROVE  RowStep(k)
  <2>1. leases' = leases
    BY <1>6 DEF Request, GiveUp, Quit, Prepare, PrepareOk, PrepareFail, Crash, Done,
                storeVars, DisableQuietly, SetDisabled, Leave
  <2>. QED
    BY <1>1, <2>1
<1>7. ASSUME NEW c \in Clients, Take(c)
      PROVE  RowStep(k)
  <2>1. CASE AskNoItems(c) \/ AskLimit(c) \/ AskBusy(c) \/ AskFree(c)
    <3>1. leases' = LiveLeases
      BY <2>1 DEF AskNoItems, AskLimit, AskBusy, AskFree, TakeNoItems, TakeLimit, TakeEnqueue
    <3>. QED
      BY <1>2, <3>1
  <2>2. CASE InsertLease(c)
    <3>1. PICK j \in Keys : Insert(c, j)
      BY <2>2 DEF InsertLease
    <3>. QED
      BY <1>3, <3>1
  <2>3. CASE InsertTaken(c) \/ InsertNone(c) \/ Granted(c) \/ GrantGone(c)
    <3>1. leases' = leases
      BY <2>3 DEF InsertTaken, InsertNone, Granted, GrantGone, AfterInsert, storeVars
    <3>. QED
      BY <1>1, <3>1
  <2>. QED
    BY <1>7, <2>1, <2>2, <2>3 DEF Take
<1>8. ASSUME NEW c \in Clients, Heartbeat(c) \/ Release(c)
      PROVE  RowStep(k)
  <2>1. CASE BeatDone(c) \/ CheckDone(c)
    BY <1>4, <2>1 DEF BeatDone, CheckDone
  <2>2. CASE GiveWrite(c)
    BY <1>5, <2>2 DEF GiveWrite, ReleaseWrite
  <2>3. CASE \/ BeatRead(c) \/ BeatLost(c) \/ BeatBlip(c) \/ BeatStale(c) \/ Joined(c)
             \/ CheckRead(c) \/ CheckLost(c) \/ CheckStale(c) \/ ResetOk(c) \/ ResetFail(c)
             \/ GiveGone(c) \/ GiveRead(c)
    <3>1. leases' = leases
      BY <2>3 DEF BeatRead, BeatLost, BeatBlip, BeatStale, Joined, CheckRead, CheckLost, CheckStale,
                  ResetOk, ResetFail, GiveGone, GiveRead, storeVars, DisableQuietly, SetDisabled
    <3>. QED
      BY <1>1, <3>1
  <2>. QED
    BY <1>8, <2>1, <2>2, <2>3 DEF Heartbeat, Release, Check
<1>9. CASE AdminStep
  BY <1>1, <1>5, <1>9 DEF AdminStep, ForceRelease, SetDisabled
<1>. QED
  BY <1>6, <1>7, <1>8, <1>9 DEF Next

\* Only a heartbeat that finds a live row opens a session that will push it.
LEMMA BeatSteps ==
  ASSUME TypeInv, BeatInv, Next, NEW c \in Clients, beat'[c] = "read"
  PROVE  /\ pc'[c] \in {"using", "join", "check"}
         /\ key'[c] = key[c]
         /\ beat[c] = "read" \/ (leases' = leases /\ leases[key[c]].left >= 0)
<1>1. CASE AdminStep \/ Tick
  <2>1. pc' = pc /\ key' = key /\ beat' = beat
    BY <1>1 DEF AdminStep, Tick, threadVars
  <2>. QED
    BY <2>1 DEF BeatInv
<1>2. ASSUME NEW d \in Clients, Request(d) \/ GiveUp(d) \/ Quit(d) \/ Prepare(d) \/ Crash(d) \/ Done(d)
      PROVE  beat[c] = "read" /\ key'[c] = key[c] /\ pc'[c] \in {"using", "join", "check"}
  BY <1>2 DEF TypeInv, TypeOK, ThreadTypeOK, BeatInv, Goto, Forget, Request, GiveUp, Quit, Prepare, PrepareOk, PrepareFail, Crash, Done
<1>3. ASSUME NEW d \in Clients, Take(d)
      PROVE  beat[c] = "read" /\ key'[c] = key[c] /\ pc'[c] \in {"using", "join", "check"}
  BY <1>3 DEF TypeInv, TypeOK, ThreadTypeOK, BeatInv, Goto, Forget, Take, AskNoItems, AskLimit, AskBusy, AskFree, InsertLease, InsertTaken, InsertNone, Granted, GrantGone
<1>4. ASSUME NEW d \in Clients, BeatRead(d) \/ CheckRead(d)
      PROVE  /\ pc'[c] \in {"using", "join", "check"} /\ key'[c] = key[c]
             /\ beat[c] = "read" \/ (leases' = leases /\ leases[key[c]].left >= 0)
  <2>1. leases' = leases /\ key' = key
    BY <1>4 DEF BeatRead, CheckRead, storeVars
  <2>2. CASE c = d
    BY <1>4, <2>1, <2>2 DEF TypeInv, TypeOK, ThreadTypeOK, BeatInv, Goto, Forget, MayBeat, BeatRead, CheckRead
  <2>3. CASE c # d
    BY <1>4, <2>1, <2>3 DEF TypeInv, TypeOK, ThreadTypeOK, BeatInv, Goto, Forget, MayBeat, BeatRead, CheckRead
  <2>. QED
    BY <2>2, <2>3
<1>5. ASSUME NEW d \in Clients, BeatLost(d) \/ BeatBlip(d) \/ BeatDone(d) \/ BeatStale(d)
      PROVE  beat[c] = "read" /\ key'[c] = key[c] /\ pc'[c] \in {"using", "join", "check"}
  BY <1>5 DEF TypeInv, TypeOK, ThreadTypeOK, BeatInv, Goto, Forget, BeatLost, BeatBlip, BeatDone, BeatStale
<1>6. ASSUME NEW d \in Clients, Joined(d) \/ CheckLost(d) \/ CheckDone(d) \/ CheckStale(d)
      PROVE  beat[c] = "read" /\ key'[c] = key[c] /\ pc'[c] \in {"using", "join", "check"}
  BY <1>6 DEF TypeInv, TypeOK, ThreadTypeOK, BeatInv, Goto, Forget, Joined, CheckLost, CheckDone, CheckStale
<1>7. ASSUME NEW d \in Clients, ResetOk(d) \/ ResetFail(d) \/ GiveGone(d) \/ GiveRead(d) \/ GiveWrite(d)
      PROVE  beat[c] = "read" /\ key'[c] = key[c] /\ pc'[c] \in {"using", "join", "check"}
  BY <1>7 DEF TypeInv, TypeOK, ThreadTypeOK, BeatInv, Goto, Forget, ResetOk, ResetFail, GiveGone, GiveRead, GiveWrite, Released
<1>8. CASE \E d \in Clients : Heartbeat(d) \/ Release(d)
  <2>1. PICK d \in Clients : Heartbeat(d) \/ Release(d)
    BY <1>8
  <2>2. CASE BeatRead(d) \/ CheckRead(d)
    BY <1>4, <2>2
  <2>3. CASE BeatLost(d) \/ BeatBlip(d) \/ BeatDone(d) \/ BeatStale(d)
    BY <1>5, <2>3
  <2>4. CASE Joined(d) \/ CheckLost(d) \/ CheckDone(d) \/ CheckStale(d)
    BY <1>6, <2>4
  <2>5. CASE ResetOk(d) \/ ResetFail(d) \/ GiveGone(d) \/ GiveRead(d) \/ GiveWrite(d)
    BY <1>7, <2>5
  <2>. QED
    BY <2>1, <2>2, <2>3, <2>4, <2>5 DEF Heartbeat, Release, Check
<1>9. CASE \E d \in Clients : Request(d) \/ GiveUp(d) \/ Quit(d) \/ Prepare(d) \/ Crash(d) \/ Done(d) \/ Take(d)
  <2>1. PICK d \in Clients : Request(d) \/ GiveUp(d) \/ Quit(d) \/ Prepare(d) \/ Crash(d) \/ Done(d) \/ Take(d)
    BY <1>9
  <2>2. CASE Take(d)
    BY <1>3, <2>2
  <2>3. CASE Request(d) \/ GiveUp(d) \/ Quit(d) \/ Prepare(d) \/ Crash(d) \/ Done(d)
    BY <1>2, <2>3
  <2>. QED
    BY <2>1, <2>2, <2>3
<1>. QED
  BY <1>1, <1>8, <1>9 DEF Next

LEMMA NextAge == AgeInv /\ [Next]_vars => BeatInv'
<1>. SUFFICES ASSUME AgeInv, [Next]_vars, NEW c \in Clients, beat'[c] = "read"
              PROVE  /\ pc'[c] \in {"using", "join", "check"}
                     /\ leases'[key'[c]] = NoRow \/ leases'[key'[c]].left >= 0
  BY DEF BeatInv, Left
<1>. USE StoreAssumption
<1>1. CASE UNCHANGED vars
  BY <1>1 DEF vars, storeVars, threadVars, AgeInv, BeatInv, Left
<1>2. CASE Next
  <2>1. /\ pc'[c] \in {"using", "join", "check"} /\ key'[c] = key[c]
        /\ beat[c] = "read" \/ (leases' = leases /\ leases[key[c]].left >= 0)
    BY <1>2, BeatSteps DEF AgeInv
  <2>2. CASE beat[c] = "read"
    <3>1. ~Tick
      BY <2>2 DEF Tick, BetweenCalls
    <3>2. key[c] \in Keys /\ (leases[key[c]] = NoRow \/ leases[key[c]].left >= 0)
      BY <2>2 DEF AgeInv, TypeInv, BeatInv, KeyInv, Holding, Left
    <3>3. RowStep(key[c])
      BY <1>2, <3>1, <3>2, RowSteps DEF AgeInv
    <3>. QED
      BY <2>1, <3>2, <3>3 DEF RowStep
  <2>3. CASE leases' = leases /\ leases[key[c]].left >= 0
    BY <2>1, <2>3
  <2>. QED
    BY <2>1, <2>2, <2>3
<1>. QED
  BY <1>1, <1>2

LEMMA AgeStep ==
  ASSUME AgeInv, [Next]_vars, NEW k \in Keys, leases[k] # NoRow, leases[k].left < 0
  PROVE  leases'[k] = NoRow \/ leases'[k].left < 0
<1>1. CASE UNCHANGED vars
  BY <1>1 DEF vars, storeVars
<1>2. CASE Tick
  <2>1. leases[k].left \in Int
    BY StoreAssumption DEF AgeInv, TypeInv, TypeOK, StoreTypeOK, Row, Lefts
  <2>. QED
    BY <1>2, <2>1 DEF Tick, StoreTick
<1>3. CASE Next /\ ~Tick
  <2>1. RowStep(k)
    BY <1>3, RowSteps DEF AgeInv
  <2>2. ASSUME NEW c \in Clients, beat[c] = "read", key[c] = k
        PROVE  FALSE
    <3>1. leases[k].left \in Int
      BY StoreAssumption DEF AgeInv, TypeInv, TypeOK, StoreTypeOK, Row, Lefts
    <3>. QED
      BY <2>2, <3>1 DEF AgeInv, BeatInv, Left
  <2>. QED
    BY <2>1, <2>2 DEF RowStep
<1>. QED
  BY <1>1, <1>2, <1>3

\* A holder that was frozen past its lease learns that it lost the key: no heartbeat
\* makes an expired lease live again, in any environment.
THEOREM NoRevival == Spec => ExpiredStaysExpired
<1>1. Init => AgeInv
  BY InitType DEF Init, AgeInv, BeatInv
<1>2. AgeInv /\ [Next]_vars => AgeInv'
  BY NextType, NextAge DEF AgeInv
<1>3. AgeInv /\ [Next]_vars => [NeverRevived]_vars
  BY AgeStep DEF NeverRevived
<1>. QED
  BY <1>1, <1>2, <1>3, PTL DEF Spec, ExpiredStaysExpired

-----------------------------------------------------------------------------
(* A key marked clean has not been touched since its last reset.           *)

\* The mark travels from on_release to the store while the key is still c's.
MarkInv ==
  /\ clean \intersect used = {}
  /\ \A c \in Clients : mark[c] = "clean" => pc[c] \in {"give", "giving"} /\ key[c] \notin used

\* c's step neither adds a clean key, nor a used one, nor a mark.
Unmarked(c) ==
  /\ clean' \subseteq clean /\ used' \subseteq used
  /\ mark'[c] # "clean"

LEMMA MarkStep ==
  ASSUME NEW c, StepOf(c), OthersKept(c), MarkInv,
         \/ Request(c) \/ GiveUp(c) \/ Quit(c) \/ Prepare(c) \/ Crash(c)
         \/ Take(c) \/ Heartbeat(c) \/ Done(c) \/ Release(c)
  PROVE  MarkInv'
<1>. USE DEF StepOf, SafeInv, TypeInv, TypeOK, ThreadTypeOK, Goto, Forget
<1>0. \A d \in Clients \ {c} : mark'[d] = mark[d]
  <2>1. mark' = mark \/ \E m : mark' = [mark EXCEPT ![c] = m]
    <3>1. CASE Request(c) \/ GiveUp(c) \/ Quit(c) \/ Prepare(c) \/ Crash(c) \/ Done(c)
      BY <3>1 DEF Request, GiveUp, Quit, Prepare, PrepareOk, PrepareFail, Crash, Done
    <3>2. CASE Take(c)
      BY <3>2 DEF Take, AskNoItems, AskLimit, AskBusy, AskFree, InsertLease, InsertTaken, InsertNone, Granted, GrantGone
    <3>3. CASE Heartbeat(c)
      BY <3>3 DEF Heartbeat, BeatRead, BeatLost, BeatBlip, BeatDone, BeatStale
    <3>4. CASE Release(c)
      BY <3>4 DEF Release, Joined, Check, CheckRead, CheckLost, CheckDone, CheckStale,
                  ResetOk, ResetFail, GiveGone, GiveRead, GiveWrite
    <3>. QED
      BY <3>1, <3>2, <3>3, <3>4
  <2>. QED
    BY <2>1
<1>1. ASSUME Unmarked(c)
      PROVE  MarkInv'
  BY <1>0, <1>1 DEF MarkInv, Unmarked, OthersKept
<1>2. ASSUME pc[c] \notin {"give", "giving"}
      PROVE  mark[c] # "clean"
  BY <1>2 DEF MarkInv
<1>3. CASE Request(c) \/ GiveUp(c) \/ Quit(c) \/ Prepare(c) \/ Crash(c) \/ Done(c)
  <2>1. Unmarked(c)
    BY <1>2, <1>3 DEF Unmarked, Request, GiveUp, Quit, Leave, Prepare, PrepareOk, PrepareFail,
                      DisableQuietly, SetDisabled, Crash, Done, storeVars
  <2>. QED
    BY <1>1, <2>1
<1>4. CASE Take(c)
  <2>1. CASE Granted(c)
    <3>1. /\ used' = used \union {key[c]} /\ clean' = clean \ {key[c]} /\ mark' = mark
          /\ pc[c] = "finish"
      BY <2>1 DEF Granted, AfterInsert
    <3>2. ASSUME NEW d \in Clients \ {c}, mark[d] = "clean"
          PROVE  pc'[d] \in {"give", "giving"} /\ key'[d] \notin used'
      <4>1. pc[d] \in {"give", "giving"} /\ key[d] \notin used /\ key[d] # key[c]
        BY <3>1, <3>2, HoldersDiffer DEF MarkInv, Holding
      <4>. QED
        BY <3>1, <4>1 DEF OthersKept
    <3>. QED
      BY <1>2, <3>1, <3>2 DEF MarkInv
  <2>2. CASE GrantGone(c)
    <3>1. Unmarked(c)
      BY <1>2, <2>2 DEF Unmarked, GrantGone, AfterInsert
    <3>. QED
      BY <1>1, <3>1
  <2>3. CASE AskNoItems(c) \/ AskLimit(c) \/ AskBusy(c) \/ AskFree(c)
    <3>1. Unmarked(c)
      BY <1>2, <2>3 DEF Unmarked, AskNoItems, AskLimit, AskBusy, AskFree, TakeNoItems, TakeLimit, TakeEnqueue
    <3>. QED
      BY <1>1, <3>1
  <2>4. CASE InsertLease(c) \/ InsertTaken(c) \/ InsertNone(c)
    <3>1. Unmarked(c)
      BY <1>2, <2>4 DEF Unmarked, InsertLease, Insert, InsertTaken, InsertNone, storeVars
    <3>. QED
      BY <1>1, <3>1
  <2>. QED
    BY <1>4, <2>1, <2>2, <2>3, <2>4 DEF Take
<1>5. CASE Heartbeat(c)
  <2>1. Unmarked(c)
    BY <1>2, <1>5 DEF Unmarked, Heartbeat, BeatRead, BeatLost, BeatBlip, BeatDone, BeatWrite, BeatStale, storeVars
  <2>. QED
    BY <1>1, <2>1
<1>6. CASE Joined(c) \/ Check(c) \/ ResetFail(c) \/ GiveGone(c)
  <2>1. Unmarked(c)
    BY <1>2, <1>6 DEF Unmarked, Joined, Check, CheckRead, CheckLost, CheckDone, CheckStale, BeatWrite,
                      ResetFail, DisableQuietly, SetDisabled, GiveGone, storeVars
  <2>. QED
    BY <1>1, <2>1
<1>7. CASE ResetOk(c)
  <2>1. used' = used \ {key[c]} /\ clean' = clean /\ pc'[c] = "give" /\ key' = key
    BY <1>7 DEF ResetOk, storeVars
  <2>. QED
    BY <1>0, <2>1 DEF MarkInv, OthersKept
<1>8. CASE GiveRead(c)
  <2>1. used' = used /\ clean' = clean /\ key' = key /\ pc'[c] = "giving" /\ pc[c] = "give"
        /\ (mark'[c] = "clean" => mark[c] = "clean")
    BY <1>8 DEF GiveRead, storeVars
  <2>. QED
    BY <1>0, <2>1 DEF MarkInv, OthersKept
<1>9. CASE GiveWrite(c)
  <2>1. used' = used /\ mark'[c] = "dirty"
        /\ (clean' \subseteq clean \/ (mark[c] = "clean" /\ clean' = clean \union {key[c]}))
    <3>1. used' = used /\ mark'[c] = "dirty" /\ ReleaseWrite(key[c], mark[c])
      BY <1>9 DEF GiveWrite
    <3>2. clean' \subseteq clean \/ (mark[c] = "clean" /\ clean' = clean \union {key[c]})
      BY <3>1 DEF ReleaseWrite
    <3>. QED
      BY <3>1, <3>2
  <2>. QED
    BY <1>0, <2>1 DEF MarkInv, OthersKept
<1>. QED
  BY <1>3, <1>4, <1>5, <1>6, <1>7, <1>8, <1>9 DEF Release

LEMMA NextMark == Timely /\ SafeInv /\ MarkInv /\ [Next]_vars => MarkInv'
<1>. SUFFICES ASSUME Timely, SafeInv, MarkInv, [Next]_vars
              PROVE  MarkInv'
  OBVIOUS
<1>1. CASE UNCHANGED vars
  BY <1>1 DEF vars, storeVars, threadVars, MarkInv
<1>2. CASE Tick
  BY <1>2 DEF Tick, StoreTick, MarkInv
<1>3. ASSUME NEW c \in Clients,
             \/ Request(c) \/ GiveUp(c) \/ Quit(c) \/ Prepare(c) \/ Crash(c)
             \/ Take(c) \/ Heartbeat(c) \/ Done(c) \/ Release(c)
      PROVE  MarkInv'
  <2>1. StepOf(c)
    BY NextType DEF StepOf, SafeInv
  <2>2. OthersKept(c)
    BY <1>3, <2>1, AcquireKeeps, AskKeeps, GrantKeeps, HeartbeatKeeps, ReleaseKeeps DEF Prepare, Take, Kept
  <2>. QED
    BY <1>3, <2>1, <2>2, MarkStep
<1>4. ~AdminStep
  BY DEF Timely, AdminStep
<1>. QED
  BY <1>1, <1>2, <1>3, <1>4 DEF Next

\* A key is marked clean only when an on_release worked after its last use.
THEOREM CleanIsReset == Timely /\ Spec => []CleanMeansReset
<1>1. Timely => (Spec => []CleanMeansReset)
  <2>. SUFFICES ASSUME Timely
                PROVE  Spec => []CleanMeansReset
    OBVIOUS
  <2>1. Init => MarkInv
    BY DEF Init, StoreInit, MarkInv
  <2>2. SafeInv /\ MarkInv /\ [Next]_vars => MarkInv'
    BY NextMark
  <2>3. MarkInv => CleanMeansReset
    BY DEF MarkInv, CleanMeansReset
  <2>4. Spec => []SafeInv
    BY SafeInvHolds
  <2>. QED
    BY <2>1, <2>2, <2>3, <2>4, PTL DEF Spec
<1>. QED
  BY <1>1

-----------------------------------------------------------------------------
(* A key goes to the oldest waiter that can use it, provided that, besides *)
(* Timely, two clients want the same keys or none in common. With labels   *)
(* that overlap in part, a later waiter may take the one key that a waiter *)
(* before it could have used: take() counts the waiters ahead of it, not   *)
(* the keys each of them could take.                                       *)

Alike == \A c, d \in Clients : Wants[c] = Wants[d] \/ Wants[c] \intersect Wants[d] = {}
Finite == IsFiniteSet(Clients) /\ IsFiniteSet(Keys)
OldestGoFirst == Timely /\ Alike /\ Finite

\* `before` is one order of all waiters.
Line(ws) ==
  /\ \A x \in Queued(ws) : ws[x].before \subseteq Queued(ws) \ {x}
  /\ \A x, y \in Queued(ws) : x = y \/ x \in ws[y].before \/ y \in ws[x].before
  /\ \A y, z \in Queued(ws) : y \in ws[z].before => ws[y].before \subseteq ws[z].before

\* A waiter's row outlives neither its request nor its wishes.
Waiting == {"ask", "insert", "finish", "quit", "dead"}
WaiterFact(x) ==
  /\ pc[x] \in Waiting
  /\ waiters[x].want \subseteq Wants[x]
  /\ Wants[x] \ disabled \subseteq waiters[x].want

\* The keys c may have now, and the waiters before it that may still take one of them.
Open(c) == Wants[c] \ (Held(leases) \union disabled)
Older(c) == {x \in waiters[c].before : pc[x] \in {"ask", "insert"} /\ Wants[x] = Wants[c]}

\* From the look at the queue to the insert, there is a key for each of them and one for c.
Spare(c) ==
  /\ waiters[c] # NoWaiter /\ waiters[c].age = 0
  /\ todo[c] \subseteq Wants[c]
  /\ Cardinality(Older(c)) < Cardinality(Open(c))

QueueInv ==
  /\ Line(waiters)
  /\ \A x \in Queued(waiters) : WaiterFact(x)
  /\ \A c \in Clients : pc[c] = "insert" => Spare(c)

\* Counting: a part is no larger, a part without x is smaller, one key makes a difference of one.
LEMMA Counting ==
  ASSUME NEW T, IsFiniteSet(T), NEW S \in SUBSET T
  PROVE  /\ Cardinality(S) \in Nat /\ Cardinality(T) \in Nat
         /\ Cardinality(S) <= Cardinality(T)
         /\ \A x \in T : x \notin S => Cardinality(S) < Cardinality(T)
         /\ \A x : T \ {x} \subseteq S => Cardinality(T) <= Cardinality(S) + 1
<1>1. /\ Cardinality(S) \in Nat /\ Cardinality(T) \in Nat /\ Cardinality(S) <= Cardinality(T)
      /\ IsFiniteSet(S)
  BY FS_Subset, FS_CardinalityType
<1>2. ASSUME NEW x \in T, x \notin S
      PROVE  Cardinality(S) < Cardinality(T)
  BY <1>1, <1>2, FS_Subset
<1>3. ASSUME NEW x, T \ {x} \subseteq S
      PROVE  Cardinality(T) <= Cardinality(S) + 1
  <2>1. S = T \/ S = T \ {x}
    BY <1>3
  <2>. QED
    BY <1>1, <2>1, FS_RemoveElement
<1>. QED
  BY <1>1, <1>2, <1>3

LEMMA WithoutFact ==
  ASSUME NEW ws \in WaiterTable, NEW gone
  PROVE  /\ Queued(Without(ws, gone)) = Queued(ws) \ gone
         /\ \A x \in Queued(ws) \ gone :
              /\ Without(ws, gone)[x].want = ws[x].want
              /\ Without(ws, gone)[x].age = ws[x].age
              /\ Without(ws, gone)[x].before = ws[x].before \ gone
<1>1. ASSUME NEW x \in Clients, ws[x] # NoWaiter
      PROVE  [want |-> ws[x].want, age |-> ws[x].age, before |-> ws[x].before \ gone] # NoWaiter
  <2>1. ws[x].age \in Nat
    BY <1>1, StoreAssumption DEF WaiterTable, Waiter
  <2>. QED
    BY <2>1 DEF NoWaiter
<1>. QED
  BY <1>1 DEF Without, Queued

LEMMA WithoutLine ==
  ASSUME NEW ws \in WaiterTable, NEW gone, Line(ws)
  PROVE  Line(Without(ws, gone))
<1>. DEFINE vs == Without(ws, gone)
<1>1. Queued(vs) = Queued(ws) \ gone /\ \A x \in Queued(vs) : vs[x].before = ws[x].before \ gone
  BY WithoutFact
<1>. HIDE DEF vs
<1>2. Line(vs)
  BY <1>1 DEF Line
<1>. QED
  BY <1>2 DEF vs

\* Who has timed out, and what is left of the others' rows.
TimedOut == {c \in Queued(waiters) : waiters[c].age > WaiterTTL}

LEMMA LiveFact ==
  ASSUME StoreTypeOK
  PROVE  /\ Queued(LiveWaiters) = Queued(waiters) \ TimedOut
         /\ \A x \in Queued(waiters) \ TimedOut :
              /\ LiveWaiters[x].want = waiters[x].want
              /\ LiveWaiters[x].age = waiters[x].age
              /\ LiveWaiters[x].before = waiters[x].before \ TimedOut
         /\ Line(waiters) => Line(LiveWaiters)
BY WithoutFact, WithoutLine DEF LiveWaiters, TimedOut, StoreTypeOK, WaiterTable

\* The caller joins at the end, or keeps its place.
LEMMA EnterFact ==
  ASSUME StoreTypeOK, NEW c \in Clients
  PROVE  /\ Queued(WaitersWith(c)) = Queued(LiveWaiters) \union {c}
         /\ \A x \in Queued(LiveWaiters) \ {c} : WaitersWith(c)[x] = LiveWaiters[x]
         /\ WaitersWith(c)[c].age = 0
         /\ c \in Queued(LiveWaiters) =>
              /\ WaitersWith(c)[c].want = LiveWaiters[c].want
              /\ WaitersWith(c)[c].before = LiveWaiters[c].before
         /\ c \notin Queued(LiveWaiters) =>
              /\ WaitersWith(c)[c].want = Candidates(c)
              /\ WaitersWith(c)[c].before = Queued(LiveWaiters)
<1>. DEFINE fresh == [want |-> Candidates(c), age |-> 0, before |-> Queued(LiveWaiters)]
            again == [want |-> LiveWaiters[c].want, age |-> 0, before |-> LiveWaiters[c].before]
<1>1. fresh # NoWaiter /\ again # NoWaiter
  BY DEF NoWaiter
<1>2. LiveWaiters \in WaiterTable
  BY LiveType
<1>3. WaitersWith(c) = [LiveWaiters EXCEPT ![c] = IF LiveWaiters[c] = NoWaiter THEN fresh ELSE again]
  BY DEF WaitersWith
<1>4. \A x \in Clients \ {c} : WaitersWith(c)[x] = LiveWaiters[x]
  BY <1>2, <1>3 DEF WaiterTable
<1>5. WaitersWith(c)[c] = IF c \in Queued(LiveWaiters) THEN again ELSE fresh
  BY <1>2, <1>3 DEF WaiterTable, Queued
<1>6. Queued(WaitersWith(c)) = Queued(LiveWaiters) \union {c}
  BY <1>1, <1>4, <1>5 DEF Queued
<1>7. Queued(LiveWaiters) \subseteq Clients
  BY DEF Queued
<1>. QED
  BY <1>4, <1>5, <1>6, <1>7

LEMMA EnterLine ==
  ASSUME StoreTypeOK, NEW c \in Clients, Line(waiters)
  PROVE  Line(WaitersWith(c))
<1>. DEFINE ws == LiveWaiters
            vs == WaitersWith(c)
<1>1. /\ Line(ws)
      /\ Queued(vs) = Queued(ws) \union {c}
      /\ \A x \in Queued(ws) \ {c} : vs[x] = ws[x]
      /\ vs[c].before = IF c \in Queued(ws) THEN ws[c].before ELSE Queued(ws)
  BY LiveFact, EnterFact
<1>. HIDE DEF ws, vs
<1>2. CASE c \in Queued(ws)
  <2>1. Queued(vs) = Queued(ws) /\ \A x \in Queued(ws) : vs[x].before = ws[x].before
    BY <1>1, <1>2
  <2>2. Line(vs)
    BY <1>1, <2>1 DEF Line
  <2>. QED
    BY <2>2 DEF vs
<1>3. CASE c \notin Queued(ws)
  <2>1. vs[c].before = Queued(ws) /\ \A x \in Queued(ws) : x # c /\ vs[x].before = ws[x].before
    BY <1>1, <1>3
  <2>2. Line(vs)
    BY <1>1, <1>3, <2>1 DEF Line
  <2>. QED
    BY <2>2 DEF vs
<1>. QED
  BY <1>2, <1>3

\* What a step of c may do to another client's row: it only comes closer to the
\* head of the queue, and while that client is in insert its row stays.
RowKept(d) ==
  /\ waiters'[d] # NoWaiter =>
       /\ waiters[d] # NoWaiter
       /\ waiters'[d].want = waiters[d].want
       /\ waiters'[d].before \subseteq waiters[d].before
  /\ pc[d] = "insert" => waiters'[d] # NoWaiter /\ waiters'[d].age = 0

\* c's own row, if it has one after its step, is the old one or starts with what c wants.
OwnWish(c) ==
  waiters'[c] # NoWaiter =>
    \/ waiters[c] # NoWaiter /\ waiters'[c].want = waiters[c].want
    \/ waiters'[c].want = Candidates(c)

\* The five things a step does to the queue.
QueueMove(c) ==
  \/ waiters' = waiters
  \/ waiters' = Without(waiters, {c})
  \/ waiters' = LiveWaiters
  \/ waiters' = Without(LiveWaiters, {c})
  \/ waiters' = WaitersWith(c)

LEMMA MoveFact ==
  ASSUME StoreTypeOK, QueueInv, NEW c \in Clients, QueueMove(c)
  PROVE  /\ Line(waiters')
         /\ \A d \in Clients \ {c} : RowKept(d)
         /\ OwnWish(c)
<1>1. waiters \in WaiterTable /\ LiveWaiters \in WaiterTable
  BY LiveType DEF StoreTypeOK, WaiterTable
<1>2. ASSUME NEW d \in Clients, pc[d] = "insert"
      PROVE  d \in Queued(waiters) \ TimedOut /\ waiters[d].age = 0
  BY <1>2, StoreAssumption DEF QueueInv, Spare, Queued, TimedOut
<1>3. CASE waiters' = waiters
  BY <1>2, <1>3 DEF QueueInv, RowKept, OwnWish, Queued
<1>4. ASSUME NEW gone, waiters' = Without(waiters, gone),
             \A d \in Clients \ {c} : pc[d] = "insert" => d \notin gone
      PROVE  Line(waiters') /\ (\A d \in Clients \ {c} : RowKept(d)) /\ OwnWish(c)
  <2>1. Line(waiters')
    BY <1>1, <1>4, WithoutLine DEF QueueInv
  <2>2. /\ Queued(waiters') = Queued(waiters) \ gone
        /\ \A x \in Queued(waiters) \ gone :
             /\ waiters'[x].want = waiters[x].want
             /\ waiters'[x].age = waiters[x].age
             /\ waiters'[x].before = waiters[x].before \ gone
    BY <1>1, <1>4, WithoutFact
  <2>3. \A d \in Clients \ {c} : RowKept(d)
    BY <1>2, <1>4, <2>2 DEF RowKept, Queued
  <2>4. OwnWish(c)
    BY <2>2 DEF OwnWish, Queued
  <2>. QED
    BY <2>1, <2>3, <2>4
<1>5. CASE waiters' = Without(waiters, {c})
  BY <1>4, <1>5
<1>6. CASE waiters' = LiveWaiters
  BY <1>2, <1>4, <1>6 DEF LiveWaiters, TimedOut
<1>7. CASE waiters' = Without(LiveWaiters, {c})
  <2>1. /\ Queued(waiters') = Queued(LiveWaiters) \ {c}
        /\ \A x \in Queued(LiveWaiters) \ {c} :
             /\ waiters'[x].want = LiveWaiters[x].want
             /\ waiters'[x].age = LiveWaiters[x].age
             /\ waiters'[x].before = LiveWaiters[x].before \ {c}
    BY <1>1, <1>7, WithoutFact
  <2>2. Line(waiters')
    BY <1>1, <1>7, LiveFact, WithoutLine DEF QueueInv
  <2>3. \A d \in Clients \ {c} : RowKept(d)
    BY <1>2, <2>1, LiveFact DEF RowKept, Queued
  <2>4. OwnWish(c)
    BY <2>1 DEF OwnWish, Queued
  <2>. QED
    BY <2>2, <2>3, <2>4
<1>8. CASE waiters' = WaitersWith(c)
  <2>1. Line(waiters')
    BY <1>8, EnterLine DEF QueueInv
  <2>2. \A d \in Clients \ {c} : RowKept(d)
    <3>1. ASSUME NEW d \in Clients \ {c}
          PROVE  RowKept(d)
      <4>1. waiters'[d] # NoWaiter => d \in Queued(LiveWaiters)
        BY <1>8, EnterFact DEF Queued
      <4>2. d \in Queued(LiveWaiters) => waiters'[d] = LiveWaiters[d] /\ LiveWaiters[d] # NoWaiter
        BY <1>8, EnterFact DEF Queued
      <4>3. d \in Queued(LiveWaiters) =>
              /\ waiters[d] # NoWaiter
              /\ LiveWaiters[d].want = waiters[d].want /\ LiveWaiters[d].age = waiters[d].age
              /\ LiveWaiters[d].before \subseteq waiters[d].before
        BY LiveFact DEF Queued
      <4>4. pc[d] = "insert" => d \in Queued(LiveWaiters) /\ waiters[d].age = 0
        BY <1>2, LiveFact
      <4>. QED
        BY <4>1, <4>2, <4>3, <4>4 DEF RowKept
    <3>. QED
      BY <3>1
  <2>3. OwnWish(c)
    <3>1. CASE c \in Queued(LiveWaiters)
      BY <1>8, <3>1, EnterFact, LiveFact DEF OwnWish, Queued
    <3>2. CASE c \notin Queued(LiveWaiters)
      BY <1>8, <3>2, EnterFact DEF OwnWish
    <3>. QED
      BY <3>1, <3>2
  <2>. QED
    BY <2>1, <2>2, <2>3
<1>. QED
  BY <1>3, <1>5, <1>6, <1>7, <1>8 DEF QueueMove

-----------------------------------------------------------------------------
\* What each step does to the queue, to the keys, and to c's place.

\* No key that is open now is held or disabled afterwards.
KeysStayOpen ==
  /\ Held(leases') \union disabled' \subseteq Held(leases) \union disabled
  /\ disabled \subseteq disabled'

\* c's row goes before c leaves take(), and an insert begins with a look at the queue.
PlaceStep(c) ==
  /\ waiters'[c] # NoWaiter => pc'[c] \in Waiting
  /\ pc'[c] \in {"ask", "insert"} /\ waiters[c] # NoWaiter => pc[c] \in {"ask", "insert"}
  /\ pc'[c] = "insert" => AskFree(c) \/ InsertTaken(c)

ClientStep(c) ==
  \/ Request(c) \/ GiveUp(c) \/ Quit(c) \/ Prepare(c) \/ Crash(c)
  \/ Take(c) \/ Heartbeat(c) \/ Done(c) \/ Release(c)

LEMMA MoveSteps ==
  ASSUME NEW c, StepOf(c), ClientStep(c)
  PROVE  QueueMove(c)
<1>1. CASE Request(c) \/ GiveUp(c) \/ Quit(c) \/ Prepare(c) \/ Crash(c) \/ Done(c)
  BY <1>1 DEF QueueMove, Request, GiveUp, Quit, Leave, Prepare, PrepareOk, PrepareFail,
              DisableQuietly, SetDisabled, Crash, Done, storeVars
<1>2. CASE Take(c)
  <2>1. CASE AskNoItems(c) \/ AskLimit(c) \/ AskBusy(c) \/ AskFree(c)
    BY <2>1 DEF QueueMove, AskNoItems, AskLimit, AskBusy, AskFree, TakeNoItems, TakeLimit, TakeEnqueue
  <2>2. CASE InsertLease(c) \/ InsertTaken(c) \/ InsertNone(c) \/ Granted(c) \/ GrantGone(c)
    BY <2>2 DEF QueueMove, InsertLease, Insert, InsertTaken, InsertNone, Granted, GrantGone,
                AfterInsert, storeVars
  <2>. QED
    BY <1>2, <2>1, <2>2 DEF Take
<1>3. CASE Heartbeat(c)
  BY <1>3 DEF QueueMove, Heartbeat, BeatRead, BeatLost, BeatBlip, BeatDone, BeatWrite, BeatStale, storeVars
<1>4. CASE Release(c)
  BY <1>4 DEF QueueMove, Release, Joined, Check, CheckRead, CheckLost, CheckDone, CheckStale, BeatWrite,
              ResetOk, ResetFail, DisableQuietly, SetDisabled, GiveGone, GiveRead, GiveWrite,
              ReleaseWrite, storeVars
<1>. QED
  BY <1>1, <1>2, <1>3, <1>4 DEF ClientStep

LEMMA OpenSteps ==
  ASSUME NEW c, StepOf(c), ClientStep(c), ~InsertLease(c)
  PROVE  KeysStayOpen
<1>1. ASSUME leases' = leases \/ leases' = LiveLeases, disabled' = disabled
      PROVE  KeysStayOpen
  BY <1>1 DEF KeysStayOpen, Held, LiveLeases
<1>2. CASE Request(c) \/ GiveUp(c) \/ Quit(c) \/ PrepareOk(c) \/ Crash(c) \/ Done(c)
  <2>1. leases' = leases /\ disabled' = disabled
    BY <1>2 DEF Request, GiveUp, Quit, Leave, PrepareOk, Crash, Done, storeVars
  <2>. QED
    BY <1>1, <2>1
<1>3. CASE PrepareFail(c) \/ ResetFail(c)
  <2>1. pc[c] \in Holding
    BY <1>3 DEF PrepareFail, ResetFail, Holding
  <2>2. key[c] \in Held(leases)
    BY <2>1, RowFact DEF StepOf, Held
  <2>3. leases' = leases /\ (disabled' = disabled \/ disabled' = disabled \union {key[c]})
    BY <1>3 DEF PrepareFail, ResetFail, DisableQuietly, SetDisabled, storeVars
  <2>. QED
    BY <2>2, <2>3 DEF KeysStayOpen
<1>4. CASE Take(c)
  <2>1. /\ leases' = leases \/ leases' = LiveLeases
        /\ disabled' = disabled
    <3>1. CASE AskNoItems(c) \/ AskLimit(c) \/ AskBusy(c) \/ AskFree(c)
      BY <3>1 DEF AskNoItems, AskLimit, AskBusy, AskFree, TakeNoItems, TakeLimit, TakeEnqueue
    <3>2. CASE InsertTaken(c) \/ InsertNone(c) \/ Granted(c) \/ GrantGone(c)
      BY <3>2 DEF InsertTaken, InsertNone, Granted, GrantGone, AfterInsert, storeVars
    <3>. QED
      BY <1>4, <3>1, <3>2 DEF Take
  <2>. QED
    BY <1>1, <2>1
<1>5. ASSUME leases' = [leases EXCEPT ![key[c]] = leases'[key[c]]] \/ leases' = leases,
             key[c] \in Held(leases), disabled' = disabled
      PROVE  KeysStayOpen
  BY <1>5 DEF KeysStayOpen, Held, StepOf, SafeInv, TypeInv, TypeOK, StoreTypeOK
<1>6. ASSUME BeatDone(c) \/ CheckDone(c) \/ GiveWrite(c)
      PROVE  KeysStayOpen
  <2>1. pc[c] \in Holding
    BY <1>6 DEF BeatDone, CheckDone, GiveWrite, Holding
  <2>2. key[c] \in Held(leases) /\ key[c] \in Keys
    BY <2>1, RowFact DEF StepOf, Held
  <2>3. disabled' = disabled /\ leases' = [leases EXCEPT ![key[c]] = leases'[key[c]]]
    BY <1>6, <2>2 DEF BeatDone, CheckDone, BeatWrite, GiveWrite, ReleaseWrite,
                      StepOf, SafeInv, TypeInv, TypeOK, StoreTypeOK
  <2>. QED
    BY <1>5, <2>2, <2>3
<1>7. CASE Heartbeat(c)
  <2>1. CASE BeatRead(c) \/ BeatLost(c) \/ BeatBlip(c) \/ BeatStale(c)
    BY <1>1, <2>1 DEF BeatRead, BeatLost, BeatBlip, BeatStale, storeVars
  <2>. QED
    BY <1>6, <1>7, <2>1 DEF Heartbeat
<1>8. CASE Release(c)
  <2>1. CASE Joined(c) \/ CheckRead(c) \/ CheckLost(c) \/ CheckStale(c) \/ ResetOk(c) \/ GiveGone(c) \/ GiveRead(c)
    <3>1. leases' = leases /\ disabled' = disabled
      BY <2>1 DEF Joined, CheckRead, CheckLost, CheckStale, ResetOk, GiveGone, GiveRead, storeVars
    <3>. QED
      BY <1>1, <3>1
  <2>. QED
    BY <1>3, <1>6, <1>8, <2>1 DEF Release, Check
<1>. QED
  BY <1>2, <1>3, <1>4, <1>7, <1>8 DEF ClientStep, Prepare

LEMMA PlaceSteps ==
  ASSUME NEW c, StepOf(c), ClientStep(c), QueueInv
  PROVE  PlaceStep(c)
<1>. USE DEF StepOf, SafeInv, TypeInv, TypeOK, ThreadTypeOK, Goto
<1>1. waiters[c] # NoWaiter => pc[c] \in Waiting
  BY DEF QueueInv, Queued, WaiterFact
<1>2. OwnWish(c)
  BY MoveSteps, MoveFact
<1>3. CASE GiveUp(c) \/ Crash(c)
  <2>1. pc'[c] \in {"quit", "dead"}
    BY <1>3 DEF GiveUp, Crash, Forget
  <2>. QED
    BY <2>1 DEF PlaceStep, Waiting
<1>4. ASSUME waiters'[c] = NoWaiter, pc'[c] \notin {"ask", "insert"}
      PROVE  PlaceStep(c)
  BY <1>4 DEF PlaceStep
<1>5. CASE Quit(c)
  <2>1. pc'[c] = "idle" /\ waiters'[c] = NoWaiter
    BY <1>5 DEF Quit, Forget, Leave, Without
  <2>. QED
    BY <1>4, <2>1
<1>6. CASE Take(c)
  <2>1. CASE AskNoItems(c) \/ AskLimit(c) \/ AskBusy(c)
    <3>1. pc[c] = "ask" /\ pc'[c] \in {"quit", "ask"}
      BY <2>1 DEF AskNoItems, AskLimit, AskBusy
    <3>. QED
      BY <3>1 DEF PlaceStep, Waiting
  <2>2. CASE AskFree(c) \/ InsertTaken(c)
    <3>1. pc[c] \in {"ask", "insert"} /\ pc'[c] = "insert"
      BY <2>2 DEF AskFree, InsertTaken
    <3>. QED
      BY <2>2, <3>1 DEF PlaceStep, Waiting
  <2>3. CASE InsertLease(c) \/ InsertNone(c)
    <3>1. pc[c] = "insert" /\ pc'[c] \in {"finish", "ask"}
      BY <2>3 DEF InsertLease, InsertNone
    <3>. QED
      BY <3>1 DEF PlaceStep, Waiting
  <2>4. CASE Granted(c) \/ GrantGone(c)
    <3>1. waiters'[c] = NoWaiter /\ pc'[c] \in {"prepare", "quit"}
      BY <2>4 DEF Granted, GrantGone, AfterInsert, Without
    <3>. QED
      BY <1>4, <3>1
  <2>. QED
    BY <1>6, <2>1, <2>2, <2>3, <2>4 DEF Take
<1>7. ASSUME pc[c] \notin Waiting, waiters' = waiters, pc'[c] # "insert"
      PROVE  PlaceStep(c)
  BY <1>1, <1>7 DEF PlaceStep
<1>8. CASE Request(c) \/ Prepare(c) \/ Done(c)
  <2>1. pc[c] \notin Waiting /\ pc'[c] # "insert" /\ waiters' = waiters
    BY <1>8 DEF Request, Prepare, PrepareOk, PrepareFail, DisableQuietly, SetDisabled, Done, storeVars, Waiting
  <2>. QED
    BY <1>7, <2>1
<1>9. CASE Heartbeat(c)
  <2>1. pc[c] \notin Waiting /\ pc'[c] # "insert" /\ waiters' = waiters
    BY <1>9 DEF Heartbeat, BeatRead, BeatLost, BeatBlip, BeatDone, BeatWrite, BeatStale, storeVars, Waiting
  <2>. QED
    BY <1>7, <2>1
<1>10. CASE Release(c)
  <2>1. pc[c] \notin Waiting
    BY <1>10 DEF Release, Joined, Check, CheckRead, CheckLost, CheckDone, CheckStale,
              ResetOk, ResetFail, GiveGone, GiveRead, GiveWrite, Waiting
  <2>2. waiters' = waiters
    BY <1>10 DEF Release, Joined, Check, CheckRead, CheckLost, CheckDone, CheckStale, BeatWrite,
              ResetOk, ResetFail, DisableQuietly, SetDisabled, GiveGone, GiveRead, GiveWrite,
              ReleaseWrite, storeVars
  <2>3. pc'[c] # "insert"
    BY <1>10 DEF Release, Joined, Check, CheckRead, CheckLost, CheckDone, CheckStale,
              ResetOk, ResetFail, GiveGone, GiveRead, GiveWrite, Forget, Released
  <2>. QED
    BY <1>7, <2>1, <2>2, <2>3
<1>. QED
  BY <1>3, <1>5, <1>6, <1>8, <1>9, <1>10 DEF ClientStep

-----------------------------------------------------------------------------
\* The invariant is kept, one part at a time.

LEMMA DisabledGrows ==
  ASSUME NEW c, StepOf(c), ClientStep(c)
  PROVE  disabled \subseteq disabled'
<1>1. CASE InsertLease(c)
  BY <1>1 DEF InsertLease, Insert
<1>2. CASE ~InsertLease(c)
  BY <1>2, OpenSteps DEF KeysStayOpen
<1>. QED
  BY <1>1, <1>2

LEMMA WaitersStay ==
  ASSUME NEW c, StepOf(c), ClientStep(c), OthersKept(c), QueueInv
  PROVE  \A x \in Queued(waiters') : WaiterFact(x)'
<1>. USE DEF StepOf, SafeInv, TypeInv, TypeOK
<1>1. (\A d \in Clients \ {c} : RowKept(d)) /\ OwnWish(c)
  BY MoveSteps, MoveFact
<1>2. disabled \subseteq disabled'
  BY DisabledGrows
<1>3. PlaceStep(c)
  BY PlaceSteps
<1>4. ASSUME NEW x \in Clients, waiters'[x] # NoWaiter
      PROVE  WaiterFact(x)'
  <2>1. CASE x = c
    <3>1. pc'[x] \in Waiting
      BY <1>3, <1>4, <2>1 DEF PlaceStep
    <3>2. CASE waiters[x] # NoWaiter /\ waiters'[x].want = waiters[x].want
      BY <1>2, <3>1, <3>2 DEF QueueInv, Queued, WaiterFact
    <3>3. CASE waiters'[x].want = Candidates(x)
      BY <1>2, <3>1, <3>3 DEF WaiterFact, Candidates
    <3>. QED
      BY <1>1, <1>4, <2>1, <3>2, <3>3 DEF OwnWish
  <2>2. CASE x # c
    <3>1. /\ waiters[x] # NoWaiter /\ waiters'[x].want = waiters[x].want
          /\ pc'[x] = pc[x]
      BY <1>1, <1>4, <2>2 DEF RowKept, OthersKept
    <3>. QED
      BY <1>2, <3>1 DEF QueueInv, Queued, WaiterFact
  <2>. QED
    BY <2>1, <2>2
<1>. QED
  BY <1>4 DEF Queued

\* The waiters before d that may still take a key only become fewer.
LEMMA OlderShrinks ==
  ASSUME NEW c, StepOf(c), ClientStep(c), OthersKept(c), QueueInv,
         NEW d \in Clients \ {c}, pc[d] = "insert"
  PROVE  /\ Older(d)' \subseteq Older(d)
         /\ pc'[c] \notin {"ask", "insert"} => c \notin Older(d)'
<1>. USE DEF StepOf, SafeInv, TypeInv, TypeOK
<1>1. /\ d \in Queued(waiters)
      /\ waiters'[d] # NoWaiter /\ waiters'[d].before \subseteq waiters[d].before
  BY MoveSteps, MoveFact DEF RowKept, QueueInv, Spare, Queued
<1>2. PlaceStep(c)
  BY PlaceSteps
<1>3. waiters[d].before \subseteq Queued(waiters) /\ Queued(waiters) \subseteq Clients
  BY <1>1 DEF QueueInv, Line, Queued
<1>4. ASSUME NEW x \in waiters'[d].before, pc'[x] \in {"ask", "insert"}
      PROVE  x \in waiters[d].before /\ pc[x] \in {"ask", "insert"}
  <2>1. x \in Queued(waiters) /\ x \in waiters[d].before
    BY <1>1, <1>3, <1>4
  <2>2. CASE x = c
    BY <1>2, <1>4, <2>1, <2>2 DEF PlaceStep, Queued
  <2>3. CASE x # c
    BY <1>4, <2>1, <2>3 DEF OthersKept, Queued
  <2>. QED
    BY <2>1, <2>2, <2>3
<1>. QED
  BY <1>4 DEF Older

LEMMA SpareFinite ==
  ASSUME Finite, QueueInv, NEW c \in Clients, pc[c] = "insert"
  PROVE  /\ IsFiniteSet(Older(c)) /\ Cardinality(Older(c)) \in Nat
         /\ IsFiniteSet(Open(c)) /\ Cardinality(Open(c)) \in Nat
<1>1. Older(c) \in SUBSET Clients /\ Open(c) \in SUBSET Keys
  BY StoreAssumption DEF Older, Open, QueueInv, Line, Spare, Queued
<1>. QED
  BY <1>1, FS_Subset, FS_CardinalityType DEF Finite

\* Another client's insert of a key that d could have taken: it is before d, or it
\* left one for d.
LEMMA InsertLeaves ==
  ASSUME OldestGoFirst, NEW c, StepOf(c), InsertLease(c), QueueInv,
         NEW d \in Clients \ {c}, pc[d] = "insert"
  PROVE  Cardinality(Older(d)') < Cardinality(Open(d)')
<1>. USE DEF StepOf, SafeInv, TypeInv, TypeOK, ThreadTypeOK, OldestGoFirst
<1>1. ClientStep(c) /\ OthersKept(c)
  BY GrantKeeps DEF ClientStep, Take, Kept
<1>2. /\ Older(d)' \subseteq Older(d)
      /\ c \notin Older(d)'
  <2>1. pc'[c] = "finish"
    BY DEF InsertLease, Goto
  <2>. QED
    BY <1>1, <2>1, OlderShrinks
<1>3. PICK k \in todo[c] : Insert(c, k)
  BY DEF InsertLease
<1>4. /\ pc[c] = "insert" /\ c \in Queued(waiters) /\ d \in Queued(waiters)
      /\ todo[c] \subseteq Wants[c]
      /\ Cardinality(Older(c)) < Cardinality(Open(c))
      /\ Cardinality(Older(d)) < Cardinality(Open(d))
  BY DEF InsertLease, QueueInv, Spare, Queued
<1>5. /\ k \in Wants[c] /\ disabled' = disabled
      /\ Held(leases') \subseteq Held(leases) \union {k}
  BY <1>3, <1>4 DEF Insert, Held, StoreTypeOK
<1>6. Open(d) \ {k} \subseteq Open(d)' /\ (k \notin Wants[d] => Open(d) \subseteq Open(d)')
  BY <1>5 DEF Open
<1>7. /\ IsFiniteSet(Open(d)) /\ IsFiniteSet(Older(d)) /\ IsFiniteSet(Open(c)) /\ IsFiniteSet(Older(c))
      /\ Cardinality(Open(d)) \in Nat /\ Cardinality(Older(d)) \in Nat
      /\ Cardinality(Open(c)) \in Nat /\ Cardinality(Older(c)) \in Nat
  BY <1>4, SpareFinite
<1>8. IsFiniteSet(Open(d)')
  <2>1. Open(d)' \in SUBSET Keys
    BY StoreAssumption DEF Open
  <2>. QED
    BY <2>1, FS_Subset DEF Finite
<1>9. Cardinality(Older(d)') \in Nat /\ Cardinality(Older(d)') <= Cardinality(Older(d))
  BY <1>2, <1>7, Counting
<1>10. Cardinality(Open(d)') \in Nat
  BY <1>8, FS_CardinalityType
<1>11. CASE k \notin Wants[d]
  <2>1. Cardinality(Open(d)) <= Cardinality(Open(d)')
    BY <1>6, <1>8, <1>11, Counting
  <2>. QED
    BY <1>4, <1>7, <1>9, <1>10, <2>1
<1>12. CASE k \in Wants[d]
  <2>1. Wants[c] = Wants[d]
    BY <1>5, <1>12 DEF Alike
  <2>2. Cardinality(Open(d)) <= Cardinality(Open(d)') + 1
    <3>1. PICK S \in SUBSET Open(d) : S = Open(d) \ {k}
      OBVIOUS
    <3>2. Cardinality(Open(d)) <= Cardinality(S) + 1 /\ Cardinality(S) \in Nat
      BY <1>7, <3>1, Counting
    <3>3. Cardinality(S) <= Cardinality(Open(d)')
      BY <1>6, <1>8, <3>1, Counting
    <3>. QED
      BY <1>7, <1>10, <3>2, <3>3
  <2>3. CASE c \in waiters[d].before
    <3>1. c \in Older(d)
      BY <1>4, <2>1, <2>3 DEF Older
    <3>2. Cardinality(Older(d)') < Cardinality(Older(d))
      BY <1>2, <1>7, <3>1, Counting
    <3>. QED
      BY <1>4, <1>7, <1>9, <1>10, <2>2, <3>2
  <2>4. CASE c \notin waiters[d].before
    <3>1. d \in waiters[c].before /\ waiters[d].before \subseteq waiters[c].before
      BY <1>4, <2>4 DEF QueueInv, Line
    <3>2. d \in Older(c) /\ Older(d) \subseteq Older(c) /\ d \notin Older(d)
      BY <1>4, <2>1, <3>1 DEF Older, QueueInv, Line
    <3>3. Cardinality(Older(d)) < Cardinality(Older(c))
      BY <1>7, <3>2, Counting
    <3>4. Open(d) = Open(c)
      BY <2>1 DEF Open
    <3>. QED
      BY <1>4, <1>7, <1>9, <1>10, <2>2, <3>3, <3>4
  <2>. QED
    BY <2>3, <2>4
<1>. QED
  BY <1>11, <1>12

LEMMA OthersSpare ==
  ASSUME OldestGoFirst, NEW c, StepOf(c), ClientStep(c), OthersKept(c), QueueInv,
         todo' = [todo EXCEPT ![c] = todo'[c]],
         NEW d \in Clients \ {c}, pc[d] = "insert"
  PROVE  Spare(d)'
<1>. USE DEF StepOf, SafeInv, TypeInv, TypeOK, ThreadTypeOK, OldestGoFirst
<1>1. Spare(d) /\ d \in Queued(waiters)
  BY DEF QueueInv, Spare, Queued
<1>2. waiters'[d] # NoWaiter /\ waiters'[d].age = 0
  BY MoveSteps, MoveFact DEF RowKept
<1>3. todo'[d] \subseteq Wants[d]
  BY <1>1 DEF Spare
<1>4. Cardinality(Older(d)') < Cardinality(Open(d)')
  <2>1. CASE InsertLease(c)
    BY <2>1, InsertLeaves
  <2>2. CASE ~InsertLease(c)
    <3>1. Open(d) \subseteq Open(d)'
      BY <2>2, OpenSteps DEF KeysStayOpen, Open
    <3>2. Older(d)' \subseteq Older(d)
      BY OlderShrinks
    <3>3. /\ IsFiniteSet(Older(d)) /\ Cardinality(Older(d)) \in Nat
          /\ IsFiniteSet(Open(d)) /\ Cardinality(Open(d)) \in Nat
      BY SpareFinite
    <3>4. IsFiniteSet(Open(d)')
      <4>1. Open(d)' \in SUBSET Keys
        BY StoreAssumption DEF Open
      <4>. QED
        BY <4>1, FS_Subset DEF Finite
    <3>5. Cardinality(Older(d)') \in Nat /\ Cardinality(Older(d)') <= Cardinality(Older(d))
      BY <3>2, <3>3, Counting
    <3>6. Cardinality(Open(d)') \in Nat /\ Cardinality(Open(d)) <= Cardinality(Open(d)')
      BY <3>1, <3>4, Counting
    <3>. QED
      BY <1>1, <3>3, <3>5, <3>6 DEF Spare
  <2>. QED
    BY <2>1, <2>2
<1>. QED
  BY <1>2, <1>3, <1>4 DEF Spare

\* take() goes on to insert only when more keys are free for c than waiters ahead of
\* it would take one of them; each waiter before c that wants the same keys is such a one.
LEMMA OwnSpare ==
  ASSUME Finite, NEW c, StepOf(c), ClientStep(c), QueueInv, pc'[c] = "insert"
  PROVE  Spare(c)'
<1>. USE DEF StepOf, SafeInv, TypeInv, TypeOK, ThreadTypeOK, Goto
<1>1. CASE InsertTaken(c)
  <2>1. /\ pc[c] = "insert" /\ pc' = pc /\ leases' = leases /\ waiters' = waiters /\ disabled' = disabled
        /\ todo'[c] \subseteq todo[c]
    BY <1>1 DEF InsertTaken, storeVars
  <2>2. Spare(c)
    BY <2>1 DEF QueueInv
  <2>. QED
    BY <2>1, <2>2 DEF Spare, Older, Open
<1>2. CASE AskFree(c)
  <2>1. /\ waiters' = WaitersWith(c) /\ leases' = LiveLeases /\ disabled' = disabled
        /\ todo'[c] = Free(c) /\ MayTake(c)
        /\ pc[c] = "ask" /\ \A x \in Clients \ {c} : pc'[x] = pc[x]
    BY <1>2 DEF AskFree, TakeEnqueue
  <2>2. waiters'[c] # NoWaiter /\ waiters'[c].age = 0
    BY <2>1, EnterFact DEF Queued
  <2>3. Free(c) \subseteq Wants[c] /\ Open(c)' = Free(c)
    BY <2>1 DEF Free, Candidates, Open
  <2>4. waiters'[c].before \subseteq Queued(LiveWaiters) \ {c}
    <3>1. Line(LiveWaiters)
      BY LiveFact DEF QueueInv
    <3>2. CASE c \in Queued(LiveWaiters)
      BY <2>1, <3>1, <3>2, EnterFact DEF Line
    <3>3. CASE c \notin Queued(LiveWaiters)
      BY <2>1, <3>3, EnterFact
    <3>. QED
      BY <3>2, <3>3
  <2>5. Queued(LiveWaiters) \subseteq Clients /\ Ahead(c) \subseteq Clients
    BY <2>1, <2>4 DEF Queued, Ahead
  <2>6. Cardinality(Free(c)) > Cardinality(Ahead(c)) /\ IsFiniteSet(Ahead(c))
        /\ Cardinality(Ahead(c)) \in Nat
    <3>1. IsFiniteSet(Ahead(c))
      BY <2>5, FS_Subset DEF Finite
    <3>. QED
      BY <2>1, <3>1, FS_CardinalityType DEF MayTake
  <2>7. IsFiniteSet(Free(c)) /\ Free(c) # {}
    <3>1. IsFiniteSet(Free(c)) /\ Cardinality(Free(c)) \in Nat
      <4>1. Free(c) \in SUBSET Keys
        BY <2>3, StoreAssumption
      <4>. QED
        BY <4>1, FS_Subset, FS_CardinalityType DEF Finite
    <3>2. Cardinality(Free(c)) # 0
      BY <2>6, <3>1
    <3>. QED
      BY <3>1, <3>2, FS_EmptySet
  <2>8. ASSUME NEW x \in Older(c)'
        PROVE  x \in Ahead(c)
    <3>1. x \in WaitersWith(c)[c].before /\ Wants[x] = Wants[c] /\ x \in Queued(LiveWaiters)
      BY <2>1, <2>4, <2>8 DEF Older
    <3>2. LiveWaiters[x].want = waiters[x].want /\ x \in Queued(waiters)
      BY <3>1, LiveFact
    <3>3. Candidates(c) \subseteq LiveWaiters[x].want
      BY <3>1, <3>2 DEF Candidates, QueueInv, WaiterFact
    <3>. QED
      BY <2>7, <3>1, <3>3 DEF Ahead, Free
  <2>9. Cardinality(Older(c)') < Cardinality(Open(c)')
    <3>1. Cardinality(Older(c)') \in Nat /\ Cardinality(Older(c)') <= Cardinality(Ahead(c))
      BY <2>6, <2>8, Counting
    <3>2. Cardinality(Free(c)) \in Nat
      BY <2>7, FS_CardinalityType
    <3>. QED
      BY <2>3, <2>6, <3>1, <3>2
  <2>. QED
    BY <2>1, <2>2, <2>3, <2>9 DEF Spare
<1>. QED
  BY <1>1, <1>2, PlaceSteps DEF PlaceStep

LEMMA TodoKept ==
  ASSUME NEW c, StepOf(c), ClientStep(c)
  PROVE  todo' = [todo EXCEPT ![c] = todo'[c]]
<1>. USE DEF StepOf, SafeInv, TypeInv, TypeOK, ThreadTypeOK, Goto, Forget
<1>1. CASE Request(c) \/ GiveUp(c) \/ Quit(c) \/ Prepare(c) \/ Crash(c) \/ Done(c)
  BY <1>1 DEF Request, GiveUp, Quit, Prepare, PrepareOk, PrepareFail, Crash, Done
<1>2. CASE Take(c)
  BY <1>2 DEF Take, AskNoItems, AskLimit, AskBusy, AskFree, InsertLease, InsertTaken, InsertNone, Granted, GrantGone
<1>3. CASE Heartbeat(c)
  BY <1>3 DEF Heartbeat, BeatRead, BeatLost, BeatBlip, BeatDone, BeatStale
<1>4. CASE Release(c)
  BY <1>4 DEF Release, Joined, Check, CheckRead, CheckLost, CheckDone, CheckStale,
              ResetOk, ResetFail, GiveGone, GiveRead, GiveWrite
<1>. QED
  BY <1>1, <1>2, <1>3, <1>4 DEF ClientStep

\* A tick finds nobody in insert; the rows age, nothing else about them changes.
LEMMA TickQueue ==
  ASSUME StoreTypeOK, QueueInv, Tick
  PROVE  QueueInv'
<1>1. /\ pc' = pc /\ disabled' = disabled /\ \A c \in Clients : pc[c] # "insert"
  BY DEF Tick, StoreTick, BetweenCalls
<1>2. ASSUME NEW x \in Clients
      PROVE  /\ waiters'[x] = NoWaiter <=> waiters[x] = NoWaiter
             /\ waiters'[x].want = waiters[x].want /\ waiters'[x].before = waiters[x].before
  <2>1. waiters[x] # NoWaiter => Later(waiters[x].age, WaiterTTL + 1) # -1
    BY StoreAssumption DEF StoreTypeOK, Waiter, Later
  <2>. QED
    BY <2>1 DEF Tick, StoreTick, NoWaiter
<1>3. Queued(waiters') = Queued(waiters)
  BY <1>2 DEF Queued
<1>4. Queued(waiters) \subseteq Clients
  BY DEF Queued
<1>5. Line(waiters')
  BY <1>2, <1>3, <1>4 DEF QueueInv, Line
<1>6. \A x \in Queued(waiters') : WaiterFact(x)'
  BY <1>1, <1>2, <1>3, <1>4 DEF QueueInv, WaiterFact
<1>. QED
  BY <1>1, <1>5, <1>6 DEF QueueInv

LEMMA NextQueue == OldestGoFirst /\ SafeInv /\ QueueInv /\ [Next]_vars => QueueInv'
<1>. SUFFICES ASSUME OldestGoFirst, SafeInv, QueueInv, [Next]_vars
              PROVE  QueueInv'
  OBVIOUS
<1>1. CASE UNCHANGED vars
  BY <1>1 DEF vars, storeVars, threadVars, QueueInv, WaiterFact, Spare, Older, Open
<1>2. CASE Tick
  BY <1>2, TickQueue DEF SafeInv, TypeInv, TypeOK
<1>3. ASSUME NEW c \in Clients, ClientStep(c)
      PROVE  QueueInv'
  <2>1. StepOf(c)
    BY NextType DEF StepOf, SafeInv, OldestGoFirst
  <2>2. OthersKept(c)
    BY <1>3, <2>1, AcquireKeeps, AskKeeps, GrantKeeps, HeartbeatKeeps, ReleaseKeeps
       DEF ClientStep, Prepare, Take, Kept
  <2>3. Line(waiters')
    BY <1>3, <2>1, MoveSteps, MoveFact DEF SafeInv, TypeInv, TypeOK
  <2>4. \A x \in Queued(waiters') : WaiterFact(x)'
    BY <1>3, <2>1, <2>2, WaitersStay
  <2>5. todo' = [todo EXCEPT ![c] = todo'[c]]
    BY <1>3, <2>1, TodoKept
  <2>6. ASSUME NEW d \in Clients, pc'[d] = "insert"
        PROVE  Spare(d)'
    <3>1. CASE d = c
      BY <1>3, <2>1, <2>6, <3>1, OwnSpare DEF OldestGoFirst
    <3>2. CASE d # c
      <4>1. pc[d] = "insert"
        BY <2>2, <2>6, <3>2 DEF OthersKept
      <4>. QED
        BY <1>3, <2>1, <2>2, <2>5, <3>2, <4>1, OthersSpare
    <3>. QED
      BY <3>1, <3>2
  <2>. QED
    BY <2>3, <2>4, <2>6 DEF QueueInv
<1>4. ~AdminStep
  BY DEF OldestGoFirst, Timely, AdminStep
<1>. QED
  BY <1>1, <1>2, <1>3, <1>4 DEF Next, ClientStep

LEMMA InitQueue == Init => QueueInv
<1>1. Init => Queued(waiters) = {}
  BY DEF Init, StoreInit, Queued
<1>2. Init => \A c \in Clients : pc[c] # "insert"
  BY DEF Init
<1>. QED
  BY <1>1, <1>2 DEF QueueInv, Line

\* The rivals of c for the key it inserts are among those that Spare counts, and each of
\* them could take any other key that is open.
LEMMA InsertInTurn ==
  ASSUME OldestGoFirst, SafeInv, QueueInv, [Next]_vars,
         NEW c \in Clients, pc[c] = "insert", pc'[c] = "finish"
  PROVE  Cardinality(Rivals(c, key'[c])) <=
           Cardinality((UNION {waiters[w].want : w \in Rivals(c, key'[c])}) \ (Held(leases') \union disabled))
<1>. USE DEF SafeInv, TypeInv, TypeOK, ThreadTypeOK
<1>. DEFINE k == key'[c]
            rivals == Rivals(c, k)
            others == (UNION {waiters[w].want : w \in rivals}) \ (Held(leases') \union disabled)
<1>1. InsertLease(c)
  <2>1. Next /\ ~Tick /\ ~AdminStep
    BY DEF vars, threadVars, OldestGoFirst, Timely, AdminStep, Tick
  <2>2. PICK d \in Clients : ClientStep(d)
    BY <2>1 DEF Next, ClientStep
  <2>3. StepOf(d)
    BY NextType DEF StepOf, OldestGoFirst
  <2>4. OthersKept(d)
    BY <2>2, <2>3, AcquireKeeps, AskKeeps, GrantKeeps, HeartbeatKeeps, ReleaseKeeps
       DEF ClientStep, Prepare, Take, Kept
  <2>5. d = c
    BY <2>4 DEF OthersKept
  <2>6. CASE Take(c)
    BY <2>6 DEF Take, AskNoItems, AskLimit, AskBusy, AskFree, InsertTaken, InsertNone, Granted, GrantGone, Goto
  <2>7. CASE \/ Request(c) \/ GiveUp(c) \/ Quit(c) \/ Prepare(c) \/ Crash(c)
             \/ Heartbeat(c) \/ Done(c) \/ Release(c)
    BY <2>7 DEF Request, GiveUp, Quit, Prepare, PrepareOk, PrepareFail, Crash, Forget, Done, Goto,
                Heartbeat, BeatRead, BeatLost, BeatBlip, BeatDone, BeatStale,
                Release, Joined, Check, CheckRead, CheckLost, CheckDone, CheckStale,
                ResetOk, ResetFail, GiveGone, GiveRead, GiveWrite
  <2>. QED
    BY <2>2, <2>5, <2>6, <2>7 DEF ClientStep
<1>2. Spare(c) /\ c \in Queued(waiters)
  BY DEF QueueInv, Spare, Queued
<1>3. k \in Wants[c] /\ Held(leases') \subseteq Held(leases) \union {k}
  <2>1. PICK j \in todo[c] : Insert(c, j) /\ key' = [key EXCEPT ![c] = j]
    BY <1>1 DEF InsertLease
  <2>2. k = j /\ Held(leases') \subseteq Held(leases) \union {j}
    BY <2>1 DEF Insert, Held, StoreTypeOK
  <2>. QED
    BY <1>2, <2>1, <2>2 DEF Spare
<1>4. waiters[c].before \subseteq Queued(waiters) /\ Queued(waiters) \subseteq Clients
  BY <1>2 DEF QueueInv, Line, Queued
<1>5. ASSUME NEW w \in rivals
      PROVE  /\ w \in Older(c)
             /\ Wants[c] \ disabled \subseteq waiters[w].want
  <2>1. w \in waiters[c].before /\ pc[w] = "ask" /\ k \in waiters[w].want /\ WaiterFact(w) /\ w \in Clients
    BY <1>4 DEF Rivals, QueueInv
  <2>2. Wants[w] = Wants[c]
    BY <1>3, <2>1 DEF WaiterFact, OldestGoFirst, Alike
  <2>. QED
    BY <2>1, <2>2 DEF Older, WaiterFact
<1>6. others \in SUBSET Keys
  <2>1. ASSUME NEW w \in rivals
        PROVE  waiters[w].want \subseteq Keys
    <3>1. w \in Clients /\ waiters[w].want \subseteq Wants[w]
      BY <1>4 DEF Rivals, QueueInv, WaiterFact
    <3>. QED
      BY <3>1, StoreAssumption
  <2>. QED
    BY <2>1
<1>7. IsFiniteSet(others) /\ Cardinality(others) \in Nat
  BY <1>6, FS_Subset, FS_CardinalityType DEF OldestGoFirst, Finite
<1>8. /\ IsFiniteSet(Older(c)) /\ Cardinality(Older(c)) \in Nat
      /\ IsFiniteSet(Open(c)) /\ Cardinality(Open(c)) \in Nat
  BY SpareFinite DEF OldestGoFirst
<1>9. rivals \subseteq Older(c)
  BY <1>5
<1>10. \A w \in rivals : waiters[w].want \ (Held(leases') \union disabled) \subseteq others
  <2>1. ASSUME NEW w \in rivals
        PROVE  waiters[w].want \subseteq UNION {waiters[v].want : v \in rivals}
    <3>1. waiters[w].want \in {waiters[v].want : v \in rivals}
      BY <2>1
    <3>. QED
      BY <3>1
  <2>. QED
    BY <2>1
<1>. SUFFICES Cardinality(rivals) <= Cardinality(others)
  OBVIOUS
<1>. HIDE DEF rivals, others
<1>11. Cardinality(rivals) \in Nat /\ Cardinality(rivals) <= Cardinality(Older(c))
  BY <1>8, <1>9, Counting
<1>12. CASE rivals = {}
  BY <1>7, <1>12, FS_EmptySet
<1>13. CASE rivals # {}
  <2>1. Open(c) \ {k} \subseteq others
    <3>1. PICK w \in rivals : TRUE
      BY <1>13
    <3>2. Wants[c] \ disabled \subseteq waiters[w].want
      BY <1>5, <3>1
    <3>3. ASSUME NEW x \in Open(c) \ {k}
          PROVE  x \in waiters[w].want /\ x \notin Held(leases') \union disabled
      BY <1>3, <3>2, <3>3 DEF Open
    <3>. QED
      BY <1>10, <3>1, <3>3
  <2>2. PICK S \in SUBSET Open(c) : S = Open(c) \ {k}
    OBVIOUS
  <2>3. Cardinality(Open(c)) <= Cardinality(S) + 1 /\ Cardinality(S) \in Nat
    BY <1>8, <2>2, Counting
  <2>4. Cardinality(S) <= Cardinality(others)
    BY <1>7, <2>1, <2>2, Counting
  <2>5. Cardinality(Older(c)) < Cardinality(Open(c))
    BY <1>2 DEF Spare
  <2>. QED
    BY <1>7, <1>8, <1>11, <2>3, <2>4, <2>5
<1>. QED
  BY <1>12, <1>13

\* A key goes to a waiter only when those that came before it, still ask, and would take
\* that key are left with one each.
THEOREM OldestServed == OldestGoFirst /\ Spec => OldestFirst
<1>1. OldestGoFirst => (Spec => OldestFirst)
  <2>. SUFFICES ASSUME OldestGoFirst
                PROVE  Spec => OldestFirst
    OBVIOUS
  <2>1. SafeInv /\ QueueInv /\ [Next]_vars => QueueInv'
    BY NextQueue
  <2>2. SafeInv /\ QueueInv /\ [Next]_vars =>
          [\A c \in Clients : pc[c] = "insert" /\ pc'[c] = "finish" =>
             LET rivals == Rivals(c, key'[c])
                 others == (UNION {waiters[w].want : w \in rivals}) \ (Held(leases') \union disabled)
             IN  Cardinality(rivals) <= Cardinality(others)]_vars
    BY InsertInTurn
  <2>3. Spec => []SafeInv
    BY SafeInvHolds DEF OldestGoFirst
  <2>. QED
    BY <2>1, <2>2, <2>3, InitQueue, PTL DEF Spec, OldestFirst
<1>. QED
  BY <1>1
-----------------------------------------------------------------------------
(* PoolProvider: the people who create and destroy the keys of a pool.         *)
CONSTANTS PoolKeys, OwnPrefix, MaxPool, MaxPlanned, AskedKeys, HeldFirst, PoolFirst, People,
          MaxPoolChanges

VARIABLES items, exists, held, at, pool, listed, verb, steps, unlogged, moved, crowded, changes

Provider == INSTANCE PoolProvider WITH
  Keys <- PoolKeys, Prefixed <- OwnPrefix, MaxItems <- MaxPool, MaxSteps <- MaxPlanned,
  Names <- AskedKeys, HeldAtFirst <- HeldFirst, Items <- PoolFirst, Operators <- People,
  MaxChanges <- MaxPoolChanges

\* What is assumed of the constants: only keys there may be are held, in the pool or asked for.
ProviderAssumption ==
  /\ IsFiniteSet(PoolKeys) /\ HeldFirst \subseteq PoolKeys /\ PoolFirst \subseteq PoolKeys
  /\ OwnPrefix \subseteq PoolKeys /\ AskedKeys \subseteq SUBSET PoolKeys
ProviderBounds == MaxPool \in Nat /\ MaxPlanned \in Nat /\ MaxPoolChanges \in Nat

LEMMA ProviderCards == \A S : Provider!Cardinality(S) = Cardinality(S)
BY DEF Provider!Cardinality, Cardinality

LEMMA KeysCount ==
  ASSUME ProviderAssumption, NEW S, S \subseteq PoolKeys
  PROVE  /\ Provider!Cardinality(S) \in Nat
         /\ \A T : T \subseteq S => Provider!Cardinality(T) <= Provider!Cardinality(S)
         /\ \A k : Provider!Cardinality(S \cup {k}) <= Provider!Cardinality(S) + 1
<1>1. IsFiniteSet(S)
  BY FS_Subset DEF ProviderAssumption
<1>2. Cardinality(S) \in Nat
  BY <1>1, FS_CardinalityType
<1>3. \A T : T \subseteq S => Cardinality(T) <= Cardinality(S)
  BY <1>1, FS_Subset
<1>4. \A k : Cardinality(S \cup {k}) <= Cardinality(S) + 1
  <2>. SUFFICES ASSUME NEW k
                PROVE  Cardinality(S \cup {k}) <= Cardinality(S) + 1
    OBVIOUS
  <2>1. Cardinality(S \cup {k}) = IF k \in S THEN Cardinality(S) ELSE Cardinality(S) + 1
    BY <1>1, FS_AddElement
  <2>. QED
    BY <1>2, <2>1
<1>. QED
  BY <1>2, <1>3, <1>4, ProviderCards

LEMMA LesserOfTwo ==
  ASSUME NEW a \in Int, NEW b \in Int
  PROVE  /\ Provider!Min({a, b}) = IF a <= b THEN a ELSE b
         /\ Provider!Max({a, b}) = IF a >= b THEN a ELSE b
<1>1. \A x \in {a, b} : (\A y \in {a, b} : x <= y) => x = IF a <= b THEN a ELSE b
  OBVIOUS
<1>2. \A x \in {a, b} : (\A y \in {a, b} : x >= y) => x = IF a >= b THEN a ELSE b
  OBVIOUS
<1>3. \E x \in {a, b} : \A y \in {a, b} : x <= y
  OBVIOUS
<1>4. \E x \in {a, b} : \A y \in {a, b} : x >= y
  OBVIOUS
<1>. QED
  BY <1>1, <1>2, <1>3, <1>4 DEF Provider!Min, Provider!Max

LEMMA FirstFew ==
  ASSUME ProviderAssumption, NEW n \in Nat, NEW S, S \subseteq PoolKeys, NEW s \in Provider!First(n, S)
  PROVE  /\ s \in Seq(PoolKeys)
         /\ Len(s) <= n /\ Len(s) <= Provider!Cardinality(S)
         /\ \A i \in 1 .. Len(s) : s[i] \in S
<1>. DEFINE m == Provider!Min({n, Provider!Cardinality(S)})
<1>1. m \in Nat /\ m <= n /\ m <= Provider!Cardinality(S)
  BY KeysCount, LesserOfTwo
<1>2. s \in [1 .. m -> S]
  BY DEF Provider!First, Provider!Injection
<1>. HIDE DEF m
<1>3. s \in Seq(PoolKeys) /\ Len(s) = m
  BY <1>1, <1>2
<1>. QED
  BY <1>1, <1>2, <1>3

LEMMA ProviderBegins ==
  ASSUME ProviderAssumption, ProviderBounds,
         Provider!Init
  PROVE  Provider!ProviderInv
<1>1. Provider!TypeOK
  <2>1. /\ changes = 0 /\ steps = [o \in People |-> <<>>] /\ items = PoolFirst /\ held = HeldFirst
        /\ exists \in SUBSET PoolKeys
    BY DEF Provider!Init
  <2>2. changes \in 0 .. MaxPoolChanges
    BY <2>1 DEF ProviderBounds
  <2>3. items \subseteq PoolKeys /\ exists \subseteq PoolKeys /\ held \subseteq PoolKeys
    BY <2>1 DEF ProviderAssumption
  <2>4. steps \in [People -> Seq(PoolKeys)] /\ \A o \in People : Len(steps[o]) <= MaxPlanned
    BY <2>1 DEF ProviderBounds
  <2>. QED
    BY <2>2, <2>3, <2>4 DEF Provider!TypeOK, Provider!Places, Provider!Init
<1>2. /\ Provider!LookedInv /\ Provider!StepsInv /\ Provider!DestroyInv /\ Provider!CreateInv
      /\ Provider!LogInv /\ Provider!AllLogged
  BY DEF Provider!LookedInv, Provider!Looked, Provider!StepsInv, Provider!DestroyInv,
         Provider!CreateInv, Provider!OnTheWay, Provider!LogInv, Provider!AllLogged, Provider!Init
<1>. QED
  BY <1>1, <1>2 DEF Provider!ProviderInv

\* What others do beside the commands.
LEMMA ProviderChanges ==
  ASSUME ProviderAssumption, ProviderBounds,
         Provider!ProviderInv, NEW k \in PoolKeys,
         Provider!AddItem(k) \/ Provider!DropItem(k) \/ Provider!Take(k) \/ Provider!GiveBack(k)
  PROVE  Provider!ProviderInv'
<1>. USE DEF Provider!ProviderInv
<1>1. /\ UNCHANGED <<exists, at, pool, listed, verb, steps, unlogged>>
      /\ changes < MaxPoolChanges /\ changes' = changes + 1
  BY DEF Provider!AddItem, Provider!DropItem, Provider!Take, Provider!GiveBack, Provider!Change
<1>2. /\ items' \subseteq items \cup {k} /\ held' \subseteq held \cup {k}
      /\ crowded' \in {crowded, crowded \cup Provider!Looked}
  BY DEF Provider!AddItem, Provider!DropItem, Provider!Take, Provider!GiveBack
<1>3. \A o \in People : moved'[o] = moved[o] \/ moved'[o] = moved[o] \cup {k}
  BY DEF Provider!AddItem, Provider!DropItem, Provider!Take, Provider!GiveBack, Provider!Moves,
         Provider!TypeOK
<1>4. Provider!TypeOK'
  <2>1. changes' \in 0 .. MaxPoolChanges
    <3>1. changes \in 0 .. MaxPoolChanges
      BY DEF Provider!TypeOK
    <3>. HIDE DEF Provider!ProviderInv
    <3>. QED
      BY <1>1, <3>1 DEF ProviderBounds
  <2>. USE DEF Provider!TypeOK
  <2>2. items' \subseteq PoolKeys /\ exists' \subseteq PoolKeys /\ held' \subseteq PoolKeys
    BY <1>1, <1>2
  <2>3. \E f : moved' = [o \in People |-> f[o]]
    BY DEF Provider!AddItem, Provider!DropItem, Provider!Take, Provider!GiveBack, Provider!Moves
  <2>4. moved' \in [People -> SUBSET PoolKeys]
    <3>1. moved \in [People -> SUBSET PoolKeys]
      BY Zenon DEF Provider!TypeOK
    <3>. HIDE DEF Provider!ProviderInv, Provider!TypeOK
    <3>2. \A o \in People : moved'[o] \in SUBSET PoolKeys
      BY <1>3, <3>1
    <3>3. PICK f : moved' = [o \in People |-> f[o]]
      BY <2>3
    <3>. QED
      BY <3>2, <3>3, Zenon
  <2>5. crowded' \subseteq People
    BY <1>2 DEF Provider!Looked
  <2>. QED
    BY <1>1, <2>1, <2>2, <2>4, <2>5
<1>5. Provider!LookedInv'
  <2>. USE DEF Provider!LookedInv, Provider!Looked, Provider!TypeOK, Provider!Existing
  <2>1. CASE Provider!AddItem(k)
    BY <2>1 DEF Provider!AddItem, Provider!Moves
  <2>2. CASE Provider!DropItem(k)
    BY <2>2 DEF Provider!DropItem
  <2>3. CASE Provider!Take(k)
    BY <2>3 DEF Provider!Take, Provider!Planned, Provider!Moves
  <2>4. CASE Provider!GiveBack(k)
    BY <2>4 DEF Provider!GiveBack
  <2>. QED
    BY <2>1, <2>2, <2>3, <2>4
<1>6. Provider!StepsInv'
  BY <1>1 DEF Provider!StepsInv, Provider!OnTheWay
<1>7. Provider!DestroyInv'
  <2>. USE DEF Provider!DestroyInv, Provider!OnTheWay, Provider!TypeOK
  <2>1. CASE Provider!AddItem(k)
    BY <2>1 DEF Provider!AddItem, Provider!Looked, Provider!Moves
  <2>2. CASE Provider!DropItem(k)
    BY <2>2 DEF Provider!DropItem
  <2>3. CASE Provider!Take(k)
    BY <2>3 DEF Provider!Take, Provider!Planned, Provider!Moves
  <2>4. CASE Provider!GiveBack(k)
    BY <2>4 DEF Provider!GiveBack
  <2>. QED
    BY <2>1, <2>2, <2>3, <2>4
<1>8. Provider!CreateInv'
  <2>. SUFFICES ASSUME NEW o \in People, Provider!OnTheWay(o)', verb'[o] = "create", o \notin crowded'
                PROVE  Provider!Cardinality(items' \cup exists') + Provider!Needed(o)' <= MaxPool
    BY DEF Provider!CreateInv
  <2>1. /\ Provider!OnTheWay(o) /\ verb[o] = "create" /\ o \notin crowded
        /\ Provider!Needed(o)' = Provider!Needed(o)
    BY <1>1, <1>2 DEF Provider!OnTheWay, Provider!Needed
  <2>2. ~Provider!AddItem(k)
    BY <2>1 DEF Provider!AddItem, Provider!Looked, Provider!OnTheWay
  <2>3. items' \cup exists' \subseteq items \cup exists /\ items \cup exists \subseteq PoolKeys
    BY <1>1, <2>2 DEF Provider!DropItem, Provider!Take, Provider!GiveBack, Provider!TypeOK
  <2>4. /\ Provider!Cardinality(items' \cup exists') <= Provider!Cardinality(items \cup exists)
        /\ Provider!Cardinality(items \cup exists) \in Nat /\ Provider!Cardinality(items' \cup exists') \in Nat
    BY <2>3, KeysCount
  <2>5. Provider!Cardinality(items \cup exists) + Provider!Needed(o) <= MaxPool
    BY <2>1 DEF Provider!CreateInv
  <2>6. Provider!Needed(o) \in Int /\ MaxPool \in Int
    <3>1. steps \in [People -> Seq(PoolKeys)]
      BY Zenon DEF Provider!TypeOK
    <3>. HIDE DEF Provider!ProviderInv
    <3>2. Len(steps[o]) \in Nat
      BY <3>1
    <3>. QED
      BY <3>2 DEF ProviderBounds, Provider!Needed
  <2>. QED
    BY <2>1, <2>4, <2>5, <2>6
<1>9. Provider!LogInv' /\ Provider!AllLogged'
  BY <1>1 DEF Provider!LogInv, Provider!AllLogged
<1>. QED
  BY <1>4, <1>5, <1>6, <1>7, <1>8, <1>9

\* Looking, asking and giving up.
LEMMA ProviderLooks ==
  ASSUME ProviderAssumption, ProviderBounds,
         Provider!ProviderInv, NEW o \in People,
         \/ Provider!ReadConfig(o) \/ Provider!List(o) \/ Provider!GiveUp(o)
         \/ Provider!Confirm(o) \/ Provider!LogFails(o)
  PROVE  Provider!ProviderInv'
<1>. USE DEF Provider!ProviderInv, Provider!ReadConfig, Provider!List, Provider!GiveUp,
             Provider!Confirm, Provider!LogFails
<1>1. Provider!TypeOK'
  BY DEF Provider!TypeOK, Provider!Places
<1>2. Provider!LookedInv'
  BY ZenonT(60) DEF Provider!LookedInv, Provider!Looked, Provider!TypeOK, Provider!Existing
<1>3. Provider!StepsInv' /\ Provider!DestroyInv'
  BY DEF Provider!StepsInv, Provider!DestroyInv, Provider!OnTheWay, Provider!TypeOK
<1>4. Provider!CreateInv'
  BY DEF Provider!CreateInv, Provider!Needed, Provider!OnTheWay, Provider!TypeOK
<1>5. Provider!LogInv' /\ Provider!AllLogged'
  BY DEF Provider!LogInv, Provider!AllLogged, Provider!TypeOK
<1>. QED
  BY <1>1, <1>2, <1>3, <1>4, <1>5

LEMMA ProviderTypes ==
  ASSUME Provider!TypeOK
  PROVE  /\ items \cup exists \subseteq PoolKeys
         /\ steps \in [People -> Seq(PoolKeys)]
         /\ verb \in [People -> {"none", "create", "destroy"}]
         /\ \A o \in People : pool[o] \cup listed[o] \subseteq PoolKeys
         /\ \A o \in People : Len(steps[o]) <= MaxPlanned
BY Zenon DEF Provider!TypeOK

LEMMA RoomIsCounted ==
  ASSUME ProviderAssumption, ProviderBounds,
         Provider!TypeOK, NEW o \in People
  PROVE  /\ Provider!Room(o) \in Nat
         /\ Provider!Room(o) > 0 =>
              Provider!Room(o) + Provider!Cardinality(Provider!Existing(o)) = MaxPool
<1>. DEFINE card == Provider!Cardinality(Provider!Existing(o))
            left == MaxPool - card
<1>1. card \in Nat
  <2>1. Provider!Existing(o) \subseteq PoolKeys
    BY ProviderTypes DEF Provider!Existing
  <2>. QED
    BY <2>1, KeysCount
<1>. HIDE DEF card
<1>2. left \in Int /\ left + card = MaxPool
  BY <1>1 DEF ProviderBounds
<1>3. Provider!Room(o) = Provider!Max({0, left})
  BY DEF Provider!Room, card
<1>. HIDE DEF left
<1>4. Provider!Max({0, left}) = IF 0 >= left THEN 0 ELSE left
  BY <1>2, LesserOfTwo
<1>5. /\ Provider!Room(o) \in Nat
      /\ Provider!Room(o) > 0 => Provider!Room(o) + card = MaxPool
  BY <1>1, <1>2, <1>3, <1>4
<1>. QED
  BY <1>5 DEF card

\* Planning, whatever is to be done and with whichever keys.
LEMMA ProviderPlans ==
  ASSUME ProviderAssumption, ProviderBounds,
         Provider!ProviderInv, NEW o \in People, NEW what \in {"create", "destroy"},
         NEW n \in Nat, NEW S, S \subseteq PoolKeys, Provider!Plan(o, what, n, S),
         n <= MaxPlanned \/ Provider!Cardinality(S) <= MaxPlanned,
         what = "destroy" => \A k \in S : Provider!SafeToDestroy(o, k),
         what = "create" => n <= Provider!Room(o)
  PROVE  Provider!ProviderInv'
<1>. USE DEF Provider!ProviderInv
<1>1. /\ UNCHANGED <<items, exists, held, pool, listed, unlogged, moved, crowded, changes>>
      /\ at[o] = "listed" /\ verb' = [verb EXCEPT ![o] = what]
  BY DEF Provider!Plan
<1>2. PICK s \in Provider!First(n, S) :
        /\ at' = [at EXCEPT ![o] = IF s = <<>> THEN "over" ELSE "planned"]
        /\ steps' = [steps EXCEPT ![o] = s]
  BY DEF Provider!Plan
<1>3. /\ s \in Seq(PoolKeys) /\ Len(s) <= n /\ Len(s) <= Provider!Cardinality(S)
      /\ \A i \in 1 .. Len(s) : s[i] \in S
  BY FirstFew
<1>4. Len(s) \in Nat /\ Len(s) <= MaxPlanned
  <2>1. Provider!Cardinality(S) \in Nat
    BY KeysCount
  <2>. HIDE DEF Provider!ProviderInv
  <2>. QED
    BY <1>3, <2>1 DEF ProviderBounds
<1>5. at \in [People -> Provider!Places] /\ steps \in [People -> Seq(PoolKeys)]
  BY Zenon DEF Provider!TypeOK
<1>6. /\ at'[o] = IF s = <<>> THEN "over" ELSE "planned"
      /\ verb'[o] = what /\ steps'[o] = s
      /\ \A p \in People \ {o} : at'[p] = at[p] /\ verb'[p] = verb[p] /\ steps'[p] = steps[p]
  BY <1>1, <1>2, <1>5, ProviderTypes
<1>7. Provider!TypeOK'
  <2>1. \A p \in People : Len(steps'[p]) <= MaxPlanned
    BY <1>4, <1>6, ProviderTypes
  <2>2. steps' \in [People -> Seq(PoolKeys)]
    BY <1>2, <1>3, <1>5
  <2>. QED
    BY <1>1, <1>2, <2>1, <2>2 DEF Provider!TypeOK, Provider!Places
<1>8. Provider!LookedInv' /\ Provider!StepsInv'
  BY <1>1, <1>6 DEF Provider!LookedInv, Provider!Looked, Provider!Existing, Provider!StepsInv,
     Provider!OnTheWay
<1>9. Provider!DestroyInv'
  <2>. SUFFICES ASSUME NEW p \in People, Provider!OnTheWay(p)', verb'[p] = "destroy",
                       NEW i \in 1 .. Len(steps'[p])
                PROVE  /\ steps'[p][i] \in OwnPrefix
                       /\ steps'[p][i] \in items' \cup held' => steps'[p][i] \in moved'[p]
    BY DEF Provider!DestroyInv
  <2>1. CASE p = o
    <3>1. s[i] \in S /\ what = "destroy" /\ steps'[p][i] = s[i]
      BY <1>3, <1>6, <2>1
    <3>2. items \ pool[o] \subseteq moved[o]
      BY <1>1 DEF Provider!LookedInv, Provider!Looked
    <3>. QED
      BY <1>1, <2>1, <3>1, <3>2 DEF Provider!SafeToDestroy
  <2>2. CASE p # o
    BY <1>1, <1>6, <2>2 DEF Provider!DestroyInv, Provider!OnTheWay
  <2>. QED
    BY <2>1, <2>2
<1>10. Provider!CreateInv'
  <2>. SUFFICES ASSUME NEW p \in People, Provider!OnTheWay(p)', verb'[p] = "create", p \notin crowded'
                PROVE  Provider!Cardinality(items' \cup exists') + Provider!Needed(p)' <= MaxPool
    BY DEF Provider!CreateInv
  <2>1. CASE p = o
    <3>1. what = "create" /\ s # <<>> /\ at'[o] = "planned" /\ o \notin crowded
      BY <1>1, <1>6, <2>1 DEF Provider!OnTheWay
    <3>2. items \cup exists \subseteq Provider!Existing(o) /\ Provider!Existing(o) \subseteq PoolKeys
      BY <1>1, <3>1, ProviderTypes DEF Provider!LookedInv, Provider!Looked, Provider!Existing
    <3>3. /\ Provider!Cardinality(items \cup exists) <= Provider!Cardinality(Provider!Existing(o))
          /\ Provider!Cardinality(items \cup exists) \in Nat
          /\ Provider!Cardinality(Provider!Existing(o)) \in Nat
      <4>1. items \cup exists \subseteq PoolKeys
        BY <3>2
      <4>. QED
        BY <3>2, <4>1, KeysCount
    <3>4. Len(s) > 0 /\ Provider!Needed(p)' = Len(s)
      BY <1>3, <1>4, <1>6, <2>1, <3>1 DEF Provider!Needed
    <3>5. MaxPool \in Nat
      BY DEF ProviderBounds
    <3>. HIDE DEF Provider!ProviderInv
    <3>6. /\ Provider!Room(o) \in Nat
          /\ Provider!Room(o) > 0 =>
               Provider!Room(o) + Provider!Cardinality(Provider!Existing(o)) = MaxPool
      BY RoomIsCounted DEF Provider!ProviderInv
    <3>7. Len(s) <= Provider!Room(o)
      BY <1>3, <1>4, <3>1, <3>3, <3>5, <3>6
    <3>. QED
      BY <1>1, <1>4, <3>3, <3>4, <3>5, <3>6, <3>7
  <2>2. CASE p # o
    BY <1>1, <1>6, <2>2 DEF Provider!CreateInv, Provider!OnTheWay, Provider!Needed
  <2>. QED
    BY <2>1, <2>2
<1>11. Provider!LogInv' /\ Provider!AllLogged'
  BY <1>1, <1>6 DEF Provider!LogInv, Provider!AllLogged
<1>. QED
  BY <1>7, <1>8, <1>9, <1>10, <1>11

LEMMA ProviderAdds ==
  ASSUME ProviderAssumption, ProviderBounds,
         Provider!ProviderInv, NEW o \in People,
         \/ \E names \in AskedKeys : Provider!PlanAdd(o, names)
         \/ \E n \in 1 .. MaxPlanned : Provider!PlanCount(o, n)
  PROVE  Provider!ProviderInv'
<1>1. Provider!New(o) \subseteq PoolKeys
  BY DEF ProviderAssumption, Provider!New
<1>2. Provider!Room(o) \in Nat
  BY RoomIsCounted DEF Provider!ProviderInv
<1>3. CASE \E names \in AskedKeys : Provider!PlanAdd(o, names)
  <2>1. PICK names \in AskedKeys : Provider!PlanAdd(o, names)
    BY <1>3
  <2>. DEFINE S == names \cap Provider!New(o)
  <2>2. names \subseteq PoolKeys /\ S \subseteq PoolKeys
    BY <2>1, <1>1 DEF ProviderAssumption
  <2>3. /\ Provider!Cardinality(S) <= Provider!Cardinality(names)
        /\ Provider!Cardinality(S) \in Nat /\ Provider!Cardinality(names) \in Nat
    BY <2>2, KeysCount
  <2>4. Provider!Cardinality(names) <= MaxPlanned /\ Provider!Plan(o, "create", Provider!Room(o),
         S)
    BY <2>1 DEF Provider!PlanAdd
  <2>. HIDE DEF S
  <2>5. Provider!Cardinality(S) <= MaxPlanned /\ Provider!Room(o) <= Provider!Room(o)
    BY <1>2, <2>3, <2>4 DEF ProviderBounds
  <2>. QED
    BY <1>2, <2>2, <2>4, <2>5, ProviderPlans
<1>4. CASE \E n \in 1 .. MaxPlanned : Provider!PlanCount(o, n)
  <2>1. PICK n \in 1 .. MaxPlanned : Provider!PlanCount(o, n)
    BY <1>4
  <2>. DEFINE m == Provider!Min({n, Provider!Room(o)})
  <2>2. m = IF n <= Provider!Room(o) THEN n ELSE Provider!Room(o)
    BY <1>2, <2>1, LesserOfTwo DEF ProviderBounds
  <2>3. Provider!Plan(o, "create", m, Provider!New(o))
    BY <2>1 DEF Provider!PlanCount
  <2>. HIDE DEF m
  <2>4. m \in Nat /\ m <= MaxPlanned /\ m <= Provider!Room(o)
    BY <1>2, <2>1, <2>2 DEF ProviderBounds
  <2>. QED
    BY <1>1, <2>3, <2>4, ProviderPlans
<1>. QED
  BY <1>3, <1>4

LEMMA ProviderRemoves ==
  ASSUME ProviderAssumption, ProviderBounds,
         Provider!ProviderInv, NEW o \in People,
         Provider!PlanSweep(o) \/ \E names \in AskedKeys : Provider!PlanRemove(o, names)
  PROVE  Provider!ProviderInv'
<1>1. PICK S \in SUBSET PoolKeys :
        /\ Provider!Plan(o, "destroy", MaxPlanned, S)
        /\ \A k \in S : Provider!SafeToDestroy(o, k)
  <2>1. CASE Provider!PlanSweep(o)
    <3>. DEFINE S == {k \in PoolKeys : Provider!SafeToDestroy(o, k)}
    <3>1. Provider!Plan(o, "destroy", MaxPlanned, S)
      BY <2>1 DEF Provider!PlanSweep
    <3>2. S \in SUBSET PoolKeys /\ \A k \in S : Provider!SafeToDestroy(o, k)
      OBVIOUS
    <3>. HIDE DEF S
    <3>. QED
      BY <3>1, <3>2
  <2>2. ASSUME NEW names \in AskedKeys, Provider!PlanRemove(o, names)
        PROVE  \E S \in SUBSET PoolKeys :
                 /\ Provider!Plan(o, "destroy", MaxPlanned, S)
                 /\ \A k \in S : Provider!SafeToDestroy(o, k)
    <3>. DEFINE S == {k \in names : Provider!SafeToDestroy(o, k)}
    <3>1. Provider!Plan(o, "destroy", MaxPlanned, S)
      BY <2>2 DEF Provider!PlanRemove
    <3>2. S \in SUBSET PoolKeys /\ \A k \in S : Provider!SafeToDestroy(o, k)
      BY <2>2 DEF ProviderAssumption
    <3>. HIDE DEF S
    <3>. QED
      BY <3>1, <3>2
  <2>. QED
    BY <2>1, <2>2
<1>2. MaxPlanned \in Nat /\ MaxPlanned <= MaxPlanned
  BY DEF ProviderBounds
<1>. QED
  BY <1>1, <1>2, ProviderPlans

LEMMA ProviderRuns ==
  ASSUME ProviderAssumption, ProviderBounds,
         Provider!ProviderInv, NEW o \in People, NEW works \in BOOLEAN,
         Provider!RunStep(o, works)
  PROVE  Provider!ProviderInv'
<1>. DEFINE k == Head(steps[o])
<1>. USE DEF Provider!ProviderInv
<1>1. /\ at[o] = "run" /\ at' = [at EXCEPT ![o] = "log"]
      /\ exists' = IF ~works THEN exists ELSE IF verb[o] = "create" THEN exists \cup {k} ELSE exists \ {k}
      /\ unlogged' = [unlogged EXCEPT ![o] = @ \cup {k}]
      /\ crowded' = IF works /\ verb[o] = "create" THEN crowded \cup (Provider!Looked \ {o}) ELSE crowded
      /\ UNCHANGED <<items, held, pool, listed, verb, steps, moved, changes>>
  BY DEF Provider!RunStep
<1>2. k \in PoolKeys /\ Len(steps[o]) \in Nat \ {0} /\ steps[o] # <<>>
  <2>1. steps[o] # <<>> /\ steps[o] \in Seq(PoolKeys)
    BY <1>1, ProviderTypes DEF Provider!StepsInv, Provider!OnTheWay
  <2>. HIDE DEF Provider!ProviderInv
  <2>. QED
    BY <2>1
<1>. HIDE DEF k
<1>3. /\ at'[o] = "log" /\ \A p \in People \ {o} : at'[p] = at[p] /\ unlogged'[p] = unlogged[p]
      /\ unlogged[o] = {} /\ unlogged'[o] = {k}
  <2>1. at \in [People -> Provider!Places] /\ unlogged \in [People -> SUBSET PoolKeys] /\ unlogged[o] = {}
    BY <1>1, Zenon DEF Provider!TypeOK, Provider!LogInv
  <2>. HIDE DEF Provider!ProviderInv
  <2>. QED
    BY <1>1, <2>1
<1>4. Provider!TypeOK'
  <2>1. exists' \subseteq PoolKeys /\ unlogged' \in [People -> SUBSET PoolKeys]
    <3>1. exists \subseteq PoolKeys /\ unlogged \in [People -> SUBSET PoolKeys]
      BY DEF Provider!TypeOK
    <3>. HIDE DEF Provider!ProviderInv
    <3>. QED
      BY <1>1, <1>2, <3>1
  <2>2. crowded' \subseteq People /\ at' \in [People -> Provider!Places]
    BY <1>1 DEF Provider!TypeOK, Provider!Looked, Provider!Places
  <2>. QED
    BY <1>1, <2>1, <2>2 DEF Provider!TypeOK
<1>5. Provider!LookedInv'
  BY <1>1, <1>3 DEF Provider!LookedInv, Provider!Looked, Provider!Existing
<1>6. Provider!StepsInv' /\ Provider!DestroyInv'
  BY <1>1, <1>3 DEF Provider!StepsInv, Provider!DestroyInv, Provider!OnTheWay
<1>7. Provider!CreateInv'
  <2>. SUFFICES ASSUME NEW p \in People, Provider!OnTheWay(p)', verb'[p] = "create", p \notin crowded'
                PROVE  Provider!Cardinality(items' \cup exists') + Provider!Needed(p)' <= MaxPool
    BY DEF Provider!CreateInv
  <2>1. Provider!OnTheWay(p) /\ verb[p] = "create" /\ p \notin crowded
    BY <1>1, <1>3 DEF Provider!OnTheWay
  <2>2. Provider!Cardinality(items \cup exists) + Provider!Needed(p) <= MaxPool
    BY <2>1 DEF Provider!CreateInv
  <2>3. MaxPool \in Nat /\ Len(steps[p]) \in Nat
    <3>1. steps[p] \in Seq(PoolKeys)
      BY ProviderTypes
    <3>. HIDE DEF Provider!ProviderInv
    <3>. QED
      BY <3>1 DEF ProviderBounds
  <2>4. items \cup exists \subseteq PoolKeys
    BY ProviderTypes
  <2>5. CASE p = o
    <3>1. items' \cup exists' \subseteq (items \cup exists) \cup {k}
      BY <1>1
    <3>2. (items \cup exists) \cup {k} \subseteq PoolKeys /\ items' \cup exists' \subseteq PoolKeys
      BY <1>2, <2>4, <3>1
    <3>3. /\ Provider!Cardinality(items' \cup exists') <= Provider!Cardinality((items \cup exists) \cup {k})
          /\ Provider!Cardinality((items \cup exists) \cup {k}) <= Provider!Cardinality(items \cup exists) + 1
          /\ Provider!Cardinality(items' \cup exists') \in Nat
          /\ Provider!Cardinality((items \cup exists) \cup {k}) \in Nat
          /\ Provider!Cardinality(items \cup exists) \in Nat
      BY <2>4, <3>1, <3>2, KeysCount
    <3>4. Provider!Needed(p) = Len(steps[p]) /\ Provider!Needed(p)' = Len(steps[p]) - 1
      BY <1>1, <1>3, <2>5 DEF Provider!Needed
    <3>. HIDE DEF Provider!ProviderInv
    <3>. QED
      BY <2>2, <2>3, <3>3, <3>4
  <2>6. CASE p # o
    <3>1. ~(works /\ verb[o] = "create")
      BY <1>1, <2>1, <2>6 DEF Provider!Looked, Provider!OnTheWay
    <3>2. items' \cup exists' \subseteq items \cup exists
      BY <1>1, <3>1
    <3>3. /\ Provider!Cardinality(items' \cup exists') <= Provider!Cardinality(items \cup exists)
          /\ Provider!Cardinality(items' \cup exists') \in Nat
          /\ Provider!Cardinality(items \cup exists) \in Nat
      BY <2>4, <3>2, KeysCount
    <3>4. Provider!Needed(p)' = Provider!Needed(p) /\ Provider!Needed(p) \in Int
      BY <1>1, <1>3, <2>3, <2>6 DEF Provider!Needed
    <3>. HIDE DEF Provider!ProviderInv
    <3>. QED
      BY <2>2, <2>3, <3>3, <3>4
  <2>. QED
    BY <2>5, <2>6
<1>8. Provider!LogInv' /\ Provider!AllLogged'
  <2>1. Provider!Cardinality({k}) = 1
    BY FS_Singleton, ProviderCards
  <2>. QED
    BY <1>1, <1>3, <2>1 DEF Provider!LogInv, Provider!AllLogged, k
<1>. QED
  BY <1>4, <1>5, <1>6, <1>7, <1>8

LEMMA ProviderLogs ==
  ASSUME ProviderAssumption, ProviderBounds,
         Provider!ProviderInv, NEW o \in People, Provider!LogStep(o)
  PROVE  Provider!ProviderInv'
<1>. DEFINE s == steps[o]
<1>. USE DEF Provider!ProviderInv
<1>1. /\ at[o] = "log" /\ at' = [at EXCEPT ![o] = IF Len(s) = 1 THEN "over" ELSE "run"]
      /\ steps' = [steps EXCEPT ![o] = Tail(s)] /\ unlogged' = [unlogged EXCEPT ![o] = @ \ {Head(s)}]
      /\ UNCHANGED <<items, exists, held, pool, listed, verb, moved, crowded, changes>>
  BY DEF Provider!LogStep
<1>2. s \in Seq(PoolKeys) /\ s # <<>> /\ unlogged[o] = {Head(s)} /\ Len(s) <= MaxPlanned
  BY <1>1, ProviderTypes
     DEF Provider!StepsInv, Provider!OnTheWay, Provider!LogInv
<1>3. /\ at \in [People -> Provider!Places] /\ steps \in [People -> Seq(PoolKeys)]
      /\ unlogged \in [People -> SUBSET PoolKeys]
  BY Zenon DEF Provider!TypeOK
<1>. HIDE DEF s
<1>4. /\ at'[o] = (IF Len(s) = 1 THEN "over" ELSE "run") /\ steps'[o] = Tail(s) /\ unlogged'[o] = {}
      /\ \A p \in People \ {o} : at'[p] = at[p] /\ steps'[p] = steps[p] /\ unlogged'[p] = unlogged[p]
  <2>. HIDE DEF Provider!ProviderInv
  <2>. QED
    BY <1>1, <1>2, <1>3
<1>5. /\ Tail(s) \in Seq(PoolKeys) /\ Len(s) \in Nat \ {0} /\ Len(Tail(s)) = Len(s) - 1
      /\ \A n \in 1 .. Len(Tail(s)) : n + 1 \in 1 .. Len(s) /\ Tail(s)[n] = s[n + 1]
  <2>. HIDE DEF Provider!ProviderInv
  <2>. QED
    BY <1>2
<1>6. Provider!TypeOK'
  <2>1. steps' \in [People -> Seq(PoolKeys)] /\ unlogged' \in [People -> SUBSET PoolKeys]
    <3>. HIDE DEF Provider!ProviderInv
    <3>. QED
      BY <1>1, <1>3, <1>5
  <2>2. \A p \in People : Len(steps'[p]) <= MaxPlanned
    <3>1. \A p \in People : Len(steps[p]) <= MaxPlanned
      BY ProviderTypes
    <3>. HIDE DEF Provider!ProviderInv
    <3>. QED
      BY <1>2, <1>4, <1>5, <3>1 DEF ProviderBounds
  <2>3. at' \in [People -> Provider!Places]
    BY <1>1, <1>3 DEF Provider!Places
  <2>. QED
    BY <1>1, <2>1, <2>2, <2>3 DEF Provider!TypeOK
<1>7. Provider!LookedInv'
  BY <1>1, <1>4 DEF Provider!LookedInv, Provider!Looked, Provider!Existing
<1>8. Provider!StepsInv'
  <2>1. at'[o] = "run" => Tail(s) # <<>>
    <3>1. Len(s) # 1 => Len(Tail(s)) # 0
      BY <1>5
    <3>. HIDE DEF Provider!ProviderInv
    <3>. QED
      BY <1>4, <1>5, <3>1
  <2>2. \A p \in People : Provider!OnTheWay(p) => steps[p] # <<>> /\ verb[p] # "none"
    BY DEF Provider!StepsInv
  <2>3. Provider!OnTheWay(o)
    BY <1>1 DEF Provider!OnTheWay
  <2>. HIDE DEF Provider!ProviderInv
  <2>4. \A p \in People : Provider!OnTheWay(p)' => steps'[p] # <<>> /\ verb'[p] # "none"
    <3>. SUFFICES ASSUME NEW p \in People, Provider!OnTheWay(p)'
                  PROVE  steps'[p] # <<>> /\ verb'[p] # "none"
      OBVIOUS
    <3>1. CASE p = o
      <4>1. at'[o] = "run"
        BY <1>4, <3>1 DEF Provider!OnTheWay
      <4>2. verb'[o] # "none"
        BY <1>1, <2>2, <2>3
      <4>. QED
        BY <1>4, <2>1, <3>1, <4>1, <4>2, Zenon
    <3>2. CASE p # o
      <4>1. Provider!OnTheWay(p) /\ steps'[p] = steps[p] /\ verb'[p] = verb[p]
        BY <1>1, <1>4, <3>2 DEF Provider!OnTheWay
      <4>. QED
        BY <2>2, <4>1, Zenon
    <3>. QED
      BY <3>1, <3>2
  <2>. QED
    BY <2>4 DEF Provider!StepsInv
<1>9. Provider!DestroyInv'
  <2>. SUFFICES ASSUME NEW p \in People, Provider!OnTheWay(p)', verb'[p] = "destroy",
                       NEW i \in 1 .. Len(steps'[p])
                PROVE  /\ steps'[p][i] \in OwnPrefix
                       /\ steps'[p][i] \in items' \cup held' => steps'[p][i] \in moved'[p]
    BY DEF Provider!DestroyInv
  <2>1. CASE p = o
    <3>1. i + 1 \in 1 .. Len(s) /\ steps'[o][i] = s[i + 1]
      BY <1>4, <1>5, <2>1
    <3>. QED
      BY <1>1, <2>1, <3>1 DEF Provider!DestroyInv, Provider!OnTheWay, s
  <2>2. CASE p # o
    BY <1>1, <1>4, <2>2 DEF Provider!DestroyInv, Provider!OnTheWay
  <2>. QED
    BY <2>1, <2>2
<1>10. Provider!CreateInv'
  <2>. SUFFICES ASSUME NEW p \in People, Provider!OnTheWay(p)', verb'[p] = "create", p \notin crowded'
                PROVE  Provider!Cardinality(items' \cup exists') + Provider!Needed(p)' <= MaxPool
    BY DEF Provider!CreateInv
  <2>1. Provider!OnTheWay(p) /\ verb[p] = "create" /\ p \notin crowded
    BY <1>1, <1>4 DEF Provider!OnTheWay
  <2>2. Provider!Needed(p)' = Provider!Needed(p)
    <3>1. CASE p = o
      <4>1. at'[o] = "run" /\ Len(steps'[o]) = Len(s) - 1
        BY <1>4, <1>5, <3>1 DEF Provider!OnTheWay
      <4>. HIDE DEF Provider!ProviderInv
      <4>. QED
        BY <1>1, <1>5, <3>1, <4>1 DEF Provider!Needed, s
    <3>2. CASE p # o
      BY <1>4, <3>2 DEF Provider!Needed
    <3>. QED
      BY <3>1, <3>2
  <2>. QED
    BY <1>1, <2>1, <2>2 DEF Provider!CreateInv
<1>11. Provider!LogInv' /\ Provider!AllLogged'
  BY <1>1, <1>4 DEF Provider!LogInv, Provider!AllLogged
<1>. QED
  BY <1>6, <1>7, <1>8, <1>9, <1>10, <1>11

LEMMA ProviderActs ==
  ASSUME ProviderAssumption, ProviderBounds,
         Provider!ProviderInv, Provider!Next \/ UNCHANGED Provider!vars
  PROVE  Provider!ProviderInv'
<1>1. CASE UNCHANGED Provider!vars
  BY <1>1 DEF Provider!vars, Provider!ProviderInv, Provider!TypeOK, Provider!LookedInv,
     Provider!Looked, Provider!Existing, Provider!StepsInv, Provider!OnTheWay,
     Provider!DestroyInv, Provider!CreateInv, Provider!Needed, Provider!LogInv,
     Provider!AllLogged
<1>2. CASE Provider!Next
  BY <1>2, ProviderChanges, ProviderLooks, ProviderAdds, ProviderRemoves, ProviderRuns,
     ProviderLogs DEF Provider!Next
<1>. QED
  BY <1>1, <1>2

\* A key that is there no more, or only now.
LEMMA ProviderHolds ==
  ASSUME ProviderAssumption, ProviderBounds,
         Provider!ProviderInv, Provider!Next \/ UNCHANGED Provider!vars
  PROVE  Provider!DestroysOnlyLeft /\ Provider!MaxItemsKept
<1>1. ASSUME NEW o \in People, NEW works \in BOOLEAN, Provider!RunStep(o, works)
      PROVE  Provider!DestroysOnlyLeft /\ Provider!MaxItemsKept
  <2>. DEFINE s == steps[o]
  <2>1. /\ at[o] = "run" /\ items' = items
        /\ exists' = IF ~works THEN exists
                 ELSE IF verb[o] = "create" THEN exists \cup {Head(s)} ELSE exists \ {Head(s)}
    BY <1>1 DEF Provider!RunStep
  <2>2. s \in Seq(PoolKeys) /\ s # <<>> /\ verb[o] \in {"create", "destroy"}
    BY <2>1, ProviderTypes DEF Provider!ProviderInv, Provider!StepsInv, Provider!OnTheWay
  <2>. HIDE DEF s
  <2>3. Len(s) \in Nat \ {0} /\ s[1] = Head(s) /\ Head(s) \in PoolKeys
    BY <2>2
  <2>4. Provider!DestroysOnlyLeft
    <3>. SUFFICES ASSUME NEW k \in exists \ exists'
                  PROVE  /\ verb[o] = "destroy" /\ k = Head(s) /\ k \in OwnPrefix
                         /\ k \in items \cup held => k \in moved[o]
      BY <2>1 DEF Provider!DestroysOnlyLeft, s
    <3>1. verb[o] = "destroy" /\ k = Head(s)
      BY <2>1, <2>2
    <3>2. 1 \in 1 .. Len(s)
      BY <2>3
    <3>. QED
      BY <2>1, <2>3, <3>1, <3>2 DEF Provider!ProviderInv, Provider!DestroyInv, Provider!OnTheWay,
             s
  <2>5. Provider!MaxItemsKept
    <3>. SUFFICES ASSUME NEW k \in exists' \ exists, o \notin crowded
                  PROVE  /\ k = Head(s)
                         /\ ~(Provider!Cardinality(items \cup exists') > MaxPool)
      BY <2>1 DEF Provider!MaxItemsKept, s
    <3>1. verb[o] = "create" /\ k = Head(s) /\ items \cup exists' = (items \cup exists) \cup {k}
      BY <2>1, <2>2
    <3>2. Provider!Cardinality(items \cup exists) + Len(s) <= MaxPool
      BY <2>1, <3>1
         DEF Provider!ProviderInv, Provider!CreateInv, Provider!OnTheWay, Provider!Needed, s
    <3>3. items \cup exists \subseteq PoolKeys /\ (items \cup exists) \cup {k} \subseteq PoolKeys
      BY <2>3, <3>1, ProviderTypes DEF Provider!ProviderInv
    <3>4. /\ Provider!Cardinality(items \cup exists) \in Nat
          /\ Provider!Cardinality((items \cup exists) \cup {k}) \in Nat
          /\ Provider!Cardinality((items \cup exists) \cup {k}) <= Provider!Cardinality(items \cup exists) + 1
      BY <3>3, KeysCount
    <3>. HIDE DEF Provider!ProviderInv
    <3>5. Provider!Cardinality((items \cup exists) \cup {k}) <= MaxPool
      BY <2>3, <3>2, <3>4 DEF ProviderBounds
    <3>6. ~(Provider!Cardinality((items \cup exists) \cup {k}) > MaxPool)
      BY <3>4, <3>5 DEF ProviderBounds
    <3>. QED
      BY <3>1, <3>6, Zenon
  <2>. QED
    BY <2>4, <2>5
<1>2. ASSUME exists' = exists
      PROVE  Provider!DestroysOnlyLeft /\ Provider!MaxItemsKept
  BY <1>2 DEF Provider!DestroysOnlyLeft, Provider!MaxItemsKept
<1>3. (\A o \in People, works \in BOOLEAN : ~Provider!RunStep(o, works)) => exists' = exists
  BY DEF Provider!Next, Provider!vars, Provider!AddItem, Provider!DropItem, Provider!Take,
         Provider!GiveBack, Provider!ReadConfig, Provider!List, Provider!GiveUp,
         Provider!PlanSweep, Provider!Confirm, Provider!LogStep, Provider!LogFails,
         Provider!PlanAdd, Provider!PlanRemove, Provider!PlanCount, Provider!Plan
<1>. QED
  BY <1>1, <1>2, <1>3

LEMMA ProviderIsSound ==
  ASSUME ProviderAssumption, ProviderBounds
  PROVE  Provider!Spec => /\ []Provider!AllLogged
                          /\ [][Provider!DestroysOnlyLeft /\ Provider!MaxItemsKept]_(Provider!vars)
<1>1. Provider!Init => Provider!ProviderInv
  BY ProviderBegins
<1>2. Provider!ProviderInv /\ [Provider!Next]_(Provider!vars) => Provider!ProviderInv'
  BY ProviderActs
<1>3. Provider!ProviderInv /\ [Provider!Next]_(Provider!vars)
        => [Provider!DestroysOnlyLeft /\ Provider!MaxItemsKept]_(Provider!vars)
  BY ProviderHolds
<1>4. Provider!ProviderInv => Provider!AllLogged
  BY DEF Provider!ProviderInv
<1>. QED
  BY <1>1, <1>2, <1>3, <1>4, PTL DEF Provider!Spec

-----------------------------------------------------------------------------
(* SchemaUpgrade: processes that upgrade one database.                         *)
CONSTANTS Upgraders, Revisions, EarlyReturns, StartsAt, MaxUpgradeCrashes

VARIABLES dialect, built, rows, stage, rev, lacking, opened, added, mine, base, died

Upgrade == INSTANCE SchemaUpgrade WITH
  Processes <- Upgraders, Items <- Revisions, Early <- EarlyReturns,
  Starts <- StartsAt, MaxCrashes <- MaxUpgradeCrashes,
  at <- stage, todo <- lacking, open <- opened, fresh <- added, crashes <- died

\* What is assumed of the constants: no item is in two revisions, and none is empty.
UpgradeAssumption ==
  /\ Revisions \in Seq(Seq(Nat)) /\ Revisions # <<>> /\ StartsAt \subseteq 0 .. Len(Revisions)
  /\ \A n \in DOMAIN Revisions : Revisions[n] # <<>>
  /\ \A m, n \in DOMAIN Revisions : \A i \in DOMAIN Revisions[m], j \in DOMAIN Revisions[n] :
       m # n => Revisions[m][i] # Revisions[n][j]

\* What the schema has at each revision.
LEMMA Schemas ==
  ASSUME UpgradeAssumption
  PROVE
  /\ Upgrade!HeadRev \in Nat /\ Upgrade!HeadRev > 0
  /\ Upgrade!UpTo(0) = {}
  /\ \A m, n \in Upgrade!Levels : m <= n => Upgrade!UpTo(m) \subseteq Upgrade!UpTo(n)
  /\ \A n \in 1 .. Upgrade!HeadRev :
       /\ Upgrade!UpTo(n) = Upgrade!UpTo(n - 1) \cup Upgrade!ToSet(Revisions[n])
       /\ Upgrade!UpTo(n - 1) \cap Upgrade!ToSet(Revisions[n]) = {}
       /\ Head(Revisions[n]) \in Upgrade!ToSet(Revisions[n])
<1>. USE DEF UpgradeAssumption, Upgrade!HeadRev, Upgrade!Levels
<1>1. Upgrade!HeadRev \in Nat /\ Upgrade!HeadRev > 0
  OBVIOUS
<1>2. Upgrade!UpTo(0) = {}
  BY DEF Upgrade!UpTo
<1>3. ASSUME NEW m \in Upgrade!Levels, NEW n \in Upgrade!Levels, m <= n
      PROVE  Upgrade!UpTo(m) \subseteq Upgrade!UpTo(n)
  <2>1. 1 .. m \subseteq 1 .. n
    BY <1>1, <1>3
  <2>. QED
    BY <2>1 DEF Upgrade!UpTo
<1>4. ASSUME NEW n \in 1 .. Upgrade!HeadRev
      PROVE  /\ Upgrade!UpTo(n) = Upgrade!UpTo(n - 1) \cup Upgrade!ToSet(Revisions[n])
             /\ Upgrade!UpTo(n - 1) \cap Upgrade!ToSet(Revisions[n]) = {}
             /\ Head(Revisions[n]) \in Upgrade!ToSet(Revisions[n])
  <2>1. 1 .. n = 1 .. n - 1 \cup {n}
    BY <1>1, <1>4
  <2>2. Upgrade!UpTo(n) = Upgrade!UpTo(n - 1) \cup Upgrade!ToSet(Revisions[n])
    BY <2>1 DEF Upgrade!UpTo
  <2>3. ASSUME NEW m \in 1 .. n - 1
        PROVE  Upgrade!ToSet(Revisions[m]) \cap Upgrade!ToSet(Revisions[n]) = {}
    <3>1. m \in DOMAIN Revisions /\ n \in DOMAIN Revisions /\ m # n
      BY <1>4, <2>3
    <3>. QED
      BY <3>1 DEF Upgrade!ToSet
  <2>4. Upgrade!UpTo(n - 1) \cap Upgrade!ToSet(Revisions[n]) = {}
    BY <2>3 DEF Upgrade!UpTo
  <2>5. Revisions[n] \in Seq(Nat) /\ Revisions[n] # <<>>
    BY <1>4
  <2>6. 1 \in DOMAIN Revisions[n] /\ Head(Revisions[n]) = Revisions[n][1]
    BY <2>5
  <2>. QED
    BY <2>2, <2>4, <2>6 DEF Upgrade!ToSet
<1>. QED
  BY <1>1, <1>2, <1>3, <1>4

LEMMA UpgradeBegins ==
  ASSUME UpgradeAssumption, Upgrade!Init
  PROVE  Upgrade!UpgradeInv
<1>. USE DEF Upgrade!Init, Upgrade!Row
<1>1. PICK k \in StartsAt : rows = Upgrade!Row(k) /\ built = Upgrade!UpTo(k)
  OBVIOUS
<1>2. k \in Upgrade!Levels
  BY DEF UpgradeAssumption, Upgrade!HeadRev, Upgrade!Levels
<1>3. Upgrade!TypeOK
  <2>1. 0 \in Upgrade!Levels /\ Upgrade!UpTo(k) \subseteq Upgrade!UpTo(Upgrade!HeadRev)
    BY <1>2, Schemas DEF Upgrade!Levels
  <2>2. rows \subseteq 1 .. Upgrade!HeadRev
    BY <1>1, <1>2, Schemas DEF Upgrade!Levels
  <2>. QED
    BY <1>1, <2>1, <2>2 DEF Upgrade!TypeOK, Upgrade!Active
<1>4. Upgrade!Whole(k)
  BY <1>1 DEF Upgrade!Whole
<1>5. Upgrade!Racing(k)
  BY <1>1 DEF Upgrade!Racing, Upgrade!OnItsWay, Upgrade!Active
<1>. QED
  BY <1>1, <1>2, <1>3, <1>4, <1>5 DEF Upgrade!UpgradeInv

\* What a process does, and what no process does to another.
UpgradeBy(p) ==
  \/ Upgrade!Begin(p) \/ Upgrade!Inspect(p) \/ Upgrade!Create(p) \/ Upgrade!Stamp(p)
  \/ Upgrade!Commit(p) \/ Upgrade!DatabaseError(p) \/ Upgrade!CommandError(p)
  \/ Upgrade!AfterError(p) \/ Upgrade!Crash(p)

LEMMA UpgradeOthers ==
  ASSUME UpgradeAssumption, Upgrade!TypeOK, NEW p \in Upgraders, UpgradeBy(p)
  PROVE  /\ dialect' = dialect /\ built \subseteq built'
         /\ \A q \in Upgraders \ {p} :
              /\ stage'[q] = stage[q] /\ rev'[q] = rev[q] /\ lacking'[q] = lacking[q]
              /\ opened'[q] = opened[q]
              /\ added'[q] = added[q] /\ mine'[q] = mine[q] /\ base'[q] = base[q]
<1>. USE DEF Upgrade!TypeOK, Upgrade!Active, Upgrade!Goto, Upgrade!Rollback
<1>1. CASE Upgrade!Begin(p)
  BY <1>1 DEF Upgrade!Begin
<1>2. CASE Upgrade!Inspect(p)
  BY <1>2 DEF Upgrade!Inspect
<1>3. CASE Upgrade!Create(p)
  BY <1>3 DEF Upgrade!Create
<1>4. CASE Upgrade!Stamp(p)
  BY <1>4 DEF Upgrade!Stamp
<1>5. CASE Upgrade!Commit(p)
  BY <1>5 DEF Upgrade!Commit
<1>6. CASE Upgrade!DatabaseError(p) \/ Upgrade!CommandError(p) \/ Upgrade!Crash(p)
  BY <1>6 DEF Upgrade!DatabaseError, Upgrade!CommandError, Upgrade!Crash
<1>7. CASE Upgrade!AfterError(p)
  BY <1>7 DEF Upgrade!AfterError
<1>. QED
  BY <1>1, <1>2, <1>3, <1>4, <1>5, <1>6, <1>7 DEF UpgradeBy

LEMMA UpgradeTypes ==
  ASSUME UpgradeAssumption, Upgrade!UpgradeInv, NEW p \in Upgraders, UpgradeBy(p)
  PROVE  Upgrade!TypeOK'
<1>. DEFINE Top == Upgrade!HeadRev
<1>1. Top \in Nat /\ Top > 0 /\ 0 \in Upgrade!Levels
  BY Schemas DEF Upgrade!Levels
<1>2. Upgrade!TypeOK
  BY DEF Upgrade!UpgradeInv
<1>3. PICK k \in Upgrade!Levels :
        rows = Upgrade!Row(k) /\ (stage[p] = "commit" => k # Top /\ mine[p] = Top)
  <2>1. PICK k \in Upgrade!Levels :
          /\ rows = Upgrade!Row(k)
          /\ k = Top => \A q \in Upgraders : stage[q] # "commit"
          /\ k # Top => Upgrade!Racing(k)
    BY DEF Upgrade!UpgradeInv
  <2>2. ASSUME k # Top, stage[p] = "commit"
        PROVE  mine[p] = Top
    BY <1>1, <2>1, <2>2
       DEF Upgrade!Racing, Upgrade!OnItsWay, Upgrade!Active, Upgrade!Level, Upgrade!Levels
  <2>3. stage[p] = "commit" => k # Top /\ mine[p] = Top
    BY <2>1, <2>2
  <2>. QED
    BY <2>1, <2>3
<1>4. rev[p] \in Upgrade!Levels /\ (rows \ {base[p]}) \cup {Top} \subseteq 1 .. Top
  <2>1. rev[p] \in Upgrade!Levels /\ rows \subseteq 1 .. Top
    BY <1>2 DEF Upgrade!TypeOK
  <2>2. Top \in 1 .. Top
    BY <1>1
  <2>. QED
    BY <2>1, <2>2, Zenon
<1>. USE <1>2 DEF Upgrade!TypeOK, Upgrade!Active, Upgrade!Goto
<1>5. CASE Upgrade!Begin(p)
  <2>. DEFINE next == IF rows = {} THEN 1 ELSE (CHOOSE r \in rows : TRUE) + 1
  <2>1. rows # {Top} => next \in Upgrade!Levels /\ next > 0
    <3>1. CASE k = 0
      BY <1>1, <1>3, <3>1 DEF Upgrade!Row, Upgrade!Levels
    <3>2. CASE k # 0
      <4>1. rows = {k} /\ (CHOOSE r \in rows : TRUE) = k
        BY <1>3, <3>2 DEF Upgrade!Row
      <4>. QED
        BY <1>1, <4>1 DEF Upgrade!Levels
    <3>. QED
      BY <3>1, <3>2
  <2>2. /\ UNCHANGED <<dialect, built, rows, lacking, added, mine, base>>
        /\ IF rows = {Top} THEN stage' = [stage EXCEPT ![p] = "done"] /\ UNCHANGED <<rev, opened>>
           ELSE /\ stage' = [stage EXCEPT ![p] = "inspect"] /\ rev' = [rev EXCEPT ![p] = next]
                /\ opened' = [opened EXCEPT ![p] = (dialect = "postgresql")]
        /\ stage[p] = "start"
    BY <1>5 DEF Upgrade!Begin
  <2>. HIDE DEF next
  <2>3. CASE rows = {Top}
    <3>1. UNCHANGED <<dialect, built, rows, rev, lacking, opened, added, mine, base>>
      BY <2>2, <2>3
    <3>2. stage' = [stage EXCEPT ![p] = "done"]
      BY <2>2, <2>3
    <3>. QED
      BY <2>2, <3>1, <3>2
  <2>4. CASE rows # {Top}
    <3>1. /\ stage' = [stage EXCEPT ![p] = "inspect"] /\ rev' = [rev EXCEPT ![p] = next]
          /\ opened' = [opened EXCEPT ![p] = (dialect = "postgresql")]
          /\ next \in Upgrade!Levels /\ next > 0
      BY <2>1, <2>2, <2>4, Zenon
    <3>2. added[p] = {}
      BY <2>2
    <3>3. ASSUME NEW q \in Upgraders
          PROVE  /\ added[q] # {} => opened'[q]
                 /\ stage'[q] \in {"inspect", "create", "commit"} => rev'[q] > 0
                 /\ opened'[q] => stage'[q] \in {"inspect", "create", "commit"}
      <4>1. CASE q = p
        BY <3>1, <3>2, <4>1
      <4>2. CASE q # p
        <5>1. stage'[q] = stage[q] /\ rev'[q] = rev[q] /\ opened'[q] = opened[q]
          BY <3>1, <4>2
        <5>. QED
          BY <5>1
      <4>. QED
        BY <4>1, <4>2
    <3>4. /\ stage' \in [Upgraders -> {"start", "inspect", "create", "commit", "failed", "done",
                                       "broken", "late", "dead"}]
          /\ rev' \in [Upgraders -> Upgrade!Levels] /\ opened' \in [Upgraders -> BOOLEAN]
      BY <3>1
    <3>. QED
      BY <2>2, <3>3, <3>4, ZenonT(60)
  <2>. QED
    BY <2>3, <2>4
<1>6. CASE Upgrade!Inspect(p)
  <2>1. rev[p] \in 1 .. Top /\ Top \in Upgrade!Levels /\ rev[p] <= Top
    BY <1>1, <1>4, <1>6 DEF Upgrade!Inspect, Upgrade!Levels
  <2>2. Upgrade!ToSet(Revisions[rev[p]]) \subseteq Upgrade!UpTo(Top)
    BY <1>4, <2>1, Schemas
  <2>3. Upgrade!Lacks(rev[p], Upgrade!Seen(p)) \subseteq Upgrade!UpTo(Top)
    BY <2>2 DEF Upgrade!Lacks
  <2>. QED
    BY <1>6, <2>3 DEF Upgrade!Inspect
<1>7. CASE Upgrade!Create(p)
  BY <1>7 DEF Upgrade!Create, Upgrade!NextItem
<1>8. CASE Upgrade!Stamp(p)
  <2>1. /\ rev[p] - 1 \in Upgrade!Levels
        /\ rev[p] # Top => rev[p] + 1 \in Upgrade!Levels /\ rev[p] + 1 > 0
    BY <1>1, <1>4, <1>8 DEF Upgrade!Stamp, Upgrade!Levels
  <2>2. /\ UNCHANGED <<dialect, built, rows, lacking, added>>
        /\ opened' = [opened EXCEPT ![p] = TRUE]
        /\ mine' \in [Upgraders -> Upgrade!Levels] /\ base' \in [Upgraders -> Upgrade!Levels]
        /\ stage[p] = "create"
    BY <1>8, <2>1 DEF Upgrade!Stamp
  <2>3. CASE rev[p] = Top
    BY <1>8, <2>2, <2>3 DEF Upgrade!Stamp
  <2>4. CASE rev[p] # Top
    BY <1>8, <2>1, <2>2, <2>4 DEF Upgrade!Stamp
  <2>. QED
    BY <2>3, <2>4
<1>9. CASE Upgrade!Commit(p)
  <2>1. rows' = (rows \ {base[p]}) \cup {Top}
    BY <1>3, <1>9 DEF Upgrade!Commit
  <2>2. rows' \subseteq 1 .. Top
    BY <1>4, <2>1
  <2>. QED
    BY <1>1, <1>9, <2>2 DEF Upgrade!Commit
<1>10. CASE Upgrade!DatabaseError(p) \/ Upgrade!CommandError(p) \/ Upgrade!Crash(p)
  <2>1. Upgrade!Rollback(p) /\ \E place \in {"failed", "broken", "dead"} : Upgrade!Goto(p, place)
    BY <1>10 DEF Upgrade!DatabaseError, Upgrade!CommandError, Upgrade!Crash
  <2>. QED
    BY <1>1, <2>1 DEF Upgrade!Rollback
<1>11. CASE Upgrade!AfterError(p)
  BY <1>11 DEF Upgrade!AfterError
<1>. QED
  BY <1>5, <1>6, <1>7, <1>8, <1>9, <1>10, <1>11 DEF UpgradeBy

\* What one process does takes no other off its way, nor what is whole apart.
LEMMA UpgradeAside ==
  ASSUME UpgradeAssumption,
         Upgrade!UpgradeInv, NEW p \in Upgraders, UpgradeBy(p), NEW k \in Upgrade!Levels
  PROVE  /\ Upgrade!Whole(k) => Upgrade!Whole(k)'
         /\ \A q \in Upgraders \ {p} : Upgrade!OnItsWay(q, k) => Upgrade!OnItsWay(q, k)'
<1>1. /\ dialect' = dialect /\ built \subseteq built'
      /\ \A q \in Upgraders \ {p} :
           /\ stage'[q] = stage[q] /\ rev'[q] = rev[q] /\ lacking'[q] = lacking[q]
           /\ opened'[q] = opened[q]
           /\ added'[q] = added[q] /\ mine'[q] = mine[q] /\ base'[q] = base[q]
  BY UpgradeOthers DEF Upgrade!UpgradeInv
<1>2. \A i : Upgrade!Skipped(i) => Upgrade!Skipped(i)'
  BY <1>1 DEF Upgrade!Skipped
<1>3. Upgrade!Whole(k) => Upgrade!Whole(k)'
  BY <1>1, <1>2 DEF Upgrade!Whole
<1>4. ASSUME NEW q \in Upgraders \ {p}, Upgrade!OnItsWay(q, k)
      PROVE  Upgrade!OnItsWay(q, k)'
  <2>1. \A i : i \in Upgrade!Seen(q) \/ Upgrade!Skipped(i)
               => i \in Upgrade!Seen(q)' \/ Upgrade!Skipped(i)'
    BY <1>1, <1>2 DEF Upgrade!Seen
  <2>2. Upgrade!Active(q)' = Upgrade!Active(q) /\ Upgrade!Level(q)' = Upgrade!Level(q)
    BY <1>1 DEF Upgrade!Active, Upgrade!Level
  <2>3. Upgrade!Has(q, Upgrade!Level(q)) => Upgrade!Has(q, Upgrade!Level(q))'
    BY <2>1, <2>2 DEF Upgrade!Has
  <2>. QED
    BY <1>1, <1>4, <2>1, <2>2, <2>3 DEF Upgrade!OnItsWay
<1>. QED
  BY <1>3, <1>4

\* Once the row says that all is there, it says so for good.
LEMMA UpgradeOver ==
  ASSUME UpgradeAssumption, Upgrade!UpgradeInv, NEW p \in Upgraders, UpgradeBy(p),
         rows = {Upgrade!HeadRev}
  PROVE  rows' = rows /\ Upgrade!UpgradeInv'
<1>. DEFINE Top == Upgrade!HeadRev
<1>1. Top \in Nat /\ Top > 0 /\ Top \in Upgrade!Levels
  BY Schemas DEF Upgrade!Levels
<1>2. Upgrade!Whole(Top) /\ \A q \in Upgraders : stage[q] # "commit"
  BY <1>1 DEF Upgrade!UpgradeInv, Upgrade!Row
<1>3. rows' = rows
  BY <1>2 DEF UpgradeBy, Upgrade!Begin, Upgrade!Inspect, Upgrade!Create, Upgrade!Stamp,
              Upgrade!Commit, Upgrade!DatabaseError, Upgrade!CommandError, Upgrade!AfterError,
              Upgrade!Crash, Upgrade!Rollback
<1>4. \A q \in Upgraders : stage'[q] # "commit"
  <2>1. stage'[p] # "commit"
    BY <1>2 DEF UpgradeBy, Upgrade!Begin, Upgrade!Inspect, Upgrade!Create, Upgrade!Stamp,
                Upgrade!Commit, Upgrade!DatabaseError, Upgrade!CommandError, Upgrade!AfterError,
                Upgrade!Crash, Upgrade!Goto, Upgrade!UpgradeInv, Upgrade!TypeOK
  <2>. QED
    BY <1>2, <2>1, UpgradeOthers DEF Upgrade!UpgradeInv
<1>5. Upgrade!Whole(Top)'
  BY <1>1, <1>2, UpgradeAside
<1>. QED
  BY <1>1, <1>3, <1>4, <1>5, UpgradeTypes DEF Upgrade!UpgradeInv, Upgrade!Row

\* The steps of a process while the row is not yet moved.
LEMMA UpgradeRollsBack ==
  ASSUME UpgradeAssumption, Upgrade!UpgradeInv, NEW p \in Upgraders, NEW k \in Upgrade!Levels,
         Upgrade!DatabaseError(p) \/ Upgrade!CommandError(p) \/ Upgrade!Crash(p)
  PROVE  /\ Upgrade!OnItsWay(p, k)' /\ added'[p] = {} /\ mine'[p] = 0
         /\ built' = built /\ rows' = rows
<1>1. Upgrade!Rollback(p) /\ \E place \in {"failed", "broken", "dead"} : Upgrade!Goto(p, place)
  BY DEF Upgrade!DatabaseError, Upgrade!CommandError, Upgrade!Crash
<1>2. Upgrade!TypeOK
  BY DEF Upgrade!UpgradeInv
<1>3. /\ stage'[p] \in {"failed", "broken", "dead"} /\ added'[p] = {} /\ mine'[p] = 0
      /\ built' = built /\ rows' = rows
  BY <1>1, <1>2 DEF Upgrade!Rollback, Upgrade!Goto, Upgrade!TypeOK
<1>. QED
  BY <1>3 DEF Upgrade!OnItsWay, Upgrade!Active

LEMMA UpgradeEnters ==
  ASSUME UpgradeAssumption,
         Upgrade!UpgradeInv, NEW p \in Upgraders, NEW k \in Upgrade!Levels, k # Upgrade!HeadRev,
         rows = Upgrade!Row(k), Upgrade!Whole(k), Upgrade!OnItsWay(p, k),
         Upgrade!Begin(p) \/ Upgrade!AfterError(p)
  PROVE  /\ Upgrade!OnItsWay(p, k)' /\ added'[p] = {} /\ mine'[p] = 0
         /\ built' = built /\ rows' = rows
<1>. DEFINE Top == Upgrade!HeadRev
<1>1. Top \in Nat /\ Top > 0 /\ k \in 0 .. Top /\ k < Top
  BY Schemas DEF Upgrade!Levels
<1>2. rows # {Top}
  BY <1>1 DEF Upgrade!Row
<1>3. Upgrade!TypeOK
  BY DEF Upgrade!UpgradeInv
<1>4. stage[p] \in {"start", "failed"}
  BY DEF Upgrade!Begin, Upgrade!AfterError
<1>5. added[p] = {} /\ mine[p] = 0
  BY <1>3, <1>4 DEF Upgrade!TypeOK, Upgrade!OnItsWay, Upgrade!Active
<1>6. added' = added /\ mine' = mine /\ built' = built /\ rows' = rows
  BY DEF Upgrade!Begin, Upgrade!AfterError
<1>7. CASE Upgrade!AfterError(p)
  <2>1. stage'[p] \in {"start", "late"}
    BY <1>2, <1>3, <1>7 DEF Upgrade!AfterError, Upgrade!Goto, Upgrade!TypeOK
  <2>. QED
    BY <1>5, <1>6, <2>1 DEF Upgrade!OnItsWay, Upgrade!Active
<1>8. CASE Upgrade!Begin(p)
  <2>1. (IF rows = {} THEN 1 ELSE (CHOOSE r \in rows : TRUE) + 1) = k + 1
    <3>1. CASE k = 0
      BY <3>1 DEF Upgrade!Row
    <3>2. CASE k # 0
      <4>1. rows = {k} /\ (CHOOSE r \in rows : TRUE) = k
        BY <3>2 DEF Upgrade!Row
      <4>. QED
        BY <4>1
    <3>. QED
      BY <3>1, <3>2
  <2>2. stage' = [stage EXCEPT ![p] = "inspect"] /\ rev' = [rev EXCEPT ![p] = k + 1]
    BY <1>2, <1>8, <2>1 DEF Upgrade!Begin, Upgrade!Goto
  <2>3. opened' = [opened EXCEPT ![p] = (dialect = "postgresql")] /\ dialect' = dialect
    BY <1>2, <1>8 DEF Upgrade!Begin
  <2>4. stage'[p] = "inspect" /\ rev'[p] = k + 1 /\ (opened'[p] <=> dialect' = "postgresql")
    BY <1>3, <2>2, <2>3 DEF Upgrade!TypeOK
  <2>5. Upgrade!Level(p)' = k
    BY <1>1, <2>4 DEF Upgrade!Level
  <2>6. Upgrade!Whole(k)'
    BY <1>8, UpgradeAside DEF UpgradeBy
  <2>7. Upgrade!Has(p, Upgrade!Level(p))'
    BY <2>5, <2>6 DEF Upgrade!Has, Upgrade!Whole, Upgrade!Seen
  <2>8. Upgrade!Level(p)' \in (k .. Upgrade!HeadRev)
    BY <1>1, <2>5
  <2>. QED
    BY <1>5, <1>6, <2>4, <2>5, <2>7, <2>8 DEF Upgrade!OnItsWay, Upgrade!Active
<1>. QED
  BY <1>5, <1>6, <1>7, <1>8

LEMMA UpgradeInspects ==
  ASSUME UpgradeAssumption, Upgrade!UpgradeInv, NEW p \in Upgraders, NEW k \in Upgrade!Levels,
         Upgrade!Racing(k), Upgrade!Inspect(p)
  PROVE  /\ Upgrade!OnItsWay(p, k)'
         /\ built' = built /\ rows' = rows /\ added' = added /\ mine' = mine
<1>. DEFINE Top   == Upgrade!HeadRev
            needed == Upgrade!ToSet(Revisions[rev[p]])
<1>1. Top \in Nat /\ k \in 0 .. Top
  BY Schemas DEF Upgrade!Levels
<1>2. Upgrade!TypeOK /\ Upgrade!OnItsWay(p, k)
  BY DEF Upgrade!UpgradeInv, Upgrade!Racing
<1>3. /\ dialect' = dialect /\ built' = built /\ rows' = rows /\ rev' = rev /\ opened' = opened
      /\ added' = added /\ mine' = mine /\ base' = base
  BY DEF Upgrade!Inspect
<1>4. /\ stage[p] = "inspect" /\ stage'[p] = "create"
      /\ lacking'[p] = Upgrade!Lacks(rev[p], Upgrade!Seen(p))
  BY <1>2 DEF Upgrade!Inspect, Upgrade!Goto, Upgrade!TypeOK
<1>5. rev[p] \in 0 .. Top /\ rev[p] > 0 /\ rev[p] - 1 \in k .. Top
  BY <1>2, <1>4 DEF Upgrade!TypeOK, Upgrade!OnItsWay, Upgrade!Active, Upgrade!Level,
         Upgrade!Levels
<1>6. /\ rev[p] - 1 \in Upgrade!Levels /\ rev[p] \in Upgrade!Levels /\ rev[p] \in 1 .. Top
      /\ k <= rev[p] - 1 /\ rev[p] - 1 <= rev[p]
  BY <1>1, <1>5 DEF Upgrade!Levels
<1>7. /\ Upgrade!UpTo(k) \subseteq Upgrade!UpTo(rev[p] - 1)
      /\ Upgrade!UpTo(rev[p] - 1) \subseteq Upgrade!UpTo(rev[p])
      /\ Upgrade!UpTo(rev[p] - 1) \cap needed = {} /\ Head(Revisions[rev[p]]) \in needed
  BY <1>6, Schemas
<1>8. added[p] \subseteq Upgrade!UpTo(rev[p] - 1)
  BY <1>2, <1>4 DEF Upgrade!OnItsWay
<1>9. ASSUME NEW i \in needed \ lacking'[p]
      PROVE  i \in Upgrade!Seen(p) \/ Upgrade!Skipped(i)
  <2>1. CASE rev[p] \in EarlyReturns /\ Head(Revisions[rev[p]]) \in Upgrade!Seen(p)
    <3>1. Head(Revisions[rev[p]]) \in built
      BY <1>7, <1>8, <2>1 DEF Upgrade!Seen
    <3>2. dialect # "postgresql"
      BY <1>7, <3>1 DEF Upgrade!Racing
    <3>3. dialect = "sqlite"
      BY <1>2, <3>2 DEF Upgrade!TypeOK
    <3>. QED
      BY <1>9, <2>1, <3>1, <3>3 DEF Upgrade!Skipped
  <2>2. CASE ~(rev[p] \in EarlyReturns /\ Head(Revisions[rev[p]]) \in Upgrade!Seen(p))
    BY <1>4, <1>9, <2>2 DEF Upgrade!Lacks
  <2>. QED
    BY <2>1, <2>2
<1>10. lacking'[p] \subseteq needed
  BY <1>4 DEF Upgrade!Lacks
<1>11. /\ Upgrade!Level(p)' = Upgrade!Level(p)
       /\ Upgrade!Has(p, Upgrade!Level(p))' <=> Upgrade!Has(p, Upgrade!Level(p))
       /\ \A i : (i \in Upgrade!Seen(p) \/ Upgrade!Skipped(i))'
                  <=> i \in Upgrade!Seen(p) \/ Upgrade!Skipped(i)
  BY <1>3, <1>4 DEF Upgrade!Level, Upgrade!Has, Upgrade!Seen, Upgrade!Skipped
<1>. HIDE DEF Top
<1>12. added'[p] \subseteq Upgrade!UpTo(rev'[p])
  BY <1>3, <1>7, <1>8
<1>13. /\ Upgrade!Level(p) \in k .. Upgrade!HeadRev /\ Upgrade!Has(p, Upgrade!Level(p))
       /\ mine[p] = (IF Upgrade!Level(p) = k THEN 0 ELSE Upgrade!Level(p))
       /\ (mine[p] # 0 => base[p] = k)
       /\ opened[p] <=> dialect = "postgresql" \/ mine[p] # 0
  BY <1>2, <1>4 DEF Upgrade!OnItsWay, Upgrade!Active
<1>. QED
  BY <1>3, <1>4, <1>9, <1>10, <1>11, <1>12, <1>13 DEF Upgrade!OnItsWay, Upgrade!Active

LEMMA UpgradeCreates ==
  ASSUME UpgradeAssumption, Upgrade!UpgradeInv, NEW p \in Upgraders, NEW k \in Upgrade!Levels,
         Upgrade!Racing(k), Upgrade!Create(p)
  PROVE  /\ Upgrade!OnItsWay(p, k)' /\ rows' = rows /\ mine' = mine
         /\ dialect = "postgresql" => built' = built
         /\ \A q \in Upgraders \ {p} : added'[p] \cap added[q] = {}
<1>1. Upgrade!TypeOK /\ Upgrade!OnItsWay(p, k)
  BY DEF Upgrade!UpgradeInv, Upgrade!Racing
<1>2. PICK item \in lacking[p] :
        /\ ~Upgrade!Blocked(p, {item}, 0)
        /\ IF opened[p] THEN added' = [added EXCEPT ![p] = @ \cup {item}] /\ built' = built
           ELSE built' = built \cup {item} /\ added' = added
        /\ lacking' = [lacking EXCEPT ![p] = @ \ {item}]
  BY DEF Upgrade!Create, Upgrade!NextItem
<1>3. /\ dialect' = dialect /\ rows' = rows /\ stage' = stage /\ rev' = rev /\ opened' = opened
      /\ mine' = mine /\ base' = base
      /\ stage[p] = "create"
  BY DEF Upgrade!Create
<1>4. /\ added[p] \subseteq Upgrade!UpTo(rev[p])
      /\ lacking[p] \subseteq Upgrade!ToSet(Revisions[rev[p]])
      /\ \A i \in Upgrade!ToSet(Revisions[rev[p]]) \ lacking[p] :
           i \in Upgrade!Seen(p) \/ Upgrade!Skipped(i)
      /\ Upgrade!Level(p) \in k .. Upgrade!HeadRev /\ Upgrade!Has(p, Upgrade!Level(p))
      /\ mine[p] = (IF Upgrade!Level(p) = k THEN 0 ELSE Upgrade!Level(p))
      /\ (mine[p] # 0 => base[p] = k)
      /\ opened[p] <=> dialect = "postgresql" \/ mine[p] # 0
  BY <1>1, <1>3 DEF Upgrade!OnItsWay, Upgrade!Active
<1>5. rev[p] \in 1 .. Upgrade!HeadRev
  BY <1>1, <1>3, Schemas DEF Upgrade!TypeOK, Upgrade!Active, Upgrade!Levels
<1>6. Upgrade!ToSet(Revisions[rev[p]]) \subseteq Upgrade!UpTo(rev[p])
  BY <1>5, Schemas
<1>7. /\ built \subseteq built' /\ added[p] \subseteq added'[p]
      /\ lacking'[p] = lacking[p] \ {item}
      /\ item \in built' \cup added'[p] /\ added'[p] \subseteq added[p] \cup {item}
  BY <1>1, <1>2 DEF Upgrade!TypeOK
<1>8. /\ \A i : Upgrade!Skipped(i) => Upgrade!Skipped(i)'
      /\ \A i : i \in Upgrade!Seen(p) => i \in Upgrade!Seen(p)'
  BY <1>3, <1>7 DEF Upgrade!Skipped, Upgrade!Seen
<1>9. /\ Upgrade!Level(p)' = Upgrade!Level(p)
      /\ Upgrade!Has(p, Upgrade!Level(p))'
  <2>1. Upgrade!Level(p)' = Upgrade!Level(p)
    BY <1>3 DEF Upgrade!Level
  <2>. QED
    BY <1>4, <1>8, <2>1 DEF Upgrade!Has
<1>10. \A i \in Upgrade!ToSet(Revisions[rev[p]]) \ lacking'[p] :
         (i \in Upgrade!Seen(p) \/ Upgrade!Skipped(i))'
  <2>1. item \in Upgrade!Seen(p)'
    BY <1>7 DEF Upgrade!Seen
  <2>. QED
    BY <1>4, <1>7, <1>8, <2>1
<1>11. /\ added'[p] \subseteq Upgrade!UpTo(rev[p])
       /\ lacking'[p] \subseteq Upgrade!ToSet(Revisions[rev[p]])
  BY <1>4, <1>6, <1>7
<1>12. Upgrade!OnItsWay(p, k)'
  BY <1>3, <1>4, <1>9, <1>10, <1>11 DEF Upgrade!OnItsWay, Upgrade!Active
<1>13. dialect = "postgresql" => built' = built
  BY <1>2, <1>4
<1>14. ASSUME NEW q \in Upgraders \ {p}
       PROVE  added'[p] \cap added[q] = {}
  <2>1. added[p] \cap added[q] = {}
    BY <1>14 DEF Upgrade!Racing
  <2>2. added[q] # {} => opened[q]
    BY <1>1, <1>14 DEF Upgrade!TypeOK
  <2>3. item \notin added[q]
    BY <1>2, <1>14, <2>2 DEF Upgrade!Blocked
  <2>. QED
    BY <1>7, <2>1, <2>3
<1>. QED
  BY <1>3, <1>12, <1>13, <1>14

LEMMA UpgradeStamps ==
  ASSUME UpgradeAssumption, Upgrade!UpgradeInv, NEW p \in Upgraders, NEW k \in Upgrade!Levels,
         Upgrade!Racing(k), Upgrade!Stamp(p)
  PROVE  /\ Upgrade!OnItsWay(p, k)'
         /\ built' = built /\ rows' = rows /\ added' = added
<1>. DEFINE Top == Upgrade!HeadRev
<1>1. Top \in Nat /\ Top > 0 /\ k \in 0 .. Top
  BY Schemas DEF Upgrade!Levels
<1>2. Upgrade!TypeOK /\ Upgrade!OnItsWay(p, k)
  BY DEF Upgrade!UpgradeInv, Upgrade!Racing
<1>3. /\ dialect' = dialect /\ built' = built /\ rows' = rows /\ lacking' = lacking
      /\ added' = added /\ stage[p] = "create" /\ lacking[p] = {}
  BY DEF Upgrade!Stamp
<1>4. /\ rev[p] \in 1 .. Top /\ rev[p] - 1 \in k .. Top /\ rev[p] \in Upgrade!Levels
      /\ Upgrade!Level(p) = rev[p] - 1
  BY <1>1, <1>2, <1>3
     DEF Upgrade!TypeOK, Upgrade!OnItsWay, Upgrade!Active, Upgrade!Level, Upgrade!Levels
<1>5. /\ opened'[p] = TRUE /\ mine'[p] = rev[p]
      /\ base'[p] = IF mine[p] = 0 THEN rev[p] - 1 ELSE base[p]
  BY <1>2 DEF Upgrade!Stamp, Upgrade!TypeOK
<1>6. \/ rev[p] = Top /\ stage'[p] = "commit" /\ rev'[p] = rev[p]
      \/ stage'[p] = "inspect" /\ rev'[p] = rev[p] + 1
  BY <1>2 DEF Upgrade!Stamp, Upgrade!Goto, Upgrade!TypeOK
<1>7. Upgrade!Level(p)' = rev[p]
  BY <1>4, <1>6 DEF Upgrade!Level
<1>8. base'[p] = k
  BY <1>1, <1>2, <1>3, <1>4, <1>5 DEF Upgrade!OnItsWay, Upgrade!Active
<1>9. Upgrade!UpTo(rev[p]) = Upgrade!UpTo(rev[p] - 1) \cup Upgrade!ToSet(Revisions[rev[p]])
  BY <1>4, Schemas
<1>10. \A i : (i \in Upgrade!Seen(p) \/ Upgrade!Skipped(i))'
               <=> i \in Upgrade!Seen(p) \/ Upgrade!Skipped(i)
  BY <1>3 DEF Upgrade!Seen, Upgrade!Skipped
<1>11. Upgrade!Has(p, Upgrade!Level(p))'
  <2>1. Upgrade!Has(p, rev[p] - 1)
    BY <1>2, <1>3, <1>4 DEF Upgrade!OnItsWay, Upgrade!Active
  <2>2. \A i \in Upgrade!ToSet(Revisions[rev[p]]) : i \in Upgrade!Seen(p) \/ Upgrade!Skipped(i)
    BY <1>2, <1>3 DEF Upgrade!OnItsWay
  <2>. QED
    BY <1>7, <1>9, <1>10, <2>1, <2>2 DEF Upgrade!Has
<1>12. Upgrade!Level(p)' \in (k .. Upgrade!HeadRev) /\ Upgrade!Level(p)' # k /\ rev[p] # 0
  BY <1>1, <1>4, <1>7
<1>13. stage'[p] = "inspect" => added'[p] \subseteq Upgrade!UpTo(rev'[p] - 1)
  <2>1. added[p] \subseteq Upgrade!UpTo(rev[p])
    BY <1>2, <1>3 DEF Upgrade!OnItsWay
  <2>2. stage'[p] = "inspect" => rev'[p] - 1 = rev[p]
    BY <1>4, <1>6
  <2>. QED
    BY <1>3, <2>1, <2>2
<1>14. stage'[p] = "commit" => rev'[p] = Top
  BY <1>6
<1>15. stage'[p] \in {"inspect", "commit"}
  BY <1>6
<1>. HIDE DEF Top
<1>. QED
  BY <1>3, <1>5, <1>7, <1>8, <1>11, <1>12, <1>13, <1>14, <1>15
     DEF Upgrade!OnItsWay, Upgrade!Active, Top

\* Who writes the row in its transaction waits for, or meets, whoever has written it.
LEMMA UpgradeAlone ==
  ASSUME UpgradeAssumption, Upgrade!UpgradeInv, NEW p \in Upgraders, NEW k \in Upgrade!Levels,
         Upgrade!Racing(k), Upgrade!Stamp(p), NEW q \in Upgraders \ {p}
  PROVE  mine[q] = 0
<1>. DEFINE Top == Upgrade!HeadRev
<1>. SUFFICES ASSUME mine[q] # 0
              PROVE  FALSE
  OBVIOUS
<1>1. Top \in Nat /\ Top > 0 /\ k \in 0 .. Top
  BY Schemas DEF Upgrade!Levels
<1>2. Upgrade!TypeOK /\ Upgrade!OnItsWay(p, k) /\ Upgrade!OnItsWay(q, k)
  BY DEF Upgrade!UpgradeInv, Upgrade!Racing
<1>3. stage[p] = "create" /\ lacking[p] = {} /\ ~Upgrade!Blocked(p, {}, rev[p] - 1)
  BY DEF Upgrade!Stamp
<1>4. /\ opened[q] /\ base[q] = k /\ Upgrade!Level(q) \in k .. Top /\ Upgrade!Level(q) # k
      /\ Upgrade!Has(q, Upgrade!Level(q))
  BY <1>2 DEF Upgrade!OnItsWay
<1>5. mine[p] = 0
  BY DEF Upgrade!Racing
<1>6. rev[p] \in 1 .. Top /\ rev[p] - 1 = k
  BY <1>1, <1>2, <1>3, <1>5
     DEF Upgrade!TypeOK, Upgrade!OnItsWay, Upgrade!Active, Upgrade!Level, Upgrade!Levels
<1>7. dialect # "sqlite" /\ k = 0
  BY <1>3, <1>4, <1>6 DEF Upgrade!Blocked
<1>8. dialect = "postgresql" /\ \A i : ~Upgrade!Skipped(i)
  BY <1>2, <1>7 DEF Upgrade!TypeOK, Upgrade!Skipped
<1>9. built = {} /\ rev[p] = 1
  BY <1>6, <1>7, <1>8, Schemas DEF Upgrade!Racing
<1>10. PICK i \in Upgrade!ToSet(Revisions[1]) : i \in Upgrade!UpTo(1)
  BY <1>6, <1>9, Schemas
<1>11. i \in added[p]
  BY <1>2, <1>3, <1>8, <1>9, <1>10 DEF Upgrade!OnItsWay, Upgrade!Seen
<1>12. i \in Upgrade!UpTo(Upgrade!Level(q))
  <2>1. Upgrade!Level(q) \in Upgrade!Levels /\ 1 \in Upgrade!Levels /\ 1 <= Upgrade!Level(q)
    BY <1>1, <1>4, <1>7 DEF Upgrade!Levels
  <2>. QED
    BY <1>10, <2>1, Schemas
<1>13. i \in added[q]
  BY <1>4, <1>8, <1>9, <1>12 DEF Upgrade!Has, Upgrade!Seen
<1>. QED
  BY <1>11, <1>13 DEF Upgrade!Racing

LEMMA UpgradeCommits ==
  ASSUME UpgradeAssumption, Upgrade!UpgradeInv, NEW p \in Upgraders, NEW k \in Upgrade!Levels,
         k # Upgrade!HeadRev, rows = Upgrade!Row(k), Upgrade!Racing(k), Upgrade!Commit(p)
  PROVE  rows' = {Upgrade!HeadRev} /\ Upgrade!UpgradeInv'
<1>. DEFINE Top == Upgrade!HeadRev
<1>1. Top \in Nat /\ Top > 0 /\ k \in 0 .. Top /\ Top \in Upgrade!Levels
  BY Schemas DEF Upgrade!Levels
<1>2. Upgrade!TypeOK
  BY DEF Upgrade!UpgradeInv
<1>3. /\ stage[p] = "commit" /\ stage'[p] = "done" /\ dialect' = dialect
      /\ built' = built \cup added[p]
  BY <1>2 DEF Upgrade!Commit, Upgrade!Goto, Upgrade!TypeOK
<1>4. ASSUME NEW q \in Upgraders, stage[q] = "commit"
      PROVE  /\ mine[q] = Top /\ base[q] = k
             /\ Upgrade!Has(q, Top)
  <2>1. Upgrade!OnItsWay(q, k)
    BY DEF Upgrade!Racing
  <2>2. Upgrade!Level(q) = Top
    BY <1>4, <2>1 DEF Upgrade!Level, Upgrade!OnItsWay
  <2>. QED
    BY <1>1, <1>4, <2>1, <2>2 DEF Upgrade!OnItsWay, Upgrade!Active
<1>5. rows' = {Top}
  BY <1>3, <1>4 DEF Upgrade!Commit, Upgrade!Row
<1>6. \A q \in Upgraders : stage'[q] # "commit"
  <2>1. \A q \in Upgraders \ {p} : stage'[q] = stage[q]
    BY <1>2 DEF Upgrade!Commit, Upgrade!Goto, Upgrade!TypeOK
  <2>2. \A q \in Upgraders \ {p} : stage[q] # "commit"
    BY <1>1, <1>3, <1>4 DEF Upgrade!Racing
  <2>. QED
    BY <1>3, <2>1, <2>2
<1>7. Upgrade!Whole(Top)'
  <2>1. \A i \in Upgrade!UpTo(Top) : i \in built' \/ Upgrade!Skipped(i)
    BY <1>3, <1>4 DEF Upgrade!Has, Upgrade!Seen
  <2>2. \A i : Upgrade!Skipped(i) => Upgrade!Skipped(i)'
    BY <1>3 DEF Upgrade!Skipped
  <2>. QED
    BY <2>1, <2>2 DEF Upgrade!Whole
<1>8. Upgrade!TypeOK'
  BY UpgradeTypes DEF UpgradeBy
<1>. QED
  BY <1>1, <1>5, <1>6, <1>7, <1>8 DEF Upgrade!UpgradeInv, Upgrade!Row

\* The race goes on: who steps stays on its way, and keeps what it is alone with.
LEMMA UpgradeRaces ==
  ASSUME UpgradeAssumption, Upgrade!UpgradeInv, NEW p \in Upgraders, UpgradeBy(p),
         ~Upgrade!Commit(p),
         NEW k \in Upgrade!Levels, k # Upgrade!HeadRev,
         rows = Upgrade!Row(k), Upgrade!Whole(k), Upgrade!Racing(k)
  PROVE  rows' = rows /\ Upgrade!Racing(k)'
<1>1. Upgrade!OnItsWay(p, k)
  BY DEF Upgrade!Racing
<1>2. /\ Upgrade!OnItsWay(p, k)' /\ rows' = rows
      /\ dialect = "postgresql" => built' = built
      /\ \A q \in Upgraders \ {p} :
           added'[p] \cap added[q] = {} /\ (mine'[p] = 0 \/ mine[q] = 0)
  <2>0. \A q \in Upgraders \ {p} :
          added[p] \cap added[q] = {} /\ (mine[p] = 0 \/ mine[q] = 0)
    BY DEF Upgrade!Racing
  <2>1. CASE Upgrade!Begin(p) \/ Upgrade!AfterError(p)
    BY <1>1, <2>1, UpgradeEnters
  <2>2. CASE Upgrade!Inspect(p)
    BY <2>0, <2>2, UpgradeInspects
  <2>3. CASE Upgrade!Create(p)
    BY <2>0, <2>3, UpgradeCreates
  <2>4. CASE Upgrade!Stamp(p)
    BY <2>0, <2>4, UpgradeStamps, UpgradeAlone
  <2>5. CASE Upgrade!DatabaseError(p) \/ Upgrade!CommandError(p) \/ Upgrade!Crash(p)
    BY <2>5, UpgradeRollsBack
  <2>. QED
    BY <2>1, <2>2, <2>3, <2>4, <2>5 DEF UpgradeBy
<1>3. /\ dialect' = dialect
      /\ \A q \in Upgraders \ {p} : added'[q] = added[q] /\ mine'[q] = mine[q]
  BY UpgradeOthers DEF Upgrade!UpgradeInv
<1>4. \A q \in Upgraders : Upgrade!OnItsWay(q, k)'
  BY <1>2, UpgradeAside DEF Upgrade!Racing
<1>5. \A a, b \in Upgraders :
        a # b => added'[a] \cap added'[b] = {} /\ (mine'[a] = 0 \/ mine'[b] = 0)
  <2>. SUFFICES ASSUME NEW a \in Upgraders, NEW b \in Upgraders, a # b
                PROVE  added'[a] \cap added'[b] = {} /\ (mine'[a] = 0 \/ mine'[b] = 0)
    OBVIOUS
  <2>1. CASE a = p
    BY <1>2, <1>3, <2>1
  <2>2. CASE b = p
    BY <1>2, <1>3, <2>2
  <2>3. CASE a # p /\ b # p
    BY <1>3, <2>3 DEF Upgrade!Racing
  <2>. QED
    BY <2>1, <2>2, <2>3
<1>6. dialect' = "postgresql" => built' = Upgrade!UpTo(k)
  BY <1>2, <1>3 DEF Upgrade!Racing
<1>. QED
  BY <1>2, <1>4, <1>5, <1>6 DEF Upgrade!Racing

LEMMA UpgradeSteps ==
  ASSUME UpgradeAssumption, Upgrade!UpgradeInv, NEW p \in Upgraders, UpgradeBy(p)
  PROVE  Upgrade!UpgradeInv' /\ (rows' = rows \/ rows' = {Upgrade!HeadRev})
<1>1. PICK k \in Upgrade!Levels :
        /\ rows = Upgrade!Row(k) /\ Upgrade!Whole(k)
        /\ k # Upgrade!HeadRev => Upgrade!Racing(k)
  BY DEF Upgrade!UpgradeInv
<1>2. CASE k = Upgrade!HeadRev
  <2>1. rows = {Upgrade!HeadRev}
    BY <1>1, <1>2, Schemas DEF Upgrade!Row
  <2>. QED
    BY <2>1, UpgradeOver
<1>3. CASE k # Upgrade!HeadRev /\ Upgrade!Commit(p)
  BY <1>1, <1>3, UpgradeCommits
<1>4. CASE k # Upgrade!HeadRev /\ ~Upgrade!Commit(p)
  <2>1. rows' = rows /\ Upgrade!Racing(k)'
    BY <1>1, <1>4, UpgradeRaces
  <2>2. Upgrade!TypeOK' /\ Upgrade!Whole(k)'
    BY <1>1, UpgradeTypes, UpgradeAside
  <2>. QED
    BY <1>1, <1>4, <2>1, <2>2 DEF Upgrade!UpgradeInv, Upgrade!Row
<1>. QED
  BY <1>2, <1>3, <1>4

LEMMA UpgradeHolds ==
  ASSUME UpgradeAssumption, Upgrade!UpgradeInv, [Upgrade!Next]_(Upgrade!vars)
  PROVE  Upgrade!UpgradeInv' /\ Upgrade!ForwardOnly
<1>1. Upgrade!UpgradeInv' /\ (rows' = rows \/ rows' = {Upgrade!HeadRev})
  <2>1. CASE Upgrade!Next
    <3>1. PICK p \in Upgraders : UpgradeBy(p)
      BY <2>1 DEF Upgrade!Next, UpgradeBy
    <3>. QED
      BY <3>1, UpgradeSteps
  <2>2. CASE UNCHANGED Upgrade!vars
    <3>1. Upgrade!TypeOK'
      BY <2>2 DEF Upgrade!vars, Upgrade!UpgradeInv, Upgrade!TypeOK, Upgrade!Active
    <3>2. \A k \in Upgrade!Levels : Upgrade!Whole(k)' <=> Upgrade!Whole(k)
      BY <2>2 DEF Upgrade!vars, Upgrade!Whole, Upgrade!Skipped
    <3>3. \A k \in Upgrade!Levels : Upgrade!Racing(k) => Upgrade!Racing(k)'
      BY <2>2 DEF Upgrade!vars, Upgrade!Racing, Upgrade!OnItsWay, Upgrade!Active, Upgrade!Level,
                  Upgrade!Has, Upgrade!Seen, Upgrade!Skipped
    <3>. QED
      BY <2>2, <3>1, <3>2, <3>3 DEF Upgrade!vars, Upgrade!UpgradeInv, Upgrade!Row
  <2>. QED
    BY <2>1, <2>2
<1>2. \A p \in Upgraders : stage'[p] = "done" => rows' = {Upgrade!HeadRev}
  <2>. SUFFICES ASSUME NEW p \in Upgraders, stage'[p] = "done"
                PROVE  rows' = {Upgrade!HeadRev}
    OBVIOUS
  <2>1. PICK k \in Upgrade!Levels :
          rows' = Upgrade!Row(k) /\ (k # Upgrade!HeadRev => Upgrade!Racing(k)')
    BY <1>1 DEF Upgrade!UpgradeInv, Upgrade!Row
  <2>2. k = Upgrade!HeadRev
    BY <2>1 DEF Upgrade!Racing, Upgrade!OnItsWay
  <2>. QED
    BY <2>1, <2>2, Schemas DEF Upgrade!Row
<1>3. \A r \in rows : \E n \in rows' : n >= r
  <2>1. rows \subseteq 1 .. Upgrade!HeadRev /\ Upgrade!HeadRev \in Nat
    BY Schemas DEF Upgrade!UpgradeInv, Upgrade!TypeOK
  <2>. QED
    BY <1>1, <2>1
<1>. QED
  BY <1>1, <1>2, <1>3 DEF Upgrade!ForwardOnly

LEMMA UpgradeIsSound ==
  ASSUME UpgradeAssumption
  PROVE  Upgrade!Spec => []Upgrade!StampedIsWhole /\ [][Upgrade!ForwardOnly]_(Upgrade!vars)
<1>1. Upgrade!Init => Upgrade!UpgradeInv
  BY UpgradeBegins
<1>2. Upgrade!UpgradeInv /\ [Upgrade!Next]_(Upgrade!vars) => Upgrade!UpgradeInv'
  BY UpgradeHolds
<1>3. Upgrade!UpgradeInv /\ [Upgrade!Next]_(Upgrade!vars)
        => [Upgrade!ForwardOnly]_(Upgrade!vars)
  BY UpgradeHolds
<1>4. Upgrade!UpgradeInv => Upgrade!StampedIsWhole
  BY Schemas DEF Upgrade!UpgradeInv, Upgrade!StampedIsWhole, Upgrade!Row
<1>. QED
  BY <1>1, <1>2, <1>3, <1>4, PTL DEF Upgrade!Spec

-----------------------------------------------------------------------------
(* Backup: a backup of the run history, and its restore.                       *)
CONSTANTS BackedUp, WereThere, TargetRuns, MaxBackups, Nil

VARIABLES recorded, runs, tests, folder, dump, dumping, unread, settled, backups, published,
          target, restore

Copy == INSTANCE Backup WITH
  Ids <- BackedUp, Earlier <- WereThere, Mine <- TargetRuns, None <- Nil,
  at <- recorded, row <- runs, step <- dumping, todo <- unread, out <- published

\* What is assumed of the constants: the target's own runs are others.
BackupAssumption ==
  WereThere \subseteq BackedUp /\ TargetRuns \cap BackedUp = {} /\ MaxBackups \in Nat

LEMMA BackupBegins ==
  ASSUME BackupAssumption, Copy!Init
  PROVE  Copy!BackupInv
<1>. USE DEF BackupAssumption, Copy!Init
<1>1. Copy!TypeOK
  BY DEF Copy!TypeOK, Copy!Empty
<1>2. Copy!RecordedInv
  BY DEF Copy!RecordedInv
<1>3. Copy!DumpInv /\ Copy!OutInv /\ Copy!RestoreInv
  BY DEF Copy!DumpInv, Copy!OutInv, Copy!RestoreInv
<1>4. Copy!NeverMixes
  BY DEF Copy!NeverMixes
<1>. QED
  BY <1>1, <1>2, <1>3, <1>4 DEF Copy!BackupInv

\* What the server does leaves the file and the target alone.
LEMMA BackupAside ==
  ASSUME BackupAssumption, Copy!BackupInv, UNCHANGED <<published, target, restore>>
  PROVE  Copy!OutInv' /\ Copy!RestoreInv' /\ Copy!NeverMixes'
BY DEF Copy!BackupInv, Copy!OutInv, Copy!RestoreInv, Copy!NeverMixes, Copy!WholeFile,
       Copy!Published, Copy!Tables

LEMMA BackupRecords ==
  ASSUME BackupAssumption, Copy!BackupInv, NEW i \in BackedUp,
         \/ Copy!CreateRow(i) \/ Copy!CopyStarts(i) \/ Copy!CopyEnds(i) \/ Copy!WriteTests(i)
         \/ Copy!RemoveTests(i) \/ Copy!RemoveRow(i) \/ Copy!RemoveFolder(i)
  PROVE  Copy!BackupInv'
<1>. USE DEF Copy!Server, Copy!backupVars
<1>1. /\ UNCHANGED <<dump, dumping, unread, backups, published, target, restore>>
      /\ settled' \subseteq settled
  BY DEF Copy!CreateRow, Copy!CopyStarts, Copy!CopyEnds, Copy!WriteTests, Copy!RemoveTests,
         Copy!RemoveRow, Copy!RemoveFolder
<1>2. Copy!TypeOK'
  BY <1>1 DEF Copy!BackupInv, Copy!TypeOK, Copy!Tables, Copy!Published, Copy!CreateRow,
         Copy!CopyStarts, Copy!CopyEnds, Copy!WriteTests, Copy!RemoveTests, Copy!RemoveRow,
         Copy!RemoveFolder
<1>3. Copy!RecordedInv'
  BY DEF Copy!BackupInv, Copy!TypeOK, Copy!RecordedInv, Copy!CreateRow, Copy!CopyStarts,
         Copy!CopyEnds, Copy!WriteTests, Copy!RemoveTests, Copy!RemoveRow, Copy!RemoveFolder
<1>4. \A j \in settled' : recorded'[j] = "done"
  BY DEF Copy!BackupInv, Copy!TypeOK, Copy!DumpInv, Copy!CreateRow, Copy!CopyStarts,
         Copy!CopyEnds, Copy!WriteTests, Copy!RemoveTests, Copy!RemoveRow, Copy!RemoveFolder
<1>5. Copy!DumpInv'
  BY <1>1, <1>4 DEF Copy!BackupInv, Copy!DumpInv
<1>. QED
  BY <1>1, <1>2, <1>3, <1>5, BackupAside DEF Copy!BackupInv

LEMMA BackupDumps ==
  ASSUME BackupAssumption, Copy!BackupInv, Copy!DumpRuns \/ Copy!DumpTests \/ Copy!BackupFails
  PROVE  Copy!BackupInv'
<1>. USE DEF Copy!serverVars
<1>1. UNCHANGED <<recorded, runs, tests, folder, published, target, restore>>
  BY DEF Copy!DumpRuns, Copy!DumpTests, Copy!BackupFails
<1>2. Copy!RecordedInv'
  BY <1>1 DEF Copy!BackupInv, Copy!RecordedInv
<1>3. CASE Copy!DumpRuns
  <2>1. dump' \in Copy!Tables /\ dump'.row = runs
    BY <1>3 DEF Copy!DumpRuns, Copy!Empty, Copy!Tables, Copy!BackupInv, Copy!TypeOK
  <2>2. Copy!TypeOK'
    BY <1>1, <1>3, <2>1 DEF BackupAssumption, Copy!DumpRuns, Copy!BackupInv, Copy!TypeOK
  <2>3. Copy!DumpInv'
    BY <1>1, <1>3, <2>1 DEF Copy!DumpRuns, Copy!BackupInv, Copy!DumpInv, Copy!RecordedInv
  <2>. QED
    BY <1>1, <1>2, <2>2, <2>3, BackupAside DEF Copy!BackupInv
<1>4. CASE Copy!DumpTests
  <2>1. dump \in Copy!Tables
    BY <1>4 DEF Copy!DumpTests, Copy!BackupInv, Copy!TypeOK
  <2>2. dump' \in Copy!Tables /\ dump'.row = dump.row /\ dump'.tests = tests
    BY <1>4, <2>1 DEF Copy!DumpTests, Copy!Tables, Copy!BackupInv, Copy!TypeOK
  <2>3. Copy!TypeOK'
    BY <1>1, <1>4, <2>2 DEF Copy!DumpTests, Copy!BackupInv, Copy!TypeOK
  <2>4. Copy!DumpInv'
    BY <1>1, <1>4, <2>2
       DEF Copy!DumpTests, Copy!BackupInv, Copy!TypeOK, Copy!DumpInv, Copy!RecordedInv
  <2>. QED
    BY <1>1, <1>2, <2>3, <2>4, BackupAside DEF Copy!BackupInv
<1>5. CASE Copy!BackupFails
  <2>1. Copy!TypeOK'
    BY <1>1, <1>5 DEF Copy!BackupFails, Copy!BackupInv, Copy!TypeOK
  <2>2. Copy!DumpInv'
    BY <1>1, <1>5 DEF Copy!BackupFails, Copy!BackupInv, Copy!DumpInv
  <2>. QED
    BY <1>1, <1>2, <2>1, <2>2, BackupAside DEF Copy!BackupInv
<1>. QED
  BY <1>3, <1>4, <1>5

LEMMA BackupAdds ==
  ASSUME BackupAssumption, Copy!BackupInv, NEW i \in BackedUp, Copy!AddFolder(i)
  PROVE  Copy!BackupInv'
<1>. USE DEF Copy!serverVars, Copy!AddFolder
<1>1. dump \in Copy!Tables /\ folder \in [BackedUp -> {"none", "half", "whole"}]
  BY DEF Copy!BackupInv, Copy!TypeOK
<1>2. /\ dump' \in Copy!Tables /\ dump'.row = dump.row /\ dump'.tests = dump.tests
      /\ dump'.folder = [dump.folder EXCEPT ![i] = folder[i]]
      /\ dump.folder \in [BackedUp -> {"none", "half", "whole"}]
  BY <1>1 DEF Copy!Tables
<1>3. Copy!TypeOK'
  BY <1>2 DEF Copy!BackupInv, Copy!TypeOK, Copy!Tables, Copy!Published
<1>4. Copy!RecordedInv'
  BY DEF Copy!BackupInv, Copy!RecordedInv
<1>5. Copy!DumpInv'
  <2>. SUFFICES ASSUME NEW j \in settled
                PROVE  /\ recorded[j] = "done" /\ j \in dump'.row /\ j \in dump'.tests
                       /\ j \in unread' \/ dump'.folder[j] = "whole"
    BY DEF Copy!DumpInv
  <2>1. /\ j \in BackedUp /\ recorded[j] = "done" /\ j \in dump.row /\ j \in dump.tests
        /\ folder[j] = "whole"
        /\ j \in unread \/ dump.folder[j] = "whole"
    BY DEF Copy!BackupInv, Copy!DumpInv, Copy!RecordedInv, Copy!TypeOK
  <2>. QED
    BY <1>2, <2>1
<1>. QED
  BY <1>3, <1>4, <1>5, BackupAside DEF Copy!BackupInv

\* The file is whole when all its folders are in it.
LEMMA BackupPublishes ==
  ASSUME BackupAssumption, Copy!BackupInv, Copy!Publish
  PROVE  Copy!BackupInv'
<1>. USE DEF Copy!serverVars, Copy!Publish, Copy!Ready
<1>1. dump \in Copy!Tables /\ settled \subseteq BackedUp
  BY DEF Copy!BackupInv, Copy!TypeOK
<1>2. published' \in Copy!Published /\ published'.tables = dump /\ published'.settled = settled
  BY <1>1 DEF Copy!Published
<1>3. Copy!WholeFile(published')
  BY <1>2 DEF Copy!BackupInv, Copy!DumpInv, Copy!WholeFile
<1>4. Copy!OutInv'
  BY <1>3 DEF Copy!OutInv, Copy!WholeFile, Copy!Published, Copy!Tables
<1>5. Copy!TypeOK'
  BY <1>2 DEF Copy!BackupInv, Copy!TypeOK, Copy!Tables, Copy!Published
<1>6. Copy!RecordedInv' /\ Copy!DumpInv'
  BY DEF Copy!BackupInv, Copy!RecordedInv, Copy!DumpInv
<1>7. Copy!RestoreInv' /\ Copy!NeverMixes'
  BY DEF Copy!BackupInv, Copy!RestoreInv, Copy!NeverMixes, Copy!WholeFile, Copy!Published,
         Copy!Tables
<1>. QED
  BY <1>4, <1>5, <1>6, <1>7 DEF Copy!BackupInv

\* The server that is backed up and the backup go on beside a restore.
LEMMA RestoreAside ==
  ASSUME BackupAssumption, Copy!BackupInv,
         UNCHANGED <<recorded, runs, tests, folder, dump, dumping, unread, settled, backups,
                     published>>
  PROVE  Copy!RecordedInv' /\ Copy!DumpInv'
BY DEF Copy!BackupInv, Copy!RecordedInv, Copy!DumpInv

LEMMA RestoreChecks ==
  ASSUME BackupAssumption, Copy!BackupInv,
         \/ \E replace \in BOOLEAN : Copy!Check(replace)
         \/ Copy!LoadFails \/ Copy!RestoreCrash \/ Copy!RestoreEnds
  PROVE  Copy!BackupInv'
<1>. USE DEF Copy!serverVars, Copy!backupVars
<1>1. UNCHANGED <<recorded, runs, tests, folder, dump, dumping, unread, settled, backups,
                  published, target>>
  BY DEF Copy!Check, Copy!LoadFails, Copy!RestoreCrash, Copy!RestoreEnds
<1>2. Copy!NeverMixes'
  BY <1>1 DEF Copy!BackupInv, Copy!NeverMixes
<1>3. restore \in [at : {"idle", "checked", "loaded", "done"}, replace : BOOLEAN, todo : SUBSET
       BackedUp,
               from : Copy!Published \cup {Nil}]
  BY DEF Copy!BackupInv, Copy!TypeOK
<1>4. /\ restore' \in [at : {"idle", "checked", "loaded", "done"}, replace : BOOLEAN,
                   todo : SUBSET BackedUp, from : Copy!Published \cup {Nil}]
      /\ \/ restore'.at = "checked" /\ published # Nil /\ (~restore'.replace => target.row = {})
         \/ restore'.at = "idle"
         \/ restore.at = "loaded" /\ restore' = [restore EXCEPT !.at = "done"] /\ restore.todo = {}
  <2>1. ASSUME NEW replace \in BOOLEAN, Copy!Check(replace)
        PROVE  /\ restore' = [at |-> "checked", replace |-> replace, todo |-> {}, from |-> Nil]
               /\ published # Nil /\ (~replace => target.row = {})
    BY <2>1 DEF Copy!Check
  <2>2. CASE Copy!LoadFails
    BY <1>3, <2>2 DEF Copy!LoadFails
  <2>3. CASE Copy!RestoreCrash
    BY <1>3, <2>3 DEF Copy!RestoreCrash
  <2>4. CASE Copy!RestoreEnds
    BY <1>3, <2>4 DEF Copy!RestoreEnds
  <2>. QED
    BY <2>1, <2>2, <2>3, <2>4
<1>5. Copy!TypeOK'
  BY <1>1, <1>4 DEF Copy!BackupInv, Copy!TypeOK, Copy!Tables, Copy!Published
<1>6. Copy!OutInv'
  BY <1>1, <1>3, <1>4 DEF Copy!BackupInv, Copy!OutInv, Copy!WholeFile, Copy!Tables, Copy!Published
<1>7. Copy!RestoreInv'
  BY <1>1, <1>3, <1>4 DEF Copy!BackupInv, Copy!RestoreInv, Copy!WholeFile, Copy!Tables,
                          Copy!Published
<1>. QED
  BY <1>1, <1>2, <1>5, <1>6, <1>7, RestoreAside DEF Copy!BackupInv

\* The tables are those of the file alone, or those of the file and none before.
LEMMA RestoreLoads ==
  ASSUME BackupAssumption, Copy!BackupInv, Copy!Load
  PROVE  Copy!BackupInv'
<1>. USE DEF Copy!serverVars, Copy!backupVars, Copy!Load
<1>1. Copy!WholeFile(published) /\ published \in Copy!Published
  BY DEF Copy!BackupInv, Copy!OutInv, Copy!WholeFile
<1>2. /\ published.tables.row \subseteq BackedUp /\ published.tables.tests \subseteq BackedUp
      /\ published.tables.folder \in [BackedUp -> {"none", "half", "whole"}]
  BY <1>1 DEF Copy!Published, Copy!Tables
<1>3. IF restore.replace THEN TRUE ELSE target.row = {}
  BY DEF Copy!BackupInv, Copy!RestoreInv
<1>4. /\ target' \in [row : SUBSET (BackedUp \cup TargetRuns), tests : SUBSET (BackedUp \cup
       TargetRuns),
                   folder : [BackedUp -> {"none", "half", "whole"}], admin : BOOLEAN]
      /\ target'.row = published.tables.row /\ target'.tests = published.tables.tests
      /\ target'.folder = target.folder
  BY <1>2, <1>3, ZenonT(60) DEF Copy!Loaded, Copy!BackupInv, Copy!TypeOK
<1>5. /\ restore' \in [at : {"idle", "checked", "loaded", "done"}, replace : BOOLEAN,
                   todo : SUBSET BackedUp, from : Copy!Published \cup {Nil}]
      /\ restore'.at = "loaded" /\ restore'.from = published
      /\ restore'.todo = {i \in BackedUp : published.tables.folder[i] # "none"}
  BY <1>1, ZenonT(60) DEF Copy!BackupInv, Copy!TypeOK
<1>6. Copy!TypeOK'
  BY <1>4, <1>5, ZenonT(60) DEF Copy!BackupInv, Copy!TypeOK, Copy!Tables, Copy!Published
<1>7. Copy!OutInv'
  BY <1>1 DEF Copy!OutInv, Copy!WholeFile, Copy!Tables, Copy!Published
<1>8. Copy!NeverMixes'
  BY <1>2, <1>4 DEF BackupAssumption, Copy!NeverMixes
<1>9. Copy!RestoreInv'
  <2>1. Copy!WholeFile(restore'.from)
    BY <1>1, <1>5
  <2>2. \A i \in published.settled :
          i \in published.tables.row /\ i \in published.tables.tests /\ i \in restore'.todo
    BY <1>1, <1>5 DEF Copy!WholeFile, Copy!Published
  <2>. QED
    BY <1>4, <1>5, <2>1, <2>2, ZenonT(60)
       DEF Copy!RestoreInv, Copy!WholeFile, Copy!Tables, Copy!Published
<1>. QED
  BY <1>6, <1>7, <1>8, <1>9, RestoreAside DEF Copy!BackupInv

LEMMA RestoreExtracts ==
  ASSUME BackupAssumption, Copy!BackupInv, NEW i \in BackedUp, Copy!Extract(i)
  PROVE  Copy!BackupInv'
<1>. USE DEF Copy!serverVars, Copy!backupVars, Copy!Extract
<1>1. Copy!WholeFile(restore.from) /\ restore.from \in Copy!Published
  BY DEF Copy!BackupInv, Copy!RestoreInv, Copy!WholeFile
<1>2. restore.from.tables.folder \in [BackedUp -> {"none", "half", "whole"}]
  BY <1>1 DEF Copy!Published, Copy!Tables
<1>3. target.folder \in [BackedUp -> {"none", "half", "whole"}]
  BY DEF Copy!BackupInv, Copy!TypeOK
<1>4. /\ target' \in [row : SUBSET (BackedUp \cup TargetRuns), tests : SUBSET (BackedUp \cup
       TargetRuns),
                   folder : [BackedUp -> {"none", "half", "whole"}], admin : BOOLEAN]
      /\ target'.row = target.row /\ target'.tests = target.tests
      /\ target'.folder = [target.folder EXCEPT ![i] = restore.from.tables.folder[i]]
  BY <1>2, <1>3 DEF Copy!BackupInv, Copy!TypeOK
<1>5. /\ restore' \in [at : {"idle", "checked", "loaded", "done"}, replace : BOOLEAN,
                   todo : SUBSET BackedUp, from : Copy!Published \cup {Nil}]
      /\ restore'.at = "loaded" /\ restore'.from = restore.from
      /\ restore'.todo = restore.todo \ {i}
  BY DEF Copy!BackupInv, Copy!TypeOK
<1>6. Copy!TypeOK'
  BY <1>4, <1>5 DEF Copy!BackupInv, Copy!TypeOK, Copy!Tables, Copy!Published
<1>7. Copy!OutInv'
  BY <1>5 DEF Copy!BackupInv, Copy!OutInv, Copy!WholeFile, Copy!Tables, Copy!Published
<1>8. Copy!NeverMixes'
  BY <1>4 DEF Copy!BackupInv, Copy!NeverMixes
<1>9. Copy!RestoreInv'
  <2>1. Copy!WholeFile(restore'.from)
    BY <1>1, <1>5
  <2>2. ASSUME NEW j \in restore.from.settled
        PROVE  /\ j \in target'.row /\ j \in target'.tests
               /\ j \in restore'.todo \/ target'.folder[j] = "whole"
    <3>1. /\ j \in BackedUp /\ j \in target.row /\ j \in target.tests
          /\ j \in restore.todo \/ target.folder[j] = "whole"
          /\ restore.from.tables.folder[j] = "whole"
      BY <1>1, <2>2 DEF Copy!BackupInv, Copy!RestoreInv, Copy!WholeFile, Copy!Published
    <3>. QED
      BY <1>3, <1>4, <1>5, <3>1
  <2>. QED
    BY <1>5, <2>1, <2>2 DEF Copy!RestoreInv, Copy!WholeFile, Copy!Tables, Copy!Published
<1>. QED
  BY <1>6, <1>7, <1>8, <1>9, RestoreAside DEF Copy!BackupInv

LEMMA BackupHolds ==
  ASSUME BackupAssumption, Copy!BackupInv, [Copy!Next]_(Copy!vars)
  PROVE  Copy!BackupInv'
<1>1. CASE UNCHANGED Copy!vars
  BY <1>1 DEF Copy!vars, Copy!BackupInv, Copy!TypeOK, Copy!RecordedInv, Copy!DumpInv, Copy!OutInv,
              Copy!RestoreInv, Copy!NeverMixes, Copy!WholeFile, Copy!Tables, Copy!Published
<1>. QED
  BY <1>1, BackupRecords, BackupDumps, BackupAdds, BackupPublishes, RestoreChecks, RestoreLoads,
     RestoreExtracts DEF Copy!Next

LEMMA BackupIsSound ==
  ASSUME BackupAssumption
  PROVE  Copy!Spec => [](Copy!SettledComesBack /\ Copy!NeverMixes)
<1>1. Copy!Init => Copy!BackupInv
  BY BackupBegins
<1>2. Copy!BackupInv /\ [Copy!Next]_(Copy!vars) => Copy!BackupInv'
  BY BackupHolds
<1>3. Copy!BackupInv => Copy!SettledComesBack /\ Copy!NeverMixes
  BY DEF Copy!BackupInv, Copy!RestoreInv, Copy!SettledComesBack
<1>. QED
  BY <1>1, <1>2, <1>3, PTL DEF Copy!Spec
=============================================================================
