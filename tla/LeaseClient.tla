----------------------------- MODULE LeaseClient -----------------------------
(***************************************************************************)
(* The clients of a resource pool: acquire() and HeldLease in              *)
(* qasight/resources/client.py, run against the tables of LeaseStore by    *)
(* every client at once.                                                   *)
(*                                                                         *)
(* pc says where a client's thread is:                                     *)
(*   idle     not asking                                                   *)
(*   ask      in acquire()'s loop, about to call take()                    *)
(*   insert   in take(), free keys known, trying to insert a lease         *)
(*   finish   in take(), lease inserted                                    *)
(*   prepare  running on_take and on_check                                 *)
(*   using    acquire() returned; the heartbeat thread runs                *)
(*   check    in HeldLease.release(), in the heartbeat before on_release   *)
(*   reset    running on_release                                           *)
(*   give     about to call the store's release()                          *)
(*   giving   in release(), row read, nothing written yet                  *)
(*   quit     acquire() is failing; about to leave the queue               *)
(*   dead     the process died, or a call that frees something failed and  *)
(*            was only logged: what it left behind stays                   *)
(***************************************************************************)
EXTENDS LeaseStore

CONSTANTS
  Interval,     \* seconds between heartbeats (ttl / 3), in ticks
  PrepareTicks, \* longest on_take plus on_check (hook_timeout each), in ticks
  ResetTicks,   \* longest on_release (hook_timeout), in ticks
  Blips,        \* heartbeats in a row that may fail with an error
  HasRelease,   \* the pool has an on_release hook
  Prompt,       \* processes are scheduled in time; else any may freeze between calls
  Admin         \* somebody takes keys back, disables and enables them by hand

ASSUME ClientAssumption ==
  /\ Interval \in Nat \ {0}
  /\ PrepareTicks \in Nat
  /\ ResetTicks \in Nat
  /\ Blips \in Nat
  /\ HasRelease \in BOOLEAN
  /\ Prompt \in BOOLEAN
  /\ Admin \in BOOLEAN
  /\ "nobody" \notin Clients

VARIABLES
  pc,           \* client -> where its thread is
  key,          \* client -> the key it was granted or is being granted
  lid,          \* client -> the lease_id it was given
  todo,         \* client -> free keys take() has still to try
  timer,        \* client -> ticks since it came to pc, or since its last heartbeat
  beat,         \* client -> its open heartbeat session: "none" or "read"
  blips,        \* client -> heartbeats in a row that raised
  lost,         \* client -> HeldLease.lost
  mark,         \* client -> the clean flag its release is to write
  retry,        \* client -> acquire() goes on after this release
  used          \* keys touched since the last on_release that worked (history)

threadVars == <<pc, key, lid, todo, timer, beat, blips, lost, mark, retry>>
vars == <<storeVars, threadVars, used>>

NoKey == -1
Places == {"idle", "ask", "insert", "finish", "prepare", "using", "join",
           "check", "reset", "give", "giving", "quit", "dead"}

\* The clients that act on their key as its owner.
Users == {c \in Clients : pc[c] \in {"prepare", "using", "join", "check", "reset"}}

Larger(a, b) == IF a >= b THEN a ELSE b
MaxTimer == Larger(Larger(Interval, PrepareTicks), ResetTicks)

ThreadTypeOK ==
  /\ pc \in [Clients -> Places]
  /\ key \in [Clients -> Keys \union {NoKey}]
  /\ lid \in [Clients -> Clients]
  /\ todo \in [Clients -> SUBSET Keys]
  /\ timer \in [Clients -> 0 .. MaxTimer]
  /\ beat \in [Clients -> {"none", "read"}]
  /\ blips \in [Clients -> 0 .. Blips]
  /\ lost \in [Clients -> BOOLEAN]
  /\ mark \in [Clients -> {"clean", "dirty", "same"}]
  /\ retry \in [Clients -> BOOLEAN]
  /\ used \subseteq Keys

TypeOK == StoreTypeOK /\ ThreadTypeOK

Init ==
  /\ StoreInit
  /\ pc = [c \in Clients |-> "idle"]
  /\ key = [c \in Clients |-> NoKey]
  /\ lid = [c \in Clients |-> c]
  /\ todo = [c \in Clients |-> {}]
  /\ timer = [c \in Clients |-> 0]
  /\ beat = [c \in Clients |-> "none"]
  /\ blips = [c \in Clients |-> 0]
  /\ lost = [c \in Clients |-> FALSE]
  /\ mark = [c \in Clients |-> "dirty"]
  /\ retry = [c \in Clients |-> FALSE]
  /\ used = {}

\* The thread of c moves to `place`, its timer starts again.
Goto(c, place) ==
  /\ pc' = [pc EXCEPT ![c] = place]
  /\ timer' = [timer EXCEPT ![c] = 0]

\* The thread of c is done with its key: nothing of the request is left in memory.
Forget(c, place) ==
  /\ Goto(c, place)
  /\ key' = [key EXCEPT ![c] = NoKey]
  /\ lid' = [lid EXCEPT ![c] = c]
  /\ todo' = [todo EXCEPT ![c] = {}]
  /\ beat' = [beat EXCEPT ![c] = "none"]
  /\ blips' = [blips EXCEPT ![c] = 0]
  /\ lost' = [lost EXCEPT ![c] = FALSE]
  /\ mark' = [mark EXCEPT ![c] = "dirty"]
  /\ retry' = [retry EXCEPT ![c] = FALSE]

-----------------------------------------------------------------------------
(* acquire()                                                               *)

Request(c) ==
  /\ pc[c] = "idle"
  /\ Goto(c, "ask")
  /\ UNCHANGED <<storeVars, key, lid, todo, beat, blips, lost, mark, retry, used>>

\* take() answers "no_items": acquire() raises LeaseError.
AskNoItems(c) ==
  /\ pc[c] = "ask"
  /\ TakeNoItems(c)
  /\ Goto(c, "quit")
  /\ UNCHANGED <<key, lid, todo, beat, blips, lost, mark, retry, used>>

\* take() answers "limit": acquire() sleeps and asks again.
AskLimit(c) ==
  /\ pc[c] = "ask"
  /\ TakeLimit(c)
  /\ Goto(c, "ask")
  /\ UNCHANGED <<key, lid, todo, beat, blips, lost, mark, retry, used>>

\* Others ahead want what is free: take() answers "busy", acquire() asks again.
AskBusy(c) ==
  /\ pc[c] = "ask"
  /\ ~MayTake(c)
  /\ TakeEnqueue(c)
  /\ Goto(c, "ask")
  /\ UNCHANGED <<key, lid, todo, beat, blips, lost, mark, retry, used>>

AskFree(c) ==
  /\ pc[c] = "ask"
  /\ MayTake(c)
  /\ TakeEnqueue(c)
  /\ Goto(c, "insert")
  /\ todo' = [todo EXCEPT ![c] = Free(c)]
  /\ UNCHANGED <<key, lid, beat, blips, lost, mark, retry, used>>

\* take() tries the free keys in the pool's order.
IsFirst(k, S) == \A j \in S : k <= j

\* The next free key still has no row: the insert commits.
InsertLease(c) ==
  /\ pc[c] = "insert"
  /\ \E k \in todo[c] :
       /\ IsFirst(k, todo[c])
       /\ Insert(c, k)
       /\ key' = [key EXCEPT ![c] = k]
  /\ Goto(c, "finish")
  /\ UNCHANGED <<lid, todo, beat, blips, lost, mark, retry, used>>

\* IntegrityError: someone else took it a moment ago.
InsertTaken(c) ==
  /\ pc[c] = "insert"
  /\ \E k \in todo[c] :
       /\ IsFirst(k, todo[c])
       /\ leases[k] # NoRow
       /\ todo' = [todo EXCEPT ![c] = @ \ {k}]
  /\ UNCHANGED <<storeVars, pc, key, lid, timer, beat, blips, lost, mark, retry, used>>

\* All taken meanwhile: "busy".
InsertNone(c) ==
  /\ pc[c] = "insert"
  /\ todo[c] = {}
  /\ Goto(c, "ask")
  /\ UNCHANGED <<storeVars, key, lid, todo, beat, blips, lost, mark, retry, used>>

\* take()'s last transaction. The row is read again by its primary key after the
\* commit: the lease_id in the answer is that of the row the key has by then.
Granted(c) ==
  /\ pc[c] = "finish"
  /\ leases[key[c]] # NoRow
  /\ AfterInsert(c, key[c])
  /\ lid' = [lid EXCEPT ![c] = leases[key[c]].id]
  /\ todo' = [todo EXCEPT ![c] = {}]
  /\ used' = used \union {key[c]}
  /\ Goto(c, "prepare")
  /\ UNCHANGED <<key, beat, blips, lost, mark, retry>>

\* No row by then: the read raises, and so does acquire().
GrantGone(c) ==
  /\ pc[c] = "finish"
  /\ leases[key[c]] = NoRow
  /\ AfterInsert(c, key[c])
  /\ Goto(c, "quit")
  /\ UNCHANGED <<key, lid, todo, beat, blips, lost, mark, retry, used>>

\* on_take and on_check worked: the key is handed to the caller.
PrepareOk(c) ==
  /\ pc[c] = "prepare"
  /\ Goto(c, "using")
  /\ UNCHANGED <<storeVars, key, lid, todo, beat, blips, lost, mark, retry, used>>

\* One of them failed: out of the pool with the key, and on with the next one.
PrepareFail(c) ==
  /\ pc[c] = "prepare"
  /\ DisableQuietly(key[c])
  /\ Goto(c, "give")
  /\ retry' = [retry EXCEPT ![c] = TRUE]
  /\ UNCHANGED <<key, lid, todo, beat, blips, lost, mark, used>>

\* The deadline passed, or take() itself raised.
GiveUp(c) ==
  /\ pc[c] = "ask"
  /\ Goto(c, "quit")
  /\ UNCHANGED <<storeVars, key, lid, todo, beat, blips, lost, mark, retry, used>>

\* acquire()'s finally.
Quit(c) ==
  /\ pc[c] = "quit"
  /\ Leave(c)
  /\ Forget(c, "idle")
  /\ UNCHANGED used

-----------------------------------------------------------------------------
(* HeldLease: the heartbeat thread                                         *)

\* The thread's heartbeat finds its row.
BeatRead(c) ==
  /\ pc[c] = "using"
  /\ ~lost[c]
  /\ beat[c] = "none"
  /\ timer[c] >= Interval
  /\ MayBeat(key[c], lid[c])
  /\ beat' = [beat EXCEPT ![c] = "read"]
  /\ timer' = [timer EXCEPT ![c] = 0]
  /\ UNCHANGED <<storeVars, pc, key, lid, todo, blips, lost, mark, retry, used>>

\* It finds none: the key is lost, the thread ends, the caller goes on.
BeatLost(c) ==
  /\ pc[c] = "using"
  /\ ~lost[c]
  /\ beat[c] = "none"
  /\ timer[c] >= Interval
  /\ ~MayBeat(key[c], lid[c])
  /\ lost' = [lost EXCEPT ![c] = TRUE]
  /\ UNCHANGED <<storeVars, pc, key, lid, todo, timer, beat, blips, mark, retry, used>>

\* The call raises; the thread logs it and waits for the next beat.
BeatBlip(c) ==
  /\ pc[c] = "using"
  /\ ~lost[c]
  /\ beat[c] = "none"
  /\ timer[c] >= Interval
  /\ blips[c] < Blips
  /\ blips' = [blips EXCEPT ![c] = @ + 1]
  /\ timer' = [timer EXCEPT ![c] = 0]
  /\ UNCHANGED <<storeVars, pc, key, lid, todo, beat, lost, mark, retry, used>>

BeatDone(c) ==
  /\ pc[c] \in {"using", "join"}
  /\ beat[c] = "read"
  /\ BeatWrite(key[c])
  /\ beat' = [beat EXCEPT ![c] = "none"]
  /\ blips' = [blips EXCEPT ![c] = 0]
  /\ UNCHANGED <<pc, key, lid, todo, timer, lost, mark, retry, used>>

\* The row went between the read and the write: an error like any other.
BeatStale(c) ==
  /\ pc[c] \in {"using", "join"}
  /\ beat[c] = "read"
  /\ leases[key[c]] = NoRow
  /\ beat' = [beat EXCEPT ![c] = "none"]
  /\ UNCHANGED <<storeVars, pc, key, lid, todo, timer, blips, lost, mark, retry, used>>

-----------------------------------------------------------------------------
(* HeldLease.release()                                                     *)

\* The caller is done: no further beat begins.
Done(c) ==
  /\ pc[c] = "using"
  /\ Goto(c, "join")
  /\ UNCHANGED <<storeVars, key, lid, todo, beat, blips, lost, mark, retry, used>>

\* The thread's open session, if any, is over. A key that is lost is not reset.
Joined(c) ==
  /\ pc[c] = "join"
  /\ beat[c] = "none"
  /\ Goto(c, IF HasRelease /\ ~lost[c] THEN "check" ELSE "give")
  /\ UNCHANGED <<storeVars, key, lid, todo, beat, blips, lost, mark, retry, used>>

\* _still_ours(): one heartbeat right before on_release.
CheckRead(c) ==
  /\ pc[c] = "check"
  /\ beat[c] = "none"
  /\ MayBeat(key[c], lid[c])
  /\ beat' = [beat EXCEPT ![c] = "read"]
  /\ timer' = [timer EXCEPT ![c] = 0]
  /\ UNCHANGED <<storeVars, pc, key, lid, todo, blips, lost, mark, retry, used>>

\* It finds no row, or raises: on_release is skipped.
CheckLost(c) ==
  /\ pc[c] = "check"
  /\ beat[c] = "none"
  /\ ~MayBeat(key[c], lid[c]) \/ blips[c] < Blips
  /\ lost' = [lost EXCEPT ![c] = TRUE]
  /\ Goto(c, "give")
  /\ UNCHANGED <<storeVars, key, lid, todo, beat, blips, mark, retry, used>>

CheckDone(c) ==
  /\ pc[c] = "check"
  /\ beat[c] = "read"
  /\ BeatWrite(key[c])
  /\ beat' = [beat EXCEPT ![c] = "none"]
  /\ Goto(c, "reset")
  /\ UNCHANGED <<key, lid, todo, blips, lost, mark, retry, used>>

CheckStale(c) ==
  /\ pc[c] = "check"
  /\ beat[c] = "read"
  /\ leases[key[c]] = NoRow
  /\ beat' = [beat EXCEPT ![c] = "none"]
  /\ lost' = [lost EXCEPT ![c] = TRUE]
  /\ Goto(c, "give")
  /\ UNCHANGED <<storeVars, key, lid, todo, blips, mark, retry, used>>

ResetOk(c) ==
  /\ pc[c] = "reset"
  /\ mark' = [mark EXCEPT ![c] = "clean"]
  /\ used' = used \ {key[c]}
  /\ Goto(c, "give")
  /\ UNCHANGED <<storeVars, key, lid, todo, beat, blips, lost, retry>>

ResetFail(c) ==
  /\ pc[c] = "reset"
  /\ DisableQuietly(key[c])
  /\ Goto(c, "give")
  /\ UNCHANGED <<key, lid, todo, beat, blips, lost, mark, retry, used>>

\* After a failed prepare acquire() asks again, otherwise release() is over.
Released(c) == IF retry[c] THEN "ask" ELSE "idle"

\* release() finds no row with this lease_id: False.
GiveGone(c) ==
  /\ pc[c] = "give"
  /\ ~HasRow(key[c], lid[c])
  /\ Forget(c, Released(c))
  /\ UNCHANGED <<storeVars, used>>

\* It finds one; the item's clean flag is read with it.
GiveRead(c) ==
  /\ pc[c] = "give"
  /\ HasRow(key[c], lid[c])
  /\ mark' = [mark EXCEPT ![c] = IF (key[c] \in clean) = (@ = "clean") THEN "same" ELSE @]
  /\ Goto(c, "giving")
  /\ UNCHANGED <<storeVars, key, lid, todo, beat, blips, lost, retry, used>>

GiveWrite(c) ==
  /\ pc[c] = "giving"
  /\ ReleaseWrite(key[c], mark[c])
  /\ Forget(c, Released(c))
  /\ UNCHANGED used

-----------------------------------------------------------------------------
(* Everything else                                                         *)

\* The process dies, or a call fails in a way nobody retries.
Crash(c) ==
  /\ pc[c] \notin {"idle", "dead"}
  /\ Forget(c, "dead")
  /\ UNCHANGED <<storeVars, used>>

AdminStep ==
  /\ Admin
  /\ \E k \in Keys : ForceRelease(k) \/ SetDisabled(k, k \notin disabled)
  /\ UNCHANGED <<threadVars, used>>

\* No session of the store is open for c.
BetweenCalls(c) == pc[c] \notin {"insert", "finish", "giving"} /\ beat[c] = "none"

\* c has done what a process that is scheduled does before a tick is over: poll,
\* beat, end its hooks within their timeouts, go on to the next call.
InTime(c) ==
  /\ pc[c] \notin {"join", "check", "give", "quit"}
  /\ pc[c] = "ask" => timer[c] = 0
  /\ pc[c] = "prepare" => timer[c] < PrepareTicks
  /\ pc[c] = "reset" => timer[c] < ResetTicks
  /\ pc[c] = "using" /\ ~lost[c] => timer[c] < Interval

Tick ==
  /\ \A c \in Clients : BetweenCalls(c)
  /\ Prompt => \A c \in Clients : InTime(c)
  /\ StoreTick
  /\ timer' = [c \in Clients |->
       IF pc[c] \in {"idle", "dead"} THEN 0 ELSE Later(timer[c], MaxTimer)]
  /\ UNCHANGED <<pc, key, lid, todo, beat, blips, lost, mark, retry, used>>

Take(c) ==
  \/ AskNoItems(c) \/ AskLimit(c) \/ AskBusy(c) \/ AskFree(c)
  \/ InsertLease(c) \/ InsertTaken(c) \/ InsertNone(c) \/ Granted(c) \/ GrantGone(c)
Prepare(c) == PrepareOk(c) \/ PrepareFail(c)
Heartbeat(c) == BeatRead(c) \/ BeatLost(c) \/ BeatBlip(c) \/ BeatDone(c) \/ BeatStale(c)
Check(c) == CheckRead(c) \/ CheckLost(c) \/ CheckDone(c) \/ CheckStale(c)
Release(c) ==
  \/ Joined(c) \/ Check(c) \/ ResetOk(c) \/ ResetFail(c)
  \/ GiveGone(c) \/ GiveRead(c) \/ GiveWrite(c)

Next ==
  \/ \E c \in Clients :
       \/ Request(c) \/ Take(c) \/ GiveUp(c) \/ Quit(c)
       \/ Prepare(c) \/ Heartbeat(c) \/ Done(c) \/ Release(c) \/ Crash(c)
  \/ AdminStep
  \/ Tick

Spec == Init /\ [][Next]_vars

-----------------------------------------------------------------------------
(* Properties                                                              *)

\* No two clients act on one key as its owner (store.py:5, "two workers never
\* get the same key"): not while one still runs its hooks, and not because a
\* lease ran out under a client that is alive and well.
OneUserPerKey ==
  \A c, d \in Users : key[c] = key[d] => c = d

\* A key marked clean has not been touched since an on_release that worked
\* (store.py:14, "A lease that expired or was taken back never is").
CleanMeansReset == clean \intersect used = {}

\* A holder whose process runs never loses its key, though up to Blips of its
\* heartbeats in a row fail (client.py:197, "a blip; the TTL leaves room for the
\* next try").
AliveKeepsKey ==
  \A c \in Users : ~lost[c] /\ leases[key[c]].id = c /\ leases[key[c]].left + ReuseDelay >= 0

\* The waiters that came before c, still wait, and would take k.
Rivals(c, k) == {w \in waiters[c].before : pc[w] = "ask" /\ k \in waiters[w].want}

\* A key goes to a later waiter only when those before it that want this key
\* are left with one each (store.py:17, "A key goes to the oldest waiter that can
\* use it").
OldestFirst ==
  [][\A c \in Clients : pc[c] = "insert" /\ pc'[c] = "finish" =>
       LET rivals == Rivals(c, key'[c])
           others == (UNION {waiters[w].want : w \in rivals}) \ (Held(leases') \union disabled)
       IN  Cardinality(rivals) <= Cardinality(others)]_vars

\* A heartbeat or a release writes to the row of its own lease (store.py:299,
\* "Give a key back; False if the lease was already gone").
OwnRowOnly ==
  [][\A c \in Clients :
       /\ leases' # leases
       /\ \/ pc[c] = "giving" /\ pc'[c] # "giving"
          \/ beat[c] = "read" /\ beat'[c] = "none"
       => leases[key[c]].id = lid[c]]_vars

\* A lease that ran out is never alive again: its holder's late heartbeats are
\* refused, so it learns that it lost the key (store.py:13).
NeverRevived ==
  \A k \in Keys : leases[k] # NoRow /\ leases[k].left < 0 =>
    leases'[k] = NoRow \/ leases'[k].left < 0

ExpiredStaysExpired == [][NeverRevived]_vars

\* No account holds more keys than max_per_user.
UserLimit ==
  MaxPerUser > 0 =>
    \A c \in Clients :
      Cardinality({k \in Held(leases) : User[leases[k].id] = User[c]}) <= MaxPerUser

\* The hooks worked, or the key they failed on is out of the pool.
Settled(c) == PrepareOk(c) \/ (PrepareFail(c) /\ key[c] \in disabled')

\* Everyone keeps moving: polls, hooks and tests end, time passes. A key whose hooks
\* fail again and again is some time disabled: set_disabled() does not raise for ever,
\* and nobody takes keys back, disables and enables them by hand for ever.
Fairness ==
  /\ SF_vars(Tick) /\ <>[][~AdminStep]_vars
  /\ \A c \in Clients : SF_vars(Settled(c))
  /\ \A c \in Clients :
       /\ WF_vars(Take(c)) /\ WF_vars(Prepare(c)) /\ WF_vars(Heartbeat(c))
       /\ WF_vars(Done(c)) /\ WF_vars(Release(c)) /\ WF_vars(Quit(c))

FairSpec == Spec /\ Fairness

\* A request is answered: with a key, an error, or because its process died.
EveryRequestEnds == \A c \in Clients : pc[c] = "ask" ~> pc[c] \in {"using", "idle", "dead"}

\* The store and its clients give what a pool promises: the user of a key is the
\* client that acts on it, from the end of take() until it gives the key back.
Nobody == "nobody"
UserOf(k) ==
  IF \E c \in Users : key[c] = k THEN CHOOSE c \in Users : key[c] = k ELSE Nobody

Pool == INSTANCE KeyPool WITH user <- [k \in Keys |-> UserOf(k)]
PoolSpec == Pool!Spec
=============================================================================
