----------------------------- MODULE LeaseStore -----------------------------
(***************************************************************************)
(* The lease tables of one resource pool (qasight/resources/store.py).     *)
(*                                                                         *)
(* A session of the store is one or more database transactions. A          *)
(* transaction that starts with a write is one step here; a session that   *)
(* selects a row, and writes it back when it commits, is two, because the  *)
(* supported databases at their default isolation let other transactions   *)
(* commit in between.                                                      *)
(*                                                                         *)
(* Time is relative, so that a model needs no bound on it: a lease row     *)
(* keeps expires_at - now in `left`, a waiter row keeps now - heartbeat_at *)
(* in `age`, and created_at only as the order it induces, `before`. A tick *)
(* is a good part of a heartbeat interval, so a session, which is a few    *)
(* statements long, ends in the tick it began in: the `now` it read at its *)
(* start is still the time when it writes.                                 *)
(*                                                                         *)
(* lease_id and waiter_id are uuids made per request. A client has at most *)
(* one request in flight, so its name stands for both: it is the name of   *)
(* its next lease too, which can only add behaviours (a client that was    *)
(* told another's lease_id may go on matching that client's later leases). *)
(***************************************************************************)
EXTENDS Integers, FiniteSets

CONSTANTS
  Clients,      \* processes or workers that ask for a key
  Keys,         \* the pool's keys, numbered in the pool's own order
  Wants,        \* client -> keys its labels match (ResourcePool.matching)
  User,         \* client -> account on the team server, "" for none
  MaxPerUser,   \* max_per_user; 0 when the pool has no limit
  TTL,          \* lease_ttl, in ticks
  ReuseDelay,   \* reuse_delay, in ticks
  WaiterTTL     \* WAITER_TTL_S, in ticks

ASSUME StoreAssumption ==
  /\ Keys \subseteq Nat
  /\ "none" \notin Clients
  /\ Wants \in [Clients -> SUBSET Keys]
  /\ MaxPerUser \in Nat
  /\ TTL \in Nat \ {0}
  /\ ReuseDelay \in Nat
  /\ WaiterTTL \in Nat

VARIABLES
  leases,       \* resource_lease: key -> its row, NoRow when there is none
  waiters,      \* resource_waiter: client -> its row, NoWaiter when there is none
  disabled,     \* resource_item.disabled
  clean         \* resource_item.clean

storeVars == <<leases, waiters, disabled, clean>>

NoRow == [id |-> "none", left |-> 0]
NoWaiter == [want |-> {}, age |-> -1, before |-> {}]

\* expires_at - now, no lower than the first value that frees the key.
Lefts == (-(ReuseDelay + 1)) .. TTL
Row == [id : Clients, left : Lefts]
Waiter == [want : SUBSET Keys, age : 0 .. (WaiterTTL + 1), before : SUBSET Clients]

StoreTypeOK ==
  /\ leases \in [Keys -> Row \union {NoRow}]
  /\ waiters \in [Clients -> Waiter \union {NoWaiter}]
  /\ disabled \subseteq Keys
  /\ clean \subseteq Keys

StoreInit ==
  /\ leases = [k \in Keys |-> NoRow]
  /\ waiters = [c \in Clients |-> NoWaiter]
  /\ disabled = {}
  /\ clean = {}

Held(ls) == {k \in Keys : ls[k] # NoRow}
Queued(ws) == {c \in Clients : ws[c] # NoWaiter}

-----------------------------------------------------------------------------
(* take(), first transaction: forget what timed out, look at what is free, *)
(* find the caller's place in the queue.                                   *)

\* Mistake: the purge forgets reuse_delay.
ExpiredAtOnce(row) == row.left < 0

\* The delete of leases past expires_at + reuse_delay_s.
Expired(row) == row.left + ReuseDelay < 0
LiveLeases == [k \in Keys |-> IF leases[k] # NoRow /\ Expired(leases[k]) THEN NoRow ELSE leases[k]]

\* Waiter rows without those of the clients in gone.
Without(ws, gone) ==
  [c \in Clients |->
     IF c \in gone \/ ws[c] = NoWaiter THEN NoWaiter
     ELSE [want |-> ws[c].want, age |-> ws[c].age, before |-> ws[c].before \ gone]]

\* Mistake: waiters that died are never removed.
AllWaiters == waiters

\* The delete of waiters that have not asked for WAITER_TTL_S.
LiveWaiters == Without(waiters, {c \in Queued(waiters) : waiters[c].age > WaiterTTL})

Candidates(c) == Wants[c] \ disabled
Free(c) == Candidates(c) \ Held(LiveLeases)
HeldByUserOf(c) == {k \in Held(LiveLeases) : User[LiveLeases[k].id] = User[c]}
OverLimit(c) ==
  /\ MaxPerUser > 0
  /\ User[c] # ""
  /\ Cardinality(HeldByUserOf(c)) >= MaxPerUser

\* The caller's row, made on its first ask and kept on the later ones, with a new heartbeat.
WaitersWith(c) ==
  LET old == LiveWaiters[c] IN
  [LiveWaiters EXCEPT ![c] =
     IF old = NoWaiter
     THEN [want |-> Candidates(c), age |-> 0, before |-> Queued(LiveWaiters)]
     ELSE [want |-> old.want, age |-> 0, before |-> old.before]]

\* Waiters ahead of c that would take one of the keys free for c.
Ahead(c) == {w \in WaitersWith(c)[c].before : LiveWaiters[w].want \intersect Free(c) # {}}
\* Mistake: a waiter takes a key when there are just enough for those ahead.
MayTakeLast(c) == Free(c) # {} /\ Cardinality(Free(c)) >= Cardinality(Ahead(c))

MayTake(c) == Cardinality(Free(c)) > Cardinality(Ahead(c))

\* reason "no_items"; the caller's own waiter row, if any, stays.
TakeNoItems(c) ==
  /\ Candidates(c) = {}
  /\ leases' = LiveLeases
  /\ waiters' = LiveWaiters
  /\ UNCHANGED <<disabled, clean>>

\* reason "limit"; a caller over its limit does not queue.
TakeLimit(c) ==
  /\ Candidates(c) # {}
  /\ OverLimit(c)
  /\ leases' = LiveLeases
  /\ waiters' = Without(LiveWaiters, {c})
  /\ UNCHANGED <<disabled, clean>>

\* The caller is (still) in the queue, whatever the answer.
TakeEnqueue(c) ==
  /\ Candidates(c) # {}
  /\ ~OverLimit(c)
  /\ leases' = LiveLeases
  /\ waiters' = WaitersWith(c)
  /\ UNCHANGED <<disabled, clean>>

-----------------------------------------------------------------------------
(* The other transactions.                                                 *)

\* Mistake: the insert replaces a row that is there.
Upsert(c, k) ==
  /\ leases' = [leases EXCEPT ![k] = [id |-> c, left |-> TTL]]
  /\ UNCHANGED <<waiters, disabled, clean>>

\* Mistake: reuse_delay is added to expires_at as well.
InsertLate(c, k) ==
  /\ leases[k] = NoRow
  /\ leases' = [leases EXCEPT ![k] = [id |-> c, left |-> TTL + ReuseDelay]]
  /\ UNCHANGED <<waiters, disabled, clean>>

\* The insert of a lease commits only when the key has no row: the key is the
\* table's primary key.
Insert(c, k) ==
  /\ leases[k] = NoRow
  /\ leases' = [leases EXCEPT ![k] = [id |-> c, left |-> TTL]]
  /\ UNCHANGED <<waiters, disabled, clean>>

\* Mistake: the clean mark outlives the take.
AfterInsertKeep(c, k) ==
  /\ waiters' = Without(waiters, {c})
  /\ UNCHANGED <<leases, disabled, clean>>

\* take() after its insert: leave the queue, clear the key's clean mark.
AfterInsert(c, k) ==
  /\ waiters' = Without(waiters, {c})
  /\ clean' = clean \ {k}
  /\ UNCHANGED <<leases, disabled>>

\* A session that looks for lease id finds the row of key k, the key it was given for.
HasRow(k, id) == leases[k] # NoRow /\ leases[k].id = id

\* Mistake: a heartbeat does not look at expires_at.
MayBeatAny(k, id) == HasRow(k, id)

\* The row heartbeat() finds: by lease_id, and not past expires_at.
MayBeat(k, id) == HasRow(k, id) /\ leases[k].left >= 0

\* Mistake: the heartbeat is noted, expires_at stays.
BeatNoted(k) ==
  /\ leases[k] # NoRow
  /\ UNCHANGED storeVars

\* heartbeat()'s update. It addresses the row by its primary key, so it reaches
\* whatever row the key has by then; with none the session raises.
BeatWrite(k) ==
  /\ leases[k] # NoRow
  /\ leases' = [leases EXCEPT ![k] = [id |-> leases[k].id, left |-> TTL]]
  /\ UNCHANGED <<waiters, disabled, clean>>

\* release()'s update and delete, by primary key too. mark is "same" when the
\* item already had the wanted clean flag when the session read it.
ReleaseWrite(k, mark) ==
  /\ leases' = [leases EXCEPT ![k] = NoRow]
  /\ \/ mark = "clean" /\ clean' = clean \union {k}
     \/ mark = "dirty" /\ clean' = clean \ {k}
     \/ mark = "same" /\ clean' = clean
  /\ UNCHANGED <<waiters, disabled>>

Leave(c) ==
  /\ waiters' = Without(waiters, {c})
  /\ UNCHANGED <<leases, disabled, clean>>

SetDisabled(k, off) ==
  /\ disabled' = IF off THEN disabled \union {k} ELSE disabled \ {k}
  /\ UNCHANGED <<leases, waiters, clean>>

\* _disable_quietly(): an error in set_disabled() is logged, no more.
DisableQuietly(k) == SetDisabled(k, TRUE) \/ UNCHANGED storeVars

\* force_release(): no look at the holder, and the clean flag stays as it is.
ForceRelease(k) ==
  /\ leases[k] # NoRow
  /\ leases' = [leases EXCEPT ![k] = NoRow]
  /\ UNCHANGED <<waiters, disabled, clean>>

-----------------------------------------------------------------------------
\* One tick for every row; nothing in the database moves by itself.
Later(n, limit) == IF n < limit THEN n + 1 ELSE n

StoreTick ==
  /\ leases' = [k \in Keys |->
       IF leases[k] # NoRow /\ ~Expired(leases[k])
       THEN [id |-> leases[k].id, left |-> leases[k].left - 1] ELSE leases[k]]
  /\ waiters' = [c \in Clients |->
       IF waiters[c] = NoWaiter THEN NoWaiter
       ELSE [want |-> waiters[c].want, age |-> Later(waiters[c].age, WaiterTTL + 1),
             before |-> waiters[c].before]]
  /\ UNCHANGED <<disabled, clean>>
=============================================================================
