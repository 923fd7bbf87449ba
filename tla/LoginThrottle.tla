--------------------------- MODULE LoginThrottle ----------------------------
(* Failed sign-ins per user name and per client address over a sliding window  *)
(* (qasight_api/login_throttle.py, used by routes/auth.py login). A request is *)
(* checked, its password is verified, and only then is a failure counted, each *)
(* under the lock but not all under one: requests overlap. A tick is long beside *)
(* the moment between reading the clock and taking the lock.                   *)
EXTENDS Naturals, Sequences, FiniteSets, SequencesExt

CONSTANTS
  Requests, Names, Addresses,
  MaxFailures,  \* per name
  Factor,       \* an address may fail this many times as often
  Window,       \* window_s, in ticks
  MaxTracked,   \* keys that are kept
  MaxNow        \* bound: ticks

VARIABLES
  failures,     \* per tracked key, the times of its failures
  order,        \* of the keys in the dict: the next to be dropped first
  now,
  request       \* per request: where it is, with its name and address

vars == <<failures, order, now, request>>

NameKey(n) == <<"name", n>>
AddrKey(a) == <<"addr", a>>
Keys == {NameKey(n) : n \in Names} \cup {AddrKey(a) : a \in Addresses}
KeysOf(r) == <<NameKey(r.name), AddrKey(r.address)>>

Limit(k) == IF k[1] = "name" THEN MaxFailures ELSE MaxFailures * Factor

Nobody == [at |-> "idle", name |-> "none", address |-> "none"]

TypeOK ==
  /\ \A k \in Keys : \A i \in DOMAIN failures[k] : failures[k][i] \in 0 .. now
  /\ IsInjective(order) /\ \A i \in DOMAIN order : order[i] \in Keys
  /\ \A k \in Keys : failures[k] # <<>> => k \in ToSet(order)
  /\ Len(order) <= MaxTracked /\ now \in 0 .. MaxNow
  /\ \A q \in Requests : request[q].at \in {"idle", "checked"}

Init ==
  /\ failures = [k \in Keys |-> <<>>] /\ order = <<>> /\ now = 0
  /\ request = [q \in Requests |-> Nobody]

-----------------------------------------------------------------------------
\* Failures that have left the window are dropped from the front.
Recent(times, t) ==
  LET old == {i \in DOMAIN times : \A j \in 1 .. i : t - times[j] >= Window}
  IN  SubSeq(times, Cardinality(old) + 1, Len(times))

\* Mistake: the wait is counted from the first failure.
WaitFromFirst(k, times, t) ==
  IF Len(times) < Limit(k) THEN 0
  ELSE LET end == times[1] + Window IN IF end > t THEN end - t ELSE 0

\* Mistake: the limit is the last count that is let through.
WaitOneMore(k, times, t) ==
  IF Len(times) <= Limit(k) THEN 0
  ELSE LET end == times[Len(times) - Limit(k)] + Window IN IF end > t THEN end - t ELSE 0

\* How long the key holds its requests back at time t.
Wait(k, times, t) ==
  IF Len(times) < Limit(k) THEN 0
  ELSE LET end == times[Len(times) - Limit(k) + 1] + Window
       IN  IF end > t THEN end - t ELSE 0

WaitOf(r, t) ==
  LET w == {Wait(KeysOf(r)[i], Recent(failures[KeysOf(r)[i]], t), t) : i \in 1 .. 2}
  IN  CHOOSE m \in w : \A x \in w : x <= m

RetryAfter(r, t) == IF WaitOf(r, t) > 0 THEN WaitOf(r, t) + 1 ELSE 0

\* retry_after: a request with nothing to wait for goes on to the password.
Check(q, n, a) ==
  LET r == [at |-> "checked", name |-> n, address |-> a] IN
  /\ request[q].at = "idle"
  /\ failures' = [k \in Keys |-> IF k \in ToSet(KeysOf(r)) THEN Recent(failures[k], now)
                                 ELSE failures[k]]
  /\ request' = IF RetryAfter(r, now) = 0 THEN [request EXCEPT ![q] = r] ELSE request
  /\ UNCHANGED <<order, now>>

\* Mistake: a key that fails again is counted again.
MovedTwice(o, k) == Append(o, k)

\* Mistake: a key keeps its old place in the order.
MovedNot(o, k) == IF k \in ToSet(o) THEN o ELSE Append(o, k)

\* A key that failed moves to the end of the order.
Moved(o, k) == Append(SelectSeq(o, LAMBDA x : x # k), k)

\* The password was wrong: counted for both keys; with too many the first is dropped.
Failed(q) ==
  LET r == request[q]
      ks == KeysOf(r)
      all == Moved(Moved(order, ks[1]), ks[2])
      drop == IF Len(all) > MaxTracked THEN Len(all) - MaxTracked ELSE 0
      kept == SubSeq(all, drop + 1, Len(all)) IN
  /\ r.at = "checked"
  /\ order' = kept
  /\ failures' = [k \in Keys |->
       IF k \notin ToSet(kept) THEN <<>>
       ELSE IF k \in ToSet(ks) THEN Append(Recent(failures[k], now), now)
       ELSE failures[k]]
  /\ request' = [request EXCEPT ![q] = Nobody]
  /\ UNCHANGED now

\* succeeded: the failures of the name are forgotten, those of the address are not.
Succeeded(q) ==
  LET k == NameKey(request[q].name) IN
  /\ request[q].at = "checked"
  /\ failures' = [failures EXCEPT ![k] = <<>>]
  /\ order' = SelectSeq(order, LAMBDA x : x # k)
  /\ request' = [request EXCEPT ![q] = Nobody]
  /\ UNCHANGED now

Tick == now < MaxNow /\ now' = now + 1 /\ UNCHANGED <<failures, order, request>>

Next ==
  \/ \E q \in Requests :
       \/ Failed(q) \/ Succeeded(q)
       \/ \E n \in Names, a \in Addresses : Check(q, n, a)
  \/ Tick

Spec == Init /\ [][Next]_vars

-----------------------------------------------------------------------------
(* However requests overlap, the failures counted for a key in one window      *)
(* exceed its limit by at most the requests that were let through together.    *)
AtMostLimit ==
  \A k \in Keys :
    Cardinality({i \in DOMAIN failures[k] : now - failures[k][i] < Window})
      <= Limit(k) + Cardinality(Requests) - 1

(* Retry-After tells the truth: a request that is refused and waits that long  *)
(* is let through if nothing else fails meanwhile, and it would not be if it   *)
(* came two ticks earlier.                                                     *)
RetryTells ==
  \A n \in Names, a \in Addresses :
    LET r == [name |-> n, address |-> a]
        w == RetryAfter(r, now) IN
    w > 0 => RetryAfter(r, now + w) = 0 /\ RetryAfter(r, now + w - 2) > 0

(* The keys that failed least recently are the first to be dropped.            *)
DropsOldest ==
  \A i, j \in DOMAIN order :
    /\ i < j /\ failures[order[i]] # <<>> /\ failures[order[j]] # <<>>
    => Last(failures[order[i]]) <= Last(failures[order[j]])
=============================================================================
