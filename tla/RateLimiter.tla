---------------------------- MODULE RateLimiter ----------------------------
(***************************************************************************)
(* The distributed rate limiter (cache/services/rate_limiter.py) over the  *)
(* increment script of the Redis adapter (cache/adapters/redis.py):        *)
(* concurrent check() calls of any number of API workers for one caller.   *)
(* Callers do not share keys, so one is enough.                            *)
(*                                                                         *)
(* A check reads its clock once and then makes two round trips to the      *)
(* store, one per counter.  The script is atomic at the store; everything  *)
(* else interleaves, takes time, and may fail between the two.             *)
(***************************************************************************)
EXTENDS Integers, FiniteSets

CONSTANTS Checks,        \* the check() calls
          Minute,        \* MINUTE_WINDOW_SECONDS, in ticks
          Hour,          \* HOUR_WINDOW_SECONDS, in ticks
          MinuteLimit,   \* rate_limit_per_minute
          HourLimit,     \* rate_limit_per_hour
          MaxLatency,    \* bound: ticks a check takes before it times out
          MaxTime        \* bound: the clock stops here

ASSUME LimiterAssumption == /\ Minute \in Nat \ {0} /\ Hour \in Nat /\ Minute <= Hour
                            /\ MinuteLimit \in Nat \ {0} /\ HourLimit \in Nat \ {0}
                            /\ MaxLatency \in 0..(Minute - 1) /\ MaxTime \in Nat

VARIABLES
  clock,       \* the time, of the workers and of the store
  store,       \* store[k]: the count and the expiry of key k
  pc,          \* pc[c]: the round trip c waits for, or how it has ended
  readAt,      \* readAt[c]: `now`, the time c has read
  counted,     \* counted[c][w]: the count c was given for window w, 0 if none
  inTime       \* inTime[c][w]: w's bucket was still running when c was counted

vars == <<clock, store, pc, readAt, counted, inTime>>

Windows == {"minute", "hour"}
Length(w) == IF w = "minute" THEN Minute ELSE Hour
Limit(w) == IF w = "minute" THEN MinuteLimit ELSE HourLimit

Bucket(w, t) == t \div Length(w)
Keys == Windows \X (0..MaxTime)

Awaiting == {"minute", "hour"}
Late == {"minute_late", "hour_late"}
Ended == {"allowed", "limited", "failed"}

\* A key that is not in the store.
Absent == [count |-> 0, expires |-> 0]

TypeOK == /\ clock \in 0..MaxTime
          /\ store \in [Keys -> [count : Nat, expires : Nat]]
          /\ pc \in [Checks -> {"new"} \cup Awaiting \cup Late \cup Ended]
          /\ readAt \in [Checks -> 0..MaxTime]
          /\ counted \in [Checks -> [Windows -> Nat]]
          /\ inTime \in [Checks -> [Windows -> BOOLEAN]]

Init == /\ clock = 0
        /\ store = [k \in Keys |-> Absent]
        /\ pc = [c \in Checks |-> "new"]
        /\ readAt = [c \in Checks |-> 0]
        /\ counted = [c \in Checks |-> [w \in Windows |-> 0]]
        /\ inTime = [c \in Checks |-> [w \in Windows |-> FALSE]]

-----------------------------------------------------------------------------
\* The store

\* Mutants of Increment: a time to live one tick short, and the hour's for all.
IncrementExpiresEarly(k, ttl) ==
  store' = [store EXCEPT ![k] =
              [count |-> @.count + 1,
               expires |-> IF @.count = 0 THEN clock + ttl - 1 ELSE @.expires]]

IncrementForAnHour(k, ttl) ==
  store' = [store EXCEPT ![k] =
              [count |-> @.count + 1,
               expires |-> IF @.count = 0 THEN clock + Hour ELSE @.expires]]

\* INCR, and EXPIRE on the first write.
Increment(k, ttl) ==
  store' = [store EXCEPT ![k] =
              [count |-> @.count + 1,
               expires |-> IF @.count = 0 THEN clock + ttl ELSE @.expires]]

\* The store at time t: the keys whose time is up are gone.
Expired(t) == [k \in Keys |-> IF t < store[k].expires THEN store[k] ELSE Absent]

-----------------------------------------------------------------------------
\* The checks

Key(c, w) == <<w, Bucket(w, readAt[c])>>

\* check() up to its first await.
ReadClock(c) ==
  /\ pc[c] = "new"
  /\ pc' = [pc EXCEPT ![c] = "minute"]
  /\ readAt' = [readAt EXCEPT ![c] = clock]
  /\ UNCHANGED <<clock, store, counted, inTime>>

\* A mutant of Count: it keeps what is left of the limit.
CountRemaining(c, w) ==
  /\ Increment(Key(c, w), Length(w))
  /\ counted' = [counted EXCEPT ![c][w] = Limit(w) - store'[Key(c, w)].count]
  /\ inTime' = [inTime EXCEPT ![c][w] = (Bucket(w, clock) = Bucket(w, readAt[c]))]
  /\ UNCHANGED <<clock, readAt>>

\* The store counts check c for window w.
Count(c, w) ==
  /\ Increment(Key(c, w), Length(w))
  /\ counted' = [counted EXCEPT ![c][w] = store'[Key(c, w)].count]
  /\ inTime' = [inTime EXCEPT ![c][w] = (Bucket(w, clock) = Bucket(w, readAt[c]))]
  /\ UNCHANGED <<clock, readAt>>

CountMinute(c) ==
  /\ pc[c] = "minute"
  /\ Count(c, "minute")
  /\ pc' = [pc EXCEPT ![c] = "hour"]

\* Mutants of Exceeded: one check too few, one too many.
ExceededAtLimit(c, w) == counted[c][w] >= Limit(w)
ExceededPastLimit(c, w) == counted[c][w] > Limit(w) + 1

Exceeded(c, w) == counted[c][w] > Limit(w)

\* The second count and the decision.
CountHour(c) ==
  /\ pc[c] = "hour"
  /\ Count(c, "hour")
  /\ pc' = [pc EXCEPT ![c] =
              IF \E w \in Windows : Exceeded(c, w)' THEN "limited" ELSE "allowed"]

\* The round trip fails and the check raises.  The command is lost, or it may
\* still be on its way to the store.
Raise(c) ==
  /\ pc[c] \in Awaiting
  /\ \E lost \in BOOLEAN :
       pc' = [pc EXCEPT ![c] = IF lost THEN "failed"
                               ELSE IF @ = "minute" THEN "minute_late" ELSE "hour_late"]
  /\ UNCHANGED <<clock, store, readAt, counted, inTime>>

\* The command of a check that has raised reaches the store after all.
CountLate(c) ==
  \E w \in Windows :
    /\ pc[c] = IF w = "minute" THEN "minute_late" ELSE "hour_late"
    /\ Increment(Key(c, w), Length(w))
    /\ pc' = [pc EXCEPT ![c] = "failed"]
    /\ UNCHANGED <<clock, readAt, counted, inTime>>

\* A mutant of RetryAfter: the hour counts only when the minute is not exceeded.
RetryAfterMinuteFirst(c) ==
  IF Exceeded(c, "minute") THEN Minute - (readAt[c] % Minute)
  ELSE IF Exceeded(c, "hour") THEN Hour - (readAt[c] % Hour) ELSE 0

\* What retry_after_seconds is, from the time the check has read.
RetryAfter(c) ==
  LET left(w) == IF Exceeded(c, w) THEN Length(w) - (readAt[c] % Length(w)) ELSE 0
  IN  IF left("minute") > left("hour") THEN left("minute") ELSE left("hour")

Tick == /\ clock < MaxTime
        /\ \A c \in Checks : pc[c] \in Awaiting \cup Late => clock - readAt[c] < MaxLatency
        /\ clock' = clock + 1
        /\ store' = Expired(clock + 1)
        /\ UNCHANGED <<pc, readAt, counted, inTime>>

CheckStep(c) == \/ ReadClock(c)
                \/ CountMinute(c)
                \/ CountHour(c)
                \/ Raise(c)
                \/ CountLate(c)

Next == \/ \E c \in Checks : CheckStep(c)
        \/ Tick

Spec == Init /\ [][Next]_vars

-----------------------------------------------------------------------------
\* Properties

\* The checks of bucket b of window w that were let through.
Allowed(w, b) == {c \in Checks : pc[c] = "allowed" /\ Bucket(w, readAt[c]) = b}

\* Concurrent workers never let more checks through than the limit among those
\* that the store counted within their minute or hour: the script's counts
\* are given once each, and a key never expires before its window ends.
LimitHolds ==
  \A w \in Windows, b \in 0..MaxTime :
    Cardinality({c \in Allowed(w, b) : inTime[c][w]}) <= Limit(w)

\* No more checks than the limit are let through per minute or hour, whatever
\* the timing (rate_limiter.py:29, "Safe under concurrent API workers.").
LimitHoldsAlways ==
  \A w \in Windows, b \in 0..MaxTime : Cardinality(Allowed(w, b)) <= Limit(w)

\* Checks counted after their bucket's end can double the limit, and no more:
\* the key they write anew outlives every check that read the same bucket.
LimitDoublesAtMost ==
  \A w \in Windows, b \in 0..MaxTime : Cardinality(Allowed(w, b)) <= 2 * Limit(w)

\* A check is turned away only for a window it has exceeded, and the limit of
\* every window it has exceeded was used up by other checks of that minute or
\* hour, which the store has counted, let through or not, or which have failed
\* and may have been counted.
RejectedOnlyOverLimit ==
  \A c \in Checks : pc[c] = "limited" =>
    /\ \E w \in Windows : Exceeded(c, w)
    /\ \A w \in Windows : Exceeded(c, w) =>
         Cardinality({d \in Checks \ {c} : /\ counted[d][w] > 0 \/ pc[d] = "failed"
                                           /\ Key(d, w) = Key(c, w)}) >= Limit(w)

\* A caller that waits for Retry-After, counted from any time after its check,
\* comes to buckets that none of the exceeded counters belongs to.
RetryAfterSuffices ==
  \A c \in Checks : pc[c] = "limited" =>
    \A w \in Windows : Exceeded(c, w) =>
      /\ RetryAfter(c) > 0
      /\ Bucket(w, clock + RetryAfter(c)) > Bucket(w, readAt[c])

\* The store does not fill up with the counters of the past: a counter is gone
\* at most one window, and what a check may be late, after its bucket's end.
CountersGo ==
  \A k \in Keys : store[k] # Absent =>
    clock + 1 < (k[2] + 2) * Length(k[1]) + MaxLatency
=============================================================================
