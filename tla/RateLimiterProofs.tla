-------------------------- MODULE RateLimiterProofs --------------------------
(***************************************************************************)
(* Proofs about the rate limiter, for any set of checks, any window        *)
(* lengths and any limits.                                                 *)
(***************************************************************************)
EXTENDS RateLimiter, FiniteSetTheorems, TLAPS

-----------------------------------------------------------------------------
\* The inductive invariant

\* Every check has read a time that is past and waits no longer than it may.
ChecksInTime ==
  \A c \in Checks :
    /\ readAt[c] <= clock
    /\ pc[c] \in Awaiting \cup Late => clock <= readAt[c] + MaxLatency

\* A counter in the store counts something, outlives its bucket, and goes at
\* most one window and a latency after the bucket's end.
KeysSound ==
  \A w \in Windows, b \in 0..MaxTime : store[<<w, b>>] # Absent =>
    /\ store[<<w, b>>].count > 0
    /\ clock < store[<<w, b>>].expires
    /\ (b + 1) * Length(w) <= store[<<w, b>>].expires
    /\ store[<<w, b>>].expires < (b + 2) * Length(w) + MaxLatency

\* A check counted in time has a count of its own, which the counter has
\* reached as long as the bucket runs, and is let through only below the limit.
CountsDistinct ==
  \A c \in Checks, w \in Windows :
    /\ pc[c] = "new" => ~inTime[c][w]
    /\ pc[c] = "allowed" => counted[c][w] <= Limit(w)
    /\ inTime[c][w] =>
         /\ counted[c][w] >= 1
         /\ Bucket(w, clock) = Bucket(w, readAt[c]) =>
              counted[c][w] <= store[Key(c, w)].count
         /\ \A d \in Checks \ {c} : inTime[d][w] /\ Key(d, w) = Key(c, w) =>
              counted[d][w] # counted[c][w]

IInv == TypeOK /\ ChecksInTime /\ KeysSound /\ CountsDistinct

-----------------------------------------------------------------------------
\* Buckets

\* The windows have a positive length and limit.
LEMMA WindowTypes ==
  \A w \in Windows : Length(w) \in Nat \ {0} /\ Limit(w) \in Nat \ {0}
  BY LimiterAssumption DEF Windows, Length, Limit

\* A time lies in its bucket.
LEMMA BucketBounds ==
  ASSUME NEW w \in Windows, NEW t \in Nat
  PROVE  /\ Bucket(w, t) \in Nat
         /\ Bucket(w, t) * Length(w) <= t
         /\ t < (Bucket(w, t) + 1) * Length(w)
         /\ Bucket(w, t) <= t
<1> DEFINE L == Length(w)
           b == t \div L
<1>1. L \in Nat /\ L >= 1
  BY WindowTypes
<1> HIDE DEF L
<1>2. b \in Nat /\ b * L <= t /\ t < b * L + L
  BY <1>1
<1> HIDE DEF b
<1>3. (b + 1) * L = b * L + L /\ b <= b * L
  BY <1>1, <1>2
<1>4. b * L \in Nat
  BY <1>1, <1>2
<1>5. b = Bucket(w, t) /\ L = Length(w)
  BY DEF b, L, Bucket
<1> QED
  BY <1>1, <1>2, <1>3, <1>4, <1>5

\* Buckets follow each other.
LEMMA BucketMonotone ==
  ASSUME NEW w \in Windows, NEW t \in Nat, NEW u \in Nat, t <= u
  PROVE  Bucket(w, t) <= Bucket(w, u)
<1> DEFINE L == Length(w)
<1>1. L \in Nat \ {0}
  BY WindowTypes
<1> HIDE DEF L
<1>2. t \div L <= u \div L
  BY <1>1
<1> QED
  BY <1>2 DEF Bucket, L

\* What is left of a bucket leads to its end.
LEMMA BucketEnd ==
  ASSUME NEW w \in Windows, NEW t \in Nat
  PROVE  /\ Length(w) - (t % Length(w)) \in Nat \ {0}
         /\ (Bucket(w, t) + 1) * Length(w) = t + (Length(w) - (t % Length(w)))
<1> DEFINE L == Length(w)
           b == t \div L
           r == t % L
<1>1. L \in Nat \ {0}
  BY WindowTypes
<1> HIDE DEF L
<1>2. b \in Nat /\ r \in 0..(L - 1) /\ t = b * L + r
  BY <1>1
<1> HIDE DEF b, r
<1>3. (b + 1) * L = b * L + L /\ b * L \in Nat
  BY <1>1, <1>2
<1>4. L - r \in Nat \ {0} /\ (b + 1) * L = t + (L - r)
  BY <1>1, <1>2, <1>3
<1> QED
  BY <1>4 DEF b, r, L, Bucket

\* A time at or after the end of a bucket is in a later one.
LEMMA BucketLater ==
  ASSUME NEW w \in Windows, NEW t \in Nat, NEW b \in Nat, (b + 1) * Length(w) <= t
  PROVE  Bucket(w, t) > b
<1> DEFINE L == Length(w)
           a == Bucket(w, t)
<1>1. L \in Nat \ {0}
  BY WindowTypes
<1>2. a \in Nat /\ t < (a + 1) * L
  BY BucketBounds
<1>3. (b + 1) * L <= t
  OBVIOUS
<1> HIDE DEF L, a
<1>4. (b + 1) * L < (a + 1) * L
  <2>1. (a + 1) * L \in Nat /\ (b + 1) * L \in Nat
    BY <1>1, <1>2
  <2> QED
    BY <1>2, <1>3, <2>1
<1>5. CASE a <= b
  <2>1. PICK n \in Nat : b = a + n
    <3>1. b - a \in Nat /\ b = a + (b - a)
      BY <1>2, <1>5
    <3> QED
      BY <3>1
  <2>2. (b + 1) * L = (a + 1) * L + n * L /\ n * L \in Nat /\ (a + 1) * L \in Nat
    BY <1>1, <1>2, <2>1
  <2> QED
    BY <1>4, <2>2
<1> QED
  BY <1>2, <1>5 DEF a

\* The key of a check is a key of the store.
LEMMA KeyType ==
  ASSUME TypeOK, NEW c \in Checks, NEW w \in Windows
  PROVE  /\ readAt[c] \in Nat /\ Bucket(w, readAt[c]) \in 0..MaxTime
         /\ Key(c, w) = <<w, Bucket(w, readAt[c])>> /\ Key(c, w) \in Keys
<1>1. readAt[c] \in 0..MaxTime /\ MaxTime \in Nat
  BY LimiterAssumption DEF TypeOK
<1>2. Bucket(w, readAt[c]) \in Nat /\ Bucket(w, readAt[c]) <= readAt[c]
  BY <1>1, BucketBounds
<1> QED
  BY <1>1, <1>2 DEF Key, Keys

\* Keys of equal checks are of one window and one bucket.
LEMMA KeyParts ==
  ASSUME NEW c \in Checks, NEW d \in Checks, NEW v \in Windows, NEW w \in Windows
  PROVE  Key(c, v) = Key(d, w) <=>
           v = w /\ Bucket(v, readAt[c]) = Bucket(w, readAt[d])
  BY DEF Key

-----------------------------------------------------------------------------
\* The increment script

\* An increment for a check adds one to the counter of its key and leaves the
\* others alone.
LEMMA IncrementCounts ==
  ASSUME TypeOK, NEW c \in Checks, NEW w \in Windows,
         Increment(Key(c, w), Length(w))
  PROVE  /\ store' \in [Keys -> [count : Nat, expires : Nat]]
         /\ store'[Key(c, w)].count = store[Key(c, w)].count + 1
         /\ store'[Key(c, w)].expires =
              IF store[Key(c, w)].count = 0 THEN clock + Length(w)
              ELSE store[Key(c, w)].expires
         /\ \A k \in Keys : k # Key(c, w) => store'[k] = store[k]
<1> DEFINE k == Key(c, w)
           n == [count |-> store[k].count + 1,
                 expires |-> IF store[k].count = 0 THEN clock + Length(w)
                             ELSE store[k].expires]
<1>1. k \in Keys
  BY KeyType
<1>2. store \in [Keys -> [count : Nat, expires : Nat]] /\ clock \in Nat
  BY LimiterAssumption DEF TypeOK
<1>3. store[k] \in [count : Nat, expires : Nat] /\ Length(w) \in Nat
  BY <1>1, <1>2, WindowTypes
<1>4. store' = [store EXCEPT ![k] = n]
  BY DEF Increment
<1>5. n \in [count : Nat, expires : Nat]
  BY <1>2, <1>3
<1>6. n.count = store[k].count + 1
      /\ n.expires = IF store[k].count = 0 THEN clock + Length(w) ELSE store[k].expires
  OBVIOUS
<1> HIDE DEF k, n
<1>7. /\ store' \in [Keys -> [count : Nat, expires : Nat]] /\ store'[k] = n
      /\ \A j \in Keys : j # k => store'[j] = store[j]
  BY <1>1, <1>2, <1>4, <1>5
<1> QED
  BY <1>6, <1>7 DEF k

\* An increment on time gives a new counter the life it should have.
LEMMA IncrementSound ==
  ASSUME IInv, NEW c \in Checks, NEW w \in Windows,
         pc[c] \in Awaiting \cup Late,
         Increment(Key(c, w), Length(w)), UNCHANGED clock
  PROVE  KeysSound'
<1> DEFINE b == Bucket(w, readAt[c])
           L == Length(w)
<1>1. TypeOK /\ KeysSound /\ ChecksInTime
  BY DEF IInv
<1>2. /\ readAt[c] \in Nat /\ b \in 0..MaxTime /\ Key(c, w) = <<w, b>>
      /\ clock \in Nat /\ MaxLatency \in Nat /\ L \in Nat \ {0} /\ MaxTime \in Nat
  BY <1>1, KeyType, WindowTypes, LimiterAssumption DEF TypeOK
<1>3. b * L <= readAt[c] /\ readAt[c] < (b + 1) * L
  BY <1>2, BucketBounds
<1>4. readAt[c] <= clock /\ clock <= readAt[c] + MaxLatency
  BY <1>1 DEF ChecksInTime
<1> SUFFICES ASSUME NEW v \in Windows, NEW a \in 0..MaxTime, store'[<<v, a>>] # Absent
             PROVE  /\ store'[<<v, a>>].count > 0
                    /\ clock < store'[<<v, a>>].expires
                    /\ (a + 1) * Length(v) <= store'[<<v, a>>].expires
                    /\ store'[<<v, a>>].expires < (a + 2) * Length(v) + MaxLatency
  BY DEF KeysSound
<1>5. <<v, a>> \in Keys /\ <<w, b>> \in Keys
  BY <1>2 DEF Keys
<1>6. CASE <<v, a>> # <<w, b>>
  <2>1. store'[<<v, a>>] = store[<<v, a>>]
    BY <1>1, <1>2, <1>5, <1>6, IncrementCounts
  <2> QED
    BY <1>1, <2>1 DEF KeysSound
<1>7. CASE <<v, a>> = <<w, b>>
  <2>1. v = w /\ a = b
    BY <1>7
  <2>2. /\ store'[<<w, b>>].count = store[<<w, b>>].count + 1
        /\ store'[<<w, b>>].expires = IF store[<<w, b>>].count = 0 THEN clock + L
                                      ELSE store[<<w, b>>].expires
        /\ store[<<w, b>>].count \in Nat
    BY <1>1, <1>2, <1>5, IncrementCounts DEF TypeOK
  <2>3. CASE store[<<w, b>>].count = 0
    <3>1. store'[<<w, b>>].expires = clock + L /\ store'[<<w, b>>].count = 1
      BY <2>2, <2>3
    <3> HIDE DEF b, L
    <3>2. b \in Nat /\ (b + 1) * L = b * L + L /\ (b + 2) * L = b * L + L + L /\ b * L \in Nat
      BY <1>2
    <3>3. clock < clock + L /\ (b + 1) * L <= clock + L /\ clock + L < (b + 2) * L + MaxLatency
      BY <1>2, <1>3, <1>4, <3>2
    <3>4. L = Length(v)
      BY <2>1 DEF L
    <3> QED
      BY <2>1, <3>1, <3>3, <3>4
  <2>4. CASE store[<<w, b>>].count # 0
    <3>1. store[<<w, b>>] # Absent
      BY <2>4 DEF Absent
    <3>2. /\ clock < store[<<w, b>>].expires
          /\ (b + 1) * Length(w) <= store[<<w, b>>].expires
          /\ store[<<w, b>>].expires < (b + 2) * Length(w) + MaxLatency
      BY <1>1, <1>2, <3>1 DEF KeysSound
    <3> QED
      BY <2>1, <2>2, <2>4, <3>2
  <2> QED
    BY <2>3, <2>4
<1> QED
  BY <1>6, <1>7

\* Counting a check in time gives it a count that no other check has.
LEMMA CountDistinct ==
  ASSUME IInv, NEW c \in Checks, NEW w \in Windows, NEW s,
         Count(c, w), pc[c] \in Awaiting, pc' = [pc EXCEPT ![c] = s], s # "new",
         s = "allowed" => \A v \in Windows : counted'[c][v] <= Limit(v)
  PROVE  /\ counted' \in [Checks -> [Windows -> Nat]]
         /\ inTime' \in [Checks -> [Windows -> BOOLEAN]]
         /\ CountsDistinct'
<1> DEFINE k == Key(c, w)
<1>1. TypeOK /\ CountsDistinct /\ Increment(k, Length(w)) /\ UNCHANGED <<clock, readAt>>
  BY DEF IInv, Count
<1>2. k \in Keys /\ store[k].count \in Nat
  BY <1>1, KeyType DEF TypeOK
<1>3. /\ store' \in [Keys -> [count : Nat, expires : Nat]]
      /\ store'[k].count = store[k].count + 1
      /\ \A j \in Keys : j # k => store'[j] = store[j]
  BY <1>1, IncrementCounts
<1>4. counted' = [counted EXCEPT ![c][w] = store'[k].count]
      /\ inTime' = [inTime EXCEPT ![c][w] = (Bucket(w, clock) = Bucket(w, readAt[c]))]
  BY DEF Count
<1>5. counted' \in [Checks -> [Windows -> Nat]] /\ inTime' \in [Checks -> [Windows -> BOOLEAN]]
  BY <1>1, <1>2, <1>3, <1>4 DEF TypeOK
<1>6. /\ counted'[c][w] = store[k].count + 1
      /\ inTime'[c][w] <=> Bucket(w, clock) = Bucket(w, readAt[c])
      /\ \A d \in Checks, v \in Windows : d # c \/ v # w =>
           counted'[d][v] = counted[d][v] /\ inTime'[d][v] = inTime[d][v]
  BY <1>1, <1>3, <1>4 DEF TypeOK
<1>7. \A d \in Checks, v \in Windows :
        Key(d, v)' = Key(d, v) /\ Bucket(v, clock)' = Bucket(v, clock)
        /\ Bucket(v, readAt[d])' = Bucket(v, readAt[d]) /\ Key(d, v) \in Keys
  BY <1>1, KeyType DEF Key
<1>8. \A d \in Checks : pc'[d] = IF d = c THEN s ELSE pc[d]
  BY <1>1 DEF TypeOK
\* The counts of the other checks of this bucket are below this one.
<1>9. ASSUME NEW d \in Checks, d # c, inTime[d][w], Key(d, w) = k, inTime'[c][w]
      PROVE  counted[d][w] < counted'[c][w]
  <2>1. Bucket(w, clock) = Bucket(w, readAt[d])
    BY <1>6, <1>9, KeyParts
  <2>2. counted[d][w] <= store[k].count
    BY <1>1, <1>9, <2>1 DEF CountsDistinct
  <2> QED
    BY <1>1, <1>2, <1>6, <2>2 DEF TypeOK
<1> SUFFICES ASSUME NEW d \in Checks, NEW v \in Windows
    PROVE /\ pc'[d] = "new" => ~inTime'[d][v]
          /\ pc'[d] = "allowed" => counted'[d][v] <= Limit(v)
          /\ inTime'[d][v] =>
               /\ counted'[d][v] >= 1
               /\ Bucket(v, clock) = Bucket(v, readAt[d]) =>
                    counted'[d][v] <= store'[Key(d, v)].count
               /\ \A e \in Checks \ {d} : inTime'[e][v] /\ Key(e, v) = Key(d, v) =>
                    counted'[e][v] # counted'[d][v]
  BY <1>5, <1>7 DEF CountsDistinct, Limit, Length
<1> HIDE DEF k
<1>10. CASE d = c /\ v = w
  <2>1. k = Key(d, v)
    BY <1>10 DEF k
  <2>2. counted'[d][v] >= 1 /\ counted'[d][v] <= store'[k].count
    BY <1>2, <1>3, <1>6, <1>10
  <2>3. ASSUME NEW e \in Checks \ {d}, inTime'[d][v], inTime'[e][v], Key(e, v) = Key(d, v)
        PROVE  counted'[e][v] # counted'[d][v]
    <3>1. counted[e][v] = counted'[e][v] /\ inTime[e][w]
      BY <1>6, <1>10, <2>3
    <3>2. counted[e][w] < counted'[c][w] /\ counted[e][w] \in Nat
      BY <1>1, <1>9, <1>10, <2>1, <2>3, <3>1 DEF TypeOK
    <3>3. counted'[c][w] \in Nat
      BY <1>2, <1>6
    <3> QED
      BY <1>10, <3>1, <3>2, <3>3
  <2> QED
    BY <1>8, <1>10, <2>1, <2>2, <2>3
<1>11. CASE d # c \/ v # w
  <2>1. counted'[d][v] = counted[d][v] /\ inTime'[d][v] = inTime[d][v]
    BY <1>6, <1>11
  <2>2. /\ pc[d] = "new" => ~inTime[d][v]
        /\ pc[d] = "allowed" => counted[d][v] <= Limit(v)
        /\ inTime[d][v] =>
             /\ counted[d][v] >= 1
             /\ Bucket(v, clock) = Bucket(v, readAt[d]) =>
                  counted[d][v] <= store[Key(d, v)].count
             /\ \A e \in Checks \ {d} : inTime[e][v] /\ Key(e, v) = Key(d, v) =>
                  counted[e][v] # counted[d][v]
    BY <1>1 DEF CountsDistinct
  <2>3. pc'[d] = "new" => ~inTime'[d][v]
    BY <1>8, <2>1, <2>2
  <2>4. pc'[d] = "allowed" => counted'[d][v] <= Limit(v)
    BY <1>8, <2>1, <2>2
  <2>5. store[Key(d, v)].count <= store'[Key(d, v)].count
    <3>1. Key(d, v) \in Keys /\ store[Key(d, v)].count \in Nat
      BY <1>1, <1>7 DEF TypeOK
    <3>2. CASE Key(d, v) = k
      BY <1>3, <3>1, <3>2
    <3>3. CASE Key(d, v) # k
      BY <1>3, <3>1, <3>3
    <3> QED
      BY <3>2, <3>3
  <2>6. ASSUME inTime'[d][v], Bucket(v, clock) = Bucket(v, readAt[d])
        PROVE  counted'[d][v] <= store'[Key(d, v)].count
    <3>1. inTime[d][v] /\ counted[d][v] <= store[Key(d, v)].count
      BY <2>1, <2>2, <2>6
    <3>2. /\ counted[d][v] \in Nat /\ store[Key(d, v)].count \in Nat
          /\ store'[Key(d, v)].count \in Nat
      BY <1>1, <1>3, <1>7 DEF TypeOK
    <3> QED
      BY <2>1, <2>5, <3>1, <3>2
  <2>7. ASSUME NEW e \in Checks \ {d}, inTime'[d][v], inTime'[e][v], Key(e, v) = Key(d, v)
        PROVE  counted'[e][v] # counted'[d][v]
    <3>1. CASE e = c /\ v = w
      <4>1. k = Key(d, w) /\ inTime[d][w] /\ inTime'[c][w] /\ d # c
        BY <2>1, <2>7, <3>1 DEF k
      <4>2. counted[d][w] < counted'[c][w] /\ counted[d][w] \in Nat /\ counted'[c][w] \in Nat
        BY <1>1, <1>2, <1>6, <1>9, <4>1 DEF TypeOK
      <4> QED
        BY <2>1, <3>1, <4>2
    <3>2. CASE e # c \/ v # w
      BY <1>6, <2>1, <2>2, <2>7, <3>2
    <3> QED
      BY <3>1, <3>2
  <2> QED
    BY <2>1, <2>2, <2>3, <2>4, <2>6, <2>7
<1> QED
  BY <1>10, <1>11

-----------------------------------------------------------------------------
\* The invariant is inductive

\* The limiter starts in the invariant.
LEMMA LimiterInit == Init => IInv
<1> SUFFICES ASSUME Init PROVE IInv
  OBVIOUS
<1>1. Absent \in [count : Nat, expires : Nat]
  BY DEF Absent
<1>2. TypeOK
  BY <1>1, LimiterAssumption DEF Init, TypeOK
<1>3. ChecksInTime
  BY LimiterAssumption DEF Init, ChecksInTime, Awaiting, Late
<1>4. KeysSound
  BY DEF Init, KeysSound, Keys
<1>5. CountsDistinct
  BY DEF Init, CountsDistinct
<1> QED
  BY <1>2, <1>3, <1>4, <1>5 DEF IInv

\* A check that reads its clock has not been counted.
LEMMA ReadClockStep ==
  ASSUME IInv, NEW c \in Checks, ReadClock(c)
  PROVE  IInv'
<1>1. /\ TypeOK /\ ChecksInTime /\ KeysSound /\ CountsDistinct
      /\ pc[c] = "new" /\ UNCHANGED <<clock, store, counted, inTime>>
      /\ pc' = [pc EXCEPT ![c] = "minute"] /\ readAt' = [readAt EXCEPT ![c] = clock]
  BY DEF IInv, ReadClock
<1>2. clock \in 0..MaxTime /\ clock \in Nat /\ MaxLatency \in Nat
  BY <1>1, LimiterAssumption DEF TypeOK
<1>3. \A d \in Checks : /\ pc'[d] = IF d = c THEN "minute" ELSE pc[d]
                        /\ readAt'[d] = IF d = c THEN clock ELSE readAt[d]
  BY <1>1 DEF TypeOK
<1>4. TypeOK'
  BY <1>1, <1>2 DEF TypeOK, Awaiting
<1>5. ChecksInTime'
  BY <1>1, <1>2, <1>3 DEF ChecksInTime
<1>6. KeysSound'
  BY <1>1 DEF KeysSound
<1>7. CountsDistinct'
  <2>1. \A v \in Windows : ~inTime[c][v]
    BY <1>1 DEF CountsDistinct
  <2>2. \A d \in Checks, v \in Windows : d # c =>
          Key(d, v)' = Key(d, v) /\ Bucket(v, readAt[d])' = Bucket(v, readAt[d])
    BY <1>3 DEF Key, Bucket, Length
  <2>3. \A v \in Windows : Bucket(v, clock)' = Bucket(v, clock) /\ Limit(v)' = Limit(v)
    BY <1>1 DEF Bucket, Length, Limit
  <2> QED
    BY <1>1, <1>3, <2>1, <2>2, <2>3 DEF CountsDistinct
<1> QED
  BY <1>4, <1>5, <1>6, <1>7 DEF IInv

\* Counting a check, in either round trip.
LEMMA CountStep ==
  ASSUME IInv, NEW c \in Checks, NEW w \in Windows, NEW s \in {"hour", "limited", "allowed"},
         Count(c, w), pc[c] \in Awaiting, pc' = [pc EXCEPT ![c] = s],
         s = "allowed" => \A v \in Windows : counted'[c][v] <= Limit(v)
  PROVE  IInv'
<1>1. /\ TypeOK /\ ChecksInTime /\ Increment(Key(c, w), Length(w))
      /\ UNCHANGED <<clock, readAt>>
  BY DEF IInv, Count
<1>2. /\ counted' \in [Checks -> [Windows -> Nat]]
      /\ inTime' \in [Checks -> [Windows -> BOOLEAN]]
      /\ CountsDistinct'
  BY CountDistinct
<1>3. store' \in [Keys -> [count : Nat, expires : Nat]]
  BY <1>1, IncrementCounts
<1>4. TypeOK'
  BY <1>1, <1>2, <1>3 DEF TypeOK, Awaiting, Ended
<1>5. ChecksInTime'
  BY <1>1 DEF ChecksInTime, TypeOK, Awaiting
<1>6. KeysSound'
  BY <1>1, IncrementSound
<1> QED
  BY <1>2, <1>4, <1>5, <1>6 DEF IInv

\* A check that raises leaves everything else alone.
LEMMA RaiseStep ==
  ASSUME IInv, NEW c \in Checks, Raise(c)
  PROVE  IInv'
<1>1. /\ TypeOK /\ ChecksInTime /\ KeysSound /\ CountsDistinct
      /\ pc[c] \in Awaiting /\ UNCHANGED <<clock, store, readAt, counted, inTime>>
  BY DEF IInv, Raise
<1>2. PICK s \in {"failed", "minute_late", "hour_late"} : pc' = [pc EXCEPT ![c] = s]
  BY <1>1 DEF Raise, TypeOK
<1>3. \A d \in Checks : pc'[d] = IF d = c THEN s ELSE pc[d]
  BY <1>1, <1>2 DEF TypeOK
<1>4. TypeOK'
  BY <1>1, <1>2 DEF TypeOK, Late, Ended
<1>5. ChecksInTime'
  BY <1>1, <1>3 DEF ChecksInTime
<1>6. KeysSound'
  BY <1>1 DEF KeysSound
<1>7. CountsDistinct'
  BY <1>1, <1>3 DEF CountsDistinct, Key, Bucket, Limit, Length
<1> QED
  BY <1>4, <1>5, <1>6, <1>7 DEF IInv

\* A command that comes late only makes the counter larger.
LEMMA CountLateStep ==
  ASSUME IInv, NEW c \in Checks, CountLate(c)
  PROVE  IInv'
<1>1. PICK w \in Windows : /\ pc[c] = IF w = "minute" THEN "minute_late" ELSE "hour_late"
                           /\ Increment(Key(c, w), Length(w))
  BY DEF CountLate
<1>2. /\ TypeOK /\ ChecksInTime /\ CountsDistinct /\ pc[c] \in Late
      /\ pc' = [pc EXCEPT ![c] = "failed"]
      /\ UNCHANGED <<clock, readAt, counted, inTime>>
  BY <1>1 DEF IInv, CountLate, Late
<1>3. \A d \in Checks : pc'[d] = IF d = c THEN "failed" ELSE pc[d]
  BY <1>2 DEF TypeOK
<1>4. /\ store' \in [Keys -> [count : Nat, expires : Nat]]
      /\ store'[Key(c, w)].count = store[Key(c, w)].count + 1
      /\ \A k \in Keys : k # Key(c, w) => store'[k] = store[k]
  BY <1>1, <1>2, IncrementCounts
<1>5. TypeOK'
  BY <1>2, <1>4 DEF TypeOK, Ended
<1>6. ChecksInTime'
  BY <1>2, <1>3 DEF ChecksInTime, Awaiting, Late
<1>7. KeysSound'
  BY <1>1, <1>2, IncrementSound
<1>8. CountsDistinct'
  <2>1. ASSUME NEW k \in Keys PROVE store[k].count <= store'[k].count
    <3>1. store[k].count \in Nat
      BY <1>2 DEF TypeOK
    <3>2. CASE k = Key(c, w)
      BY <1>4, <3>1, <3>2
    <3>3. CASE k # Key(c, w)
      BY <1>4, <3>1, <3>3
    <3> QED
      BY <3>2, <3>3
  <2>2. \A d \in Checks, v \in Windows :
          /\ Key(d, v) \in Keys /\ Key(d, v)' = Key(d, v)
          /\ Bucket(v, readAt[d])' = Bucket(v, readAt[d])
          /\ Bucket(v, clock)' = Bucket(v, clock) /\ Limit(v)' = Limit(v)
    BY <1>2, KeyType DEF Key, Bucket, Length, Limit
  <2>3. \A d \in Checks, v \in Windows : counted[d][v] <= store[Key(d, v)].count =>
          counted[d][v] <= store'[Key(d, v)].count
    <3> SUFFICES ASSUME NEW d \in Checks, NEW v \in Windows,
                        counted[d][v] <= store[Key(d, v)].count
                 PROVE  counted[d][v] <= store'[Key(d, v)].count
      OBVIOUS
    <3>1. /\ counted[d][v] \in Nat /\ store[Key(d, v)].count \in Nat
          /\ store'[Key(d, v)].count \in Nat
      BY <1>2, <1>4, <2>2 DEF TypeOK
    <3> QED
      BY <2>1, <2>2, <3>1
  <2>4. \A d \in Checks, v \in Windows : (store[Key(d, v)].count)' = store'[Key(d, v)].count
    BY <2>2
  <2> QED
    BY <1>2, <1>3, <2>2, <2>3, <2>4 DEF CountsDistinct
<1> QED
  BY <1>5, <1>6, <1>7, <1>8 DEF IInv

\* Time takes a counter away only after its bucket has ended.
LEMMA TickStep ==
  ASSUME IInv, Tick
  PROVE  IInv'
<1>1. /\ TypeOK /\ ChecksInTime /\ KeysSound /\ CountsDistinct
      /\ clock < MaxTime /\ clock' = clock + 1 /\ store' = Expired(clock + 1)
      /\ \A c \in Checks : pc[c] \in Awaiting \cup Late => clock - readAt[c] < MaxLatency
      /\ UNCHANGED <<pc, readAt, counted, inTime>>
  BY DEF IInv, Tick
<1>2. clock \in Nat /\ MaxTime \in Nat /\ MaxLatency \in Nat /\ clock' \in 0..MaxTime
  BY <1>1, LimiterAssumption DEF TypeOK
<1>3. /\ store' \in [Keys -> [count : Nat, expires : Nat]]
      /\ \A k \in Keys : store'[k] = IF clock + 1 < store[k].expires THEN store[k] ELSE Absent
  BY <1>1 DEF Expired, TypeOK, Absent
<1>4. TypeOK'
  BY <1>1, <1>2, <1>3 DEF TypeOK
<1>5. ChecksInTime'
  <2> SUFFICES ASSUME NEW c \in Checks
               PROVE  /\ readAt[c] <= clock + 1
                      /\ pc[c] \in Awaiting \cup Late => clock + 1 <= readAt[c] + MaxLatency
    BY <1>1 DEF ChecksInTime
  <2>1. readAt[c] \in Nat /\ readAt[c] <= clock
    BY <1>1, KeyType, WindowTypes DEF ChecksInTime, TypeOK
  <2> QED
    BY <1>1, <1>2, <2>1
<1>6. KeysSound'
  BY <1>1, <1>3 DEF KeysSound, Keys, Length
<1>7. CountsDistinct'
  <2> SUFFICES ASSUME NEW c \in Checks, NEW w \in Windows, inTime[c][w],
                      Bucket(w, clock + 1) = Bucket(w, readAt[c])
               PROVE  counted[c][w] <= store'[Key(c, w)].count
    <3>1. \A d \in Checks, v \in Windows :
            /\ Key(d, v)' = Key(d, v) /\ Limit(v)' = Limit(v)
            /\ Bucket(v, readAt[d])' = Bucket(v, readAt[d])
            /\ Bucket(v, clock)' = Bucket(v, clock + 1)
            /\ (store[Key(d, v)].count)' = store'[Key(d, v)].count
      BY <1>1 DEF Key, Bucket, Length, Limit
    <3> QED
      BY <1>1, <3>1 DEF CountsDistinct
  <2> DEFINE b == Bucket(w, readAt[c])
             k == Key(c, w)
  <2>1. readAt[c] \in Nat /\ b \in 0..MaxTime /\ k = <<w, b>> /\ k \in Keys
    BY <1>1, KeyType
  <2>2. readAt[c] <= clock
    BY <1>1 DEF ChecksInTime
  <2>3. Bucket(w, clock) = b
    <3>1. b <= Bucket(w, clock) /\ Bucket(w, clock) <= Bucket(w, clock + 1)
      BY <1>2, <2>1, <2>2, BucketMonotone
    <3>2. b \in Nat /\ Bucket(w, clock) \in Nat
      BY <1>2, <2>1, BucketBounds
    <3> QED
      BY <3>1, <3>2
  <2>4. 1 <= counted[c][w] /\ counted[c][w] <= store[k].count
    BY <1>1, <2>3 DEF CountsDistinct
  <2>5. store[k].count \in Nat /\ store[k].expires \in Nat /\ counted[c][w] \in Nat
    BY <1>1, <2>1 DEF TypeOK
  <2>6. store[k] # Absent
    BY <2>4, <2>5 DEF Absent
  <2>7. (b + 1) * Length(w) <= store[k].expires
    BY <1>1, <2>1, <2>6 DEF KeysSound
  <2>8. clock + 1 < (b + 1) * Length(w)
    BY <1>2, BucketBounds
  <2>9. (b + 1) * Length(w) \in Nat
    <3>1. b + 1 \in Nat /\ Length(w) \in Nat
      BY <1>2, <2>1, WindowTypes
    <3> HIDE DEF b
    <3> QED
      BY <3>1
  <2>10. clock + 1 < store[k].expires
    BY <1>2, <2>5, <2>7, <2>8, <2>9
  <2> QED
    BY <1>3, <2>1, <2>4, <2>10
<1> QED
  BY <1>4, <1>5, <1>6, <1>7 DEF IInv

\* Every step of the checks, the store and the clock preserves it.
LEMMA LimiterStep == IInv /\ [Next]_vars => IInv'
<1> SUFFICES ASSUME IInv, [Next]_vars
             PROVE  IInv'
  OBVIOUS
<1>1. ASSUME NEW c \in Checks, ReadClock(c) PROVE IInv'
  BY <1>1, ReadClockStep
<1>2. ASSUME NEW c \in Checks, CountMinute(c) PROVE IInv'
  <2>1. "minute" \in Windows /\ pc[c] \in Awaiting
    BY <1>2 DEF Windows, CountMinute, Awaiting
  <2>2. Count(c, "minute") /\ pc' = [pc EXCEPT ![c] = "hour"]
    BY <1>2 DEF CountMinute
  <2> QED
    BY <1>2, <2>1, <2>2, CountStep
<1>3. ASSUME NEW c \in Checks, CountHour(c) PROVE IInv'
  <2>1. "hour" \in Windows /\ pc[c] \in Awaiting /\ Count(c, "hour")
    BY <1>3 DEF Windows, CountHour, Awaiting
  <2>2. \A v \in Windows : Exceeded(c, v)' <=> counted'[c][v] > Limit(v)
    BY DEF Exceeded, Limit
  <2>3. \A v \in Windows : counted'[c][v] \in Nat /\ Limit(v) \in Nat
    <3>1. TypeOK /\ Increment(Key(c, "hour"), Length("hour"))
      BY <2>1 DEF IInv, Count
    <3>2. Key(c, "hour") \in Keys /\ store' \in [Keys -> [count : Nat, expires : Nat]]
      BY <2>1, <3>1, KeyType, IncrementCounts
    <3>3. counted' = [counted EXCEPT ![c]["hour"] = store'[Key(c, "hour")].count]
      BY <2>1 DEF Count
    <3>4. counted' \in [Checks -> [Windows -> Nat]]
      BY <3>1, <3>2, <3>3 DEF TypeOK
    <3> QED
      BY <3>4, WindowTypes
  <2>4. CASE \E v \in Windows : Exceeded(c, v)'
    <3>1. pc' = [pc EXCEPT ![c] = "limited"]
      BY <1>3, <2>4 DEF CountHour
    <3> QED
      BY <2>1, <3>1, CountStep
  <2>5. CASE ~\E v \in Windows : Exceeded(c, v)'
    <3>1. pc' = [pc EXCEPT ![c] = "allowed"]
      BY <1>3, <2>5 DEF CountHour
    <3>2. \A v \in Windows : counted'[c][v] <= Limit(v)
      BY <2>2, <2>3, <2>5
    <3> QED
      BY <2>1, <3>1, <3>2, CountStep
  <2> QED
    BY <2>4, <2>5
<1>4. ASSUME NEW c \in Checks, Raise(c) PROVE IInv'
  BY <1>4, RaiseStep
<1>5. ASSUME NEW c \in Checks, CountLate(c) PROVE IInv'
  BY <1>5, CountLateStep
<1>6. CASE Tick
  BY <1>6, TickStep
<1>7. CASE UNCHANGED vars
  BY <1>7 DEF vars, IInv, TypeOK, ChecksInTime, KeysSound, CountsDistinct,
              Key, Bucket, Length, Limit
<1> QED
  BY <1>1, <1>2, <1>3, <1>4, <1>5, <1>6, <1>7 DEF Next, CheckStep

\* So it always holds.
LEMMA LimiterInvariant == Spec => []IInv
  BY LimiterInit, LimiterStep, PTL DEF Spec

-----------------------------------------------------------------------------
\* The second invariant: how often a counter has been counted

\* The states in which the command for window w has not been executed.
Before(w) == {"new", "minute", "minute_late"}
               \cup IF w = "minute" THEN {} ELSE {"hour", "hour_late"}

\* How far a check is tells what it has been given.
ChecksProgress ==
  \A c \in Checks :
    /\ \A w \in Windows : pc[c] \in Before(w) => counted[c][w] = 0
    /\ pc[c] = "hour" => counted[c]["minute"] > 0
    /\ pc[c] = "allowed" => \A w \in Windows : counted[c][w] > 0
    /\ pc[c] = "limited" => \E w \in Windows : counted[c][w] > Limit(w)

\* The checks that were counted under a key; these and those that may have been.
Counted(w, b) == {c \in Checks : counted[c][w] > 0 /\ Bucket(w, readAt[c]) = b}

Taken(w, b) ==
  {c \in Checks : (counted[c][w] > 0 \/ pc[c] = "failed") /\ Bucket(w, readAt[c]) = b}

\* A counter, and every count it has given, is at most the number of these checks.
Backed(w, b) ==
  /\ IsFiniteSet(Taken(w, b))
  /\ store[<<w, b>>].count <= Cardinality(Taken(w, b))
  /\ \A c \in Counted(w, b) : counted[c][w] <= Cardinality(Taken(w, b))

OneLife(w, S) == \A c, d \in S : counted[c][w] = counted[d][w] => c = d

\* The checks under a key got distinct counts in an earlier life of the key, F,
\* and in its present one.  The first ends with the bucket or later, the second
\* a window after that or later.
Lives(w, b, F) ==
  /\ F \subseteq Counted(w, b)
  /\ OneLife(w, F)
  /\ OneLife(w, Counted(w, b) \ F)
  /\ F # {} => (b + 1) * Length(w) <= clock
  /\ store[<<w, b>>] = Absent /\ Counted(w, b) # F => (b + 2) * Length(w) <= clock
  /\ store[<<w, b>>] # Absent =>
       /\ F # {} => (b + 2) * Length(w) <= store[<<w, b>>].expires
       /\ \A c \in Counted(w, b) \ F : counted[c][w] <= store[<<w, b>>].count

CountsInv ==
  /\ ChecksProgress
  /\ \A w \in Windows, b \in 0..MaxTime :
       Backed(w, b) /\ \E F \in SUBSET Counted(w, b) : Lives(w, b, F)

-----------------------------------------------------------------------------
\* What a step does to one counter

\* Nothing; at most one check fails that may have been counted.
Aside(w, b) ==
  /\ clock' = clock /\ store'[<<w, b>>] = store[<<w, b>>]
  /\ Counted(w, b)' = Counted(w, b)
  /\ \A d \in Counted(w, b) : counted'[d][w] = counted[d][w]
  /\ Taken(w, b) \subseteq Taken(w, b)'
  /\ \E c \in Checks : Taken(w, b)' \subseteq Taken(w, b) \cup {c}

\* A check is counted, and it is given the count unless it has raised.
Counts(w, b, c) ==
  /\ clock' = clock
  /\ b * Length(w) <= clock /\ clock < (b + 2) * Length(w)
  /\ store'[<<w, b>>].count = store[<<w, b>>].count + 1
  /\ store'[<<w, b>>].expires = IF store[<<w, b>>].count = 0 THEN clock + Length(w)
                                ELSE store[<<w, b>>].expires
  /\ c \notin Taken(w, b) /\ Taken(w, b)' = Taken(w, b) \cup {c}
  /\ \A d \in Counted(w, b) : counted'[d][w] = counted[d][w]
  /\ \/ Counted(w, b)' = Counted(w, b)
     \/ /\ Counted(w, b)' = Counted(w, b) \cup {c}
        /\ counted'[c][w] = store'[<<w, b>>].count

\* Time passes, and may take the counter away.
Passes(w, b) ==
  /\ clock' = clock + 1
  /\ store'[<<w, b>>] = IF clock + 1 < store[<<w, b>>].expires THEN store[<<w, b>>] ELSE Absent
  /\ Counted(w, b)' = Counted(w, b) /\ Taken(w, b)' = Taken(w, b)
  /\ \A d \in Counted(w, b) : counted'[d][w] = counted[d][w]

\* A check reads its clock, or raises: no counter moves.
LEMMA NotCounting ==
  ASSUME IInv, CountsInv, NEW c \in Checks, ReadClock(c) \/ Raise(c),
         NEW w \in Windows, NEW b \in 0..MaxTime
  PROVE  Aside(w, b)
<1>1. TypeOK /\ UNCHANGED <<clock, store, counted>>
  BY DEF IInv, ReadClock, Raise
<1>2. PICK s \in {"minute", "failed", "minute_late", "hour_late"} : pc' = [pc EXCEPT ![c] = s]
  BY <1>1 DEF ReadClock, Raise, TypeOK
<1>3. pc[c] \notin {"failed"} /\ (readAt'[c] # readAt[c] => pc[c] = "new" /\ s # "failed")
  BY <1>1, <1>2 DEF ReadClock, Raise, TypeOK, Awaiting
<1>4. \A d \in Checks : /\ pc'[d] = IF d = c THEN s ELSE pc[d]
                        /\ d # c => readAt'[d] = readAt[d]
  BY <1>1, <1>2 DEF ReadClock, Raise, TypeOK
<1>5. pc[c] = "new" => counted[c][w] = 0
  BY DEF CountsInv, ChecksProgress, Before
<1>6. \A d \in Checks : counted[d][w] > 0 => readAt'[d] = readAt[d]
  BY <1>1, <1>3, <1>4, <1>5
<1>7. Counted(w, b)' = Counted(w, b)
  BY <1>1, <1>6 DEF Counted, Bucket, Length
<1>8. /\ Taken(w, b) \subseteq Taken(w, b)'
      /\ Taken(w, b)' \subseteq Taken(w, b) \cup {c}
  BY <1>1, <1>3, <1>4, <1>5 DEF Taken, Bucket, Length
<1> QED
  BY <1>1, <1>7, <1>8 DEF Aside

\* A check's command is executed, whether the check still waits for it or not.
LEMMA Counting ==
  ASSUME IInv, CountsInv, NEW c \in Checks, NEW v \in Windows,
         NEW w \in Windows, NEW b \in 0..MaxTime,
         pc[c] \in Awaiting \cup Late, pc[c] \in Before(v),
         Increment(Key(c, v), Length(v)), UNCHANGED <<clock, readAt>>,
         \/ /\ pc' = [pc EXCEPT ![c] = "failed"]
            /\ UNCHANGED counted
         \/ /\ \E s \in {"hour", "limited", "allowed"} : pc' = [pc EXCEPT ![c] = s]
            /\ counted' = [counted EXCEPT ![c][v] = store'[Key(c, v)].count]
  PROVE  IF Key(c, v) = <<w, b>> THEN Counts(w, b, c) ELSE Aside(w, b)
<1> DEFINE k == Key(c, v)
<1>1. TypeOK /\ ChecksInTime /\ counted[c][v] = 0 /\ pc[c] # "failed"
  BY DEF IInv, CountsInv, ChecksProgress, Awaiting, Late
<1>2. /\ k \in Keys /\ readAt[c] \in Nat /\ Bucket(v, readAt[c]) \in 0..MaxTime
      /\ k = <<v, Bucket(v, readAt[c])>> /\ clock \in Nat /\ store[k].count \in Nat
  BY <1>1, KeyType, LimiterAssumption DEF TypeOK
<1>3. /\ store' \in [Keys -> [count : Nat, expires : Nat]]
      /\ store'[k].count = store[k].count + 1
      /\ store'[k].expires = IF store[k].count = 0 THEN clock + Length(v) ELSE store[k].expires
      /\ \A j \in Keys : j # k => store'[j] = store[j]
  BY <1>1, IncrementCounts
<1>4. \A d \in Checks : /\ readAt'[d] = readAt[d]
                        /\ d # c => pc'[d] = pc[d] /\ counted'[d] = counted[d]
  BY <1>1 DEF TypeOK
<1>5. \/ pc'[c] = "failed" /\ counted'[c] = counted[c]
      \/ /\ pc'[c] # "failed" /\ counted'[c][v] = store'[k].count
         /\ \A u \in Windows : u # v => counted'[c][u] = counted[c][u]
  BY <1>1 DEF TypeOK
<1>6. CASE k = <<w, b>>
  <2>1. v = w /\ Bucket(w, readAt[c]) = b
    BY <1>2, <1>6
  <2>2. b * Length(w) <= clock /\ clock < (b + 2) * Length(w)
    <3>1. b * Length(w) <= readAt[c] /\ readAt[c] < (b + 1) * Length(w)
      BY <1>2, <2>1, BucketBounds
    <3>2. readAt[c] <= clock /\ clock <= readAt[c] + MaxLatency
      BY <1>1 DEF ChecksInTime
    <3>3. MaxLatency \in Nat /\ MaxLatency < Length(w) /\ Length(w) \in Nat
      BY WindowTypes, LimiterAssumption DEF Windows, Length
    <3>4. b \in Nat /\ (b + 1) * Length(w) = b * Length(w) + Length(w)
          /\ (b + 2) * Length(w) = b * Length(w) + Length(w) + Length(w) /\ b * Length(w) \in Nat
      BY <3>3, <1>2
    <3> QED
      BY <1>2, <3>1, <3>2, <3>3, <3>4
  <2>3. c \notin Taken(w, b) /\ Taken(w, b)' = Taken(w, b) \cup {c}
    <3>1. c \notin Taken(w, b)
      BY <1>1, <2>1 DEF Taken
    <3>2. counted'[c][w] > 0 \/ pc'[c] = "failed"
      BY <1>2, <1>3, <1>5, <2>1
    <3>3. \A d \in Checks : Bucket(w, readAt[d])' = Bucket(w, readAt[d])
      BY <1>4 DEF Bucket, Length
    <3> QED
      BY <1>4, <2>1, <3>1, <3>2, <3>3 DEF Taken
  <2>4. c \notin Counted(w, b) /\ \A d \in Counted(w, b) : counted'[d][w] = counted[d][w]
    BY <1>1, <1>4, <2>1 DEF Counted
  <2>5. \/ Counted(w, b)' = Counted(w, b)
        \/ /\ Counted(w, b)' = Counted(w, b) \cup {c}
           /\ counted'[c][w] = store'[<<w, b>>].count
    <3>1. \A d \in Checks : Bucket(w, readAt[d])' = Bucket(w, readAt[d])
      BY <1>4 DEF Bucket, Length
    <3>2. CASE counted'[c] = counted[c]
      BY <1>4, <3>1, <3>2 DEF Counted
    <3>3. CASE counted'[c][v] = store'[k].count
      <4>1. counted'[c][w] > 0
        BY <1>2, <1>3, <2>1, <3>3
      <4> QED
        BY <1>4, <1>6, <2>1, <3>1, <3>3, <4>1 DEF Counted
    <3> QED
      BY <1>5, <3>2, <3>3
  <2> QED
    BY <1>3, <1>6, <2>1, <2>2, <2>3, <2>4, <2>5 DEF Counts
<1>7. CASE k # <<w, b>>
  <2>1. store'[<<w, b>>] = store[<<w, b>>]
    BY <1>3, <1>7 DEF Keys
  <2>2. \A d \in Checks : Bucket(w, readAt[d])' = Bucket(w, readAt[d])
    BY <1>4 DEF Bucket, Length
  <2>3. Bucket(w, readAt[c]) = b => counted'[c][w] = counted[c][w]
    BY <1>2, <1>5, <1>7
  <2>4. /\ Counted(w, b)' = Counted(w, b)
        /\ \A d \in Counted(w, b) : counted'[d][w] = counted[d][w]
    BY <1>4, <2>2, <2>3 DEF Counted
  <2>5. /\ Taken(w, b) \subseteq Taken(w, b)'
        /\ Taken(w, b)' \subseteq Taken(w, b) \cup {c}
    BY <1>1, <1>4, <2>2, <2>3 DEF Taken
  <2>6. clock' = clock
    OBVIOUS
  <2> QED
    BY <1>7, <2>1, <2>4, <2>5, <2>6 DEF Aside
<1> QED
  BY <1>6, <1>7

\* Every step does one of the four to every counter.
LEMMA StepOfCounter ==
  ASSUME IInv, CountsInv, [Next]_vars, NEW w \in Windows, NEW b \in 0..MaxTime
  PROVE  \/ Aside(w, b)
         \/ \E c \in Checks : Counts(w, b, c)
         \/ Passes(w, b)
         \/ UNCHANGED vars
<1>1. ASSUME NEW c \in Checks, ReadClock(c) \/ Raise(c) PROVE Aside(w, b)
  BY <1>1, NotCounting
<1>2. ASSUME NEW c \in Checks, CountMinute(c) PROVE Aside(w, b) \/ Counts(w, b, c)
  <2>1. /\ "minute" \in Windows /\ pc[c] \in Awaiting \cup Late /\ pc[c] \in Before("minute")
        /\ Increment(Key(c, "minute"), Length("minute")) /\ UNCHANGED <<clock, readAt>>
        /\ pc' = [pc EXCEPT ![c] = "hour"]
        /\ counted' = [counted EXCEPT ![c]["minute"] = store'[Key(c, "minute")].count]
    BY <1>2 DEF CountMinute, Count, Windows, Awaiting, Before
  <2> QED
    BY <2>1, Counting
<1>3. ASSUME NEW c \in Checks, CountHour(c) PROVE Aside(w, b) \/ Counts(w, b, c)
  <2>1. /\ "hour" \in Windows /\ pc[c] \in Awaiting \cup Late /\ pc[c] \in Before("hour")
        /\ Increment(Key(c, "hour"), Length("hour")) /\ UNCHANGED <<clock, readAt>>
        /\ \E s \in {"hour", "limited", "allowed"} : pc' = [pc EXCEPT ![c] = s]
        /\ counted' = [counted EXCEPT ![c]["hour"] = store'[Key(c, "hour")].count]
    BY <1>3 DEF CountHour, Count, Windows, Awaiting, Before
  <2> QED
    BY <2>1, Counting
<1>4. ASSUME NEW c \in Checks, CountLate(c) PROVE Aside(w, b) \/ Counts(w, b, c)
  <2>1. PICK v \in Windows : /\ pc[c] = IF v = "minute" THEN "minute_late" ELSE "hour_late"
                             /\ Increment(Key(c, v), Length(v))
    BY <1>4 DEF CountLate
  <2>2. /\ pc[c] \in Awaiting \cup Late /\ pc[c] \in Before(v)
        /\ UNCHANGED <<clock, readAt>>
        /\ pc' = [pc EXCEPT ![c] = "failed"] /\ UNCHANGED counted
    BY <1>4, <2>1 DEF CountLate, Late, Before
  <2> QED
    BY <2>1, <2>2, Counting
<1>5. CASE Tick
  <2>1. clock' = clock + 1 /\ store' = Expired(clock + 1) /\ UNCHANGED <<pc, readAt, counted>>
    BY <1>5 DEF Tick
  <2>2. store'[<<w, b>>] = IF clock + 1 < store[<<w, b>>].expires THEN store[<<w, b>>] ELSE Absent
    BY <2>1 DEF Expired, Keys
  <2>3. Counted(w, b)' = Counted(w, b) /\ Taken(w, b)' = Taken(w, b)
    BY <2>1 DEF Counted, Taken, Bucket, Length
  <2> QED
    BY <2>1, <2>2, <2>3 DEF Passes
<1> QED
  BY <1>1, <1>2, <1>3, <1>4, <1>5 DEF Next, CheckStep

-----------------------------------------------------------------------------
\* The second invariant is inductive

LEMMA CountsInit == Init => CountsInv
<1> SUFFICES ASSUME Init PROVE CountsInv
  OBVIOUS
<1>1. ChecksProgress
  BY DEF Init, ChecksProgress
<1>2. ASSUME NEW w \in Windows, NEW b \in 0..MaxTime
      PROVE  Backed(w, b) /\ \E F \in SUBSET Counted(w, b) : Lives(w, b, F)
  <2>1. Counted(w, b) = {} /\ Taken(w, b) = {} /\ store[<<w, b>>] = Absent
    BY <1>2 DEF Init, Counted, Taken, Keys
  <2>2. Backed(w, b)
    BY <2>1, FS_EmptySet DEF Backed, Absent
  <2>3. Lives(w, b, {})
    BY <2>1 DEF Lives, OneLife
  <2> QED
    BY <2>2, <2>3
<1> QED
  BY <1>1, <1>2 DEF CountsInv

\* How far a check is follows what it is given.
LEMMA ProgressStep ==
  ASSUME IInv, CountsInv, [Next]_vars
  PROVE  ChecksProgress'
<1>1. TypeOK /\ ChecksProgress
  BY DEF IInv, CountsInv
<1>2. ASSUME NEW c \in Checks, ReadClock(c) PROVE ChecksProgress'
  BY <1>1, <1>2 DEF TypeOK, ReadClock, ChecksProgress, Before, Limit
<1>3. ASSUME NEW c \in Checks, NEW w \in Windows, Count(c, w)
      PROVE  /\ counted'[c][w] \in Nat \ {0}
             /\ \A v \in Windows : v # w => counted'[c][v] = counted[c][v]
             /\ \A d \in Checks : d # c => counted'[d] = counted[d]
  <2>1. Key(c, w) \in Keys /\ store[Key(c, w)].count \in Nat
    BY <1>1, KeyType DEF TypeOK
  <2>2. store'[Key(c, w)].count = store[Key(c, w)].count + 1
    BY <1>1, <1>3, IncrementCounts DEF Count
  <2>3. counted' = [counted EXCEPT ![c][w] = store'[Key(c, w)].count]
    BY <1>3 DEF Count
  <2> QED
    BY <1>1, <2>1, <2>2, <2>3 DEF TypeOK
<1>4. ASSUME NEW c \in Checks, CountMinute(c) PROVE ChecksProgress'
  <2>1. /\ "minute" \in Windows /\ Count(c, "minute") /\ pc[c] = "minute"
        /\ \A d \in Checks : pc'[d] = IF d = c THEN "hour" ELSE pc[d]
    BY <1>1, <1>4 DEF Windows, CountMinute, TypeOK
  <2>2. /\ counted'[c]["minute"] \in Nat \ {0} /\ counted'[c]["hour"] = counted[c]["hour"]
        /\ \A d \in Checks : d # c => counted'[d] = counted[d]
    BY <1>3, <2>1 DEF Windows
  <2> QED
    BY <1>1, <2>1, <2>2 DEF ChecksProgress, Before, Windows, Limit
<1>5. ASSUME NEW c \in Checks, CountHour(c) PROVE ChecksProgress'
  <2>1. /\ "hour" \in Windows /\ Count(c, "hour") /\ pc[c] = "hour"
        /\ \A d \in Checks : pc'[d] =
             IF d = c THEN IF \E w \in Windows : Exceeded(c, w)' THEN "limited" ELSE "allowed"
             ELSE pc[d]
    BY <1>1, <1>5 DEF Windows, CountHour, TypeOK
  <2>2. /\ counted'[c]["hour"] \in Nat \ {0} /\ counted'[c]["minute"] = counted[c]["minute"]
        /\ \A d \in Checks : d # c => counted'[d] = counted[d]
    BY <1>3, <2>1 DEF Windows
  <2>3. /\ counted'[c]["hour"] > 0 /\ counted'[c]["minute"] > 0
        /\ pc'[c] = "limited" => \E w \in Windows : counted'[c][w] > Limit(w)
        /\ pc'[c] \in {"limited", "allowed"}
    BY <1>1, <2>1, <2>2 DEF ChecksProgress, Exceeded, Limit
  <2> QED
    BY <1>1, <2>1, <2>2, <2>3 DEF ChecksProgress, Before, Windows, Limit
<1>6. ASSUME NEW c \in Checks, Raise(c) PROVE ChecksProgress'
  <2>1. UNCHANGED counted /\ pc[c] \in Awaiting
    BY <1>6 DEF Raise
  <2>2. /\ \A d \in Checks : d # c => pc'[d] = pc[d]
        /\ \/ pc'[c] = "failed"
           \/ pc[c] = "minute" /\ pc'[c] = "minute_late"
           \/ pc[c] = "hour" /\ pc'[c] = "hour_late"
    <3>1. PICK lost \in BOOLEAN :
            pc' = [pc EXCEPT ![c] = IF lost THEN "failed"
                                    ELSE IF @ = "minute" THEN "minute_late" ELSE "hour_late"]
      BY <1>6 DEF Raise
    <3>2. pc[c] = "minute" \/ pc[c] = "hour"
      BY <2>1 DEF Awaiting
    <3> QED
      BY <1>1, <3>1, <3>2 DEF TypeOK
  <2> QED
    BY <1>1, <2>1, <2>2 DEF ChecksProgress, Before, Limit
<1>7. ASSUME NEW c \in Checks, CountLate(c) PROVE ChecksProgress'
  BY <1>1, <1>7 DEF TypeOK, CountLate, ChecksProgress, Before, Limit
<1>8. CASE Tick \/ UNCHANGED vars
  BY <1>1, <1>8 DEF Tick, vars, ChecksProgress, Before, Limit
<1> QED
  BY <1>2, <1>4, <1>5, <1>6, <1>7, <1>8 DEF Next, CheckStep

\* A counter grows only with the checks it has counted.
LEMMA BackedStep ==
  ASSUME IInv, CountsInv, [Next]_vars, NEW w \in Windows, NEW b \in 0..MaxTime
  PROVE  Backed(w, b)'
<1> DEFINE k == <<w, b>>
           T == Taken(w, b)
<1>1. TypeOK /\ Backed(w, b)
  BY DEF IInv, CountsInv
<1>2. IsFiniteSet(T) /\ Cardinality(T) \in Nat /\ store[k].count \in Nat
  BY <1>1, FS_CardinalityType DEF Backed, TypeOK, Keys
<1>3. \A d \in Counted(w, b) : counted[d][w] \in Nat /\ counted[d][w] <= Cardinality(T)
  BY <1>1 DEF Backed, Counted, TypeOK
<1>4. CASE Aside(w, b)
  <2>1. PICK c \in Checks : T' \subseteq T \cup {c}
    BY <1>4 DEF Aside
  <2>2. IsFiniteSet(T \cup {c})
    BY <1>2, FS_AddElement
  <2>3. T \subseteq T'
    BY <1>4 DEF Aside
  <2>4. IsFiniteSet(T') /\ Cardinality(T') \in Nat /\ Cardinality(T) <= Cardinality(T')
    BY <2>1, <2>2, <2>3, FS_Subset, FS_CardinalityType
  <2> HIDE DEF T
  <2>5. /\ store'[k].count = store[k].count /\ Counted(w, b)' = Counted(w, b)
        /\ \A d \in Counted(w, b) : counted'[d][w] = counted[d][w]
    BY <1>4 DEF Aside
  <2>6. store[k].count <= Cardinality(T)
    BY <1>1 DEF Backed, T
  <2>7. store'[k].count <= Cardinality(T')
    BY <1>2, <2>4, <2>5, <2>6
  <2>8. \A d \in Counted(w, b) : counted'[d][w] <= Cardinality(T')
    BY <1>2, <1>3, <2>4, <2>5
  <2> QED
    BY <2>4, <2>5, <2>7, <2>8 DEF Backed, T
<1>5. ASSUME NEW c \in Checks, Counts(w, b, c) PROVE Backed(w, b)'
  <2>1. c \notin T /\ T' = T \cup {c}
    BY <1>5 DEF Counts
  <2>2. IsFiniteSet(T') /\ Cardinality(T') = Cardinality(T) + 1
    BY <1>2, <2>1, FS_AddElement
  <2>3. store[k].count <= Cardinality(T)
    BY <1>1 DEF Backed
  <2> HIDE DEF T
  <2>4. store'[k].count <= Cardinality(T')
    BY <1>2, <1>5, <2>2, <2>3 DEF Counts
  <2>5. \A d \in Counted(w, b) : counted'[d][w] <= Cardinality(T')
    BY <1>2, <1>3, <1>5, <2>2 DEF Counts
  <2>6. \A d \in Counted(w, b)' : d \in Counted(w, b) \/ counted'[d][w] = store'[k].count
    BY <1>5 DEF Counts
  <2> QED
    BY <2>2, <2>4, <2>5, <2>6 DEF Backed, T
<1>6. CASE Passes(w, b)
  <2>1. T' = T /\ Counted(w, b)' = Counted(w, b)
        /\ \A d \in Counted(w, b) : counted'[d][w] = counted[d][w]
    BY <1>6 DEF Passes
  <2>2. store'[k].count = store[k].count \/ store'[k].count = 0
    BY <1>6 DEF Passes, Absent
  <2>3. store'[k].count <= Cardinality(T)
    BY <1>1, <1>2, <2>2 DEF Backed
  <2> QED
    BY <1>2, <1>3, <2>1, <2>3 DEF Backed
<1>7. CASE UNCHANGED vars
  <2>1. Taken(w, b)' = Taken(w, b) /\ Counted(w, b)' = Counted(w, b)
    BY <1>7 DEF vars, Taken, Counted, Bucket, Length
  <2> QED
    BY <1>1, <1>7, <2>1 DEF Backed, vars
<1> QED
  BY <1>4, <1>5, <1>6, <1>7, StepOfCounter

\* A key is written anew at most once while checks may still count under it.
LEMMA LivesStep ==
  ASSUME IInv, CountsInv, [Next]_vars, NEW w \in Windows, NEW b \in 0..MaxTime
  PROVE  \E F \in SUBSET Counted(w, b)' : Lives(w, b, F)'
<1> DEFINE k == <<w, b>>
           C == Counted(w, b)
           end == (b + 1) * Length(w)
           gone == (b + 2) * Length(w)
<1>1. TypeOK /\ KeysSound
  BY DEF IInv
<1>2. PICK F \in SUBSET C : Lives(w, b, F)
  BY DEF CountsInv
<1>3. /\ clock \in Nat /\ store[k].count \in Nat /\ store[k].expires \in Nat
      /\ \A d \in C : counted[d][w] \in Nat
  BY <1>1, LimiterAssumption DEF TypeOK, Keys, Counted
<1>4. /\ end \in Nat /\ gone = end + Length(w) /\ end = b * Length(w) + Length(w)
      /\ Length(w) \in Nat \ {0} /\ b * Length(w) \in Nat
  BY WindowTypes
<1>5. store[k] # Absent => store[k].count > 0 /\ end <= store[k].expires /\ clock < store[k].expires
  BY <1>1 DEF KeysSound
<1>6. CASE Aside(w, b) \/ UNCHANGED vars
  <2>1. /\ C' = C /\ clock' = clock /\ store'[k] = store[k]
        /\ \A d \in C : counted'[d][w] = counted[d][w]
    BY <1>6 DEF Aside, vars, Counted, Bucket, Length
  <2>2. Lives(w, b, F)'
    BY <1>2, <2>1 DEF Lives, OneLife, Length
  <2> QED
    BY <2>1, <2>2
<1>7. ASSUME NEW c \in Checks, Counts(w, b, c)
      PROVE  \E G \in SUBSET C' : Lives(w, b, G)'
  <2>1. /\ clock' = clock /\ clock < gone /\ b * Length(w) <= clock
        /\ store'[k].count = store[k].count + 1
        /\ store'[k].expires = IF store[k].count = 0 THEN clock + Length(w) ELSE store[k].expires
        /\ \A d \in C : counted'[d][w] = counted[d][w]
        /\ C' = C \/ (C' = C \cup {c} /\ counted'[c][w] = store[k].count + 1)
        /\ c \notin C
    BY <1>7 DEF Counts, Counted, Taken
  <2>2. F \subseteq C' /\ store'[k] # Absent
    BY <1>3, <2>1 DEF Absent
  <2>3. OneLife(w, F)'
    BY <1>2, <2>1 DEF Lives, OneLife
  <2>4. F # {} => end <= clock
    BY <1>2 DEF Lives
  <2>5. CASE store[k] = Absent
    <3>1. C = F
      BY <1>2, <1>3, <1>4, <2>1, <2>5 DEF Lives
    <3>2. \A d \in C' \ F : d = c /\ counted'[d][w] = 1
      BY <2>1, <2>5, <3>1 DEF Absent
    <3>3. store'[k].count = 1 /\ store'[k].expires = clock + Length(w)
      BY <2>1, <2>5 DEF Absent
    <3>4. F # {} => gone <= store'[k].expires
      BY <1>3, <1>4, <2>4, <3>3
    <3>5. OneLife(w, C \ F)'
      BY <3>2 DEF OneLife
    <3>6. Lives(w, b, F)'
      BY <2>1, <2>2, <2>3, <2>4, <3>2, <3>3, <3>4, <3>5 DEF Lives, Length
    <3> QED
      BY <2>2, <3>6
  <2>6. CASE store[k] # Absent
    <3>1. \A d \in C \ F : counted[d][w] <= store[k].count
      BY <1>2, <2>6 DEF Lives
    <3>2. \A d \in C' \ F : \/ d \in C \ F /\ counted'[d][w] = counted[d][w]
                            \/ d = c /\ counted'[d][w] = store[k].count + 1
      BY <2>1
    <3>3. \A d \in C' \ F : counted'[d][w] <= store'[k].count
      BY <1>3, <2>1, <3>1, <3>2
    <3>4. OneLife(w, C \ F)'
      <4> SUFFICES ASSUME NEW d \in C' \ F, NEW e \in C' \ F, counted'[d][w] = counted'[e][w]
                   PROVE  d = e
        BY DEF OneLife
      <4>1. CASE d \in C /\ e \in C
        BY <1>2, <2>1, <4>1 DEF Lives, OneLife
      <4>2. CASE d \notin C \/ e \notin C
        BY <1>3, <3>1, <3>2, <4>2
      <4> QED
        BY <4>1, <4>2
    <3>5. F # {} => gone <= store'[k].expires
      BY <1>2, <1>5, <2>1, <2>6 DEF Lives
    <3>6. Lives(w, b, F)'
      BY <2>1, <2>2, <2>3, <2>4, <3>3, <3>4, <3>5 DEF Lives, Length
    <3> QED
      BY <2>2, <3>6
  <2> QED
    BY <2>5, <2>6
<1>8. CASE Passes(w, b)
  <2>1. /\ C' = C /\ clock' = clock + 1 /\ \A d \in C : counted'[d][w] = counted[d][w]
        /\ store'[k] = IF clock + 1 < store[k].expires THEN store[k] ELSE Absent
    BY <1>8 DEF Passes
  <2>2. \A S \in SUBSET C : OneLife(w, S) => OneLife(w, S)'
    BY <2>1 DEF OneLife
  <2>3. CASE store'[k] = store[k]
    <3>1. OneLife(w, F)' /\ OneLife(w, C \ F)'
      BY <1>2, <2>1, <2>3 DEF Lives, OneLife
    <3>2. F # {} => end <= clock'
      BY <1>2, <1>3, <1>4, <2>1 DEF Lives
    <3>3. store[k] = Absent /\ C # F => gone <= clock'
      BY <1>2, <1>3, <1>4, <2>1 DEF Lives
    <3>4. Lives(w, b, F)'
      BY <1>2, <2>1, <2>3, <3>1, <3>2, <3>3 DEF Lives, Length
    <3> QED
      BY <2>1, <3>4
  <2>4. CASE store'[k] # store[k] /\ F = {}
    <3>1. store'[k] = Absent /\ store[k] # Absent /\ store[k].expires <= clock'
      BY <1>3, <2>1, <2>4
    <3>2. end <= clock'
      BY <1>3, <1>4, <1>5, <2>1, <3>1
    <3>3. OneLife(w, C)'
      BY <1>2, <2>1, <2>4 DEF Lives, OneLife
    <3>4. OneLife(w, C \ C)'
      BY <2>1 DEF OneLife
    <3>5. Lives(w, b, C)'
      BY <2>1, <3>1, <3>2, <3>3, <3>4 DEF Lives, Length
    <3> QED
      BY <3>5
  <2>5. CASE store'[k] # store[k] /\ F # {}
    <3>1. store'[k] = Absent /\ store[k] # Absent /\ store[k].expires <= clock'
      BY <1>3, <2>1, <2>5
    <3>2. gone <= clock' /\ end <= clock'
      BY <1>2, <1>3, <1>4, <2>1, <2>5, <3>1 DEF Lives
    <3>3. OneLife(w, F)' /\ OneLife(w, C \ F)'
      BY <1>2, <2>1 DEF Lives, OneLife
    <3>4. Lives(w, b, F)'
      BY <1>2, <2>1, <3>1, <3>2, <3>3 DEF Lives, Length
    <3> QED
      BY <2>1, <3>4
  <2> QED
    BY <2>3, <2>4, <2>5
<1> QED
  BY <1>6, <1>7, <1>8, StepOfCounter

LEMMA CountsStep == IInv /\ CountsInv /\ [Next]_vars => CountsInv'
<1> SUFFICES ASSUME IInv, CountsInv, [Next]_vars PROVE CountsInv'
  OBVIOUS
<1>1. ChecksProgress'
  BY ProgressStep
<1>2. ASSUME NEW w \in Windows, NEW b \in 0..MaxTime
      PROVE  Backed(w, b)' /\ \E F \in SUBSET Counted(w, b)' : Lives(w, b, F)'
  BY <1>2, BackedStep, LivesStep
<1> QED
  BY <1>1, <1>2 DEF CountsInv

LEMMA CountsInvariant == Spec => [](IInv /\ CountsInv)
<1>1. Init => IInv /\ CountsInv
  BY LimiterInit, CountsInit
<1>2. IInv /\ CountsInv /\ [Next]_vars => (IInv /\ CountsInv)'
  BY LimiterStep, CountsStep
<1> QED
  BY <1>1, <1>2, PTL DEF Spec

-----------------------------------------------------------------------------
\* The theorems

\* The limiter's variables have their types (every value of check() and of
\* the counters it keeps).
THEOREM LimiterTypes == Spec => []TypeOK
<1>1. IInv => TypeOK
  BY DEF IInv
<1> QED
  BY <1>1, LimiterInvariant, PTL

\* However many workers check at once, no more checks of one minute or hour
\* are let through than the limit, among those the store counted within it:
\* their counts are distinct and none exceeds the limit.
THEOREM LimitIsKept == Spec => []LimitHolds
<1>1. IInv => LimitHolds
  <2> SUFFICES ASSUME IInv, NEW w \in Windows, NEW b \in 0..MaxTime
      PROVE  Cardinality({c \in Allowed(w, b) : inTime[c][w]}) <= Limit(w)
    BY DEF LimitHolds
  <2> DEFINE S == {c \in Allowed(w, b) : inTime[c][w]}
             T == 1..Limit(w)
             f == [c \in S |-> counted[c][w]]
  <2>1. TypeOK /\ CountsDistinct /\ Limit(w) \in Nat \ {0}
    BY WindowTypes DEF IInv
  <2>2. ASSUME NEW c \in S PROVE counted[c][w] \in T
    <3>1. c \in Checks /\ pc[c] = "allowed" /\ inTime[c][w] /\ counted[c][w] \in Nat
      BY <2>1 DEF Allowed, TypeOK
    <3>2. counted[c][w] <= Limit(w) /\ counted[c][w] >= 1
      BY <2>1, <3>1 DEF CountsDistinct
    <3> QED
      BY <2>1, <3>1, <3>2
  <2>3. ASSUME NEW c \in S, NEW d \in S, counted[c][w] = counted[d][w] PROVE c = d
    <3>1. /\ c \in Checks /\ d \in Checks /\ inTime[c][w] /\ inTime[d][w]
          /\ Bucket(w, readAt[c]) = b /\ Bucket(w, readAt[d]) = b
      BY DEF Allowed
    <3>2. Key(c, w) = Key(d, w)
      BY <3>1 DEF Key
    <3> QED
      BY <2>1, <2>3, <3>1, <3>2 DEF CountsDistinct
  <2>4. f \in Injection(S, T)
    BY <2>2, <2>3 DEF Injection, IsInjective
  <2>5. IsFiniteSet(T) /\ Cardinality(T) = Limit(w)
    BY <2>1, FS_Interval
  <2> HIDE DEF S, T, f
  <2>6. Cardinality(S) <= Cardinality(T)
    BY <2>4, <2>5, FS_Injection
  <2> QED
    BY <2>5, <2>6 DEF S
<1> QED
  BY <1>1, LimiterInvariant, PTL

\* A counter is gone at most a window and a check's latency after the end of
\* its bucket, whoever wrote it last, a check that has raised included.
THEOREM CountersAreGone == Spec => []CountersGo
<1>1. IInv => CountersGo
  <2> SUFFICES ASSUME IInv, NEW k \in Keys, store[k] # Absent
      PROVE  clock + 1 < (k[2] + 2) * Length(k[1]) + MaxLatency
    BY DEF CountersGo
  <2>1. PICK w \in Windows, b \in 0..MaxTime : k = <<w, b>>
    BY DEF Keys
  <2>2. clock < store[k].expires /\ store[k].expires < (b + 2) * Length(w) + MaxLatency
    BY <2>1 DEF IInv, KeysSound
  <2>3. clock \in Nat /\ store[k].expires \in Nat
    BY LimiterAssumption DEF IInv, TypeOK
  <2>4. (b + 2) * Length(w) + MaxLatency \in Nat
    <3>1. b + 2 \in Nat /\ Length(w) \in Nat /\ MaxLatency \in Nat
      BY WindowTypes, LimiterAssumption
    <3> QED
      BY <3>1
  <2> QED
    BY <2>1, <2>2, <2>3, <2>4
<1> QED
  BY <1>1, LimiterInvariant, PTL

\* A caller that waits for Retry-After reaches buckets that none of the
\* exceeded counters belongs to.
THEOREM RetryAfterIsEnough == Spec => []RetryAfterSuffices
<1>1. IInv => RetryAfterSuffices
  <2> SUFFICES ASSUME IInv, NEW c \in Checks, NEW w \in Windows, Exceeded(c, w)
      PROVE  /\ RetryAfter(c) > 0
             /\ Bucket(w, clock + RetryAfter(c)) > Bucket(w, readAt[c])
    BY DEF RetryAfterSuffices
  <2> DEFINE t == readAt[c]
             left(v) == IF Exceeded(c, v) THEN Length(v) - (t % Length(v)) ELSE 0
  <2>1. t \in Nat /\ clock \in Nat /\ t <= clock
    BY KeyType, LimiterAssumption DEF IInv, TypeOK, ChecksInTime
  <2>2. \A v \in Windows : left(v) \in Nat
    <3> SUFFICES ASSUME NEW v \in Windows PROVE left(v) \in Nat
      OBVIOUS
    <3>1. Length(v) \in Nat \ {0}
      BY WindowTypes
    <3>2. t % Length(v) \in 0..(Length(v) - 1)
      BY <2>1, <3>1
    <3> QED
      BY <3>1, <3>2
  <2>3. RetryAfter(c) = IF left("minute") > left("hour") THEN left("minute") ELSE left("hour")
    BY DEF RetryAfter
  <2>4. RetryAfter(c) \in Nat /\ left(w) <= RetryAfter(c)
    BY <2>2, <2>3 DEF Windows
  <2>5. left(w) > 0 /\ (Bucket(w, t) + 1) * Length(w) <= t + left(w)
    BY <2>1, BucketEnd
  <2> HIDE DEF t, left
  <2>6. (Bucket(w, t) + 1) * Length(w) <= clock + RetryAfter(c)
    <3>1. (Bucket(w, t) + 1) * Length(w) \in Nat
      <4>1. Length(w) \in Nat
        BY WindowTypes
      <4>2. Bucket(w, t) \in Nat
        BY <2>1, BucketBounds
      <4> QED
        BY <4>1, <4>2
    <3> QED
      BY <2>1, <2>2, <2>4, <2>5, <3>1
  <2>7. Bucket(w, clock + RetryAfter(c)) > Bucket(w, t)
    <3>1. clock + RetryAfter(c) \in Nat /\ Bucket(w, t) \in Nat
      BY <2>1, <2>4, BucketBounds
    <3> QED
      BY <2>6, <3>1, BucketLater
  <2> QED
    BY <2>2, <2>4, <2>5, <2>7 DEF t
<1> QED
  BY <1>1, LimiterInvariant, PTL

\* A check is turned away only for a window it has exceeded, and only after the
\* limit's number of other checks of that minute or hour were counted, or have
\* failed and may have been.
THEOREM RejectionsAreJustified == Spec => []RejectedOnlyOverLimit
<1>1. IInv /\ CountsInv => RejectedOnlyOverLimit
  <2>e. IInv /\ CountsInv =>
          \A c \in Checks : pc[c] = "limited" => \E w \in Windows : Exceeded(c, w)
    BY DEF CountsInv, ChecksProgress, Exceeded
  <2> SUFFICES ASSUME IInv, CountsInv, NEW c \in Checks, NEW w \in Windows, Exceeded(c, w)
      PROVE  Cardinality({d \in Checks \ {c} : /\ counted[d][w] > 0 \/ pc[d] = "failed"
                                               /\ Key(d, w) = Key(c, w)}) >= Limit(w)
    BY <2>e DEF RejectedOnlyOverLimit
  <2>1. counted[c][w] > Limit(w)
    BY DEF Exceeded
  <2> DEFINE b == Bucket(w, readAt[c])
             T == Taken(w, b)
  <2>2. /\ b \in 0..MaxTime /\ counted[c][w] \in Nat /\ Limit(w) \in Nat
        /\ counted[c][w] > 0
    BY <2>1, KeyType, WindowTypes DEF IInv, TypeOK
  <2>3. c \in Counted(w, b) /\ c \in T
    BY <2>2 DEF Counted, Taken
  <2>4. IsFiniteSet(T) /\ counted[c][w] <= Cardinality(T)
    BY <2>2, <2>3 DEF CountsInv, Backed
  <2>5. Cardinality(T \ {c}) = Cardinality(T) - 1 /\ Cardinality(T) \in Nat
    BY <2>3, <2>4, FS_RemoveElement, FS_CardinalityType
  <2>6. {d \in Checks \ {c} : /\ counted[d][w] > 0 \/ pc[d] = "failed"
                              /\ Key(d, w) = Key(c, w)} = T \ {c}
    BY KeyParts DEF Taken
  <2> HIDE DEF T
  <2>7. Cardinality(T \ {c}) >= Limit(w)
    BY <2>1, <2>2, <2>4, <2>5
  <2> QED
    BY <2>6, <2>7
<1> QED
  BY <1>1, CountsInvariant, PTL

\* Checks of one life of a key are let through no more often than the limit.
LEMMA LifeWithinLimit ==
  ASSUME IInv, NEW w \in Windows, NEW S \in SUBSET Checks, OneLife(w, S),
         \A c \in S : pc[c] = "allowed" /\ counted[c][w] > 0
  PROVE  IsFiniteSet(S) /\ Cardinality(S) <= Limit(w)
<1> DEFINE T == 1..Limit(w)
           f == [c \in S |-> counted[c][w]]
<1>1. \A c \in S : counted[c][w] \in T
  BY WindowTypes DEF IInv, TypeOK, CountsDistinct
<1>2. f \in Injection(S, T)
  BY <1>1 DEF Injection, IsInjective, OneLife
<1>3. IsFiniteSet(T) /\ Cardinality(T) = Limit(w)
  BY WindowTypes, FS_Interval
<1> HIDE DEF T, f
<1> QED
  BY <1>2, <1>3, FS_Injection

\* No more than twice the limit of one minute or hour is let through, whatever
\* the timing: a key has at most two lives in which its checks are counted.
THEOREM LimitAtMostDoubled == Spec => []LimitDoublesAtMost
<1>1. IInv /\ CountsInv => LimitDoublesAtMost
  <2> SUFFICES ASSUME IInv, CountsInv, NEW w \in Windows, NEW b \in 0..MaxTime
      PROVE  Cardinality(Allowed(w, b)) <= 2 * Limit(w)
    BY DEF LimitDoublesAtMost
  <2>1. PICK F \in SUBSET Counted(w, b) : Lives(w, b, F)
    BY DEF CountsInv
  <2> DEFINE A == Allowed(w, b)
             old == A \cap F
             new == A \ F
  <2>2. \A c \in A : c \in Counted(w, b) /\ pc[c] = "allowed" /\ counted[c][w] > 0
    BY DEF CountsInv, ChecksProgress, Allowed, Counted
  <2>3. old \subseteq F /\ new \subseteq Counted(w, b) \ F
    BY <2>2
  <2>4. OneLife(w, old) /\ OneLife(w, new)
    BY <2>1, <2>3 DEF Lives, OneLife
  <2>5. old \in SUBSET Checks /\ new \in SUBSET Checks
    BY DEF Allowed
  <2>6. /\ \A c \in old : pc[c] = "allowed" /\ counted[c][w] > 0
        /\ \A c \in new : pc[c] = "allowed" /\ counted[c][w] > 0
    BY <2>2
  <2> HIDE DEF old, new
  <2>7. /\ IsFiniteSet(old) /\ Cardinality(old) <= Limit(w)
        /\ IsFiniteSet(new) /\ Cardinality(new) <= Limit(w)
    BY <2>4, <2>5, <2>6, LifeWithinLimit
  <2>8. old \cap new = {} /\ A = old \cup new
    BY DEF old, new
  <2>9. Cardinality(A) = Cardinality(old) + Cardinality(new)
    <3>1. Cardinality(old \cup new)
            = Cardinality(old) + Cardinality(new) - Cardinality(old \cap new)
      BY <2>7, FS_Union
    <3>2. Cardinality(old \cap new) = 0
      BY <2>8, FS_EmptySet
    <3>3. Cardinality(old) \in Nat /\ Cardinality(new) \in Nat
      BY <2>7, FS_CardinalityType
    <3> QED
      BY <2>8, <3>1, <3>2, <3>3
  <2>10. Limit(w) \in Nat /\ Cardinality(old) \in Nat /\ Cardinality(new) \in Nat
    BY <2>7, WindowTypes, FS_CardinalityType
  <2> QED
    BY <2>7, <2>9, <2>10
<1> QED
  BY <1>1, CountsInvariant, PTL
=============================================================================
