------------------------- MODULE SessionMemoryProofs -------------------------
(***************************************************************************)
(* Theorems about session memory, for any number of callers, messages and  *)
(* clears, every window and every time to live.                            *)
(***************************************************************************)
EXTENDS SessionMemory, SequenceTheorems, FiniteSetTheorems, TLAPS

-----------------------------------------------------------------------------
\* The last elements of a sequence

\* s has d elements more than n.
Longer(s, n, d) == Len(s) = n + d

\* l is the n elements of s after its first d.
IsEnd(s, n, d, l) == Len(l) = n /\ \A i \in 1..n : l[i] = s[i + d]

\* A sequence that has d elements too many loses its first d.
LEMMA LastOfLong ==
  ASSUME NEW S, NEW s \in Seq(S), NEW n \in Nat \ {0}, NEW d \in Nat, Longer(s, n, d)
  PROVE  LastOf(s, n) \in Seq(S) /\ IsEnd(s, n, d, LastOf(s, n))
<1> USE DEF Longer, IsEnd
<1>1. CASE d = 0
  <2>1. Len(s) = n /\ Len(s) <= n /\ \A i \in 1..n : i + d = i
    BY <1>1
  <2> QED
    BY <2>1 DEF LastOf
<1>2. CASE d # 0
  <2>1. /\ ~(Len(s) <= n) /\ Len(s) - n + 1 = d + 1 /\ d + 1 \in Int /\ n + d \in Int
        /\ d + 1 <= n + d /\ n + d - (d + 1) + 1 = n
        /\ \A i \in (d + 1)..(n + d) : i \in 1..(n + d)
        /\ \A i \in 1..n : d + 1 + i - 1 = i + d
    BY <1>2
  <2>2. LastOf(s, n) = SubSeq(s, d + 1, n + d)
    BY <2>1 DEF LastOf
  <2>3. \A i \in (d + 1)..(n + d) : s[i] \in S
    BY <2>1, ElementOfSeq
  <2>4. /\ SubSeq(s, d + 1, n + d) \in Seq(S) /\ Len(SubSeq(s, d + 1, n + d)) = n
        /\ \A i \in 1..n : SubSeq(s, d + 1, n + d)[i] = s[d + 1 + i - 1]
    BY <2>1, <2>3, SubSeqProperties
  <2> QED
    BY <2>1, <2>2, <2>4
<1> QED
  BY <1>1, <1>2

\* A sequence is short enough, or has some elements too many.
LEMMA ShortOrLong ==
  ASSUME NEW S, NEW s \in Seq(S), NEW n \in Nat \ {0}
  PROVE  \/ Len(s) <= n /\ LastOf(s, n) = s
         \/ \E d \in Nat \ {0} : Len(s) = n + d
<1>1. Len(s) \in Nat
  BY LenProperties
<1>2. CASE Len(s) <= n
  BY <1>2 DEF LastOf
<1>3. CASE ~(Len(s) <= n)
  <2>1. Len(s) - n \in Nat \ {0} /\ Len(s) = n + (Len(s) - n)
    BY <1>1, <1>3
  <2> QED
    BY <2>1
<1> QED
  BY <1>2, <1>3

\* Trimming a list that has been trimmed before gives the last of the whole.
LEMMA TrimmedAppend ==
  ASSUME NEW S, NEW s \in Seq(S), NEW e \in S, NEW n \in Nat \ {0}
  PROVE  LastOf(Append(LastOf(s, n), e), n) = LastOf(Append(s, e), n)
<1>1. CASE LastOf(s, n) = s
  BY <1>1
<1>2. ASSUME NEW d \in Nat \ {0}, Len(s) = n + d
      PROVE  LastOf(Append(LastOf(s, n), e), n) = LastOf(Append(s, e), n)
  <2> DEFINE l == LastOf(s, n)
             x == LastOf(Append(l, e), n)
             y == LastOf(Append(s, e), n)
  <2>1. l \in Seq(S) /\ Len(l) = n /\ \A i \in 1..n : l[i] = s[i + d]
    BY <1>2, LastOfLong DEF Longer, IsEnd
  <2> HIDE DEF l
  <2>2. /\ Append(l, e) \in Seq(S) /\ Len(Append(l, e)) = n + 1
        /\ \A i \in 1..n : Append(l, e)[i] = l[i]
        /\ Append(l, e)[n + 1] = e
    BY <2>1, AppendProperties
  <2>3. /\ Append(s, e) \in Seq(S) /\ Len(Append(s, e)) = n + (d + 1)
        /\ \A i \in 1..(n + d) : Append(s, e)[i] = s[i]
        /\ Append(s, e)[n + (d + 1)] = e
    <3>1. /\ Append(s, e) \in Seq(S) /\ Len(Append(s, e)) = n + d + 1
          /\ \A i \in 1..(n + d) : Append(s, e)[i] = s[i]
          /\ Append(s, e)[n + d + 1] = e
      BY <1>2, AppendProperties
    <3>2. n + d + 1 = n + (d + 1)
      OBVIOUS
    <3> QED
      BY <3>1, <3>2
  <2>4. x \in Seq(S) /\ Len(x) = n /\ \A i \in 1..n : x[i] = Append(l, e)[i + 1]
    <3> DEFINE f == 1
    <3>1. f \in Nat /\ Longer(Append(l, e), n, f)
      BY <2>2 DEF Longer
    <3> HIDE DEF f
    <3>2. x \in Seq(S) /\ IsEnd(Append(l, e), n, f, x)
      BY <2>2, <3>1, LastOfLong
    <3> QED
      BY <3>2 DEF f, IsEnd
  <2>5. y \in Seq(S) /\ Len(y) = n /\ \A i \in 1..n : y[i] = Append(s, e)[i + (d + 1)]
    <3> DEFINE f == d + 1
    <3>1. f \in Nat /\ Longer(Append(s, e), n, f)
      BY <2>3 DEF Longer
    <3> HIDE DEF f
    <3>2. y \in Seq(S) /\ IsEnd(Append(s, e), n, f, y)
      BY <2>3, <3>1, LastOfLong
    <3> QED
      BY <3>2 DEF f, IsEnd
  <2> HIDE DEF x, y
  <2>6. ASSUME NEW i \in 1..n
        PROVE  x[i] = y[i]
    <3>1. CASE i = n
      BY <2>2, <2>3, <2>4, <2>5, <3>1
    <3>2. CASE i # n
      <4>1. /\ i + 1 \in 1..n /\ i + (d + 1) \in 1..(n + d)
            /\ (i + 1) + d = i + (d + 1)
        BY <3>2
      <4>2. x[i] = l[i + 1] /\ y[i] = s[i + (d + 1)]
        BY <2>2, <2>3, <2>4, <2>5, <4>1
      <4> QED
        BY <2>1, <4>1, <4>2
    <3> QED
      BY <3>1, <3>2
  <2>7. x = y
    BY <2>4, <2>5, <2>6, SeqEqual
  <2> QED
    BY <2>7 DEF l, x, y
<1> QED
  BY <1>1, <1>2, ShortOrLong

\* l is the end of s, from some place d on, and after it e.
EndWith(s, e, n, l) ==
  \E d \in Nat, k \in 1..n :
    /\ Len(l) = k /\ l[k] = e /\ Len(s) + 1 = d + k
    /\ \A i \in 1..(k - 1) : i + d \in 1..Len(s) /\ l[i] = s[i + d]

\* After an append and the trimming, the new element is the last, and each
\* other element was there before, some places further on.
LEMMA AppendedLast ==
  ASSUME NEW S, NEW s \in Seq(S), NEW e \in S, NEW n \in Nat \ {0}
  PROVE  /\ LastOf(Append(s, e), n) \in Seq(S)
         /\ EndWith(s, e, n, LastOf(Append(s, e), n))
<1> DEFINE a == Append(s, e)
           l == LastOf(a, n)
<1>1. PICK c \in Nat : Len(s) = c
  BY LenProperties
<1>2. /\ a \in Seq(S) /\ Len(a) = c + 1 /\ a[c + 1] = e
      /\ \A i \in 1..c : a[i] = s[i]
  BY <1>1, AppendProperties
<1> HIDE DEF a
<1>3. CASE Len(a) <= n
  <2>1. l = a
    BY <1>3 DEF LastOf
  <2> HIDE DEF l
  <2>2. c + 1 \in 1..n /\ \A i \in 1..(c + 1 - 1) : i \in 1..c /\ i + 0 = i
    BY <1>2, <1>3
  <2>3. /\ Len(l) = c + 1 /\ l[c + 1] = e /\ Len(s) + 1 = 0 + (c + 1)
        /\ \A i \in 1..(c + 1 - 1) : i + 0 \in 1..Len(s) /\ l[i] = s[i + 0]
    BY <1>1, <1>2, <2>1, <2>2
  <2>4. 0 \in Nat /\ c + 1 \in 1..n
    BY <2>2
  <2>5. EndWith(s, e, n, l)
    <3>1. \E d \in Nat, k \in 1..n :
            /\ Len(l) = k /\ l[k] = e /\ Len(s) + 1 = d + k
            /\ \A i \in 1..(k - 1) : i + d \in 1..Len(s) /\ l[i] = s[i + d]
      <4> USE <2>4
      <4> WITNESS 0 \in Nat, c + 1 \in 1..n
      <4> QED
        BY <2>3
    <3> QED
      BY <3>1 DEF EndWith
  <2> QED
    BY <1>2, <2>1, <2>5 DEF a, l
<1>4. ASSUME NEW d \in Nat \ {0}, Len(a) = n + d
      PROVE  /\ l \in Seq(S) /\ Len(l) = n /\ l[n] = e /\ Len(s) + 1 = d + n
             /\ \A i \in 1..(n - 1) : i + d \in 1..c /\ l[i] = s[i + d]
  <2>0. l \in Seq(S) /\ IsEnd(a, n, d, l)
    BY <1>2, <1>4, LastOfLong DEF Longer
  <2> HIDE DEF l
  <2>1. Len(l) = n /\ \A i \in 1..n : l[i] = a[i + d]
    BY <2>0 DEF IsEnd
  <2>2. n + d = c + 1 /\ n \in 1..n
    BY <1>2, <1>4
  <2>3. \A i \in 1..(n - 1) : i \in 1..n /\ i + d \in 1..c
    BY <2>2
  <2> QED
    BY <1>1, <1>2, <2>0, <2>1, <2>2, <2>3
<1>5. ASSUME NEW d \in Nat \ {0}, Len(a) = n + d
      PROVE  l \in Seq(S) /\ EndWith(s, e, n, l)
  <2>1. n \in 1..n /\ d \in Nat
    OBVIOUS
  <2> QED
    BY <1>1, <1>4, <1>5, <2>1 DEF EndWith
<1>6. Len(a) <= n \/ \E d \in Nat \ {0} : Len(a) = n + d
  BY <1>2, ShortOrLong
<1> QED
  BY <1>3, <1>5, <1>6 DEF a

\* The window of a window is the window.
LEMMA LastOfTwice ==
  ASSUME NEW S, NEW s \in Seq(S), NEW n \in Nat \ {0}
  PROVE  LastOf(s, n) \in Seq(S) /\ LastOf(LastOf(s, n), n) = LastOf(s, n)
<1>1. CASE Len(s) <= n /\ LastOf(s, n) = s
  BY <1>1
<1>2. ASSUME NEW d \in Nat \ {0}, Len(s) = n + d
      PROVE  LastOf(s, n) \in Seq(S) /\ LastOf(LastOf(s, n), n) = LastOf(s, n)
  <2>1. LastOf(s, n) \in Seq(S) /\ Len(LastOf(s, n)) = n
    BY <1>2, LastOfLong DEF Longer, IsEnd
  <2>2. Len(LastOf(s, n)) <= n
    BY <2>1
  <2> QED
    BY <2>1, <2>2, ShortOrLong DEF LastOf
<1> QED
  BY <1>1, <1>2, ShortOrLong

-----------------------------------------------------------------------------
\* The steps, by what they change

\* The store executes call c.
Runs(c) ==
  /\ pc[c] \in {"sent", "late"}
  /\ Command(c)
  /\ executedAt' = [executedAt EXCEPT ![c] = clock]
  /\ \E s \in {"executed", "failed"} : pc' = [pc EXCEPT ![c] = s]
  /\ UNCHANGED <<clock, earlier>>

\* Call c goes on without the store.
Moves(c) ==
  /\ \/ pc[c] = "new" /\ pc' = [pc EXCEPT ![c] = "rejected"]
     \/ pc[c] = "sent" /\ \E s \in {"failed", "late"} : pc' = [pc EXCEPT ![c] = s]
     \/ pc[c] = "executed" /\ \E s \in {"done", "raised", "failed"} : pc' = [pc EXCEPT ![c] = s]
  /\ UNCHANGED <<clock, result, executedAt, earlier, store>>

\* Every step is a call's move, its sending, its execution, or the clock's.
LEMMA Steps ==
  ASSUME Next
  PROVE  \/ \E c \in Calls : Moves(c) \/ Send(c) \/ Runs(c)
         \/ Tick
<1>1. ASSUME NEW c \in Calls, CallStep(c)
      PROVE  Moves(c) \/ Send(c) \/ Runs(c)
  <2>1. CASE Reject(c)
    BY <2>1 DEF Reject, Moves
  <2>2. CASE Return(c)
    BY <2>2 DEF Return, Moves
  <2>3. CASE Fail(c)
    BY <2>3 DEF Fail, Moves, InFlightPC
  <2>4. CASE Execute(c) \/ ExecuteLate(c)
    BY <2>4 DEF Execute, ExecuteLate, Runs
  <2> QED
    BY <1>1, <2>1, <2>2, <2>3, <2>4 DEF CallStep
<1> QED
  BY <1>1 DEF Next

-----------------------------------------------------------------------------
\* Types

LEMMA MemoryTypeStep == TypeOK /\ [Next]_vars => TypeOK'
<1> SUFFICES ASSUME TypeOK, [Next]_vars
             PROVE  TypeOK'
  OBVIOUS
<1>1. ASSUME NEW c \in Calls, Moves(c)
      PROVE  TypeOK'
  BY <1>1 DEF TypeOK, Moves, store, States, InFlightPC
<1>2. ASSUME NEW c \in Calls, Send(c)
      PROVE  TypeOK'
  BY <1>2 DEF TypeOK, Send, store, States, InFlightPC, Returned
<1>3. ASSUME NEW c \in Calls, Runs(c)
      PROVE  TypeOK'
  <2>1. /\ pc' \in [Calls -> States] /\ executedAt' \in [Calls -> -1..MaxTime]
        /\ clock' \in 0..MaxTime /\ earlier' \in [Calls -> SUBSET Changes]
    BY <1>3 DEF TypeOK, Runs, States, InFlightPC
  <2>2. ASSUME c \in Messages, Stored(c)
        PROVE  TypeOK'
    <3>1. list' \in Seq(Messages)
      BY <2>2, MemoryAssumption, AppendedLast DEF Stored, AppendBounded, TypeOK
    <3>2. history' \in Seq(Messages)
      BY <2>2 DEF Stored, TypeOK
    <3>3. expires' \in 0..(MaxTime + Ttl) /\ result' = result
      BY <2>2, MemoryAssumption DEF Stored, AppendBounded, TypeOK
    <3> QED
      BY <2>1, <3>1, <3>2, <3>3 DEF TypeOK
  <2>3. ASSUME c \in Reads, Recalled(c)
        PROVE  TypeOK'
    <3>1. LastOf(list, MaxItems) \in Seq(Messages)
      BY MemoryAssumption, LastOfTwice DEF TypeOK
    <3> QED
      BY <2>1, <2>3, <3>1 DEF Recalled, TypeOK, store
  <2>4. ASSUME Deleted
        PROVE  TypeOK'
    BY <2>1, <2>4, MemoryAssumption DEF Deleted, TypeOK
  <2> QED
    BY <1>3, <2>2, <2>3, <2>4 DEF Runs, Command
<1>4. CASE Tick
  <2>1. /\ clock' \in 0..MaxTime /\ UNCHANGED <<pc, result, executedAt, earlier>>
        /\ <<>> \in Seq(Messages) /\ 0 \in 0..(MaxTime + Ttl)
    BY <1>4, MemoryAssumption, EmptySeq DEF TypeOK, Tick
  <2>2. /\ list' \in Seq(Messages) /\ history' \in Seq(Messages)
        /\ expires' \in 0..(MaxTime + Ttl)
    BY <1>4, <2>1 DEF TypeOK, Tick, store
  <2> QED
    BY <2>1, <2>2 DEF TypeOK
<1>5. CASE UNCHANGED vars
  BY <1>5 DEF TypeOK, vars
<1> QED
  BY <1>1, <1>2, <1>3, <1>4, <1>5, Steps

\* Every variable always has its type; no key ever lives longer than the time
\* to live of the last append the clock allows.
THEOREM MemoryTypes == Spec => []TypeOK
<1>1. Init => TypeOK
  BY MemoryAssumption DEF Init, TypeOK, States
<1> QED
  BY <1>1, MemoryTypeStep, PTL DEF Spec
-----------------------------------------------------------------------------
\* The inductive invariant

Elements(s) == {s[i] : i \in 1..Len(s)}

\* s holds each message once, only messages that have been executed, and in an
\* order that respects what had returned when they were sent.
Logged(s, before, executed) ==
  /\ \A i \in 1..Len(s) : executed[s[i]] >= 0
  /\ \A i, j \in 1..Len(s) : s[i] \in before[s[j]] => i < j
  /\ \A i, j \in 1..Len(s) : s[i] = s[j] => i = j

\* How far a call is agrees with what the history says of it.
CallsConsistent ==
  \A c \in Calls :
    /\ executedAt[c] <= clock
    /\ pc[c] \in {"new", "sent", "late", "rejected"} => executedAt[c] = -1
    /\ pc[c] \in {"executed", "done", "raised"} => executedAt[c] >= 0
    /\ pc[c] = "new" => earlier[c] = {}
    /\ \A d \in earlier[c] : pc[d] = "done"
    /\ c \in Reads => (result[c] = None <=> executedAt[c] = -1)

\* The session may have been cleared since m was sent.
Cleared(m) == \E c \in Clears : c \notin earlier[m] /\ executedAt[c] >= 0

StoreSound ==
  /\ list = LastOf(history, MaxItems)
  /\ Logged(list, earlier, executedAt)
  /\ list # <<>> => /\ expires = executedAt[list[Len(list)]] + Ttl
                     /\ clock < expires
  /\ \A c \in Clears : executedAt[c] >= 0 => Elements(list) \cap earlier[c] = {}

\* A message that has been executed is in the log until its time or a clear.
NothingLost ==
  \A m \in Messages : executedAt[m] >= 0 =>
    \/ m \in Elements(history) /\ expires >= executedAt[m] + Ttl
    \/ Cleared(m)
    \/ clock >= executedAt[m] + Ttl

\* What was true of the list when r was executed.
ReadSound(r) ==
  result[r] # None =>
    /\ Logged(result[r], earlier, executedAt)
    /\ \A c \in Clears \cap earlier[r] : Elements(result[r]) \cap earlier[c] = {}
    /\ \A m \in Messages \cap earlier[r] :
         \/ m \in Elements(result[r])
         \/ Len(result[r]) = MaxItems
         \/ Cleared(m)
         \/ executedAt[r] >= executedAt[m] + Ttl

MemoryInv == /\ TypeOK
             /\ CallsConsistent
             /\ StoreSound
             /\ NothingLost
             /\ \A r \in Reads : ReadSound(r)

-----------------------------------------------------------------------------
\* Logged lists

LEMMA LoggedKept ==
  ASSUME NEW S, NEW s \in Seq(S), NEW before, NEW executed, NEW before2, NEW executed2,
         Logged(s, before, executed),
         \A i \in 1..Len(s) : before2[s[i]] = before[s[i]] /\ executed2[s[i]] >= 0
  PROVE  Logged(s, before2, executed2)
BY DEF Logged

\* e is new to s, and both have been executed.
NewTo(e, s, before, executed) ==
  /\ executed[e] >= 0 /\ e \notin before[e]
  /\ \A i \in 1..Len(s) : /\ s[i] # e /\ e \notin before[s[i]]
                         /\ executed[s[i]] >= 0

LEMMA LoggedAppend ==
  ASSUME NEW S, NEW s \in Seq(S), NEW e \in S, NEW n \in Nat \ {0},
         NEW before, NEW executed, NEW executed2,
         Logged(s, before, executed), NewTo(e, s, before, executed2)
  PROVE  /\ LastOf(Append(s, e), n) # <<>>
         /\ LastOf(Append(s, e), n)[Len(LastOf(Append(s, e), n))] = e
         /\ Logged(LastOf(Append(s, e), n), before, executed2)
         /\ Elements(LastOf(Append(s, e), n)) \subseteq Elements(s) \cup {e}
<1> DEFINE l == LastOf(Append(s, e), n)
<1>1. l \in Seq(S) /\ EndWith(s, e, n, l)
  BY AppendedLast
<1> HIDE DEF l
<1>2. PICK d \in Nat, k \in 1..n :
        /\ Len(l) = k /\ l[k] = e
        /\ \A i \in 1..(k - 1) : i + d \in 1..Len(s) /\ l[i] = s[i + d]
  BY <1>1 DEF EndWith
<1>3. l # <<>> /\ l[Len(l)] = e
  <2>1. k # 0
    OBVIOUS
  <2> QED
    BY <1>1, <1>2, <2>1, EmptySeq
<1>4. \A i \in 1..k : i = k \/ i \in 1..(k - 1)
  OBVIOUS
<1>5. \A i \in 1..k : executed2[l[i]] >= 0
  BY <1>2, <1>4 DEF NewTo
<1>6. ASSUME NEW i \in 1..k, NEW j \in 1..k, l[i] \in before[l[j]]
      PROVE  i < j
  <2>1. i # k
    BY <1>2, <1>4, <1>6 DEF NewTo
  <2>2. CASE j = k
    BY <2>1, <2>2
  <2>3. CASE j # k
    <3>1. /\ i + d \in 1..Len(s) /\ l[i] = s[i + d]
          /\ j + d \in 1..Len(s) /\ l[j] = s[j + d]
      BY <1>2, <1>4, <2>1, <2>3
    <3>2. i + d < j + d
      BY <1>6, <3>1 DEF Logged
    <3> QED
      BY <3>2
  <2> QED
    BY <2>2, <2>3
<1>7. ASSUME NEW i \in 1..k, NEW j \in 1..k, l[i] = l[j]
      PROVE  i = j
  <2>1. i = k <=> j = k
    BY <1>2, <1>4, <1>7 DEF NewTo
  <2>2. CASE i # k
    <3>1. /\ i + d \in 1..Len(s) /\ l[i] = s[i + d]
          /\ j + d \in 1..Len(s) /\ l[j] = s[j + d]
      BY <1>2, <1>4, <2>1, <2>2
    <3>2. i + d = j + d
      BY <1>7, <3>1 DEF Logged
    <3> QED
      BY <3>2
  <2> QED
    BY <2>1, <2>2
<1>8. Elements(l) \subseteq Elements(s) \cup {e}
  BY <1>2, <1>4 DEF Elements
<1>9. Logged(l, before, executed2)
  BY <1>2, <1>5, <1>6, <1>7 DEF Logged
<1> QED
  BY <1>3, <1>8, <1>9 DEF l

LEMMA AppendElements ==
  ASSUME NEW S, NEW s \in Seq(S), NEW e \in S
  PROVE  Elements(Append(s, e)) = Elements(s) \cup {e}
<1>1. PICK k \in Nat : Len(s) = k
  BY LenProperties
<1>2. /\ Len(Append(s, e)) = k + 1 /\ Append(s, e)[k + 1] = e
      /\ \A i \in 1..k : Append(s, e)[i] = s[i]
  BY <1>1, AppendProperties
<1>3. k + 1 \in 1..(k + 1) /\ \A i \in 1..(k + 1) : i \in 1..k \/ i = k + 1
  OBVIOUS
<1>4. \A i \in 1..k : i \in 1..(k + 1)
  OBVIOUS
<1>5. Elements(Append(s, e)) \subseteq Elements(s) \cup {e}
  BY <1>1, <1>2, <1>3 DEF Elements
<1>6. Elements(s) \cup {e} \subseteq Elements(Append(s, e))
  BY <1>1, <1>2, <1>3, <1>4 DEF Elements
<1> QED
  BY <1>5, <1>6

\* What the window lacks of a sequence, it lacks because it is full.
LEMMA WindowFull ==
  ASSUME NEW S, NEW s \in Seq(S), NEW n \in Nat \ {0}
  PROVE  Elements(s) \subseteq Elements(LastOf(s, n)) \/ Len(LastOf(s, n)) = n
<1>1. ASSUME NEW d \in Nat \ {0}, Len(s) = n + d
      PROVE  Len(LastOf(s, n)) = n
  BY <1>1, LastOfLong DEF Longer, IsEnd
<1>2. CASE LastOf(s, n) = s
  BY <1>2
<1> QED
  BY <1>1, <1>2, ShortOrLong

\* A sequence without repetitions has as many elements as it is long.
LEMMA ElementsCounted ==
  ASSUME NEW S, NEW s \in Seq(S), \A i, j \in 1..Len(s) : s[i] = s[j] => i = j
  PROVE  IsFiniteSet(Elements(s)) /\ Cardinality(Elements(s)) = Len(s)
<1>1. Len(s) \in Nat /\ \A i \in 1..Len(s) : s[i] \in Elements(s)
  BY LenProperties DEF Elements
<1> DEFINE f == [i \in 1..Len(s) |-> s[i]]
<1>2. f \in [1..Len(s) -> Elements(s)]
  BY <1>1
<1>3. f \in Injection(1..Len(s), Elements(s))
  BY <1>2 DEF Injection, IsInjective
<1>4. f \in Surjection(1..Len(s), Elements(s))
  BY <1>2 DEF Surjection, Elements
<1>5. f \in Bijection(1..Len(s), Elements(s))
  BY <1>3, <1>4 DEF Bijection
<1>6. ExistsBijection(1..Len(s), Elements(s))
  BY <1>5 DEF ExistsBijection
<1>7. IsFiniteSet(1..Len(s)) /\ Cardinality(1..Len(s)) = Len(s)
  <2>1. 1 \in Int /\ Len(s) \in Int
    BY <1>1
  <2>2. /\ IsFiniteSet(1..Len(s))
        /\ Cardinality(1..Len(s)) = IF 1 > Len(s) THEN 0 ELSE Len(s) - 1 + 1
    BY <2>1, FS_Interval
  <2> QED
    BY <1>1, <2>2
<1> QED
  BY <1>6, <1>7, FS_Bijection

-----------------------------------------------------------------------------
\* The steps preserve the invariant

LEMMA DisjointCalls ==
  /\ \A m \in Messages : m \notin Reads /\ m \notin Clears
  /\ \A r \in Reads : r \notin Messages /\ r \notin Clears
BY MemoryAssumption

LEMMA CallsStep ==
  TypeOK /\ CallsConsistent /\ Next => CallsConsistent'
<1> SUFFICES ASSUME TypeOK, CallsConsistent, Next
             PROVE  CallsConsistent'
  OBVIOUS
<1>1. ASSUME NEW c \in Calls, Moves(c)
      PROVE  CallsConsistent'
  BY <1>1 DEF TypeOK, CallsConsistent, Moves, Calls, States, InFlightPC
<1>2. ASSUME NEW c \in Calls, Send(c)
      PROVE  CallsConsistent'
  <2>1. \A d \in Returned : pc[d] = "done" /\ d # c
    BY <1>2 DEF Send, Returned
  <2> QED
    BY <1>2, <2>1 DEF TypeOK, CallsConsistent, Send, Calls, States, InFlightPC
<1>3. ASSUME NEW c \in Calls, Runs(c)
      PROVE  CallsConsistent'
  <2>1. /\ clock' = clock /\ earlier' = earlier /\ clock \in Nat
        /\ pc[c] \in {"sent", "late"} /\ executedAt[c] = -1
        /\ executedAt'[c] = clock /\ pc'[c] \in {"executed", "failed"}
        /\ \A d \in Calls \ {c} : pc'[d] = pc[d] /\ executedAt'[d] = executedAt[d]
    BY <1>3 DEF TypeOK, CallsConsistent, Runs, States, InFlightPC
  <2>2. \A r \in Reads \ {c} : result'[r] = result[r]
    BY <1>3 DEF TypeOK, Runs, Command, Stored, Recalled, Deleted
  <2>3. c \in Reads => result'[c] # None
    BY <1>3, MemoryAssumption, DisjointCalls, LastOfTwice
       DEF TypeOK, Runs, Command, Recalled
  <2>4. Reads \subseteq Calls /\ \A d \in Calls : earlier[d] \subseteq Calls
    BY DEF TypeOK, Calls
  <2>5. ASSUME NEW d \in Calls, NEW e \in earlier[d]
        PROVE  pc'[e] = "done"
    BY <2>1, <2>4 DEF CallsConsistent
  <2>6. c \in Reads => (result'[c] = None <=> executedAt'[c] = -1)
    BY <2>1, <2>3
  <2>7. ASSUME NEW d \in Calls \ {c}
        PROVE  /\ executedAt'[d] <= clock'
               /\ pc'[d] \in {"new", "sent", "late", "rejected"} => executedAt'[d] = -1
               /\ pc'[d] \in {"executed", "done", "raised"} => executedAt'[d] >= 0
               /\ pc'[d] = "new" => earlier'[d] = {}
               /\ d \in Reads => (result'[d] = None <=> executedAt'[d] = -1)
    BY <2>1, <2>2 DEF CallsConsistent
  <2>8. /\ executedAt'[c] <= clock'
        /\ pc'[c] \in {"new", "sent", "late", "rejected"} => executedAt'[c] = -1
        /\ pc'[c] \in {"executed", "done", "raised"} => executedAt'[c] >= 0
        /\ pc'[c] = "new" => earlier'[c] = {}
    BY <2>1
  <2> QED
    BY <2>1, <2>5, <2>6, <2>7, <2>8 DEF CallsConsistent
<1>4. CASE Tick
  <2>1. UNCHANGED <<pc, result, executedAt, earlier>> /\ clock' = clock + 1 /\ clock \in Nat
    BY <1>4 DEF TypeOK, Tick
  <2>2. \A c \in Calls : executedAt[c] \in Int
    BY DEF TypeOK
  <2> QED
    BY <2>1, <2>2 DEF CallsConsistent
<1> QED
  BY <1>1, <1>2, <1>3, <1>4, Steps

\* A call that is sent disturbs nothing: it is neither shown nor returned yet.
LEMMA SendStep ==
  ASSUME MemoryInv, NEW c \in Calls, Send(c)
  PROVE  StoreSound' /\ NothingLost' /\ \A r \in Reads : ReadSound(r)'
<1>1. /\ UNCHANGED <<clock, list, expires, history, result, executedAt>>
      /\ pc[c] = "new" /\ executedAt[c] = -1
      /\ \A d \in Calls \ {c} : earlier'[d] = earlier[d]
  BY DEF MemoryInv, TypeOK, CallsConsistent, Send, store
<1>2. Messages \subseteq Calls /\ Reads \subseteq Calls /\ Clears \subseteq Calls
  BY DEF Calls, Changes
<1>3. \A d \in Calls : executedAt[d] >= 0 => d # c
  BY <1>1
<1>4. \A d \in Calls : \A e \in earlier[d] : e # c
  BY <1>1 DEF MemoryInv, CallsConsistent
<1>5. ASSUME NEW s \in Seq(Messages), Logged(s, earlier, executedAt)
      PROVE  Logged(s, earlier', executedAt')
  <2>1. ASSUME NEW i \in 1..Len(s)
        PROVE  earlier'[s[i]] = earlier[s[i]] /\ executedAt'[s[i]] >= 0
    <3>1. s[i] \in Messages
      BY ElementOfSeq
    <3>2. executedAt[s[i]] >= 0
      BY <1>5 DEF Logged
    <3> QED
      BY <1>1, <1>2, <1>3, <3>1, <3>2
  <2> QED
    BY <1>5, <2>1, LoggedKept
<1>6. StoreSound'
  <2>1. Logged(list', earlier', executedAt')
    BY <1>1, <1>5 DEF MemoryInv, TypeOK, StoreSound
  <2>2. \A d \in Clears : executedAt'[d] >= 0 => Elements(list') \cap earlier'[d] = {}
    BY <1>1, <1>2, <1>3 DEF MemoryInv, StoreSound
  <2> QED
    BY <1>1, <2>1, <2>2 DEF MemoryInv, StoreSound
<1>7. \A m \in Messages : m # c => (Cleared(m) <=> Cleared(m)')
  BY <1>1, <1>2 DEF Cleared
<1>8. NothingLost'
  BY <1>1, <1>2, <1>3, <1>7 DEF MemoryInv, NothingLost
<1>9. ASSUME NEW r \in Reads
      PROVE  ReadSound(r)'
  <2>1. SUFFICES ASSUME result'[r] # None
                 PROVE  ReadSound(r)'
    BY DEF ReadSound
  <2>2. r # c /\ result[r] # None /\ earlier'[r] = earlier[r]
    BY <1>1, <1>2, <2>1 DEF MemoryInv, CallsConsistent
  <2>3. result[r] \in Seq(Messages) /\ ReadSound(r)
    BY <2>2 DEF MemoryInv, TypeOK
  <2>4. Logged(result'[r], earlier', executedAt')
    BY <1>1, <1>5, <2>2, <2>3 DEF ReadSound
  <2>5. \A d \in Clears \cap earlier'[r] : Elements(result'[r]) \cap earlier'[d] = {}
    BY <1>1, <1>2, <1>4, <2>2, <2>3 DEF ReadSound
  <2>6. \A m \in Messages \cap earlier'[r] :
          \/ m \in Elements(result'[r])
          \/ Len(result'[r]) = MaxItems
          \/ Cleared(m)'
          \/ executedAt'[r] >= executedAt'[m] + Ttl
    BY <1>1, <1>2, <1>4, <1>7, <2>2, <2>3 DEF ReadSound
  <2> QED
    BY <2>4, <2>5, <2>6 DEF ReadSound
<1> QED
  BY <1>6, <1>8, <1>9

\* The session ends when its time is up, and with it what it still owes.
LEMMA TickStep ==
  ASSUME MemoryInv, Tick
  PROVE  StoreSound' /\ NothingLost' /\ \A r \in Reads : ReadSound(r)'
<1>1. /\ clock \in Nat /\ clock' = clock + 1 /\ expires \in Nat /\ Ttl \in Nat \ {0}
      /\ UNCHANGED <<pc, result, executedAt, earlier>>
  BY MemoryAssumption DEF MemoryInv, TypeOK, Tick
<1>2. \A m \in Messages : executedAt[m] \in Int
  BY DEF MemoryInv, TypeOK, Calls, Changes
<1>3. \A m \in Messages : Cleared(m) <=> Cleared(m)'
  BY <1>1 DEF Cleared
<1>4. \A r \in Reads : ReadSound(r)'
  BY <1>1, <1>3 DEF MemoryInv, ReadSound
<1>5. CASE clock + 1 < expires
  <2>1. UNCHANGED <<list, expires, history>>
    BY <1>5 DEF Tick, store
  <2>2. NothingLost'
    BY <1>1, <1>2, <1>3, <2>1 DEF MemoryInv, NothingLost
  <2>3. StoreSound'
    BY <1>1, <1>5, <2>1 DEF MemoryInv, StoreSound
  <2> QED
    BY <1>4, <2>2, <2>3
<1>6. CASE ~(clock + 1 < expires)
  <2>1. list' = <<>> /\ expires' = 0 /\ history' = <<>>
    BY <1>6 DEF Tick
  <2>2. NothingLost'
    BY <1>1, <1>2, <1>3, <1>6 DEF MemoryInv, NothingLost
  <2>3. StoreSound'
    BY <2>1, MemoryAssumption DEF StoreSound, Logged, Elements, LastOf
  <2> QED
    BY <1>4, <2>2, <2>3
<1> QED
  BY <1>5, <1>6

\* What every execution has in common.
LEMMA RunsFacts ==
  ASSUME MemoryInv, NEW c \in Calls, Runs(c)
  PROVE  /\ UNCHANGED <<clock, earlier>> /\ clock \in Nat
         /\ pc[c] \in {"sent", "late"} /\ executedAt[c] = -1 /\ executedAt'[c] = clock
         /\ \A d \in Calls : d # c => executedAt'[d] = executedAt[d]
         /\ \A d \in Calls : executedAt[d] >= 0 => executedAt'[d] = executedAt[d]
         /\ \A d \in Calls : executedAt[d] \in Int /\ executedAt[d] <= clock
         /\ \A d \in Calls : earlier[d] \subseteq Calls \ {c}
         /\ \A d \in Calls : \A e \in earlier[d] : executedAt[e] >= 0
         /\ \A m \in Messages : Cleared(m) => Cleared(m)'
         /\ Messages \subseteq Calls /\ Reads \subseteq Calls /\ Clears \subseteq Calls
<1>1. /\ UNCHANGED <<clock, earlier>> /\ clock \in Nat
      /\ pc[c] \in {"sent", "late"} /\ executedAt[c] = -1 /\ executedAt'[c] = clock
      /\ \A d \in Calls : d # c => executedAt'[d] = executedAt[d]
  BY DEF MemoryInv, TypeOK, CallsConsistent, Runs
<1>2. \A d \in Calls : executedAt[d] >= 0 => executedAt'[d] = executedAt[d]
  BY <1>1
<1>3. \A d \in Calls : executedAt[d] \in Int /\ executedAt[d] <= clock
  BY DEF MemoryInv, TypeOK, CallsConsistent
<1>4. \A d \in Calls : earlier[d] \subseteq Calls
  BY DEF MemoryInv, TypeOK, Calls
<1>5. \A d \in Calls : earlier[d] \subseteq Calls \ {c}
  BY <1>1, <1>4 DEF MemoryInv, CallsConsistent
<1>6. \A d \in Calls : \A e \in earlier[d] : executedAt[e] >= 0
  BY <1>4 DEF MemoryInv, CallsConsistent
<1>7. Messages \subseteq Calls /\ Reads \subseteq Calls /\ Clears \subseteq Calls
  BY DEF Calls, Changes
<1>8. \A m \in Messages : Cleared(m) => Cleared(m)'
  BY <1>1, <1>2, <1>7 DEF Cleared
<1> QED
  BY <1>1, <1>2, <1>3, <1>5, <1>6, <1>7, <1>8

\* An execution that leaves result[r] as it is leaves what holds of it.
LEMMA ReadKept ==
  ASSUME MemoryInv, NEW c \in Calls, Runs(c), NEW r \in Reads, result'[r] = result[r]
  PROVE  ReadSound(r)'
<1> SUFFICES ASSUME result'[r] # None
             PROVE  ReadSound(r)'
  BY DEF ReadSound
<1>1. /\ result[r] \in Seq(Messages) /\ ReadSound(r) /\ result[r] # None
      /\ r # c /\ executedAt'[r] = executedAt[r]
  <2>1. result[r] # None /\ executedAt[r] # -1
    BY RunsFacts DEF MemoryInv, CallsConsistent
  <2> QED
    BY <2>1, RunsFacts DEF MemoryInv, TypeOK
<1>2. /\ Logged(result[r], earlier, executedAt)
      /\ \A d \in Clears \cap earlier[r] : Elements(result[r]) \cap earlier[d] = {}
      /\ \A m \in Messages \cap earlier[r] :
           \/ m \in Elements(result[r])
           \/ Len(result[r]) = MaxItems
           \/ Cleared(m)
           \/ executedAt[r] >= executedAt[m] + Ttl
  BY <1>1 DEF ReadSound
<1>3. Logged(result'[r], earlier', executedAt')
  <2>1. ASSUME NEW i \in 1..Len(result[r])
        PROVE  earlier'[result[r][i]] = earlier[result[r][i]] /\ executedAt'[result[r][i]] >= 0
    <3>1. result[r][i] \in Calls
      BY <1>1, RunsFacts, ElementOfSeq
    <3>2. executedAt[result[r][i]] >= 0
      BY <1>2 DEF Logged
    <3> QED
      BY <3>1, <3>2, RunsFacts
  <2> QED
    BY <1>1, <1>2, <2>1, LoggedKept
<1>4. \A m \in Messages \cap earlier'[r] :
           \/ m \in Elements(result'[r])
           \/ Len(result'[r]) = MaxItems
           \/ Cleared(m)'
           \/ executedAt'[r] >= executedAt'[m] + Ttl
  <2> SUFFICES ASSUME NEW m \in Messages \cap earlier'[r]
               PROVE  \/ m \in Elements(result'[r])
                      \/ Len(result'[r]) = MaxItems
                      \/ Cleared(m)'
                      \/ executedAt'[r] >= executedAt'[m] + Ttl
    OBVIOUS
  <2>1. m \in earlier[r] /\ executedAt'[m] = executedAt[m] /\ (Cleared(m) => Cleared(m)')
    BY RunsFacts
  <2> QED
    BY <1>1, <1>2, <2>1
<1> QED
  BY <1>2, <1>3, <1>4, RunsFacts DEF ReadSound

\* An append.
LEMMA StoredStep ==
  ASSUME MemoryInv, NEW c \in Messages, Runs(c), Stored(c)
  PROVE  StoreSound' /\ NothingLost' /\ \A r \in Reads : ReadSound(r)'
<1>1. /\ list' = LastOf(Append(list, c), MaxItems) /\ expires' = clock + Ttl
      /\ history' = Append(history, c) /\ result' = result
  BY DEF Stored, AppendBounded
<1>2. /\ list \in Seq(Messages) /\ history \in Seq(Messages) /\ MaxItems \in Nat \ {0}
      /\ Ttl \in Nat \ {0} /\ expires \in Int /\ c \in Calls
  BY MemoryAssumption DEF MemoryInv, TypeOK, Calls, Changes
<1>3. /\ Logged(list, earlier, executedAt) /\ list = LastOf(history, MaxItems)
      /\ \A d \in Clears : executedAt[d] >= 0 => Elements(list) \cap earlier[d] = {}
  BY DEF MemoryInv, StoreSound
<1>4. list' = LastOf(history', MaxItems)
  BY <1>1, <1>2, <1>3, TrimmedAppend
<1>5. ASSUME NEW i \in 1..Len(list)
      PROVE  list[i] # c /\ c \notin earlier[list[i]] /\ executedAt'[list[i]] >= 0
  <2>1. list[i] \in Calls
    BY <1>2, RunsFacts, ElementOfSeq
  <2>2. executedAt[list[i]] >= 0
    BY <1>3 DEF Logged
  <2> QED
    BY <1>2, <2>1, <2>2, RunsFacts
<1>6. executedAt'[c] = clock /\ executedAt'[c] >= 0 /\ c \notin earlier[c]
  BY <1>2, RunsFacts
<1>7. /\ list' # <<>> /\ list'[Len(list')] = c
      /\ Logged(list', earlier, executedAt')
      /\ Elements(list') \subseteq Elements(list) \cup {c}
  <2>1. NewTo(c, list, earlier, executedAt')
    BY <1>5, <1>6 DEF NewTo
  <2>2. /\ list \in Seq(Messages) /\ MaxItems \in Nat \ {0}
        /\ Logged(list, earlier, executedAt)
    BY <1>2, <1>3
  <2>3. c \in Messages
    OBVIOUS
  <2>4. /\ LastOf(Append(list, c), MaxItems) # <<>>
        /\ LastOf(Append(list, c), MaxItems)[Len(LastOf(Append(list, c), MaxItems))] = c
        /\ Logged(LastOf(Append(list, c), MaxItems), earlier, executedAt')
        /\ Elements(LastOf(Append(list, c), MaxItems)) \subseteq Elements(list) \cup {c}
    BY ONLY <2>1, <2>2, <2>3, LoggedAppend, Zenon
  <2> QED
    BY <1>1, <2>4
<1>8. \A d \in Clears : executedAt'[d] >= 0 => Elements(list') \cap earlier'[d] = {}
  <2> SUFFICES ASSUME NEW d \in Clears, executedAt'[d] >= 0
               PROVE  Elements(list') \cap earlier'[d] = {}
    OBVIOUS
  <2>1. d \in Calls /\ d # c /\ executedAt[d] >= 0
    BY <1>2, RunsFacts, DisjointCalls
  <2>2. c \notin earlier[d] /\ earlier'[d] = earlier[d]
    BY <1>2, <2>1, RunsFacts
  <2> QED
    BY <1>3, <1>7, <2>1, <2>2
<1>9. StoreSound'
  <2>1. clock' = clock /\ earlier' = earlier /\ clock \in Nat
    BY <1>2, RunsFacts
  <2>2. expires' = executedAt'[list'[Len(list')]] + Ttl /\ clock' < expires'
    BY <1>1, <1>2, <1>6, <1>7, <2>1
  <2> QED
    BY <1>4, <1>7, <1>8, <2>1, <2>2 DEF StoreSound
<1>10. NothingLost'
  <2> SUFFICES ASSUME NEW m \in Messages, executedAt'[m] >= 0
               PROVE  \/ m \in Elements(history') /\ expires' >= executedAt'[m] + Ttl
                      \/ Cleared(m)'
                      \/ clock' >= executedAt'[m] + Ttl
    BY DEF NothingLost
  <2>1. Elements(history') = Elements(history) \cup {c}
    BY <1>1, <1>2, AppendElements
  <2>2. CASE m = c
    BY <1>1, <1>2, <1>6, <2>1, <2>2, RunsFacts
  <2>3. CASE m # c
    <3>1. /\ executedAt'[m] = executedAt[m] /\ executedAt[m] >= 0 /\ executedAt[m] \in Int
          /\ executedAt[m] <= clock /\ clock' = clock /\ clock \in Nat
          /\ (Cleared(m) => Cleared(m)')
      BY <1>2, <2>3, RunsFacts
    <3>2. \/ m \in Elements(history)
          \/ Cleared(m)
          \/ clock >= executedAt[m] + Ttl
      BY <3>1 DEF MemoryInv, NothingLost
    <3>3. expires' >= executedAt'[m] + Ttl
      BY <1>1, <1>2, <3>1
    <3> QED
      BY <2>1, <3>1, <3>2, <3>3
  <2> QED
    BY <2>2, <2>3
<1> QED
  BY <1>1, <1>2, <1>9, <1>10, ReadKept

\* A read.
LEMMA RecalledStep ==
  ASSUME MemoryInv, NEW c \in Reads, Runs(c), Recalled(c)
  PROVE  StoreSound' /\ NothingLost' /\ \A r \in Reads : ReadSound(r)'
<1>1. /\ UNCHANGED <<list, expires, history>> /\ c \in Calls
      /\ result'[c] = LastOf(list, MaxItems)
      /\ \A r \in Reads : r # c => result'[r] = result[r]
  BY DEF Recalled, store, MemoryInv, TypeOK, Calls
<1>2. /\ list \in Seq(Messages) /\ history \in Seq(Messages) /\ MaxItems \in Nat \ {0}
  BY MemoryAssumption DEF MemoryInv, TypeOK
<1>3. /\ Logged(list, earlier, executedAt) /\ list = LastOf(history, MaxItems)
      /\ \A d \in Clears : executedAt[d] >= 0 => Elements(list) \cap earlier[d] = {}
  BY DEF MemoryInv, StoreSound
<1>4. \A d \in Messages \cup Clears : d # c /\ d \in Calls /\ executedAt'[d] = executedAt[d]
  BY <1>1, RunsFacts, DisjointCalls
<1>5. \A i \in 1..Len(list) : list[i] \in Messages
  BY <1>2, ElementOfSeq
<1>6. Logged(list, earlier', executedAt')
  <2>1. \A i \in 1..Len(list) : earlier'[list[i]] = earlier[list[i]] /\ executedAt'[list[i]] >= 0
    BY <1>1, <1>3, <1>4, <1>5, RunsFacts DEF Logged
  <2> QED
    BY <1>2, <1>3, <2>1, LoggedKept
<1>7. StoreSound'
  <2>1. \A d \in Clears : executedAt'[d] >= 0 => Elements(list') \cap earlier'[d] = {}
    BY <1>1, <1>3, <1>4, RunsFacts
  <2>2. list # <<>> => list[Len(list)] \in Messages
    <3>1. Len(list) \in Nat /\ (list # <<>> => Len(list) # 0)
      BY <1>2, LenProperties, EmptySeq
    <3>2. list # <<>> => Len(list) \in 1..Len(list)
      BY <3>1
    <3> QED
      BY <1>5, <3>2
  <2>3. list' # <<>> => /\ expires' = executedAt'[list'[Len(list')]] + Ttl
                        /\ clock' < expires'
    BY <1>1, <1>4, <2>2, RunsFacts DEF MemoryInv, StoreSound
  <2> QED
    BY <1>1, <1>3, <1>6, <2>1, <2>3 DEF StoreSound
<1>8. NothingLost'
  BY <1>1, <1>4, RunsFacts DEF MemoryInv, NothingLost
<1>9. result'[c] = list
  BY <1>1, <1>2, <1>3, LastOfTwice
<1>10. ReadSound(c)'
  <2>1. \A d \in Clears \cap earlier'[c] : Elements(result'[c]) \cap earlier'[d] = {}
    BY <1>1, <1>3, <1>9, RunsFacts
  <2>2. ASSUME NEW m \in Messages \cap earlier'[c]
        PROVE  \/ m \in Elements(result'[c])
               \/ Len(result'[c]) = MaxItems
               \/ Cleared(m)'
               \/ executedAt'[c] >= executedAt'[m] + Ttl
    <3>1. /\ m \in Messages /\ executedAt[m] >= 0 /\ executedAt'[m] = executedAt[m]
          /\ executedAt'[c] = clock /\ (Cleared(m) => Cleared(m)')
      BY <1>1, <1>4, RunsFacts
    <3>2. \/ m \in Elements(history)
          \/ Cleared(m)
          \/ clock >= executedAt[m] + Ttl
      BY <3>1 DEF MemoryInv, NothingLost
    <3>3. Elements(history) \subseteq Elements(list) \/ Len(list) = MaxItems
      BY <1>2, <1>3, WindowFull
    <3> QED
      BY <1>9, <3>1, <3>2, <3>3
  <2> QED
    BY <1>6, <1>9, <2>1, <2>2 DEF ReadSound
<1> QED
  BY <1>1, <1>7, <1>8, <1>10, ReadKept

\* A clear.
LEMMA DeletedStep ==
  ASSUME MemoryInv, NEW c \in Clears, Runs(c), Deleted
  PROVE  StoreSound' /\ NothingLost' /\ \A r \in Reads : ReadSound(r)'
<1>1. list' = <<>> /\ history' = <<>> /\ result' = result /\ c \in Calls
  BY DEF Deleted, Calls, Changes
<1>2. StoreSound'
  BY <1>1, MemoryAssumption DEF StoreSound, Logged, Elements, LastOf
<1>3. \A m \in Messages : Cleared(m)'
  BY <1>1, RunsFacts DEF Cleared
<1>4. NothingLost'
  BY <1>3 DEF NothingLost
<1> QED
  BY <1>1, <1>2, <1>4, ReadKept

\* The invariant holds always.
THEOREM MemoryInvariant == Spec => []MemoryInv
<1>1. Init => MemoryInv
  <2> SUFFICES ASSUME Init
               PROVE  MemoryInv
    OBVIOUS
  <2>1. TypeOK
    BY MemoryAssumption DEF Init, TypeOK, States
  <2>2. CallsConsistent
    BY DEF Init, CallsConsistent, Calls
  <2>3. StoreSound
    BY MemoryAssumption DEF Init, StoreSound, Logged, Elements, LastOf, Calls, Changes
  <2>4. NothingLost
    BY DEF Init, NothingLost, Calls, Changes
  <2>5. \A r \in Reads : ReadSound(r)
    BY DEF Init, ReadSound
  <2> QED
    BY <2>1, <2>2, <2>3, <2>4, <2>5 DEF MemoryInv
<1>2. MemoryInv /\ [Next]_vars => MemoryInv'
  <2> SUFFICES ASSUME MemoryInv, [Next]_vars
               PROVE  MemoryInv'
    OBVIOUS
  <2>1. TypeOK'
    BY MemoryTypeStep DEF MemoryInv
  <2>2. ASSUME NEW c \in Calls, Moves(c)
        PROVE  StoreSound' /\ NothingLost' /\ \A r \in Reads : ReadSound(r)'
    <3>1. UNCHANGED <<clock, list, expires, history, result, executedAt, earlier>>
      BY <2>2 DEF Moves, store
    <3> QED
      BY <3>1 DEF MemoryInv, StoreSound, NothingLost, ReadSound, Cleared
  <2>3. ASSUME NEW c \in Calls, Runs(c)
        PROVE  StoreSound' /\ NothingLost' /\ \A r \in Reads : ReadSound(r)'
    BY <2>3, StoredStep, RecalledStep, DeletedStep DEF Runs, Command
  <2>4. CASE Next
    BY <2>1, <2>2, <2>3, <2>4, Steps, CallsStep, SendStep, TickStep DEF MemoryInv
  <2>5. CASE UNCHANGED vars
    BY <2>5 DEF vars, MemoryInv, TypeOK, CallsConsistent, StoreSound, NothingLost, ReadSound, Cleared
  <2> QED
    BY <2>4, <2>5
<1> QED
  BY <1>1, <1>2, PTL DEF Spec

-----------------------------------------------------------------------------
\* What follows

\* The list is always the newest messages of the log, and never outlives the
\* last of them by the time to live.
THEOREM WindowKept == Spec => []StoreKeepsWindow
<1>1. MemoryInv => StoreKeepsWindow
  BY DEF MemoryInv, StoreSound, StoreKeepsWindow
<1> QED
  BY <1>1, MemoryInvariant, PTL

\* A call that has returned has been executed, a read with a result.
LEMMA DoneReads ==
  ASSUME MemoryInv, NEW r \in Reads
  PROVE  /\ result[r] # None => result[r] \in Seq(Messages)
         /\ pc[r] = "done" => result[r] # None
BY DEF MemoryInv, TypeOK, CallsConsistent, Calls

\* The list holds with a message all that were appended since.
ListGapless ==
  \A b \in Elements(list), m \in Messages :
    executedAt[m] >= 0 /\ b \in earlier[m] => m \in Elements(list)

\* So does what a read was given.
ReadGapless(r) ==
  result[r] # None =>
    /\ Len(result[r]) <= MaxItems
    /\ \A b \in Elements(result[r]), m \in Messages \cap earlier[r] :
         b \in earlier[m] => m \in Elements(result[r])

NoGaps == ListGapless /\ \A r \in Reads : ReadGapless(r)

\* The list's end has no gap when it is trimmed: what was appended after a
\* message that stays comes after it, and stays as well.
LEMMA StoredNoGap ==
  ASSUME MemoryInv, NoGaps, NEW c \in Messages, Runs(c), Stored(c),
         NEW b \in Elements(list'), NEW m \in Messages, executedAt'[m] >= 0, b \in earlier[m]
  PROVE  m \in Elements(list')
<1>1. /\ list \in Seq(Messages) /\ MaxItems \in Nat \ {0} /\ c \in Calls /\ m \in Calls
      /\ list' = LastOf(Append(list, c), MaxItems)
  BY MemoryAssumption DEF MemoryInv, TypeOK, Stored, AppendBounded, Calls, Changes
<1>2. EndWith(list, c, MaxItems, list')
  BY <1>1, AppendedLast
<1>3. PICK d \in Nat, k \in 1..MaxItems :
        /\ Len(list') = k /\ list'[k] = c /\ Len(list) + 1 = d + k
        /\ \A i \in 1..(k - 1) : i + d \in 1..Len(list) /\ list'[i] = list[i + d]
  BY <1>2 DEF EndWith
<1>4. CASE m = c
  <2>1. k \in 1..Len(list')
    BY <1>3
  <2> QED
    BY <1>3, <1>4, <2>1 DEF Elements
<1>5. CASE m # c
  <2>1. b # c
    BY <1>1, RunsFacts
  <2>2. PICK i \in 1..(k - 1) : b = list'[i]
    <3>1. PICK i \in 1..k : b = list'[i]
      BY <1>3 DEF Elements
    <3>2. i \in 1..(k - 1)
      BY <1>3, <2>1, <3>1
    <3> QED
      BY <3>1, <3>2
  <2>3. i + d \in 1..Len(list) /\ b = list[i + d] /\ b \in Elements(list)
    BY <1>3, <2>2 DEF Elements
  <2>4. executedAt[m] >= 0
    BY <1>1, <1>5, RunsFacts
  <2>5. PICK j \in 1..Len(list) : m = list[j]
    BY <2>3, <2>4 DEF NoGaps, ListGapless, Elements
  <2>6. i + d < j
    BY <2>3, <2>5 DEF MemoryInv, StoreSound, Logged
  <2>7. Len(list) \in Nat
    BY <1>1, LenProperties
  <2>8. j - d \in 1..(k - 1) /\ (j - d) + d = j /\ j - d \in 1..k
    BY <1>3, <2>2, <2>5, <2>6, <2>7
  <2>9. list'[j - d] = m
    BY <1>3, <2>5, <2>8
  <2> QED
    BY <1>3, <2>8, <2>9 DEF Elements
<1> QED
  BY <1>4, <1>5

LEMMA NoGapsStep == MemoryInv /\ NoGaps /\ [Next]_vars => NoGaps'
<1> SUFFICES ASSUME MemoryInv, NoGaps, [Next]_vars
             PROVE  NoGaps'
  OBVIOUS
<1>0. Messages \subseteq Calls /\ Reads \subseteq Calls
  BY DEF Calls, Changes
<1>1. ASSUME list' = <<>> \/ list' = list, UNCHANGED <<result, earlier>>,
             \A m \in Messages : executedAt'[m] = executedAt[m]
      PROVE  NoGaps'
  <2>1. \A r \in Reads : ReadGapless(r)'
    BY <1>1 DEF NoGaps, ReadGapless
  <2>2. CASE list' = list
    BY <1>1, <2>1, <2>2 DEF NoGaps, ListGapless
  <2>3. CASE list' = <<>>
    <3>1. Elements(list') = {}
      BY <2>3 DEF Elements
    <3> QED
      BY <2>1, <3>1 DEF NoGaps, ListGapless
  <2> QED
    BY <1>1, <2>2, <2>3
<1>2. ASSUME NEW c \in Calls, Moves(c)
      PROVE  NoGaps'
  BY <1>1, <1>2 DEF Moves, store
<1>3. ASSUME NEW c \in Calls, Send(c)
      PROVE  NoGaps'
  <2>1. /\ UNCHANGED <<list, result, executedAt>>
        /\ pc[c] = "new" /\ executedAt[c] = -1
        /\ \A d \in Calls \ {c} : earlier'[d] = earlier[d]
    BY <1>3 DEF MemoryInv, TypeOK, CallsConsistent, Send, store
  <2>2. \A m \in Messages : executedAt[m] >= 0 => earlier'[m] = earlier[m]
    BY <1>0, <2>1
  <2>3. ListGapless'
    BY <2>1, <2>2 DEF NoGaps, ListGapless
  <2>4. ASSUME NEW r \in Reads, result'[r] # None
        PROVE  ReadGapless(r)'
    <3>1. result[r] # None /\ result'[r] = result[r] /\ r \in Calls /\ r # c
      BY <1>0, <2>1, <2>4 DEF MemoryInv, CallsConsistent
    <3>2. earlier'[r] = earlier[r] /\ \A m \in earlier[r] : m # c
      BY <2>1, <3>1 DEF MemoryInv, CallsConsistent
    <3>3. \A m \in Messages \cap earlier[r] : earlier'[m] = earlier[m]
      BY <1>0, <2>1, <3>2
    <3> QED
      BY <3>1, <3>2, <3>3 DEF NoGaps, ReadGapless
  <2> QED
    BY <2>3, <2>4 DEF NoGaps, ReadGapless
<1>4. ASSUME NEW c \in Messages, Runs(c), Stored(c)
      PROVE  NoGaps'
  <2>1. result' = result /\ earlier' = earlier
    BY <1>0, <1>4, RunsFacts DEF Stored
  <2>2. ListGapless'
    BY <1>4, <2>1, StoredNoGap DEF ListGapless
  <2>3. \A r \in Reads : ReadGapless(r)'
    BY <2>1 DEF NoGaps, ReadGapless
  <2> QED
    BY <2>2, <2>3 DEF NoGaps
<1>5. ASSUME NEW c \in Reads, Runs(c), Recalled(c)
      PROVE  NoGaps'
  <2>1. /\ list' = list /\ earlier' = earlier /\ result'[c] = LastOf(list, MaxItems)
        /\ \A r \in Reads \ {c} : result'[r] = result[r]
        /\ \A m \in Messages : executedAt'[m] = executedAt[m]
        /\ \A m \in Messages \cap earlier[c] : executedAt[m] >= 0
    BY <1>0, <1>5, RunsFacts, DisjointCalls DEF Recalled, store, MemoryInv, TypeOK
  <2>2. result'[c] = list /\ Len(list) <= MaxItems
    <3>1. list = LastOf(history, MaxItems) /\ history \in Seq(Messages)
      BY DEF MemoryInv, TypeOK, StoreSound
    <3>2. list = LastOf(list, MaxItems)
      BY <3>1, MemoryAssumption, LastOfTwice
    <3>3. Len(list) <= MaxItems
      BY <3>1, MemoryAssumption, ShortOrLong, LastOfLong DEF Longer, IsEnd
    <3> QED
      BY <2>1, <3>2, <3>3
  <2>3. ReadGapless(c)'
    BY <2>1, <2>2 DEF NoGaps, ListGapless, ReadGapless
  <2>4. \A r \in Reads \ {c} : ReadGapless(r)'
    BY <2>1 DEF NoGaps, ReadGapless
  <2>5. ListGapless'
    BY <2>1 DEF NoGaps, ListGapless
  <2> QED
    BY <2>3, <2>4, <2>5 DEF NoGaps
<1>6. ASSUME NEW c \in Clears, Runs(c), Deleted
      PROVE  NoGaps'
  <2>1. c \in Calls
    BY DEF Calls, Changes
  <2>2. /\ list' = <<>> /\ UNCHANGED <<result, earlier>>
        /\ \A m \in Messages : executedAt'[m] = executedAt[m]
    BY <1>0, <1>6, <2>1, RunsFacts, DisjointCalls DEF Deleted
  <2> QED
    BY <1>1, <2>2
<1>7. CASE Tick
  BY <1>1, <1>7 DEF Tick, store
<1>8. CASE UNCHANGED vars
  BY <1>1, <1>8 DEF vars
<1> QED
  BY <1>2, <1>3, <1>4, <1>5, <1>6, <1>7, <1>8, Steps DEF Runs, Command

\* Every read shows messages in an order that respects the appends' returns,
\* with all that were appended since, and none that MaxItems others displace.
THEOREM ReadsInOrder == Spec => []AppendedInOrder
<1>1. Init => NoGaps
  BY DEF Init, NoGaps, ListGapless, ReadGapless, Elements
<1>2. ASSUME MemoryInv, NoGaps
      PROVE  AppendedInOrder
  <2> SUFFICES ASSUME NEW r \in Reads, result[r] # None, NEW i \in 1..Len(result[r])
               PROVE  /\ \A j \in 1..Len(result[r]) :
                           result[r][i] \in earlier[result[r][j]] => i < j
                      /\ Since(result[r][i], r) \subseteq Shown(r)
                      /\ Cardinality(Since(result[r][i], r)) < MaxItems
    BY DEF AppendedInOrder
  <2> DEFINE b == result[r][i]
             E == Elements(result[r])
  <2>1. /\ Logged(result[r], earlier, executedAt) /\ result[r] \in Seq(Messages)
        /\ Len(result[r]) <= MaxItems /\ b \in E /\ Shown(r) = E
    BY <1>2, DoneReads DEF MemoryInv, ReadSound, NoGaps, ReadGapless, Shown, Elements
  <2>2. Since(b, r) \subseteq E
    BY <1>2, <2>1 DEF NoGaps, ReadGapless, Since
  <2>3. b \notin Since(b, r)
    BY <2>1 DEF Logged, Since
  <2>4. IsFiniteSet(E) /\ Cardinality(E) = Len(result[r]) /\ Len(result[r]) \in Nat
    BY <2>1, ElementsCounted, LenProperties DEF Logged
  <2>5. Cardinality(Since(b, r)) < MaxItems
    <3>1. /\ IsFiniteSet(E \ {b}) /\ Cardinality(E \ {b}) = Cardinality(E) - 1
      BY <2>1, <2>4, FS_RemoveElement
    <3>2. /\ Since(b, r) \in SUBSET (E \ {b})
      BY <2>2, <2>3
    <3>3. /\ Cardinality(Since(b, r)) <= Cardinality(E \ {b})
          /\ Cardinality(Since(b, r)) \in Nat
      BY <3>1, <3>2, FS_Subset, FS_CardinalityType
    <3> QED
      BY <2>1, <2>4, <3>1, <3>3, MemoryAssumption
  <2> QED
    BY <2>1, <2>2, <2>5 DEF Logged
<1> QED
  BY <1>1, <1>2, NoGapsStep, MemoryInvariant, PTL DEF Spec

\* What a clear was to forget is never shown by a read that starts after it.
THEOREM ClearsForget == Spec => []ClearForgets
<1>1. MemoryInv => ClearForgets
  <2> SUFFICES ASSUME MemoryInv, NEW r \in Reads, NEW c \in Clears,
                      pc[r] = "done", c \in earlier[r]
               PROVE  Shown(r) \cap earlier[c] = {}
    BY DEF ClearForgets
  <2>1. ReadSound(r) /\ result[r] # None
    BY DoneReads DEF MemoryInv
  <2> QED
    BY <2>1 DEF ReadSound, Shown, Elements
<1> QED
  BY <1>1, MemoryInvariant, PTL

\* A read shows every message whose append had returned when it started, unless
\* it is full, or a clear or the time to live explains what is missing.
THEOREM ReadsSeeAppends == Spec => []ReadSeesAppended
<1>1. MemoryInv => ReadSeesAppended
  <2> SUFFICES ASSUME MemoryInv, NEW r \in Reads, pc[r] = "done",
                      NEW m \in Messages \cap earlier[r]
               PROVE  \/ m \in Shown(r)
                      \/ Cardinality(Shown(r)) = MaxItems
                      \/ \E c \in Clears : c \notin earlier[m] /\ executedAt[c] >= 0
                      \/ executedAt[r] >= executedAt[m] + Ttl
    BY DEF ReadSeesAppended
  <2>1. ReadSound(r) /\ result[r] # None /\ result[r] \in Seq(Messages)
    BY DoneReads DEF MemoryInv
  <2>2. \A i, j \in 1..Len(result[r]) : result[r][i] = result[r][j] => i = j
    BY <2>1 DEF ReadSound, Logged
  <2>3. Shown(r) = Elements(result[r])
    BY DEF Shown, Elements
  <2>4. Cardinality(Shown(r)) = Len(result[r])
    BY <2>1, <2>2, <2>3, ElementsCounted
  <2> QED
    BY <2>1, <2>3, <2>4 DEF ReadSound, Cleared
<1> QED
  BY <1>1, MemoryInvariant, PTL

\* The trimmed and expiring list in the store implements the log of SessionLog.
THEOREM MemoryImplementsLog == Spec => ImplementsSessionLog
<1> DEFINE added == {m \in Messages : executedAt[m] >= 0}
           LogStep == [Log!SessionLogNext]_<<history, added, result>>
<1>1. Init => Log!SessionLogInit
  BY DEF Init, Log!SessionLogInit, Calls, Changes
<1>2. ASSUME MemoryInv, [Next]_vars
      PROVE  LogStep
  <2>1. ASSUME UNCHANGED <<history, executedAt, result>>
        PROVE  LogStep
    BY <2>1
  <2>2. ASSUME NEW c \in Calls, Moves(c) \/ Send(c)
        PROVE  LogStep
    BY <2>1, <2>2 DEF Moves, Send, store
  <2>3. ASSUME NEW c \in Messages, Runs(c), Stored(c)
        PROVE  LogStep
    <3>1. /\ c \in Calls /\ executedAt[c] = -1 /\ executedAt'[c] >= 0
          /\ \A m \in Messages : m # c => executedAt'[m] = executedAt[m]
      <4>1. c \in Calls
        BY DEF Calls, Changes
      <4> QED
        BY <1>2, <2>3, <4>1, RunsFacts
    <3>2. c \notin added /\ added' = added \cup {c}
      BY <3>1
    <3>3. Log!Add(c)
      BY <2>3, <3>2 DEF Stored, Log!Add
    <3> QED
      BY <3>3 DEF Log!SessionLogNext
  <2>4. ASSUME NEW c \in Reads, Runs(c), Recalled(c)
        PROVE  LogStep
    <3>1. c \in Calls
      BY DEF Calls
    <3>2. result[c] = None /\ \A m \in Messages : executedAt'[m] = executedAt[m]
      BY <1>2, <2>4, <3>1, RunsFacts, DisjointCalls DEF MemoryInv, CallsConsistent
    <3>3. LastOf(list, MaxItems) = LastOf(history, MaxItems)
      BY <1>2, MemoryAssumption, LastOfTwice DEF MemoryInv, TypeOK, StoreSound
    <3>4. Log!Newest(history) = LastOf(history, MaxItems)
      BY DEF LastOf, Log!Newest
    <3>5. Log!Look(c)
      BY <2>4, <3>2, <3>3, <3>4 DEF Recalled, store, Log!Look
    <3> QED
      BY <3>5 DEF Log!SessionLogNext
  <2>5. ASSUME NEW c \in Clears, Runs(c), Deleted
        PROVE  LogStep
    <3>1. c \in Calls
      BY DEF Calls, Changes
    <3>2. \A m \in Messages : executedAt'[m] = executedAt[m]
      BY <1>2, <2>5, <3>1, RunsFacts, DisjointCalls
    <3>3. Log!Forget
      BY <2>5, <3>2 DEF Deleted, Log!Forget
    <3> QED
      BY <3>3 DEF Log!SessionLogNext
  <2>6. ASSUME NEW c \in Calls, Runs(c)
        PROVE  LogStep
    BY <2>3, <2>4, <2>5, <2>6 DEF Runs, Command
  <2>7. CASE Tick
    <3>1. UNCHANGED <<executedAt, result>>
      BY <2>7 DEF Tick
    <3>2. CASE UNCHANGED history
      BY <2>1, <3>1, <3>2
    <3>3. CASE history' = <<>>
      <4>1. Log!Forget
        BY <3>1, <3>3 DEF Log!Forget
      <4> QED
        BY <4>1 DEF Log!SessionLogNext
    <3> QED
      BY <2>7, <3>2, <3>3 DEF Tick, store
  <2>8. CASE UNCHANGED vars
    BY <2>1, <2>8 DEF vars
  <2> QED
    BY <1>2, <2>2, <2>6, <2>7, <2>8, Steps
<1> QED
  BY <1>1, <1>2, MemoryInvariant, PTL DEF Spec, ImplementsSessionLog, Log!SessionLogSpec
=============================================================================
