------------------------- MODULE GenerateRouteProofs -------------------------
(***************************************************************************)
(* Proofs about the request path: its type invariant, that the answers in  *)
(* the cache and on their way to a client fit their keys and are young     *)
(* enough, and what follows for the clients (ImplementsAnswerService,      *)
(* AnswersFresh) and the counters (AnswersAccounted).                      *)
(***************************************************************************)
EXTENDS GenerateRoute, FiniteSetTheorems, TLAPS

\* Where a request is tells what it has: a prompt once the route has it, an
\* answer of the gateway while it writes it, a status after its last await.
RequestsConsistent ==
  \A r \in Requests :
    /\ pc[r] \in {"new", "limit"} => prompt[r] = None
    /\ pc[r] \in {"read", "reply", "generate", "write"} => prompt[r] # None
    /\ pc[r] \in {"new", "limit", "read", "reply", "generate"} => madeAt[r] = None
    /\ pc[r] = "write" => madeAt[r] # None /\ r \in writes /\ answer[r] = r
    /\ pc[r] \in {"new", "limit", "read", "reply", "generate", "write"} => status[r] = None
    /\ pc[r] = "reply" <=> readAt[r] # None
    /\ r \in writes => madeAt[r] # None
    /\ madeAt[r] # None => prompt[r] # None

\* The answer of request d, made for the question of key k.
MadeFor(d, k) == /\ d \in Requests
                 /\ madeAt[d] # None
                 /\ prompt[d] # None
                 /\ Normal[prompt[d]] = k

\* Every entry was made for its key, and expires a time to live and a write's
\* latency after it was made; no write is later than that.
CacheSound ==
  /\ \A k \in Keys : cache[k] # Empty =>
       /\ MadeFor(cache[k].answer, k)
       /\ clock < cache[k].expires
       /\ cache[k].expires <= madeAt[cache[k].answer] + MaxLatency + Ttl
  /\ \A r \in writes : clock <= madeAt[r] + MaxLatency

\* What the store has read for a request was made for its key, and was in its
\* time to live when it was read, not long ago; what a client is sent was made
\* for its key.
AnswersSound ==
  \A r \in Requests :
    /\ pc[r] = "reply" => clock <= readAt[r] + MaxLatency
    /\ pc[r] = "reply" /\ answer[r] # None =>
         /\ MadeFor(answer[r], CacheKey(r))
         /\ readAt[r] < madeAt[answer[r]] + MaxLatency + Ttl
    /\ status[r] = "200" => prompt[r] # None /\ MadeFor(answer[r], CacheKey(r))

IInv == TypeOK /\ RequestsConsistent /\ CacheSound /\ AnswersSound

\* The constant None is no request, no prompt and no time.
LEMMA NoneIsOther == /\ None \notin Requests /\ None \notin Prompts /\ None \notin Nat
                     /\ \A r \in Requests, t \in Nat :
                          [answer |-> r, expires |-> t] # Empty
<1>1. None \notin Requests /\ None \notin Prompts /\ None \notin Nat
  BY RouteAssumption
<1> QED
  BY <1>1 DEF Empty

\* An entry that is not empty is a request's answer and a time.
LEMMA EntryType ==
  ASSUME TypeOK, NEW k \in Keys
  PROVE  /\ cache[k] # Empty => cache[k].answer \in Requests /\ cache[k].expires \in Nat
         /\ cache[k].answer \in Requests \cup {None}
         /\ cache[k].answer # None => cache[k] # Empty
  BY DEF TypeOK, Empty

\* The key of a request whose prompt the route has is a key.
LEMMA KeyType ==
  ASSUME TypeOK, NEW r \in Requests, prompt[r] # None
  PROVE  CacheKey(r) \in Keys
  BY DEF TypeOK, CacheKey, Keys

\* The program starts in the invariant.
LEMMA RouteInit == Init => IInv
<1> SUFFICES ASSUME Init
             PROVE  IInv
  OBVIOUS
<1>1. TypeOK
  BY RouteAssumption DEF Init, TypeOK
<1>2. RequestsConsistent
  BY DEF Init, RequestsConsistent
<1>3. CacheSound
  BY DEF Init, CacheSound
<1>4. AnswersSound
  BY RouteAssumption DEF Init, AnswersSound, Statuses
<1> QED
  BY <1>1, <1>2, <1>3, <1>4 DEF IInv

-----------------------------------------------------------------------------
\* Types

\* A response is one of the statuses.
LEMMA RespondType ==
  ASSUME TypeOK, NEW r \in Requests, NEW s \in Statuses, Respond(r, s)
  PROVE  /\ pc' \in [Requests -> {"new", "done", "cancelled"} \cup Awaits]
         /\ pc'[r] = "respond" /\ \A q \in Requests : q # r => pc'[q] = pc[q]
         /\ status' \in [Requests -> Statuses \cup {None}]
         /\ status'[r] = s /\ \A q \in Requests : q # r => status'[q] = status[q]
<1>1. "respond" \in Awaits
  BY DEF Awaits
<1>2. /\ pc' \in [Requests -> {"new", "done", "cancelled"} \cup Awaits]
      /\ pc'[r] = "respond" /\ \A q \in Requests : q # r => pc'[q] = pc[q]
  BY <1>1 DEF TypeOK, Respond
<1>3. /\ status' \in [Requests -> Statuses \cup {None}]
      /\ status'[r] = s /\ \A q \in Requests : q # r => status'[q] = status[q]
  BY DEF TypeOK, Respond
<1> QED
  BY <1>2, <1>3

\* A request moves to one await or ends.
LEMMA MoveType ==
  ASSUME TypeOK, NEW r \in Requests, NEW a \in Awaits \cup {"done", "cancelled"}, MoveTo(r, a)
  PROVE  /\ pc' \in [Requests -> {"new", "done", "cancelled"} \cup Awaits]
         /\ pc'[r] = a /\ \A q \in Requests : q # r => pc'[q] = pc[q]
         /\ status' = status
  BY DEF TypeOK, MoveTo

\* The store takes a write: the new entry is a request's, for a time.
LEMMA StoreType ==
  ASSUME TypeOK, RequestsConsistent, NEW r \in Requests, Store(r)
  PROVE  /\ cache' \in [Keys -> {Empty} \cup [answer : Requests, expires : Nat]]
         /\ writes' = writes \ {r}
<1>1. r \in writes /\ prompt[r] # None
  BY DEF Store, RequestsConsistent
<1>2. CacheKey(r) \in Keys
  BY <1>1, KeyType
<1>3. clock + Ttl \in Nat
  BY RouteAssumption DEF TypeOK
<1> QED
  BY <1>2, <1>3 DEF Store, TypeOK

\* Every step keeps the types.
LEMMA TypeStep ==
  ASSUME TypeOK, RequestsConsistent, Next
  PROVE  TypeOK'
<1>a. {"limit", "read", "reply", "generate", "write"} \subseteq Awaits
  BY DEF Awaits
<1>s. Statuses = {"200", "error"}
  BY DEF Statuses
<1>c. clock \in 0..MaxTime /\ MaxTime \in Nat
  BY RouteAssumption DEF TypeOK
<1>1. ASSUME NEW r \in Requests, Arrive(r) \/ GatewayFails(r)
      PROVE  TypeOK'
  <2>1. UNCHANGED <<clock, up, cache, prompt, readAt, madeAt, answer, writes, metricVars>>
    BY <1>1 DEF Arrive, GatewayFails
  <2>2. MoveTo(r, "limit") \/ Respond(r, "error")
    BY <1>1 DEF Arrive, GatewayFails
  <2>3. /\ pc' \in [Requests -> {"new", "done", "cancelled"} \cup Awaits]
        /\ status' \in [Requests -> Statuses \cup {None}]
    BY <2>2, <1>a, <1>s, MoveType, RespondType DEF TypeOK
  <2> QED
    BY <2>1, <2>3 DEF TypeOK, metricVars
<1>2. ASSUME NEW r \in Requests, Limited(r)
      PROVE  TypeOK'
  <2>1. UNCHANGED <<clock, up, cache, readAt, madeAt, answer, writes, metricVars>>
    BY <1>2 DEF Limited
  <2>2. prompt' \in [Requests -> Prompts \cup {None}]
    BY <1>2 DEF Limited, TypeOK
  <2>3. MoveTo(r, "read") \/ Respond(r, "error")
    BY <1>2 DEF Limited
  <2>4. /\ pc' \in [Requests -> {"new", "done", "cancelled"} \cup Awaits]
        /\ status' \in [Requests -> Statuses \cup {None}]
    BY <2>3, <1>a, <1>s, MoveType, RespondType DEF TypeOK
  <2> QED
    BY <2>1, <2>2, <2>4 DEF TypeOK, metricVars
<1>3. ASSUME NEW r \in Requests, Responded(r) \/ Hit(r)
      PROVE  TypeOK'
  <2>1. /\ UNCHANGED <<clock, up, cache, prompt, madeAt, answer, writes>>
        /\ hits' \in Nat /\ http' \in Nat
        /\ readAt' \in [Requests -> 0..MaxTime \cup {None}]
    BY <1>3 DEF Responded, Hit, TypeOK
  <2>2. MoveTo(r, "done") \/ Respond(r, "200")
    BY <1>3 DEF Responded, Hit
  <2>3. /\ pc' \in [Requests -> {"new", "done", "cancelled"} \cup Awaits]
        /\ status' \in [Requests -> Statuses \cup {None}]
    BY <2>2, <1>s, MoveType, RespondType DEF TypeOK
  <2> QED
    BY <2>1, <2>3 DEF TypeOK
<1>4. ASSUME NEW r \in Requests, Read(r)
      PROVE  TypeOK'
  <2>1. /\ UNCHANGED <<clock, up, cache, prompt, madeAt, writes, metricVars>>
        /\ pc[r] = "read" /\ MoveTo(r, "reply")
        /\ answer' = [answer EXCEPT ![r] = cache[CacheKey(r)].answer]
        /\ readAt' = [readAt EXCEPT ![r] = clock]
    BY <1>4 DEF Read
  <2>2. CacheKey(r) \in Keys
    BY <2>1, KeyType DEF RequestsConsistent
  <2>3. answer' \in [Requests -> Requests \cup {None}]
    BY <2>1, <2>2, EntryType DEF TypeOK
  <2>4. readAt' \in [Requests -> 0..MaxTime \cup {None}]
    BY <2>1, <1>c DEF TypeOK
  <2>5. /\ pc' \in [Requests -> {"new", "done", "cancelled"} \cup Awaits]
        /\ status' = status
    BY <2>1, <1>a, MoveType
  <2> QED
    BY <2>1, <2>3, <2>4, <2>5 DEF TypeOK, metricVars
<1>5. ASSUME NEW r \in Requests, Miss(r) \/ ReadFails(r) \/ Cancel(r)
      PROVE  TypeOK'
  <2>1. /\ UNCHANGED <<clock, up, cache, prompt, madeAt, writes, metricVars>>
        /\ readAt' \in [Requests -> 0..MaxTime \cup {None}]
        /\ answer' \in [Requests -> Requests \cup {None}]
    BY <1>5 DEF Miss, ReadFails, Cancel, TypeOK
  <2>2. MoveTo(r, "generate") \/ MoveTo(r, "cancelled")
    BY <1>5 DEF Miss, ReadFails, Cancel
  <2>3. /\ pc' \in [Requests -> {"new", "done", "cancelled"} \cup Awaits]
        /\ status' = status
    BY <2>2, <1>a, MoveType
  <2> QED
    BY <2>1, <2>3 DEF TypeOK, metricVars
<1>6. ASSUME NEW r \in Requests, Generated(r)
      PROVE  TypeOK'
  <2>1. /\ UNCHANGED <<clock, up, cache, prompt, readAt, metricVars>>
        /\ madeAt' \in [Requests -> 0..MaxTime \cup {None}]
        /\ answer' \in [Requests -> Requests \cup {None}]
        /\ writes' \subseteq Requests
        /\ MoveTo(r, "write")
    BY <1>6, <1>c DEF Generated, TypeOK
  <2>2. /\ pc' \in [Requests -> {"new", "done", "cancelled"} \cup Awaits]
        /\ status' = status
    BY <2>1, <1>a, MoveType
  <2> QED
    BY <2>1, <2>2 DEF TypeOK, metricVars
<1>7. ASSUME NEW r \in Requests, Written(r) \/ WriteFails(r)
      PROVE  TypeOK'
  <2>1. /\ UNCHANGED <<clock, up, prompt, readAt, madeAt, answer, metricVars>>
        /\ Respond(r, "200")
    BY <1>7 DEF Written, WriteFails, Answer
  <2>2. /\ cache' \in [Keys -> {Empty} \cup [answer : Requests, expires : Nat]]
        /\ writes' \subseteq writes
    BY <1>7, StoreType DEF Written, WriteFails, TypeOK
  <2>3. /\ pc' \in [Requests -> {"new", "done", "cancelled"} \cup Awaits]
        /\ status' \in [Requests -> Statuses \cup {None}]
    BY <2>1, <1>s, RespondType
  <2> QED
    BY <2>1, <2>2, <2>3 DEF TypeOK, metricVars
<1>8. ASSUME NEW r \in Requests, WriteArrives(r)
      PROVE  TypeOK'
  <2>1. /\ cache' \in [Keys -> {Empty} \cup [answer : Requests, expires : Nat]]
        /\ writes' \subseteq writes
    BY <1>8, StoreType DEF WriteArrives, TypeOK
  <2> QED
    BY <1>8, <2>1 DEF WriteArrives, TypeOK, requestVars, metricVars
<1>9. CASE Outage
  BY <1>9 DEF Outage, TypeOK, requestVars, metricVars
<1>10. CASE Tick
  <2>1. clock' \in 0..MaxTime
    BY <1>10, <1>c DEF Tick
  <2>2. cache' \in [Keys -> {Empty} \cup [answer : Requests, expires : Nat]]
    BY <1>10 DEF Tick, TypeOK
  <2> QED
    BY <1>10, <2>1, <2>2 DEF Tick, TypeOK, requestVars, metricVars
<1> QED
  BY <1>1, <1>2, <1>3, <1>4, <1>5, <1>6, <1>7, <1>8, <1>9, <1>10 DEF Next, RequestStep
-----------------------------------------------------------------------------
\* The invariant

\* A step of one request.
LEMMA ConsistentStep ==
  ASSUME TypeOK, RequestsConsistent, Next
  PROVE  RequestsConsistent'
<1>n. None \notin Requests /\ None \notin Prompts /\ None \notin 0..MaxTime
  BY NoneIsOther, RouteAssumption
<1>1. ASSUME NEW r \in Requests, Arrive(r)
      PROVE  RequestsConsistent'
  BY <1>1 DEF Arrive, MoveTo, Respond, TypeOK, RequestsConsistent
<1>2. ASSUME NEW r \in Requests, Limited(r)
      PROVE  RequestsConsistent'
  BY <1>2, <1>n DEF Limited, MoveTo, Respond, TypeOK, RequestsConsistent
<1>3. ASSUME NEW r \in Requests, Responded(r)
      PROVE  RequestsConsistent'
  BY <1>3 DEF Responded, MoveTo, TypeOK, RequestsConsistent
<1>4. ASSUME NEW r \in Requests, Read(r)
      PROVE  RequestsConsistent'
  BY <1>4, <1>n DEF Read, MoveTo, TypeOK, RequestsConsistent
<1>5. ASSUME NEW r \in Requests, Hit(r)
      PROVE  RequestsConsistent'
  BY <1>5 DEF Hit, Respond, TypeOK, RequestsConsistent
<1>6. ASSUME NEW r \in Requests, Miss(r) \/ ReadFails(r)
      PROVE  RequestsConsistent'
  BY <1>6 DEF Miss, ReadFails, MoveTo, TypeOK, RequestsConsistent
<1>7. ASSUME NEW r \in Requests, Generated(r)
      PROVE  RequestsConsistent'
  BY <1>7, <1>n DEF Generated, MoveTo, TypeOK, RequestsConsistent
<1>8. ASSUME NEW r \in Requests, GatewayFails(r)
      PROVE  RequestsConsistent'
  BY <1>8 DEF GatewayFails, Respond, TypeOK, RequestsConsistent
<1>9. ASSUME NEW r \in Requests, Written(r) \/ WriteFails(r)
      PROVE  RequestsConsistent'
  <2>1. writes' \in {writes, writes \ {r}}
    BY <1>9 DEF Written, WriteFails, Store
  <2> QED
    BY <1>9, <2>1 DEF Written, WriteFails, Answer, Respond, TypeOK, RequestsConsistent
<1>10. ASSUME NEW r \in Requests, Cancel(r)
       PROVE  RequestsConsistent'
  BY <1>10 DEF Cancel, MoveTo, TypeOK, RequestsConsistent
<1>11. ASSUME NEW r \in Requests, WriteArrives(r)
       PROVE  RequestsConsistent'
  <2>1. writes' \in {writes, writes \ {r}} /\ UNCHANGED requestVars /\ pc[r] # "write"
    BY <1>11 DEF WriteArrives, Store
  <2> QED
    BY <2>1 DEF requestVars, RequestsConsistent
<1>12. CASE Outage \/ Tick
  BY <1>12 DEF Outage, Tick, requestVars, RequestsConsistent
<1> QED
  BY <1>1, <1>2, <1>3, <1>4, <1>5, <1>6, <1>7, <1>8, <1>9, <1>10, <1>11, <1>12
     DEF Next, RequestStep

\* An answer that was made stays made, for the same question.
LEMMA MadeStays ==
  ASSUME TypeOK, RequestsConsistent, [Next]_vars, NEW d \in Requests, madeAt[d] # None
  PROVE  /\ madeAt'[d] = madeAt[d] /\ prompt'[d] = prompt[d]
         /\ \A k : MadeFor(d, k) => MadeFor(d, k)'
<1>1. madeAt'[d] = madeAt[d] /\ prompt'[d] = prompt[d]
  <2>1. ASSUME NEW r \in Requests, RequestStep(r) \/ WriteArrives(r)
        PROVE  madeAt'[d] = madeAt[d] /\ prompt'[d] = prompt[d]
    <3>1. CASE Limited(r)
      <4>1. prompt[r] = None /\ UNCHANGED madeAt /\ d # r
        BY <3>1 DEF Limited, RequestsConsistent
      <4> QED
        BY <3>1, <4>1 DEF Limited, TypeOK
    <3>2. CASE Generated(r)
      <4>1. madeAt[r] = None /\ UNCHANGED prompt /\ d # r
        BY <3>2 DEF Generated, RequestsConsistent
      <4> QED
        BY <3>2, <4>1 DEF Generated, TypeOK
    <3>3. CASE ~Limited(r) /\ ~Generated(r)
      BY <2>1, <3>3 DEF RequestStep, Arrive, Responded, Read, Hit, Miss, ReadFails, GatewayFails,
         Written, WriteFails, Answer, Cancel, WriteArrives, requestVars
    <3> QED
      BY <3>1, <3>2, <3>3
  <2>2. ASSUME Outage \/ Tick \/ UNCHANGED vars
        PROVE  madeAt'[d] = madeAt[d] /\ prompt'[d] = prompt[d]
    BY <2>2 DEF Outage, Tick, vars, requestVars
  <2> QED
    BY <2>1, <2>2 DEF Next
<1> QED
  BY <1>1 DEF MadeFor

\* The store takes a write: the new entry was made for its key and expires in
\* time.
LEMMA StoreSound ==
  ASSUME IInv, NEW r \in Requests, Store(r), UNCHANGED <<clock, prompt, madeAt>>
  PROVE  CacheSound'
<1> DEFINE k == CacheKey(r)
<1>1. /\ r \in writes /\ madeAt[r] # None /\ prompt[r] # None
      /\ madeAt[r] \in Nat /\ clock \in Nat /\ clock <= madeAt[r] + MaxLatency
  BY RouteAssumption DEF Store, IInv, TypeOK, RequestsConsistent, CacheSound
<1>2. k \in Keys
  BY <1>1, KeyType DEF IInv
<1>3. clock + Ttl \in Nat /\ clock < clock + Ttl /\ Ttl \in Nat /\ MaxLatency \in Nat
  BY <1>1, RouteAssumption
<1>4. /\ cache' = [cache EXCEPT ![k] = [answer |-> r, expires |-> clock + Ttl]]
      /\ writes' = writes \ {r}
  BY DEF Store
<1>6. MadeFor(r, k)
  BY <1>1 DEF MadeFor, CacheKey
<1>7. clock + Ttl <= madeAt[r] + MaxLatency + Ttl
  BY <1>1, <1>3
<1>8. ASSUME NEW j \in Keys, cache'[j] # Empty
      PROVE  /\ MadeFor(cache[j].answer, j)'
             /\ clock' < cache'[j].expires
             /\ cache'[j].expires <= madeAt'[cache'[j].answer] + MaxLatency + Ttl
  <2>1. CASE j = k
    <3>1. cache'[j].answer = r /\ cache'[j].expires = clock + Ttl
      BY <1>2, <1>4, <2>1 DEF IInv, TypeOK
    <3>2. MadeFor(cache[j].answer, j)'
      BY <3>1, <1>6, <2>1 DEF MadeFor
    <3> QED
      BY <3>1, <3>2, <1>3, <1>7
  <2>2. CASE j # k
    <3>1. cache'[j] = cache[j]
      BY <1>4, <2>2 DEF IInv, TypeOK
    <3>2. /\ MadeFor(cache[j].answer, j)
          /\ clock < cache[j].expires
          /\ cache[j].expires <= madeAt[cache[j].answer] + MaxLatency + Ttl
      BY <3>1, <1>8 DEF IInv, CacheSound
    <3>3. MadeFor(cache[j].answer, j)'
      BY <3>1, <3>2 DEF MadeFor
    <3> QED
      BY <3>1, <3>2, <3>3
  <2> QED
    BY <2>1, <2>2
<1> QED
  BY <1>4, <1>8 DEF IInv, CacheSound

\* A step that changes neither cache nor clock, and adds no write, keeps the
\* cache sound.
LEMMA CacheUntouched ==
  ASSUME IInv, Next, UNCHANGED <<clock, cache>>, writes' \subseteq writes
  PROVE  CacheSound'
<1>1. ASSUME NEW k \in Keys, cache'[k] # Empty
      PROVE  /\ MadeFor(cache[k].answer, k)'
             /\ clock' < cache'[k].expires
             /\ cache'[k].expires <= madeAt'[cache'[k].answer] + MaxLatency + Ttl
  <2>1. /\ MadeFor(cache[k].answer, k)
        /\ clock < cache[k].expires
        /\ cache[k].expires <= madeAt[cache[k].answer] + MaxLatency + Ttl
    BY <1>1 DEF IInv, CacheSound
  <2>2. /\ cache'[k].answer = cache[k].answer
        /\ cache[k].answer \in Requests /\ madeAt[cache[k].answer] # None
    BY <2>1 DEF MadeFor
  <2>3. /\ madeAt'[cache[k].answer] = madeAt[cache[k].answer]
        /\ prompt'[cache[k].answer] = prompt[cache[k].answer]
    BY <2>2, MadeStays DEF IInv
  <2> QED
    BY <2>1, <2>2, <2>3 DEF MadeFor
<1>2. ASSUME NEW d \in writes'
      PROVE  clock' <= madeAt'[d] + MaxLatency
  <2>1. d \in Requests /\ madeAt[d] # None /\ clock <= madeAt[d] + MaxLatency
    BY <1>2 DEF IInv, TypeOK, RequestsConsistent, CacheSound
  <2> QED
    BY <2>1, MadeStays DEF IInv
<1> QED
  BY <1>1, <1>2 DEF CacheSound

\* Every step keeps the cache sound.
LEMMA CacheStep ==
  ASSUME IInv, Next
  PROVE  CacheSound'
<1>1. ASSUME NEW r \in Requests, Generated(r)
      PROVE  CacheSound'
  <2>1. /\ UNCHANGED <<clock, cache>>
        /\ madeAt' = [madeAt EXCEPT ![r] = clock]
        /\ writes' = writes \cup {r}
    BY <1>1 DEF Generated
  <2>2. madeAt'[r] = clock /\ clock \in Nat
    BY <2>1, RouteAssumption DEF IInv, TypeOK
  <2>3. \A k \in Keys : cache[k] # Empty =>
          /\ MadeFor(cache[k].answer, k)'
          /\ madeAt'[cache[k].answer] = madeAt[cache[k].answer]
    <3> SUFFICES ASSUME NEW k \in Keys, cache[k] # Empty
                 PROVE  /\ MadeFor(cache[k].answer, k)'
                        /\ madeAt'[cache[k].answer] = madeAt[cache[k].answer]
      OBVIOUS
    <3>1. MadeFor(cache[k].answer, k) /\ cache'[k].answer = cache[k].answer
      BY <2>1 DEF IInv, CacheSound
    <3>2. /\ cache[k].answer \in Requests /\ madeAt[cache[k].answer] # None
      BY <3>1 DEF MadeFor
    <3>3. /\ madeAt'[cache[k].answer] = madeAt[cache[k].answer]
          /\ prompt'[cache[k].answer] = prompt[cache[k].answer]
      BY <3>2, MadeStays DEF IInv
    <3> QED
      BY <3>1, <3>3 DEF MadeFor
  <2>4. ASSUME NEW d \in writes'
        PROVE  clock' <= madeAt'[d] + MaxLatency
    <3>1. CASE d = r
      BY <2>1, <2>2, <3>1, RouteAssumption
    <3>2. CASE d # r
      BY <2>1, <2>4, <3>2 DEF IInv, TypeOK, CacheSound
    <3> QED
      BY <3>1, <3>2
  <2> QED
    BY <2>1, <2>3, <2>4 DEF IInv, CacheSound
<1>2. ASSUME NEW r \in Requests, Written(r) \/ WriteFails(r)
      PROVE  CacheSound'
  <2>1. CASE Written(r)
    BY <2>1, StoreSound DEF Written, Answer
  <2>2. CASE WriteFails(r)
    <3>1. UNCHANGED <<clock, cache>> /\ writes' \subseteq writes
      BY <2>2 DEF WriteFails, Answer
    <3> QED
      BY <3>1, CacheUntouched
  <2> QED
    BY <1>2, <2>1, <2>2
<1>3. ASSUME NEW r \in Requests, WriteArrives(r)
      PROVE  CacheSound'
  <2>1. CASE Store(r)
    BY <1>3, <2>1, StoreSound DEF WriteArrives, requestVars
  <2>2. CASE writes' = writes \ {r} /\ UNCHANGED cache
    <3>1. UNCHANGED <<clock, cache>> /\ writes' \subseteq writes
      BY <1>3, <2>2 DEF WriteArrives
    <3> QED
      BY <3>1, CacheUntouched
  <2> QED
    BY <1>3, <2>1, <2>2 DEF WriteArrives
<1>4. CASE Tick
  <2>1. /\ UNCHANGED <<prompt, madeAt, writes>>
        /\ clock < MaxTime /\ clock' = clock + 1
        /\ \A d \in writes : clock < madeAt[d] + MaxLatency
        /\ cache' = [k \in Keys |->
                       IF clock + 1 < cache[k].expires THEN cache[k] ELSE Empty]
    BY <1>4 DEF Tick, requestVars
  <2>2. \A k \in Keys : cache'[k] # Empty =>
          cache'[k] = cache[k] /\ clock' < cache'[k].expires
    BY <2>1
  <2>3. \A k \in Keys : cache'[k] # Empty =>
          /\ MadeFor(cache[k].answer, k)'
          /\ cache'[k].expires <= madeAt'[cache'[k].answer] + MaxLatency + Ttl
    BY <2>1, <2>2 DEF IInv, CacheSound, MadeFor
  <2>4. \A d \in writes : clock' <= madeAt[d] + MaxLatency
    <3> SUFFICES ASSUME NEW d \in writes
                 PROVE  clock' <= madeAt[d] + MaxLatency
      OBVIOUS
    <3>1. madeAt[d] \in Nat /\ clock \in Nat /\ MaxLatency \in Nat
      BY RouteAssumption DEF IInv, TypeOK, RequestsConsistent
    <3> QED
      BY <2>1, <3>1
  <2> QED
    BY <2>1, <2>2, <2>3, <2>4 DEF CacheSound
<1>5. ASSUME \/ Outage
             \/ \E r \in Requests : \/ Arrive(r) \/ Limited(r) \/ Responded(r) \/ Read(r) \/ Hit(r)
                                    \/ Miss(r) \/ ReadFails(r) \/ GatewayFails(r) \/ Cancel(r)
      PROVE  CacheSound'
  <2>1. UNCHANGED <<clock, cache>> /\ writes' \subseteq writes
    BY <1>5 DEF Outage, Arrive, Limited, Responded, Read, Hit, Miss, ReadFails, GatewayFails, Cancel
  <2> QED
    BY <2>1, CacheUntouched
<1> QED
  BY <1>1, <1>2, <1>3, <1>4, <1>5 DEF Next, RequestStep
-----------------------------------------------------------------------------

\* A step after which nothing new is read or sent.
LEMMA AnswersUntouched ==
  ASSUME IInv, Next, clock' = clock, NEW r \in Requests,
         pc'[r] = "reply" => pc[r] = "reply" /\ UNCHANGED <<readAt[r], answer[r]>>,
         status'[r] = "200" => status[r] = "200" /\ answer'[r] = answer[r]
  PROVE  /\ pc'[r] = "reply" => clock' <= readAt'[r] + MaxLatency
         /\ pc'[r] = "reply" /\ answer'[r] # None =>
              /\ MadeFor(answer[r], CacheKey(r))'
              /\ readAt'[r] < madeAt'[answer'[r]] + MaxLatency + Ttl
         /\ status'[r] = "200" => prompt'[r] # None /\ MadeFor(answer[r], CacheKey(r))'
<1>1. prompt[r] # None => prompt'[r] = prompt[r]
  BY DEF IInv, TypeOK, RequestsConsistent, Next, RequestStep, Arrive, Limited, Responded, Read, Hit,
     Miss, ReadFails, Generated, GatewayFails, Written, WriteFails, Answer, Cancel, WriteArrives,
     Outage, Tick, requestVars
<1>2. ASSUME answer'[r] = answer[r], prompt[r] # None, MadeFor(answer[r], CacheKey(r))
      PROVE  /\ MadeFor(answer[r], CacheKey(r))'
             /\ madeAt'[answer'[r]] = madeAt[answer[r]]
  <2>1. answer[r] \in Requests /\ madeAt[answer[r]] # None
    BY <1>2 DEF MadeFor
  <2>2. /\ madeAt'[answer[r]] = madeAt[answer[r]]
        /\ prompt'[answer[r]] = prompt[answer[r]]
    BY <2>1, MadeStays DEF IInv
  <2> QED
    BY <1>1, <1>2, <2>2 DEF MadeFor, CacheKey
<1> QED
  BY <1>1, <1>2 DEF IInv, RequestsConsistent, AnswersSound

\* Every step keeps the answers on their way sound.
LEMMA AnswersStep ==
  ASSUME IInv, Next
  PROVE  AnswersSound'
<1>t. TypeOK /\ RequestsConsistent /\ CacheSound /\ AnswersSound
  BY DEF IInv
<1>c. clock \in Nat /\ Ttl \in Nat /\ MaxLatency \in Nat
  BY <1>t, RouteAssumption DEF TypeOK
<1>1. ASSUME NEW r \in Requests, Read(r)
      PROVE  AnswersSound'
  <2>1. /\ UNCHANGED <<clock, cache, prompt, madeAt>>
        /\ pc[r] = "read" /\ pc' = [pc EXCEPT ![r] = "reply"] /\ status' = status
        /\ answer' = [answer EXCEPT ![r] = cache[CacheKey(r)].answer]
        /\ readAt' = [readAt EXCEPT ![r] = clock]
    BY <1>1 DEF Read, MoveTo
  <2>2. /\ pc'[r] = "reply" /\ readAt'[r] = clock /\ status'[r] = None
        /\ answer'[r] = cache[CacheKey(r)].answer
        /\ prompt[r] # None /\ CacheKey(r) \in Keys
    BY <1>t, <2>1, KeyType DEF TypeOK, RequestsConsistent
  <2>3. clock' <= readAt'[r] + MaxLatency /\ status'[r] # "200"
    BY <1>c, <2>1, <2>2, RouteAssumption DEF Statuses
  <2>4. ASSUME answer'[r] # None
        PROVE  /\ MadeFor(answer[r], CacheKey(r))'
               /\ readAt'[r] < madeAt'[answer'[r]] + MaxLatency + Ttl
    <3>1. /\ MadeFor(answer'[r], CacheKey(r))
          /\ clock < cache[CacheKey(r)].expires
          /\ cache[CacheKey(r)].expires <= madeAt[answer'[r]] + MaxLatency + Ttl
          /\ cache[CacheKey(r)].expires \in Nat
      BY <1>t, <2>2, <2>4, EntryType DEF CacheSound
    <3>2. madeAt[answer'[r]] \in Nat
      BY <1>t, <3>1, RouteAssumption DEF MadeFor, TypeOK
    <3>3. clock < madeAt[answer'[r]] + MaxLatency + Ttl
      BY <1>c, <3>1, <3>2
    <3> QED
      BY <2>1, <2>2, <3>1, <3>3 DEF MadeFor, CacheKey
  <2>5. ASSUME NEW q \in Requests, q # r
        PROVE  UNCHANGED <<pc[q], status[q], readAt[q], answer[q]>>
    BY <1>t, <2>1, <2>5 DEF TypeOK
  <2> QED
    BY <1>1, <2>1, <2>2, <2>3, <2>4, <2>5, AnswersUntouched DEF AnswersSound, Next, RequestStep
<1>2. ASSUME NEW r \in Requests, Hit(r)
      PROVE  AnswersSound'
  <2>1. /\ UNCHANGED <<clock, prompt, madeAt, answer>>
        /\ pc[r] = "reply" /\ answer[r] # None /\ pc' = [pc EXCEPT ![r] = "respond"]
        /\ status' = [status EXCEPT ![r] = "200"]
        /\ readAt' = [readAt EXCEPT ![r] = None]
    BY <1>2 DEF Hit, Respond
  <2>2. pc'[r] = "respond" /\ prompt[r] # None /\ MadeFor(answer[r], CacheKey(r))
    BY <1>t, <2>1 DEF TypeOK, RequestsConsistent, AnswersSound
  <2>3. MadeFor(answer[r], CacheKey(r))'
    BY <2>1, <2>2 DEF MadeFor, CacheKey
  <2>4. ASSUME NEW q \in Requests, q # r
        PROVE  UNCHANGED <<pc[q], status[q], readAt[q], answer[q]>>
    BY <1>t, <2>1, <2>4 DEF TypeOK
  <2> QED
    BY <2>1, <2>2, <2>3, <2>4, AnswersUntouched DEF AnswersSound
<1>3. ASSUME NEW r \in Requests, Written(r) \/ WriteFails(r)
      PROVE  AnswersSound'
  <2>1. /\ UNCHANGED <<clock, prompt, madeAt, answer, readAt>>
        /\ pc[r] = "write" /\ pc' = [pc EXCEPT ![r] = "respond"]
        /\ status' = [status EXCEPT ![r] = "200"]
    BY <1>3 DEF Written, WriteFails, Answer, Respond
  <2>2. pc'[r] = "respond" /\ prompt[r] # None /\ MadeFor(answer[r], CacheKey(r))
    BY <1>t, <2>1 DEF TypeOK, RequestsConsistent, MadeFor, CacheKey
  <2>3. MadeFor(answer[r], CacheKey(r))'
    BY <2>1, <2>2 DEF MadeFor, CacheKey
  <2>4. ASSUME NEW q \in Requests, q # r
        PROVE  UNCHANGED <<pc[q], status[q], readAt[q], answer[q]>>
    BY <1>t, <2>1, <2>4 DEF TypeOK
  <2> QED
    BY <2>1, <2>2, <2>3, <2>4, AnswersUntouched DEF AnswersSound
<1>4. ASSUME NEW r \in Requests,
             \/ Arrive(r) \/ Limited(r) \/ Responded(r) \/ Miss(r) \/ ReadFails(r) \/ Generated(r)
             \/ GatewayFails(r) \/ Cancel(r)
      PROVE  AnswersSound'
  <2>1. /\ clock' = clock
        /\ pc'[r] # "reply" /\ status'[r] \in {status[r], "error"}
        /\ answer'[r] # answer[r] => status[r] = None /\ status'[r] = None
    BY <1>4, <1>t DEF Arrive, Limited, Responded, Miss, ReadFails, Generated, GatewayFails, Cancel,
       MoveTo, Respond, TypeOK, RequestsConsistent
  <2>2. ASSUME NEW q \in Requests, q # r
        PROVE  UNCHANGED <<pc[q], status[q], readAt[q], answer[q]>>
    BY <1>4, <1>t, <2>2 DEF Arrive, Limited, Responded, Miss, ReadFails, Generated, GatewayFails,
       Cancel, MoveTo, Respond, TypeOK
  <2>3. "error" # "200" /\ None # "200"
    BY RouteAssumption DEF Statuses
  <2> QED
    BY <2>1, <2>2, <2>3, AnswersUntouched DEF AnswersSound
<1>5. ASSUME NEW r \in Requests, WriteArrives(r)
      PROVE  AnswersSound'
  <2>1. clock' = clock /\ UNCHANGED requestVars
    BY <1>5 DEF WriteArrives
  <2> QED
    BY <2>1, AnswersUntouched DEF AnswersSound, requestVars
<1>6. CASE Outage
  BY <1>6, AnswersUntouched DEF AnswersSound, Outage, requestVars
<1>7. CASE Tick
  <2>1. /\ UNCHANGED requestVars /\ clock' = clock + 1
        /\ \A r \in Requests : pc[r] = "reply" => clock < readAt[r] + MaxLatency
    BY <1>7 DEF Tick
  <2>2. ASSUME NEW r \in Requests, pc[r] = "reply"
        PROVE  clock' <= readAt[r] + MaxLatency
    <3>1. readAt[r] \in Nat
      BY <1>t, <2>2, RouteAssumption DEF TypeOK, RequestsConsistent
    <3> QED
      BY <1>c, <2>1, <2>2, <3>1
  <2> QED
    BY <1>t, <2>1, <2>2 DEF AnswersSound, MadeFor, CacheKey, requestVars
<1> QED
  BY <1>1, <1>2, <1>3, <1>4, <1>5, <1>6, <1>7 DEF Next, RequestStep

\* Every step keeps the invariant.
LEMMA RouteStep == IInv /\ [Next]_vars => IInv'
<1>1. IInv /\ Next => IInv'
  BY TypeStep, ConsistentStep, CacheStep, AnswersStep DEF IInv
<1>2. IInv /\ UNCHANGED vars => IInv'
  BY DEF IInv, TypeOK, RequestsConsistent, CacheSound, AnswersSound, MadeFor, CacheKey, vars,
         requestVars, metricVars
<1> QED
  BY <1>1, <1>2
-----------------------------------------------------------------------------
\* Theorems

\* Every variable always has its type (TypeOK).
THEOREM RouteTypes == Spec => []TypeOK
<1>1. IInv => TypeOK
  BY DEF IInv
<1> QED
  BY <1>1, RouteInit, RouteStep, PTL DEF Spec

\* What a client is sent, a step before it is: the store has read it in time,
\* or the gateway has made it a moment ago.
LEMMA SentFresh ==
  ASSUME IInv, NEW r \in Requests, Hit(r) \/ Written(r) \/ WriteFails(r)
  PROVE  /\ status[r] = None /\ status' = [status EXCEPT ![r] = "200"]
         /\ prompt[r] # None /\ MadeFor(answer[r], CacheKey(r))
         /\ clock < madeAt[answer[r]] + Ttl + 2 * MaxLatency
<1>t. TypeOK /\ RequestsConsistent /\ CacheSound /\ AnswersSound
  BY DEF IInv
<1>c. clock \in Nat /\ Ttl \in Nat \ {0} /\ MaxLatency \in Nat
  BY <1>t, RouteAssumption DEF TypeOK
<1>1. CASE Hit(r)
  <2>1. pc[r] = "reply" /\ answer[r] # None
    BY <1>1 DEF Hit
  <2>2. /\ clock <= readAt[r] + MaxLatency
        /\ MadeFor(answer[r], CacheKey(r))
        /\ readAt[r] < madeAt[answer[r]] + MaxLatency + Ttl
        /\ readAt[r] \in Nat
    BY <1>t, <2>1, RouteAssumption DEF AnswersSound, RequestsConsistent, TypeOK
  <2>3. madeAt[answer[r]] \in Nat
    BY <1>t, <2>2, RouteAssumption DEF MadeFor, TypeOK
  <2>4. clock < madeAt[answer[r]] + Ttl + 2 * MaxLatency
    BY <1>c, <2>2, <2>3
  <2> QED
    BY <1>1, <1>t, <2>1, <2>2, <2>4 DEF Hit, Respond, RequestsConsistent
<1>2. CASE Written(r) \/ WriteFails(r)
  <2>1. /\ pc[r] = "write" /\ UNCHANGED <<answer, madeAt, prompt, hits, http>>
        /\ status' = [status EXCEPT ![r] = "200"]
    BY <1>2 DEF Written, WriteFails, Answer, Respond, metricVars
  <2>2. /\ madeAt[r] # None /\ r \in writes /\ answer[r] = r /\ status[r] = None
        /\ prompt[r] # None
    BY <1>t, <2>1 DEF RequestsConsistent
  <2>3. madeAt[r] \in Nat /\ clock <= madeAt[r] + MaxLatency
    BY <1>t, <2>2, RouteAssumption DEF TypeOK, CacheSound
  <2>4. clock < madeAt[r] + Ttl + 2 * MaxLatency
    BY <1>c, <2>3
  <2> QED
    BY <2>1, <2>2, <2>4 DEF MadeFor, CacheKey
<1> QED
  BY <1>1, <1>2

\* Nobody else is sent anything.
LEMMA NotSent ==
  ASSUME IInv, [Next]_vars, ~(\E r \in Requests : Hit(r) \/ Written(r) \/ WriteFails(r))
  PROVE  \/ UNCHANGED status
         \/ \E r \in Requests : status[r] = None /\ status' = [status EXCEPT ![r] = "error"]
  BY DEF IInv, RequestsConsistent, Next, RequestStep, Arrive, Limited, Responded, Read, Miss,
     ReadFails, Generated, GatewayFails, Cancel, WriteArrives, Outage, Tick, MoveTo, Respond, vars,
     requestVars

\* No client is sent an answer older than the time to live and the latencies of
\* one write and one reading (AnswersFresh), for any number of requests,
\* replicas and prompts.
THEOREM AnswersStayFresh == Spec => AnswersFresh
<1> DEFINE Fresh == \A r \in Requests :
                      status[r] = None /\ status'[r] = "200"
                        => clock < madeAt'[answer'[r]] + Ttl + 2 * MaxLatency
<1>1. IInv /\ [Next]_vars => [Fresh]_vars
  <2> SUFFICES ASSUME IInv, Next, NEW r \in Requests,
                      status[r] = None, status'[r] = "200"
               PROVE  clock < madeAt'[answer'[r]] + Ttl + 2 * MaxLatency
    OBVIOUS
  <2>n. "200" # None /\ "200" # "error" /\ status \in [Requests -> Statuses \cup {None}]
    BY RouteAssumption DEF Statuses, IInv, TypeOK
  <2>1. PICK q \in Requests : Hit(q) \/ Written(q) \/ WriteFails(q)
    BY <2>n, NotSent
  <2>2. q = r
    BY <2>1, <2>n, SentFresh
  <2>3. UNCHANGED <<answer, madeAt>>
    BY <2>1 DEF Hit, Written, WriteFails, Answer
  <2> QED
    BY <2>1, <2>2, <2>3, SentFresh
<1> QED
  BY <1>1, RouteInit, RouteStep, PTL DEF Spec, AnswersFresh

\* The request path implements the answering service (ImplementsAnswerService):
\* nobody is sent an answer that was not made for the normal form of the own
\* prompt.
THEOREM RouteImplementsAnswerService == Spec => ImplementsAnswerService
<1> DEFINE Asked == [r \in Requests |->
                       IF prompt[r] = None THEN None ELSE Normal[prompt[r]]]
           Made == [k \in Keys |->
                      {r \in Requests : madeAt[r] # None /\ Normal[prompt[r]] = k}]
           Got == [r \in Requests |->
                     IF pc[r] = "done" /\ status[r] = "200" THEN answer[r] ELSE None]
<1>1. Init => Service!Init
  BY DEF Init, Service!Init
<1>2. IInv /\ [Next]_vars => [Service!Next]_(Service!vars)
  <2> SUFFICES ASSUME IInv, [Next]_vars
               PROVE  Service!Next \/ UNCHANGED <<Asked, Made, Got>>
    BY DEF Service!vars
  <2>t. TypeOK /\ RequestsConsistent /\ CacheSound /\ AnswersSound
    BY DEF IInv
  <2>k. \A q \in Prompts : Normal[q] \in Keys /\ Normal[q] # None /\ q # None
    BY RouteAssumption DEF Keys
  <2>1. ASSUME NEW r \in Requests, Limited(r)
        PROVE  Service!Ask(r) \/ UNCHANGED <<Asked, Made, Got>>
    <3>1. /\ UNCHANGED <<madeAt, answer>>
          /\ pc[r] = "limit" /\ prompt[r] = None /\ madeAt[r] = None
      BY <2>1, <2>t DEF Limited, RequestsConsistent
    <3>2. Got' = Got
      BY <2>1, <2>t, <3>1 DEF Limited, MoveTo, Respond, TypeOK
    <3>3. CASE UNCHANGED prompt
      BY <3>1, <3>2, <3>3
    <3>4. ASSUME NEW q \in Prompts, prompt' = [prompt EXCEPT ![r] = q]
          PROVE  Service!Ask(r)
      <4>1. Asked' = [Asked EXCEPT ![r] = Normal[q]] /\ Asked[r] = None
        BY <2>t, <2>k, <3>1, <3>4 DEF TypeOK
      <4>2. Made' = Made
        BY <2>t, <3>1, <3>4 DEF TypeOK
      <4> QED
        BY <2>k, <3>2, <4>1, <4>2 DEF Service!Ask
    <3> QED
      BY <2>1, <3>3, <3>4 DEF Limited
  <2>2. ASSUME NEW r \in Requests, Generated(r)
        PROVE  Service!Make(r)
    <3>1. /\ madeAt' = [madeAt EXCEPT ![r] = clock] /\ UNCHANGED <<prompt, status>>
          /\ pc[r] = "generate" /\ pc' = [pc EXCEPT ![r] = "write"]
          /\ answer' = [answer EXCEPT ![r] = r]
      BY <2>2 DEF Generated, MoveTo
    <3>2. /\ madeAt[r] = None /\ prompt[r] # None /\ clock # None
          /\ prompt[r] \in Prompts
      BY <2>t, <3>1, NoneIsOther, RouteAssumption DEF TypeOK, RequestsConsistent
    <3>3. Asked' = Asked /\ Asked[r] = Normal[prompt[r]]
      BY <3>1, <3>2
    <3>4. Made' = [Made EXCEPT ![Normal[prompt[r]]] = @ \cup {r}]
      <4>1. \A q \in Requests : madeAt'[q] = IF q = r THEN clock ELSE madeAt[q]
        BY <2>t, <3>1 DEF TypeOK
      <4>2. \A q \in Requests : madeAt'[q] # None <=> q = r \/ madeAt[q] # None
        BY <3>2, <4>1
      <4>3. prompt' = prompt
        BY <3>1
      <4>4. \A k \in Keys :
              {q \in Requests : madeAt'[q] # None /\ Normal[prompt'[q]] = k}
                = {q \in Requests : madeAt[q] # None /\ Normal[prompt[q]] = k}
                    \cup (IF k = Normal[prompt[r]] THEN {r} ELSE {})
        BY <4>2, <4>3
      <4> QED
        BY <4>4
    <3>5. r \notin Made[Normal[prompt[r]]]
      BY <2>k, <3>2
    <3>6. Asked[r] # None
      BY <2>k, <3>2, <3>3
    <3>7. Got' = Got
      BY <2>t, <3>1 DEF TypeOK
    <3> QED
      BY <3>3, <3>4, <3>5, <3>6, <3>7 DEF Service!Make
  <2>3. ASSUME NEW r \in Requests, Responded(r)
        PROVE  Service!Give(r) \/ UNCHANGED <<Asked, Made, Got>>
    <3>1. /\ UNCHANGED <<prompt, madeAt, answer, status>>
          /\ pc[r] = "respond" /\ pc' = [pc EXCEPT ![r] = "done"]
      BY <2>3 DEF Responded, MoveTo
    <3>2. Asked' = Asked /\ Made' = Made
      BY <3>1
    <3>3. CASE status[r] = "200"
      <4>1. prompt[r] # None /\ prompt[r] \in Prompts /\ MadeFor(answer[r], CacheKey(r))
        BY <2>t, <3>3 DEF AnswersSound, TypeOK
      <4>2. Asked[r] = Normal[prompt[r]] /\ Asked[r] # None /\ Got[r] = None
        BY <2>k, <3>1, <4>1
      <4>3. Got' = [Got EXCEPT ![r] = answer[r]]
        BY <2>t, <3>1, <3>3 DEF TypeOK
      <4>4. answer[r] \in Made[Asked[r]]
        BY <2>k, <4>1, <4>2 DEF MadeFor, CacheKey
      <4> QED
        BY <3>2, <4>2, <4>3, <4>4 DEF Service!Give
    <3>4. CASE status[r] # "200"
      <4>1. Got' = Got
        BY <2>t, <3>1, <3>4 DEF TypeOK
      <4> QED
        BY <3>2, <4>1
    <3> QED
      BY <3>3, <3>4
  <2>4. ASSUME NEW r \in Requests,
               \/ Arrive(r) \/ Read(r) \/ Hit(r) \/ Miss(r) \/ ReadFails(r) \/ GatewayFails(r)
               \/ Written(r) \/ WriteFails(r) \/ Cancel(r)
        PROVE  UNCHANGED <<Asked, Made, Got>>
    <3>1. /\ UNCHANGED <<prompt, madeAt>>
          /\ pc[r] # "done" /\ pc'[r] # "done"
          /\ \A q \in Requests : q # r => UNCHANGED <<pc[q], status[q], answer[q]>>
      BY <2>4, <2>t DEF Arrive, Read, Hit, Miss, ReadFails, GatewayFails, Written, WriteFails, Answer,
         Cancel, MoveTo, Respond, TypeOK, Awaits
    <3>2. Asked' = Asked /\ Made' = Made
      BY <3>1
    <3>3. Got' = Got
      BY <3>1
    <3> QED
      BY <3>2, <3>3
  <2>5. ASSUME \/ \E r \in Requests : WriteArrives(r)
               \/ Outage \/ Tick \/ UNCHANGED vars
        PROVE  UNCHANGED <<Asked, Made, Got>>
    <3>1. UNCHANGED <<prompt, madeAt, pc, status, answer>>
      BY <2>5 DEF WriteArrives, Outage, Tick, vars, requestVars
    <3> QED
      BY <3>1
  <2> QED
    BY <2>1, <2>2, <2>3, <2>4, <2>5 DEF Next, RequestStep, Service!Next
<1> QED
  BY <1>1, <1>2, RouteInit, RouteStep, PTL DEF Spec, ImplementsAnswerService, Service!Spec

-----------------------------------------------------------------------------
\* The counters

FromCache == {r \in Requests : status[r] = "200" /\ answer[r] # r}
FromGateway == {r \in Requests : status[r] = "200" /\ answer[r] = r}
Uncounted == {r \in Requests : status[r] = "200" /\ pc[r] # "done"}

\* AnswersAccounted, of sets that are finite.
AccountsKept == /\ IsFiniteSet(FromCache) /\ IsFiniteSet(FromGateway)
                /\ IsFiniteSet(Uncounted)
                /\ AnswersAccounted

\* A step that counts nothing and sends nothing changes no side of the account.
LEMMA QuietAccounts ==
  ASSUME AccountsKept, hits' = hits, http' = http,
         FromCache' = FromCache, FromGateway' = FromGateway, Uncounted' = Uncounted
  PROVE  AccountsKept'
BY DEF AccountsKept, AnswersAccounted, FromCache, FromGateway, Uncounted

\* The hits counted are the clients answered from the cache, and the 200s of the
\* middleware, with those on their way out, these and the clients for whom the
\* gateway made the answer, for any number of requests, replicas and failures
\* (AnswersAccounted).
THEOREM AnswersAreAccounted == Spec => []AnswersAccounted
<1>1. Init => AccountsKept
  <2> SUFFICES ASSUME Init
               PROVE  AccountsKept
    OBVIOUS
  <2>1. FromCache = {} /\ FromGateway = {} /\ Uncounted = {}
    BY RouteAssumption DEF Init, FromCache, FromGateway, Uncounted, Statuses
  <2>2. hits = 0 /\ http = 0
    BY DEF Init
  <2> QED
    BY <2>1, <2>2, FS_EmptySet
       DEF AccountsKept, AnswersAccounted, FromCache, FromGateway, Uncounted
<1>2. IInv /\ AccountsKept /\ [Next]_vars => AccountsKept'
  <2> SUFFICES ASSUME IInv, AccountsKept, [Next]_vars
               PROVE  AccountsKept'
    OBVIOUS
  <2>t. TypeOK /\ RequestsConsistent /\ CacheSound /\ AnswersSound
    BY DEF IInv
  <2>s. "200" # "error" /\ "200" # None
    BY RouteAssumption DEF Statuses
  <2>n. /\ hits \in Nat /\ http \in Nat
        /\ IsFiniteSet(FromCache) /\ IsFiniteSet(FromGateway) /\ IsFiniteSet(Uncounted)
        /\ Cardinality(FromCache) \in Nat /\ Cardinality(FromGateway) \in Nat
        /\ Cardinality(Uncounted) \in Nat
        /\ hits = Cardinality(FromCache)
        /\ http + Cardinality(Uncounted) = hits + Cardinality(FromGateway)
    BY <2>t, FS_CardinalityType
       DEF TypeOK, AccountsKept, AnswersAccounted, FromCache, FromGateway, Uncounted
  <2>1. ASSUME NEW r \in Requests, Hit(r) \/ Written(r) \/ WriteFails(r)
        PROVE  AccountsKept'
    <3>1. /\ status[r] = None /\ status' = [status EXCEPT ![r] = "200"]
          /\ pc' = [pc EXCEPT ![r] = "respond"]
          /\ answer' = answer /\ http' = http
      BY <2>1, SentFresh DEF Hit, Written, WriteFails, Answer, Respond, metricVars
    <3>2. Uncounted' = Uncounted \cup {r} /\ r \notin Uncounted
      BY <3>1, <2>t, <2>s DEF Uncounted, TypeOK
    <3>3. IsFiniteSet(Uncounted') /\ Cardinality(Uncounted') = Cardinality(Uncounted) + 1
      BY <2>n, <3>2, FS_AddElement
    <3>4. CASE Hit(r)
      <4>1. answer[r] # r /\ hits' = hits + 1
        BY <3>4, <2>t DEF Hit, RequestsConsistent, AnswersSound, MadeFor
      <4>2. FromCache' = FromCache \cup {r} /\ r \notin FromCache /\ FromGateway' = FromGateway
        BY <3>1, <4>1, <2>t, <2>s DEF FromCache, FromGateway, TypeOK
      <4>3. IsFiniteSet(FromCache') /\ Cardinality(FromCache') = Cardinality(FromCache) + 1
        BY <2>n, <4>2, FS_AddElement
      <4>4. /\ hits' = Cardinality(FromCache')
            /\ http' + Cardinality(Uncounted') = hits' + Cardinality(FromGateway')
        BY <2>n, <3>1, <3>3, <4>1, <4>2, <4>3
      <4> QED
        BY <2>n, <3>3, <4>2, <4>3, <4>4
           DEF AccountsKept, AnswersAccounted, FromCache, FromGateway, Uncounted
    <3>5. CASE Written(r) \/ WriteFails(r)
      <4>1. answer[r] = r /\ hits' = hits
        BY <3>5, <2>t DEF Written, WriteFails, Answer, metricVars, RequestsConsistent
      <4>2. FromGateway' = FromGateway \cup {r} /\ r \notin FromGateway /\ FromCache' = FromCache
        BY <3>1, <4>1, <2>t, <2>s DEF FromCache, FromGateway, TypeOK
      <4>3. IsFiniteSet(FromGateway') /\ Cardinality(FromGateway') = Cardinality(FromGateway) + 1
        BY <2>n, <4>2, FS_AddElement
      <4>4. /\ hits' = Cardinality(FromCache')
            /\ http' + Cardinality(Uncounted') = hits' + Cardinality(FromGateway')
        BY <2>n, <3>1, <3>3, <4>1, <4>2, <4>3
      <4> QED
        BY <2>n, <3>3, <4>2, <4>3, <4>4
           DEF AccountsKept, AnswersAccounted, FromCache, FromGateway, Uncounted
    <3> QED
      BY <2>1, <3>4, <3>5
  <2>2. ASSUME NEW r \in Requests, Responded(r)
        PROVE  AccountsKept'
    <3>1. /\ pc[r] = "respond" /\ pc' = [pc EXCEPT ![r] = "done"]
          /\ UNCHANGED <<status, answer, hits>>
          /\ http' = IF status[r] = "200" THEN http + 1 ELSE http
      BY <2>2 DEF Responded, MoveTo
    <3>2. FromCache' = FromCache /\ FromGateway' = FromGateway
      BY <3>1 DEF FromCache, FromGateway
    <3>3. CASE status[r] = "200"
      <4>1. Uncounted' = Uncounted \ {r} /\ r \in Uncounted
        BY <3>1, <3>3, <2>t DEF Uncounted, TypeOK
      <4>2. IsFiniteSet(Uncounted') /\ Cardinality(Uncounted') = Cardinality(Uncounted) - 1
        BY <2>n, <4>1, FS_RemoveElement
      <4>3. /\ hits' = Cardinality(FromCache')
            /\ http' + Cardinality(Uncounted') = hits' + Cardinality(FromGateway')
        BY <2>n, <3>1, <3>2, <3>3, <4>2
      <4> QED
        BY <2>n, <3>2, <4>2, <4>3
           DEF AccountsKept, AnswersAccounted, FromCache, FromGateway, Uncounted
    <3>4. CASE status[r] # "200"
      <4>1. Uncounted' = Uncounted /\ http' = http
        BY <3>1, <3>4, <2>t DEF Uncounted, TypeOK
      <4> QED
        BY <3>1, <3>2, <4>1, QuietAccounts
    <3> QED
      BY <3>3, <3>4
  <2>3. ASSUME NEW r \in Requests,
               \/ Arrive(r) \/ Limited(r) \/ Read(r) \/ Miss(r) \/ ReadFails(r) \/ Generated(r)
               \/ GatewayFails(r) \/ Cancel(r)
        PROVE  AccountsKept'
    <3>1. /\ UNCHANGED <<hits, http>>
          /\ pc[r] # "done" /\ pc'[r] # "done"
          /\ status'[r] = "200" <=> status[r] = "200"
          /\ status[r] = "200" => answer'[r] = answer[r]
          /\ \A q \in Requests : q # r => UNCHANGED <<pc[q], status[q], answer[q]>>
      BY <2>3, <2>t, <2>s DEF Arrive, Limited, Read, Miss, ReadFails, Generated, GatewayFails, Cancel,
         MoveTo, Respond, TypeOK, Awaits, RequestsConsistent, metricVars
    <3>2. /\ FromCache' = FromCache /\ FromGateway' = FromGateway
          /\ Uncounted' = Uncounted
      BY <3>1 DEF FromCache, FromGateway, Uncounted
    <3> QED
      BY <3>1, <3>2, QuietAccounts
  <2>4. ASSUME \/ \E r \in Requests : WriteArrives(r)
               \/ Outage \/ Tick \/ UNCHANGED vars
        PROVE  AccountsKept'
    <3>1. UNCHANGED <<pc, status, answer, hits, http>>
      BY <2>4 DEF WriteArrives, Outage, Tick, vars, requestVars, metricVars
    <3>2. /\ FromCache' = FromCache /\ FromGateway' = FromGateway
          /\ Uncounted' = Uncounted
      BY <3>1 DEF FromCache, FromGateway, Uncounted
    <3> QED
      BY <3>1, <3>2, QuietAccounts
  <2> QED
    BY <2>1, <2>2, <2>3, <2>4 DEF Next, RequestStep
<1>3. AccountsKept => AnswersAccounted
  BY DEF AccountsKept
<1> QED
  BY <1>1, <1>2, <1>3, RouteInit, RouteStep, PTL DEF Spec
=============================================================================
