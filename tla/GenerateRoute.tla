---------------------------- MODULE GenerateRoute ----------------------------
(***************************************************************************)
(* The path of POST /v1/generate: the request middleware, authentication,  *)
(* the rate limit dependency, the route (api/routes/generate.py) and the   *)
(* semantic cache (cache/services/semantic_cache.py) over the shared       *)
(* store.  Requests are those of all the replicas; the cache is theirs     *)
(* together, and the counters are the sums of the replicas' counters.      *)
(*                                                                         *)
(* An action is the code between two awaits.  The limiter's verdict (see   *)
(* RateLimiter) and the gateway's result (see LLMGateway) are any that     *)
(* those components can give.  The answer the gateway makes for request r  *)
(* is r itself.                                                            *)
(***************************************************************************)
EXTENDS Integers, FiniteSets

CONSTANTS Requests,
          Prompts,
          Normal,        \* Normal[q]: what SemanticCache._normalize makes of q
          Ttl,           \* semantic_cache_ttl_seconds, in ticks
          MaxLatency,    \* ticks from an answer to the end of its cache write, and
                         \* from the store's reading of an entry to its reply
          MaxTime,       \* bound: the clock stops here
          None

\* The answer, or any of 401, 422, 429, 500 and 503.
Statuses == {"200", "error"}

ASSUME RouteAssumption == /\ Ttl \in Nat \ {0}
                          /\ MaxLatency \in Nat
                          /\ MaxTime \in Nat
                          /\ None \notin Requests \cup Prompts \cup Nat \cup Statuses
                          /\ \A q \in Prompts : Normal[q] # None

VARIABLES
  clock,      \* the time
  up,         \* the store answers
  cache,      \* cache[k]: whose answer the store holds under key k, until when
  pc,         \* pc[r]: the await request r is at, or how it has ended
  prompt,     \* prompt[r]: its prompt, None before the route has it
  readAt,     \* readAt[r]: when the store read for r, while its reply is under way
  madeAt,     \* madeAt[r]: when the gateway answered r, None if it has not
  answer,     \* answer[r]: whose answer r has, None if none
  status,     \* status[r]: the status of r's response, None before it has one
  writes,     \* the requests whose cache write may still reach the store
  hits,       \* SEMANTIC_CACHE_HITS_TOTAL
  http        \* HTTP_REQUESTS_TOTAL of status 200

requestVars == <<pc, prompt, readAt, madeAt, answer, status>>
metricVars == <<hits, http>>
vars == <<clock, up, cache, requestVars, writes, metricVars>>

Keys == {Normal[q] : q \in Prompts}
Awaits == {"limit", "read", "reply", "generate", "write", "respond"}
Empty == [answer |-> None, expires |-> 0]

Init == /\ clock = 0
        /\ up = TRUE
        /\ cache = [k \in Keys |-> Empty]
        /\ pc = [r \in Requests |-> "new"]
        /\ prompt = [r \in Requests |-> None]
        /\ readAt = [r \in Requests |-> None]
        /\ madeAt = [r \in Requests |-> None]
        /\ answer = [r \in Requests |-> None]
        /\ status = [r \in Requests |-> None]
        /\ writes = {}
        /\ hits = 0 /\ http = 0

-----------------------------------------------------------------------------
\* Steps of several actions

\* A mutant of CacheKey: the query is left out of the key.
CacheKeyShared(r) == CHOOSE k \in Keys : TRUE

CacheKey(r) == Normal[prompt[r]]

MoveTo(r, await) ==
  /\ pc' = [pc EXCEPT ![r] = await]
  /\ UNCHANGED status

\* The handler, or what raises in its place, has made the response, which is on
\* its way out through the middleware.
Respond(r, code) ==
  /\ pc' = [pc EXCEPT ![r] = "respond"]
  /\ status' = [status EXCEPT ![r] = code]

-----------------------------------------------------------------------------
\* The middleware and the dependencies

\* A request whose body has been read comes to the parser of JSON, which may
\* refuse it (422), and to require_api_key: a key that is wrong (401), not
\* configured (503), or not ASCII, for which the comparison raises TypeError.
Arrive(r) ==
  /\ pc[r] = "new"
  /\ MoveTo(r, "limit") \/ Respond(r, "error")
  /\ UNCHANGED <<clock, up, cache, prompt, readAt, madeAt, answer, writes, metricVars>>

\* enforce_rate_limit: let through, and with a valid body on to the route;
\* turned away for the limit or the body; or the store does not answer, and
\* nothing catches that.
Limited(r) ==
  /\ pc[r] = "limit"
  /\ \/ /\ up
        /\ prompt' \in {[prompt EXCEPT ![r] = q] : q \in Prompts}
        /\ MoveTo(r, "read")
     \/ Respond(r, "error") /\ UNCHANGED prompt
  /\ UNCHANGED <<clock, up, cache, readAt, madeAt, answer, writes, metricVars>>

\* The middleware counts the response, or the exception, and the client has it.
Responded(r) ==
  /\ pc[r] = "respond"
  /\ MoveTo(r, "done")
  /\ http' = IF status[r] = "200" THEN http + 1 ELSE http
  /\ UNCHANGED <<clock, up, cache, prompt, readAt, madeAt, answer, writes, hits>>

-----------------------------------------------------------------------------
\* The route

\* A mutant of Read: reading an entry renews its time to live.
ReadRenews(r) ==
  LET k == CacheKey(r) IN
  /\ pc[r] = "read" /\ up
  /\ answer' = [answer EXCEPT ![r] = cache[k].answer]
  /\ readAt' = [readAt EXCEPT ![r] = clock]
  /\ cache' = IF cache[k] = Empty THEN cache
              ELSE [cache EXCEPT ![k].expires = clock + Ttl]
  /\ MoveTo(r, "reply")
  /\ UNCHANGED <<clock, up, prompt, madeAt, writes, metricVars>>

\* The store executes the GET; what it has read is on its way to the route.
Read(r) ==
  /\ pc[r] = "read" /\ up
  /\ answer' = [answer EXCEPT ![r] = cache[CacheKey(r)].answer]
  /\ readAt' = [readAt EXCEPT ![r] = clock]
  /\ MoveTo(r, "reply")
  /\ UNCHANGED <<clock, up, cache, prompt, madeAt, writes, metricVars>>

\* The store has read an answer, which is the response.
Hit(r) ==
  /\ pc[r] = "reply" /\ answer[r] # None
  /\ hits' = hits + 1
  /\ readAt' = [readAt EXCEPT ![r] = None]
  /\ Respond(r, "200")
  /\ UNCHANGED <<clock, up, cache, prompt, madeAt, answer, writes, http>>

Miss(r) ==
  /\ pc[r] = "reply" /\ answer[r] = None
  /\ readAt' = [readAt EXCEPT ![r] = None]
  /\ MoveTo(r, "generate")
  /\ UNCHANGED <<clock, up, cache, prompt, madeAt, answer, writes, metricVars>>

\* A mutant of ReadFails: the hit is counted before the payload is looked at.
ReadFailsAsHit(r) ==
  /\ pc[r] \in {"read", "reply"}
  /\ hits' = hits + 1
  /\ readAt' = [readAt EXCEPT ![r] = None]
  /\ answer' = [answer EXCEPT ![r] = None]
  /\ MoveTo(r, "generate")
  /\ UNCHANGED <<clock, up, cache, prompt, madeAt, writes, http>>

\* The lookup raises, for want of a reply or for a payload it cannot use: the
\* route goes on as if nothing was cached.
ReadFails(r) ==
  /\ pc[r] \in {"read", "reply"}
  /\ readAt' = [readAt EXCEPT ![r] = None]
  /\ answer' = [answer EXCEPT ![r] = None]
  /\ MoveTo(r, "generate")
  /\ UNCHANGED <<clock, up, cache, prompt, madeAt, writes, metricVars>>

\* The gateway answers, and the answer is on its way to the cache.
Generated(r) ==
  /\ pc[r] = "generate"
  /\ madeAt' = [madeAt EXCEPT ![r] = clock]
  /\ answer' = [answer EXCEPT ![r] = r]
  /\ writes' = writes \cup {r}
  /\ MoveTo(r, "write")
  /\ UNCHANGED <<clock, up, cache, prompt, readAt, metricVars>>

\* The gateway raises, whatever: nothing catches it.
GatewayFails(r) ==
  /\ pc[r] = "generate"
  /\ Respond(r, "error")
  /\ UNCHANGED <<clock, up, cache, prompt, readAt, madeAt, answer, writes, metricVars>>

\* A mutant of Store: the entry is set without a time to live.
StoreForever(r) ==
  /\ r \in writes /\ up
  /\ cache' = [cache EXCEPT ![CacheKey(r)] = [answer |-> r, expires |-> None]]
  /\ writes' = writes \ {r}

\* The store takes the write of r, whether r still waits for it or not.
Store(r) ==
  /\ r \in writes /\ up
  /\ cache' = [cache EXCEPT ![CacheKey(r)] =
                 [answer |-> r, expires |-> clock + Ttl]]
  /\ writes' = writes \ {r}

\* The response after the write, with the answer of the gateway.
Answer(r) == /\ pc[r] = "write"
             /\ Respond(r, "200")
             /\ UNCHANGED <<clock, up, prompt, readAt, madeAt, answer, metricVars>>

Written(r) == Store(r) /\ Answer(r)

\* A mutant of WriteFails: the write is retried until the store is back.
WriteAwaitsStore(r) == Store(r) /\ Answer(r)

\* The write raises, because the answer is too large or the store silent;
\* the exception is suppressed, and the command may be on its way yet.
WriteFails(r) ==
  /\ Answer(r)
  /\ writes' \in {writes, writes \ {r}}
  /\ UNCHANGED cache

\* The task is cancelled at an await, which no handler on the path catches.
Cancel(r) ==
  /\ pc[r] \in Awaits
  /\ MoveTo(r, "cancelled")
  /\ readAt' = [readAt EXCEPT ![r] = None]
  /\ UNCHANGED <<clock, up, cache, prompt, madeAt, answer, writes, metricVars>>

-----------------------------------------------------------------------------
\* The store and the clock

\* A write whose request has gone reaches the store, or is lost.
WriteArrives(r) ==
  /\ pc[r] # "write"
  /\ \/ Store(r)
     \/ writes' = writes \ {r} /\ r \in writes /\ UNCHANGED cache
  /\ UNCHANGED <<clock, up, requestVars, metricVars>>

\* The store stops answering, or comes back with what it held.
Outage == /\ up' = ~up
          /\ UNCHANGED <<clock, cache, requestVars, writes, metricVars>>

Tick == /\ clock < MaxTime
        /\ \A r \in writes : clock < madeAt[r] + MaxLatency
        /\ \A r \in Requests : pc[r] = "reply" => clock < readAt[r] + MaxLatency
        /\ clock' = clock + 1
        /\ cache' = [k \in Keys |->
                       IF clock + 1 < cache[k].expires THEN cache[k] ELSE Empty]
        /\ UNCHANGED <<up, requestVars, writes, metricVars>>

RequestStep(r) == \/ Arrive(r)
                  \/ Limited(r)
                  \/ Responded(r)
                  \/ Read(r)
                  \/ Hit(r)
                  \/ Miss(r)
                  \/ ReadFails(r)
                  \/ Generated(r)
                  \/ GatewayFails(r)
                  \/ Written(r)
                  \/ WriteFails(r)
                  \/ Cancel(r)

Next == \/ \E r \in Requests : RequestStep(r) \/ WriteArrives(r)
        \/ Outage
        \/ Tick

Spec == Init /\ [][Next]_vars

\* Every await ends: the store's calls by an answer or by their timeout, the
\* gateway's because every request that calls a provider ends (LLMGateway).
Fairness ==
  \A r \in Requests : /\ WF_vars(Limited(r))
                      /\ WF_vars(Hit(r) \/ Miss(r) \/ ReadFails(r))
                      /\ WF_vars(Generated(r) \/ GatewayFails(r))
                      /\ WF_vars(Written(r) \/ WriteFails(r))
                      /\ WF_vars(Responded(r))

FairSpec == Spec /\ Fairness

-----------------------------------------------------------------------------
\* Properties

\* Every variable has its type.
TypeOK ==
  /\ clock \in 0..MaxTime
  /\ up \in BOOLEAN
  /\ cache \in [Keys -> {Empty} \cup [answer : Requests, expires : Nat]]
  /\ pc \in [Requests -> {"new", "done", "cancelled"} \cup Awaits]
  /\ prompt \in [Requests -> Prompts \cup {None}]
  /\ readAt \in [Requests -> 0..MaxTime \cup {None}]
  /\ madeAt \in [Requests -> 0..MaxTime \cup {None}]
  /\ answer \in [Requests -> Requests \cup {None}]
  /\ status \in [Requests -> Statuses \cup {None}]
  /\ writes \subseteq Requests
  /\ hits \in Nat /\ http \in Nat

\* The path implements the answering service: no client is sent an answer
\* that was made for a prompt with another normal form, one that was never
\* made, or two answers, whichever writes are late, lost or overtake others.
Service == INSTANCE AnswerService WITH
             Clients <- Requests,
             Questions <- Keys,
             asked <- [r \in Requests |->
                         IF prompt[r] = None THEN None ELSE Normal[prompt[r]]],
             made <- [k \in Keys |->
                        {r \in Requests : madeAt[r] # None /\ Normal[prompt[r]] = k}],
             got <- [r \in Requests |->
                       IF pc[r] = "done" /\ status[r] = "200" THEN answer[r] ELSE None]

ImplementsAnswerService == Service!Spec

\* No response is made of an answer that is older than the time to live and
\* the time that its write and its reading may take, however often it was read
\* before or written anew.
AnswersFresh ==
  [][\A r \in Requests :
       status[r] = None /\ status'[r] = "200"
         => clock < madeAt'[answer'[r]] + Ttl + 2 * MaxLatency]_vars

\* The hits the cache counts and the responses the middleware counts, with
\* awaits between the two, agree: a 200 that was counted, or is on its way out,
\* or was cancelled there, is either one hit or was made by the gateway for
\* this very client, however many lookups failed and requests were cancelled.
AnswersAccounted ==
  LET fromCache == {r \in Requests : status[r] = "200" /\ answer[r] # r}
      fromGateway == {r \in Requests : status[r] = "200" /\ answer[r] = r}
      uncounted == {r \in Requests : status[r] = "200" /\ pc[r] # "done"}
  IN  /\ hits = Cardinality(fromCache)
      /\ http + Cardinality(uncounted) = hits + Cardinality(fromGateway)

\* Every request ends, with a response or cancelled, even if the store never
\* answers again.
EveryRequestEnds ==
  \A r \in Requests : pc[r] \in Awaits ~> pc[r] \in {"done", "cancelled"}
=============================================================================
