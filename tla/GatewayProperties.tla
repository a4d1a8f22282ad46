-------------------------- MODULE GatewayProperties --------------------------
(***************************************************************************)
(* What the gateway guarantees about its tasks, the router's statistics    *)
(* and the metrics, and how it implements the FallbackChain.               *)
(***************************************************************************)
EXTENDS LLMGateway, FiniteSets, Functions

Counts == [success : Nat, error : Nat]
Gauge == [requests : Nat, consecutiveFailures : Nat, healthy : BOOLEAN]

\* Every variable has its type.
TypeOK ==
  /\ RouterTypeOK
  /\ pc \in [Requests -> {"new"} \cup InFlightPC \cup EndPC]
  /\ selected \in [Requests -> Providers]
  /\ index \in [Requests -> Providers]
  /\ attempt \in [Requests -> 0..MaxRetries]
  /\ arrivedAt \in [Requests -> Nat]
  /\ startedAt \in [Requests -> Nat]
  /\ timer \in [Requests -> Nat]
  /\ calls \in [Requests -> [Providers -> Nat]]
  /\ requestsTotal \in [Names -> Counts]
  /\ retriesTotal \in [Names -> Nat]
  /\ fallbacksTotal \in [Names \X Names -> Nat]
  /\ selectedTotal \in [Names -> Nat]
  /\ gauges \in [Names -> Gauge]

\* A task's local variables fit where it is: a sleeping task has a retry left,
\* and it came to its provider after it came to the gateway.
TasksConsistent ==
  \A r \in Requests : /\ pc[r] = "backoff" => attempt[r] < MaxRetries
                      /\ arrivedAt[r] <= startedAt[r]
                      /\ startedAt[r] <= now

-----------------------------------------------------------------------------
\* Calls

\* A provider that r has left without an answer.
Passed(r, k) == k < index[r] \/ pc[r] = "exhausted"

\* The calls of a request follow the order of its providers: those it has
\* passed have had the first call and every retry, no more and no fewer, unless
\* they time out by themselves, and a failure the router recorded; the current
\* one has had as many calls as retries and one, and the others none.
CallsFollowOrder ==
  \A r \in Requests :
    /\ pc[r] = "new" => \A p \in Providers : calls[r][p] = 0
    /\ pc[r] = "exhausted" => index[r] = Len(Chain)
    /\ pc[r] # "new" =>
         \A k \in Providers :
           LET p == Ordered(selected[r])[k] IN
           /\ k <= index[r] => calls[r][p] \in 1..MaxRetries + 1
           /\ k > index[r] => calls[r][p] = 0
           /\ k = index[r] /\ pc[r] \in InFlightPC => calls[r][p] = attempt[r] + 1
           /\ Passed(r, k) => /\ stats[Chain[p]].failures > 0
                              /\ p \notin OwnTimeouts => calls[r][p] = MaxRetries + 1

\* No request calls any provider more often than the retry limit allows,
\* however often it fails and whatever order the router gave it.
CallBudget == \A r \in Requests, p \in Providers : calls[r][p] <= MaxRetries + 1

\* A caller is told that every provider failed only if its request has called
\* each of them and the router has recorded a failure of each.
ExhaustedAfterAll ==
  \A r \in Requests : pc[r] = "exhausted" =>
    \A p \in Providers : calls[r][p] > 0 /\ stats[Chain[p]].failures > 0

\* One request's calls follow the abstract chain: a provider is not called
\* again after the next one, and its calls stay within the budget.
Caller == INSTANCE FallbackChain WITH
            Clients <- Requests,
            Backends <- Providers,
            Budget <- MaxRetries + 1,
            status <- [r \in Requests |->
                         IF pc[r] \in InFlightPC THEN "trying" ELSE pc[r]],
            current <- [r \in Requests |-> Current(r)],
            calls <- calls

ImplementsFallbackChain == Caller!Spec

-----------------------------------------------------------------------------
\* Statistics and metrics

\* An error counted by an attempt is either a retry or the failure of the
\* visit, and a success counted by an attempt is the visit's: the attempts'
\* metrics and the router's statistics, written by two functions, agree for
\* every name at every await, whatever ends the tasks.
AttemptsAccounted ==
  \A n \in Names :
    /\ requestsTotal[n].error = retriesTotal[n] + stats[n].failures
    /\ requestsTotal[n].success = stats[n].successes

\* The fallbacks that ended at name n, whoever failed before it.
FallbacksTo(n) == SumFunction([m \in Names |-> fallbacksTotal[<<m, n>>]])

\* The requests on a visit to name n, or abandoned on it.
Visiting(n) == {r \in Requests : /\ pc[r] \in InFlightPC \cup {"abandoned"}
                                 /\ Chain[Current(r)] = n}

\* Every visit to a provider, by selection or by fallback, is recorded by the
\* router exactly once when it ends, except the visits in flight and those
\* whose task has been abandoned.
VisitsAccounted ==
  \A n \in Names :
    selectedTotal[n] + FallbacksTo(n) = stats[n].requests + Cardinality(Visiting(n))

\* The gauges show the router's counters at every await, and never show a
\* provider as healthy that the router would skip.
GaugesSound ==
  \A n \in Names :
    /\ gauges[n].requests = stats[n].requests
    /\ gauges[n].consecutiveFailures = stats[n].consecutiveFailures
    /\ gauges[n].healthy => Available(n)

\* The healthy gauge tells whether the provider is currently considered
\* healthy (observability/llm_metrics.py:81).
HealthyGaugeCurrent == \A n \in Names : gauges[n].healthy = Available(n)

-----------------------------------------------------------------------------
\* Time

\* The longest attempt that is retried, its call and its sleep both late.
RetryBound == Timeout + MaxDelay + 2 * Lateness

\* The longest visit to one provider.
VisitBound == MaxRetries * RetryBound + Timeout + Lateness

\* A request in flight is never older than the visits it may have made, and
\* the latencies that the router averages are bounded by one visit each.
InTime ==
  /\ \A r \in InFlight : /\ now - startedAt[r] <= VisitBound
                         /\ now - arrivedAt[r] <= index[r] * VisitBound
  /\ \A n \in Names : stats[n].totalLatency <= stats[n].successes * VisitBound

\* A transient failure is retried while retries are left: a request leaves a
\* provider for the next, or gives up, only after its last retry
\* (gateway.py:46, "Retry transient provider failures.").
TransientRetried ==
  [][\A r \in Requests :
       pc[r] = "calling" /\ (index'[r] # index[r] \/ pc'[r] = "exhausted")
         => attempt[r] = MaxRetries]_vars

-----------------------------------------------------------------------------
\* Progress

\* The steps that request r can still make: one for each call and each backoff
\* that its provider and those after it in its order have left.
StepsLeft(r) ==
  IF pc[r] \in InFlightPC
  THEN (Len(Chain) - index[r]) * (2 * MaxRetries + 1) + 2 * (MaxRetries - attempt[r])
         + (IF pc[r] = "calling" THEN 1 ELSE 0)
  ELSE 0

\* What request r has of the event loop.
TaskOf(r) == <<pc[r], selected[r], index[r], attempt[r], arrivedAt[r], startedAt[r],
               timer[r], calls[r]>>

\* A request that has started only ever comes closer to its end: retries,
\* backoffs and fallbacks use up what it has left, no other request's step
\* gives it more, and once ended it stays so.
StepsRunOut ==
  [][\A r \in Requests :
       pc[r] # "new" => TaskOf(r)' = TaskOf(r) \/ StepsLeft(r)' < StepsLeft(r)]_vars

\* Every request that calls a provider ends, even if no provider ever answers.
EveryRequestEnds ==
  \A r \in Requests : pc[r] \in InFlightPC ~> pc[r] \in EndPC
=============================================================================
