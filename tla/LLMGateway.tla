----------------------------- MODULE LLMGateway -----------------------------
(***************************************************************************)
(* The LLM gateway (llm/gateway.py) over the provider router: concurrent   *)
(* generate() tasks on one asyncio event loop, which share the router's    *)
(* statistics and the Prometheus metrics.                                  *)
(*                                                                         *)
(* A task runs without interruption between two awaits, so an action is    *)
(* the code from one await (the provider's call under wait_for, or the     *)
(* backoff's sleep) to the next.  Python's wait_for runs the call inside   *)
(* the same task, so choosing a provider and calling it is one step, and   *)
(* so is a failed visit and the first call to the next provider.           *)
(***************************************************************************)
EXTENDS ProviderRouter

CONSTANTS Requests,       \* the generate() tasks
          MaxRetries,     \* llm_max_retries
          Timeout,        \* llm_request_timeout_seconds, in ticks
          BaseDelay,      \* llm_retry_base_delay_seconds, in ticks
          MaxDelay,       \* llm_retry_max_delay_seconds, in ticks
          OwnTimeouts,    \* the providers that may time out by themselves, their
                          \* HTTP client's timeout being the shorter one
          Lateness,       \* bound: ticks the event loop is late with a timer
          LastArrival     \* bound: no request arrives after this time

ASSUME GatewayAssumption ==
  /\ MaxRetries \in Nat
  /\ Timeout \in Nat \ {0}
  /\ BaseDelay \in Nat \ {0}
  /\ MaxDelay \in Nat \ {0}
  /\ BaseDelay <= MaxDelay
  /\ OwnTimeouts \subseteq Providers
  /\ Lateness \in Nat
  /\ LastArrival \in Nat

\* The powers of two are numbers: arithmetic the provers have no rule for.
ASSUME PowersAssumption == \A a \in 0..MaxRetries : 2^a \in Nat

VARIABLES
  pc,              \* pc[r]: "new", "calling", "backoff", or how r has ended
  selected,        \* selected[r]: the provider the router chose for r
  index,           \* index[r]: the place of r's provider in its order
  attempt,         \* attempt[r]: retries made of that provider
  arrivedAt,       \* arrivedAt[r]: when r called generate()
  startedAt,       \* startedAt[r]: when r came to its provider
  timer,           \* timer[r]: when r's timeout or backoff is over
  calls,           \* calls[r][p]: the calls provider p has received from r
  requestsTotal,   \* LLM_REQUESTS_TOTAL by name and status; the errors are
                   \* also those of LLM_ERRORS_TOTAL
  retriesTotal,    \* LLM_RETRIES_TOTAL by name
  fallbacksTotal,  \* LLM_FALLBACKS_TOTAL by the two names
  selectedTotal,   \* LLM_PROVIDER_SELECTED_TOTAL by name
  gauges           \* the LLM_PROVIDER_* gauges by name

taskVars == <<pc, selected, index, attempt, arrivedAt, startedAt, timer, calls>>
metricVars == <<requestsTotal, retriesTotal, fallbacksTotal, selectedTotal, gauges>>
vars == <<routerVars, taskVars, metricVars>>

InFlightPC == {"calling", "backoff"}
EndPC == {"answered", "exhausted", "rejected", "abandoned"}
InFlight == {r \in Requests : pc[r] \in InFlightPC}

-----------------------------------------------------------------------------
\* Mutant of Ordered: the selected provider is not left out of the rest.
OrderedWithRepeat(p) == [k \in Providers |-> IF k = 1 THEN p ELSE k - 1]

\* The selected provider first, the others in their configured order.
Ordered(p) == [k \in Providers |->
                 IF k = 1 THEN p ELSE IF k <= p THEN k - 1 ELSE k]

\* The provider that request r is at.
Current(r) == Ordered(selected[r])[index[r]]

\* Mutant of Backoff: the delay is not capped.
BackoffUncapped(a) == BaseDelay * 2^a

\* The delay before the retry that follows retry a.
Backoff(a) == IF BaseDelay * 2^a < MaxDelay THEN BaseDelay * 2^a ELSE MaxDelay

\* _update_provider_metrics(): the gauges show the router as it is now.
Published == [n \in Names |->
                [requests |-> stats[n].requests,
                 consecutiveFailures |-> stats[n].consecutiveFailures,
                 healthy |-> Available(n)]]

Init ==
  /\ RouterInit
  /\ pc = [r \in Requests |-> "new"]
  /\ selected = [r \in Requests |-> 1]
  /\ index = [r \in Requests |-> 1]
  /\ attempt = [r \in Requests |-> 0]
  /\ arrivedAt = [r \in Requests |-> 0]
  /\ startedAt = [r \in Requests |-> 0]
  /\ timer = [r \in Requests |-> 0]
  /\ calls = [r \in Requests |-> [p \in Providers |-> 0]]
  /\ requestsTotal = [n \in Names |-> [success |-> 0, error |-> 0]]
  /\ retriesTotal = [n \in Names |-> 0]
  /\ fallbacksTotal = [pair \in Names \X Names |-> 0]
  /\ selectedTotal = [n \in Names |-> 0]
  /\ gauges = Published

-----------------------------------------------------------------------------
\* Steps of several actions

\* Request r calls provider p under wait_for.
CallProvider(r, p) ==
  /\ pc' = [pc EXCEPT ![r] = "calling"]
  /\ timer' = [timer EXCEPT ![r] = now + Timeout]
  /\ calls' = [calls EXCEPT ![r][p] = @ + 1]

\* Request r comes to provider p, the k-th of its order.
Visit(r, p, k) ==
  /\ CallProvider(r, p)
  /\ index' = [index EXCEPT ![r] = k]
  /\ attempt' = [attempt EXCEPT ![r] = 0]
  /\ startedAt' = [startedAt EXCEPT ![r] = now]

\* Request r ends, and its local variables with it; selected and index stay to
\* tell where it was.
End(r, how) ==
  /\ pc' = [pc EXCEPT ![r] = how]
  /\ attempt' = [attempt EXCEPT ![r] = 0]
  /\ arrivedAt' = [arrivedAt EXCEPT ![r] = 0]
  /\ startedAt' = [startedAt EXCEPT ![r] = 0]
  /\ timer' = [timer EXCEPT ![r] = 0]
  /\ UNCHANGED <<selected, index, calls>>

CountSuccess(n) == requestsTotal' = [requestsTotal EXCEPT ![n].success = @ + 1]
CountError(n) == requestsTotal' = [requestsTotal EXCEPT ![n].error = @ + 1]

\* Mutant of VisitFails: the gauges are published before the failure is
\* recorded.
VisitFailsUnpublished(r) ==
  /\ CountError(Chain[Current(r)])
  /\ RecordFailure(Current(r))
  /\ gauges' = Published
  /\ UNCHANGED <<now, retriesTotal, selectedTotal>>

\* The visit of r to its provider has failed: the router and the gauges are
\* told.
VisitFails(r) ==
  /\ CountError(Chain[Current(r)])
  /\ RecordFailure(Current(r))
  /\ UNCHANGED now
  /\ gauges' = Published'
  /\ UNCHANGED <<retriesTotal, selectedTotal>>

-----------------------------------------------------------------------------
\* Actions

\* generate() up to its first await.
Start(r) ==
  /\ pc[r] = "new"
  /\ now <= LastArrival
  /\ \E p \in Providers :
       /\ Selects(p)
       /\ selected' = [selected EXCEPT ![r] = p]
       /\ selectedTotal' = [selectedTotal EXCEPT ![Chain[p]] = @ + 1]
       /\ Visit(r, p, 1)
  /\ arrivedAt' = [arrivedAt EXCEPT ![r] = now]
  /\ gauges' = Published
  /\ UNCHANGED <<routerVars, requestsTotal, retriesTotal, fallbacksTotal>>

\* The provider answers.  Its answer may still win when the timeout is due.
Answer(r) ==
  /\ pc[r] = "calling"
  /\ CountSuccess(Chain[Current(r)])
  /\ RecordSuccess(Current(r), now - startedAt[r])
  /\ UNCHANGED now
  /\ gauges' = Published'
  /\ End(r, "answered")
  /\ UNCHANGED <<retriesTotal, fallbacksTotal, selectedTotal>>

\* Mutants of Retry: one retry too many, and every failed attempt recorded by
\* the router.
RetryOnceMore(r) ==
  /\ pc[r] = "calling"
  /\ attempt[r] <= MaxRetries
  /\ CountError(Chain[Current(r)])
  /\ retriesTotal' = [retriesTotal EXCEPT ![Chain[Current(r)]] = @ + 1]
  /\ pc' = [pc EXCEPT ![r] = "backoff"]
  /\ timer' = [timer EXCEPT ![r] = now + Backoff(attempt[r])]
  /\ UNCHANGED <<routerVars, selected, index, attempt, arrivedAt, startedAt, calls,
                 fallbacksTotal, selectedTotal, gauges>>

\* A transient failure with retries left: a rate limit, an unavailable
\* provider or a timeout of wait_for.
Retry(r) ==
  /\ pc[r] = "calling"
  /\ attempt[r] < MaxRetries
  /\ CountError(Chain[Current(r)])
  /\ retriesTotal' = [retriesTotal EXCEPT ![Chain[Current(r)]] = @ + 1]
  /\ pc' = [pc EXCEPT ![r] = "backoff"]
  /\ timer' = [timer EXCEPT ![r] = now + Backoff(attempt[r])]
  /\ UNCHANGED <<routerVars, selected, index, attempt, arrivedAt, startedAt, calls,
                 fallbacksTotal, selectedTotal, gauges>>

\* The visit failed transiently and another provider is left.
FallBack(r) ==
  LET next == Ordered(selected[r])[index[r] + 1] IN
  /\ index[r] < Len(Chain)
  /\ VisitFails(r)
  /\ fallbacksTotal' =
       [fallbacksTotal EXCEPT ![<<Chain[Current(r)], Chain[next]>>] = @ + 1]
  /\ Visit(r, next, index[r] + 1)
  /\ UNCHANGED <<selected, arrivedAt>>

\* Mutant of Exhaust: the last provider but one is taken for the last.
ExhaustEarly(r) ==
  /\ index[r] + 1 >= Len(Chain)
  /\ VisitFails(r)
  /\ End(r, "exhausted")
  /\ UNCHANGED fallbacksTotal

\* The visit failed transiently and it was the last one.
Exhaust(r) ==
  /\ index[r] = Len(Chain)
  /\ VisitFails(r)
  /\ End(r, "exhausted")
  /\ UNCHANGED fallbacksTotal

LeaveProvider(r) == FallBack(r) \/ Exhaust(r)

\* Mutant of GiveUp: the last retry is not made.
GiveUpTooSoon(r) ==
  /\ pc[r] = "calling"
  /\ attempt[r] + 1 >= MaxRetries
  /\ LeaveProvider(r)

\* A transient failure and no retry left.
GiveUp(r) ==
  /\ pc[r] = "calling"
  /\ attempt[r] >= MaxRetries
  /\ LeaveProvider(r)

\* The provider itself raises LLMProviderTimeoutError, its HTTP client having
\* timed out: the retry loop treats it as any LLMProviderError, generate() as
\* a transient failure.
ProviderTimesOut(r) ==
  /\ pc[r] = "calling"
  /\ Current(r) \in OwnTimeouts
  /\ LeaveProvider(r)

\* Mutant of Reject: the router is not told.
RejectUnrecorded(r) ==
  /\ pc[r] = "calling"
  /\ CountError(Chain[Current(r)])
  /\ End(r, "rejected")
  /\ UNCHANGED <<routerVars, retriesTotal, fallbacksTotal, selectedTotal, gauges>>

\* An authentication error, an invalid response or any other
\* LLMProviderError is passed on.
Reject(r) ==
  /\ pc[r] = "calling"
  /\ VisitFails(r)
  /\ End(r, "rejected")
  /\ UNCHANGED fallbacksTotal

\* An exception that is no LLMProviderError, or the task's cancellation,
\* ends the task; no handler of the gateway sees it.
Abandon(r) ==
  /\ pc[r] \in InFlightPC
  /\ End(r, "abandoned")
  /\ UNCHANGED <<routerVars, metricVars>>

\* Mutants of BackoffEnds: the retry goes to the selected provider, and it is
\* not counted.
BackoffEndsAtSelected(r) ==
  /\ pc[r] = "backoff"
  /\ now >= timer[r]
  /\ attempt' = [attempt EXCEPT ![r] = @ + 1]
  /\ CallProvider(r, selected[r])
  /\ UNCHANGED <<routerVars, selected, index, arrivedAt, startedAt, metricVars>>

BackoffEndsUncounted(r) ==
  /\ pc[r] = "backoff"
  /\ now >= timer[r]
  /\ CallProvider(r, Current(r))
  /\ UNCHANGED <<routerVars, selected, index, attempt, arrivedAt, startedAt, metricVars>>

\* The sleep is over and the retry loop calls the provider again.
BackoffEnds(r) ==
  /\ pc[r] = "backoff"
  /\ now >= timer[r]
  /\ attempt' = [attempt EXCEPT ![r] = @ + 1]
  /\ CallProvider(r, Current(r))
  /\ UNCHANGED <<routerVars, selected, index, arrivedAt, startedAt, metricVars>>

\* Mutant of TimesOut: a timeout is only handled while retries are left.
TimesOutWithRetry(r) ==
  /\ now >= timer[r]
  /\ Retry(r)

\* wait_for's timer fires.
TimesOut(r) ==
  /\ now >= timer[r]
  /\ Retry(r) \/ GiveUp(r)

\* Time passes while a request may still come or is in flight, and no timer
\* is later than the event loop can be.
Tick ==
  /\ now < LastArrival \/ InFlight # {}
  /\ \A r \in InFlight : now < timer[r] + Lateness
  /\ now' = now + 1
  /\ UNCHANGED <<stats, taskVars, metricVars>>

\* Every request has ended and no other comes.
Quiet ==
  /\ InFlight = {} /\ now >= LastArrival
  /\ UNCHANGED vars

TaskStep(r) == \/ Start(r)
               \/ Answer(r)
               \/ Retry(r)
               \/ GiveUp(r)
               \/ ProviderTimesOut(r)
               \/ Reject(r)
               \/ Abandon(r)
               \/ BackoffEnds(r)

Next == \/ \E r \in Requests : TaskStep(r)
        \/ Tick
        \/ Quiet

Spec == Init /\ [][Next]_vars

\* The event loop runs the timers that are due, and time passes.  Nothing
\* obliges a provider to answer or a client to send a request.
Fairness == /\ WF_vars(Tick)
            /\ \A r \in Requests : /\ WF_vars(TimesOut(r))
                                   /\ WF_vars(BackoffEnds(r))

FairSpec == Spec /\ Fairness
=============================================================================
