# NEXUS AI Platform: specifications, model checks and proofs

This directory holds the TLA+ project kept beside the NEXUS gateway: modules
that model its stateful components, TLC configurations that check them on small
instances, and theorems that TLAPS proves for every value of the constants.
`PROJECT.json` lists components, runs, mutants, hazards and theorems, and maps
every definition to the source lines it stands for.

## 1. Inventory of the system

NEXUS is an HTTP gateway to LLM providers: FastAPI replicas behind NGINX, one
Valkey/Redis store they share, and the providers' HTTP APIs. Everything in
Python runs on one asyncio event loop per replica, so the unit of interleaving
is the code between two awaits.

| Component (`src/src/nexus/...`) | State | Operations | What is hard, and what must hold |
|---|---|---|---|
| Provider router, `llm/routing/router.py` | `ProviderStats` per provider name | `select_provider`, `record_success`, `record_failure`, `get_stats`, `get_scores` | Results arrive late and in any order; a breaker closes only by a success and opens at the threshold; the choice exists, is unique, is not dominated |
| LLM gateway, `llm/gateway.py` | the tasks' locals, Prometheus counters and gauges | `generate`, `_generate_with_retry`, `_backoff`, `_update_provider_metrics` | Many tasks share router and metrics; retries, timeouts and fallbacks compose; every task ends, in time, within its budget of calls; metrics agree with the router |
| Rate limiter, `cache/services/rate_limiter.py` on `cache/adapters/redis.py` | one counter per caller, window and bucket, in the store | `check` (two atomic increments) | Many workers; clock read before two awaits; keys expire; a command may be late; no more checks than the limit; Retry-After is enough |
| Request path, `api/middleware.py`, `security/auth.py`, `api/dependencies.py`, `api/routes/generate.py` | HTTP counters | one request from arrival to response | Store failures on three awaits, cancellation; every request ends and is counted once |
| Semantic cache, `cache/services/semantic_cache.py` | entries with a time to live, in the store | `get`, `set`, `delete` | Concurrent misses, late writes; an answer fits the prompt and is fresh |
| Provider adapters, `llm/providers/*.py` | none | `generate`: HTTP result to answer or error class | Bodies come from outside, in any shape; every one must end in an answer or in an error class the gateway knows |
| HTTP pool and lifespan, `llm/http/client.py`, `main.py` | started flag, client | startup, `start`, `close` | Requests in flight at shutdown, start after close, one pool for all providers; no call meets a closed client; wait_for ends a call before httpx does; the shutdown ends |
| Provider factory, `llm/factory.py` | none | configuration to provider list | Blank entries, case, duplicates, missing keys; the chain is the configured one or the application does not start |
| Session memory, `cache/services/memory.py`, `cache/adapters/redis_memory.py` | list per session, in the store | `append`, `get_recent`, `clear` | Concurrent callers, lost replies, late commands; reads show the newest messages in order, clears forget; no route uses it yet |
| Health, metrics and rate-limit routes; guardrail; legacy `llm/services/gateway.py`; configuration; logging; tracing; proxy and alert rules | none of their own | read-only handlers, or called by nothing | nothing that needs a model |

Interaction: NGINX sends a request to a replica; the middleware counts it;
`require_api_key` and `RateLimiter.check` admit it; the route asks the semantic
cache, then the gateway, then writes the cache. The gateway asks the router for
a provider, calls it, reports the result to the router and publishes the
router's state to Prometheus. Redis is the only state the replicas share.

## 2. Modules

| Module | Models | Relation to others |
|---|---|---|
| `CircuitBreaker` | what the router promises of one breaker per name (abstract) | implemented by `ProviderRouter`, whoever drives it |
| `ProviderRouter` | the router: statistics, breaker, score, selection, the two recording operations, and what they promise any driver | driven by `RouterClients` and by `LLMGateway` |
| `RouterClients` | arbitrary clients of the router | EXTENDS `ProviderRouter` |
| `FallbackChain` | what the gateway promises to one request (abstract) | implemented by `LLMGateway` |
| `LLMGateway` | concurrent `generate()` tasks, retries, timers, fallback, metrics | EXTENDS `ProviderRouter` |
| `GatewayProperties` | the gateway's type invariant, properties and refinement mapping | EXTENDS `LLMGateway` |
| `RateLimiter` | concurrent `check()` calls over the increment script | on its own |
| `AnswerService` | what the generate endpoint promises of its answers (abstract) | implemented by `GenerateRoute` |
| `GenerateRoute` | the path of `POST /v1/generate` with the semantic cache | takes any result of `RateLimiter` and of `LLMGateway` |
| `SessionLog` | what session memory promises of one session (abstract) | implemented by `SessionMemory` |
| `SessionMemory` | concurrent `append`, `get_recent` and `clear` calls over the store's transactions | on its own |
| `SharedPool` | what the HTTP pool promises the calls that share it (abstract) | implemented by `ProviderCalls` |
| `ProviderPayloads` | JSON bodies of any shape, and what each adapter makes of them | used by `ProviderCalls` |
| `ProviderCalls` | startup with the factory, the pool, the providers' calls and the shutdown | EXTENDS `ProviderPayloads`; takes any order of calls from `LLMGateway` |
| `MC*` | instances for TLC | EXTEND the above |
| `*Proofs` | theorems and lemmas | EXTEND the above and TLAPS |

Operators whose comment says *mutant* are faulty variants of the definition
after them. The specification uses none of them; they serve to show that a
property notices the fault.

### Provider router

A provider is its position in the configured list `Chain`; statistics are kept
by name, so duplicate names share them as they do in the code. `Selects(p)`
says that `select_provider` returns entry `p`: the first entry of a name without
requests, else the first of the best scores among the available, else among
all. A score is kept as an exact fraction (average latency plus failure rate),
compared by cross-multiplication; floating-point rounding is not modelled.
`Second` is the number of ticks that the neutral latency of 1.0 stands for.
`record_success` is modelled for the non-negative latencies the gateway gives it.

### Gateway

One action is the code from one await to the next. `Start` is `generate` up to
the first provider call; `Answer` is the return; `Retry` is a transient failure
with retries left, up to the backoff's sleep; `BackoffEnds` the next call;
`GiveUp` and `ProviderTimesOut` leave the provider by `FallBack` (the failure is
recorded and the next provider is called, in one step) or by `Exhaust`; `Reject`
is an error that is passed on; `Abandon` is an exception or cancellation that no
handler sees. The provider is external: it may answer, fail in any class or stay
silent at any time; only those in `OwnTimeouts`, whose own client gives up before
`wait_for` does, take `ProviderTimesOut`. `timer` is the deadline of `wait_for` or of the sleep; a
call may also be answered or fail after the deadline while the timer is late.
`LLM_REQUESTS_TOTAL` and `LLM_ERRORS_TOTAL` are moved together by the code, so
one variable stands for both; latency histograms, error-type labels and traces
are left out.

### Rate limiter

Callers have keys of their own, so one caller is modelled. A check reads the
clock (`ReadClock`), is counted twice (`CountMinute`, `CountHour`) and decides.
`Raise` is a round trip that fails; its command may be lost or may still arrive
(`CountLate`). The store drops keys when their time is up. `MaxLatency < Minute`
stands for a socket timeout of one second and a connect timeout of two against a
window of sixty. Workers and store share one clock: skew of a worker that is
behind has the same effect as latency, skew of one that is ahead is not modelled.

### Request path and semantic cache

`Arrive` begins when the body has been read: the parser may refuse it (422),
`require_api_key` the key (401, 503, or 500 for one that is not ASCII). `Limited`
is the rate limit dependency and the body's validation after it; a request that
passes has a prompt. `Read` is the store's execution of the lookup, `Hit` and
`Miss` what the route does when the reply has come, `ReadFails` a lookup that
raises; `Generated` and `GatewayFails` are the gateway's result, `Written` and
`WriteFails` the suppressed cache write. A response is then on its way out
(`respond`) until the middleware counts it (`Responded`), so the cache's counter
and the middleware's move at different awaits; `Cancel` is the cancellation of
the task at any of them. The store may fail and come back at any time with its
data. A write whose response was lost may arrive later (`WriteArrives`), up to
`MaxLatency` after the answer was made, and a reply may be as long on its way.
`Normal` is `_normalize`: a function under which several
prompts share one key; hash collisions are not modelled. The answer that the
gateway makes for a request is named by that request.

### Session memory

Sessions do not share keys, so one session is modelled. A call is `Send` (the
code up to its await), `Execute` (the store runs its commands, which the adapter
puts into one transaction: `AppendBounded` is RPUSH, LTRIM and EXPIRE) and
`Return`; `Reject` is the size check of `append`. `Fail` is a round trip that
ends without a reply: its commands were executed, are lost, or are still on
their way (`ExecuteLate`). They are executed at most once, because the client
that `from_url` makes does not retry. `Tick` drops the key when its time is up.
`Malformed` messages are those whose role or content is no string, which
`append` takes and `get_recent` raises for. `executedAt`, `earlier` and `history` are
history variables: no guard reads them. The number that `clear` returns is left
out.

### Provider payloads and calls

A JSON value is a record with a `kind`; `Field` and `First` are Python's
subscripts with the exception each raises. `Content` follows the subscripts of
an adapter through a body, `ParseError` and `StatusError` say which error class
comes of it, and `Outcome` is the end of `generate`. A body nested too deeply for
the decoder (`TooDeep`) raises a `RecursionError`, which neither the adapter nor
the gateway names: the request is over (`Abandon` in `LLMGateway`). The Groq and the Mistral
adapter differ in names only. Statuses below 400 take one branch in the code,
so 200 stands for them.

An entry of `LLM_PROVIDER` is a word with its case and the spaces around it;
`Strip`, `Lower` and `IsBlank` are what the factory does with it before it
compares it with the names it knows. `Startup` is the lifespan up to its yield:
it starts the pool and builds the chain, or fails if the factory raises. `Drain` is the server that takes no more
requests; it waits for those it has accepted before the lifespan goes on, which
is `Close` (uvicorn's behaviour without a limit on graceful shutdown, as the
container starts it). `Arrive` is the server's acceptance of a request, whose
time in the dependencies and the cache is time it is ready. A request makes its calls one after the other: `Call` is an
adapter's `generate` up to its first await, lazy start of the pool included;
`Connect` takes one of the pool's connections; `Proceed` begins the next HTTP
operation, which has a timeout of its own; `Respond`, `NetworkFails` and
`TimesOut` end the call. `age` is the time since `wait_for` was set, `opAge` the
time since the operation began; if both are due, `wait_for`'s timer runs first,
because it was set first. Which provider is called, and how often, is
`LLMGateway`'s; here any provider of the chain may be called up to `MaxCalls` times. The
adapters' branch without a pool is never taken in the application and is left
out.

## 3. What the runs check

| Run | Instance | Shows |
|---|---|---|
| `router` | 3 entries, 2 of one name; threshold 3, cooldown 2, 4 results per name, clock to 3, latencies 0, 1, 3 | statistics consistent, choice unique and not dominated, a failure never promotes, the router implements `CircuitBreaker` |
| `retries` | 2 requests, 2 providers, one with a timeout of its own, 1 retry, timers up to 1 tick late | call order, no call too many and none too few, and with it the budget, metrics agree with the router, the gateway implements `FallbackChain` |
| `crowd` | 3 requests arriving over 2 ticks, 3 entries, threshold 2, cooldown 2, no retry | exhaustion is real, every visit is recorded once, gauges are never optimistic |
| `deadline` | 2 requests, 2 retries, backoff capped below its second value, fairness | every step uses up steps the request had left; every request ends, within its bound |
| `limiter` | 4 checks, limits 1 and 2, minute 2, hour 4, clock to 5, latency 1 | the limit holds for checks counted in their window and at most doubles otherwise; rejections are justified by the window that is exceeded; Retry-After leads to a new bucket; counters go |
| `answers` | 3 requests, 3 prompts of 2 questions, time to live 2, latency 1 of writes and replies, clock to 4 | the path implements `AnswerService`; answers are fresh; cache and HTTP counters agree |
| `responses` | 2 requests, fairness | every request ends though the store may never answer again |
| `session_memory` | 4 messages (1 too large, 1 malformed), 1 read, 1 clear, window 2, time to live 2, clock to 2, 2 calls in flight or late | reads are those of a log that is never trimmed; they see what was acknowledged, in order and without gaps; clears forget; the store keeps the window only |
| `provider_calls` | 5 configurations with entries in either case and with or without spaces, 3 sets of keys, 2 requests of 2 calls, 1 connection, timeout 2, 5 statuses, every body that departs from the format at one level, fairness | the chain is the configured one; every response ends in an answer or a known error; wait_for times out first; no call meets a closed pool; the calls implement `SharedPool`; the shutdown ends |
| `gauge_stale`, `timeout_not_retried`, `limit_exceeded` | small instances | the three divergences of section 6 |

Why the bounds are enough. The router's threshold is the code's own 3, and four
results and three ticks per name take a breaker through opening, cooldown,
failed probe and recovery. `MaxRequests` and `MaxTime` only bound how long the
clients go on. In the gateway's instances the retry counter, the fallback and
the breakers pass through all their cases: `crowd` has enough requests to trip a
breaker (threshold 2) and to arrive while it is open and after it has cooled
down; `retries` has a retry on each provider of each request; `LastArrival`
bounds the arrivals, and the clock stops when no request is in flight. `Lateness`
is how late the event loop may serve a timer. Lower thresholds than the code's are
safe, because the threshold is a constant of the model and the theorems hold for
all of its values. The limiter's clock covers two minutes, the first hour's end
and one tick of the next; four checks can exceed doubled limits. For the route a
time to live of two and a clock to four let an entry be written late, read late,
overwritten and expire: an answer of age four is the first one too old. In session memory three messages that can be stored overflow
a window of two, a call can be late while another is in flight, and the time to
live ends within the clock; messages that are alike are symmetric. For the
provider calls one connection makes the second request wait for it until its
timer is due, and two calls per request let a call follow one that has failed;
the configurations have a blank entry, a duplicate, upper case with spaces, an
unknown name, and a missing or blank key in the middle of a list. `OwnTimeouts`
holds one of two providers in `retries`, so that both kinds are passed.

Deadlock. The gateway's runs check it: the only state in which nothing but
`Quiet` (an idle loop) happens is the one in which all requests have ended. The
runs of `RouterClients`, `RateLimiter`, `GenerateRoute`, `SessionMemory` and
`ProviderCalls` set `CHECK_DEADLOCK FALSE`, because their clocks, clients, calls
and requests are finite and the system really stops when they are used up.

Fairness. `LLMGateway`'s `Fairness` is weak fairness of the clock and of the due
timers (`wait_for`'s and the sleep's), which the event loop justifies; no
fairness is assumed of providers or clients. `GenerateRoute`'s is weak fairness
of each await's end: store calls end by their socket timeouts and gateway calls
by `EveryRequestEnds` of the gateway. Each fair action is the disjunction of all
ways that await can end, so no particular outcome is assumed. `ProviderCalls`
assumes weak fairness of the clock, of each due timer, of a task that is ready
to run (its next call or its end) and of `Close` once nothing is in flight; no
provider and no connection is owed an answer. Liveness runs use no symmetry.

## 4. What is proved

All theorems hold for every list of providers, every number of requests, and
every value of the other constants that satisfies the named assumptions
(`ChainAssumption`, `RouterAssumption`, `ClientsAssumption`,
`GatewayAssumption`, `LimiterAssumption`, `RouteAssumption`,
`MemoryAssumption`, `CallsAssumption`). `PowersAssumption` states that `2^a` is a natural number
for the retries that can occur; it is true, the provers have no rule for powers,
and TLC evaluates it in every gateway run.

| Theorem (module) | Property |
|---|---|
| `RouterKeepsInv`, `RouterRefinesBreaker`, `RouterSelectsOne`, `RouterSelectsUndominated`, `RouterNeverPromotes` (`ProviderRouterProofs`) | the router's properties, from `RouterSpec`: for any driver |
| `ClientsDriveRouter` (`RouterClientsProofs`), `GatewayDrivesRouter` (`GatewayProofs`) | arbitrary clients, and the gateway, satisfy `RouterSpec` |
| `RouterInvariant`, `RouterTypes`, `RouterImplementsBreaker`, `SelectionAlwaysUnique`, `NoneSelectedDominated`, `FailuresNeverPromote` (`RouterClientsProofs`) | `TypeOK`, `StatsConsistent`, `ImplementsBreaker`, `SelectionIsUnique`, `SelectedNotDominated`, `FailureNeverPromotes` of the clients' specification |
| `GatewayImplementsBreaker`, `GatewaySelectionUnique`, `GatewaySelectionUndominated`, `GatewayFailuresNeverPromote` (`GatewayProofs`) | the same of the router inside the gateway |
| `GatewayTypes`, `GatewayTypeOK` (`GatewayProofs`) | `TypeOK` of the gateway, and strengthened |
| `MetricsAgree`, `GaugesNeverOptimistic` (`GatewayProofs`) | `AttemptsAccounted`, `GaugesSound` |
| `GaugesWrongOnlyAfterCooldown` (`GatewayProofs`) | the extent of the first divergence of section 6 |
| `RequestsInTime` (`GatewayProofs`) | `InTime` |
| `CallsInOrder`, `CallsWithinBudget`, `ExhaustionIsReal` (`GatewayCallsProofs`) | `CallsFollowOrder`, `CallBudget` (a consequence), `ExhaustedAfterAll` |
| `RequestsRunDown`, `StepsBounded` (`GatewayCallsProofs`) | `StepsRunOut`, and the bound of `StepsLeft` |
| `VisitsAreAccounted` (`GatewayCallsProofs`) | `VisitsAccounted` |
| `GatewayImplementsFallbackChain` (`GatewayCallsProofs`) | `ImplementsFallbackChain` |
| `LimiterTypes`, `LimitIsKept`, `CountersAreGone`, `RetryAfterIsEnough` (`RateLimiterProofs`) | `TypeOK`, `LimitHolds`, `CountersGo`, `RetryAfterSuffices` |
| `LimitAtMostDoubled`, `RejectionsAreJustified` (`RateLimiterProofs`) | `LimitDoublesAtMost`, `RejectedOnlyOverLimit` |
| `RouteTypes`, `AnswersStayFresh`, `AnswersAreAccounted` (`GenerateRouteProofs`) | `TypeOK`, `AnswersFresh`, `AnswersAccounted` |
| `RouteImplementsAnswerService` (`GenerateRouteProofs`) | `ImplementsAnswerService` |
| `MemoryTypes`, `WindowKept`, `ReadsInOrder`, `ClearsForget`, `ReadsSeeAppends` (`SessionMemoryProofs`) | `TypeOK`, `StoreKeepsWindow`, `AppendedInOrder`, `ClearForgets`, `ReadSeesAppended` |
| `MemoryImplementsLog` (`SessionMemoryProofs`) | `ImplementsSessionLog` |
| `CallsTypes`, `PoolOutlivesCalls`, `GatewayTimesOutFirst`, `ContentIsFound`, `ChainIsConfigured` (`ProviderCallsProofs`) | `TypeOK`, `NoCallRefused`, `ClientTimeoutNotFirst`, `ContentFound`, `ChainAsConfigured` |
| `CallsImplementSharedPool` (`ProviderCallsProofs`) | `ImplementsSharedPool` |

Argument.

* Router. `RouterSpec` says only that each step records a success or a failure of
  some provider, lets time pass, or leaves the router alone. Everything about the
  router is proved from it once; the clients and the gateway each need one proof
  that their steps are its steps, so a property checked with arbitrary clients is
  also one of the gateway. The types with `StatsConsistent` are inductive. It makes the map to
  `CircuitBreaker` well defined: a failure below the threshold is `FailClosed`,
  at or above it `Trip`, a success `Succeed`, a tick `CoolDown` of the breakers
  whose cooldown ends with it, and a breaker never reopens by time alone.
* Router, choice. Scores are fractions with positive denominators
  (`ScoreType`), so "worse" is a total preorder (`FractionsTransitive`,
  `WorseOrder`); together with the place in the list it is a strict order,
  which has a least element in every finite set (`LeastExists`, from the
  well-foundedness of strict inclusion). `ScoreOrder` and `FailureRaisesScore`
  are the two polynomial inequalities behind the other two theorems.
* Gateway, types. `TypeInv` joins `TypeOK` with the router's invariant
  and `TasksConsistent` (a sleeping task has a retry left; arrival, visit and
  clock are ordered). Without `attempt < MaxRetries` while asleep, the step that
  wakes up does not keep `attempt` in its range.
* Gateway, calls. `CallsFollowOrder` is inductive on top of `TypeInv`: for every
  request it fixes the calls to passed, current and later providers of its
  order; a passed one has had all of its retries unless it timed out by itself
  (`Retried`). It needs that `Ordered` is a permutation (lemmas `OrderedInjective`,
  `OrderedOnto`), or a retry could hit a passed provider. The budget, the truth
  of exhaustion and the step simulation of `FallbackChain` follow from it.
* Gateway, progress. `StepsLeft(r)` counts the calls and backoffs that the rest of
  the chain leaves to a request. It is a natural number, each step of the request
  lowers it and no other step touches it (`StepsRunOut`). This is the safety half
  of `EveryRequestEnds`; the other half, that timers are served, is fairness.
* Gateway, visits. `VisitsAccounted` sums the fallbacks into a name over the
  names they came from. That such a sum exists, is a natural number and grows
  with one of its terms (`SumsExist`, `SumType`, `SumIncrement`) is shown without
  an induction theorem: of the subsets that a claim fails for, a smallest one
  exists (`SmallestSubset`, from the finiteness of the set and the
  well-foundedness of strict inclusion), and it cannot fail for that one.
* Gateway, metrics. Each action moves the attempt metrics and the statistics in
  step; `GaugesSound` holds because an open breaker only becomes available as
  time passes, never the reverse, and every recording publishes. The same
  argument with "has opened" instead of "is healthy" gives
  `GaugesWrongOnlyAfterCooldown`.
* Gateway, time. `TimeInv` bounds each attempt by its own timer and the earlier
  attempts of the visit by `attempt * RetryBound`, the earlier visits by
  `(index - 1) * VisitBound`; `Tick` cannot pass a timer by more than `Lateness`.
* Limiter. `LimitHolds` says nothing about the store, so it is not inductive.
  `CountsDistinct` adds that checks counted in time have distinct counts, which
  the counter has reached while its bucket runs; this needs `KeysSound`, that a
  counter never expires before its bucket ends (its first check read the clock
  in the bucket, and the key lives one window from then on). The limit follows
  because the counts inject the allowed checks into `1..Limit(w)`
  (`FS_Injection`). `KeysSound` also bounds the expiry from above, which is
  `CountersGo`.
* Limiter, whatever the timing. `CountsInv` adds how often a counter has been
  counted. `Backed`: a counter and every count it has given is at most the
  number of checks that were counted or may have been, which justifies each
  rejection. `Lives`: the checks of a bucket got distinct counts in at most two
  lives of its key, because the first ends with the bucket or later, a key lives
  one window, and no check is a whole window late. This needs `Minute <= Hour`
  and `MaxLatency < Minute`, which the code's 60, 3600 and its timeouts satisfy.
* Request path. The invariant joins the types with `RequestsConsistent` (which
  await a request is at tells what it has; a write under way is pending) and
  `CacheSound` (an entry was made for its key and expires within `Ttl` and
  `MaxLatency` of being made; no pending write is later) and `AnswersSound` (the
  same of what a reply under way shows, at the time it was read). They are needed
  because what a reply shows comes from an entry another request has stored. The
  reply's own way adds the second `MaxLatency` of `AnswersFresh`.
* Request path, counters. `AnswersAccounted` compares counters with sizes of sets
  of requests. A step moves at most one request into a set, so `FS_AddElement`
  gives the new size; the sets are finite because `Requests` is.
* Session memory. The properties speak of reads, calls and times and say nothing
  that a step could use. `MemoryInv` adds `CallsConsistent` (the state a call is in
  tells whether it was executed, and the calls in `earlier` are done),
  `StoreSound` (the list is the end of the history, holds each message once, in
  an order that agrees with `earlier`, and expires with its newest message),
  `NothingLost` (an executed message is in the history, may have been cleared,
  or its time is over) and `ReadSound` (the same of what a read was given, at the
  time it was executed). `LastOf` is proved once to return an end of its
  argument; all the rest uses that alone.
* Session memory, gaps. For `AppendedInOrder`, `NoGaps` adds that the list and each
  read hold, with a message, all that were appended after it had returned and
  before the read was sent. As a read holds each message once and at most
  `MaxItems`, fewer than that many can have been appended since.
* Provider calls. `CallsInv` says that the client is closed only at the end, that
  nothing is in flight then, and that no operation is older than its call; the
  first two give `NoCallRefused`, the last `ClientTimeoutNotFirst`. `ContentFound`
  needs that a body near the format is an answer exactly if its subscripts lead
  to a text: one lemma per level of the body. `TooDeep` is the exception it states. `IsFiniteSet(Requests)` is needed
  for counting the connections in use.
* Provider calls, chain. The names of the chain are a recursive function of the
  configuration, so that its equation can be used: `Configs` are finite sequences,
  and a shortest prefix for which the claim fails does not exist.
* Provider calls, pool. The map to `SharedPool` takes a request that waits for a
  connection to be queued, one with a connection to be connected, and one whose
  last call brought a response to be served. `PoolInv` adds to `CallsInv` that
  the pool's flags agree with the phase (open from the startup to the end) and
  that no request has begun before; `Statuses` are assumed positive, because the
  model writes 0 for "no response".

Every invariant and action property of a passing run, and every refinement, is
stated by a theorem. Model-checked only: the liveness properties
`EveryRequestEnds` of both modules and `ShutdownCompletes`, because the prover
does not treat fairness and ENABLED.

## 5. Plan

1. Done: router, gateway, limiter, request path, session memory, provider
   payloads, provider calls with factory, pool and lifespan, with the theorems above.
2. Left to the model checker: liveness.
3. What is not modelled has no state of its own, or no caller (section 7).

## 6. Divergences found

* The healthy gauge says whether a provider "is currently considered healthy",
  but stays 0 after the cooldown until the next request publishes
  (run `gauge_stale`). `GaugesWrongOnlyAfterCooldown` proves that this is the only
  way in which the gauge and the router can disagree.
* "Retry transient provider failures": a timeout raised by the provider itself
  is not retried (run `timeout_not_retried`). With the wiring of `main.py` both
  timeouts are equal and `wait_for` fires first (`ClientTimeoutNotFirst`), so it
  takes a provider with a shorter timeout of its own.
* "Safe under concurrent API workers": a check whose first increment is executed
  after its minute's counter has expired is let through beyond the limit (run
  `limit_exceeded`). `LimitDoublesAtMost` bounds the effect.

## 7. Not modelled

Components, each with its reason in `PROJECT.json`: the health, metrics and
rate-limit routes (no state), the legacy gateway and the guardrail (nothing
calls them), configuration (its values are constants of the models), logging,
tracing and the metrics' exposition (output only), the proxy and the alert
rules (configuration of other programs).

Within the modelled components: traces, logs, histograms, the counter of cache
misses, the HTTP counts of other statuses than 200, header values other than
Retry-After, request identifiers, the text of prompts and answers, hash
collisions, floating-point rounding, process restarts (router statistics and
metrics are process-local and begin anew; the store keeps its data), several
callers in one limiter, the adapters' branch without a pool,
`HTTPClientPool.post`, `SemanticCache.delete` and the store adapter's `ping`,
`ttl`, `exists` and `delete` (no caller in a modelled path), and the number that
`clear` returns.
