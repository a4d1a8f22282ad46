--------------------------- MODULE GatewayProofs ---------------------------
(***************************************************************************)
(* For every chain of providers, every number of requests and retries and  *)
(* all timings: the types and the tasks' local state, the metrics'         *)
(* agreement with the router, and how long visits and requests take.       *)
(***************************************************************************)
EXTENDS GatewayProperties, ProviderRouterProofs

\* The order of a request starts with the selected provider and holds only
\* configured providers.
LEMMA OrderedType ==
  ASSUME NEW p \in Providers
  PROVE  Ordered(p) \in [Providers -> Providers] /\ Ordered(p)[1] = p
<1>1. p \in 1..Len(Chain) /\ Len(Chain) \in Nat \ {0} /\ 1 \in Providers
  BY ChainNames DEF Providers
<1> QED
  BY <1>1 DEF Ordered, Providers

\* It holds none of them twice.
LEMMA OrderedInjective ==
  ASSUME NEW p \in Providers, NEW j \in Providers, NEW k \in Providers,
         Ordered(p)[j] = Ordered(p)[k]
  PROVE  j = k
  BY ChainNames DEF Ordered, Providers

\* It holds every one of them.
LEMMA OrderedOnto ==
  ASSUME NEW p \in Providers, NEW q \in Providers
  PROVE  \E k \in Providers : Ordered(p)[k] = q
<1>1. p \in 1..Len(Chain) /\ Len(Chain) \in Nat \ {0} /\ 1 \in Providers
  BY ChainNames DEF Providers
<1>2. \A k \in Providers :
         Ordered(p)[k] = IF k = 1 THEN p ELSE IF k <= p THEN k - 1 ELSE k
  BY DEF Ordered
<1>3. CASE q = p
  BY <1>1, <1>2, <1>3
<1>4. CASE q < p
  <2>1. q + 1 \in Providers /\ Ordered(p)[q + 1] = q
    BY <1>1, <1>2, <1>4 DEF Providers
  <2> QED
    BY <2>1
<1>5. CASE q > p
  <2>1. Ordered(p)[q] = q
    BY <1>1, <1>2, <1>5 DEF Providers
  <2> QED
    BY <2>1
<1> QED
  BY <1>1, <1>3, <1>4, <1>5 DEF Providers

\* The provider a request is at is one of the configured ones.
LEMMA CurrentProvider ==
  ASSUME TypeOK, NEW r \in Requests
  PROVE  Current(r) \in Providers /\ Chain[Current(r)] \in Names
<1>1. selected[r] \in Providers /\ index[r] \in Providers
  BY DEF TypeOK
<1>2. Ordered(selected[r]) \in [Providers -> Providers]
  BY <1>1, OrderedType
<1> QED
  BY <1>1, <1>2, ChainNames DEF Current

\* A delay before a retry is a number of ticks.
LEMMA BackoffType ==
  ASSUME NEW a \in 0..MaxRetries
  PROVE  Backoff(a) \in Nat /\ Backoff(a) <= MaxDelay
<1>1. 2^a \in Nat
  BY PowersAssumption
<1>2. \A x \in Nat : BaseDelay * x \in Nat
  BY GatewayAssumption
<1> QED
  BY <1>1, <1>2, GatewayAssumption DEF Backoff

\* What the gauges show has the type of the gauges.
LEMMA PublishedType == RouterTypeOK => Published \in [Names -> Gauge]
  BY DEF RouterTypeOK, Published, Gauge, ProviderStats, Available, CooledDown

-----------------------------------------------------------------------------
\* Types

\* A call leaves the task variables it sets well typed.
LEMMA CallProviderType ==
  ASSUME TypeOK, NEW r \in Requests, NEW p \in Providers, CallProvider(r, p)
  PROVE  /\ pc' \in [Requests -> {"new"} \cup InFlightPC \cup EndPC]
         /\ timer' \in [Requests -> Nat]
         /\ calls' \in [Requests -> [Providers -> Nat]]
<1>1. now + Timeout \in Nat
  BY GatewayAssumption DEF TypeOK, RouterTypeOK
<1>2. calls[r] \in [Providers -> Nat] /\ calls[r][p] + 1 \in Nat
  BY DEF TypeOK
<1> QED
  BY <1>1, <1>2 DEF CallProvider, TypeOK, InFlightPC

\* So does the end of a task.
LEMMA EndType ==
  ASSUME TypeOK, NEW r \in Requests, NEW how \in EndPC, End(r, how)
  PROVE  /\ pc' \in [Requests -> {"new"} \cup InFlightPC \cup EndPC]
         /\ selected' \in [Requests -> Providers]
         /\ index' \in [Requests -> Providers]
         /\ attempt' \in [Requests -> 0..MaxRetries]
         /\ arrivedAt' \in [Requests -> Nat]
         /\ startedAt' \in [Requests -> Nat]
         /\ timer' \in [Requests -> Nat]
         /\ calls' \in [Requests -> [Providers -> Nat]]
<1>1. 0 \in 0..MaxRetries /\ 0 \in Nat
  BY GatewayAssumption
<1> QED
  BY <1>1 DEF End, TypeOK

\* The arrival at a provider leaves the task variables it sets well typed.
LEMMA VisitType ==
  ASSUME TypeOK, NEW r \in Requests, NEW p \in Providers, NEW k \in Providers,
         Visit(r, p, k)
  PROVE  /\ pc' \in [Requests -> {"new"} \cup InFlightPC \cup EndPC]
         /\ index' \in [Requests -> Providers]
         /\ attempt' \in [Requests -> 0..MaxRetries]
         /\ startedAt' \in [Requests -> Nat]
         /\ timer' \in [Requests -> Nat]
         /\ calls' \in [Requests -> [Providers -> Nat]]
<1>1. 0 \in 0..MaxRetries
  BY GatewayAssumption
<1> QED
  BY <1>1, CallProviderType DEF Visit, TypeOK, RouterTypeOK

\* A counted attempt leaves the attempts' metric well typed.
LEMMA CountType ==
  ASSUME TypeOK, NEW n \in Names, CountError(n) \/ CountSuccess(n)
  PROVE  requestsTotal' \in [Names -> Counts]
<1>1. CASE CountError(n)
  BY <1>1 DEF CountError, TypeOK, Counts
<1>2. CASE CountSuccess(n)
  BY <1>2 DEF CountSuccess, TypeOK, Counts
<1> QED
  BY <1>1, <1>2

\* A failed visit leaves the statistics consistent and the metrics well typed.
LEMMA VisitFailsType ==
  ASSUME TypeOK, StatsConsistent, NEW r \in Requests, VisitFails(r)
  PROVE  /\ RouterTypeOK' /\ StatsConsistent'
         /\ requestsTotal' \in [Names -> Counts]
         /\ gauges' \in [Names -> Gauge]
         /\ retriesTotal' \in [Names -> Nat]
         /\ selectedTotal' \in [Names -> Nat]
<1>1. Current(r) \in Providers /\ Chain[Current(r)] \in Names
  BY CurrentProvider
<1>2. RouterTypeOK' /\ StatsConsistent'
  BY <1>1, RecordFailureInv DEF VisitFails, TypeOK
<1>3. Published' \in [Names -> Gauge]
  BY <1>2 DEF RouterTypeOK, Published, Gauge, ProviderStats, Available, CooledDown
<1>4. requestsTotal' \in [Names -> Counts]
  BY <1>1, CountType DEF VisitFails
<1> QED
  BY <1>2, <1>3, <1>4 DEF VisitFails, TypeOK

\* No step of the gateway leaves the types or makes the router's statistics
\* disagree.
LEMMA TypeStep ==
  TypeOK /\ StatsConsistent /\ TasksConsistent /\ [Next]_vars
    => TypeOK' /\ StatsConsistent'
<1> SUFFICES ASSUME TypeOK, StatsConsistent, TasksConsistent, [Next]_vars
             PROVE  TypeOK' /\ StatsConsistent'
  OBVIOUS
<1>1. ASSUME NEW r \in Requests, Start(r)
      PROVE  TypeOK' /\ StatsConsistent'
  <2>1. PICK p \in Providers :
          /\ selected' = [selected EXCEPT ![r] = p]
          /\ selectedTotal' = [selectedTotal EXCEPT ![Chain[p]] = @ + 1]
          /\ Visit(r, p, 1)
    BY <1>1 DEF Start
  <2>2. 1 \in Providers
    BY ChainNames DEF Providers
  <2>3. RouterTypeOK' /\ StatsConsistent'
    BY <1>1 DEF Start, routerVars, TypeOK, RouterTypeOK, StatsConsistent
  <2>4. /\ selected' \in [Requests -> Providers]
        /\ selectedTotal' \in [Names -> Nat]
    BY <2>1, ChainNames DEF TypeOK
  <2>5. arrivedAt' \in [Requests -> Nat]
    BY <1>1 DEF Start, TypeOK, RouterTypeOK
  <2>6. gauges' \in [Names -> Gauge]
    BY <1>1, PublishedType DEF Start, TypeOK
  <2> QED
    BY <1>1, <2>1, <2>2, <2>3, <2>4, <2>5, <2>6, VisitType DEF Start, TypeOK
<1>2. ASSUME NEW r \in Requests, Answer(r)
      PROVE  TypeOK' /\ StatsConsistent'
  <2> DEFINE n == Chain[Current(r)]
  <2>1. Current(r) \in Providers /\ n \in Names
    BY CurrentProvider
  <2>2. now - startedAt[r] \in Nat
    BY DEF TypeOK, RouterTypeOK, TasksConsistent
  <2>3. RouterTypeOK' /\ StatsConsistent'
    BY <1>2, <2>1, <2>2, RecordSuccessInv DEF Answer, TypeOK
  <2>4. requestsTotal' \in [Names -> Counts]
    BY <1>2, <2>1, CountType DEF Answer
  <2>5. Published' \in [Names -> Gauge]
    BY <2>3 DEF RouterTypeOK, Published, Gauge, ProviderStats, Available, CooledDown
  <2> QED
    BY <1>2, <2>3, <2>4, <2>5, EndType DEF Answer, TypeOK, EndPC
<1>3. ASSUME NEW r \in Requests, Retry(r)
      PROVE  TypeOK' /\ StatsConsistent'
  <2> DEFINE n == Chain[Current(r)]
  <2>1. n \in Names /\ attempt[r] \in 0..MaxRetries
    BY CurrentProvider DEF TypeOK
  <2>2. requestsTotal' \in [Names -> Counts]
    BY <1>3, <2>1, CountType DEF Retry
  <2>3. now + Backoff(attempt[r]) \in Nat
    BY <2>1, BackoffType DEF TypeOK, RouterTypeOK
  <2>4. RouterTypeOK' /\ StatsConsistent'
    BY <1>3 DEF Retry, routerVars, TypeOK, RouterTypeOK, StatsConsistent
  <2>5. pc' \in [Requests -> {"new"} \cup InFlightPC \cup EndPC]
    BY <1>3 DEF Retry, TypeOK, InFlightPC
  <2>6. timer' \in [Requests -> Nat] /\ retriesTotal' \in [Names -> Nat]
    BY <1>3, <2>1, <2>3 DEF Retry, TypeOK
  <2> QED
    BY <1>3, <2>2, <2>4, <2>5, <2>6 DEF Retry, TypeOK
<1>4. ASSUME NEW r \in Requests, LeaveProvider(r)
      PROVE  TypeOK' /\ StatsConsistent'
  <2>1. CASE FallBack(r)
    <3> DEFINE next == Ordered(selected[r])[index[r] + 1]
    <3>1. VisitFails(r) /\ Visit(r, next, index[r] + 1)
      BY <2>1 DEF FallBack
    <3>2. index[r] + 1 \in Providers /\ index[r] \in Providers /\ selected[r] \in Providers
      BY <2>1, ChainNames DEF FallBack, TypeOK, Providers
    <3>3. next \in Providers
      BY <3>2, OrderedType
    <3>4. <<Chain[Current(r)], Chain[next]>> \in Names \X Names
      BY <3>3, CurrentProvider, ChainNames
    <3>5. fallbacksTotal' \in [Names \X Names -> Nat]
      BY <2>1, <3>4 DEF FallBack, TypeOK
    <3> QED
      BY <2>1, <3>1, <3>2, <3>3, <3>5, VisitFailsType, VisitType DEF FallBack, TypeOK
  <2>2. CASE Exhaust(r)
    BY <2>2, VisitFailsType, EndType DEF Exhaust, TypeOK, EndPC
  <2> QED
    BY <1>4, <2>1, <2>2 DEF LeaveProvider
<1>5. ASSUME NEW r \in Requests, Reject(r)
      PROVE  TypeOK' /\ StatsConsistent'
  BY <1>5, VisitFailsType, EndType DEF Reject, TypeOK, EndPC
<1>6. ASSUME NEW r \in Requests, Abandon(r)
      PROVE  TypeOK' /\ StatsConsistent'
  <2>1. RouterTypeOK' /\ StatsConsistent'
    BY <1>6 DEF Abandon, routerVars, TypeOK, RouterTypeOK, StatsConsistent
  <2> QED
    BY <1>6, <2>1, EndType DEF Abandon, metricVars, TypeOK, EndPC
<1>7. ASSUME NEW r \in Requests, BackoffEnds(r)
      PROVE  TypeOK' /\ StatsConsistent'
  <2>1. RouterTypeOK' /\ StatsConsistent'
    BY <1>7 DEF BackoffEnds, routerVars, TypeOK, RouterTypeOK, StatsConsistent
  <2>2. attempt' \in [Requests -> 0..MaxRetries]
    <3>1. attempt[r] \in 0..MaxRetries /\ attempt[r] < MaxRetries
      BY <1>7 DEF BackoffEnds, TypeOK, TasksConsistent
    <3>2. attempt[r] + 1 \in 0..MaxRetries
      BY <3>1, GatewayAssumption
    <3> QED
      BY <1>7, <3>2 DEF BackoffEnds, TypeOK
  <2> QED
    BY <1>7, <2>1, <2>2, CurrentProvider, CallProviderType
    DEF BackoffEnds, metricVars, TypeOK
<1>8. CASE Tick
  <2>1. RouterTypeOK' /\ StatsConsistent'
    BY <1>8, ClockInv DEF Tick, TypeOK
  <2> QED
    BY <1>8, <2>1 DEF Tick, taskVars, metricVars, TypeOK
<1>9. CASE UNCHANGED vars
  BY <1>9 DEF vars, routerVars, taskVars, metricVars, TypeOK, RouterTypeOK, StatsConsistent
<1> QED
  BY <1>1, <1>2, <1>3, <1>4, <1>5, <1>6, <1>7, <1>8, <1>9
  DEF Next, TaskStep, GiveUp, ProviderTimesOut, Quiet

\* The task variables after the steps that several actions share.
LEMMA TasksStep ==
  TypeOK /\ TasksConsistent /\ [Next]_vars => TasksConsistent'
<1> SUFFICES ASSUME TypeOK, TasksConsistent, [Next]_vars
             PROVE  TasksConsistent'
  OBVIOUS
<1> USE DEF TasksConsistent
<1>t. /\ now \in Nat
      /\ \A r \in Requests : /\ arrivedAt[r] \in Nat /\ startedAt[r] \in Nat
                             /\ attempt[r] \in 0..MaxRetries
  BY DEF TypeOK, RouterTypeOK
<1>1. ASSUME NEW r \in Requests, Start(r)
      PROVE  TasksConsistent'
  BY <1>1, <1>t DEF Start, Visit, CallProvider, routerVars, TypeOK
<1>2. ASSUME NEW r \in Requests, Answer(r) \/ Reject(r) \/ Abandon(r) \/ Exhaust(r)
      PROVE  TasksConsistent'
  <2>1. PICK how \in EndPC : End(r, how) /\ UNCHANGED now
    BY <1>2 DEF Answer, Reject, Abandon, Exhaust, VisitFails, routerVars, EndPC
  <2> QED
    BY <2>1, <1>t DEF End, EndPC, TypeOK
<1>3. ASSUME NEW r \in Requests, Retry(r)
      PROVE  TasksConsistent'
  BY <1>3, <1>t DEF Retry, routerVars, TypeOK
<1>4. ASSUME NEW r \in Requests, FallBack(r)
      PROVE  TasksConsistent'
  BY <1>4, <1>t DEF FallBack, VisitFails, Visit, CallProvider, TypeOK
<1>5. ASSUME NEW r \in Requests, BackoffEnds(r)
      PROVE  TasksConsistent'
  BY <1>5, <1>t DEF BackoffEnds, CallProvider, routerVars, TypeOK
<1>6. CASE Tick
  BY <1>6, <1>t DEF Tick, taskVars
<1>7. CASE UNCHANGED vars
  BY <1>7 DEF vars, taskVars, routerVars
<1> QED
  BY <1>1, <1>2, <1>3, <1>4, <1>5, <1>6, <1>7
  DEF Next, TaskStep, GiveUp, ProviderTimesOut, LeaveProvider, Quiet

\* What every state satisfies before anything is said of calls and metrics.
TypeInv == TypeOK /\ StatsConsistent /\ TasksConsistent

\* Every variable has its type, the router's statistics agree with each other
\* and the tasks' local variables fit their places, whatever the chain, the
\* number of requests and the timings.
THEOREM GatewayTypes == Spec => []TypeInv
<1>1. Init => TypeInv
  <2> SUFFICES ASSUME Init
               PROVE  TypeInv
    OBVIOUS
  <2>1. RouterTypeOK /\ StatsConsistent /\ gauges \in [Names -> Gauge]
    BY RouterInitInv, PublishedType DEF Init
  <2>2. 1 \in Providers /\ 0 \in 0..MaxRetries
    BY ChainNames, GatewayAssumption DEF Providers
  <2> QED
    BY <2>1, <2>2 DEF Init, TypeInv, TypeOK, TasksConsistent, Counts, RouterInit
<1>2. TypeInv /\ [Next]_vars => TypeInv'
  BY TypeStep, TasksStep DEF TypeInv
<1> QED
  BY <1>1, <1>2, PTL DEF Spec

\* Every variable of the gateway and its router always has its type.
COROLLARY GatewayTypeOK == Spec => []TypeOK
<1>1. TypeInv => TypeOK
  BY DEF TypeInv
<1> QED
  BY <1>1, GatewayTypes, PTL

-----------------------------------------------------------------------------
\* The gateway and the router

\* A visit's latency is a number of ticks: its clock started in the past.
LEMMA LatencyType ==
  ASSUME TypeInv, NEW r \in Requests
  PROVE  now - startedAt[r] \in Nat
  BY DEF TypeInv, TypeOK, RouterTypeOK, TasksConsistent

\* The gateway drives its router by the two operations and the clock only, one
\* of them in a step: no handler records twice, or while it lets time pass.
THEOREM GatewayDrivesRouter == Spec => RouterSpec
<1>1. Init => RouterInit
  BY DEF Init
<1>2. TypeInv /\ [Next]_vars => [RouterStep]_routerVars
  <2> SUFFICES ASSUME TypeInv, [Next]_vars
               PROVE  [RouterStep]_routerVars
    OBVIOUS
  <2>t. \A r \in Requests : Current(r) \in Providers
    BY CurrentProvider DEF TypeInv, TypeOK
  <2>1. ASSUME NEW r \in Requests,
               Start(r) \/ Retry(r) \/ Abandon(r) \/ BackoffEnds(r)
        PROVE  UNCHANGED routerVars
    BY <2>1 DEF Start, Retry, Abandon, BackoffEnds
  <2>2. ASSUME NEW r \in Requests, Answer(r)
        PROVE  RouterStep
    BY <2>2, <2>t, LatencyType DEF Answer, RouterStep
  <2>3. ASSUME NEW r \in Requests, FallBack(r) \/ Exhaust(r) \/ Reject(r)
        PROVE  RouterStep
    BY <2>3, <2>t DEF FallBack, Exhaust, Reject, VisitFails, RouterStep
  <2>4. CASE Tick
    BY <2>4 DEF Tick, RouterStep
  <2>5. CASE UNCHANGED vars
    BY <2>5 DEF vars
  <2> QED
    BY <2>1, <2>2, <2>3, <2>4, <2>5
    DEF Next, TaskStep, GiveUp, ProviderTimesOut, LeaveProvider, Quiet
<1> QED
  BY <1>1, <1>2, GatewayTypes, PTL DEF Spec, RouterSpec

\* The breakers the gateway's requests open, half-open and close together are
\* those of the abstract breaker, however many requests are in flight and
\* however late their results come.
THEOREM GatewayImplementsBreaker == Spec => ImplementsBreaker
  BY GatewayDrivesRouter, RouterRefinesBreaker

\* Whenever a request comes there is one provider for it, and it is the one
\* whose statistics were compared.
THEOREM GatewaySelectionUnique == Spec => []SelectionIsUnique
  BY GatewayDrivesRouter, RouterSelectsOne

\* Whenever a request comes it is not sent to a provider that an available one
\* surpasses in both average latency and success rate.
THEOREM GatewaySelectionUndominated == Spec => []SelectedNotDominated
  BY GatewayDrivesRouter, RouterSelectsUndominated

\* No request's failure makes the next request start at the provider that
\* has just failed, unless it would have started there anyway.
THEOREM GatewayFailuresNeverPromote == Spec => FailureNeverPromotes
  BY GatewayDrivesRouter, RouterNeverPromotes

-----------------------------------------------------------------------------
\* The metrics agree with the router's statistics in every state.

\* An attempt is counted under the name it was made to and no other.
LEMMA CountErrorOnly ==
  ASSUME TypeOK, NEW n \in Names, CountError(n)
  PROVE  /\ requestsTotal'[n].error = requestsTotal[n].error + 1
         /\ requestsTotal'[n].success = requestsTotal[n].success
         /\ \A m \in Names : m # n => requestsTotal'[m] = requestsTotal[m]
  BY DEF CountError, TypeOK, Counts

\* Counting a success moves the successes of one name by one, nothing else.
LEMMA CountSuccessOnly ==
  ASSUME TypeOK, NEW n \in Names, CountSuccess(n)
  PROVE  /\ requestsTotal'[n].success = requestsTotal[n].success + 1
         /\ requestsTotal'[n].error = requestsTotal[n].error
         /\ \A m \in Names : m # n => requestsTotal'[m] = requestsTotal[m]
  BY DEF CountSuccess, TypeOK, Counts

\* The router's record of a failure, as the accounts see it.
LEMMA RecordFailureOnly ==
  ASSUME RouterTypeOK, NEW p \in Providers, RecordFailure(p)
  PROVE  /\ stats'[Chain[p]].failures = stats[Chain[p]].failures + 1
         /\ stats'[Chain[p]].successes = stats[Chain[p]].successes
         /\ \A m \in Names : m # Chain[p] => stats'[m] = stats[m]
  BY ChainNames DEF RecordFailure, RouterTypeOK

\* The accounts stay even when a visit fails: one more error, one more failure.
LEMMA VisitFailsAccounted ==
  ASSUME TypeOK, AttemptsAccounted, NEW r \in Requests, VisitFails(r)
  PROVE  AttemptsAccounted'
<1> DEFINE n == Chain[Current(r)]
<1>1. Current(r) \in Providers /\ n \in Names
  BY CurrentProvider
<1>2. CountError(n) /\ RecordFailure(Current(r)) /\ retriesTotal' = retriesTotal
  BY DEF VisitFails
<1>3. /\ requestsTotal'[n].error = requestsTotal[n].error + 1
      /\ requestsTotal'[n].success = requestsTotal[n].success
      /\ \A m \in Names : m # n => requestsTotal'[m] = requestsTotal[m]
  BY <1>1, <1>2, CountErrorOnly
<1>4. /\ stats'[n].failures = stats[n].failures + 1
      /\ stats'[n].successes = stats[n].successes
      /\ \A m \in Names : m # n => stats'[m] = stats[m]
  BY <1>1, <1>2, RecordFailureOnly DEF TypeOK
<1>5. /\ requestsTotal[n].error \in Nat /\ retriesTotal[n] \in Nat
      /\ stats[n].failures \in Nat
  BY <1>1 DEF TypeOK, RouterTypeOK, Counts, ProviderStats
<1> QED
  BY <1>2, <1>3, <1>4, <1>5 DEF AttemptsAccounted

\* The attempts' metrics and the router's statistics agree in every state,
\* whatever ends the tasks: an error is a retry or a failed visit, a success
\* an answered one.
THEOREM MetricsAgree == Spec => []AttemptsAccounted
<1>1. Init => AttemptsAccounted
  BY DEF Init, RouterInit, NoStats, AttemptsAccounted
<1>2. TypeInv /\ AttemptsAccounted /\ [Next]_vars => AttemptsAccounted'
  <2> SUFFICES ASSUME TypeInv, AttemptsAccounted, [Next]_vars
               PROVE  AttemptsAccounted'
    OBVIOUS
  <2>t. TypeOK /\ RouterTypeOK
    BY DEF TypeInv, TypeOK
  <2>1. ASSUME NEW r \in Requests, Start(r) \/ Abandon(r) \/ BackoffEnds(r)
        PROVE  AttemptsAccounted'
    BY <2>1 DEF Start, Abandon, BackoffEnds, routerVars, metricVars, AttemptsAccounted
  <2>2. ASSUME NEW r \in Requests, Answer(r)
        PROVE  AttemptsAccounted'
    <3> DEFINE n == Chain[Current(r)]
    <3>1. Current(r) \in Providers /\ n \in Names
      BY <2>t, CurrentProvider
    <3>2. /\ CountSuccess(n) /\ retriesTotal' = retriesTotal
          /\ RecordSuccess(Current(r), now - startedAt[r])
      BY <2>2 DEF Answer
    <3>3. /\ stats'[n].failures = stats[n].failures
          /\ stats'[n].successes = stats[n].successes + 1
          /\ \A m \in Names : m # n => stats'[m] = stats[m]
      BY <2>t, <3>1, <3>2 DEF RecordSuccess, RouterTypeOK
    <3> QED
      BY <2>t, <3>1, <3>2, <3>3, CountSuccessOnly DEF AttemptsAccounted
  <2>3. ASSUME NEW r \in Requests, Retry(r)
        PROVE  AttemptsAccounted'
    <3> DEFINE n == Chain[Current(r)]
    <3>1. n \in Names
      BY <2>t, CurrentProvider
    <3>2. /\ CountError(n) /\ stats' = stats
          /\ retriesTotal' = [retriesTotal EXCEPT ![n] = @ + 1]
      BY <2>3 DEF Retry, routerVars
    <3>3. /\ requestsTotal[n].error \in Nat /\ retriesTotal[n] \in Nat
          /\ stats[n].failures \in Nat
      BY <2>t, <3>1 DEF TypeOK, RouterTypeOK, Counts, ProviderStats
    <3>4. /\ retriesTotal'[n] = retriesTotal[n] + 1
          /\ \A m \in Names : m # n => retriesTotal'[m] = retriesTotal[m]
      BY <2>t, <3>1, <3>2 DEF TypeOK
    <3> QED
      BY <2>t, <3>1, <3>2, <3>3, <3>4, CountErrorOnly DEF AttemptsAccounted
  <2>4. ASSUME NEW r \in Requests, FallBack(r) \/ Exhaust(r) \/ Reject(r)
        PROVE  AttemptsAccounted'
    BY <2>t, <2>4, VisitFailsAccounted DEF FallBack, Exhaust, Reject
  <2>5. CASE Tick \/ UNCHANGED vars
    BY <2>5 DEF Tick, vars, routerVars, metricVars, AttemptsAccounted
  <2> QED
    BY <2>1, <2>2, <2>3, <2>4, <2>5
    DEF Next, TaskStep, GiveUp, ProviderTimesOut, LeaveProvider, Quiet
<1> QED
  BY <1>1, <1>2, GatewayTypes, PTL DEF Spec

-----------------------------------------------------------------------------
\* The gauges

\* What is published is sound when it is published.
LEMMA PublishedSound ==
  ASSUME gauges' = Published'
  PROVE  GaugesSound'
  BY DEF Published, GaugesSound

\* An available provider stays available while only time passes.
LEMMA AvailableStays ==
  ASSUME RouterTypeOK, NEW n \in Names, now' = now + 1, UNCHANGED stats, Available(n)
  PROVE  Available(n)'
  BY RouterAssumption DEF RouterTypeOK, ProviderStats, Available, CooledDown

\* The gauges show the router's counters in every state, and never show a
\* provider as healthy while the router's breaker for it is open.
THEOREM GaugesNeverOptimistic == Spec => []GaugesSound
<1>1. Init => GaugesSound
  BY DEF Init, Published, GaugesSound
<1>2. TypeInv /\ GaugesSound /\ [Next]_vars => GaugesSound'
  <2> SUFFICES ASSUME TypeInv, GaugesSound, [Next]_vars
               PROVE  GaugesSound'
    OBVIOUS
  <2>1. ASSUME NEW r \in Requests, Start(r)
        PROVE  GaugesSound'
    <3>1. Published' = Published
      BY <2>1 DEF Start, routerVars, Published, Available, CooledDown
    <3> QED
      BY <2>1, <3>1, PublishedSound DEF Start
  <2>2. ASSUME NEW r \in Requests, Answer(r) \/ FallBack(r) \/ Exhaust(r) \/ Reject(r)
        PROVE  GaugesSound'
    BY <2>2, PublishedSound DEF Answer, FallBack, Exhaust, Reject, VisitFails
  <2>3. ASSUME NEW r \in Requests, Retry(r) \/ Abandon(r) \/ BackoffEnds(r)
        PROVE  GaugesSound'
    BY <2>3 DEF Retry, Abandon, BackoffEnds, routerVars, metricVars,
                GaugesSound, Available, CooledDown
  <2>4. CASE Tick
    <3>1. gauges' = gauges /\ stats' = stats /\ now' = now + 1 /\ RouterTypeOK
      BY <2>4 DEF Tick, metricVars, TypeInv, TypeOK
    <3> QED
      BY <3>1, AvailableStays DEF GaugesSound
  <2>5. CASE UNCHANGED vars
    BY <2>5 DEF vars, routerVars, metricVars, GaugesSound, Available, CooledDown
  <2> QED
    BY <2>1, <2>2, <2>3, <2>4, <2>5
    DEF Next, TaskStep, GiveUp, ProviderTimesOut, LeaveProvider, Quiet
<1> QED
  BY <1>1, <1>2, GatewayTypes, PTL DEF Spec

\* A provider that is published as unhealthy has a breaker that has opened.
GaugeOffOpened ==
  \A n \in Names :
    ~gauges[n].healthy => ~(stats[n].consecutiveFailures < FailureThreshold)

\* What is published as unhealthy is so when it is published.
LEMMA PublishedOpened ==
  ASSUME gauges' = Published'
  PROVE  GaugeOffOpened'
  BY DEF Published, GaugeOffOpened, Available

\* The gauges are never wrong but in one way: a provider that is available and
\* published as unhealthy has not answered since its breaker opened, and is
\* available only because the cooldown has passed since then.
THEOREM GaugesWrongOnlyAfterCooldown ==
  Spec => [](\A n \in Names :
               Available(n) # gauges[n].healthy
                 => /\ Available(n) /\ stats[n].consecutiveFailures >= FailureThreshold
                    /\ CooledDown(n, now))
<1>1. Init => GaugeOffOpened
  BY DEF Init, Published, GaugeOffOpened, Available
<1>2. TypeInv /\ GaugeOffOpened /\ [Next]_vars => GaugeOffOpened'
  <2> SUFFICES ASSUME TypeInv, GaugeOffOpened, [Next]_vars
               PROVE  GaugeOffOpened'
    OBVIOUS
  <2>1. ASSUME NEW r \in Requests, Start(r)
        PROVE  GaugeOffOpened'
    <3>1. Published' = Published
      BY <2>1 DEF Start, routerVars, Published, Available, CooledDown
    <3> QED
      BY <2>1, <3>1, PublishedOpened DEF Start
  <2>2. ASSUME NEW r \in Requests, Answer(r) \/ FallBack(r) \/ Exhaust(r) \/ Reject(r)
        PROVE  GaugeOffOpened'
    BY <2>2, PublishedOpened DEF Answer, FallBack, Exhaust, Reject, VisitFails
  <2>3. ASSUME NEW r \in Requests, Retry(r) \/ Abandon(r) \/ BackoffEnds(r)
        PROVE  GaugeOffOpened'
    BY <2>3 DEF Retry, Abandon, BackoffEnds, routerVars, metricVars, GaugeOffOpened
  <2>4. CASE Tick \/ UNCHANGED vars
    BY <2>4 DEF Tick, vars, routerVars, metricVars, GaugeOffOpened
  <2> QED
    BY <2>1, <2>2, <2>3, <2>4
    DEF Next, TaskStep, GiveUp, ProviderTimesOut, LeaveProvider, Quiet
<1>3. TypeInv /\ GaugesSound /\ GaugeOffOpened
        => \A n \in Names :
             Available(n) # gauges[n].healthy
               => /\ Available(n) /\ stats[n].consecutiveFailures >= FailureThreshold
                  /\ CooledDown(n, now)
  <2> SUFFICES ASSUME TypeInv, GaugesSound, GaugeOffOpened, NEW n \in Names,
                      Available(n) # gauges[n].healthy
               PROVE  /\ Available(n) /\ stats[n].consecutiveFailures >= FailureThreshold
                      /\ CooledDown(n, now)
    OBVIOUS
  <2>1. Available(n) \in BOOLEAN /\ gauges[n].healthy \in BOOLEAN
    BY DEF TypeInv, TypeOK, Gauge, Available
  <2>2. Available(n) /\ ~gauges[n].healthy
    BY <2>1 DEF GaugesSound
  <2>3. ~(stats[n].consecutiveFailures < FailureThreshold)
    BY <2>2 DEF GaugeOffOpened
  <2>4. stats[n].consecutiveFailures \in Nat /\ FailureThreshold \in Nat
    BY RouterAssumption DEF TypeInv, TypeOK, RouterTypeOK, ProviderStats
  <2> QED
    BY <2>2, <2>3, <2>4 DEF Available
<1> QED
  BY <1>1, <1>2, <1>3, GatewayTypes, GaugesNeverOptimistic, PTL DEF Spec

-----------------------------------------------------------------------------
\* Time: how long a visit and a request may take, and how large an average
\* latency may become, for all delays and any lateness of the event loop.

\* The time a visit may have taken when it has made a retries, and the time
\* i visits may take.
Spent(a) == a * RetryBound
Visits(i) == i * VisitBound

\* The bounds are natural numbers, and the visit's is what its definition says.
LEMMA BoundTypes ==
  /\ RetryBound \in Nat /\ VisitBound \in Nat /\ MaxRetries \in Nat
  /\ Timeout \in Nat /\ MaxDelay \in Nat /\ Lateness \in Nat
  /\ RetryBound = Timeout + MaxDelay + 2 * Lateness
  /\ VisitBound = Spent(MaxRetries) + Timeout + Lateness
<1>1. RetryBound \in Nat /\ MaxRetries \in Nat /\ Timeout \in Nat /\ Lateness \in Nat
  BY GatewayAssumption DEF RetryBound
<1>2. \A a, b \in Nat : a * b \in Nat
  OBVIOUS
<1> QED
  BY <1>1, <1>2, GatewayAssumption DEF RetryBound, VisitBound, Spent

\* One more of a summand adds it once.
LEMMA ProductStep ==
  ASSUME NEW a \in Nat, NEW c \in Nat
  PROVE  a * c \in Nat /\ (a + 1) * c = a * c + c
  OBVIOUS

\* More of the same summands make no smaller sum.
LEMMA ProductMonotone ==
  ASSUME NEW a \in Nat, NEW b \in Nat, NEW c \in Nat, a <= b
  PROVE  a * c <= b * c
<1>1. PICK d \in Nat : b = a + d
  <2>1. b - a \in Nat /\ b = a + (b - a)
    OBVIOUS
  <2> QED
    BY <2>1
<1>2. b * c = a * c + d * c
  BY <1>1
<1>3. d * c \in Nat /\ a * c \in Nat
  OBVIOUS
<1> QED
  BY <1>2, <1>3

\* One more retry costs one more RetryBound, and none exceeds the limit's.
LEMMA SpentSteps ==
  ASSUME NEW a \in 0..MaxRetries
  PROVE  /\ Spent(a) \in Nat
         /\ Spent(a + 1) = Spent(a) + RetryBound
         /\ Spent(a) <= Spent(MaxRetries)
         /\ a < MaxRetries => Spent(a) + RetryBound <= Spent(MaxRetries)
<1>1. a \in Nat /\ a + 1 \in Nat /\ a <= MaxRetries /\ MaxRetries \in Nat
  BY BoundTypes
<1>2. Spent(a) \in Nat /\ Spent(a + 1) = Spent(a) + RetryBound
  BY <1>1, BoundTypes, ProductStep DEF Spent
<1>3. Spent(a) <= Spent(MaxRetries)
  BY <1>1, BoundTypes, ProductMonotone DEF Spent
<1>4. a < MaxRetries => Spent(a + 1) <= Spent(MaxRetries)
  BY <1>1, BoundTypes, ProductMonotone DEF Spent
<1> QED
  BY <1>2, <1>3, <1>4

\* One more visit adds the bound of one visit.
LEMMA VisitsStep ==
  ASSUME NEW i \in Nat
  PROVE  Visits(i) \in Nat /\ Visits(i + 1) = Visits(i) + VisitBound
  BY BoundTypes, ProductStep DEF Visits

-----------------------------------------------------------------------------
\* What keeps one request on time: its timer was set early enough, and the
\* clock does not run away from the timer.
OnTime(r) ==
  /\ pc[r] = "calling" => timer[r] <= startedAt[r] + Spent(attempt[r]) + Timeout
  /\ pc[r] = "backoff" =>
       timer[r] + Lateness <= startedAt[r] + Spent(attempt[r]) + RetryBound
  /\ pc[r] \in InFlightPC => /\ now <= timer[r] + Lateness
                             /\ startedAt[r] - arrivedAt[r] <= Visits(index[r] - 1)

LatenciesBounded ==
  \A n \in Names : stats[n].totalLatency <= Visits(stats[n].successes)

TimeInv == (\A r \in Requests : OnTime(r)) /\ LatenciesBounded

\* The types of one request's times.
LEMMA TaskTypes ==
  ASSUME TypeInv, NEW r \in Requests
  PROVE  /\ now \in Nat /\ timer[r] \in Nat /\ startedAt[r] \in Nat /\ arrivedAt[r] \in Nat
         /\ attempt[r] \in 0..MaxRetries /\ Spent(attempt[r]) \in Nat
         /\ index[r] \in Nat \ {0} /\ Visits(index[r] - 1) \in Nat
         /\ startedAt[r] <= now /\ arrivedAt[r] <= startedAt[r]
<1>1. /\ attempt[r] \in 0..MaxRetries /\ index[r] \in 1..Len(Chain)
      /\ Len(Chain) \in Nat
  BY ChainNames DEF TypeInv, TypeOK, Providers
<1>2. index[r] - 1 \in Nat
  BY <1>1
<1>3. Spent(attempt[r]) \in Nat
  BY <1>1, SpentSteps
<1>4. Visits(index[r] - 1) \in Nat
  BY <1>2, VisitsStep
<1> QED
  BY <1>1, <1>3, <1>4 DEF TypeInv, TypeOK, RouterTypeOK, TasksConsistent

\* A request on time has not been longer at its provider than one visit.
LEMMA VisitOnTime ==
  ASSUME TypeInv, NEW r \in Requests, OnTime(r), pc[r] \in InFlightPC
  PROVE  /\ now - startedAt[r] <= VisitBound
         /\ pc[r] = "calling" =>
              now <= startedAt[r] + Spent(attempt[r]) + Timeout + Lateness
<1>t. /\ now \in Nat /\ timer[r] \in Nat /\ startedAt[r] \in Nat
      /\ attempt[r] \in 0..MaxRetries /\ Spent(attempt[r]) \in Nat
  BY TaskTypes
<1>1. CASE pc[r] = "calling"
  BY <1>t, <1>1, BoundTypes, SpentSteps DEF OnTime
<1>2. CASE pc[r] = "backoff"
  <2>1. attempt[r] < MaxRetries
    BY <1>2 DEF TypeInv, TasksConsistent
  <2>2. Spent(attempt[r]) + RetryBound <= Spent(MaxRetries)
    BY <1>t, <2>1, SpentSteps
  <2>3. Spent(MaxRetries) \in Nat
    BY BoundTypes, SpentSteps
  <2> QED
    BY <1>t, <1>2, <2>2, <2>3, BoundTypes DEF OnTime
<1> QED
  BY <1>1, <1>2 DEF InFlightPC

\* A request that no step of its own moves, and for which no time passes,
\* stays on time.
LEMMA OthersOnTime ==
  ASSUME TypeInv, NEW r \in Requests, TaskStep(r), NEW q \in Requests, q # r, OnTime(q)
  PROVE  OnTime(q)'
<1> USE DEF TypeInv, TypeOK
<1>1. /\ pc'[q] = pc[q] /\ timer'[q] = timer[q] /\ attempt'[q] = attempt[q]
      /\ startedAt'[q] = startedAt[q] /\ arrivedAt'[q] = arrivedAt[q]
      /\ index'[q] = index[q] /\ now' = now
  <2>1. CASE Start(r)
    BY <2>1 DEF Start, Visit, CallProvider, routerVars
  <2>2. CASE Answer(r) \/ Reject(r) \/ Abandon(r) \/ Exhaust(r)
    BY <2>2 DEF Answer, Reject, Abandon, Exhaust, VisitFails, End, routerVars
  <2>3. CASE Retry(r)
    BY <2>3 DEF Retry, routerVars
  <2>4. CASE FallBack(r)
    BY <2>4 DEF FallBack, VisitFails, Visit, CallProvider
  <2>5. CASE BackoffEnds(r)
    BY <2>5 DEF BackoffEnds, CallProvider, routerVars
  <2> QED
    BY <2>1, <2>2, <2>3, <2>4, <2>5
    DEF TaskStep, GiveUp, ProviderTimesOut, LeaveProvider
<1> QED
  BY <1>1 DEF OnTime, Spent, Visits, RetryBound, VisitBound

\* A request's own step leaves it on time.
LEMMA OwnStepOnTime ==
  ASSUME TypeInv, NEW r \in Requests, TaskStep(r), OnTime(r)
  PROVE  OnTime(r)'
<1>t. /\ now \in Nat /\ timer[r] \in Nat /\ startedAt[r] \in Nat /\ arrivedAt[r] \in Nat
      /\ attempt[r] \in 0..MaxRetries /\ Spent(attempt[r]) \in Nat
      /\ index[r] \in Nat \ {0} /\ Visits(index[r] - 1) \in Nat
      /\ startedAt[r] <= now /\ arrivedAt[r] <= startedAt[r]
  BY TaskTypes
<1>f. /\ pc \in [Requests -> {"new"} \cup InFlightPC \cup EndPC]
      /\ index \in [Requests -> Providers] /\ attempt \in [Requests -> 0..MaxRetries]
      /\ arrivedAt \in [Requests -> Nat] /\ startedAt \in [Requests -> Nat]
      /\ timer \in [Requests -> Nat]
  BY DEF TypeInv, TypeOK
<1>1. CASE Start(r)
  <2>1. /\ pc'[r] = "calling" /\ timer'[r] = now + Timeout /\ attempt'[r] = 0
        /\ startedAt'[r] = now /\ arrivedAt'[r] = now /\ index'[r] = 1 /\ now' = now
    BY <1>f, <1>1 DEF Start, Visit, CallProvider, routerVars
  <2>2. Spent(0) \in Nat /\ Visits(0) \in Nat
    BY BoundTypes, SpentSteps, VisitsStep
  <2> QED
    BY <1>t, <2>1, <2>2, BoundTypes DEF OnTime, Spent, Visits, RetryBound, VisitBound
<1>2. CASE Answer(r) \/ Reject(r) \/ Abandon(r) \/ (Exhaust(r) /\ pc[r] = "calling")
  <2>1. pc'[r] \in EndPC
    BY <1>f, <1>2 DEF Answer, Reject, Abandon, Exhaust, End, EndPC
  <2> QED
    BY <2>1 DEF OnTime, EndPC, InFlightPC
<1>3. CASE Retry(r)
  <2>1. /\ pc[r] = "calling" /\ pc'[r] = "backoff" /\ attempt'[r] = attempt[r]
        /\ timer'[r] = now + Backoff(attempt[r]) /\ now' = now
        /\ startedAt'[r] = startedAt[r] /\ arrivedAt'[r] = arrivedAt[r]
        /\ index'[r] = index[r]
    BY <1>f, <1>3 DEF Retry, routerVars
  <2>2. Backoff(attempt[r]) \in Nat /\ Backoff(attempt[r]) <= MaxDelay
    BY <1>t, BackoffType
  <2>3. now <= startedAt[r] + Spent(attempt[r]) + Timeout + Lateness
    BY <2>1, VisitOnTime DEF InFlightPC
  <2>4. timer'[r] + Lateness <= startedAt[r] + Spent(attempt[r]) + RetryBound
    BY <1>t, <2>1, <2>2, <2>3, BoundTypes
  <2>5. now <= timer'[r] + Lateness
    BY <1>t, <2>1, <2>2, BoundTypes
  <2>6. startedAt[r] - arrivedAt[r] <= Visits(index[r] - 1)
    BY <2>1 DEF OnTime, InFlightPC
  <2> QED
    BY <2>1, <2>4, <2>5, <2>6
    DEF OnTime, InFlightPC, Spent, Visits, RetryBound, VisitBound
<1>4. CASE FallBack(r) /\ pc[r] = "calling"
  <2>1. /\ pc'[r] = "calling" /\ timer'[r] = now + Timeout /\ attempt'[r] = 0
        /\ startedAt'[r] = now /\ arrivedAt'[r] = arrivedAt[r]
        /\ index'[r] = index[r] + 1 /\ now' = now
    BY <1>f, <1>4 DEF FallBack, VisitFails, Visit, CallProvider
  <2>2. Spent(0) \in Nat
    BY BoundTypes, SpentSteps
  <2>3. now - startedAt[r] <= VisitBound
    BY <1>4, VisitOnTime DEF InFlightPC
  <2>4. startedAt[r] - arrivedAt[r] <= Visits(index[r] - 1)
    BY <1>4 DEF OnTime, InFlightPC
  <2>5. Visits(index[r]) = Visits(index[r] - 1) + VisitBound
    <3>1. index[r] - 1 \in Nat /\ (index[r] - 1) + 1 = index[r]
      BY <1>t
    <3>2. Visits((index[r] - 1) + 1) = Visits(index[r] - 1) + VisitBound
      BY <3>1, VisitsStep
    <3> QED
      BY <3>1, <3>2
  <2>6. now - arrivedAt[r] <= Visits(index[r]) /\ (index[r] + 1) - 1 = index[r]
    BY <1>t, <2>3, <2>4, <2>5, BoundTypes
  <2>7. timer'[r] <= now + Spent(0) + Timeout /\ now <= timer'[r] + Lateness
    BY <1>t, <2>1, <2>2, BoundTypes
  <2> QED
    BY <2>1, <2>6, <2>7 DEF OnTime, InFlightPC, Spent, Visits, RetryBound, VisitBound
<1>5. CASE BackoffEnds(r)
  <2>1. /\ pc[r] = "backoff" /\ pc'[r] = "calling" /\ attempt'[r] = attempt[r] + 1
        /\ timer'[r] = now + Timeout /\ now' = now
        /\ startedAt'[r] = startedAt[r] /\ arrivedAt'[r] = arrivedAt[r]
        /\ index'[r] = index[r]
    BY <1>f, <1>5 DEF BackoffEnds, CallProvider, routerVars
  <2>2. /\ timer[r] + Lateness <= startedAt[r] + Spent(attempt[r]) + RetryBound
        /\ now <= timer[r] + Lateness
        /\ startedAt[r] - arrivedAt[r] <= Visits(index[r] - 1)
    BY <2>1 DEF OnTime, InFlightPC
  <2>3. Spent(attempt[r] + 1) = Spent(attempt[r]) + RetryBound
    BY <1>t, SpentSteps
  <2>4. timer'[r] <= startedAt[r] + Spent(attempt[r] + 1) + Timeout
    BY <1>t, <2>1, <2>2, <2>3, BoundTypes
  <2>5. now <= timer'[r] + Lateness
    BY <1>t, <2>1, BoundTypes
  <2> QED
    BY <2>1, <2>2, <2>4, <2>5
    DEF OnTime, InFlightPC, Spent, Visits, RetryBound, VisitBound
<1> QED
  BY <1>1, <1>2, <1>3, <1>4, <1>5
  DEF TaskStep, GiveUp, ProviderTimesOut, LeaveProvider

\* The clock waits for the timers, so its ticks leave every request on time.
LEMMA TickOnTime ==
  ASSUME TypeInv, Tick, NEW r \in Requests, OnTime(r)
  PROVE  OnTime(r)'
<1>1. now \in Nat /\ timer[r] \in Nat /\ Lateness \in Nat
  BY TaskTypes, BoundTypes
<1>2. pc[r] \in InFlightPC => now + 1 <= timer[r] + Lateness
  BY <1>1 DEF Tick, InFlight
<1> QED
  BY <1>2 DEF Tick, taskVars, OnTime, Spent, Visits, RetryBound, VisitBound

\* The latencies recorded stay within one visit each.
LEMMA LatenciesStep ==
  ASSUME TypeInv, TimeInv, [Next]_vars
  PROVE  LatenciesBounded'
<1>t. TypeOK /\ RouterTypeOK
  BY DEF TypeInv, TypeOK
<1>1. ASSUME NEW r \in Requests, Answer(r)
      PROVE  LatenciesBounded'
  <2> DEFINE n == Chain[Current(r)]
             latency == now - startedAt[r]
  <2>1. Current(r) \in Providers /\ n \in Names
    BY <1>t, CurrentProvider
  <2>2. latency \in Nat /\ latency <= VisitBound
    <3>1. pc[r] \in InFlightPC
      BY <1>1 DEF Answer, InFlightPC
    <3> QED
      BY <3>1, VisitOnTime, TaskTypes DEF TimeInv
  <2>3. /\ stats'[n].totalLatency = stats[n].totalLatency + latency
        /\ stats'[n].successes = stats[n].successes + 1
        /\ \A m \in Names : m # n => stats'[m] = stats[m]
    BY <1>t, <1>1, <2>1 DEF Answer, RecordSuccess, RouterTypeOK
  <2>4. /\ stats[n].totalLatency \in Nat /\ stats[n].successes \in Nat
        /\ stats[n].totalLatency <= Visits(stats[n].successes)
    BY <1>t, <2>1 DEF RouterTypeOK, ProviderStats, TimeInv, LatenciesBounded
  <2>5. /\ Visits(stats[n].successes) \in Nat
        /\ Visits(stats[n].successes + 1) = Visits(stats[n].successes) + VisitBound
    BY <2>4, VisitsStep
  <2>6. stats'[n].totalLatency <= Visits(stats'[n].successes)
    BY <2>2, <2>3, <2>4, <2>5, BoundTypes
  <2>7. \A m \in Names : stats'[m].totalLatency <= Visits(stats'[m].successes)
    BY <2>3, <2>6 DEF TimeInv, LatenciesBounded
  <2> QED
    BY <2>7 DEF LatenciesBounded, Visits, VisitBound, RetryBound
<1>2. ASSUME NEW r \in Requests, VisitFails(r)
      PROVE  LatenciesBounded'
  <2> DEFINE n == Chain[Current(r)]
  <2>1. Current(r) \in Providers /\ n \in Names
    BY <1>t, CurrentProvider
  <2>2. /\ stats'[n].totalLatency = stats[n].totalLatency
        /\ stats'[n].successes = stats[n].successes
        /\ \A m \in Names : m # n => stats'[m] = stats[m]
    BY <1>t, <1>2, <2>1 DEF VisitFails, RecordFailure, RouterTypeOK
  <2>3. \A m \in Names : stats'[m].totalLatency <= Visits(stats'[m].successes)
    BY <2>2 DEF TimeInv, LatenciesBounded
  <2> QED
    BY <2>3 DEF LatenciesBounded, Visits, VisitBound, RetryBound
<1>3. CASE UNCHANGED stats
  BY <1>3 DEF TimeInv, LatenciesBounded, Visits, VisitBound, RetryBound
<1>4. ASSUME NEW r \in Requests, TaskStep(r)
      PROVE  LatenciesBounded'
  <2>1. UNCHANGED stats \/ VisitFails(r) \/ Answer(r)
    BY <1>4 DEF TaskStep, Start, Retry, GiveUp, ProviderTimesOut, LeaveProvider,
                FallBack, Exhaust, Reject, Abandon, BackoffEnds, routerVars
  <2> QED
    BY <2>1, <1>1, <1>2, <1>3
<1> QED
  BY <1>3, <1>4 DEF Next, Tick, Quiet, vars, routerVars

\* Every request in flight is within its deadline, whatever the providers do
\* and however late, within Lateness, the event loop is with its timers; and
\* no provider's latency is averaged from anything longer than one visit.
THEOREM RequestsInTime == Spec => []InTime
<1>1. Init => TimeInv
  <2> SUFFICES ASSUME Init
               PROVE  TimeInv
    OBVIOUS
  <2>1. Visits(0) \in Nat
    BY VisitsStep
  <2> QED
    BY <2>1 DEF Init, RouterInit, NoStats, TimeInv, OnTime, LatenciesBounded, InFlightPC
<1>2. TypeInv /\ TimeInv /\ [Next]_vars => TimeInv'
  <2> SUFFICES ASSUME TypeInv, TimeInv, [Next]_vars
               PROVE  TimeInv'
    OBVIOUS
  <2>1. ASSUME NEW q \in Requests
        PROVE  OnTime(q)'
    <3>1. OnTime(q)
      BY DEF TimeInv
    <3>2. ASSUME NEW r \in Requests, TaskStep(r)
          PROVE  OnTime(q)'
      BY <3>1, <3>2, OwnStepOnTime, OthersOnTime
    <3>3. CASE Tick
      BY <3>1, <3>3, TickOnTime
    <3>4. CASE UNCHANGED vars
      BY <3>1, <3>4
      DEF vars, taskVars, routerVars, OnTime, Spent, Visits, RetryBound, VisitBound
    <3> QED
      BY <3>2, <3>3, <3>4 DEF Next, Quiet
  <2> QED
    BY <2>1, LatenciesStep DEF TimeInv
<1>3. TypeInv /\ TimeInv => InTime
  <2> SUFFICES ASSUME TypeInv, TimeInv
               PROVE  InTime
    OBVIOUS
  <2>1. ASSUME NEW r \in InFlight
        PROVE  /\ now - startedAt[r] <= VisitBound
               /\ now - arrivedAt[r] <= index[r] * VisitBound
    <3>1. r \in Requests /\ pc[r] \in InFlightPC /\ OnTime(r)
      BY DEF InFlight, TimeInv
    <3>2. now - startedAt[r] <= VisitBound
      BY <3>1, VisitOnTime
    <3>3. startedAt[r] - arrivedAt[r] <= Visits(index[r] - 1)
      BY <3>1 DEF OnTime
    <3>4. /\ now \in Nat /\ startedAt[r] \in Nat /\ arrivedAt[r] \in Nat
          /\ index[r] \in Nat \ {0} /\ Visits(index[r] - 1) \in Nat
      BY <3>1, TaskTypes
    <3>5. index[r] - 1 \in Nat /\ (index[r] - 1) + 1 = index[r]
      BY <3>4
    <3>6. Visits(index[r]) = Visits(index[r] - 1) + VisitBound
      BY <3>5, VisitsStep
    <3>7. now - arrivedAt[r] <= Visits(index[r])
      BY <3>2, <3>3, <3>4, <3>6, BoundTypes
    <3> QED
      BY <3>2, <3>7 DEF Visits
  <2>2. \A n \in Names : stats[n].totalLatency <= stats[n].successes * VisitBound
    BY DEF TimeInv, LatenciesBounded, Visits
  <2> QED
    BY <2>1, <2>2 DEF InTime
<1> QED
  BY <1>1, <1>2, <1>3, GatewayTypes, PTL DEF Spec
=============================================================================
