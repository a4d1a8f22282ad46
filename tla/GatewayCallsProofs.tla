------------------------- MODULE GatewayCallsProofs -------------------------
(***************************************************************************)
(* The calls a request makes: the retry limit, the order of the providers, *)
(* the steps that are left to it, the refinement of the abstract fallback  *)
(* chain, and the metrics' account of its visits, for every chain, every   *)
(* number of requests and retries and all timings.                         *)
(***************************************************************************)
EXTENDS GatewayProofs, FiniteSetTheorems, WellFoundedInduction

\* What CallsFollowOrder says of one request.
InOrder(r) ==
  /\ pc[r] = "new" => \A p \in Providers : calls[r][p] = 0
  /\ pc[r] = "exhausted" => index[r] = Len(Chain)
  /\ pc[r] # "new" =>
       \A k \in Providers :
         LET p == Ordered(selected[r])[k] IN
         /\ k <= index[r] => calls[r][p] \in 1..MaxRetries + 1
         /\ k > index[r] => calls[r][p] = 0
         /\ k = index[r] /\ pc[r] \in InFlightPC => calls[r][p] = attempt[r] + 1
         /\ Passed(r, k) => /\ stats[Chain[p]].failures > 0
                            /\ p \notin OwnTimeouts => calls[r][p] = MaxRetries + 1

\* A request leaves its provider after its last retry or on a timeout of the
\* provider's own.
Retried(r) == Current(r) \notin OwnTimeouts => attempt[r] = MaxRetries

\* The statistics only ever count up, so what a request knows of recorded
\* failures is not undone by the others.
NoFailureLost ==
  \A n \in Names : stats[n].failures > 0 => stats'[n].failures > 0

\* No step of the gateway takes a failure the router has recorded back.
LEMMA FailuresStay == TypeInv /\ [Next]_vars => NoFailureLost
<1> SUFFICES ASSUME TypeInv, [Next]_vars
             PROVE  NoFailureLost
  OBVIOUS
<1>t. RouterTypeOK /\ TypeOK
  BY DEF TypeInv, TypeOK
<1>1. ASSUME NEW p \in Providers, RecordFailure(p)
      PROVE  NoFailureLost
  BY <1>t, <1>1, ChainNames DEF RecordFailure, RouterTypeOK, ProviderStats, NoFailureLost
<1>2. ASSUME NEW p \in Providers, NEW l, RecordSuccess(p, l)
      PROVE  NoFailureLost
  BY <1>t, <1>2, ChainNames DEF RecordSuccess, RouterTypeOK, ProviderStats, NoFailureLost
<1>3. CASE UNCHANGED stats
  BY <1>3 DEF NoFailureLost
<1>4. ASSUME NEW r \in Requests, TaskStep(r)
      PROVE  NoFailureLost
  <2>1. Current(r) \in Providers
    BY <1>t, CurrentProvider
  <2>2. \/ UNCHANGED stats
        \/ RecordFailure(Current(r))
        \/ RecordSuccess(Current(r), now - startedAt[r])
    BY <1>4 DEF TaskStep, Start, Answer, Retry, GiveUp, ProviderTimesOut, LeaveProvider,
                FallBack, Exhaust, Reject, Abandon, BackoffEnds, VisitFails, routerVars
  <2> QED
    BY <2>1, <2>2, <1>1, <1>2, <1>3
<1> QED
  BY <1>3, <1>4 DEF Next, Tick, Quiet, vars, routerVars

\* A request whose task variables do not change stays in order.
LEMMA OthersInOrder ==
  ASSUME TypeInv, NEW q \in Requests, InOrder(q), NoFailureLost,
         pc'[q] = pc[q], selected'[q] = selected[q], index'[q] = index[q],
         attempt'[q] = attempt[q], calls'[q] = calls[q]
  PROVE  InOrder(q)'
<1>1. selected[q] \in Providers
  BY DEF TypeInv, TypeOK
<1>2. \A k \in Providers : Chain[Ordered(selected[q])[k]] \in Names
  BY <1>1, OrderedType, ChainNames
<1> QED
  BY <1>2 DEF InOrder, Passed, Ordered, NoFailureLost

\* A step of one request does not touch the task variables of another.
LEMMA StepTouchesOne ==
  ASSUME TypeInv, NEW r \in Requests, TaskStep(r), NEW q \in Requests, q # r
  PROVE  /\ pc'[q] = pc[q] /\ selected'[q] = selected[q] /\ index'[q] = index[q]
         /\ attempt'[q] = attempt[q] /\ calls'[q] = calls[q] /\ timer'[q] = timer[q]
         /\ arrivedAt'[q] = arrivedAt[q] /\ startedAt'[q] = startedAt[q]
<1> USE DEF TypeInv, TypeOK
<1>1. CASE Start(r)
  BY <1>1 DEF Start, Visit, CallProvider
<1>2. CASE Answer(r) \/ Reject(r) \/ Abandon(r) \/ Exhaust(r)
  BY <1>2 DEF Answer, Reject, Abandon, Exhaust, End
<1>3. CASE Retry(r)
  BY <1>3 DEF Retry
<1>4. CASE FallBack(r)
  BY <1>4 DEF FallBack, Visit, CallProvider
<1>5. CASE BackoffEnds(r)
  BY <1>5 DEF BackoffEnds, CallProvider
<1> QED
  BY <1>1, <1>2, <1>3, <1>4, <1>5
  DEF TaskStep, GiveUp, ProviderTimesOut, LeaveProvider

\* A visit that fails leaves a failure of its provider behind.
LEMMA VisitFailsRecorded ==
  ASSUME TypeInv, NEW r \in Requests, VisitFails(r)
  PROVE  stats'[Chain[Current(r)]].failures > 0
<1>1. Current(r) \in Providers /\ Chain[Current(r)] \in Names
  BY CurrentProvider DEF TypeInv
<1> QED
  BY <1>1 DEF TypeInv, TypeOK, VisitFails, RecordFailure, RouterTypeOK, ProviderStats

\* A request's own step keeps it in order.
LEMMA OwnStepInOrder ==
  ASSUME TypeInv, NEW r \in Requests, InOrder(r), TaskStep(r), NoFailureLost
  PROVE  InOrder(r)'
<1>t. /\ selected[r] \in Providers /\ index[r] \in Providers
      /\ attempt[r] \in 0..MaxRetries /\ calls[r] \in [Providers -> Nat]
      /\ pc \in [Requests -> {"new"} \cup InFlightPC \cup EndPC]
      /\ selected \in [Requests -> Providers] /\ index \in [Requests -> Providers]
      /\ attempt \in [Requests -> 0..MaxRetries]
      /\ calls \in [Requests -> [Providers -> Nat]]
  BY DEF TypeInv, TypeOK
<1>o. /\ \A k \in Providers : /\ Ordered(selected[r])[k] \in Providers
                              /\ Chain[Ordered(selected[r])[k]] \in Names
      /\ \A j, k \in Providers :
           Ordered(selected[r])[j] = Ordered(selected[r])[k] => j = k
  <2>1. Ordered(selected[r]) \in [Providers -> Providers]
    BY <1>t, OrderedType
  <2> QED
    BY <1>t, <2>1, OrderedInjective, ChainNames
<1>l. Len(Chain) \in Nat \ {0} /\ Providers = 1..Len(Chain) /\ MaxRetries \in Nat
  BY ChainNames, GatewayAssumption DEF Providers
<1>1. CASE Start(r)
  <2>1. PICK p \in Providers : /\ selected' = [selected EXCEPT ![r] = p]
                               /\ Visit(r, p, 1)
    BY <1>1 DEF Start
  <2>2. /\ pc'[r] = "calling" /\ selected'[r] = p /\ index'[r] = 1 /\ attempt'[r] = 0
        /\ calls'[r] = [calls[r] EXCEPT ![p] = @ + 1]
    BY <1>t, <2>1 DEF Visit, CallProvider
  <2>3. \A q \in Providers : calls[r][q] = 0
    BY <1>1 DEF Start, InOrder
  <2>4. calls'[r][p] = 1 /\ \A q \in Providers : q # p => calls'[r][q] = 0
    BY <1>t, <2>2, <2>3
  <2>5. \A k \in Providers : (Ordered(p)[k] = p <=> k = 1) /\ Ordered(p)[k] \in Providers
    <3>1. 1 \in Providers
      BY <1>l
    <3>2. Ordered(p) \in [Providers -> Providers] /\ Ordered(p)[1] = p
      BY OrderedType
    <3> QED
      BY <3>1, <3>2, OrderedInjective
  <2>6. \A k \in Providers : Ordered(selected'[r])[k] = Ordered(p)[k]
    BY <2>2
  <2>7. \A k \in Providers :
          /\ k <= 1 => calls'[r][Ordered(p)[k]] \in 1..MaxRetries + 1
          /\ k > 1 => calls'[r][Ordered(p)[k]] = 0
          /\ k = 1 => calls'[r][Ordered(p)[k]] = 1
          /\ ~(k < 1)
    BY <1>l, <2>4, <2>5
  <2> QED
    BY <2>2, <2>6, <2>7 DEF InOrder, Passed, Ordered
<1>2. CASE Answer(r) \/ Reject(r) \/ Abandon(r)
  <2>1. pc[r] \in InFlightPC
    BY <1>2 DEF Answer, Reject, Abandon, InFlightPC
  <2>2. /\ pc'[r] \in EndPC \ {"exhausted"} /\ selected'[r] = selected[r]
        /\ index'[r] = index[r] /\ calls'[r] = calls[r]
    BY <1>t, <1>2 DEF Answer, Reject, Abandon, End, EndPC
  <2> QED
    BY <1>o, <2>1, <2>2 DEF InOrder, Passed, Ordered, NoFailureLost, InFlightPC, EndPC
<1>3. CASE Retry(r)
  <2>1. /\ pc[r] = "calling" /\ pc'[r] = "backoff" /\ selected'[r] = selected[r]
        /\ index'[r] = index[r] /\ attempt'[r] = attempt[r] /\ calls'[r] = calls[r]
    BY <1>t, <1>3 DEF Retry
  <2> QED
    BY <1>o, <2>1 DEF InOrder, Passed, Ordered, NoFailureLost, InFlightPC
<1>4. CASE Exhaust(r) /\ pc[r] = "calling" /\ Retried(r)
  <2>1. /\ pc'[r] = "exhausted" /\ selected'[r] = selected[r]
        /\ index'[r] = index[r] /\ index[r] = Len(Chain) /\ calls'[r] = calls[r]
    BY <1>t, <1>4 DEF Exhaust, End
  <2>2. stats'[Chain[Current(r)]].failures > 0
    BY <1>4, VisitFailsRecorded DEF Exhaust
  <2>3. \A k \in Providers : k <= index[r] /\ (k < index[r] \/ k = index[r])
    BY <1>l, <2>1
  <2>c. Current(r) \notin OwnTimeouts => calls[r][Current(r)] = MaxRetries + 1
    BY <1>t, <1>4 DEF InOrder, Current, Retried, InFlightPC
  <2>4. \A k \in Providers :
          LET p == Ordered(selected[r])[k] IN
          /\ calls[r][p] \in 1..MaxRetries + 1
          /\ stats'[Chain[p]].failures > 0
          /\ p \notin OwnTimeouts => calls[r][p] = MaxRetries + 1
    <3> SUFFICES ASSUME NEW k \in Providers
                 PROVE  LET p == Ordered(selected[r])[k] IN
                        /\ calls[r][p] \in 1..MaxRetries + 1
                        /\ stats'[Chain[p]].failures > 0
                        /\ p \notin OwnTimeouts => calls[r][p] = MaxRetries + 1
      OBVIOUS
    <3> DEFINE p == Ordered(selected[r])[k]
    <3>1. /\ calls[r][p] \in 1..MaxRetries + 1
          /\ k < index[r] => /\ stats[Chain[p]].failures > 0
                             /\ p \notin OwnTimeouts => calls[r][p] = MaxRetries + 1
      BY <1>4, <2>3 DEF InOrder, Passed
    <3>2. CASE k < index[r]
      BY <1>o, <3>1, <3>2 DEF NoFailureLost
    <3>3. CASE k = index[r]
      BY <2>2, <2>c, <3>1, <3>3 DEF Current
    <3> QED
      BY <2>3, <3>2, <3>3
  <2>5. \A k \in Providers : (Ordered(selected[r])[k])' = Ordered(selected[r])[k]
    BY <2>1 DEF Ordered
  <2>6. /\ pc'[r] = "exhausted" /\ "exhausted" # "new" /\ "exhausted" \notin InFlightPC
        /\ index'[r] = index[r] /\ index[r] = Len(Chain) /\ calls'[r] = calls[r]
    BY <2>1 DEF InFlightPC
  <2>7. \A k \in Providers : ~(k > index[r])
    BY <1>l, <2>1
  <2> QED
    BY <2>4, <2>5, <2>6, <2>7 DEF InOrder, Passed
<1>5. CASE FallBack(r) /\ pc[r] = "calling" /\ Retried(r)
  <2> DEFINE next == Ordered(selected[r])[index[r] + 1]
  <2>1. /\ pc'[r] = "calling" /\ selected'[r] = selected[r]
        /\ index'[r] = index[r] + 1 /\ attempt'[r] = 0
        /\ calls'[r] = [calls[r] EXCEPT ![next] = @ + 1]
        /\ index[r] < Len(Chain)
    BY <1>t, <1>5 DEF FallBack, Visit, CallProvider
  <2>2. stats'[Chain[Current(r)]].failures > 0
    BY <1>5, VisitFailsRecorded DEF FallBack
  <2>c. Current(r) \notin OwnTimeouts => calls[r][Current(r)] = MaxRetries + 1
    BY <1>t, <1>5 DEF InOrder, Current, Retried, InFlightPC
  <2>3. index[r] + 1 \in Providers /\ next \in Providers
    BY <1>t, <1>l, <1>o, <2>1
  <2>4. calls[r][next] = 0
    BY <1>5, <1>t, <1>l, <2>3 DEF InOrder
  <2>5. /\ calls'[r][next] = 1
        /\ \A k \in Providers : k # index[r] + 1 =>
             calls'[r][Ordered(selected[r])[k]] = calls[r][Ordered(selected[r])[k]]
    BY <1>t, <1>o, <2>1, <2>3, <2>4
  <2>6. ASSUME NEW k \in Providers
        PROVE  LET p == Ordered(selected[r])[k] IN
               /\ k <= index[r] + 1 => calls'[r][p] \in 1..MaxRetries + 1
               /\ k > index[r] + 1 => calls'[r][p] = 0
               /\ k = index[r] + 1 => calls'[r][p] = 1
               /\ k < index[r] + 1 => /\ stats'[Chain[p]].failures > 0
                                      /\ p \notin OwnTimeouts =>
                                           calls'[r][p] = MaxRetries + 1
    <3> DEFINE p == Ordered(selected[r])[k]
    <3>0. /\ k <= index[r] => calls[r][p] \in 1..MaxRetries + 1
          /\ k > index[r] => calls[r][p] = 0
          /\ k < index[r] => /\ stats[Chain[p]].failures > 0
                             /\ p \notin OwnTimeouts => calls[r][p] = MaxRetries + 1
      BY <1>5 DEF InOrder, Passed
    <3>f. k < index[r] => stats'[Chain[p]].failures > 0
      BY <3>0, <1>o DEF NoFailureLost
    <3>c. k # index[r] + 1 => calls'[r][p] = calls[r][p]
      BY <2>5
    <3>1. CASE k < index[r]
      <4>1. calls'[r][p] = calls[r][p]
        BY <1>t, <1>l, <3>c, <3>1
      <4> QED
        BY <1>t, <1>l, <3>0, <3>f, <3>1, <4>1
    <3>2. CASE k = index[r]
      <4>1. calls'[r][p] = calls[r][p]
        BY <1>t, <1>l, <3>c, <3>2
      <4>2. p = Current(r)
        BY <3>2 DEF Current
      <4> QED
        BY <1>t, <1>l, <2>2, <2>c, <3>0, <3>2, <4>1, <4>2
    <3>3. CASE k = index[r] + 1
      BY <1>t, <1>l, <2>5, <3>3
    <3>4. CASE k > index[r] + 1
      <4>1. calls'[r][p] = calls[r][p]
        BY <1>t, <1>l, <3>c, <3>4
      <4> QED
        BY <1>t, <1>l, <3>0, <3>4, <4>1
    <3> QED
      BY <1>t, <1>l, <3>1, <3>2, <3>3, <3>4
  <2>7. \A k \in Providers : (Ordered(selected[r])[k])' = Ordered(selected[r])[k]
    BY <2>1 DEF Ordered
  <2>8. index'[r] \in Nat /\ "calling" # "new" /\ "calling" # "exhausted" /\ attempt'[r] + 1 = 1
    BY <1>t, <1>l, <2>1
  <2>9. pc'[r] = "calling" /\ index'[r] = index[r] + 1
    BY <2>1
  <2> HIDE DEF next
  <2> QED
    BY <2>6, <2>7, <2>8, <2>9 DEF InOrder, Passed
<1>6. CASE BackoffEnds(r)
  <2> DEFINE cur == Current(r)
  <2>1. /\ pc[r] = "backoff" /\ pc'[r] = "calling" /\ selected'[r] = selected[r]
        /\ index'[r] = index[r] /\ attempt'[r] = attempt[r] + 1
        /\ calls'[r] = [calls[r] EXCEPT ![cur] = @ + 1]
        /\ stats' = stats
    BY <1>t, <1>6 DEF BackoffEnds, CallProvider, routerVars
  <2>2. attempt[r] < MaxRetries
    BY <2>1 DEF TypeInv, TasksConsistent
  <2>3. calls[r][cur] = attempt[r] + 1 /\ cur \in Providers
    BY <1>t, <1>o, <2>1 DEF InOrder, Current, InFlightPC
  <2>4. /\ calls'[r][cur] = attempt[r] + 2
        /\ \A k \in Providers : k # index[r] =>
             calls'[r][Ordered(selected[r])[k]] = calls[r][Ordered(selected[r])[k]]
    BY <1>t, <1>o, <2>1, <2>3 DEF Current
  <2>5. ASSUME NEW k \in Providers
        PROVE  LET p == Ordered(selected[r])[k] IN
               /\ k <= index[r] => calls'[r][p] \in 1..MaxRetries + 1
               /\ k > index[r] => calls'[r][p] = 0
               /\ k = index[r] => calls'[r][p] = attempt[r] + 2
               /\ k < index[r] => /\ stats'[Chain[p]].failures > 0
                                  /\ p \notin OwnTimeouts => calls'[r][p] = MaxRetries + 1
    <3>1. CASE k = index[r]
      BY <1>t, <1>l, <2>2, <2>4, <3>1 DEF Current
    <3>2. CASE k # index[r]
      BY <1>t, <1>l, <2>1, <2>4, <3>2 DEF InOrder, Passed
    <3> QED
      BY <3>1, <3>2
  <2>6. attempt'[r] + 1 = attempt[r] + 2
    BY <1>t, <1>l, <2>1
  <2>7. \A k \in Providers : Ordered(selected'[r])[k] = Ordered(selected[r])[k]
    BY <2>1
  <2> QED
    BY <2>1, <2>5, <2>6, <2>7 DEF InOrder, Passed, Ordered
<1>7. GiveUp(r) \/ ProviderTimesOut(r) => Retried(r)
  BY <1>t, <1>l DEF GiveUp, ProviderTimesOut, Retried
<1> QED
  BY <1>1, <1>2, <1>3, <1>4, <1>5, <1>6, <1>7
  DEF TaskStep, GiveUp, ProviderTimesOut, LeaveProvider

\* A request's calls follow the order of its providers in every state, and
\* the providers it has passed have failed.
THEOREM CallsInOrder == Spec => []CallsFollowOrder
<1>d. CallsFollowOrder <=> \A r \in Requests : InOrder(r)
  BY DEF CallsFollowOrder, InOrder
<1>1. Init => CallsFollowOrder
  BY DEF Init, CallsFollowOrder
<1>2. TypeInv /\ CallsFollowOrder /\ [Next]_vars => CallsFollowOrder'
  <2> SUFFICES ASSUME TypeInv, \A r \in Requests : InOrder(r), [Next]_vars,
                      NEW q \in Requests
               PROVE  InOrder(q)'
    BY <1>d DEF CallsFollowOrder, InOrder
  <2>1. NoFailureLost
    BY FailuresStay
  <2>2. CASE TaskStep(q)
    BY <2>1, <2>2, OwnStepInOrder
  <2>3. ASSUME NEW r \in Requests, TaskStep(r), r # q
        PROVE  InOrder(q)'
    BY <2>1, <2>3, StepTouchesOne, OthersInOrder
  <2>4. CASE Tick \/ UNCHANGED vars
    BY <2>1, <2>4, OthersInOrder DEF Tick, vars, taskVars
  <2> QED
    BY <2>2, <2>3, <2>4 DEF Next, Quiet
<1> QED
  BY <1>1, <1>2, GatewayTypes, PTL DEF Spec

\* No provider is ever called more than MaxRetries + 1 times for one request.
THEOREM CallsWithinBudget == Spec => []CallBudget
<1>1. TypeInv /\ CallsFollowOrder => CallBudget
  <2> SUFFICES ASSUME TypeInv, CallsFollowOrder, NEW r \in Requests, NEW p \in Providers
               PROVE  calls[r][p] <= MaxRetries + 1
    BY DEF CallBudget
  <2>1. selected[r] \in Providers /\ index[r] \in Providers /\ MaxRetries \in Nat
    BY GatewayAssumption DEF TypeInv, TypeOK
  <2>2. PICK k \in Providers : Ordered(selected[r])[k] = p
    BY <2>1, OrderedOnto
  <2>3. k <= index[r] \/ k > index[r]
    BY <2>1, ChainNames DEF Providers
  <2> QED
    BY <2>1, <2>2, <2>3 DEF CallsFollowOrder
<1> QED
  BY <1>1, GatewayTypes, CallsInOrder, PTL

\* The caller learns that every provider failed only after each was called
\* and each failed.
THEOREM ExhaustionIsReal == Spec => []ExhaustedAfterAll
<1>1. TypeInv /\ CallsFollowOrder => ExhaustedAfterAll
  <2> SUFFICES ASSUME TypeInv, CallsFollowOrder, NEW r \in Requests,
                      pc[r] = "exhausted", NEW p \in Providers
               PROVE  calls[r][p] > 0 /\ stats[Chain[p]].failures > 0
    BY DEF ExhaustedAfterAll
  <2>1. selected[r] \in Providers /\ index[r] = Len(Chain) /\ MaxRetries \in Nat
    BY GatewayAssumption DEF TypeInv, TypeOK, CallsFollowOrder
  <2>2. PICK k \in Providers : Ordered(selected[r])[k] = p
    BY <2>1, OrderedOnto
  <2>3. k <= index[r]
    BY <2>1, ChainNames DEF Providers
  <2> QED
    BY <2>1, <2>2, <2>3 DEF CallsFollowOrder, Passed
<1> QED
  BY <1>1, GatewayTypes, CallsInOrder, PTL

-----------------------------------------------------------------------------
\* The steps that are left to a request

\* One provider less leaves the steps of one visit less.
LEMMA VisitSteps ==
  ASSUME NEW i \in Providers
  PROVE  LET steps == 2 * MaxRetries + 1 IN
         /\ steps \in Nat
         /\ Len(Chain) - i \in Nat
         /\ (Len(Chain) - i) * steps \in Nat
         /\ (Len(Chain) - i) * steps <= (Len(Chain) - 1) * steps
         /\ i < Len(Chain) =>
              (Len(Chain) - i) * steps = (Len(Chain) - (i + 1)) * steps + steps
<1> DEFINE steps == 2 * MaxRetries + 1
<1>1. /\ steps \in Nat /\ Len(Chain) \in Nat /\ i \in 1..Len(Chain)
      /\ Len(Chain) - i \in Nat /\ Len(Chain) - 1 \in Nat
  BY ChainNames, GatewayAssumption DEF Providers
<1> HIDE DEF steps
<1>2. (Len(Chain) - i) * steps \in Nat
  BY <1>1
<1>3. (Len(Chain) - i) * steps <= (Len(Chain) - 1) * steps
  BY <1>1, ProductMonotone
<1>4. ASSUME i < Len(Chain)
      PROVE  (Len(Chain) - i) * steps = (Len(Chain) - (i + 1)) * steps + steps
  <2>1. /\ Len(Chain) - (i + 1) \in Nat
        /\ Len(Chain) - i = (Len(Chain) - (i + 1)) + 1
    BY <1>1, <1>4
  <2> QED
    BY <1>1, <2>1, ProductStep
<1> QED
  BY <1>1, <1>2, <1>3, <1>4 DEF steps

\* A request in flight has a step left, and at most the calls and backoffs of
\* every provider.
LEMMA StepsLeftType ==
  ASSUME TypeInv, NEW r \in Requests
  PROVE  /\ StepsLeft(r) \in 0..Len(Chain) * (2 * MaxRetries + 1)
         /\ pc[r] \in InFlightPC <=> StepsLeft(r) > 0
<1> DEFINE steps == 2 * MaxRetries + 1
           rest == (Len(Chain) - index[r]) * steps
<1>1. /\ index[r] \in Providers /\ attempt[r] \in 0..MaxRetries /\ MaxRetries \in Nat
      /\ pc[r] = "backoff" => attempt[r] < MaxRetries
  BY GatewayAssumption DEF TypeInv, TypeOK, TasksConsistent
<1>2. /\ rest \in Nat /\ steps \in Nat /\ rest <= (Len(Chain) - 1) * steps
      /\ Len(Chain) * steps = (Len(Chain) - 1) * steps + steps
      /\ (Len(Chain) - 1) * steps \in Nat
  <2>1. 1 \in Providers /\ Len(Chain) \in Nat \ {0}
    BY ChainNames DEF Providers
  <2>2. Len(Chain) - 1 \in Nat /\ Len(Chain) = (Len(Chain) - 1) + 1
    BY <2>1
  <2>3. steps \in Nat
    BY <1>1
  <2> HIDE DEF steps
  <2>4. Len(Chain) * steps = (Len(Chain) - 1) * steps + steps
    BY <2>2, <2>3, ProductStep
  <2> QED
    BY <1>1, <2>1, <2>3, <2>4, VisitSteps DEF steps
<1>3. StepsLeft(r) = IF pc[r] \in InFlightPC
                     THEN rest + 2 * (MaxRetries - attempt[r])
                            + (IF pc[r] = "calling" THEN 1 ELSE 0)
                     ELSE 0
  BY DEF StepsLeft
<1> DEFINE all == Len(Chain) * steps
           others == (Len(Chain) - 1) * steps
<1>4. steps = 2 * MaxRetries + 1 /\ all = others + steps /\ rest <= others
      /\ rest \in Nat /\ others \in Nat
  BY <1>2
<1>5. StepsLeft(r) \in 0..all /\ (pc[r] \in InFlightPC <=> StepsLeft(r) > 0)
  <2> HIDE DEF all, others, rest, steps
  <2> QED
    BY <1>1, <1>3, <1>4 DEF InFlightPC
<1> QED
  BY <1>5

\* Every step of a request that has started takes one or more of the steps
\* that were left to it.
LEMMA OwnStepRunsDown ==
  ASSUME TypeInv, TypeInv', NEW r \in Requests, TaskStep(r), pc[r] # "new"
  PROVE  StepsLeft(r)' < StepsLeft(r)
<1> DEFINE rest(i) == (Len(Chain) - i) * (2 * MaxRetries + 1)
<1>t. /\ index[r] \in Providers /\ attempt[r] \in 0..MaxRetries /\ MaxRetries \in Nat
      /\ rest(index[r]) \in Nat /\ r \in Requests
      /\ index \in [Requests -> Providers] /\ attempt \in [Requests -> 0..MaxRetries]
      /\ DOMAIN pc = Requests
  <2>1. index[r] \in Providers
    BY DEF TypeInv, TypeOK
  <2> QED
    BY <2>1, VisitSteps, GatewayAssumption DEF TypeInv, TypeOK
<1>s. /\ pc[r] \in InFlightPC =>
           StepsLeft(r) = rest(index[r]) + 2 * (MaxRetries - attempt[r])
                            + (IF pc[r] = "calling" THEN 1 ELSE 0)
      /\ pc'[r] \in InFlightPC =>
           StepsLeft(r)' = rest(index'[r]) + 2 * (MaxRetries - attempt'[r])
                            + (IF pc'[r] = "calling" THEN 1 ELSE 0)
      /\ pc'[r] \notin InFlightPC => StepsLeft(r)' = 0
  BY DEF StepsLeft
<1>1. CASE Answer(r) \/ Reject(r) \/ Abandon(r) \/ (pc[r] = "calling" /\ Exhaust(r))
  <2>1. pc[r] \in InFlightPC /\ pc'[r] \in EndPC
    BY <1>1, <1>t DEF Answer, Reject, Abandon, Exhaust, End, InFlightPC, EndPC
  <2>2. StepsLeft(r)' = 0
    BY <1>s, <2>1 DEF InFlightPC, EndPC
  <2>3. StepsLeft(r) \in Nat /\ StepsLeft(r) > 0
    BY <2>1, StepsLeftType
  <2> QED
    BY <2>2, <2>3
<1>2. CASE Retry(r)
  <2>1. /\ pc[r] = "calling" /\ pc'[r] = "backoff"
        /\ index'[r] = index[r] /\ attempt'[r] = attempt[r]
    BY <1>2, <1>t DEF Retry
  <2> HIDE DEF rest
  <2> QED
    BY <1>s, <1>t, <2>1 DEF InFlightPC
<1>3. CASE BackoffEnds(r)
  <2>1. /\ pc[r] = "backoff" /\ pc'[r] = "calling"
        /\ index'[r] = index[r] /\ attempt'[r] = attempt[r] + 1
    BY <1>3, <1>t DEF BackoffEnds, CallProvider
  <2> HIDE DEF rest
  <2> QED
    BY <1>s, <1>t, <2>1 DEF InFlightPC
<1>4. CASE pc[r] = "calling" /\ FallBack(r)
  <2>1. /\ index[r] < Len(Chain) /\ pc'[r] = "calling"
        /\ index'[r] = index[r] + 1 /\ attempt'[r] = 0
    BY <1>4, <1>t DEF FallBack, Visit, CallProvider
  <2>2. /\ rest(index[r]) = rest(index[r] + 1) + (2 * MaxRetries + 1)
    BY <1>t, <2>1, VisitSteps
  <2>3. index[r] + 1 \in Providers
    BY <1>t, <2>1, ChainNames DEF Providers
  <2>4. rest(index[r] + 1) \in Nat
    BY <2>3, VisitSteps
  <2> HIDE DEF rest
  <2> QED
    BY <1>4, <1>s, <1>t, <2>1, <2>2, <2>4 DEF InFlightPC
<1> QED
  BY <1>1, <1>2, <1>3, <1>4
  DEF TaskStep, Start, GiveUp, ProviderTimesOut, LeaveProvider

\* No request ever runs for ever, whatever the others do: what it can still
\* do only gets less, for every chain, retry limit and number of requests.
THEOREM RequestsRunDown == Spec => StepsRunOut
<1> DEFINE Down == \A r \in Requests :
                     pc[r] # "new" => TaskOf(r)' = TaskOf(r) \/ StepsLeft(r)' < StepsLeft(r)
<1>1. TypeInv /\ TypeInv' /\ [Next]_vars => Down
  <2> SUFFICES ASSUME TypeInv, TypeInv', [Next]_vars, NEW q \in Requests, pc[q] # "new"
               PROVE  TaskOf(q)' = TaskOf(q) \/ StepsLeft(q)' < StepsLeft(q)
    OBVIOUS
  <2>1. ASSUME NEW r \in Requests, TaskStep(r)
        PROVE  TaskOf(q)' = TaskOf(q) \/ StepsLeft(q)' < StepsLeft(q)
    <3>1. CASE q = r
      BY <2>1, <3>1, OwnStepRunsDown
    <3>2. CASE q # r
      BY <2>1, <3>2, StepTouchesOne DEF TaskOf
    <3> QED
      BY <3>1, <3>2
  <2>2. CASE Tick \/ UNCHANGED vars
    BY <2>2 DEF Tick, vars, taskVars, TaskOf
  <2> QED
    BY <2>1, <2>2 DEF Next, Quiet
<1>2. TypeInv /\ TypeInv' /\ [Next]_vars => [Down]_vars
  BY <1>1
<1> HIDE DEF Down
<1>3. Spec => [][Down]_vars
  BY <1>2, GatewayTypes, PTL DEF Spec
<1> QED
  BY <1>3 DEF Down, StepsRunOut

\* A request can make no more steps than one call for every attempt at every
\* provider and one backoff between two.
THEOREM StepsBounded ==
  Spec => [](\A r \in Requests : StepsLeft(r) \in 0..Len(Chain) * (2 * MaxRetries + 1))
<1>1. TypeInv => \A r \in Requests : StepsLeft(r) \in 0..Len(Chain) * (2 * MaxRetries + 1)
  BY StepsLeftType
<1> QED
  BY <1>1, GatewayTypes, PTL

-----------------------------------------------------------------------------
\* The refinement

\* The abstract chain's variables, as the gateway's state shows them.
Status == [r \in Requests |-> IF pc[r] \in InFlightPC THEN "trying" ELSE pc[r]]
Calling == [r \in Requests |-> Current(r)]

\* Only a request's own steps change what the abstract chain sees of it.
LEMMA OthersSame ==
  ASSUME TypeInv, NEW r \in Requests, TaskStep(r)
  PROVE  \A q \in Requests : q # r => /\ Status'[q] = Status[q]
                                      /\ Calling'[q] = Calling[q]
                                      /\ calls'[q] = calls[q]
<1> SUFFICES ASSUME NEW q \in Requests, q # r
             PROVE  /\ Status'[q] = Status[q] /\ Calling'[q] = Calling[q]
                    /\ calls'[q] = calls[q]
  OBVIOUS
<1>1. /\ pc'[q] = pc[q] /\ selected'[q] = selected[q] /\ index'[q] = index[q]
      /\ calls'[q] = calls[q]
  BY StepTouchesOne
<1> QED
  BY <1>1 DEF Status, Calling, Current, Ordered

\* Every step of a task is a step of the abstract chain, or none.
LEMMA TaskStepRefines ==
  ASSUME TypeInv, CallsFollowOrder, NEW r \in Requests, TaskStep(r)
  PROVE  [Caller!Next]_Caller!vars
<1>t. /\ selected[r] \in Providers /\ index[r] \in Providers
      /\ attempt[r] \in 0..MaxRetries /\ calls[r] \in [Providers -> Nat]
      /\ pc \in [Requests -> {"new"} \cup InFlightPC \cup EndPC]
      /\ selected \in [Requests -> Providers] /\ index \in [Requests -> Providers]
      /\ calls \in [Requests -> [Providers -> Nat]]
      /\ Current(r) \in Providers
  BY CurrentProvider DEF TypeInv, TypeOK
<1>l. Len(Chain) \in Nat \ {0} /\ Providers = 1..Len(Chain) /\ MaxRetries \in Nat
  BY ChainNames, GatewayAssumption DEF Providers
<1>s. \A q \in Requests : q # r => /\ Status'[q] = Status[q]
                                   /\ Calling'[q] = Calling[q]
                                   /\ calls'[q] = calls[q]
  BY OthersSame
<1>1. CASE Start(r)
  <2>1. PICK p \in Providers : /\ selected' = [selected EXCEPT ![r] = p]
                               /\ Visit(r, p, 1)
    BY <1>1 DEF Start
  <2>2. /\ pc[r] = "new" /\ pc'[r] = "calling" /\ selected'[r] = p /\ index'[r] = 1
        /\ calls' = [calls EXCEPT ![r][p] = @ + 1]
    BY <1>t, <1>1, <2>1 DEF Start, Visit, CallProvider
  <2>3. calls[r][p] = 0
    BY <2>2 DEF CallsFollowOrder
  <2>4. Ordered(p)[1] = p
    BY OrderedType
  <2>5. Status[r] = "new" /\ Status'[r] = "trying" /\ Calling'[r] = p
    BY <2>2, <2>4 DEF Status, Calling, Current, Ordered, InFlightPC
  <2>6. /\ Status' = [Status EXCEPT ![r] = "trying"]
        /\ Calling' = [Calling EXCEPT ![r] = p]
    BY <1>s, <2>5 DEF Status, Calling
  <2>7. calls' = [calls EXCEPT ![r][p] = 1]
    BY <1>t, <2>2, <2>3
  <2>8. Caller!Begin(r)
    BY <2>3, <2>5, <2>6, <2>7 DEF Caller!Begin, Caller!Call, Status, Calling
  <2> QED
    BY <2>8 DEF Caller!Next
<1>2. CASE Answer(r) \/ Reject(r) \/ Abandon(r)
  <2>1. PICK outcome \in {"answered", "rejected", "abandoned"} : End(r, outcome)
    BY <1>2 DEF Answer, Reject, Abandon
  <2>2. pc[r] \in InFlightPC /\ pc'[r] = outcome /\ outcome \notin InFlightPC
    BY <1>t, <1>2, <2>1 DEF Answer, Reject, Abandon, End, InFlightPC
  <2>3. Status[r] = "trying" /\ Status'[r] = outcome /\ Calling'[r] = Calling[r]
    BY <2>1, <2>2 DEF End, Status, Calling, Current, Ordered
  <2>4. /\ Status' = [Status EXCEPT ![r] = outcome]
        /\ Calling' = Calling /\ calls' = calls
    <3>1. Status' = [Status EXCEPT ![r] = outcome]
      BY <1>s, <2>3 DEF Status
    <3>2. Calling' = Calling
      BY <1>s, <2>3 DEF Calling
    <3> QED
      BY <2>1, <3>1, <3>2 DEF End
  <2>5. Caller!End(r)
    BY <2>3, <2>4 DEF Caller!End, Status, Calling
  <2> QED
    BY <2>5 DEF Caller!Next
<1>3. CASE Retry(r)
  <2>1. /\ pc[r] = "calling" /\ pc'[r] = "backoff" /\ selected' = selected
        /\ index' = index /\ calls' = calls
    BY <1>t, <1>3 DEF Retry
  <2>2. Status'[r] = Status[r] /\ Calling'[r] = Calling[r]
    BY <2>1 DEF Status, Calling, Current, Ordered, InFlightPC
  <2>3. Status' = Status /\ Calling' = Calling
    BY <1>s, <2>2 DEF Status, Calling
  <2> QED
    BY <2>1, <2>3 DEF Caller!vars, Status, Calling
<1>4. CASE Exhaust(r) /\ pc[r] = "calling"
  <2>1. /\ pc'[r] = "exhausted" /\ index[r] = Len(Chain) /\ End(r, "exhausted")
    BY <1>t, <1>4 DEF Exhaust, End
  <2>2. \A p \in Providers : calls[r][p] > 0
    <3> SUFFICES ASSUME NEW p \in Providers
                 PROVE  calls[r][p] > 0
      OBVIOUS
    <3>1. PICK k \in Providers : Ordered(selected[r])[k] = p
      BY <1>t, OrderedOnto
    <3>2. k <= index[r]
      BY <1>l, <2>1
    <3> QED
      BY <1>4, <1>l, <3>1, <3>2 DEF CallsFollowOrder
  <2>3. Status[r] = "trying" /\ Status'[r] = "exhausted" /\ Calling'[r] = Calling[r]
    BY <1>4, <2>1 DEF End, Status, Calling, Current, Ordered, InFlightPC
  <2>4. /\ Status' = [Status EXCEPT ![r] = "exhausted"]
        /\ Calling' = Calling /\ calls' = calls
    <3>1. Status' = [Status EXCEPT ![r] = "exhausted"]
      BY <1>s, <2>3 DEF Status
    <3>2. Calling' = Calling
      BY <1>s, <2>3 DEF Calling
    <3> QED
      BY <2>1, <3>1, <3>2 DEF End
  <2>5. Caller!Exhaust(r)
    BY <2>2, <2>3, <2>4 DEF Caller!Exhaust, Status, Calling
  <2> QED
    BY <2>5 DEF Caller!Next
<1>5. CASE FallBack(r) /\ pc[r] = "calling"
  <2> DEFINE next == Ordered(selected[r])[index[r] + 1]
  <2>1. /\ pc'[r] = "calling" /\ selected' = selected /\ index'[r] = index[r] + 1
        /\ calls' = [calls EXCEPT ![r][next] = @ + 1]
        /\ index[r] < Len(Chain)
    BY <1>t, <1>5 DEF FallBack, Visit, CallProvider
  <2>2. index[r] + 1 \in Providers
    BY <1>t, <1>l, <2>1
  <2>3. next \in Providers
    BY <1>t, <2>2, OrderedType
  <2>4. calls[r][next] = 0
    <3>1. \A k \in Providers : k > index[r] => calls[r][Ordered(selected[r])[k]] = 0
      BY <1>5 DEF CallsFollowOrder
    <3>2. index[r] + 1 > index[r]
      BY <1>t, <1>l
    <3> QED
      BY <2>2, <3>1, <3>2
  <2>5. Status[r] = "trying" /\ Status'[r] = "trying" /\ Calling'[r] = next
    BY <1>5, <2>1 DEF Status, Calling, Current, Ordered, InFlightPC
  <2>6. Status' = Status /\ Calling' = [Calling EXCEPT ![r] = next]
    BY <1>s, <2>5 DEF Status, Calling
  <2>7. calls' = [calls EXCEPT ![r][next] = 1]
    BY <1>t, <2>1, <2>3, <2>4
  <2>8. Caller!MoveOn(r)
    BY <2>3, <2>4, <2>5, <2>6, <2>7 DEF Caller!MoveOn, Caller!Call, Status, Calling
  <2> QED
    BY <2>8 DEF Caller!Next
<1>6. CASE BackoffEnds(r)
  <2>1. /\ pc[r] = "backoff" /\ pc'[r] = "calling" /\ selected' = selected
        /\ index' = index /\ calls' = [calls EXCEPT ![r][Current(r)] = @ + 1]
    BY <1>t, <1>6 DEF BackoffEnds, CallProvider
  <2>2. attempt[r] < MaxRetries
    BY <2>1 DEF TypeInv, TasksConsistent
  <2>3. calls[r][Current(r)] = attempt[r] + 1
    BY <1>t, <2>1 DEF CallsFollowOrder, Current, InFlightPC
  <2>4. calls[r][Current(r)] < MaxRetries + 1
    BY <1>t, <1>l, <2>2, <2>3
  <2>5. Status[r] = "trying" /\ Status'[r] = "trying" /\ Calling'[r] = Calling[r]
    BY <2>1 DEF Status, Calling, Current, Ordered, InFlightPC
  <2>6. Status' = Status /\ Calling' = Calling /\ Calling[r] = Current(r)
    BY <1>s, <2>5 DEF Status, Calling
  <2>7. Caller!CallAgain(r)
    BY <2>1, <2>4, <2>5, <2>6 DEF Caller!CallAgain, Status, Calling
  <2> QED
    BY <2>7 DEF Caller!Next
<1> QED
  BY <1>1, <1>2, <1>3, <1>4, <1>5, <1>6
  DEF TaskStep, GiveUp, ProviderTimesOut, LeaveProvider

\* The gateway implements the fallback chain: one provider at a time, each
\* within its budget and never again after the next, the first answer ends
\* the request, and exhaustion is reported only after every provider.
THEOREM GatewayImplementsFallbackChain == Spec => ImplementsFallbackChain
<1>1. Init => Caller!Init
  <2> SUFFICES ASSUME Init
               PROVE  Caller!Init
    OBVIOUS
  <2>1. 1 \in Providers
    BY ChainNames DEF Providers
  <2>2. \A r \in Requests : Current(r) = 1
    BY <2>1, OrderedType DEF Init, Current
  <2> QED
    BY <2>1, <2>2 DEF Init, Caller!Init, InFlightPC
<1>2. TypeInv /\ CallsFollowOrder /\ [Next]_vars => [Caller!Next]_Caller!vars
  <2> SUFFICES ASSUME TypeInv, CallsFollowOrder, [Next]_vars
               PROVE  [Caller!Next]_Caller!vars
    OBVIOUS
  <2>1. ASSUME NEW r \in Requests, TaskStep(r)
        PROVE  [Caller!Next]_Caller!vars
    BY <2>1, TaskStepRefines
  <2>2. CASE Tick \/ UNCHANGED vars
    <3>1. pc' = pc /\ selected' = selected /\ index' = index /\ calls' = calls
      BY <2>2 DEF Tick, vars, taskVars
    <3>2. \A r \in Requests : Current(r)' = Current(r)
      BY <3>1 DEF Current, Ordered
    <3> QED
      BY <3>1, <3>2 DEF Caller!vars
  <2> QED
    BY <2>1, <2>2 DEF Next, Quiet
<1> QED
  BY <1>1, <1>2, GatewayTypes, CallsInOrder, PTL
  DEF Spec, ImplementsFallbackChain, Caller!Spec
-----------------------------------------------------------------------------
\* Sums over the names: SumFunction is a recursive function over the subsets of
\* its domain, so that it exists and what it does at a step are lemmas.

\* A set of sets of elements of a finite set has a member with no other below.
LEMMA SmallestSubset ==
  ASSUME NEW D, IsFiniteSet(D), NEW B, B \subseteq SUBSET D, B # {}
  PROVE  \E S \in B : \A U \in B : U \subseteq S => U = S
<1>1. B \subseteq FiniteSubsetsOf(D)
  BY FS_FiniteSubsetsOfFinite
<1>2. IsWellFoundedOn(StrictSubsetOrdering(D), FiniteSubsetsOf(D))
  BY FS_StrictSubsetOrderingWellFounded
<1>3. PICK S \in B : \A U \in B : <<U, S>> \notin StrictSubsetOrdering(D)
  BY <1>1, <1>2, WFMin
<1>4. \A U \in B : U \subseteq S => U = S
  BY <1>3 DEF StrictSubsetOrdering
<1> QED
  BY <1>4

\* The element that a sum over S starts with.
First(S) == CHOOSE x \in S : TRUE

\* g gives the sum of f over every subset of D.
SumsOver(f, D, g) ==
  g = [S \in SUBSET D |-> IF S = {} THEN 0 ELSE f[First(S)] + g[S \ {First(S)}]]

\* It is determined by its equation.
LEMMA SumsAgree ==
  ASSUME NEW f, NEW D, IsFiniteSet(D), NEW g, SumsOver(f, D, g),
         NEW E \in SUBSET D, NEW h, SumsOver(f, E, h)
  PROVE  \A S \in SUBSET E : g[S] = h[S]
<1> DEFINE B == {S \in SUBSET E : g[S] # h[S]}
<1>1. SUFFICES ASSUME B # {} PROVE FALSE
  OBVIOUS
<1>2. B \subseteq SUBSET D
  OBVIOUS
<1>3. PICK S \in B : \A U \in B : U \subseteq S => U = S
  <2> HIDE DEF B
  <2> QED
    BY <1>1, <1>2, SmallestSubset
<1>4. /\ g[S] = IF S = {} THEN 0 ELSE f[First(S)] + g[S \ {First(S)}]
      /\ h[S] = IF S = {} THEN 0 ELSE f[First(S)] + h[S \ {First(S)}]
  BY <1>2 DEF SumsOver
<1>5. S # {} /\ First(S) \in S
  BY <1>4 DEF First
<1>6. g[S \ {First(S)}] = h[S \ {First(S)}]
  BY <1>3, <1>5
<1> QED
  BY <1>4, <1>5, <1>6

\* The sums over the subsets of a finite set exist.
LEMMA SumsExist ==
  ASSUME NEW f, NEW D, IsFiniteSet(D)
  PROVE  \E g : SumsOver(f, D, g)
<1> DEFINE B == {E \in SUBSET D : ~\E g : SumsOver(f, E, g)}
<1>1. SUFFICES ASSUME B # {} PROVE FALSE
  OBVIOUS
<1>2. PICK E \in B : \A U \in B : U \subseteq E => U = E
  <2>1. B \subseteq SUBSET D
    OBVIOUS
  <2> HIDE DEF B
  <2> QED
    BY <1>1, <2>1, SmallestSubset
<1> DEFINE G(U) == CHOOSE g : SumsOver(f, U, g)
           Rest(S) == S \ {First(S)}
           h == [S \in SUBSET E |->
                   IF S = {} THEN 0 ELSE f[First(S)] + G(Rest(S))[Rest(S)]]
<1>3. \A S \in SUBSET E : S # {} => /\ First(S) \in S /\ Rest(S) \in SUBSET E
                                    /\ Rest(S) # E
  BY DEF First
<1>4. ASSUME NEW U \in SUBSET E, U # E
      PROVE  SumsOver(f, U, G(U))
  <2>1. U \notin B /\ U \in SUBSET D
    BY <1>2, <1>4
  <2> QED
    BY <2>1
<1>5. ASSUME NEW U \in SUBSET E, U # E
      PROVE  h[U] = G(U)[U]
  <2>1. SumsOver(f, U, G(U))
    BY <1>4, <1>5
  <2> HIDE DEF G
  <2>2. G(U)[U] = IF U = {} THEN 0 ELSE f[First(U)] + G(U)[Rest(U)]
    BY <2>1 DEF SumsOver
  <2>3. CASE U = {}
    BY <2>2, <2>3
  <2>4. CASE U # {}
    <3>1. Rest(U) \in SUBSET U /\ Rest(U) \in SUBSET E /\ Rest(U) # E
      BY <2>4, <1>3
    <3>2. SumsOver(f, Rest(U), G(Rest(U)))
      BY <3>1, <1>4
    <3>3. IsFiniteSet(U)
      BY FS_Subset
    <3>4. G(U)[Rest(U)] = G(Rest(U))[Rest(U)]
      <4> HIDE DEF Rest
      <4> QED
        BY <2>1, <3>1, <3>2, <3>3, SumsAgree
    <3> QED
      BY <2>2, <2>4, <3>4
  <2> QED
    BY <2>3, <2>4
<1>6. ASSUME NEW S \in SUBSET E, S # {}
      PROVE  h[S] = f[First(S)] + h[Rest(S)]
  <2>1. h[S] = f[First(S)] + G(Rest(S))[Rest(S)]
    BY <1>6
  <2>2. h[Rest(S)] = G(Rest(S))[Rest(S)]
    <3> HIDE DEF G, h, Rest
    <3> QED
      BY <1>6, <1>3, <1>5
  <2> QED
    BY <2>1, <2>2
<1>7. SumsOver(f, E, h)
  <2>1. h[{}] = 0
    OBVIOUS
  <2>2. h = [S \in SUBSET E |-> h[S]]
    OBVIOUS
  <2> HIDE DEF h, G
  <2> QED
    BY <1>6, <2>1, <2>2 DEF SumsOver
<1> QED
  BY <1>7

\* The library's sum of a function, unfolded once.
LEMMA SumUnfolded ==
  ASSUME NEW f, IsFiniteSet(DOMAIN f)
  PROVE  \E g : SumsOver(f, DOMAIN f, g) /\ SumFunction(f) = g[DOMAIN f]
<1> DEFINE g == CHOOSE g : SumsOver(f, DOMAIN f, g)
<1>1. SumsOver(f, DOMAIN f, g)
  BY SumsExist
<1>2. SumFunction(f) = g[DOMAIN f]
  BY DEF SumFunction, SumFunctionOnSet, FoldFunctionOnSet, MapThenFoldSet, SumsOver, First
<1> QED
  BY <1>1, <1>2

\* The sum of natural numbers is one, and is zero if each of them is.
LEMMA SumType ==
  ASSUME NEW D, IsFiniteSet(D), NEW f \in [D -> Nat]
  PROVE  /\ SumFunction(f) \in Nat
         /\ (\A x \in D : f[x] = 0) => SumFunction(f) = 0
<1>1. PICK g : SumsOver(f, D, g) /\ SumFunction(f) = g[D]
  BY SumUnfolded
<1> DEFINE B == {S \in SUBSET D : ~(g[S] \in Nat /\ ((\A x \in D : f[x] = 0) => g[S] = 0))}
<1>2. SUFFICES ASSUME B # {} PROVE FALSE
  BY <1>1
<1>3. PICK S \in B : \A U \in B : U \subseteq S => U = S
  <2>1. B \subseteq SUBSET D
    OBVIOUS
  <2> HIDE DEF B
  <2> QED
    BY <1>2, <2>1, SmallestSubset
<1>4. g[S] = IF S = {} THEN 0 ELSE f[First(S)] + g[S \ {First(S)}]
  BY <1>1 DEF SumsOver
<1>5. S # {} /\ First(S) \in S
  BY <1>4 DEF First
<1>6. S \ {First(S)} \notin B /\ S \ {First(S)} \in SUBSET D
  BY <1>3, <1>5
<1>7. g[S \ {First(S)}] \in Nat /\ ((\A x \in D : f[x] = 0) => g[S \ {First(S)}] = 0)
  BY <1>6
<1>8. f[First(S)] \in Nat /\ ((\A x \in D : f[x] = 0) => f[First(S)] = 0)
  BY <1>5
<1> QED
  BY <1>4, <1>5, <1>7, <1>8

\* A summand that is one more makes the sum one more.
LEMMA SumIncrement ==
  ASSUME NEW D, IsFiniteSet(D), NEW f \in [D -> Nat], NEW c \in D
  PROVE  SumFunction([f EXCEPT ![c] = @ + 1]) = SumFunction(f) + 1
<1> DEFINE e == [f EXCEPT ![c] = @ + 1]
           More(S) == IF c \in S THEN 1 ELSE 0
<1>1. PICK g : SumsOver(f, D, g) /\ SumFunction(f) = g[D]
  BY SumUnfolded
<1>2. PICK h : SumsOver(e, D, h) /\ SumFunction(e) = h[D]
  BY SumUnfolded
<1> DEFINE B == {S \in SUBSET D : ~(g[S] \in Nat /\ h[S] = g[S] + More(S))}
<1>3. SUFFICES ASSUME B # {} PROVE FALSE
  BY <1>1, <1>2
<1>4. PICK S \in B : \A U \in B : U \subseteq S => U = S
  <2>1. B \subseteq SUBSET D
    OBVIOUS
  <2> HIDE DEF B
  <2> QED
    BY <1>3, <2>1, SmallestSubset
<1>5. /\ g[S] = IF S = {} THEN 0 ELSE f[First(S)] + g[S \ {First(S)}]
      /\ h[S] = IF S = {} THEN 0 ELSE e[First(S)] + h[S \ {First(S)}]
  BY <1>1, <1>2 DEF SumsOver
<1>6. S # {} /\ First(S) \in S
  BY <1>5 DEF First
<1>7. S \ {First(S)} \notin B /\ S \ {First(S)} \in SUBSET D
  BY <1>4, <1>6
<1>8. /\ g[S \ {First(S)}] \in Nat
      /\ h[S \ {First(S)}] = g[S \ {First(S)}] + More(S \ {First(S)})
  BY <1>7
<1>9. f[First(S)] \in Nat /\ e[First(S)] = f[First(S)] + IF First(S) = c THEN 1 ELSE 0
  BY <1>6
<1>10. More(S) = More(S \ {First(S)}) + IF First(S) = c THEN 1 ELSE 0
  BY <1>6
<1>11. More(S \ {First(S)}) \in Nat
  OBVIOUS
<1> HIDE DEF More, e
<1>12. g[S] \in Nat /\ h[S] = g[S] + More(S)
  BY <1>5, <1>6, <1>8, <1>9, <1>10, <1>11
<1> QED
  BY <1>12

-----------------------------------------------------------------------------
\* The visits: every one that has begun is recorded, in flight or abandoned.

\* The names are finitely many.
LEMMA NamesFinite == IsFiniteSet(Names)
<1>1. IsFiniteSet(Providers)
  BY ChainNames, FS_Interval DEF Providers
<1> DEFINE name == [p \in Providers |-> Chain[p]]
<1>2. name \in Surjection(Providers, Names)
  BY DEF Surjection, Names
<1> QED
  BY <1>1, <1>2, FS_Surjection DEF ExistsSurjection

\* A fallback is counted for the name it goes to, wherever it came from, and
\* for no other.
LEMMA FallbackCounted ==
  ASSUME TypeOK, NEW n \in Names, NEW to \in Names,
         fallbacksTotal' = [fallbacksTotal EXCEPT ![<<n, to>>] = @ + 1]
  PROVE  \A m \in Names : FallbacksTo(m)' = FallbacksTo(m) + IF m = to THEN 1 ELSE 0
<1> DEFINE into(m) == [k \in Names |-> fallbacksTotal[<<k, m>>]]
<1>1. ASSUME NEW m \in Names
      PROVE  into(m) \in [Names -> Nat] /\ SumFunction(into(m)) \in Nat
  <2>1. into(m) \in [Names -> Nat]
    BY DEF TypeOK
  <2> QED
    BY <2>1, NamesFinite, SumType
<1>2. ASSUME NEW m \in Names, m # to
      PROVE  into(m)' = into(m)
  BY <1>2 DEF TypeOK
<1>3. into(to)' = [into(to) EXCEPT ![n] = @ + 1]
  BY DEF TypeOK
<1>4. \A m \in Names : FallbacksTo(m) = SumFunction(into(m))
                       /\ FallbacksTo(m)' = SumFunction(into(m)')
  BY DEF FallbacksTo
<1> HIDE DEF into
<1>5. SumFunction([into(to) EXCEPT ![n] = @ + 1]) = SumFunction(into(to)) + 1
  BY <1>1, NamesFinite, SumIncrement
<1>6. FallbacksTo(to)' = FallbacksTo(to) + 1
  BY <1>3, <1>4, <1>5
<1>7. ASSUME NEW m \in Names, m # to
      PROVE  FallbacksTo(m)' = FallbacksTo(m) /\ FallbacksTo(m) \in Nat
  BY <1>1, <1>2, <1>4, <1>7
<1> QED
  BY <1>6, <1>7

\* The counters of visits are numbers.
LEMMA VisitsTypes ==
  ASSUME TypeOK, NEW n \in Names
  PROVE  /\ selectedTotal[n] \in Nat /\ FallbacksTo(n) \in Nat
         /\ stats[n].requests \in Nat
<1>1. [m \in Names |-> fallbacksTotal[<<m, n>>]] \in [Names -> Nat]
  BY DEF TypeOK
<1>2. FallbacksTo(n) \in Nat
  BY <1>1, NamesFinite, SumType DEF FallbacksTo
<1> QED
  BY <1>2 DEF TypeOK, RouterTypeOK, ProviderStats

\* The counts of visits, with what makes Cardinality count: however many
\* requests there are, only finitely many have begun a visit.
VisitsInv == VisitsAccounted /\ \A n \in Names : IsFiniteSet(Visiting(n))

\* Who visits n after a step of r: the others are where they were.
LEMMA VisitingAfter ==
  ASSUME TypeInv, NEW r \in Requests, TaskStep(r), NEW n \in Names
  PROVE  Visiting(n)' = (Visiting(n) \ {r})
                          \cup {q \in {r} : /\ pc'[r] \in InFlightPC \cup {"abandoned"}
                                            /\ Chain[Current(r)'] = n}
<1>1. ASSUME NEW q \in Requests, q # r
      PROVE  q \in Visiting(n)' <=> q \in Visiting(n)
  BY <1>1, StepTouchesOne DEF Visiting, Current
<1> QED
  BY <1>1 DEF Visiting

\* A request that begins a visit, or moves to another, is counted once.
LEMMA VisitorJoins ==
  ASSUME NEW S, IsFiniteSet(S), NEW r, r \notin S
  PROVE  IsFiniteSet(S \cup {r}) /\ Cardinality(S \cup {r}) = Cardinality(S) + 1
  BY FS_AddElement

\* A request that ends its visit was counted once.
LEMMA VisitorLeaves ==
  ASSUME NEW S, IsFiniteSet(S), NEW r \in S
  PROVE  /\ IsFiniteSet(S \ {r}) /\ Cardinality(S \ {r}) \in Nat
         /\ Cardinality(S) = Cardinality(S \ {r}) + 1
<1>1. IsFiniteSet(S \ {r}) /\ Cardinality(S \ {r}) = Cardinality(S) - 1
  BY FS_RemoveElement
<1>2. Cardinality(S) \in Nat /\ Cardinality(S \ {r}) \in Nat
  BY <1>1, FS_CardinalityType
<1> QED
  BY <1>1, <1>2

\* The router counts a visit's end for its name and no other.
LEMMA VisitRecorded ==
  ASSUME TypeOK, NEW p \in Providers, NEW latency,
         RecordFailure(p) \/ RecordSuccess(p, latency)
  PROVE  \A m \in Names :
           stats'[m].requests = stats[m].requests + IF m = Chain[p] THEN 1 ELSE 0
<1>1. Chain[p] \in Names
  BY ChainNames
<1>2. \A m \in Names : stats[m].requests \in Nat
  BY VisitsTypes
<1> QED
  BY <1>1, <1>2 DEF RecordFailure, RecordSuccess, TypeOK, RouterTypeOK, ProviderStats

\* The first visit of a request.
LEMMA StartAccounted ==
  ASSUME TypeInv, VisitsInv, NEW r \in Requests, Start(r)
  PROVE  VisitsInv'
<1> USE DEF TypeInv
<1>1. PICK p \in Providers :
        /\ selected' = [selected EXCEPT ![r] = p]
        /\ selectedTotal' = [selectedTotal EXCEPT ![Chain[p]] = @ + 1]
        /\ Visit(r, p, 1)
  BY DEF Start
<1>2. Chain[p] \in Names /\ 1 \in Providers
  BY ChainNames DEF Providers
<1>3. pc'[r] = "calling" /\ Current(r)' = p
  <2>1. selected'[r] = p /\ index'[r] = 1 /\ pc'[r] = "calling"
    BY <1>1 DEF Visit, CallProvider, TypeOK
  <2> QED
    BY <2>1, OrderedType DEF Current
<1>4. \A n \in Names : r \notin Visiting(n)
  BY DEF Start, Visiting, InFlightPC
<1>5. ASSUME NEW n \in Names
      PROVE  /\ IsFiniteSet(Visiting(n)')
             /\ selectedTotal'[n] + FallbacksTo(n)'
                  = stats'[n].requests + Cardinality(Visiting(n)')
  <2>1. Visiting(n)' = IF n = Chain[p] THEN Visiting(n) \cup {r} ELSE Visiting(n)
    <3>1. TaskStep(r)
      BY DEF TaskStep
    <3> QED
      BY <1>3, <1>4, <3>1, VisitingAfter DEF InFlightPC
  <2>2. FallbacksTo(n)' = FallbacksTo(n) /\ stats' = stats
    BY DEF Start, FallbacksTo, routerVars
  <2>3. selectedTotal'[n] = selectedTotal[n] + IF n = Chain[p] THEN 1 ELSE 0
    BY <1>1, <1>2, VisitsTypes DEF TypeOK
  <2>4. /\ IsFiniteSet(Visiting(n))
        /\ selectedTotal[n] + FallbacksTo(n)
             = stats[n].requests + Cardinality(Visiting(n))
    BY DEF VisitsInv, VisitsAccounted
  <2>5. Cardinality(Visiting(n)) \in Nat
    BY <2>4, FS_CardinalityType
  <2>6. /\ IsFiniteSet(Visiting(n) \cup {r})
        /\ Cardinality(Visiting(n) \cup {r}) = Cardinality(Visiting(n)) + 1
    BY <1>4, <2>4, VisitorJoins
  <2>7. /\ selectedTotal[n] \in Nat /\ FallbacksTo(n) \in Nat
        /\ stats[n].requests \in Nat
    BY VisitsTypes
  <2> QED
    BY <2>1, <2>2, <2>3, <2>4, <2>5, <2>6, <2>7
<1> QED
  BY <1>5 DEF VisitsInv, VisitsAccounted

\* A visit that ends: it was in flight, is recorded, and is no longer counted
\* in flight; the next one, if there is one, was counted as a fallback.
LEMMA EndAccounted ==
  ASSUME TypeInv, VisitsInv, NEW r \in Requests,
         Answer(r) \/ Reject(r) \/ GiveUp(r) \/ ProviderTimesOut(r)
  PROVE  VisitsInv'
<1> USE DEF TypeInv
<1> DEFINE from == Chain[Current(r)]
<1>1. Current(r) \in Providers /\ from \in Names
  BY CurrentProvider
<1>2. pc[r] = "calling" /\ TaskStep(r) /\ selectedTotal' = selectedTotal
  BY DEF Answer, Reject, GiveUp, ProviderTimesOut, LeaveProvider, FallBack, Exhaust,
         VisitFails, TaskStep
<1>3. \A m \in Names :
        stats'[m].requests = stats[m].requests + IF m = from THEN 1 ELSE 0
  <2>1. RecordFailure(Current(r)) \/ RecordSuccess(Current(r), now - startedAt[r])
    BY DEF Answer, Reject, GiveUp, ProviderTimesOut, LeaveProvider, FallBack, Exhaust,
           VisitFails
  <2> QED
    BY <1>1, <2>1, VisitRecorded
<1>4. \A n \in Names : r \in Visiting(n) <=> n = from
  BY <1>2 DEF Visiting, InFlightPC
<1>5. ASSUME NEW n \in Names
      PROVE  /\ IsFiniteSet(Visiting(n) \ {r})
             /\ Cardinality(Visiting(n) \ {r}) \in Nat
             /\ selectedTotal'[n] + FallbacksTo(n)
                  = stats'[n].requests + Cardinality(Visiting(n) \ {r})
  <2>1. /\ IsFiniteSet(Visiting(n))
        /\ selectedTotal[n] + FallbacksTo(n)
             = stats[n].requests + Cardinality(Visiting(n))
    BY DEF VisitsInv, VisitsAccounted
  <2>n. /\ selectedTotal[n] \in Nat /\ FallbacksTo(n) \in Nat
        /\ stats[n].requests \in Nat
    BY VisitsTypes
  <2>2. CASE n = from
    <3>1. r \in Visiting(n)
      BY <1>4, <2>2
    <3>2. /\ IsFiniteSet(Visiting(n) \ {r}) /\ Cardinality(Visiting(n) \ {r}) \in Nat
          /\ Cardinality(Visiting(n)) = Cardinality(Visiting(n) \ {r}) + 1
      BY <2>1, <3>1, VisitorLeaves
    <3>3. stats'[n].requests = stats[n].requests + 1
      BY <1>3, <2>2
    <3>4. selectedTotal'[n] + FallbacksTo(n)
            = stats[n].requests + (Cardinality(Visiting(n) \ {r}) + 1)
      BY <1>2, <2>1, <3>2
    <3>5. stats'[n].requests + Cardinality(Visiting(n) \ {r})
            = stats[n].requests + (Cardinality(Visiting(n) \ {r}) + 1)
      BY <2>n, <3>2, <3>3
    <3> QED
      BY <3>2, <3>4, <3>5
  <2>3. CASE n # from
    <3>1. Visiting(n) \ {r} = Visiting(n) /\ Cardinality(Visiting(n)) \in Nat
      BY <1>4, <2>1, <2>3, FS_CardinalityType
    <3>2. stats'[n].requests = stats[n].requests
      BY <1>3, <2>3, <2>n
    <3> QED
      BY <1>2, <2>1, <3>1, <3>2
  <2> QED
    BY <2>2, <2>3
<1>6. CASE \E how \in {"answered", "exhausted", "rejected"} :
             End(r, how) /\ UNCHANGED fallbacksTotal
  <2>1. pc'[r] \notin InFlightPC \cup {"abandoned"}
    BY <1>6 DEF End, TypeOK, InFlightPC
  <2>2. \A n \in Names : Visiting(n)' = Visiting(n) \ {r}
    BY <1>2, <2>1, VisitingAfter
  <2>3. \A n \in Names : FallbacksTo(n)' = FallbacksTo(n)
    BY <1>6 DEF FallbacksTo
  <2> QED
    BY <1>5, <2>2, <2>3 DEF VisitsInv, VisitsAccounted
<1>7. CASE FallBack(r)
  <2> DEFINE next == Ordered(selected[r])[index[r] + 1]
  <2>1. /\ Visit(r, next, index[r] + 1) /\ selected' = selected
        /\ fallbacksTotal' = [fallbacksTotal EXCEPT ![<<from, Chain[next]>>] = @ + 1]
    BY <1>7 DEF FallBack
  <2>2. index[r] + 1 \in Providers /\ selected[r] \in Providers
    BY <1>7, ChainNames DEF FallBack, TypeOK, Providers
  <2>3. next \in Providers /\ Chain[next] \in Names
    BY <2>2, OrderedType, ChainNames
  <2>4. pc'[r] = "calling" /\ Current(r)' = next
    <3>1. index'[r] = index[r] + 1 /\ pc'[r] = "calling" /\ selected'[r] = selected[r]
      BY <2>1 DEF Visit, CallProvider, TypeOK
    <3> QED
      BY <3>1 DEF Current
  <2>5. ASSUME NEW n \in Names
        PROVE  /\ IsFiniteSet(Visiting(n)')
               /\ selectedTotal'[n] + FallbacksTo(n)'
                    = stats'[n].requests + Cardinality(Visiting(n)')
    <3>1. FallbacksTo(n)' = FallbacksTo(n) + IF n = Chain[next] THEN 1 ELSE 0
      BY <1>1, <2>1, <2>3, FallbackCounted
    <3>2. Visiting(n)' = IF n = Chain[next] THEN (Visiting(n) \ {r}) \cup {r}
                                           ELSE Visiting(n) \ {r}
      BY <1>2, <2>4, VisitingAfter DEF InFlightPC
    <3>3. /\ IsFiniteSet((Visiting(n) \ {r}) \cup {r})
          /\ Cardinality((Visiting(n) \ {r}) \cup {r}) = Cardinality(Visiting(n) \ {r}) + 1
      BY <1>5, VisitorJoins
    <3>4. stats'[n].requests \in Nat /\ selectedTotal'[n] \in Nat /\ FallbacksTo(n) \in Nat
      BY <1>2, <1>3, VisitsTypes
    <3> QED
      BY <1>5, <3>1, <3>2, <3>3, <3>4
  <2> QED
    BY <2>5 DEF VisitsInv, VisitsAccounted
<1> QED
  BY <1>6, <1>7 DEF Answer, Reject, GiveUp, ProviderTimesOut, LeaveProvider, Exhaust

\* Every visit to a provider, by selection or by fallback, is recorded by the
\* router exactly once when it ends, except the visits in flight and those
\* whose task has been abandoned, whatever the chain, its repeated names
\* included, and however many requests there are.
THEOREM VisitsAreAccounted == Spec => []VisitsAccounted
<1>1. Init => VisitsInv
  <2> SUFFICES ASSUME Init, NEW n \in Names
               PROVE  /\ IsFiniteSet(Visiting(n))
                      /\ selectedTotal[n] + FallbacksTo(n)
                           = stats[n].requests + Cardinality(Visiting(n))
    BY DEF VisitsInv, VisitsAccounted
  <2>1. Visiting(n) = {}
    BY DEF Init, Visiting, InFlightPC
  <2>2. FallbacksTo(n) = 0
    <3> DEFINE into == [m \in Names |-> fallbacksTotal[<<m, n>>]]
    <3>1. into \in [Names -> Nat] /\ \A m \in Names : into[m] = 0
      BY DEF Init
    <3> QED
      BY <3>1, NamesFinite, SumType DEF FallbacksTo
  <2>3. selectedTotal[n] = 0 /\ stats[n].requests = 0
    BY DEF Init, RouterInit, NoStats
  <2> QED
    BY <2>1, <2>2, <2>3, FS_EmptySet
<1>2. TypeInv /\ VisitsInv /\ [Next]_vars => VisitsInv'
  <2> SUFFICES ASSUME TypeInv, VisitsInv, [Next]_vars
               PROVE  VisitsInv'
    OBVIOUS
  <2>1. ASSUME NEW r \in Requests, Start(r)
        PROVE  VisitsInv'
    BY <2>1, StartAccounted
  <2>2. ASSUME NEW r \in Requests,
               Answer(r) \/ Reject(r) \/ GiveUp(r) \/ ProviderTimesOut(r)
        PROVE  VisitsInv'
    BY <2>2, EndAccounted
  <2>3. ASSUME NEW r \in Requests, Retry(r) \/ BackoffEnds(r) \/ Abandon(r)
        PROVE  VisitsInv'
    <3>1. /\ pc[r] \in InFlightPC
          /\ pc'[r] \in InFlightPC \cup {"abandoned"}
          /\ selected' = selected /\ index' = index
      BY <2>3 DEF Retry, BackoffEnds, CallProvider, Abandon, End, TypeInv, TypeOK, InFlightPC
    <3>2. /\ stats' = stats /\ selectedTotal' = selectedTotal
          /\ fallbacksTotal' = fallbacksTotal
      BY <2>3 DEF Retry, BackoffEnds, Abandon, routerVars, metricVars
    <3>3. ASSUME NEW n \in Names
          PROVE  Visiting(n)' = Visiting(n)
      <4>1. TaskStep(r)
        BY <2>3 DEF TaskStep
      <4>2. Current(r)' = Current(r)
        BY <3>1 DEF Current
      <4>3. r \in Visiting(n) <=> Chain[Current(r)] = n
        BY <3>1 DEF Visiting
      <4> QED
        BY <3>1, <4>1, <4>2, <4>3, VisitingAfter
    <3> QED
      BY <3>2, <3>3 DEF VisitsInv, VisitsAccounted, FallbacksTo
  <2>4. CASE Tick \/ UNCHANGED vars
    BY <2>4 DEF Tick, vars, taskVars, routerVars, metricVars, VisitsInv, VisitsAccounted,
                FallbacksTo, Visiting, Current
  <2> QED
    BY <2>1, <2>2, <2>3, <2>4 DEF Next, TaskStep, Quiet
<1>3. VisitsInv => VisitsAccounted
  BY DEF VisitsInv
<1> QED
  BY <1>1, <1>2, <1>3, GatewayTypes, PTL DEF Spec
=============================================================================
