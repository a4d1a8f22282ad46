--------------------------- MODULE ProviderRouter ---------------------------
(***************************************************************************)
(* The performance-aware router (llm/routing/router.py): the statistics it *)
(* keeps of every provider, the score it derives from them, the circuit    *)
(* breaker and the choice of a provider.  The router has no thread of its  *)
(* own; RouterClients drives it with arbitrary calls, LLMGateway with the  *)
(* calls the gateway makes.                                                *)
(*                                                                         *)
(* A provider is a position in the configured list.  Statistics are kept   *)
(* by name, so two entries of one name share them.  Time is counted in     *)
(* ticks; latencies and scores are in ticks too, as exact fractions.       *)
(***************************************************************************)
EXTENDS Integers, Sequences

CONSTANTS Chain,              \* the configured providers' names, in order
          FailureThreshold,   \* FAILURE_THRESHOLD: failures in a row
          Cooldown,           \* recovery_cooldown_seconds, in ticks
          Second,             \* the ticks of one second, the neutral score
          None                \* Python's None, in last_failure_at

ASSUME ChainAssumption == Chain \in Seq(STRING) /\ Len(Chain) > 0
ASSUME RouterAssumption == /\ FailureThreshold \in Nat \ {0}
                           /\ Cooldown \in Nat \ {0}
                           /\ Second \in Nat \ {0}
                           /\ None \notin Int

VARIABLES stats,   \* stats[n]: the ProviderStats of name n
          now      \* the monotonic clock

routerVars == <<stats, now>>

Providers == 1..Len(Chain)
Names == {Chain[p] : p \in Providers}

ProviderStats == [requests : Nat, successes : Nat, failures : Nat,
                  totalLatency : Nat, consecutiveFailures : Nat,
                  lastFailureAt : Nat \cup {None}]

NoStats == [requests |-> 0, successes |-> 0, failures |-> 0,
            totalLatency |-> 0, consecutiveFailures |-> 0,
            lastFailureAt |-> None]

RouterTypeOK == /\ stats \in [Names -> ProviderStats]
                /\ now \in Nat

RouterInit == /\ stats = [n \in Names |-> NoStats]
              /\ now = 0

-----------------------------------------------------------------------------
\* The circuit breaker and the score

\* The cooldown of a provider that has failed is over at time t.
CooledDown(n, t) == /\ stats[n].lastFailureAt # None
                    /\ t - stats[n].lastFailureAt >= Cooldown

Available(n) == \/ stats[n].consecutiveFailures < FailureThreshold
                \/ CooledDown(n, now)

\* Mutants of Score: the success rate is added instead of the failure rate,
\* and the latency is averaged over all requests instead of the successes.
ScoreRewardsFailure(n) ==
  LET s == stats[n] IN
  IF s.requests = 0 \/ s.totalLatency = 0
  THEN [num |-> Second, den |-> 1]
  ELSE [num |-> s.totalLatency * s.requests + Second * s.successes * s.successes,
        den |-> s.successes * s.requests]

ScoreAveragesRequests(n) ==
  LET s == stats[n] IN
  IF s.requests = 0
  THEN [num |-> Second, den |-> 1]
  ELSE [num |-> s.totalLatency + Second * (s.requests - s.successes),
        den |-> s.requests]

\* A score is the fraction num / den, in ticks: the average latency of the
\* successes (one second when there is none to measure) plus one second
\* times the share of failed requests.
Score(n) ==
  LET s == stats[n] IN
  IF s.requests = 0
  THEN [num |-> Second, den |-> 1]
  ELSE IF s.totalLatency > 0
  THEN [num |-> s.totalLatency * s.requests
                  + Second * (s.requests - s.successes) * s.successes,
        den |-> s.successes * s.requests]
  ELSE [num |-> Second * (2 * s.requests - s.successes),
        den |-> s.requests]

Worse(n, m) == Score(n).num * Score(m).den > Score(m).num * Score(n).den

-----------------------------------------------------------------------------
\* The choice of a provider

Unobserved == {p \in Providers : stats[Chain[p]].requests = 0}

\* Mutant of Scored: no provider is scored when every breaker is open.
ScoredAvailable == {p \in Providers : Available(Chain[p])}

\* The providers whose scores are compared: the available ones, or every one
\* when none is available.
Scored == LET up == {p \in Providers : Available(Chain[p])}
          IN  IF up # {} THEN up ELSE Providers

\* Python's min() keeps the first of several smallest elements.
FirstBest(p) == /\ p \in Scored
                /\ \A q \in Scored : /\ ~Worse(Chain[p], Chain[q])
                                     /\ q < p => Worse(Chain[q], Chain[p])

\* select_provider() returns provider p.
Selects(p) == \/ /\ p \in Unobserved
                 /\ \A q \in Unobserved : p <= q
              \/ /\ Unobserved = {}
                 /\ FirstBest(p)

-----------------------------------------------------------------------------
\* The two operations that change the statistics

\* Mutants of RecordSuccess: a success takes one failure back instead of all,
\* and it does not clear the time of the last failure.
RecordSuccessTakesOneBack(p, latency) ==
  stats' = [stats EXCEPT ![Chain[p]].requests = @ + 1,
                         ![Chain[p]].successes = @ + 1,
                         ![Chain[p]].totalLatency = @ + latency,
                         ![Chain[p]].consecutiveFailures = @ - 1,
                         ![Chain[p]].lastFailureAt = None]

RecordSuccessKeepsTime(p, latency) ==
  stats' = [stats EXCEPT ![Chain[p]].requests = @ + 1,
                         ![Chain[p]].successes = @ + 1,
                         ![Chain[p]].totalLatency = @ + latency,
                         ![Chain[p]].consecutiveFailures = 0]

\* Mutant of RecordFailure: a failed probe does not start a new cooldown.
RecordFailureKeepsTime(p) ==
  stats' = [stats EXCEPT ![Chain[p]].requests = @ + 1,
                         ![Chain[p]].failures = @ + 1,
                         ![Chain[p]].consecutiveFailures = @ + 1,
                         ![Chain[p]].lastFailureAt = IF @ = None THEN now ELSE @]

RecordSuccess(p, latency) ==
  LET n == Chain[p]
      s == stats[n]
  IN  stats' = [stats EXCEPT ![n] =
                  [requests |-> s.requests + 1,
                   successes |-> s.successes + 1,
                   failures |-> s.failures,
                   totalLatency |-> s.totalLatency + latency,
                   consecutiveFailures |-> 0,
                   lastFailureAt |-> None]]

RecordFailure(p) ==
  LET n == Chain[p]
      s == stats[n]
  IN  stats' = [stats EXCEPT ![n] =
                  [requests |-> s.requests + 1,
                   successes |-> s.successes,
                   failures |-> s.failures + 1,
                   totalLatency |-> s.totalLatency,
                   consecutiveFailures |-> s.consecutiveFailures + 1,
                   lastFailureAt |-> now]]

-----------------------------------------------------------------------------
\* The breaker a name's statistics stand for

BreakerMode(n) == IF stats[n].consecutiveFailures < FailureThreshold
                  THEN "closed"
                  ELSE IF CooledDown(n, now) THEN "half_open" ELSE "open"

BreakerRun(n) == IF stats[n].consecutiveFailures < FailureThreshold
                 THEN stats[n].consecutiveFailures
                 ELSE FailureThreshold

-----------------------------------------------------------------------------
\* What the router promises, whoever drives it

\* The statistics of every name agree with each other: requests splits into
\* successes and failures, the failures in a row are among the failures, and
\* the time of the last failure is known, and past, exactly while the last
\* recorded call has failed.  So the branch of _is_available for a breaker
\* without a failure time, in which it would stay open for ever, is never
\* taken, and a score never divides by zero.
StatsConsistent ==
  \A n \in Names :
    LET s == stats[n] IN
    /\ s.requests = s.successes + s.failures
    /\ s.consecutiveFailures <= s.failures
    /\ s.consecutiveFailures = 0 <=> s.lastFailureAt = None
    /\ s.lastFailureAt # None => s.lastFailureAt <= now
    /\ s.totalLatency > 0 => s.successes > 0

\* select_provider always returns exactly one provider, whatever breakers are
\* open and whichever entries share a name: its min() never has an empty list,
\* and _provider_by_name, which returns the first entry of a name, returns the
\* very entry that was scored best.
SelectionIsUnique ==
  \E p \in Providers : /\ Selects(p)
                       /\ \A q \in Providers : Selects(q) => q = p
                       /\ \A q \in Providers : Chain[q] = Chain[p] => p <= q

\* Measured latency and reliability, compared without the score: n is no
\* slower on average and no less often successful than m, and better in one.
Dominates(n, m) ==
  LET s == stats[n]
      t == stats[m]
      slower == s.totalLatency * t.successes - t.totalLatency * s.successes
      surer == s.successes * t.requests - t.successes * s.requests
  IN  /\ s.totalLatency > 0 /\ t.totalLatency > 0
      /\ slower <= 0 /\ surer >= 0
      /\ slower # 0 \/ surer # 0

\* Once every provider was observed, the router never selects one while an
\* available one has both the better average latency and the better success
\* rate: the sum of the two in _score_provider never turns the order round.
SelectedNotDominated ==
  Unobserved = {} =>
    \A p \in Providers : Selects(p) =>
      \A q \in Providers : Available(Chain[q]) => ~Dominates(Chain[q], Chain[p])

\* A failure never makes the router choose the provider that failed: whoever
\* was not selected before record_failure is not selected after it, whatever
\* this does to the score, to the breaker and to the other candidates.
FailureNeverPromotes ==
  [][\A p \in Providers :
       /\ RecordFailure(p) /\ UNCHANGED now
       /\ \A q \in Providers : Chain[q] = Chain[p] => ~Selects(q)
       => \A q \in Providers : Chain[q] = Chain[p] => ~Selects(q)']_routerVars

\* The router implements one circuit breaker per name: the statistics and the
\* clock never close or half-open a breaker, nor open one, in a way the
\* abstract breaker does not allow.
Breaker == INSTANCE CircuitBreaker WITH
             Breakers <- Names,
             Threshold <- FailureThreshold,
             mode <- [n \in Names |-> BreakerMode(n)],
             run <- [n \in Names |-> BreakerRun(n)]

ImplementsBreaker == Breaker!Spec
=============================================================================
