------------------------ MODULE ProviderRouterProofs ------------------------
(***************************************************************************)
(* The router under any driver.  RouterSpec lets calls of any latency      *)
(* succeed and fail in any order; its statistics stay consistent, it       *)
(* implements one circuit breaker per name, and its choice is unique,      *)
(* never dominated and never moved by a failure to the provider that       *)
(* failed, for every list of providers, threshold and cooldown.  The       *)
(* clients and the gateway drive the router in this way only.              *)
(***************************************************************************)
EXTENDS ProviderRouter, TLAPS, FiniteSetTheorems, WellFoundedInduction

\* An entry of the configured list has a name, and the number of entries is
\* positive.
LEMMA ChainNames == /\ Len(Chain) \in Nat \ {0}
                    /\ \A p \in Providers : Chain[p] \in Names
  BY ChainAssumption DEF Names, Providers

\* The router starts well typed and consistent.
LEMMA RouterInitInv == RouterInit => RouterTypeOK /\ StatsConsistent
  BY DEF RouterInit, RouterTypeOK, StatsConsistent, NoStats, ProviderStats

\* record_success keeps the statistics well typed and consistent.
LEMMA RecordSuccessInv ==
  ASSUME RouterTypeOK, StatsConsistent, NEW p \in Providers, NEW latency \in Nat,
         RecordSuccess(p, latency), UNCHANGED now
  PROVE  RouterTypeOK' /\ StatsConsistent'
<1> DEFINE n == Chain[p]
<1>1. n \in Names
  BY ChainNames
<1>2. stats[n] \in ProviderStats
  BY <1>1 DEF RouterTypeOK
<1>3. stats' = [stats EXCEPT ![n] =
                  [requests |-> stats[n].requests + 1,
                   successes |-> stats[n].successes + 1,
                   failures |-> stats[n].failures,
                   totalLatency |-> stats[n].totalLatency + latency,
                   consecutiveFailures |-> 0,
                   lastFailureAt |-> None]]
  BY DEF RecordSuccess
<1>4. RouterTypeOK'
  BY <1>1, <1>2, <1>3 DEF RouterTypeOK, ProviderStats
<1>5. StatsConsistent'
  BY <1>1, <1>2, <1>3, RouterAssumption DEF RouterTypeOK, StatsConsistent, ProviderStats
<1> QED
  BY <1>4, <1>5

\* record_failure keeps the statistics well typed and consistent.
LEMMA RecordFailureInv ==
  ASSUME RouterTypeOK, StatsConsistent, NEW p \in Providers,
         RecordFailure(p), UNCHANGED now
  PROVE  RouterTypeOK' /\ StatsConsistent'
<1> DEFINE n == Chain[p]
<1>1. n \in Names
  BY ChainNames
<1>2. stats[n] \in ProviderStats
  BY <1>1 DEF RouterTypeOK
<1>3. stats' = [stats EXCEPT ![n] =
                  [requests |-> stats[n].requests + 1,
                   successes |-> stats[n].successes,
                   failures |-> stats[n].failures + 1,
                   totalLatency |-> stats[n].totalLatency,
                   consecutiveFailures |-> stats[n].consecutiveFailures + 1,
                   lastFailureAt |-> now]]
  BY DEF RecordFailure
<1>4. RouterTypeOK'
  BY <1>1, <1>2, <1>3 DEF RouterTypeOK, ProviderStats
<1>5. StatsConsistent'
  BY <1>1, <1>2, <1>3, RouterAssumption DEF RouterTypeOK, StatsConsistent, ProviderStats
<1> QED
  BY <1>4, <1>5

\* The clock keeps them too: failures only become older.
LEMMA ClockInv ==
  ASSUME RouterTypeOK, StatsConsistent, now' = now + 1, UNCHANGED stats
  PROVE  RouterTypeOK' /\ StatsConsistent'
  BY RouterAssumption DEF RouterTypeOK, StatsConsistent, ProviderStats

-----------------------------------------------------------------------------
\* What a driver can do to the router: record a success or a failure, and let
\* time pass.
RouterStep == \/ \E p \in Providers, latency \in Nat : /\ RecordSuccess(p, latency)
                                                       /\ UNCHANGED now
              \/ \E p \in Providers : RecordFailure(p) /\ UNCHANGED now
              \/ now' = now + 1 /\ UNCHANGED stats

RouterSpec == RouterInit /\ [][RouterStep]_routerVars

RouterInv == RouterTypeOK /\ StatsConsistent

\* The statistics of every name have their types and agree with each other,
\* whatever calls are recorded and in which order.
THEOREM RouterKeepsInv == RouterSpec => []RouterInv
<1>1. RouterInit => RouterInv
  BY RouterInitInv DEF RouterInv
<1>2. RouterInv /\ [RouterStep]_routerVars => RouterInv'
  <2> SUFFICES ASSUME RouterInv, [RouterStep]_routerVars
               PROVE  RouterInv'
    OBVIOUS
  <2> USE DEF RouterInv
  <2>1. ASSUME NEW p \in Providers, NEW latency \in Nat,
               RecordSuccess(p, latency), UNCHANGED now
        PROVE  RouterInv'
    BY <2>1, RecordSuccessInv
  <2>2. ASSUME NEW p \in Providers, RecordFailure(p), UNCHANGED now
        PROVE  RouterInv'
    BY <2>2, RecordFailureInv
  <2>3. CASE now' = now + 1 /\ UNCHANGED stats
    BY <2>3, ClockInv
  <2>4. CASE UNCHANGED routerVars
    BY <2>4 DEF routerVars, RouterTypeOK, StatsConsistent
  <2> QED
    BY <2>1, <2>2, <2>3, <2>4 DEF RouterStep
<1> QED
  BY <1>1, <1>2, PTL DEF RouterSpec

-----------------------------------------------------------------------------
\* The circuit breaker

\* The names of the abstract breaker's state.
Mode == [n \in Names |-> BreakerMode(n)]
Run == [n \in Names |-> BreakerRun(n)]

\* A success closes the breaker of its name and no other.
LEMMA SuccessCloses ==
  ASSUME RouterInv, NEW p \in Providers, NEW latency \in Nat,
         RecordSuccess(p, latency), UNCHANGED now
  PROVE  Breaker!Succeed(Chain[p])
<1> DEFINE n == Chain[p]
<1>1. n \in Names
  BY ChainNames
<1>2. /\ stats'[n].consecutiveFailures = 0
      /\ \A m \in Names : m # n => stats'[m] = stats[m]
  BY <1>1 DEF RecordSuccess, RouterInv, RouterTypeOK
<1>3. BreakerMode(n)' = "closed" /\ BreakerRun(n)' = 0
  BY <1>2, RouterAssumption DEF BreakerMode, BreakerRun
<1>4. \A m \in Names : m # n => /\ BreakerMode(m)' = BreakerMode(m)
                               /\ BreakerRun(m)' = BreakerRun(m)
  BY <1>2 DEF BreakerMode, BreakerRun, CooledDown
<1>5. Mode' = [Mode EXCEPT ![n] = "closed"]
  BY <1>1, <1>3, <1>4 DEF Mode
<1>6. Run' = [Run EXCEPT ![n] = 0]
  BY <1>1, <1>3, <1>4 DEF Run
<1> QED
  BY <1>5, <1>6 DEF Breaker!Succeed, Mode, Run

\* A failure opens the breaker of its name, or opens it anew, when the
\* threshold is reached, and otherwise only counts.
LEMMA FailureCountsOrTrips ==
  ASSUME RouterInv, NEW p \in Providers, RecordFailure(p), UNCHANGED now
  PROVE  Breaker!FailClosed(Chain[p]) \/ Breaker!Trip(Chain[p])
<1> DEFINE n == Chain[p]
           c == stats[n].consecutiveFailures
<1>1. n \in Names /\ c \in Nat /\ now \in Nat
  BY ChainNames DEF RouterInv, RouterTypeOK, ProviderStats
<1>2. /\ stats'[n].consecutiveFailures = c + 1
      /\ stats'[n].lastFailureAt = now
      /\ \A m \in Names : m # n => stats'[m] = stats[m]
  BY <1>1 DEF RecordFailure, RouterInv, RouterTypeOK
<1>3. \A m \in Names : m # n => /\ BreakerMode(m)' = BreakerMode(m)
                               /\ BreakerRun(m)' = BreakerRun(m)
  BY <1>2 DEF BreakerMode, BreakerRun, CooledDown
<1>4. CASE c + 1 < FailureThreshold
  <2>1. /\ BreakerMode(n) = "closed" /\ BreakerMode(n)' = "closed"
        /\ BreakerRun(n) = c /\ BreakerRun(n)' = c + 1
    BY <1>1, <1>2, <1>4, RouterAssumption DEF BreakerMode, BreakerRun
  <2>2. Mode' = Mode
    BY <2>1, <1>3 DEF Mode
  <2>3. Run' = [Run EXCEPT ![n] = Run[n] + 1] /\ Run[n] + 1 < FailureThreshold
    BY <1>1, <1>4, <2>1, <1>3 DEF Run
  <2> QED
    BY <2>2, <2>3 DEF Breaker!FailClosed, Mode, Run
<1>5. CASE c + 1 >= FailureThreshold
  <2>1. ~CooledDown(n, now)'
    BY <1>1, <1>2, RouterAssumption DEF CooledDown
  <2>2. BreakerMode(n)' = "open" /\ BreakerRun(n)' = FailureThreshold
    BY <1>1, <1>2, <1>5, <2>1, RouterAssumption DEF BreakerMode, BreakerRun
  <2>3. BreakerRun(n) + 1 >= FailureThreshold
    BY <1>1, <1>5, RouterAssumption DEF BreakerRun
  <2>4. Mode' = [Mode EXCEPT ![n] = "open"]
    BY <1>1, <1>3, <2>2 DEF Mode
  <2>5. Run' = [Run EXCEPT ![n] = FailureThreshold] /\ Run[n] + 1 >= FailureThreshold
    BY <1>1, <1>3, <2>2, <2>3 DEF Run
  <2> QED
    BY <2>4, <2>5 DEF Breaker!Trip, Mode, Run
<1> QED
  BY <1>1, <1>4, <1>5, RouterAssumption

\* The passage of time turns open breakers into half-open ones and does
\* nothing else.
LEMMA TimeCoolsDown ==
  ASSUME RouterInv, now' = now + 1, UNCHANGED stats
  PROVE  \E B \in SUBSET Names : Breaker!CoolDown(B)
<1> DEFINE B == {n \in Names : BreakerMode(n) = "open" /\ BreakerMode(n)' # "open"}
<1>1. \A n \in Names : BreakerRun(n)' = BreakerRun(n)
  BY DEF BreakerRun
<1>2. ASSUME NEW n \in Names
      PROVE  BreakerMode(n)' = IF n \in B THEN "half_open" ELSE BreakerMode(n)
  <2>1. CooledDown(n, now) => CooledDown(n, now)'
    BY RouterAssumption DEF CooledDown, RouterInv, RouterTypeOK, ProviderStats
  <2> QED
    BY <2>1 DEF BreakerMode
<1>3. Mode' = [n \in Names |-> IF n \in B THEN "half_open" ELSE Mode[n]]
  BY <1>2 DEF Mode
<1>4. Run' = Run
  BY <1>1 DEF Run
<1>5. \A n \in B : Mode[n] = "open"
  BY DEF Mode
<1>6. Breaker!CoolDown(B)
  BY <1>3, <1>4, <1>5 DEF Breaker!CoolDown, Mode, Run
<1> QED
  BY <1>6

\* The router implements the abstract breaker: consecutive failures open it,
\* the clock half-opens it, and only a success closes it.
THEOREM RouterRefinesBreaker == RouterSpec => ImplementsBreaker
<1>1. RouterInit => Breaker!Init
  <2> SUFFICES ASSUME RouterInit
               PROVE  Breaker!Init
    OBVIOUS
  <2>1. \A n \in Names : BreakerMode(n) = "closed" /\ BreakerRun(n) = 0
    BY RouterAssumption DEF RouterInit, NoStats, BreakerMode, BreakerRun
  <2> QED
    BY <2>1 DEF Breaker!Init
<1>2. RouterInv /\ [RouterStep]_routerVars => [Breaker!Next]_Breaker!vars
  <2> SUFFICES ASSUME RouterInv, [RouterStep]_routerVars
               PROVE  [Breaker!Next]_Breaker!vars
    OBVIOUS
  <2>1. ASSUME NEW p \in Providers, NEW latency \in Nat,
               RecordSuccess(p, latency), UNCHANGED now
        PROVE  Breaker!Next
    <3>1. Breaker!Succeed(Chain[p])
      BY <2>1, SuccessCloses
    <3> QED
      BY <3>1, ChainNames DEF Breaker!Next
  <2>2. ASSUME NEW p \in Providers, RecordFailure(p), UNCHANGED now
        PROVE  Breaker!Next
    BY <2>2, FailureCountsOrTrips, ChainNames DEF Breaker!Next
  <2>3. CASE now' = now + 1 /\ UNCHANGED stats
    BY <2>3, TimeCoolsDown DEF Breaker!Next
  <2>4. CASE UNCHANGED routerVars
    <3>1. \A n \in Names : /\ BreakerMode(n)' = BreakerMode(n)
                           /\ BreakerRun(n)' = BreakerRun(n)
      BY <2>4 DEF routerVars, BreakerMode, BreakerRun, CooledDown
    <3> QED
      BY <3>1 DEF Breaker!vars
  <2> QED
    BY <2>1, <2>2, <2>3, <2>4 DEF RouterStep
<1> QED
  BY <1>1, <1>2, RouterKeepsInv, PTL DEF RouterSpec, ImplementsBreaker, Breaker!Spec

-----------------------------------------------------------------------------
\* Fractions, compared by cross-multiplication

\* Multiplying by a positive number keeps the order.
LEMMA ScaleOrder ==
  ASSUME NEW x \in Nat, NEW y \in Nat, NEW k \in Nat \ {0}
  PROVE  x <= y <=> x * k <= y * k
<1>1. CASE x <= y
  <2>1. PICK n \in Nat : y = x + n
    <3>1. y - x \in Nat /\ y = x + (y - x)
      BY <1>1
    <3> QED
      BY <3>1
  <2>2. y * k = x * k + n * k /\ n * k \in Nat /\ x * k \in Nat
    BY <2>1
  <2> QED
    BY <1>1, <2>2
<1>2. CASE y < x
  <2>1. PICK n \in Nat : x = y + n /\ n > 0
    <3>1. x - y \in Nat /\ x = y + (x - y) /\ x - y > 0
      BY <1>2
    <3> QED
      BY <3>1
  <2>2. x * k = y * k + n * k /\ n * k > 0 /\ y * k \in Nat /\ n * k \in Nat
    BY <2>1
  <2> QED
    BY <1>2, <2>2
<1> QED
  BY <1>1, <1>2

\* a/b <= c/d and c/d <= e/f make a/b <= e/f, which is strict if one of them is.
LEMMA FractionsTransitive ==
  ASSUME NEW a \in Nat, NEW c \in Nat, NEW e \in Nat,
         NEW b \in Nat \ {0}, NEW d \in Nat \ {0}, NEW f \in Nat \ {0},
         a * d <= c * b, c * f <= e * d
  PROVE  /\ a * f <= e * b
         /\ a * d < c * b \/ c * f < e * d => a * f < e * b
<1> DEFINE ad == a * d
           cb == c * b
           cf == c * f
           ed == e * d
           af == a * f
           eb == e * b
<1>1. ad \in Nat /\ cb \in Nat /\ cf \in Nat /\ ed \in Nat /\ af \in Nat /\ eb \in Nat
  OBVIOUS
<1>2. ad * f = af * d /\ cb * f = cf * b /\ ed * b = eb * d
  OBVIOUS
<1>3. ad <= cb /\ cf <= ed
  OBVIOUS
<1> HIDE DEF ad, cb, cf, ed, af, eb
<1>4. ad * f <= cb * f /\ (ad < cb => ad * f < cb * f)
  <2>1. ~(cb <= ad) => ~(cb * f <= ad * f)
    BY <1>1, ScaleOrder
  <2>2. ad * f <= cb * f /\ ad * f \in Nat /\ cb * f \in Nat
    BY <1>1, <1>3, ScaleOrder
  <2> QED
    BY <1>1, <2>1, <2>2
<1>5. cf * b <= ed * b /\ (cf < ed => cf * b < ed * b)
  <2>1. ~(ed <= cf) => ~(ed * b <= cf * b)
    BY <1>1, ScaleOrder
  <2>2. cf * b <= ed * b /\ cf * b \in Nat /\ ed * b \in Nat
    BY <1>1, <1>3, ScaleOrder
  <2> QED
    BY <1>1, <2>1, <2>2
<1>6. /\ af * d <= eb * d
      /\ ad < cb \/ cf < ed => af * d < eb * d
      /\ af * d \in Nat /\ eb * d \in Nat
  <2>1. ad * f \in Nat /\ cb * f \in Nat /\ ed * b \in Nat
    BY <1>1
  <2> QED
    BY <1>2, <1>4, <1>5, <2>1
<1>7. af <= eb /\ (eb <= af => eb * d <= af * d)
  BY <1>1, <1>6, ScaleOrder
<1>8. ad < cb \/ cf < ed => af < eb
  BY <1>1, <1>6, <1>7
<1> QED
  BY <1>7, <1>8 DEF ad, cb, cf, ed, af, eb

-----------------------------------------------------------------------------
\* The choice of a provider

\* Scores are fractions with a positive denominator.
LEMMA ScoreType ==
  ASSUME RouterInv, NEW n \in Names
  PROVE  Score(n).num \in Nat /\ Score(n).den \in Nat \ {0}
<1> DEFINE s == stats[n]
           r == s.requests
           u == s.successes
<1>1. s \in ProviderStats /\ r = u + s.failures /\ (s.totalLatency > 0 => u > 0)
  BY DEF RouterInv, RouterTypeOK, StatsConsistent
<1>2. /\ r \in Nat /\ u \in Nat /\ s.totalLatency \in Nat /\ s.failures \in Nat
      /\ Second \in Nat /\ Second > 0
  BY <1>1, RouterAssumption DEF ProviderStats
<1>3. Score(n) = IF r = 0 THEN [num |-> Second, den |-> 1]
                 ELSE IF s.totalLatency > 0
                 THEN [num |-> s.totalLatency * r + Second * (r - u) * u, den |-> u * r]
                 ELSE [num |-> Second * (2 * r - u), den |-> r]
  BY DEF Score
<1>4. r - u \in Nat /\ 2 * r - u \in Nat
  BY <1>1, <1>2
<1> DEFINE l == s.totalLatency
<1>5. CASE r = 0
  BY <1>2, <1>3, <1>5
<1>6. CASE r # 0 /\ l > 0
  <2>1. u * r \in Nat \ {0}
    BY <1>1, <1>2, <1>6
  <2>2. l * r \in Nat /\ Second * (r - u) \in Nat
    BY <1>2, <1>4
  <2>3. Second * (r - u) * u \in Nat
    BY <1>2, <2>2
  <2> QED
    BY <1>3, <1>6, <2>1, <2>2, <2>3
<1>7. CASE r # 0 /\ ~(l > 0)
  <2>1. Second * (2 * r - u) \in Nat
    BY <1>2, <1>4
  <2> QED
    BY <1>2, <1>3, <1>7, <2>1
<1> QED
  BY <1>5, <1>6, <1>7

\* Scores are totally ordered.
LEMMA WorseOrder ==
  ASSUME RouterInv, NEW x \in Names, NEW y \in Names, NEW z \in Names
  PROVE  /\ ~Worse(x, x)
         /\ Worse(x, y) => ~Worse(y, x)
         /\ ~Worse(x, y) /\ ~Worse(y, z) => ~Worse(x, z)
         /\ Worse(x, y) /\ ~Worse(z, y) => Worse(x, z)
         /\ ~Worse(y, x) /\ Worse(y, z) => Worse(x, z)
<1> DEFINE a == Score(x).num
           b == Score(x).den
           c == Score(y).num
           d == Score(y).den
           e == Score(z).num
           f == Score(z).den
<1>1. a \in Nat /\ b \in Nat \ {0} /\ c \in Nat /\ d \in Nat \ {0} /\ e \in Nat /\ f \in Nat \ {0}
  BY ScoreType
<1>2. /\ Worse(x, x) <=> a * b > a * b
      /\ Worse(x, y) <=> a * d > c * b
      /\ Worse(y, x) <=> c * b > a * d
      /\ Worse(y, z) <=> c * f > e * d
      /\ Worse(z, y) <=> e * d > c * f
      /\ Worse(x, z) <=> a * f > e * b
  BY DEF Worse
<1> HIDE DEF a, b, c, d, e, f
<1>3. /\ a * b \in Nat /\ a * d \in Nat /\ c * b \in Nat /\ c * f \in Nat /\ e * d \in Nat
      /\ a * f \in Nat /\ e * b \in Nat
  BY <1>1
<1>4. a * d <= c * b /\ c * f <= e * d => a * f <= e * b
  BY <1>1, FractionsTransitive
<1>5. e * d <= c * f /\ c * b <= a * d =>
        /\ e * b <= a * f
        /\ e * d < c * f \/ c * b < a * d => e * b < a * f
  BY <1>1, FractionsTransitive
<1> QED
  BY <1>2, <1>3, <1>4, <1>5

\* A finite set has a least element in every strict order.
LEMMA LeastExists ==
  ASSUME NEW S, IsFiniteSet(S), S # {}, NEW R,
         \A x \in S : <<x, x>> \notin R,
         \A x, y, z \in S : <<x, y>> \in R /\ <<y, z>> \in R => <<x, z>> \in R
  PROVE  \E x \in S : \A y \in S : <<y, x>> \notin R
<1> DEFINE Below(x) == {y \in S : <<y, x>> \in R}
           T == {Below(x) : x \in S}
<1>1. T \subseteq FiniteSubsetsOf(S) /\ T # {}
  <2>1. \A x \in S : Below(x) \in SUBSET S /\ IsFiniteSet(Below(x))
    BY FS_Subset
  <2>2. \A x \in S : Below(x) \in FiniteSubsetsOf(S)
    BY <2>1 DEF FiniteSubsetsOf
  <2> HIDE DEF Below
  <2> QED
    BY <2>2
<1>2. IsWellFoundedOn(StrictSubsetOrdering(S), FiniteSubsetsOf(S))
  BY FS_StrictSubsetOrderingWellFounded
<1> HIDE DEF T
<1>3. PICK B \in T : \A C \in T : <<C, B>> \notin StrictSubsetOrdering(S)
  BY <1>1, <1>2, WFMin
<1>4. PICK x \in S : B = Below(x)
  BY <1>3 DEF T
<1>5. ASSUME NEW y \in S, <<y, x>> \in R PROVE FALSE
  <2>1. Below(y) \subseteq Below(x) /\ y \in Below(x) /\ y \notin Below(y)
    BY <1>5
  <2>2. Below(y) \in T
    BY DEF T
  <2>3. <<Below(y), B>> \in StrictSubsetOrdering(S)
    BY <1>4, <2>1 DEF StrictSubsetOrdering
  <2> QED
    BY <1>3, <2>2, <2>3
<1> QED
  BY <1>5

\* The providers are numbers and finitely many.
LEMMA ProvidersFinite == IsFiniteSet(Providers) /\ Providers \subseteq Nat
  BY ChainNames, FS_Interval DEF Providers

\* Provider q is chosen before p: its score is better, or no worse and q is
\* listed first.
Prefers(q, p) == Worse(Chain[p], Chain[q]) \/ (q < p /\ ~Worse(Chain[q], Chain[p]))

\* A best provider exists among those that are scored.
LEMMA FirstBestExists ==
  ASSUME RouterInv
  PROVE  \E p \in Providers : FirstBest(p)
<1> DEFINE R == {pair \in Scored \X Scored : Prefers(pair[1], pair[2])}
<1>1. Scored \subseteq Providers /\ Scored # {} /\ IsFiniteSet(Scored)
  <2>1. Scored \subseteq Providers /\ Scored # {}
    BY ChainNames DEF Scored, Providers
  <2> QED
    BY <2>1, ProvidersFinite, FS_Subset
<1>2. \A p \in Scored : p \in Nat /\ Chain[p] \in Names
  BY <1>1, ChainNames, ProvidersFinite
<1>3. \A p \in Scored : <<p, p>> \notin R
  BY <1>2, WorseOrder DEF Prefers
<1>4. ASSUME NEW p \in Scored, NEW q \in Scored, NEW r \in Scored,
             Prefers(p, q), Prefers(q, r)
      PROVE  Prefers(p, r)
  <2> DEFINE x == Chain[p]
             y == Chain[q]
             z == Chain[r]
  <2>1. x \in Names /\ y \in Names /\ z \in Names
    BY <1>2
  <2> HIDE DEF x, y, z
  <2>2. ~Worse(x, y) /\ ~Worse(y, z)
    BY <1>4, <2>1, WorseOrder DEF Prefers, x, y, z
  <2>3. ~Worse(x, z)
    BY <2>1, <2>2, WorseOrder
  <2>4. CASE p < r
    BY <2>3, <2>4 DEF Prefers, x, z
  <2>5. CASE ~(p < r)
    <3>1. Worse(y, x) \/ Worse(z, y)
      BY <1>2, <1>4, <2>5 DEF Prefers, x, y, z
    <3>2. Worse(z, x)
      BY <2>1, <2>2, <3>1, WorseOrder
    <3> QED
      BY <3>2 DEF Prefers, x, z
  <2> QED
    BY <2>4, <2>5
<1>5. \A p, q, r \in Scored : <<p, q>> \in R /\ <<q, r>> \in R => <<p, r>> \in R
  BY <1>4
<1>6. PICK p \in Scored : \A q \in Scored : <<q, p>> \notin R
  <2> HIDE DEF R
  <2> QED
    BY <1>1, <1>3, <1>5, LeastExists
<1>7. FirstBest(p)
  BY <1>6 DEF FirstBest, Prefers
<1> QED
  BY <1>1, <1>7

\* A provider is selected in every state.
LEMMA SelectionExists ==
  ASSUME RouterInv
  PROVE  \E p \in Providers : Selects(p)
<1>1. CASE Unobserved = {}
  BY <1>1, FirstBestExists DEF Selects
<1>2. CASE Unobserved # {}
  <2> DEFINE R == {pair \in Nat \X Nat : pair[1] < pair[2]}
  <2>1. Unobserved \subseteq Providers /\ IsFiniteSet(Unobserved) /\ Unobserved \subseteq Nat
    <3>1. Unobserved \subseteq Providers
      BY DEF Unobserved
    <3> QED
      BY <3>1, ProvidersFinite, FS_Subset
  <2>2. /\ \A p \in Unobserved : <<p, p>> \notin R
        /\ \A p, q, r \in Unobserved : <<p, q>> \in R /\ <<q, r>> \in R => <<p, r>> \in R
    BY <2>1
  <2>3. PICK p \in Unobserved : \A q \in Unobserved : <<q, p>> \notin R
    <3> HIDE DEF R
    <3> QED
      BY <1>2, <2>1, <2>2, LeastExists
  <2>4. \A q \in Unobserved : p <= q
    <3>1. ASSUME NEW q \in Unobserved PROVE ~(q < p)
      <4>1. <<q, p>> \in Nat \X Nat
        BY <2>1
      <4> QED
        BY <2>3, <4>1
    <3> QED
      BY <2>1, <3>1
  <2> QED
    BY <2>1, <2>4 DEF Selects
<1> QED
  BY <1>1, <1>2

\* At any time select_provider has one result, whatever breakers are open:
\* there is a best provider among those it scores, no two are the best, and no
\* entry of the same name is listed before it, so that _provider_by_name
\* returns the entry that was scored.
THEOREM RouterSelectsOne == RouterSpec => []SelectionIsUnique
<1>1. RouterInv => SelectionIsUnique
  <2> SUFFICES ASSUME RouterInv PROVE SelectionIsUnique
    OBVIOUS
  <2>1. PICK p \in Providers : Selects(p)
    BY SelectionExists
  <2>2. \A q \in Providers : q \in Nat /\ Chain[q] \in Names
    BY ChainNames, ProvidersFinite
  <2>3. ASSUME NEW q \in Providers, Selects(q) PROVE q = p
    BY <2>1, <2>2, <2>3 DEF Selects, FirstBest
  <2>4. ASSUME NEW q \in Providers, Chain[q] = Chain[p] PROVE p <= q
    <3>1. CASE Unobserved # {}
      BY <2>1, <2>4, <3>1 DEF Selects, Unobserved
    <3>2. CASE Unobserved = {}
      <4>1. p \in Scored /\ (q \in Scored /\ q < p => Worse(Chain[q], Chain[p]))
        BY <2>1, <3>2 DEF Selects, FirstBest
      <4>2. q \in Scored
        BY <2>4, <4>1 DEF Scored
      <4>3. ~Worse(Chain[q], Chain[p])
        BY <2>2, <2>4, WorseOrder
      <4> QED
        BY <2>2, <4>1, <4>2, <4>3
    <3> QED
      BY <3>1, <3>2
  <2> QED
    BY <2>1, <2>3, <2>4 DEF SelectionIsUnique
<1> QED
  BY <1>1, RouterKeepsInv, PTL

-----------------------------------------------------------------------------
\* Measured latency and reliability

\* The score of a provider with successes, as two products.
LEMMA ScoreOrder ==
  ASSUME NEW l \in Nat, NEW u \in Nat \ {0}, NEW r \in Nat \ {0},
         NEW m \in Nat, NEW v \in Nat \ {0}, NEW t \in Nat \ {0}, NEW k \in Nat \ {0},
         u <= r, v <= t,
         l * v <= m * u, v * r <= u * t, l * v # m * u \/ v * r # u * t
  PROVE  (l * r + k * (r - u) * u) * (v * t) < (m * t + k * (t - v) * v) * (u * r)
<1>1. PICK x \in Nat : m * u = l * v + x
  <2>1. m * u \in Nat /\ l * v \in Nat
    OBVIOUS
  <2>2. m * u - l * v \in Nat /\ m * u = l * v + (m * u - l * v)
    BY <2>1
  <2> QED
    BY <2>2
<1>2. PICK y \in Nat : u * t = v * r + y
  <2>1. u * t \in Nat /\ v * r \in Nat
    OBVIOUS
  <2>2. u * t - v * r \in Nat /\ u * t = v * r + (u * t - v * r)
    BY <2>1
  <2> QED
    BY <2>2
<1>3. x > 0 \/ y > 0
  BY <1>1, <1>2
<1>4. (l * r + k * (r - u) * u) * (v * t)
        = (l * v) * (r * t) + k * (u * v) * (r * t) - k * (u * v) * (u * t)
  OBVIOUS
<1>5. (m * t + k * (t - v) * v) * (u * r)
        = (m * u) * (r * t) + k * (u * v) * (r * t) - k * (u * v) * (v * r)
  OBVIOUS
<1>6. r * t \in Nat \ {0} /\ u * v \in Nat \ {0}
  OBVIOUS
<1> DEFINE a == r * t
           b == u * v
           c == l * v
           d == v * r
<1>7. c \in Nat /\ d \in Nat
  OBVIOUS
<1> HIDE DEF a, b, c, d
<1>8. (c + x) * a = c * a + x * a /\ k * b * (d + y) = k * b * d + k * b * y
  BY <1>6, <1>7 DEF a, b
<1>9. k * b \in Nat \ {0} /\ c * a \in Nat
  BY <1>6, <1>7 DEF a, b
<1>10. /\ x * a \in Nat /\ k * b * y \in Nat /\ k * b * d \in Nat /\ k * b * a \in Nat
       /\ x > 0 => x * a > 0
       /\ y > 0 => k * b * y > 0
  BY <1>6, <1>7, <1>9 DEF a
<1>11. c * a + k * b * a - k * b * (d + y) < (c + x) * a + k * b * a - k * b * d
  BY <1>3, <1>8, <1>9, <1>10
<1> QED
  BY <1>1, <1>2, <1>4, <1>5, <1>11 DEF a, b, c, d

\* Once every provider was observed, none is selected that an available one
\* surpasses in both average latency and success rate: the sum that
\* _score_provider forms of the two never turns the order round.
THEOREM RouterSelectsUndominated == RouterSpec => []SelectedNotDominated
<1>1. RouterInv => SelectedNotDominated
  <2> SUFFICES ASSUME RouterInv, Unobserved = {}, NEW p \in Providers, Selects(p),
                      NEW q \in Providers, Available(Chain[q]), Dominates(Chain[q], Chain[p])
               PROVE  FALSE
    BY DEF SelectedNotDominated
  <2> DEFINE n == Chain[q]
             m == Chain[p]
             s == stats[n]
             t == stats[m]
  <2>1. n \in Names /\ m \in Names
    BY ChainNames
  <2>2. ~Worse(m, n)
    BY DEF Selects, FirstBest, Scored
  <2>3. /\ s \in ProviderStats /\ s.requests = s.successes + s.failures
        /\ s.totalLatency > 0 /\ s.successes > 0
        /\ t \in ProviderStats /\ t.requests = t.successes + t.failures
        /\ t.totalLatency > 0 /\ t.successes > 0
    BY <2>1 DEF RouterInv, RouterTypeOK, StatsConsistent, Dominates
  <2> DEFINE l == s.totalLatency
             u == s.successes
             r == s.requests
             e == t.totalLatency
             v == t.successes
             w == t.requests
  <2>4. /\ l \in Nat /\ u \in Nat \ {0} /\ r \in Nat \ {0} /\ u <= r
        /\ e \in Nat /\ v \in Nat \ {0} /\ w \in Nat \ {0} /\ v <= w
        /\ Second \in Nat \ {0} /\ l > 0 /\ e > 0
    BY <2>3, RouterAssumption DEF ProviderStats
  <2>5. /\ l * v - e * u <= 0 /\ u * w - v * r >= 0
        /\ l * v - e * u # 0 \/ u * w - v * r # 0
    BY DEF Dominates
  <2>6. /\ Score(n) = [num |-> l * r + Second * (r - u) * u, den |-> u * r]
        /\ Score(m) = [num |-> e * w + Second * (w - v) * v, den |-> v * w]
    BY <2>4 DEF Score
  <2> HIDE DEF l, u, r, e, v, w, n, m
  <2>7. l * v \in Nat /\ e * u \in Nat /\ u * w \in Nat /\ v * r \in Nat
    BY <2>4
  <2>8. l * v <= e * u /\ v * r <= u * w /\ (l * v # e * u \/ v * r # u * w)
    BY <2>5, <2>7
  <2>9. (l * r + Second * (r - u) * u) * (v * w) < (e * w + Second * (w - v) * v) * (u * r)
    BY <2>4, <2>8, ScoreOrder
  <2>10. Score(n).num * Score(m).den < Score(m).num * Score(n).den
    BY <2>6, <2>9
  <2>11. /\ Score(n).num * Score(m).den \in Nat
         /\ Score(m).num * Score(n).den \in Nat
    BY <2>1, ScoreType
  <2> QED
    BY <2>2, <2>10, <2>11 DEF Worse
<1> QED
  BY <1>1, RouterKeepsInv, PTL

-----------------------------------------------------------------------------
\* What a failure does to the choice

\* One more failed request never lowers a score.
LEMMA FailureRaisesScore ==
  ASSUME RouterInv, NEW p \in Providers, RecordFailure(p), stats[Chain[p]].requests > 0
  PROVE  LET old == Score(Chain[p])
             new == Score(Chain[p])'
         IN  /\ new.num \in Nat /\ new.den \in Nat \ {0}
             /\ old.num * new.den <= new.num * old.den
<1> DEFINE n == Chain[p]
           s == stats[n]
           r == s.requests
           u == s.successes
           l == s.totalLatency
           k == Second
<1>1. n \in Names /\ s \in ProviderStats
  BY ChainNames DEF RouterInv, RouterTypeOK
<1>2. /\ r \in Nat \ {0} /\ u \in Nat /\ l \in Nat /\ k \in Nat \ {0} /\ u <= r
      /\ l > 0 => u > 0
  BY <1>1, RouterAssumption DEF RouterInv, StatsConsistent, ProviderStats
<1>3. /\ stats'[n].requests = r + 1 /\ stats'[n].successes = u /\ stats'[n].totalLatency = l
  BY <1>1 DEF RecordFailure, RouterInv, RouterTypeOK
<1>4. Score(n) = IF l > 0 THEN [num |-> l * r + k * (r - u) * u, den |-> u * r]
                 ELSE [num |-> k * (2 * r - u), den |-> r]
  BY <1>2 DEF Score
<1>5. Score(n)' = IF l > 0
                  THEN [num |-> l * (r + 1) + k * ((r + 1) - u) * u, den |-> u * (r + 1)]
                  ELSE [num |-> k * (2 * (r + 1) - u), den |-> r + 1]
  BY <1>2, <1>3 DEF Score
<1> HIDE DEF n, s, r, u, l, k
<1>6. CASE l > 0
  <2> DEFINE a == l * r + k * (r - u) * u
             c == l * (r + 1) + k * ((r + 1) - u) * u
  <2>1. Score(n) = [num |-> a, den |-> u * r] /\ Score(n)' = [num |-> c, den |-> u * (r + 1)]
    BY <1>4, <1>5, <1>6
  <2>2. u \in Nat \ {0} /\ u * (r + 1) \in Nat \ {0}
    BY <1>2, <1>6
  <2>3. a \in Nat /\ c \in Nat
    <3>1. r - u \in Nat /\ (r + 1) - u \in Nat
      BY <1>2
    <3>2. l * r \in Nat /\ l * (r + 1) \in Nat /\ k * (r - u) \in Nat /\ k * ((r + 1) - u) \in Nat
      BY <1>2, <3>1
    <3>3. k * (r - u) * u \in Nat /\ k * ((r + 1) - u) * u \in Nat
      BY <1>2, <3>2
    <3> QED
      BY <3>2, <3>3
  <2>4. c * (u * r) = a * (u * (r + 1)) + k * (u * u * u)
    BY <1>2
  <2>5. k * (u * u * u) \in Nat /\ a * (u * (r + 1)) \in Nat
    <3>1. u * u \in Nat
      BY <1>2
    <3>2. u * u * u \in Nat
      BY <1>2, <3>1
    <3>3. k * (u * u * u) \in Nat
      BY <1>2, <3>2
    <3> HIDE DEF a
    <3>4. a * (u * (r + 1)) \in Nat
      BY <2>2, <2>3
    <3> QED
      BY <3>3, <3>4
  <2> HIDE DEF a, c
  <2>6. a * (u * (r + 1)) <= c * (u * r)
    BY <2>4, <2>5
  <2> QED
    BY <2>1, <2>2, <2>3, <2>6 DEF n
<1>7. CASE ~(l > 0)
  <2> DEFINE a == k * (2 * r - u)
             c == k * (2 * (r + 1) - u)
  <2>1. Score(n) = [num |-> a, den |-> r] /\ Score(n)' = [num |-> c, den |-> r + 1]
    BY <1>4, <1>5, <1>7
  <2>2. a \in Nat /\ c \in Nat
    <3>1. 2 * r - u \in Nat /\ 2 * (r + 1) - u \in Nat
      BY <1>2
    <3> QED
      BY <1>2, <3>1
  <2>3. c * r = a * (r + 1) + k * u
    BY <1>2
  <2>4. k * u \in Nat
    BY <1>2
  <2> HIDE DEF a, c
  <2>5. a * (r + 1) \in Nat
    BY <1>2, <2>2
  <2>6. a * (r + 1) <= c * r
    BY <2>3, <2>4, <2>5
  <2> QED
    BY <1>2, <2>1, <2>2, <2>6 DEF n
<1> QED
  BY <1>6, <1>7

\* A provider that was not selected is not selected after its failure.
LEMMA FailureDemotes ==
  ASSUME RouterInv, NEW p \in Providers, RecordFailure(p), UNCHANGED now,
         \A q \in Providers : Chain[q] = Chain[p] => ~Selects(q),
         NEW q \in Providers, Chain[q] = Chain[p], Selects(q)'
  PROVE  FALSE
<1> DEFINE n == Chain[p]
<1>1. n \in Names /\ stats[n] \in ProviderStats /\ now \in Nat
  BY ChainNames DEF RouterInv, RouterTypeOK
<1>2. /\ stats'[n].requests = stats[n].requests + 1
      /\ stats'[n].consecutiveFailures = stats[n].consecutiveFailures + 1
      /\ stats'[n].lastFailureAt = now
      /\ \A m \in Names : m # n => stats'[m] = stats[m]
  BY <1>1 DEF RecordFailure, RouterInv, RouterTypeOK
<1>3. PICK z \in Providers : Selects(z)
  BY SelectionExists
<1> DEFINE x == Chain[z]
<1>4. x # n /\ x \in Names /\ stats'[x] = stats[x]
  BY <1>2, <1>3, ChainNames
<1>5. q \notin Unobserved'
  BY <1>1, <1>2 DEF Unobserved, ProviderStats
<1>6. Unobserved' = {} /\ FirstBest(q)'
  BY <1>5 DEF Selects
<1>7. Unobserved = {} /\ FirstBest(z)
  <2>1. z \notin Unobserved
    BY <1>4, <1>6 DEF Unobserved
  <2> QED
    BY <1>3, <2>1 DEF Selects
<1>8. stats[n].requests > 0
  BY <1>1, <1>7 DEF Unobserved, ProviderStats
<1>9. /\ \A m \in Names : m # n => (Available(m)' <=> Available(m))
      /\ Available(n)' => Available(n)
  <2>1. ASSUME NEW m \in Names, m # n PROVE Available(m)' <=> Available(m)
    BY <1>2, <2>1 DEF Available, CooledDown
  <2>2. Available(n)' => Available(n)
    BY <1>1, <1>2, RouterAssumption DEF Available, CooledDown, ProviderStats
  <2> QED
    BY <2>1, <2>2
<1>10. /\ z \in Scored /\ q \in Scored'
       /\ \A v \in Providers : Chain[v] \in Names
  BY <1>6, <1>7, ChainNames DEF FirstBest
<1>11. z \in Scored' /\ q \in Scored
  <2>1. CASE Available(x)
    <3>1. Available(x)'
      BY <1>4, <1>9, <2>1
    <3>2. z \in Scored' /\ Available(Chain[q])'
      BY <1>10, <3>1 DEF Scored
    <3>3. Available(Chain[q])
      BY <1>9, <3>2
    <3> QED
      BY <3>2, <3>3 DEF Scored
  <2>2. CASE ~Available(x)
    <3>1. \A v \in Providers : ~Available(Chain[v])
      BY <1>10, <2>2 DEF Scored
    <3>2. \A v \in Providers : ~Available(Chain[v])'
      BY <1>9, <1>10, <3>1
    <3> QED
      BY <3>1, <3>2 DEF Scored
  <2> QED
    BY <2>1, <2>2
<1>12. /\ ~Worse(x, n) /\ (q < z => Worse(n, x))
       /\ ~Worse(n, x)' /\ (z < q => Worse(x, n)')
  BY <1>6, <1>7, <1>11 DEF FirstBest
<1> DEFINE a == Score(x).num
           b == Score(x).den
           c == Score(n).num
           d == Score(n).den
           e == Score(n)'.num
           f == Score(n)'.den
<1>13. Score(x)' = Score(x)
  BY <1>4 DEF Score
<1>14. /\ a \in Nat /\ b \in Nat \ {0} /\ c \in Nat /\ d \in Nat \ {0}
       /\ e \in Nat /\ f \in Nat \ {0} /\ c * f <= e * d
  BY <1>1, <1>4, <1>8, ScoreType, FailureRaisesScore
<1>15. /\ Worse(x, n) <=> a * d > c * b
       /\ Worse(n, x) <=> c * b > a * d
       /\ Worse(x, n)' <=> a * f > e * b
       /\ Worse(n, x)' <=> e * b > a * f
  BY <1>13 DEF Worse
<1>16. q \in Nat /\ z \in Nat /\ q # z
  BY <1>4, ProvidersFinite
<1> HIDE DEF a, b, c, d, e, f
<1>17. /\ a * d \in Nat /\ c * b \in Nat /\ a * f \in Nat /\ e * b \in Nat
  BY <1>14
<1>18. a * d <= c * b
  BY <1>12, <1>15, <1>17
<1>19. a * f <= e * b /\ (a * d < c * b => a * f < e * b)
  BY <1>14, <1>18, FractionsTransitive
<1> QED
  BY <1>12, <1>15, <1>16, <1>17, <1>19

\* Recording a failure never makes the router select the provider that
\* failed, in any state and whatever it does to the score and to the breaker.
THEOREM RouterNeverPromotes == RouterSpec => FailureNeverPromotes
<1> DEFINE A == \A p \in Providers :
                  /\ RecordFailure(p) /\ UNCHANGED now
                  /\ \A q \in Providers : Chain[q] = Chain[p] => ~Selects(q)
                  => \A q \in Providers : Chain[q] = Chain[p] => ~Selects(q)'
<1>1. RouterInv => A
  BY FailureDemotes
<1>2. RouterInv /\ [RouterStep]_routerVars => [A]_routerVars
  BY <1>1
<1> HIDE DEF A
<1>3. RouterSpec => [][A]_routerVars
  BY <1>2, RouterKeepsInv, PTL DEF RouterSpec
<1> QED
  BY <1>3 DEF A, FailureNeverPromotes
=============================================================================
