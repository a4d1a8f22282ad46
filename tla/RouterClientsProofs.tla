------------------------- MODULE RouterClientsProofs -------------------------
(***************************************************************************)
(* The clients do nothing to the router but what RouterSpec allows, so     *)
(* everything proved of RouterSpec holds under them, for every set of      *)
(* latencies and every bound.                                              *)
(***************************************************************************)
EXTENDS RouterClients, ProviderRouterProofs

\* Whatever the clients report, they drive the router by its two operations
\* and the clock only.
THEOREM ClientsDriveRouter == Spec => RouterSpec
<1>1. Init => RouterInit
  BY DEF Init
<1>2. [Next]_routerVars => [RouterStep]_routerVars
  BY ClientsAssumption DEF Next, Fails, Succeeds, Tick, RouterStep
<1> QED
  BY <1>1, <1>2, PTL DEF Spec, RouterSpec

\* The statistics of every name have their types and agree with each other in
\* every state: no client, however late, makes the router lose a request or
\* leaves a breaker open without the time at which it may be probed.
THEOREM RouterInvariant == Spec => [](TypeOK /\ StatsConsistent)
<1>1. RouterInv => TypeOK /\ StatsConsistent
  BY DEF RouterInv, TypeOK
<1> QED
  BY <1>1, ClientsDriveRouter, RouterKeepsInv, PTL

\* The statistics always have their types.
COROLLARY RouterTypes == Spec => []TypeOK
<1>1. TypeOK /\ StatsConsistent => TypeOK
  OBVIOUS
<1> QED
  BY <1>1, RouterInvariant, PTL

\* Under any clients the router implements the abstract breaker: consecutive
\* failures open it, the clock half-opens it, and only a success closes it.
THEOREM RouterImplementsBreaker == Spec => ImplementsBreaker
  BY ClientsDriveRouter, RouterRefinesBreaker

\* Under any clients select_provider has one result.
THEOREM SelectionAlwaysUnique == Spec => []SelectionIsUnique
  BY ClientsDriveRouter, RouterSelectsOne

\* Under any clients no provider is selected that an available one surpasses
\* in both average latency and success rate.
THEOREM NoneSelectedDominated == Spec => []SelectedNotDominated
  BY ClientsDriveRouter, RouterSelectsUndominated

\* Under any clients a failure never makes the router select the provider that
\* failed.
THEOREM FailuresNeverPromote == Spec => FailureNeverPromotes
  BY ClientsDriveRouter, RouterNeverPromotes
=============================================================================
