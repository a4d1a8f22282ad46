---------------------------- MODULE RouterClients ----------------------------
(***************************************************************************)
(* The provider router under arbitrary clients: calls that started at any  *)
(* time, in any number, report their success or failure in any order, late *)
(* results of providers whose breaker has opened meanwhile included.       *)
(***************************************************************************)
EXTENDS ProviderRouter

CONSTANTS Latencies,     \* the latencies calls may have, in ticks
          MaxRequests,   \* bound: calls recorded per name
          MaxTime        \* bound: the clock stops here

ASSUME ClientsAssumption == /\ Latencies \subseteq Nat
                            /\ MaxRequests \in Nat
                            /\ MaxTime \in Nat

Init == RouterInit

Succeeds(p, latency) == /\ stats[Chain[p]].requests < MaxRequests
                        /\ RecordSuccess(p, latency)
                        /\ UNCHANGED now

Fails(p) == /\ stats[Chain[p]].requests < MaxRequests
            /\ RecordFailure(p)
            /\ UNCHANGED now

Tick == /\ now < MaxTime
        /\ now' = now + 1
        /\ UNCHANGED stats

Next == \/ \E p \in Providers : Fails(p)
        \/ \E p \in Providers, latency \in Latencies : Succeeds(p, latency)
        \/ Tick

Spec == Init /\ [][Next]_routerVars

-----------------------------------------------------------------------------
\* Properties

\* Every statistic has its type.
TypeOK == RouterTypeOK
=============================================================================
