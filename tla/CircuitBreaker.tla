--------------------------- MODULE CircuitBreaker ---------------------------
(***************************************************************************)
(* What the provider router promises of one breaker per provider name,     *)
(* without counters of requests, latencies or clocks.  A breaker is closed *)
(* until Threshold calls in a row have failed, then open; it becomes half  *)
(* open by cooling down, and only a success closes it again.               *)
(***************************************************************************)
EXTENDS Naturals

CONSTANTS Breakers,     \* the providers' names
          Threshold     \* failures in a row that open a breaker

VARIABLES mode,   \* mode[b]: "closed", "open" or "half_open"
          run     \* run[b]: the failures in a row, counted up to Threshold

vars == <<mode, run>>

TypeOK == /\ mode \in [Breakers -> {"closed", "open", "half_open"}]
          /\ run \in [Breakers -> 0..Threshold]

Init == /\ mode = [b \in Breakers |-> "closed"]
        /\ run = [b \in Breakers |-> 0]

\* A call succeeded, a probe or a late answer alike: the breaker is closed.
Succeed(b) == /\ mode' = [mode EXCEPT ![b] = "closed"]
              /\ run' = [run EXCEPT ![b] = 0]

\* A call failed, and the breaker stays closed.
FailClosed(b) == /\ run[b] + 1 < Threshold
                 /\ run' = [run EXCEPT ![b] = run[b] + 1]
                 /\ UNCHANGED mode

\* A call failed, and the breaker opens, or opens anew.
Trip(b) == /\ run[b] + 1 >= Threshold
           /\ run' = [run EXCEPT ![b] = Threshold]
           /\ mode' = [mode EXCEPT ![b] = "open"]

\* Time passes, and the breakers of B have been open for long enough.
CoolDown(B) == /\ \A b \in B : mode[b] = "open"
               /\ mode' = [b \in Breakers |->
                             IF b \in B THEN "half_open" ELSE mode[b]]
               /\ UNCHANGED run

Next == \/ \E b \in Breakers : Succeed(b) \/ FailClosed(b) \/ Trip(b)
        \/ \E B \in SUBSET Breakers : CoolDown(B)

Spec == Init /\ [][Next]_vars
=============================================================================
