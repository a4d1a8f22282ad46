---------------------------- MODULE FallbackChain ----------------------------
(***************************************************************************)
(* What the gateway promises to the caller of one request, without clocks, *)
(* breakers or statistics: it calls one provider at a time, each at most   *)
(* Budget times and never again once it has moved on, stops at the first   *)
(* answer, and reports exhaustion only after it has called them all.       *)
(***************************************************************************)
EXTENDS Naturals

CONSTANTS Clients,     \* the requests
          Backends,    \* the providers
          Budget       \* calls one provider may receive for one request

VARIABLES status,    \* status[c]: where request c is
          current,   \* current[c]: the provider request c is calling
          calls      \* calls[c][b]: the calls b has received for c

vars == <<status, current, calls>>

Init == /\ status = [c \in Clients |-> "new"]
        /\ current \in [Clients -> Backends]
        /\ calls = [c \in Clients |-> [b \in Backends |-> 0]]

\* Request c makes its first call to b.
Call(c, b) == /\ calls[c][b] = 0
              /\ current' = [current EXCEPT ![c] = b]
              /\ calls' = [calls EXCEPT ![c][b] = 1]

Begin(c) == /\ status[c] = "new"
            /\ status' = [status EXCEPT ![c] = "trying"]
            /\ \E b \in Backends : Call(c, b)

MoveOn(c) == /\ status[c] = "trying"
             /\ \E b \in Backends : Call(c, b)
             /\ UNCHANGED status

CallAgain(c) == /\ status[c] = "trying"
                /\ calls[c][current[c]] < Budget
                /\ calls' = [calls EXCEPT ![c][current[c]] = @ + 1]
                /\ UNCHANGED <<status, current>>

\* The request ends: with an answer, with an error that is passed on, or
\* because it is given up.
End(c) == /\ status[c] = "trying"
          /\ \E outcome \in {"answered", "rejected", "abandoned"} :
               status' = [status EXCEPT ![c] = outcome]
          /\ UNCHANGED <<current, calls>>

Exhaust(c) == /\ status[c] = "trying"
              /\ \A b \in Backends : calls[c][b] > 0
              /\ status' = [status EXCEPT ![c] = "exhausted"]
              /\ UNCHANGED <<current, calls>>

Next == \E c \in Clients : \/ Begin(c)
                           \/ MoveOn(c)
                           \/ CallAgain(c)
                           \/ End(c)
                           \/ Exhaust(c)

Spec == Init /\ [][Next]_vars
=============================================================================
