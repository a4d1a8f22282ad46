------------------------------ MODULE SharedPool ------------------------------
(***************************************************************************)
(* What HTTPClientPool promises the calls that share it (llm/http/         *)
(* client.py, "Bounded connection concurrency"): it is opened once, no     *)
(* more users than connections exchange anything at a time, nobody is      *)
(* served without a connection, and it is closed once and for ever, with   *)
(* nobody in it.                                                           *)
(***************************************************************************)
EXTENDS Naturals, FiniteSets

CONSTANTS Users,      \* whoever makes calls
          Capacity    \* the connections

VARIABLES state,    \* of the pool
          place,    \* place[u]: where user u is
          served    \* the users whose last call has brought a response

vars == <<state, place, served>>

Connected == {u \in Users : place[u] = "connected"}

Init == /\ state = "unopened"
        /\ place = [u \in Users |-> "outside"]
        /\ served = {}

Open == /\ state = "unopened"
        /\ state' = "open"
        /\ UNCHANGED <<place, served>>

\* The users' calls: none into a pool that is not open.
Enter(u) == /\ state = "open"
            /\ place[u] = "outside"
            /\ place' = [place EXCEPT ![u] = "queued"]
            /\ served' = served \ {u}
            /\ UNCHANGED state

Connect(u) == /\ place[u] = "queued"
              /\ Cardinality(Connected) < Capacity
              /\ place' = [place EXCEPT ![u] = "connected"]
              /\ UNCHANGED <<state, served>>

Receive(u) == /\ place[u] = "connected"
              /\ place' = [place EXCEPT ![u] = "outside"]
              /\ served' = served \cup {u}
              /\ UNCHANGED state

\* The call fails or its time is up, before or after it has a connection.
GiveUp(u) == /\ place[u] # "outside"
             /\ place' = [place EXCEPT ![u] = "outside"]
             /\ UNCHANGED <<state, served>>

Forget(u) == /\ place[u] = "outside"
             /\ served' = served \ {u}
             /\ UNCHANGED <<state, place>>

Close == /\ state = "open"
         /\ \A u \in Users : place[u] = "outside"
         /\ state' = "closed"
         /\ UNCHANGED <<place, served>>

Next == \/ Open
        \/ \E u \in Users : \/ Enter(u)
                            \/ Connect(u)
                            \/ Receive(u)
                            \/ GiveUp(u)
                            \/ Forget(u)
        \/ Close

Spec == Init /\ [][Next]_vars
=============================================================================
