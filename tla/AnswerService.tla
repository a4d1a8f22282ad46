---------------------------- MODULE AnswerService ----------------------------
(***************************************************************************)
(* What the generate endpoint promises of its answers, without caches,     *)
(* clocks or failures: whoever asks a question gets at most one answer,    *)
(* and it was made for that question, for this client or for another.      *)
(***************************************************************************)
CONSTANTS Clients,     \* the requests
          Questions,   \* the normal forms of the prompts
          None         \* neither of them

VARIABLES asked,   \* asked[c]: the question of client c, None before it asks
          made,    \* made[q]: the clients an answer to question q was made for
          got      \* got[c]: whose answer c has got, None if none

vars == <<asked, made, got>>

Init == /\ asked = [c \in Clients |-> None]
        /\ made = [q \in Questions |-> {}]
        /\ got = [c \in Clients |-> None]

Ask(c) == /\ asked[c] = None
          /\ \E q \in Questions : asked' = [asked EXCEPT ![c] = q]
          /\ UNCHANGED <<made, got>>

Make(c) == /\ asked[c] # None
           /\ c \notin made[asked[c]]
           /\ made' = [made EXCEPT ![asked[c]] = @ \cup {c}]
           /\ UNCHANGED <<asked, got>>

Give(c) == /\ asked[c] # None
           /\ got[c] = None
           /\ \E d \in made[asked[c]] : got' = [got EXCEPT ![c] = d]
           /\ UNCHANGED <<asked, made>>

Next == \E c \in Clients : Ask(c) \/ Make(c) \/ Give(c)

Spec == Init /\ [][Next]_vars
=============================================================================
