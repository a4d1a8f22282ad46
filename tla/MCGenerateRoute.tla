--------------------------- MODULE MCGenerateRoute ---------------------------
(* Few requests for two questions, one of them in two spellings. *)
EXTENDS GenerateRoute, TLC

CONSTANTS hello, Hello, tla

MCPrompts == {hello, Hello, tla}
MCNormal == [q \in MCPrompts |-> IF q = tla THEN "what is tla?" ELSE "hello nexus"]

Symmetry == Permutations(Requests) \cup Permutations({hello, Hello})
=============================================================================
