------------------------------ MODULE MCGateway ------------------------------
(* Small instances of the gateway. *)
EXTENDS GatewayProperties, TLC

MCTwo == <<"groq", "mistral">>
MCDuplicate == <<"groq", "mistral", "mistral">>

Symmetry == Permutations(Requests)
=============================================================================
