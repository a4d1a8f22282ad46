--------------------------- MODULE MCRouterClients ---------------------------
(* The router with two names, one of them configured twice. *)
EXTENDS RouterClients

MCChain == <<"groq", "mistral", "mistral">>
MCLatencies == {0, 1, 3}
=============================================================================
