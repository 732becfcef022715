--------------------------- MODULE MCMcpBridgeV1 ---------------------------
(* Model-checking instance of McpBridgeV1: producers are model values.    *)
EXTENDS McpBridgeV1, TLC

CONSTANTS c1, c2

OneClient == {c1}

TwoClients == {c1, c2}

ClientSymmetry == Permutations(Clients)
=============================================================================
