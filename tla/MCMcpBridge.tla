---------------------------- MODULE MCMcpBridge ----------------------------
(* Model-checking instance of McpBridge: producers are model values.      *)
EXTENDS McpBridge, TLC

CONSTANTS c1, c2

\* One producer: the single-flight path of spec.md 3.
OneClient == {c1}

\* Two producers sharing cmd.json and response.json.
TwoClients == {c1, c2}

\* Producers are interchangeable.
ClientSymmetry == Permutations(Clients)
=============================================================================
