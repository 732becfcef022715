------------------------------ MODULE MCMcpView ------------------------------
(* TLC instance of McpView: the Lua widgets as model values.             *)
EXTENDS McpView

CONSTANTS w1, w2, w3

TwoWidgets == {w1, w2}

ThreeWidgets == {w1, w2, w3}

=============================================================================
