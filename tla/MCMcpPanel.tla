------------------------------ MODULE MCMcpPanel ------------------------------
(* TLC instance of McpPanel: images and status messages as model values.  *)
EXTENDS McpPanel

CONSTANTS i1, m1

OneImage == {i1}

OneMessage == {m1}

=============================================================================
