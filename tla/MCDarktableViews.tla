--------------------------- MODULE MCDarktableViews ---------------------------
(* TLC instance of DarktableViews: views and Lua widgets as model values. *)
EXTENDS DarktableViews

CONSTANTS lighttable, darkroom, mcp, slideshow, w1, w2

\* Three views with a label, the MCP view among them, and a hidden one.
FourViews == {lighttable, darkroom, mcp, slideshow}

TwoWidgets == {w1, w2}

=============================================================================
