\* Five view switches, two of them into the MCP view, with a script
\* swapping two widgets, the pointer moving over the labels, darktable in
\* either launch mode, and a shutdown.
CONSTANTS
  lighttable = lighttable
  darkroom = darkroom
  mcp = mcp
  slideshow = slideshow
  w1 = w1
  w2 = w2
  NoView = NoView
  Views <- FourViews
  Hidden = {slideshow}
  Lighttable = lighttable
  Darkroom = darkroom
  Mcp = mcp
  Widgets <- TwoWidgets
  MaxSwitches = 5
  MaxCycles = 2
SPECIFICATION DeskSpec
INVARIANT SwitcherTypeOK
INVARIANT BoxAlive
INVARIANT SelectedIsCurrent
INVARIANT NoPrelightOnCurrent
INVARIANT McpLabelShowsBox
