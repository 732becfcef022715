\* A script that calls set_widget again with a widget it passed before.
CONSTANTS
  w1 = w1
  w2 = w2
  w3 = w3
  Widgets <- TwoWidgets
  MaxCycles = 1
SPECIFICATION Spec
INVARIANT ChildrenAlive
