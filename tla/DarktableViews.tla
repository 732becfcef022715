---------------------------- MODULE DarktableViews ----------------------------
(***************************************************************************)
(* The view switcher and the MCP view together, as the view manager       *)
(* drives them.  The MCP view (src/unnamed/part_001) sets no flags(), so   *)
(* it has a label in the switcher.  A switch away from it runs its leave,  *)
(* a switch to it runs its enter, and then VIEW_CHANGED reaches the        *)
(* switcher, all in one step of the GTK thread; at shutdown the view      *)
(* manager leaves the last view, the switcher's gui_cleanup runs, and     *)
(* the view's cleanup frees d.  Lua scripts call set_widget at any time.  *)
(***************************************************************************)
EXTENDS McpView

CONSTANTS Views, Hidden, Lighttable, Darkroom, MaxSwitches, NoView, Mcp

VARIABLES d, gimping, flags, pointer, current, switches, quit

VS == INSTANCE ViewSwitcher

ASSUME ViewsAssumption ==
  /\ {Lighttable, Darkroom, Mcp} \subseteq Views \ Hidden
  /\ NoView \notin Views
  /\ MaxSwitches \in Nat

viewVars == <<boxRefs, boxFloating, boxParent, active, cycles, children,
              destroyed, bound, freed>>

switcherVars == <<d, gimping, flags, pointer, current, switches, quit>>

allVars == <<viewVars, switcherVars>>

\* What a step of the switcher, or of the view manager, does to the MCP
\* view: leave it when it stops being current, enter it when it becomes
\* current.
McpFollows ==
  \/ current' = current /\ UNCHANGED viewVars
  \/ current' # current /\ current = Mcp /\ Leave
  \/ current' # current /\ current' = Mcp /\ Enter
  \/ current' # current /\ Mcp \notin {current, current'} /\ UNCHANGED viewVars

DeskInit == Init /\ VS!Init

DeskNext ==
  \/ VS!Next /\ McpFollows
  \/ \E w \in Widgets : SetWidget(w) /\ UNCHANGED switcherVars
  \/ quit /\ Cleanup /\ UNCHANGED switcherVars
  \/ d = "freed" /\ ShutDown /\ UNCHANGED switcherVars

DeskSpec == DeskInit /\ [][DeskNext]_allVars

-----------------------------------------------------------------------------
(* Properties.                                                             *)

\* The switcher's variables keep their types (ViewSwitcher's TypeOK).
SwitcherTypeOK == VS!TypeOK

\* ViewSwitcher's SelectedIsCurrent: only the current view's label is
\* selected, now that the MCP view's enter and leave run in the switches.
SelectedIsCurrent == VS!SelectedIsCurrent

\* ViewSwitcher's NoPrelightOnCurrent: the current view's label is never
\* highlighted.
NoPrelightOnCurrent == VS!NoPrelightOnCurrent

\* The switcher tells the truth about the MCP view: its label is selected
\* exactly while d->box is packed in the center area, across enter and
\* leave (part_001 lines 114-137) and view_changed (viewswitcher.c lines
\* 151-166).
McpLabelShowsBox ==
  current # NoView =>
    ("selected" \in flags[Mcp] <=> boxParent = "center")

=============================================================================
