------------------------- MODULE DarktableViewsProofs -------------------------
(***************************************************************************)
(* The switcher's two properties hold in the composition as well: every   *)
(* step of DarktableViews is a step of ViewSwitcher or leaves the          *)
(* switcher's variables alone, so DeskSpec implements ViewSwitcher's Spec  *)
(* and inherits the theorems of ViewSwitcherProofs; every step is also a  *)
(* step of McpView or leaves the view alone, so DeskSpec implements        *)
(* McpView's Spec and inherits those of McpViewProofs.                      *)
(***************************************************************************)
EXTENDS DarktableViews, McpViewProofs, TLAPS

VSP == INSTANCE ViewSwitcherProofs

\* The MCP view's own steps, Lua's set_widget, its cleanup and the
\* shutdown never touch the switcher: the composition refines it.
LEMMA DeskRefinesSwitcher == DeskSpec => VSP!Spec
<1>1. DeskInit => VSP!Init
  BY Zenon DEF DeskInit, VS!Init, VSP!Init, VS!CreatedLabels,
     VSP!CreatedLabels, VS!Labels, VSP!Labels
<1>2. [DeskNext]_allVars => [VSP!Next]_VSP!vars
  <2> SUFFICES ASSUME [DeskNext]_allVars PROVE [VSP!Next]_VSP!vars
    OBVIOUS
  <2>1. CASE VS!Next /\ McpFollows
    BY <2>1 DEF VS!Next, VSP!Next, VS!GuiInit, VSP!GuiInit,
       VS!LeaveNotify, VSP!LeaveNotify, VS!Quit, VSP!Quit,
       VS!GuiCleanup, VSP!GuiCleanup, VS!EnterNotify, VSP!EnterNotify,
       VS!ClickLabel, VSP!ClickLabel, VS!OtherSwitch, VSP!OtherSwitch,
       VS!SwitchTo, VSP!SwitchTo, VS!ViewChanged, VSP!ViewChanged,
       VS!Sensitive, VSP!Sensitive, VS!Labels, VSP!Labels,
       VS!CreatedLabels, VSP!CreatedLabels
  <2>2. CASE ~(VS!Next /\ McpFollows)
    BY <2>2 DEF DeskNext, allVars, switcherVars, VSP!vars
  <2>3. QED
    BY <2>1, <2>2
<1>3. QED
  BY <1>1, <1>2, PTL DEF DeskSpec, VSP!Spec

\* In the composition, only the current view's label is selected: the
\* run views_desk checks it on four views, this for every set of views.
THEOREM DeskSelectedIsCurrent == DeskSpec => []SelectedIsCurrent
<1>1. VSP!Spec => []VSP!SelectedIsCurrent
  BY ViewsAssumption, VSP!SelectedIsCurrentTheorem
<1>2. VSP!SelectedIsCurrent <=> SelectedIsCurrent
  BY DEF VSP!SelectedIsCurrent, SelectedIsCurrent, VS!SelectedIsCurrent,
     VSP!Labels, VS!Labels
<1>3. QED
  BY <1>1, <1>2, DeskRefinesSwitcher, PTL

\* In the composition, the current view's label is never highlighted,
\* whatever the MCP view and the Lua scripts do meanwhile.
THEOREM DeskNoPrelightOnCurrent == DeskSpec => []NoPrelightOnCurrent
<1>1. VSP!Spec => []VSP!NoPrelightOnCurrent
  BY ViewsAssumption, VSP!NoPrelightOnCurrentTheorem
<1>2. VSP!NoPrelightOnCurrent <=> NoPrelightOnCurrent
  BY DEF VSP!NoPrelightOnCurrent, NoPrelightOnCurrent,
     VS!NoPrelightOnCurrent, VSP!Labels, VS!Labels
<1>3. QED
  BY <1>1, <1>2, DeskRefinesSwitcher, PTL

\* The switcher's variables keep their types in the composition.
THEOREM DeskSwitcherTypeOK == DeskSpec => []SwitcherTypeOK
<1>1. VSP!Spec => []VSP!TypeOK
  BY ViewsAssumption, VSP!SwitcherTypeCorrect
<1>2. VSP!TypeOK <=> SwitcherTypeOK
  BY DEF VSP!TypeOK, SwitcherTypeOK, VS!TypeOK, VSP!Labels, VS!Labels,
     VSP!StateFlags, VS!StateFlags
<1>3. QED
  BY <1>1, <1>2, DeskRefinesSwitcher, PTL

-----------------------------------------------------------------------------
(* The MCP view inside the composition.                                     *)

\* The switcher's steps run the view's enter or leave, or leave it alone;
\* Lua, cleanup and shutdown are the view's own steps.
LEMMA DeskRefinesView == DeskSpec => Spec
<1>1. DeskInit => Init
  BY DEF DeskInit
<1>2. [DeskNext]_allVars => [Next]_vars
  <2> SUFFICES ASSUME [DeskNext]_allVars PROVE [Next]_vars
    OBVIOUS
  <2>1. CASE McpFollows
    BY <2>1 DEF McpFollows, Next, vars, viewVars
  <2>2. CASE ~McpFollows
    BY <2>2 DEF DeskNext, Next, allVars, viewVars, vars
  <2>3. QED
    BY <2>1, <2>2
<1>3. QED
  BY <1>1, <1>2, PTL DEF DeskSpec, Spec

\* BoxAlive in the composition: whatever switches the view manager makes,
\* d->box keeps a reference while d exists.
THEOREM DeskBoxAlive == DeskSpec => []BoxAlive
BY DeskRefinesView, BoxAliveTheorem, PTL

\* d->box is packed in the center area exactly while the MCP view is the
\* current view: the view manager runs enter on every switch to it and
\* leave on every switch away, the last one at shutdown included.
BoxInv == boxParent = "center" <=> current = Mcp

LEMMA McpIsView == Mcp # NoView /\ Mcp \in VS!Labels
BY ViewsAssumption DEF VS!Labels

LEMMA BoxInvInit == DeskInit => BoxInv
BY McpIsView DEF DeskInit, Init, VS!Init, BoxInv

LEMMA BoxInvStep == BoxInv /\ [DeskNext]_allVars => BoxInv'
<1> SUFFICES ASSUME BoxInv, [DeskNext]_allVars PROVE BoxInv'
  OBVIOUS
<1>1. CASE current' = current /\ UNCHANGED viewVars
  BY <1>1 DEF BoxInv, viewVars
<1>2. CASE current' # current /\ current = Mcp /\ Leave
  BY <1>2 DEF BoxInv, Leave
<1>3. CASE current' # current /\ current' = Mcp /\ Enter
  BY <1>3 DEF BoxInv, Enter
<1>4. CASE current' # current /\ Mcp \notin {current, current'}
             /\ UNCHANGED viewVars
  BY <1>4 DEF BoxInv, viewVars
<1>5. CASE UNCHANGED switcherVars /\ UNCHANGED boxParent
  BY <1>5 DEF BoxInv, switcherVars
<1>6. QED
  <2>1. CASE VS!Next /\ McpFollows
    BY <2>1, <1>1, <1>2, <1>3, <1>4 DEF McpFollows
  <2>2. CASE ~(VS!Next /\ McpFollows)
    BY <2>2, <1>5 DEF DeskNext, SetWidget, Cleanup, ShutDown, allVars,
       viewVars, vars
  <2>3. QED
    BY <2>1, <2>2

\* McpLabelShowsBox: the MCP label is selected exactly while d->box is in
\* the center area.  It combines the switcher's SelectedIsCurrent with
\* BoxInv, which the view manager's enter and leave calls maintain.
THEOREM DeskMcpLabelShowsBox == DeskSpec => []McpLabelShowsBox
<1>1. DeskSpec => []BoxInv
  BY BoxInvInit, BoxInvStep, PTL DEF DeskSpec
<1>2. SelectedIsCurrent /\ BoxInv => McpLabelShowsBox
  BY McpIsView DEF SelectedIsCurrent, VS!SelectedIsCurrent, BoxInv,
     McpLabelShowsBox
<1>3. QED
  BY <1>1, <1>2, DeskSelectedIsCurrent, PTL
=============================================================================
