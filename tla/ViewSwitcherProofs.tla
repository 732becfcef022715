-------------------------- MODULE ViewSwitcherProofs --------------------------
(***************************************************************************)
(* Proofs about ViewSwitcher for every set of views, hidden or not, and   *)
(* every number of switches.  The switcher's two safety properties rest   *)
(* on one fact of the code: view_changed (lines 159-165) sets the flags    *)
(* of every label with clear = TRUE, so after a switch the flags are a    *)
(* function of the new view alone, whatever clicks and pointer moves came *)
(* before.                                                                 *)
(***************************************************************************)
EXTENDS ViewSwitcher, TLAPS

\* TypeOK in two parts: the counter, for the SMT backend, and the rest,
\* for Zenon.
TypeNum == switches \in 0..MaxSwitches

TypeRest ==
  /\ d \in {"none", "ready", "freed"}
  /\ gimping \in BOOLEAN
  /\ flags \in [Labels -> SUBSET StateFlags]
  /\ pointer \in Labels \cup {NoView}
  /\ current \in Views \cup {NoView}
  /\ quit \in BOOLEAN

LEMMA TypeSplit == TypeOK <=> TypeNum /\ TypeRest
BY Zenon DEF TypeOK, TypeNum, TypeRest

\* The inductive invariant: no view is current before gui_init, and the
\* two properties.  SelectedIsCurrent alone is not inductive: GuiInit
\* clears the flags, which is sound only because no view is current yet.
SwitcherInv ==
  /\ TypeNum
  /\ TypeRest
  /\ d = "none" => current = NoView
  /\ SelectedIsCurrent
  /\ NoPrelightOnCurrent

LEMMA SwitcherInvInit ==
  ASSUME NoView \notin Views, MaxSwitches \in Nat
  PROVE  Init => SwitcherInv
<1> SUFFICES ASSUME Init PROVE SwitcherInv
  OBVIOUS
<1>1. TypeNum
  BY DEF Init, TypeNum
<1>2. TypeRest
  BY Zenon DEF Init, TypeRest, CreatedLabels
<1>3. SelectedIsCurrent
  BY DEF Init, SelectedIsCurrent
<1>4. NoPrelightOnCurrent
  BY DEF Init, NoPrelightOnCurrent, CreatedLabels
<1>5. QED
  BY <1>1, <1>2, <1>3, <1>4 DEF Init, SwitcherInv

\* A switch, by a click or otherwise, re-establishes the invariant: the
\* new flags are ViewChanged(w), whoever was current before.
LEMMA SwitchToStep ==
  ASSUME NoView \notin Views, MaxSwitches \in Nat,
         NEW w \in Views, SwitcherInv, SwitchTo(w)
  PROVE  SwitcherInv'
<1>1. TypeNum'
  BY DEF SwitcherInv, TypeNum, SwitchTo
<1>2. TypeRest'
  <2>1. ViewChanged(w) \in [Labels -> SUBSET StateFlags]
    BY Zenon DEF ViewChanged, StateFlags
  <2>2. QED
    BY <2>1, Zenon DEF SwitcherInv, TypeRest, SwitchTo
<1>3. SelectedIsCurrent'
  BY DEF SwitchTo, ViewChanged, SelectedIsCurrent
<1>4. NoPrelightOnCurrent'
  BY DEF SwitchTo, ViewChanged, NoPrelightOnCurrent
<1>5. (d = "none" => current = NoView)'
  BY DEF SwitchTo
<1>6. QED
  BY <1>1, <1>2, <1>3, <1>4, <1>5 DEF SwitcherInv

LEMMA SwitcherInvStep ==
  ASSUME NoView \notin Views, MaxSwitches \in Nat
  PROVE  SwitcherInv /\ [Next]_vars => SwitcherInv'
<1> SUFFICES ASSUME SwitcherInv, [Next]_vars PROVE SwitcherInv'
  OBVIOUS
<1>1. CASE GuiInit
  <2>1. current = NoView /\ current' = NoView
    BY <1>1 DEF GuiInit, SwitcherInv
  <2>2. TypeNum'
    BY <1>1 DEF GuiInit, SwitcherInv, TypeNum
  <2>3. TypeRest'
    BY <1>1, Zenon DEF GuiInit, SwitcherInv, TypeRest, CreatedLabels
  <2>4. NoPrelightOnCurrent'
    BY <1>1 DEF GuiInit, CreatedLabels, NoPrelightOnCurrent
  <2>5. QED
    BY <1>1, <2>1, <2>2, <2>3, <2>4 DEF GuiInit, SwitcherInv,
       SelectedIsCurrent
<1>2. ASSUME NEW v \in Labels, EnterNotify(v) PROVE SwitcherInv'
  <2>1. TypeNum'
    BY <1>2 DEF EnterNotify, SwitcherInv, TypeNum
  <2>2. TypeRest'
    BY <1>2, Zenon DEF EnterNotify, SwitcherInv, TypeRest, StateFlags
  <2>3. SelectedIsCurrent'
    BY <1>2 DEF EnterNotify, SwitcherInv, TypeRest, SelectedIsCurrent
  <2>4. NoPrelightOnCurrent'
    BY <1>2 DEF EnterNotify, SwitcherInv, TypeRest, NoPrelightOnCurrent
  <2>5. QED
    BY <1>2, <2>1, <2>2, <2>3, <2>4 DEF EnterNotify, SwitcherInv
<1>3. CASE LeaveNotify
  <2>1. pointer \in Labels
    BY <1>3 DEF LeaveNotify, SwitcherInv, TypeRest
  <2>2. TypeNum'
    BY <1>3 DEF LeaveNotify, SwitcherInv, TypeNum
  <2>3. TypeRest'
    BY <1>3, <2>1, Zenon DEF LeaveNotify, SwitcherInv, TypeRest
  <2>4. SelectedIsCurrent'
    BY <1>3, <2>1 DEF LeaveNotify, SwitcherInv, TypeRest, SelectedIsCurrent
  <2>5. NoPrelightOnCurrent'
    BY <1>3, <2>1 DEF LeaveNotify, SwitcherInv, TypeRest,
       NoPrelightOnCurrent
  <2>6. QED
    BY <1>3, <2>2, <2>3, <2>4, <2>5 DEF LeaveNotify, SwitcherInv
<1>4. ASSUME NEW v \in Labels, ClickLabel(v) PROVE SwitcherInv'
  BY <1>4, SwitchToStep DEF ClickLabel, Labels
<1>5. ASSUME NEW w \in Views, OtherSwitch(w) PROVE SwitcherInv'
  BY <1>5, SwitchToStep DEF OtherSwitch
<1>6. CASE Quit
  <2>1. TypeNum'
    BY <1>6 DEF Quit, SwitcherInv, TypeNum
  <2>2. TypeRest'
    BY <1>6, Zenon DEF Quit, SwitcherInv, TypeRest
  <2>3. NoPrelightOnCurrent'
    BY <1>6 DEF Quit, SwitcherInv, NoPrelightOnCurrent, Labels
  <2>4. QED
    BY <1>6, <2>1, <2>2, <2>3 DEF Quit, SwitcherInv, SelectedIsCurrent
<1>7. CASE GuiCleanup
  <2>1. TypeRest'
    BY <1>7, Zenon DEF GuiCleanup, SwitcherInv, TypeRest
  <2>2. QED
    BY <1>7, <2>1 DEF GuiCleanup, SwitcherInv, TypeNum, SelectedIsCurrent,
       NoPrelightOnCurrent
<1>8. CASE UNCHANGED vars
  BY <1>8 DEF vars, SwitcherInv, TypeNum, TypeRest, SelectedIsCurrent,
     NoPrelightOnCurrent
<1>9. QED
  BY <1>1, <1>2, <1>3, <1>4, <1>5, <1>6, <1>7, <1>8 DEF Next

\* The switcher's variables keep their types in every behaviour of its
\* callbacks and of the view manager.
THEOREM SwitcherTypeCorrect ==
  ASSUME NoView \notin Views, MaxSwitches \in Nat
  PROVE  Spec => []TypeOK
<1>1. Init => SwitcherInv
  BY SwitcherInvInit
<1>2. SwitcherInv /\ [Next]_vars => SwitcherInv'
  BY SwitcherInvStep
<1>3. SwitcherInv => TypeOK
  BY TypeSplit DEF SwitcherInv
<1>4. QED
  BY <1>1, <1>2, <1>3, PTL DEF Spec

\* The switcher shows exactly the current view's label selected, in every
\* behaviour of its callbacks and of the view manager: the run
\* views_desk checks it on four views, this for every set of views.
THEOREM SelectedIsCurrentTheorem ==
  ASSUME NoView \notin Views, MaxSwitches \in Nat
  PROVE  Spec => []SelectedIsCurrent
<1>1. Init => SwitcherInv
  BY SwitcherInvInit
<1>2. SwitcherInv /\ [Next]_vars => SwitcherInv'
  BY SwitcherInvStep
<1>3. SwitcherInv => SelectedIsCurrent
  BY DEF SwitcherInv
<1>4. QED
  BY <1>1, <1>2, <1>3, PTL DEF Spec

\* The enter-notify callback and view_changed never leave the current
\* view's label highlighted, whatever the order of pointer moves and
\* switches.
THEOREM NoPrelightOnCurrentTheorem ==
  ASSUME NoView \notin Views, MaxSwitches \in Nat
  PROVE  Spec => []NoPrelightOnCurrent
<1>1. Init => SwitcherInv
  BY SwitcherInvInit
<1>2. SwitcherInv /\ [Next]_vars => SwitcherInv'
  BY SwitcherInvStep
<1>3. SwitcherInv => NoPrelightOnCurrent
  BY DEF SwitcherInv
<1>4. QED
  BY <1>1, <1>2, <1>3, PTL DEF Spec

=============================================================================
