---------------------------- MODULE McpViewProofs ----------------------------
(***************************************************************************)
(* Proofs about McpView for every number of enter/leave cycles and every  *)
(* set of widgets.  The reference count of d->box is a function of the    *)
(* number of enters alone: the first pack sinks the floating reference,   *)
(* every later enter takes one more, and leave's g_object_ref and         *)
(* gtk_container_remove cancel out.                                        *)
(***************************************************************************)
EXTENDS McpView, TLAPS

\* The count after k enters: 1 before the first, k after it.
RefsAfter(k) == IF k = 0 THEN 1 ELSE k

\* TypeOK in two parts: the counters, for the SMT backend, and the flags
\* and sets, for Zenon.
TypeNum == boxRefs \in Nat /\ cycles \in 0..MaxCycles

TypeRest ==
  /\ boxFloating \in BOOLEAN
  /\ boxParent \in {"none", "center"}
  /\ active \in BOOLEAN
  /\ children \subseteq Widgets
  /\ destroyed \subseteq Widgets
  /\ bound \subseteq Widgets
  /\ freed \in BOOLEAN

LEMMA TypeSplit == TypeOK <=> TypeNum /\ TypeRest
BY Zenon DEF TypeOK, TypeNum, TypeRest

\* The inductive invariant: the box floats until the first enter, and its
\* reference count follows the number of enters.
RefsInv ==
  /\ TypeNum
  /\ TypeRest
  /\ boxFloating <=> cycles = 0
  /\ boxRefs = RefsAfter(cycles)

LEMMA RefsInvInit == Init => RefsInv
<1> SUFFICES ASSUME Init PROVE RefsInv
  OBVIOUS
<1>1. TypeNum
  BY MaxCyclesAssumption DEF Init, TypeNum
<1>2. TypeRest
  BY Zenon DEF Init, TypeRest
<1>3. boxFloating <=> cycles = 0
  BY DEF Init
<1>4. boxRefs = RefsAfter(cycles)
  BY DEF Init, RefsAfter
<1>5. QED
  BY <1>1, <1>2, <1>3, <1>4 DEF RefsInv

LEMMA RefsInvStep == RefsInv /\ [Next]_vars => RefsInv'
<1> SUFFICES ASSUME RefsInv, [Next]_vars PROVE RefsInv'
  OBVIOUS
<1>1. CASE Enter
  <2>1. cycles' = cycles + 1 /\ cycles + 1 # 0
    BY <1>1, MaxCyclesAssumption DEF Enter, RefsInv, TypeNum
  <2>2. TypeNum'
    BY <1>1, MaxCyclesAssumption DEF Enter, PackedRefs, RefsInv, TypeNum
  <2>3. TypeRest'
    BY <1>1, Zenon DEF Enter, RefsInv, TypeRest
  <2>4. (boxFloating <=> cycles = 0)'
    BY <1>1, <2>1, Zenon DEF Enter
  <2>5. boxRefs' = RefsAfter(cycles')
    <3>1. CASE cycles = 0
      <4>1. boxFloating
        BY <3>1, Zenon DEF RefsInv
      <4>2. boxRefs' = boxRefs
        BY <1>1, <4>1 DEF Enter, PackedRefs
      <4>3. QED
        BY <2>1, <3>1, <4>2 DEF RefsInv, RefsAfter
    <3>2. CASE cycles # 0
      <4>1. ~boxFloating
        BY <3>2, Zenon DEF RefsInv
      <4>2. boxRefs' = boxRefs + 1
        BY <1>1, <4>1 DEF Enter, PackedRefs
      <4>3. QED
        BY <2>1, <3>2, <4>2, MaxCyclesAssumption DEF RefsInv, TypeNum, RefsAfter
    <3>3. QED
      BY <3>1, <3>2
  <2>6. QED
    BY <2>2, <2>3, <2>4, <2>5 DEF RefsInv
<1>2. CASE Leave
  <2>1. TypeNum' /\ boxRefs' = RefsAfter(cycles')
    BY <1>2 DEF Leave, RefsInv, TypeNum, RefsAfter
  <2>2. TypeRest' /\ (boxFloating <=> cycles = 0)'
    BY <1>2, Zenon DEF Leave, RefsInv, TypeRest
  <2>3. QED
    BY <2>1, <2>2 DEF RefsInv
<1>3. CASE Cleanup
  <2>1. TypeNum' /\ boxRefs' = RefsAfter(cycles')
    BY <1>3 DEF Cleanup, RefsInv, TypeNum, RefsAfter
  <2>2. TypeRest' /\ (boxFloating <=> cycles = 0)'
    BY <1>3, Zenon DEF Cleanup, RefsInv, TypeRest
  <2>3. QED
    BY <2>1, <2>2 DEF RefsInv
<1>4. CASE \E w \in Widgets : SetWidget(w)
  <2>1. PICK w \in Widgets : SetWidget(w)
    BY <1>4
  <2>2. TypeNum' /\ boxRefs' = RefsAfter(cycles')
    BY <2>1 DEF SetWidget, RefsInv, TypeNum, RefsAfter
  <2>3. TypeRest' /\ (boxFloating <=> cycles = 0)'
    BY <2>1, Zenon DEF SetWidget, RefsInv, TypeRest
  <2>4. QED
    BY <2>2, <2>3 DEF RefsInv
<1>5. CASE ShutDown \/ UNCHANGED vars
  BY <1>5 DEF ShutDown, vars, RefsInv, TypeNum, TypeRest, RefsAfter
<1>6. QED
  BY <1>1, <1>2, <1>3, <1>4, <1>5 DEF Next

\* The reference count of d->box is 1 until the first enter and equals the
\* number of enters after it: leave (lines 134-137) never gives back the
\* reference that the next enter's gtk_box_pack_start (line 126) takes.
THEOREM RefsTrackEnters == Spec => [](boxRefs = RefsAfter(cycles))
<1>1. RefsInv => boxRefs = RefsAfter(cycles)
  BY DEF RefsInv
<1>2. QED
  BY <1>1, RefsInvInit, RefsInvStep, PTL DEF Spec

\* BoxAlive: while d exists, d->box holds a reference, so no enter packs a
\* finalized box; it rests on the g_object_ref of leave (line 135).
THEOREM BoxAliveTheorem == Spec => []BoxAlive
<1>1. RefsInv => BoxAlive
  BY DEF RefsInv, TypeNum, RefsAfter, BoxAlive
<1>2. QED
  BY <1>1, RefsInvInit, RefsInvStep, PTL DEF Spec

=============================================================================
