------------------------------- MODULE McpView -------------------------------
(***************************************************************************)
(* The MCP view of darktable (src/unnamed/part_001): a center view whose  *)
(* only state is d->box, a GtkBox created once in init, packed into the   *)
(* center area on enter and taken out on leave, and filled from Lua by    *)
(* view:set_widget(widget).  Every entry point runs on the GTK thread      *)
(* (set_widget is wrapped by dt_lua_gtk_wrap, line 100), so the model's    *)
(* steps are sequential and the hard part is the order of calls.          *)
(*                                                                         *)
(* The GObject reference count of the box is modelled as GTK defines it:  *)
(* gtk_box_new returns a floating reference, the first container to pack  *)
(* the box sinks it, a later pack takes a new reference, and              *)
(* gtk_container_remove drops the container's reference.  Lua widgets are *)
(* model values; the model tracks which ones the box holds, which ones    *)
(* gtk_widget_destroy has destroyed, and which ones set_widget has bound. *)
(***************************************************************************)
EXTENDS Naturals

CONSTANTS
  Widgets,     \* GTK widgets of Lua widget objects a script may pass
  MaxCycles    \* enter/leave cycles in a behaviour

ASSUME MaxCyclesAssumption == MaxCycles \in Nat

VARIABLES
  boxRefs,     \* GObject reference count of d->box
  boxFloating, \* whether the box still has its floating reference
  boxParent,   \* "none" | "center": the container d->box is packed in
  active,      \* the view manager has entered the view and not left it
  cycles,      \* enters so far
  children,    \* widgets packed in d->box
  destroyed,   \* widgets gtk_widget_destroy has destroyed
  bound,       \* widgets dt_lua_widget_bind keeps from Lua's collector
  freed        \* cleanup has freed d

vars == <<boxRefs, boxFloating, boxParent, active, cycles, children,
          destroyed, bound, freed>>

TypeOK ==
  /\ boxRefs \in Nat
  /\ boxFloating \in BOOLEAN
  /\ boxParent \in {"none", "center"}
  /\ active \in BOOLEAN
  /\ cycles \in 0..MaxCycles
  /\ children \subseteq Widgets
  /\ destroyed \subseteq Widgets
  /\ bound \subseteq Widgets
  /\ freed \in BOOLEAN

\* init, lines 82-90: d->box = gtk_box_new(...), one floating reference.
Init ==
  /\ boxRefs = 1
  /\ boxFloating = TRUE
  /\ boxParent = "none"
  /\ active = FALSE
  /\ cycles = 0
  /\ children = {}
  /\ destroyed = {}
  /\ bound = {}
  /\ freed = FALSE

\* gtk_box_pack_start of the box into a container: sink the floating
\* reference, or take a new one.
PackedRefs == IF boxFloating THEN boxRefs ELSE boxRefs + 1

-----------------------------------------------------------------------------
(* The view's entry points.  The view manager alternates enter and leave  *)
(* on the current view and calls cleanup once at shutdown.                *)

\* enter, lines 114-127: hide the panels and pack d->box into the center.
Enter ==
  /\ ~freed /\ ~active
  /\ cycles < MaxCycles
  /\ boxRefs' = PackedRefs
  /\ boxFloating' = FALSE
  /\ boxParent' = "center"
  /\ active' = TRUE
  /\ cycles' = cycles + 1
  /\ UNCHANGED <<children, destroyed, bound, freed>>

\* Mutant of Leave: the box is removed without the g_object_ref.
Leave_NoRef ==
  /\ active
  /\ active' = FALSE
  /\ IF boxParent = "center"
       THEN /\ boxRefs' = boxRefs - 1
            /\ boxParent' = "none"
       ELSE UNCHANGED <<boxRefs, boxParent>>
  /\ UNCHANGED <<boxFloating, cycles, children, destroyed, bound, freed>>

\* Mutant of Leave: the reference is taken but gtk_container_remove is
\* left out, so the box stays in the center area.
Leave_NoUnpack ==
  /\ active
  /\ active' = FALSE
  /\ IF boxParent = "center"
       THEN /\ boxRefs' = boxRefs + 1
            /\ UNCHANGED boxParent
       ELSE UNCHANGED <<boxRefs, boxParent>>
  /\ UNCHANGED <<boxFloating, cycles, children, destroyed, bound, freed>>

\* leave, lines 130-137: when the box is in the center, take a reference
\* (line 135) and remove it (line 136), which drops the center's one.
Leave ==
  /\ active
  /\ active' = FALSE
  /\ IF boxParent = "center"
       THEN /\ boxRefs' = boxRefs + 1 - 1
            /\ boxParent' = "none"
       ELSE UNCHANGED <<boxRefs, boxParent>>
  /\ UNCHANGED <<boxFloating, cycles, children, destroyed, bound, freed>>

\* set_widget_cb, lines 39-79, for a widget w the script passes: destroy
\* every child of the box (lines 62-66), pack w (line 69) and bind it
\* (line 75).  lua_gettop and the NULL checks (lines 46-56) pass for any
\* widget object; d->box is never NULL after init.
SetWidget(w) ==
  /\ ~freed
  /\ destroyed' = destroyed \cup children
  /\ children' = {w}
  /\ bound' = bound \cup {w}
  /\ UNCHANGED <<boxRefs, boxFloating, boxParent, active, cycles, freed>>

\* cleanup, lines 106-110: free(d); nothing drops the box's references.
Cleanup ==
  /\ ~freed /\ ~active
  /\ freed' = TRUE
  /\ UNCHANGED <<boxRefs, boxFloating, boxParent, active, cycles, children,
                 destroyed, bound>>

\* darktable has shut the view down; nothing more happens.
ShutDown ==
  /\ freed
  /\ UNCHANGED vars

Next ==
  \/ Enter \/ Leave \/ Cleanup \/ ShutDown
  \/ \E w \in Widgets : SetWidget(w)

Spec == Init /\ [][Next]_vars

-----------------------------------------------------------------------------
(* Properties.                                                             *)

\* The box survives every leave: while d exists, d->box holds at least one
\* reference, so the next enter does not pack a finalized widget.  It is
\* the g_object_ref of leave (line 135) that keeps it.
BoxAlive == ~freed => boxRefs >= 1

\* The box never holds a destroyed widget: set_widget (lines 62-69) does
\* not pack a widget that its own loop, or an earlier call, destroyed.
ChildrenAlive == children \cap destroyed = {}

=============================================================================
