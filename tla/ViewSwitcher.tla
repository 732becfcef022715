----------------------------- MODULE ViewSwitcher -----------------------------
(***************************************************************************)
(* The view switcher of the top panel (src/src/libs/tools/viewswitcher.c): *)
(* one label per view that is not hidden, highlighted while the pointer    *)
(* rests on it, selected while its view is darktable's current view, and  *)
(* a click on it asks darktable to switch to its view.                     *)
(*                                                                         *)
(* Every callback runs on the GTK thread, one at a time.  The GTK state   *)
(* flags of a label are a set: gtk_widget_set_state_flags(l, f, FALSE)    *)
(* adds f, with TRUE it replaces them by f (GTK_STATE_FLAG_NORMAL is the  *)
(* empty set), gtk_widget_unset_state_flags removes f.                     *)
(*                                                                         *)
(* The view manager is the environment of the module: it switches views,  *)
(* on a click or for any other reason (a shortcut, a script, another       *)
(* module), and raises DT_SIGNAL_VIEWMANAGER_VIEW_CHANGED on the GTK       *)
(* thread once the new view is current; at shutdown it leaves the last    *)
(* view and then runs the modules' gui_cleanup.  A switch it refuses      *)
(* raises VIEW_CANNOT_CHANGE, whose callback (lines 144-149) does nothing: *)
(* it is a stuttering step and is not written out.  Labels and views are  *)
(* one-to-one (each label's "view-label" data is its view's name), so a    *)
(* label is named by its view.  The separators of lines 111-117 and the    *)
(* label texts are layout, left out.                                       *)
(***************************************************************************)
EXTENDS Naturals

CONSTANTS
  Views,       \* darktable.view_manager->views
  Hidden,      \* the views whose flags() has VIEW_FLAGS_HIDDEN
  Lighttable,  \* the view whose module_name is "lighttable"
  Darkroom,    \* the view whose module_name is "darkroom"
  MaxSwitches, \* view switches in a behaviour
  NoView       \* no current view: before the first switch, after the last

\* The views that get a label: gui_init skips the hidden ones (lines 86-88).
Labels == Views \ Hidden

StateFlags == {"prelight", "selected"}

VARIABLES
  d,           \* self->data: "none" before gui_init, "ready", "freed"
  gimping,     \* dt_check_gimpmode("file"): darktable runs as GIMP's loader
  flags,       \* [Labels -> SUBSET StateFlags]: GTK state of each label
  pointer,     \* the label whose event box holds the pointer, or NoView
  current,     \* the view manager's current view, or NoView
  switches,    \* view switches so far
  quit         \* darktable is shutting down

vars == <<d, gimping, flags, pointer, current, switches, quit>>

TypeOK ==
  /\ d \in {"none", "ready", "freed"}
  /\ gimping \in BOOLEAN
  /\ flags \in [Labels -> SUBSET StateFlags]
  /\ pointer \in Labels \cup {NoView}
  /\ current \in Views \cup {NoView}
  /\ switches \in 0..MaxSwitches
  /\ quit \in BOOLEAN

\* Whether a label's event box takes clicks, lines 90-107: the lighttable
\* and every view but the darkroom are insensitive when darktable runs as
\* GIMP's raw loader.
Sensitive(v) == v = Darkroom \/ ~gimping

\* _lib_viewswitcher_create_label, lines 168-195: every label starts with
\* no state flag (line 177).
CreatedLabels == [v \in Labels |-> {}]

\* The mode GIMP launches darktable in is fixed for the process.
Init ==
  /\ d = "none"
  /\ gimping \in BOOLEAN
  /\ flags = CreatedLabels
  /\ pointer = NoView
  /\ current = NoView
  /\ switches = 0
  /\ quit = FALSE

-----------------------------------------------------------------------------
(* The module's handlers.                                                  *)

\* gui_init, lines 73-125: allocate d, create and pack a label for every
\* view that is not hidden, and connect the two view manager signals.
\* darktable runs it before it enters the first view.
GuiInit ==
  /\ d = "none"
  /\ d' = "ready"
  /\ flags' = CreatedLabels
  /\ UNCHANGED <<gimping, pointer, current, switches, quit>>

\* Mutant of the enter branch: the strcmp against the current view's name
\* is dropped, so the current view's label is highlighted too.
EnterNotify_NoCompare(v) ==
  /\ d = "ready" /\ ~quit
  /\ pointer = NoView
  /\ pointer' = v
  /\ flags' = [flags EXCEPT ![v] = @ \cup {"prelight"}]
  /\ UNCHANGED <<d, gimping, current, switches, quit>>

\* _lib_viewswitcher_enter_leave_notify_callback, lines 132-142, on
\* GDK_ENTER_NOTIFY: highlight the label unless it names the current view.
EnterNotify(v) ==
  /\ d = "ready" /\ ~quit
  /\ pointer = NoView
  /\ pointer' = v
  /\ flags' = [flags EXCEPT ![v] = IF v # current THEN @ \cup {"prelight"}
                                                   ELSE @ \ {"prelight"}]
  /\ UNCHANGED <<d, gimping, current, switches, quit>>

\* The same callback on GDK_LEAVE_NOTIFY: drop the highlight.
LeaveNotify ==
  /\ d = "ready" /\ ~quit
  /\ pointer # NoView
  /\ pointer' = NoView
  /\ flags' = [flags EXCEPT ![pointer] = @ \ {"prelight"}]
  /\ UNCHANGED <<d, gimping, current, switches, quit>>

\* Mutant of ViewChanged: the loop runs over every view of the view
\* manager instead of d->labels.
ViewChanged_AllViews(name) ==
  [v \in Views |-> IF v = name THEN {"selected"} ELSE {}]

\* Mutant of ViewChanged: the label of old_view, the view just left, is
\* the one selected.
ViewChanged_OldView(name) ==
  [v \in Labels |-> IF v = current THEN {"selected"} ELSE {}]

\* _lib_viewswitcher_view_changed_callback, lines 151-166: the label named
\* like the current view becomes SELECTED and every other one NORMAL, each
\* with clear = TRUE, which also drops a highlight.
ViewChanged(name) ==
  [v \in Labels |-> IF v = name THEN {"selected"} ELSE {}]

\* The view manager makes w current and raises VIEW_CHANGED, whose
\* callback runs while d is allocated.
SwitchTo(w) ==
  /\ d = "ready" /\ ~quit
  /\ switches < MaxSwitches
  /\ w # current
  /\ current' = w
  /\ switches' = switches + 1
  /\ flags' = ViewChanged(w)
  /\ UNCHANGED <<d, gimping, pointer, quit>>

\* _lib_viewswitcher_button_press_callback and _switch_view, lines
\* 197-209: a primary click on a sensitive label asks for its view.  A
\* click on the current view's label goes to dt_ctl_switch_mode_to, which
\* this repository does not hold; whatever switch it makes is one of the
\* OtherSwitch steps.  Other buttons return FALSE and change nothing.
ClickLabel(v) ==
  /\ pointer = v
  /\ Sensitive(v)
  /\ SwitchTo(v)

\* The view manager switches for any other reason, to any view, hidden or
\* not.
OtherSwitch(w) == SwitchTo(w)

\* Shutdown: the view manager leaves the current view; no VIEW_CHANGED.
Quit ==
  /\ ~quit
  /\ quit' = TRUE
  /\ current' = NoView
  /\ UNCHANGED <<d, gimping, flags, pointer, switches>>

\* gui_cleanup, lines 127-130: free d.  darktable disconnects the module's
\* signal handlers when it unloads the module.
GuiCleanup ==
  /\ quit /\ d = "ready"
  /\ d' = "freed"
  /\ UNCHANGED <<gimping, flags, pointer, current, switches, quit>>

Next ==
  \/ GuiInit \/ LeaveNotify \/ Quit \/ GuiCleanup
  \/ \E v \in Labels : EnterNotify(v) \/ ClickLabel(v)
  \/ \E w \in Views : OtherSwitch(w)

Spec == Init /\ [][Next]_vars

-----------------------------------------------------------------------------
(* Properties.                                                             *)

\* While a view is current, the label of that view and no other is shown
\* selected: view_changed (lines 159-165) must clear the label of the view
\* left, whatever clicks, shortcuts and pointer moves came before.
SelectedIsCurrent ==
  current # NoView =>
    \A v \in Labels : "selected" \in flags[v] <=> v = current

\* The label of the current view is never highlighted, as the comment of
\* line 135 intends: neither by entering it (line 137) nor by hovering a
\* label and then switching to its view, by a click or otherwise.
NoPrelightOnCurrent ==
  \A v \in Labels : "prelight" \in flags[v] => v # current

=============================================================================
