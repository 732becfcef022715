# Formal models of the darktable MCP bridge

This directory holds TLA+ models of the bridge between darktable and the
Python "MCP server". There are TLC configurations that check the models on
small instances and TLAPS proofs that cover every instance. The code is the
Lua script `dt_mcp_bridge.lua`, in two versions: the current one is
`src/unnamed/part_002` and the first one is
`src/tools/mcp-server/dt_mcp_bridge.lua`. There are also two C modules:
the MCP view `src/unnamed/part_001`, and the view switcher
`src/src/libs/tools/viewswitcher.c`, whose labels switch darktable between
its views, the MCP view among them. The natural-language specification is `spec.md`.

## 1. The system

### Components and their state

| Component | Source | State | Operations |
|---|---|---|---|
| Command mailbox poller (v2) | part_002 242-308 | files `mcp/cmd.json`, `processing.json`, `response.json.tmp`, `response.json` | `process_commands`, run every 250 ms by `dt.register_event("mcp_poller", ...)` |
| Command registry | part_002 154-221 | table `commands`, fixed at load | `set_rating`, `set_color_label`, `attach_tag`, `get_selection`, `apply_style`, called under `pcall` |
| JSON codec | part_002 25-150 | none | `json.encode`, `json.decode` |
| AI assistant panel | part_002 359-497 | widgets; files `gui_request_<time>.json` (written), `gui_status.json` (read) | button callbacks, `check_status` |
| Cloud sync storage | part_002 311-356 | files `upload_<time>_<id>.json` | storage callback per exported image |
| Legacy poller (v1) | tools/mcp-server/dt_mcp_bridge.lua | `cmd.json`, `response.json` | `check_command` |
| MCP view | part_001 | `d->box` and its children, GTK reference counts | `init`, `enter`, `leave`, `cleanup`, `set_widget` |
| View switcher | src/src/libs/tools/viewswitcher.c | one label per view, with its GTK state flags (selected, prelight) | `gui_init`, enter/leave notify, view-changed callback, button press, `gui_cleanup` |
| Python MCP server | not in the repository | — | writes `cmd.json`, reads and deletes `response.json`, consumes GUI requests, writes `gui_status.json` |
| Installer | tools/mcp-server/install.sh | — | provisioning |

### How the components interact

The components share no memory. They interact only through files in
`~/.config/darktable/mcp/`.

In the code, the roles on the command path are the reverse of spec.md's
"frontend/backend" wording. The Python server writes a request into
`cmd.json`. The Lua poller inside darktable then does these steps:

1. It claims the request with `os.rename(cmd.json, processing.json)`.
2. It reads and decodes the request.
3. It dispatches the request to a handler under `pcall`.
4. It writes the response to `response.json.tmp`.
5. It renames the temp file to `response.json`.
6. It removes `processing.json`.

The Python server then polls `response.json`, reads it and deletes it.

Both paths are fixed single slots. Nothing in a response identifies the
request it answers.

The AI panel sends requests the other way. It writes
`gui_request_<os.time()>.json` for the Python watcher to consume. It shows
the status that the Python server writes to `gui_status.json`.

### What is hard

- **Interleaving of two processes on shared files.** The Python producer
  creates `cmd.json` and then writes into it. The poller can claim the file
  between those two steps, and it then reads an empty file. Two producers
  share both slots.
- **Crashes.** darktable can die between any two steps of
  `process_commands`, and nothing recovers the files it leaves behind.
- **Partial failure.** `write_file` returns silently when `io.open` fails.
  The rename that follows either fails, so the response is lost, or it
  publishes an old temp file.
- **Timeouts.** A producer that gives up leaves its response to be read by
  its next request.
- **Same-second names.** `os.time()` has a resolution of one second, so GUI
  and upload requests made within the same second collide.

### What makes each component correct

- **Mailbox:**
  - each request is dispatched at most once;
  - a reader never sees a half-written response;
  - every response read answers the request its reader waits for;
  - every claimed request is answered or stays recoverable.
- **Codec:** `decode(encode(v)) = v`, and a decode error never escapes
  uncaught.
- **Panel:** every click produces a distinct request file, and a stale
  status is not shown as current.
- **View:** reference counts are balanced over enter and leave, and
  `set_widget` never packs a destroyed widget.
- **View switcher:** exactly the current view's label is selected, the
  current view's label is never highlighted, and the MCP label is
  selected exactly while the MCP view's box is shown.

## 2. Modules

| Module | Models | Status |
|---|---|---|
| `McpBridge` | the v2 poller `process_commands` (part_002 242-308) and the Python producer (spec.md 4.2/4.4, spec-modelled) | done |
| `RequestLifecycle` | the abstract per-request lifecycle that spec.md 3 and 8 promise: submit, run, answer, take (spec-level) | done |
| `McpBridgeProofs` | TLAPS proofs about `McpBridge`, including its refinement of `RequestLifecycle` | done |
| `MCMcpBridge` | TLC instance: the producers as model values | done |
| `McpBridgeV1` | the v1 poller `check_command` (dt_mcp_bridge.lua 60-140) and the same producer | done |
| `MCMcpBridgeV1` | TLC instance of `McpBridgeV1` | done |
| `McpBridgeV1Proofs` | TLAPS proofs about `McpBridgeV1` | done |
| `McpView` | the C view `part_001`: `init`, `enter`, `leave`, `cleanup`, `set_widget` | done |
| `McpViewProofs` | TLAPS proofs about `McpView` | done |
| `MCMcpView` | TLC instance: Lua widgets as model values | done |
| `McpPanel` | the panel's request files and `check_status`, the storage's upload files (part_002 311-497), and the Python watcher and status writer (spec-modelled) | done |
| `MCMcpPanel` | TLC instance: images and messages as model values | done |
| `ViewSwitcher` | `viewswitcher.c`: `gui_init`, the enter/leave notify, view-changed and button-press callbacks, `gui_cleanup`; the view manager as its environment | done |
| `DarktableViews` | `ViewSwitcher` and `McpView` composed through the view manager's switches | done |
| `MCDarktableViews` | TLC instance: views and widgets as model values | done |
| `ViewSwitcherProofs` | TLAPS proofs about `ViewSwitcher` | done |
| `DarktableViewsProofs` | `DeskSpec` refines both `ViewSwitcher`'s and `McpView`'s `Spec`; their properties carried over, and `McpLabelShowsBox` proved | done |

### McpBridge

**State.** Each path (`cmdFile`, `procFile`, `tmpFile`, `respFile`) holds an
inode or `NoFile`:

- A request inode is the id `<<producer, n>>`. Its content is present once
  the id is in `filled`. Python's `open("w")` creates the file empty and the
  write comes later. After a rename, the write lands in whichever path the
  inode has.
- A response inode is `[req, whole]`, where `whole` says whether
  `write_file` finished writing it.
- `luaPc` is the poller's position in `process_commands`.
- `luaReq` is the request whose `result_payload` the current tick holds.
- `dcount`, `claimed`, `published` and `delivered` are history variables
  that the properties use.

**Poller actions.** There is one action per step of `process_commands`:

| Action | Lines of part_002 | What it does |
|---|---|---|
| `Claim` | 244-257 | the rename; it replaces any `processing.json` |
| `ReadEmpty` | 258-262 | the content is empty: remove the file and return, with no response |
| `Dispatch` | 264-295 | decode, look up the command and `pcall` the handler. All outcomes, including parse errors and unknown commands, take the same path. |
| `OpenTmp` | 298, 234-236 | `io.open(tmp, "w")` truncates the temp file or fails silently |
| `WriteTmp` | 237-238 | finish writing the temp file |
| `PublishResp` | 301 | the rename, whose failure is ignored |
| `RemoveProc` | 304 | remove `processing.json` |
| `Crash` | — | darktable dies mid-tick and restarts. The poller is registered again (line 308) and the files stay. |

**Producer actions.** These are spec-modelled, because the Python server is
not in the repository:

- `Submit`: open `cmd.json` for writing. If `AtomicSubmit`, the content is
  written in the same step.
- `Fill`: write the content.
- `Consume`: read and delete `response.json`.
- `GiveUp`: the timeout of spec.md 4.4.

`Finished` is the stuttering end state once the producers have sent all
their requests.

**Abstractions.**

- Command names, arguments and results are abstracted away, because no
  property depends on them.
- The status file and the logging are left out.
- A poll tick that finds no `cmd.json` changes nothing, so it is not an
  action.

### Runs

All runs use `MCMcpBridge`.

| Run | Constants | Checks | Result |
|---|---|---|---|
| `bridge_faults` | 2 producers × 2 requests, 1 crash, timeouts, non-atomic submit; `FairSpec` | `TypeOK`, `AtMostOnceDispatch`, `ResponseNeverTorn`, `PollerServes`, `LifecycleSpec` | pass |
| `single_flight` | 1 producer × 3 requests, 1 crash, 1 failed open, no timeout | `ResponseCorrelated` | pass |
| `late_response` | 1 producer, timeouts | `ResponseCorrelated` | violation |
| `orphaned_claim` | 1 crash, atomic submit | `ClaimAnswered` | violation |
| `stale_temp` | 1 crash, 1 failed open, timeouts | `ResponseNeverTorn` | violation |

**What the passing runs show.**

- The rename claim gives at-most-once dispatch under every fault the model
  has: crashes, racing producers, empty claims and timeouts.
- When `io.open` does not fail, a crash in the middle of `write_file` never
  exposes a torn response. The next tick's `io.open` truncates the temp
  file before anything is renamed.
- `PollerServes`: under the timer's fairness, every request left in
  `cmd.json` is eventually claimed, unless another producer overwrites it
  first. Every path of a tick (an empty file, a crash, any dispatch
  outcome) ends and lets the next tick claim. The mutant whose
  `os.remove` step does not end the tick wedges the poller.
- `LifecycleSpec`: the bridge implements `RequestLifecycle` under the
  mapping `Lifecycle` (see below), in every behaviour of this instance.
  The lifecycle counts the runs of each request, and the mapping sends
  that count to `dcount`. A second dispatch therefore changes the abstract
  state in a way no lifecycle step allows. The mutant whose claim copies
  `cmd.json` instead of renaming it dispatches a request twice and breaks
  the refinement.
- Correlation holds only for one producer that waits forever. In that
  configuration deadlock is not checked. This is not a modelling shortcut:
  a producer really can wait forever on a request the poller dropped.

**What the violation runs show.** Each is a disagreement between the code
and spec.md, recorded under "findings" in `PROJECT.json`:

- `late_response`: a response that arrives after a timeout is taken as the
  answer to the next request.
- `orphaned_claim`: there is no startup sweep, so an orphaned
  `processing.json` is overwritten by the next claim.
- `stale_temp`: a failed `io.open` publishes a truncated temp file left by
  a crash.

**Bounds.**

- Two requests per producer are enough for every interesting case: a stale
  response or a stale temp file needs one earlier request, and an overwrite
  needs two producers.
- One crash and one failed open reach every fault interleaving in which a
  second fault would only repeat the first.
- The producers are symmetric model values. `bridge_faults` checks a
  liveness property, for which TLC's symmetry reduction is unsound, so it
  runs without it (98,490 states, 15 s).

**Fairness.** `FairSpec` adds weak fairness to each step of
`process_commands` except `Crash`, and to each producer's `Fill` and
`Consume`. The code justifies it. `process_commands` is a timer callback
(line 308): while darktable runs, the next tick comes, and a tick runs its
code to the end. A producer that has begun a write finishes it, and a
waiting producer keeps polling. Nothing is fair about `Submit` (callers
decide), `GiveUp` or `Crash`.

### Proofs (McpBridgeProofs)

**`TypeCorrect`: `Spec => []TypeOK`.** `TypeOK` alone is not inductive. It
is strengthened to `TypeInv`, which adds what the program counters imply:

- while the poller is at `dispatched` or `opened`, there is a decoded
  request;
- while it is at `opened`, a temp file exists;
- a producer that is writing or waiting has a current request.

**`AtMostOnceDispatchTheorem`: `Spec => []AtMostOnceDispatch`.** The
inductive invariant `DispatchInv` adds four facts:

- a request not yet submitted was never dispatched and is in no file;
- the request in `cmd.json` was never dispatched;
- a freshly claimed request is not yet dispatched;
- a freshly claimed request is not also in `cmd.json`.

The argument: a request reaches `Dispatch` only through `Claim`, which takes
it out of `cmd.json`, and a producer never reuses a request's name.

**`ResponseNeverTornTheorem`: if `MaxCrashes = 0 \/ MaxOpenFails = 0`
then `Spec => []ResponseNeverTorn`.** The inductive invariant `TornInv`
says more than the theorem needs, and for every bound: a torn temp file
outside `write_file` needs a crash, a torn temp file at `written`, or a
torn `response.json` or delivery, needs both a crash and a failed open
(`Faulted`). The theorem then follows for any instance in which one of the
two faults cannot happen. The hypothesis is no weakening: the violation
run `stale_temp` shows a torn delivery once both faults are allowed.

**`ResponseCorrelatedTheorem`: if `Clients = {c0}` and
`MayTimeout = FALSE` then `Spec => []ResponseCorrelated`.** These are the
conditions of the run `single_flight`, and `late_response` shows the
property failing once timeouts are allowed. The inductive invariant
`CorrInv(c0)` ties every place a request or a response can be to the
producer's current request:

- the claimed file, the decoded request, a temp file and `response.json`
  all hold the current request;
- while any of them exists, the producer is past `Submit` (waiting, once
  the request is decoded) and `cmd.json` is empty;
- a response in `response.json` is alone: no temp file, and the tick is
  idle or has just renamed it;
- `filled` holds no request the producer has not finished writing.

**`LifecycleRefinement`: `Spec => LifecycleSpec`.** `RequestLifecycle`
(spec.md 3 and 8) has three sets of requests (submitted, answered,
taken) and a run count per request, `runs`. Each changes by one of four
steps, and each step has a guard:

- run only a submitted request whose count is 0, and set it to 1;
- answer only a request whose count is 1;
- take only an answered request.

No step raises a count past 1, so "at most once" is part of the
abstract specification, not just a comment on it. `McpBridge` maps onto it as follows:

- `SubmittedReqs` are the requests with an index at most `sent`;
- `runs` is `dcount` itself;
- `published` is the answered set;
- `TakenReqs` are the requests of the deliveries.

`Dispatch` is `Run`, `PublishResp` of a temp file is `Answer`, `Submit` is
`Submit` and `Consume` is `Take`. Every other step stutters. The inductive
invariant `RefInv` adds three facts to `DispatchInv`. `DispatchInv`
already gives `dcount <= 1` and a zero count for the request being
dispatched.

- the decoded request of a tick at `dispatched` or `opened` has run;
- a temp file, even one left by a crashed tick, answers a request that ran;
- `response.json` holds a published request.

The last two are why a crash between `write_file` and the rename cannot
publish an answer for a request that never ran.

**Assumptions.** `TypeCorrect`, `AtMostOnceDispatchTheorem` and
`LifecycleRefinement` hold for any finite non-empty set of
producers, any bounds, and either value of the flags. They rely on
`NoFile` being neither a request nor a response.

**Method.** Both invariants were first checked by TLC on the
2-producer instance with a crash and a failed open.

**Method.** Every inductive invariant was first checked by TLC as an
invariant: `TornInv` on `stale_temp`, `bridge_faults` and a 2-producer
variant with two crashes and two failed opens, `CorrInv` on
`single_flight`.

**Left to TLC.** `PollerServes` is a liveness property under fairness,
which TLAPS cannot prove here, so it is checked only by TLC. So are the
four violation runs, which are counterexamples rather than theorems.

### McpBridgeV1: the first poller

`McpBridgeV1` models `check_command` in
`src/tools/mcp-server/dt_mcp_bridge.lua`, which runs every 500 ms. It
shares the producer actions of `McpBridge` (spec-modelled), written again
because this version has no rename and keeps `cmd.json` in place: a path
is `NoFile`, `Empty` or holds a request.

| Action | Code | What it does |
|---|---|---|
| `ReadCmd` | lines 102-103 | reads `cmd.json`; a missing or empty file ends the tick |
| `ClearCmd` | lines 105-106 | truncates `cmd.json`; or its `io.open` fails (line 72) and the file keeps the command |
| `ParseFail` | lines 108-111 | text without `\|` ends the tick, no response |
| `Dispatch` | lines 113-134 | pcall of the handler, counted in `dcount` |
| `OpenResp` | lines 136, 70-72 | `io.open(RESP_FILE, "w")` truncates `response.json`; or fails and the tick ends |
| `WriteResp` | lines 73-75 | the write and close complete the response |
| `Crash` | line 140 | darktable dies mid-tick and the timer is registered again |

`malformed` is the set of requests whose text has no `|`; `readSet` is a
history of the requests the poller has read. `MaxOpenFails` bounds the
failed opens.

| Run | Configuration | Property | Result |
|---|---|---|---|
| `v1_faults` | 2 producers, 1 request each, every fault | `TypeOK` | pass |
| `v1_clear_once` | 2 producers, 2 requests, 1 crash, no failed open | `AtMostOnceDispatch` | pass |
| `v1_failed_clear` | 1 failed open | `AtMostOnceDispatch` | violation |
| `v1_lost_command` | timeouts | `WaitingRequestKept` | violation |

What they show:

- Reading and then clearing does give at-most-once dispatch, but only
  while every `io.open` succeeds. `write_file` ignores a failed open, so a
  failed clear leaves the command for the next tick, which runs it again.
- A producer that timed out can write its next command between the read
  and the clear, and the clear erases it unread (`v1_lost_command`).
- A malformed command gets no answer (line 111), which differs from
  spec.md 7. `ParseFail` models it; no run is spent on it.
- The response is written in place (`OpenResp` truncates, `WriteResp`
  completes), so a producer can read it half done; this is plain from the
  code, and no run is spent on it.

**Proofs (`McpBridgeV1Proofs`).**

- `TypeCorrect`: `Spec => []TypeOK`, from `TypeInv`. `TypeInv` adds that a
  tick past its read holds a request, and that a producer that is writing
  or waiting has a current one.
- `AtMostOnceDispatchTheorem`: if `MaxOpenFails = 0` then
  `Spec => []AtMostOnceDispatch`, for any number of producers, requests,
  crashes, timeouts and malformed texts. The hypothesis is exactly what
  `v1_failed_clear` shows is needed. The inductive invariant
  `DispatchInv` says the following:
  - a request read by the current tick is undispatched until it is
    cleared;
  - after the clear it is no longer in `cmd.json`;
  - whatever `cmd.json` holds is undispatched;
  - a producer's request being written is in no file and undispatched;
  - a request not yet submitted is undispatched and in no file.

### McpView: the C view

The view runs on the GTK thread only (`set_widget` is wrapped by
`dt_lua_gtk_wrap`, line 100), so its steps are sequential. What can go
wrong is the order of calls. The state is the GObject reference count of
`d->box` (`boxRefs`, `boxFloating`), the container it is packed in
(`boxParent`), whether the view is entered (`active`), and three sets of
Lua widgets: those packed in the box (`children`), those destroyed
(`destroyed`) and those bound against Lua's collector (`bound`).

| Action | Code | What it does |
|---|---|---|
| `Init` | lines 82-90 | `gtk_box_new`: one floating reference |
| `Enter` | lines 114-128 | packs the box into the center: sinks the floating reference the first time, takes a new one after that (`PackedRefs`) |
| `Leave` | lines 130-138 | `g_object_ref`, then `gtk_container_remove`, which drops the center's reference |
| `SetWidget(w)` | lines 39-79 | destroys every child, packs `w`, binds `w` |
| `Cleanup` | lines 106-110 | `free(d)` |

The view manager alternates `enter` and `leave`, and calls `cleanup`
once. The guards say this; `MaxCycles` bounds the number of enters.

| Run | Configuration | Property | Result |
|---|---|---|---|
| `views_desk` | see `DarktableViews` below | `BoxAlive`, among others | pass |
| `view_widget_reuse` | 3 widgets, 1 cycle | `ChildrenAlive` | violation |

- `BoxAlive`: the reference taken in `leave` keeps the box alive for the
  next `enter`. The mutant that drops it finalizes the box at the first
  leave.
- `view_widget_reuse`: a script that calls `set_widget` with the widget
  already shown makes the loop at lines 62-66 destroy that widget. Line 69
  then packs the destroyed widget. The same happens when a script goes back
  to a widget it showed before.
- The reference leak is proved rather than run. `RefsTrackEnters` shows
  that the count after k enters is k, for every bound. Each re-enter takes
  a reference (line 126) that no leave gives back.

### McpPanel: GUI requests, uploads and status

Lua callbacks run one at a time under darktable's Lua lock. The model
therefore has at most one Lua write in progress (`luaPc`, `luaFile`). The
Python server is a separate process and interleaves freely with it.

- **Queue files.** `queue` maps each queue file name to the request written
  into it, or to `NoFile`. There are two kinds of name:
  - `<<"gui", t>>` stands for `gui_request_<t>.json`;
  - `<<"upload", t, i>>` stands for `upload_<t>_<i>.json`.
- **Clock.** `now` is `os.time()`, and `Tick` advances it.
- **Writes.** Every write is in place. `OpenQueueFile` creates or truncates
  the file, and `WriteQueueFile` completes it. `ClickTool` (lines 411-463)
  and `StoreUpload` (lines 311-356) both start such a write. A button then
  sets the label to "requested".
- **Status.** `Refresh` (lines 481-486), like the initial call at line 491,
  runs `check_status` (`StatusLabel`, lines 465-479). It shows the message
  in `gui_status.json`, or the offline notice when that file is missing.
- **Python side (spec-modelled).**
  - `TakeQueueFile` reads a queue file and deletes it.
  - `PublishStatus` replaces the status file atomically, as spec.md 5
    requires of every write.
  - `taken` records what the server read.

The one run, `panel_same_second`, checks `QueuedRequestKept`: every
request written is still in its file or was read by the server. TLC finds
this violated. Two writes within one second get the same name, and the
second one truncates the first before the server reads it. spec.md 3 says
GUI requests are named uniquely so that many can wait side by side.

- **What is not modelled.** The preference writes of the callbacks are
  left out, because nothing in the bridge reads them.
- **Where the code and the model part.** The code writes to `DT_MCP_DIR`,
  which is never defined. The model follows the evident intent, `MCP_DIR`.

### ViewSwitcher and DarktableViews: the view switcher

Every callback of the switcher runs on the GTK thread, one at a time. A
label's GTK state flags are a set (`flags`). `gtk_widget_set_state_flags`
adds to the set with `clear = FALSE`, and replaces it with `clear = TRUE`.
`GTK_STATE_FLAG_NORMAL` is the empty set. Labels and views are one-to-one,
because each label's `"view-label"` data is its view's name, so a label is
named by its view.

| Action | Code | What it does |
|---|---|---|
| `GuiInit` | lines 73-125 | allocates `d`; one label per view that is not hidden (`Labels`, lines 86-88), each with no flag (`CreatedLabels`, lines 168-195); connects the two signals |
| `EnterNotify(v)` | lines 132-142 | highlights `v` unless it names the current view |
| `LeaveNotify` | lines 132-142 | drops the highlight |
| `ClickLabel(v)` | lines 197-209 | a primary click on a sensitive label asks for its view; `Sensitive` (lines 90-107) makes every view but the darkroom insensitive in GIMP mode |
| inside every switch | lines 151-166 | `ViewChanged`: the current view's label becomes `{selected}`, every other `{}` |
| `GuiCleanup` | lines 127-130 | frees `d` |

**The view manager is the environment.** It is darktable core, which this
repository does not hold:

- `OtherSwitch(w)` is a switch for any other reason, such as a shortcut, a
  script or another module, to any view.
- `Quit` leaves the last view at shutdown.
- Each switch runs the view-changed callback in the same step.
- A refused switch raises `VIEW_CANNOT_CHANGE`. Its callback (lines
  144-149) is empty, so the step stutters.
- What `dt_ctl_switch_mode_to` does on a click on the current view's label
  is one of the `OtherSwitch` steps.
- Two things are assumed here:
  - `gui_init` runs before the first view is entered;
  - darktable disconnects a module's signal handlers before `gui_cleanup`.
- The separators and label texts are layout, and are left out.

`DarktableViews` composes `ViewSwitcher` (an `INSTANCE`) with `McpView`
(which it `EXTENDS`). `McpFollows` makes a switch away from the MCP view
run `Leave`, and a switch to it run `Enter`, in the same step as the
switcher's callback. `SetWidget` runs at any time, and `Cleanup` runs
after shutdown.

Run `views_desk` (`MCDarktableViews_desk.cfg`) uses these bounds:

- four views: lighttable, darkroom, MCP, and a hidden one;
- five switches;
- two MCP cycles;
- two widgets;
- both launch modes.

It passes with 23,544 states. What the properties show:

| Property | What it shows | Mutant that breaks it |
|---|---|---|
| `SelectedIsCurrent` | while a view is current, its label and no other is selected | selecting `old_view` |
| `NoPrelightOnCurrent` | the current view's label is never highlighted; hovering a label and then switching to it clears the highlight through `clear = TRUE` | enter-notify without the `strcmp` |
| `McpLabelShowsBox` | the MCP label is selected exactly while `d->box` is packed in the center | `leave` without `gtk_container_remove` |
| `BoxAlive` | `McpView`'s property, now under switches driven by the view manager | `leave` without `g_object_ref` |

There are two known hazards without a run (see `PROJECT.json`):

- A switch while the pointer rests on a label that is not current clears
  that label's highlight, against the comment at line 135.
- A hidden last view leaves a stray separator (line 112).

### Proofs (ViewSwitcherProofs)

`SelectedIsCurrent` and `NoPrelightOnCurrent` are proved for every set of
views, hidden ones included, and every switch bound. The assumptions are
`NoView \notin Views` and `MaxSwitches \in Nat`.

Neither property is inductive by itself, because `GuiInit` resets the flags
of every label. That reset is sound only because no view is current before
`gui_init`. So the inductive invariant `SwitcherInv` adds
`d = "none" => current = NoView` to the type invariant and the two
properties. As in `McpViewProofs`, the type invariant is split into
`TypeNum` (the counter, for SMT) and `TypeRest` (for Zenon).

The argument rests on `SwitchToStep`: after any switch, by a click or by the
view manager, the flags are `ViewChanged(w)`. That is a function of the new
view alone, because `view_changed` sets every label with `clear = TRUE`.
Every other action either leaves `current` alone or touches only the
`prelight` flag of a label that is not current. The step lemma has one case
per action, and `SelectedIsCurrentTheorem` and `NoPrelightOnCurrentTheorem`
follow by PTL.

`DarktableViewsProofs` carries both properties over to the composition
that the run `views_desk` checks. `DeskRefinesSwitcher` proves
`DeskSpec => VSP!Spec`, where `VSP` is `ViewSwitcherProofs` instantiated
with the same names. This holds because every `DeskNext` step is either a
switcher step or a step of the MCP view, Lua or shutdown that leaves the
switcher's variables unchanged. `DeskSelectedIsCurrent` and
`DeskNoPrelightOnCurrent` then follow by PTL. Their assumption is
`ViewsAssumption`.

`DeskSwitcherTypeOK` carries `ViewSwitcherProofs`' `SwitcherTypeCorrect`
over the same way. `DeskRefinesView` proves `DeskSpec => Spec` for
`McpView`: the MCP view's steps happen exactly when the view manager enters
or leaves `Mcp`. `DeskBoxAlive` then follows from `BoxAliveTheorem`.

`DeskMcpLabelShowsBox` proves `McpLabelShowsBox` for every set of views.
Its inductive invariant is `BoxInv`: `d->box` is in the center exactly
while `Mcp` is current. Each view-manager switch that enters `Mcp` packs
the box, and each switch that leaves it unpacks it. With
`SelectedIsCurrent`, that makes the MCP label selected exactly while the
box is shown.

### Proofs (McpViewProofs)

`RefsInv` says three things. The box floats exactly until the first
enter. Its count is `RefsAfter(cycles)`: 1 before the first enter, and
`cycles` after it. And the type invariant holds.

The prover works with `TypeOK` in two parts, because the SMT backend
handles the counters and Zenon handles the flags and sets. `TypeSplit`
shows that the two parts together are `TypeOK`.

- `RefsTrackEnters`: `Spec => [](boxRefs = RefsAfter(cycles))`.
- `BoxAliveTheorem`: `Spec => []BoxAlive`.

Both follow from `RefsInvInit` and `RefsInvStep` by PTL. The only
assumption is `MaxCycles \in Nat`.

## 3. Plan

Done, in this order:

1. `McpBridge` and `McpBridgeProofs`: the core command path, type
   correctness and at-most-once dispatch proved.
2. `McpBridgeV1`: the first poller.
3. `McpView` and `McpViewProofs`: the view, with `BoxAlive` and the
   reference count proved.
4. `McpPanel`: GUI request and upload files, and `check_status`.
5. `ViewSwitcher` and `DarktableViews`: the view switcher composed with
   the MCP view; `FairSpec` and `PollerServes` for `McpBridge`.
6. `RequestLifecycle`, checked as a `PROPERTY` of `bridge_faults` and
   proved (`LifecycleRefinement`); the torn-response and correlation
   theorems; `McpBridgeV1Proofs`; and, over the composition, `BoxAlive`,
   the switcher's type and `McpLabelShowsBox`.

The project holds 12 runs. Each new question below must replace a run
that says less, or be stated as a `PROPERTY` of an existing configuration.

Left, by importance:

1. **End-to-end liveness of `McpBridge`.** `FairSpec` and
   `PollerServes` are done. Still to do: "a request the producer waits for
   is eventually answered". It holds only for one producer, without
   crashes and with an atomic submit. With two producers it fails: the
   other producer overwrites the request or consumes its response, which
   is spec.md 8 scenario C. That is worth a violation run if one can be
   freed.
2. **Status staleness in `McpPanel`.** Add the `updated_at` of spec.md 4.6
   and a liveness window. The code never reads a timestamp, so the
   property is expected to fail.
3. **`JsonCodec`.** A TLC-only module with recursive operators that models
   `json.encode` and `json.decode` over a small alphabet. It is checked
   against a reference round trip, which exposes two things:
   - the escape bug at line 63;
   - the `null` literal that is never recognised (`pairs` skips a `nil`
     value).
4. **More proofs.** `ClaimAnswered` under atomic submit without
   crashes, and a refinement of `McpBridgeV1` to `RequestLifecycle`
   (which holds only without failed opens).

## 4. Not modelled, and why

- **Python server.** It is not in the repository. Its producer role is
  modelled from spec.md.
- **Handler bodies.** These are calls into darktable's database and style
  API. Only their side-effect count is kept.
- **Installer.** It is provisioning only.
- **Rename on Windows.** `Claim` and `PublishResp` assume that
  `os.rename` replaces an existing target, as it does on Linux and macOS.
  On Windows the rename fails instead. A left-over `processing.json` would
  then block every later claim, a case the model does not include.
- **Scalar JSON.** A request that decodes to a number or `true` makes
  `request.cmd` (line 273) raise outside the `pcall`. That ends the tick at
  `claimed`, the same state change as `Crash` there, so it is covered by
  the crash bound rather than modelled separately.
- **Whether `part_002` loads at all.** The code raises before the panel
  paths can run:
  - the `dt.register_storage(...)` call is never closed (line 355 is
    followed by `local function`), so the script does not compile as
    written;
  - `DT_MCP_DIR` (lines 336, 344, 427, 453, 467) is an undefined global,
    and concatenating it raises.

  The models follow the evident intent (`MCP_DIR`) and record these here
  rather than as model runs.
- **JSON codec.** It is planned (see section 3) and is not modelled yet.
- **The view manager and `dt_ctl_switch_mode_to`.** These are darktable
  core and not in this repository. They are modelled only as the
  switcher's environment (`OtherSwitch`, `Quit`, `McpFollows`) and are not
  mapped.
