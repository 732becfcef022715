------------------------------- MODULE McpPanel -------------------------------
(***************************************************************************)
(* The Lua side of the GUI request queue and of the status channel        *)
(* (src/unnamed/part_002 311-497): the "MCP Cloud Sync" storage writes     *)
(* upload_<os.time()>_<id>.json for every exported image, the Auto Tag and *)
(* Smart Cull buttons write gui_request_<os.time()>.json, and check_status *)
(* shows the message of gui_status.json in the panel.  Each file is named  *)
(* by the second it is written in; it is written in place (io.open "w",    *)
(* then f:write and f:close).                                              *)
(*                                                                         *)
(* Lua callbacks run one at a time under darktable's Lua lock, so at most  *)
(* one write of this side is in progress; the Python server, a separate    *)
(* process, interleaves with them.  Its part is modelled from spec.md      *)
(* (4.5 watcher, 4.6 status channel, 5 all writes are temp-then-rename):   *)
(* it takes each queued file (reads and deletes it) and overwrites the     *)
(* status file atomically.  The code writes DT_MCP_DIR, which is never     *)
(* defined; the model follows the evident intent, MCP_DIR.                 *)
(***************************************************************************)
EXTENDS Naturals

CONSTANTS
  Images,      \* ids of images a user may export to the storage
  Messages,    \* status messages the Python server publishes
  MaxTime,     \* last value of os.time() in a behaviour (seconds)
  MaxWrites,   \* requests the Lua side writes in a behaviour
  NoFile       \* the path does not exist

Times == 0..MaxTime

\* The names of queue files: gui_request_<t>.json, upload_<t>_<id>.json.
Names == ({"gui"} \X Times) \cup ({"upload"} \X Times \X Images)

\* A queued file: the request written to it and whether the write finished.
Inodes == [id : 1..MaxWrites, whole : BOOLEAN]

\* What the status label shows: its initial text, a confirmation that a
\* request was written, the offline notice, or a message of the server.
Labels == {"Idle", "requested", "offline"} \cup Messages

VARIABLES
  now,         \* os.time()
  queue,       \* [Names -> Inodes \cup {NoFile}]: the queue files
  statusFile,  \* gui_status.json: a message or NoFile
  label,       \* status_cloud.label
  luaPc,       \* "idle" | "opened": a queue file is open for writing
  luaFile,     \* the name of that file
  written,     \* requests the Lua side has opened a file for so far
  taken        \* history: the inodes the Python server has read

vars == <<now, queue, statusFile, label, luaPc, luaFile, written, taken>>

TypeOK ==
  /\ now \in Times
  /\ queue \in [Names -> Inodes \cup {NoFile}]
  /\ statusFile \in Messages \cup {NoFile}
  /\ label \in Labels
  /\ luaPc \in {"idle", "opened"}
  /\ luaFile \in Names \cup {NoFile}
  /\ written \in 0..MaxWrites
  /\ taken \subseteq Inodes

\* check_status, lines 466-479: show the message of gui_status.json, or
\* the offline notice when it cannot be opened.
StatusLabel(f) == IF f = NoFile THEN "offline" ELSE f

\* create_ai_panel runs check_status once (line 491) when the panel is
\* built; the server may or may not be running by then.
Init ==
  /\ now = 0
  /\ queue = [n \in Names |-> NoFile]
  /\ statusFile \in Messages \cup {NoFile}
  /\ label = StatusLabel(statusFile)
  /\ luaPc = "idle"
  /\ luaFile = NoFile
  /\ written = 0
  /\ taken = {}

-----------------------------------------------------------------------------
(* The Lua side.                                                           *)

\* io.open(name, "w") creates or truncates the queue file; the request is
\* not written yet.  A failed open, or an empty selection, writes nothing
\* and changes nothing this model keeps.
OpenQueueFile(name) ==
  /\ luaPc = "idle"
  /\ written < MaxWrites
  /\ written' = written + 1
  /\ queue' = [queue EXCEPT ![name] = [id |-> written + 1, whole |-> FALSE]]
  /\ luaPc' = "opened"
  /\ luaFile' = name

\* The storage's store function, lines 314-352, for an exported image:
\* upload_<os.time()>_<id>.json (lines 343-345).
StoreUpload ==
  /\ \E i \in Images : OpenQueueFile(<<"upload", now, i>>)
  /\ UNCHANGED <<now, statusFile, label, taken>>

\* The Auto Tag and Smart Cull callbacks, lines 412-463, when the
\* selection is not empty: gui_request_<os.time()>.json (lines 427-428,
\* 453-454).  Both buttons do the same but for the tool name and the
\* label text, which the model does not tell apart.
ClickTool ==
  /\ OpenQueueFile(<<"gui", now>>)
  /\ UNCHANGED <<now, statusFile, label, taken>>

\* f:write, f:close (lines 346-348, 430-431, 456-457).  The server may
\* have taken and deleted the file in between; the write then goes to the
\* unlinked file.  A button callback then sets the label (lines 432, 458).
WriteQueueFile ==
  /\ luaPc = "opened"
  /\ queue' = IF queue[luaFile] # NoFile /\ queue[luaFile].id = written
                THEN [queue EXCEPT ![luaFile].whole = TRUE]
                ELSE queue
  /\ label' = IF luaFile[1] = "gui" THEN "requested" ELSE label
  /\ luaPc' = "idle"
  /\ luaFile' = NoFile
  /\ UNCHANGED <<now, statusFile, written, taken>>

\* The Refresh Status button, lines 484-486, runs check_status.
Refresh ==
  /\ luaPc = "idle"
  /\ label' = StatusLabel(statusFile)
  /\ UNCHANGED <<now, queue, statusFile, luaPc, luaFile, written, taken>>

\* os.time() moves on.
Tick ==
  /\ now < MaxTime
  /\ now' = now + 1
  /\ UNCHANGED <<queue, statusFile, label, luaPc, luaFile, written, taken>>

-----------------------------------------------------------------------------
(* The Python server (spec.md 4.5, 4.6).                                   *)

\* The watcher reads a queue file and deletes it.
TakeQueueFile ==
  /\ \E n \in Names :
       /\ queue[n] # NoFile
       /\ taken' = taken \cup {queue[n]}
       /\ queue' = [queue EXCEPT ![n] = NoFile]
  /\ UNCHANGED <<now, statusFile, label, luaPc, luaFile, written>>

\* publish_status overwrites gui_status.json.
PublishStatus ==
  /\ \E m \in Messages : statusFile' = m
  /\ UNCHANGED <<now, queue, label, luaPc, luaFile, written, taken>>

Next ==
  \/ StoreUpload \/ ClickTool \/ WriteQueueFile \/ Refresh \/ Tick
  \/ TakeQueueFile \/ PublishStatus

Spec == Init /\ [][Next]_vars

-----------------------------------------------------------------------------
(* Properties.                                                             *)

\* spec.md 3: the GUI queue names each request uniquely so that many may
\* wait unclaimed side by side.  No request the Lua side writes is lost:
\* each one is still in its queue file or the server has read it.
QueuedRequestKept ==
  \A k \in 1..written :
    \/ \E x \in taken : x.id = k
    \/ \E n \in Names : queue[n] # NoFile /\ queue[n].id = k

=============================================================================
