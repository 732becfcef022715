---------------------------- MODULE McpBridgeV1 ----------------------------
(***************************************************************************)
(* The first version of the darktable MCP bridge poller, check_command in *)
(* src/tools/mcp-server/dt_mcp_bridge.lua, run every 500 ms.  It reads    *)
(* mcp/cmd.json, clears it by writing an empty string, parses the text    *)
(* CMD_NAME|JSON_ARGS, calls the handler under pcall and writes           *)
(* response.json in place.  Nothing is renamed: cmd.json stays, empty,    *)
(* after the first command.                                               *)
(*                                                                         *)
(* The Python producer (not under src/) is modelled from spec.md 4.2/4.4 *)
(* as in McpBridge: it opens cmd.json for writing, which truncates it,    *)
(* then writes its request; it reads and deletes response.json, and may   *)
(* give up waiting.  A request it writes is well formed unless it is in   *)
(* `malformed` (text without the '|' separator).                          *)
(***************************************************************************)
EXTENDS Naturals, FiniteSets

CONSTANTS
  Clients,       \* Python-side producers that write cmd.json
  MaxReq,        \* requests each producer submits
  MaxCrashes,    \* darktable crashes (and restarts) in a behaviour
  MaxOpenFails,  \* io.open calls of write_file that fail
  MayTimeout,    \* whether a producer gives up waiting (spec.md 4.4)
  MayMalform,    \* whether a producer may write text without '|'
  NoFile,        \* the path does not exist
  Empty          \* the path exists and holds ""

ASSUME V1ClientsAssumption == Clients # {} /\ IsFiniteSet(Clients)
ASSUME V1BoundsAssumption ==
  MaxReq \in Nat \ {0} /\ MaxCrashes \in Nat /\ MaxOpenFails \in Nat
ASSUME V1FlagsAssumption == MayTimeout \in BOOLEAN /\ MayMalform \in BOOLEAN

Requests == Clients \X (1..MaxReq)

RespInodes == [req : Requests, whole : BOOLEAN]

ASSUME V1SentinelAssumption ==
  /\ NoFile # Empty
  /\ {NoFile, Empty} \cap (Requests \cup RespInodes) = {}

VARIABLES
  cmdFile,     \* cmd.json: NoFile, Empty or the request written in it
  respFile,    \* response.json: a response inode or NoFile
  malformed,   \* requests whose text has no '|'
  luaPc,       \* "idle" | "read" | "cleared" | "dispatched" | "opened"
  luaReq,      \* the content read by the current tick
  crashes,     \* crashes so far
  openFails,   \* failed opens so far
  sent,        \* [Clients -> requests submitted so far]
  clientPc,    \* [Clients -> "idle" | "writing" | "waiting"]
  dcount,      \* history: [Requests -> times the request was dispatched]
  readSet,     \* history: requests check_command has read
  published,   \* history: requests whose response was written
  delivered    \* history: <<request awaited, response read>> pairs

luaVars == <<luaPc, luaReq, crashes, openFails>>
clientVars == <<sent, clientPc, malformed>>
histVars == <<dcount, readSet, published, delivered>>
vars == <<cmdFile, respFile, luaVars, clientVars, histVars>>

Current(c) == <<c, sent[c]>>

TypeOK ==
  /\ cmdFile \in Requests \cup {NoFile, Empty}
  /\ respFile \in RespInodes \cup {NoFile}
  /\ malformed \subseteq Requests
  /\ luaPc \in {"idle", "read", "cleared", "dispatched", "opened"}
  /\ luaReq \in Requests \cup {NoFile}
  /\ crashes \in 0..MaxCrashes
  /\ openFails \in 0..MaxOpenFails
  /\ sent \in [Clients -> 0..MaxReq]
  /\ clientPc \in [Clients -> {"idle", "writing", "waiting"}]
  /\ dcount \in [Requests -> Nat]
  /\ readSet \subseteq Requests
  /\ published \subseteq Requests
  /\ delivered \subseteq Requests \X RespInodes

\* Lines 4-11: the mcp directory exists and holds no file yet.
Init ==
  /\ cmdFile = NoFile
  /\ respFile = NoFile
  /\ malformed = {}
  /\ luaPc = "idle"
  /\ luaReq = NoFile
  /\ crashes = 0
  /\ openFails = 0
  /\ sent = [c \in Clients |-> 0]
  /\ clientPc = [c \in Clients |-> "idle"]
  /\ dcount = [r \in Requests |-> 0]
  /\ readSet = {}
  /\ published = {}
  /\ delivered = {}

-----------------------------------------------------------------------------
(* check_command, one action per step.  write_file (lines 70-75) returns  *)
(* silently when io.open fails; openFails counts those failures.          *)

\* Mutant of ReadCmd: an empty cmd.json is taken as a command.
ReadCmd_NoEmptyCheck ==
  /\ luaPc = "idle"
  /\ cmdFile # NoFile
  /\ luaReq' = cmdFile
  /\ readSet' = readSet \cup {cmdFile}
  /\ luaPc' = "read"
  /\ UNCHANGED <<cmdFile, respFile, crashes, openFails, clientVars, dcount,
                 published, delivered>>

\* Lines 102-103, read_file lines 62-67: read cmd.json; a missing or
\* empty file ends the tick, which changes nothing.
ReadCmd ==
  /\ luaPc = "idle"
  /\ cmdFile \in Requests
  /\ luaReq' = cmdFile
  /\ readSet' = readSet \cup {cmdFile}
  /\ luaPc' = "read"
  /\ UNCHANGED <<cmdFile, respFile, crashes, openFails, clientVars, dcount,
                 published, delivered>>

\* Mutant of ClearCmd: the file is not cleared.
ClearCmd_Skip ==
  /\ luaPc = "read"
  /\ luaPc' = "cleared"
  /\ UNCHANGED <<cmdFile, respFile, luaReq, crashes, openFails, clientVars,
                 histVars>>

\* Line 106: write_file(CMD_FILE, "") truncates cmd.json, whatever it
\* holds by now; when io.open fails (line 72) cmd.json keeps the command.
ClearCmd ==
  /\ luaPc = "read"
  /\ \/ /\ cmdFile' = Empty
        /\ UNCHANGED openFails
     \/ /\ openFails < MaxOpenFails
        /\ openFails' = openFails + 1
        /\ UNCHANGED cmdFile
  /\ luaPc' = "cleared"
  /\ UNCHANGED <<respFile, luaReq, crashes, clientVars, histVars>>

\* Lines 109-111: the text has no '|'; the tick returns with no response.
ParseFail ==
  /\ luaPc = "cleared"
  /\ luaReq \in malformed
  /\ luaPc' = "idle"
  /\ luaReq' = NoFile
  /\ UNCHANGED <<cmdFile, respFile, crashes, openFails, clientVars, histVars>>

\* Lines 113-134: parse the arguments, pcall the handler or report an
\* unknown command, format resp_str.
Dispatch ==
  /\ luaPc = "cleared"
  /\ luaReq \notin malformed
  /\ dcount' = [dcount EXCEPT ![luaReq] = @ + 1]
  /\ luaPc' = "dispatched"
  /\ UNCHANGED <<cmdFile, respFile, luaReq, crashes, openFails, clientVars,
                 readSet, published, delivered>>

\* Line 136, write_file lines 70-72: io.open(RESP_FILE, "w") truncates
\* response.json in place; when it fails the tick ends with no response.
OpenResp ==
  /\ luaPc = "dispatched"
  /\ \/ /\ respFile' = [req |-> luaReq, whole |-> FALSE]
        /\ published' = published \cup {luaReq}
        /\ luaPc' = "opened"
        /\ UNCHANGED <<luaReq, openFails>>
     \/ /\ openFails < MaxOpenFails
        /\ openFails' = openFails + 1
        /\ luaPc' = "idle"
        /\ luaReq' = NoFile
        /\ UNCHANGED <<respFile, published>>
  /\ UNCHANGED <<cmdFile, crashes, clientVars, dcount, readSet, delivered>>

\* write_file lines 73-74: f:write and f:close complete response.json.
\* The producer may have deleted it in between; the write then goes to
\* the unlinked file.
WriteResp ==
  /\ luaPc = "opened"
  /\ respFile' = IF respFile # NoFile /\ respFile.req = luaReq
                   THEN [respFile EXCEPT !.whole = TRUE]
                   ELSE respFile
  /\ luaPc' = "idle"
  /\ luaReq' = NoFile
  /\ UNCHANGED <<cmdFile, crashes, openFails, clientVars, histVars>>

\* darktable dies in the middle of a tick and restarts; line 140 registers
\* the poller again and the files stay as they are.
Crash ==
  /\ luaPc # "idle"
  /\ crashes < MaxCrashes
  /\ crashes' = crashes + 1
  /\ luaPc' = "idle"
  /\ luaReq' = NoFile
  /\ UNCHANGED <<cmdFile, respFile, openFails, clientVars, histVars>>

-----------------------------------------------------------------------------
(* The Python producer (spec.md 4.2 submit/try_consume, 4.4 timeout).      *)

\* submit: open cmd.json for writing, which creates or truncates it.
Submit(c) ==
  /\ clientPc[c] = "idle"
  /\ sent[c] < MaxReq
  /\ sent' = [sent EXCEPT ![c] = @ + 1]
  /\ cmdFile' = Empty
  /\ clientPc' = [clientPc EXCEPT ![c] = "writing"]
  /\ \E bad \in IF MayMalform THEN BOOLEAN ELSE {FALSE} :
       malformed' = IF bad THEN malformed \cup {<<c, sent[c] + 1>>}
                           ELSE malformed
  /\ UNCHANGED <<respFile, luaVars, histVars>>

\* submit: write the request text into cmd.json.
Fill(c) ==
  /\ clientPc[c] = "writing"
  /\ cmdFile' = Current(c)
  /\ clientPc' = [clientPc EXCEPT ![c] = "waiting"]
  /\ UNCHANGED <<respFile, sent, malformed, luaVars, histVars>>

\* try_consume: read response.json, delete it, take it as the answer.
Consume(c) ==
  /\ clientPc[c] = "waiting"
  /\ respFile # NoFile
  /\ delivered' = delivered \cup {<<Current(c), respFile>>}
  /\ respFile' = NoFile
  /\ clientPc' = [clientPc EXCEPT ![c] = "idle"]
  /\ UNCHANGED <<cmdFile, sent, malformed, luaVars, dcount, readSet,
                 published>>

\* Past the age threshold the producer drops the request it waits for.
GiveUp(c) ==
  /\ MayTimeout
  /\ clientPc[c] = "waiting"
  /\ clientPc' = [clientPc EXCEPT ![c] = "idle"]
  /\ UNCHANGED <<cmdFile, respFile, sent, malformed, luaVars, histVars>>

\* All requests are sent and the poller has nothing left to read.
Finished ==
  /\ \A c \in Clients : clientPc[c] = "idle" /\ sent[c] = MaxReq
  /\ luaPc = "idle"
  /\ cmdFile \notin Requests
  /\ UNCHANGED vars

\* Line 140: dt.register_event runs check_command on every timer tick.
LuaNext ==
  \/ ReadCmd \/ ClearCmd \/ ParseFail \/ Dispatch \/ OpenResp \/ WriteResp
  \/ Crash

ClientNext(c) == Submit(c) \/ Fill(c) \/ Consume(c) \/ GiveUp(c)

Next == LuaNext \/ (\E c \in Clients : ClientNext(c)) \/ Finished

Spec == Init /\ [][Next]_vars

-----------------------------------------------------------------------------
(* Properties.                                                             *)

\* spec.md 8 (at-most-one dispatch), and the comment at line 105: clearing
\* cmd.json right after reading it keeps a command from running twice,
\* across crashes and racing producers.
AtMostOnceDispatch == \A r \in Requests : dcount[r] <= 1

\* spec.md 4.2: a submitted request is not lost before the poller reads
\* it.  While a producer waits for a request check_command has not read,
\* that request is still in cmd.json.
WaitingRequestKept ==
  \A c \in Clients :
    clientPc[c] = "waiting" /\ Current(c) \notin readSet
      => cmdFile = Current(c)

=============================================================================
