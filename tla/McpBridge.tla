----------------------------- MODULE McpBridge -----------------------------
(***************************************************************************)
(* The request/response mailbox of the darktable MCP bridge.               *)
(*                                                                         *)
(* Inside darktable, the Lua poller process_commands (dt_mcp_bridge.lua,   *)
(* second version, src/unnamed/part_002) runs every 250 ms.  It claims     *)
(* the command file mcp/cmd.json by renaming it to processing.json, reads  *)
(* and dispatches it, writes the response to response.json.tmp, renames    *)
(* that to response.json and removes processing.json.  On the other side,  *)
(* the Python MCP server (not under src/, modelled from spec.md 4.2/4.4)   *)
(* writes cmd.json, polls response.json, reads and deletes it, and may     *)
(* give up waiting.                                                        *)
(*                                                                         *)
(* A file path holds an "inode", or NoFile.  A request inode is the id of  *)
(* the request whose content the client writes into it; the content is     *)
(* present once the id is in `filled` (the client's open("w") creates an   *)
(* empty file first).  A response inode records the request it answers    *)
(* and whether write_file finished writing it.  The command itself, its    *)
(* arguments and its result are abstracted away: every decoded request     *)
(* (ok, handler error, unknown command, JSON parse error) takes the same   *)
(* path through the poller.                                                *)
(***************************************************************************)
EXTENDS Naturals, FiniteSets

CONSTANTS
  Clients,       \* Python-side producers that write cmd.json
  MaxReq,        \* requests each producer submits
  MaxCrashes,    \* darktable crashes (and restarts) in a behaviour
  MaxOpenFails,  \* failed io.open calls in write_file in a behaviour
  MayTimeout,    \* whether a producer gives up waiting (spec.md 4.4)
  AtomicSubmit,  \* whether a producer writes cmd.json in one step
  NoFile         \* the path does not exist

ASSUME ClientsAssumption == Clients # {} /\ IsFiniteSet(Clients)
ASSUME BoundsAssumption ==
  /\ MaxReq \in Nat \ {0}
  /\ MaxCrashes \in Nat
  /\ MaxOpenFails \in Nat
ASSUME FlagsAssumption == MayTimeout \in BOOLEAN /\ AtomicSubmit \in BOOLEAN

\* A request is named by its producer and its sequence number there.
Requests == Clients \X (1..MaxReq)

\* The content of response.json.tmp or response.json.
RespInodes == [req : Requests, whole : BOOLEAN]

\* NoFile is neither a request nor a response.
ASSUME NoFileAssumption == NoFile \notin Requests \cup RespInodes

\* Steps of process_commands; "idle" is between two timer ticks.
LuaPcs == {"idle", "claimed", "dispatched", "opened", "written", "renamed"}

VARIABLES
  cmdFile,     \* cmd.json: a request inode or NoFile
  procFile,    \* processing.json: a request inode or NoFile
  tmpFile,     \* response.json.tmp: a response inode or NoFile
  respFile,    \* response.json: a response inode or NoFile
  filled,      \* request inodes whose content has been written
  luaPc,       \* where process_commands is
  luaReq,      \* the request the current tick decoded (result_payload)
  crashes,     \* crashes so far
  openFails,   \* failed opens so far
  sent,        \* [Clients -> requests submitted so far]
  clientPc,    \* [Clients -> "idle" | "writing" | "waiting"]
  dcount,      \* history: [Requests -> times the request was dispatched]
  claimed,     \* history: requests ever renamed to processing.json
  published,   \* history: requests whose response reached response.json
  delivered    \* history: <<request awaited, response read>> pairs

luaVars == <<procFile, tmpFile, luaPc, luaReq, crashes, openFails>>
clientVars == <<sent, clientPc>>
histVars == <<dcount, claimed, published, delivered>>
vars == <<cmdFile, respFile, filled, luaVars, clientVars, histVars>>

\* The request a producer is currently submitting or waiting for.
Current(c) == <<c, sent[c]>>

TypeOK ==
  /\ cmdFile \in Requests \cup {NoFile}
  /\ procFile \in Requests \cup {NoFile}
  /\ tmpFile \in RespInodes \cup {NoFile}
  /\ respFile \in RespInodes \cup {NoFile}
  /\ filled \subseteq Requests
  /\ luaPc \in LuaPcs
  /\ luaReq \in Requests \cup {NoFile}
  /\ crashes \in 0..MaxCrashes
  /\ openFails \in 0..MaxOpenFails
  /\ sent \in [Clients -> 0..MaxReq]
  /\ clientPc \in [Clients -> {"idle", "writing", "waiting"}]
  /\ dcount \in [Requests -> Nat]
  /\ claimed \subseteq Requests
  /\ published \subseteq Requests
  /\ delivered \subseteq Requests \X RespInodes

Init ==
  /\ cmdFile = NoFile
  /\ procFile = NoFile
  /\ tmpFile = NoFile
  /\ respFile = NoFile
  /\ filled = {}
  /\ luaPc = "idle"
  /\ luaReq = NoFile
  /\ crashes = 0
  /\ openFails = 0
  /\ sent = [c \in Clients |-> 0]
  /\ clientPc = [c \in Clients |-> "idle"]
  /\ dcount = [r \in Requests |-> 0]
  /\ claimed = {}
  /\ published = {}
  /\ delivered = {}

-----------------------------------------------------------------------------
(* The Lua poller, one action per step of process_commands.                *)

\* Mutant of Claim: the command file is copied, not moved, so it stays
\* in cmd.json.
Claim_Copy ==
  /\ luaPc = "idle"
  /\ cmdFile # NoFile
  /\ procFile' = cmdFile
  /\ claimed' = claimed \cup {cmdFile}
  /\ luaPc' = "claimed"
  /\ UNCHANGED <<cmdFile, respFile, tmpFile, filled, luaReq, crashes,
                 openFails, clientVars, dcount, published, delivered>>

\* Lines 244-257: cmd.json exists, os.rename(CMD_FILE, PROC_FILE) moves it,
\* replacing whatever processing.json held.  With no cmd.json the tick
\* returns at once, which changes nothing.
Claim ==
  /\ luaPc = "idle"
  /\ cmdFile # NoFile
  /\ procFile' = cmdFile
  /\ cmdFile' = NoFile
  /\ claimed' = claimed \cup {cmdFile}
  /\ luaPc' = "claimed"
  /\ UNCHANGED <<respFile, tmpFile, filled, luaReq, crashes, openFails,
                 clientVars, dcount, published, delivered>>

\* Lines 258-262: the content read is empty (the producer has not written
\* it yet); processing.json is removed and the tick returns, answering
\* nothing.
ReadEmpty ==
  /\ luaPc = "claimed"
  /\ procFile \notin filled
  /\ procFile' = NoFile
  /\ luaPc' = "idle"
  /\ UNCHANGED <<cmdFile, respFile, tmpFile, filled, luaReq, crashes,
                 openFails, clientVars, histVars>>

\* Mutant of Dispatch: the request is decoded from CMD_FILE, read after
\* the rename, instead of from PROC_FILE.
Dispatch_ReadCmd ==
  /\ luaPc = "claimed"
  /\ procFile \in filled
  /\ dcount' = [dcount EXCEPT ![procFile] = @ + 1]
  /\ luaReq' = cmdFile
  /\ luaPc' = "dispatched"
  /\ UNCHANGED <<cmdFile, respFile, procFile, tmpFile, filled, crashes,
                 openFails, clientVars, claimed, published, delivered>>

\* Lines 264-295: decode, look the command up, pcall the handler and
\* encode result_payload.  Every outcome leads to a response.
Dispatch ==
  /\ luaPc = "claimed"
  /\ procFile \in filled
  /\ dcount' = [dcount EXCEPT ![procFile] = @ + 1]
  /\ luaReq' = procFile
  /\ luaPc' = "dispatched"
  /\ UNCHANGED <<cmdFile, respFile, procFile, tmpFile, filled, crashes,
                 openFails, clientVars, claimed, published, delivered>>

\* Line 298, write_file lines 234-236: io.open(RESP_TMP_FILE, "w") creates
\* or truncates the temp file; if the open fails write_file returns and the
\* old temp file, if any, is left as it was.
OpenTmp ==
  /\ luaPc = "dispatched"
  /\ \/ /\ tmpFile' = [req |-> luaReq, whole |-> FALSE]
        /\ luaPc' = "opened"
        /\ UNCHANGED openFails
     \/ /\ openFails < MaxOpenFails
        /\ openFails' = openFails + 1
        /\ luaPc' = "written"
        /\ UNCHANGED tmpFile
  /\ UNCHANGED <<cmdFile, respFile, procFile, filled, luaReq, crashes,
                 clientVars, histVars>>

\* write_file lines 237-238: f:write and f:close complete the temp file.
WriteTmp ==
  /\ luaPc = "opened"
  /\ tmpFile' = [tmpFile EXCEPT !.whole = TRUE]
  /\ luaPc' = "written"
  /\ UNCHANGED <<cmdFile, respFile, procFile, filled, luaReq, crashes,
                 openFails, clientVars, histVars>>

\* Mutant of PublishResp: the rename may come before write_file has
\* flushed and closed the temp file.
PublishResp_Unflushed ==
  /\ luaPc \in {"opened", "written"}
  /\ IF tmpFile # NoFile
       THEN /\ respFile' = tmpFile
            /\ tmpFile' = NoFile
            /\ published' = published \cup {tmpFile.req}
       ELSE UNCHANGED <<respFile, tmpFile, published>>
  /\ luaPc' = "renamed"
  /\ UNCHANGED <<cmdFile, procFile, filled, luaReq, crashes, openFails,
                 clientVars, dcount, claimed, delivered>>

\* Mutant of PublishResp: the temp file is copied to response.json and
\* left in place.
PublishResp_Copy ==
  /\ luaPc = "written"
  /\ IF tmpFile # NoFile
       THEN /\ respFile' = tmpFile
            /\ published' = published \cup {tmpFile.req}
       ELSE UNCHANGED <<respFile, published>>
  /\ luaPc' = "renamed"
  /\ UNCHANGED <<cmdFile, procFile, tmpFile, filled, luaReq, crashes,
                 openFails, clientVars, dcount, claimed, delivered>>

\* Line 301: os.rename(RESP_TMP_FILE, RESP_FILE) replaces response.json
\* with the temp file; with no temp file it fails and its result is ignored.
PublishResp ==
  /\ luaPc = "written"
  /\ IF tmpFile # NoFile
       THEN /\ respFile' = tmpFile
            /\ tmpFile' = NoFile
            /\ published' = published \cup {tmpFile.req}
       ELSE UNCHANGED <<respFile, tmpFile, published>>
  /\ luaPc' = "renamed"
  /\ UNCHANGED <<cmdFile, procFile, filled, luaReq, crashes, openFails,
                 clientVars, dcount, claimed, delivered>>

\* Mutant of RemoveProc: the tick's state is not reset, so the poller
\* never goes back to waiting for the next command.
RemoveProc_NoReset ==
  /\ luaPc = "renamed"
  /\ procFile' = NoFile
  /\ UNCHANGED <<cmdFile, respFile, tmpFile, filled, luaPc, luaReq, crashes,
                 openFails, clientVars, histVars>>

\* Line 304: os.remove(PROC_FILE) ends the tick.
RemoveProc ==
  /\ luaPc = "renamed"
  /\ procFile' = NoFile
  /\ luaPc' = "idle"
  /\ luaReq' = NoFile
  /\ UNCHANGED <<cmdFile, respFile, tmpFile, filled, crashes, openFails,
                 clientVars, histVars>>

\* darktable dies in the middle of a tick and is started again: the files
\* stay, the poller is registered afresh (line 308) with no recovery of
\* processing.json or response.json.tmp.
Crash ==
  /\ luaPc # "idle"
  /\ crashes < MaxCrashes
  /\ crashes' = crashes + 1
  /\ luaPc' = "idle"
  /\ luaReq' = NoFile
  /\ UNCHANGED <<cmdFile, respFile, procFile, tmpFile, filled, openFails,
                 clientVars, histVars>>

-----------------------------------------------------------------------------
(* The Python producer (spec.md 4.2 submit/try_consume, 4.4 timeout).      *)

\* submit: open cmd.json for writing (creating it, or truncating the
\* request another producer left there) and, when the write is atomic,
\* its content in the same step.
Submit(c) ==
  /\ clientPc[c] = "idle"
  /\ sent[c] < MaxReq
  /\ LET r == <<c, sent[c] + 1>> IN
       /\ sent' = [sent EXCEPT ![c] = @ + 1]
       /\ cmdFile' = r
       /\ IF AtomicSubmit
            THEN /\ filled' = filled \cup {r}
                 /\ clientPc' = [clientPc EXCEPT ![c] = "waiting"]
            ELSE /\ clientPc' = [clientPc EXCEPT ![c] = "writing"]
                 /\ UNCHANGED filled
  /\ UNCHANGED <<respFile, luaVars, histVars>>

\* submit: write and flush the content, into whichever path the inode now
\* has.
Fill(c) ==
  /\ clientPc[c] = "writing"
  /\ filled' = filled \cup {Current(c)}
  /\ clientPc' = [clientPc EXCEPT ![c] = "waiting"]
  /\ UNCHANGED <<cmdFile, respFile, sent, luaVars, histVars>>

\* try_consume: response.json exists; read it, delete it, and take it as
\* the answer to the request awaited.
Consume(c) ==
  /\ clientPc[c] = "waiting"
  /\ respFile # NoFile
  /\ delivered' = delivered \cup {<<Current(c), respFile>>}
  /\ respFile' = NoFile
  /\ clientPc' = [clientPc EXCEPT ![c] = "idle"]
  /\ UNCHANGED <<cmdFile, filled, sent, luaVars, dcount, claimed, published>>

\* Past the age threshold the producer drops the request it waits for.
GiveUp(c) ==
  /\ MayTimeout
  /\ clientPc[c] = "waiting"
  /\ clientPc' = [clientPc EXCEPT ![c] = "idle"]
  /\ UNCHANGED <<cmdFile, respFile, filled, sent, luaVars, histVars>>

\* Every producer has submitted all it will and the poller has nothing
\* left to claim: the model's bound is reached.
Finished ==
  /\ \A c \in Clients : clientPc[c] = "idle" /\ sent[c] = MaxReq
  /\ luaPc = "idle"
  /\ cmdFile = NoFile
  /\ UNCHANGED vars

LuaNext ==
  \/ Claim \/ ReadEmpty \/ Dispatch \/ OpenTmp \/ WriteTmp
  \/ PublishResp \/ RemoveProc \/ Crash

ClientNext(c) == Submit(c) \/ Fill(c) \/ Consume(c) \/ GiveUp(c)

Next == LuaNext \/ (\E c \in Clients : ClientNext(c)) \/ Finished

Spec == Init /\ [][Next]_vars

\* process_commands is a timer callback (line 308): while darktable runs,
\* the next tick comes, and a tick runs its code to the end, so no step
\* of the poller is put off for ever.  Crashes are not fair.  A waiting
\* producer keeps polling response.json, and a write it has begun ends.
\* Submitting is up to the producer's callers and is not fair.
FairSpec ==
  /\ Spec
  /\ WF_vars(Claim) /\ WF_vars(ReadEmpty) /\ WF_vars(Dispatch)
  /\ WF_vars(OpenTmp) /\ WF_vars(WriteTmp) /\ WF_vars(PublishResp)
  /\ WF_vars(RemoveProc)
  /\ \A c \in Clients : WF_vars(Fill(c)) /\ WF_vars(Consume(c))

-----------------------------------------------------------------------------
(* The request lifecycle the mailbox implements.  A request is          *)
(* submitted once its producer has opened cmd.json for it, has run as    *)
(* many times as process_commands has dispatched it (dcount), is         *)
(* answered once its response has reached response.json, and is taken   *)
(* once a producer has read a response for it.                          *)

SubmittedReqs == {q \in Requests : q[2] <= sent[q[1]]}

TakenReqs == {dv[2].req : dv \in delivered}

Lifecycle == INSTANCE RequestLifecycle WITH
  submitted <- SubmittedReqs,
  runs <- dcount,
  answered <- published,
  taken <- TakenReqs

-----------------------------------------------------------------------------
(* Properties.                                                             *)

\* spec.md 8 (at-most-one dispatch): the poller runs the handler of a
\* request at most once, whatever crashes and racing producers do; the
\* claim by rename in process_commands is what should ensure it.
AtMostOnceDispatch == \A r \in Requests : dcount[r] <= 1

\* spec.md 3: a reader never sees a partially written response.  The
\* producer only ever takes a response from response.json that write_file
\* finished, although darktable may die half way through write_file.
ResponseNeverTorn == \A d \in delivered : d[2].whole

\* spec.md 8 scenario C: no response is attributed to the wrong request.
\* Whatever a producer reads from response.json answers the request it
\* is waiting for.
ResponseCorrelated == \A d \in delivered : d[2].req = d[1]

\* spec.md 3 and 4.5: every claimed request is fulfilled, or is still in
\* processing.json where a recovery can find it; the poller never drops
\* a claimed request without publishing its response.
ClaimAnswered == \A r \in claimed : r \in published \/ r = procFile

\* spec.md 4.5 and 7: one bad request never stops the loop from servicing
\* the next one.  Whatever a tick met (an empty file, a failed open, a
\* crash), a request left in cmd.json is eventually claimed by
\* process_commands, unless a producer overwrites it first.
PollerServes ==
  \A r \in Requests : cmdFile = r ~> (r \in claimed \/ cmdFile # r)

\* spec.md 3 and 8: the poller and its producers implement the request
\* lifecycle.  process_commands runs only a request a producer submitted,
\* and runs it once; it publishes a response, even a stale temp file left
\* by a crashed tick, only for a request it ran; and a producer reads
\* only a response that was published.
LifecycleSpec == Lifecycle!Spec

=============================================================================
