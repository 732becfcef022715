------------------------- MODULE McpBridgeV1Proofs -------------------------
(***************************************************************************)
(* Proofs about McpBridgeV1, the first poller, for every value of its      *)
(* constants.                                                              *)
(***************************************************************************)
EXTENDS McpBridgeV1, TLAPS

(* The type invariant with what the poller's and a producer's program     *)
(* counters imply: a tick past its read holds the request it read, and a  *)
(* producer that writes or waits has a current request.                    *)
TypeInv ==
  /\ TypeOK
  /\ luaPc # "idle" => luaReq \in Requests
  /\ \A c \in Clients : clientPc[c] # "idle" => sent[c] >= 1

LEMMA TypeInvInit == Init => TypeInv
  BY V1ClientsAssumption, V1BoundsAssumption, V1SentinelAssumption
  DEF Init, TypeInv, TypeOK, Requests

LEMMA TypeInvStep == TypeInv /\ [Next]_vars => TypeInv'
  <1> SUFFICES ASSUME TypeInv, [Next]_vars PROVE TypeInv'
    OBVIOUS
  <1> USE V1BoundsAssumption, V1SentinelAssumption DEF TypeInv, TypeOK
  <1>1. CASE ReadCmd
    BY <1>1 DEF ReadCmd, clientVars
  <1>2. CASE ClearCmd
    BY <1>2 DEF ClearCmd, clientVars, histVars
  <1>3. CASE ParseFail
    BY <1>3 DEF ParseFail, clientVars, histVars
  <1>4. CASE Dispatch
    BY <1>4 DEF Dispatch, clientVars
  <1>5. CASE OpenResp
    <2>1. CASE /\ respFile' = [req |-> luaReq, whole |-> FALSE]
               /\ published' = published \cup {luaReq}
               /\ luaPc' = "opened"
               /\ UNCHANGED <<luaReq, openFails>>
      BY <1>5, <2>1 DEF OpenResp, clientVars, RespInodes
    <2>2. CASE /\ openFails < MaxOpenFails
               /\ openFails' = openFails + 1
               /\ luaPc' = "idle"
               /\ luaReq' = NoFile
               /\ UNCHANGED <<respFile, published>>
      BY <1>5, <2>2 DEF OpenResp, clientVars
    <2>3. QED
      BY <1>5, <2>1, <2>2 DEF OpenResp
  <1>6. CASE WriteResp
    BY <1>6 DEF WriteResp, clientVars, histVars, RespInodes
  <1>7. CASE Crash
    BY <1>7 DEF Crash, clientVars, histVars
  <1>8. ASSUME NEW c \in Clients, Submit(c) PROVE TypeInv'
    <2>1. PICK bad \in BOOLEAN :
            malformed' = IF bad THEN malformed \cup {<<c, sent[c] + 1>>}
                                ELSE malformed
      BY <1>8, V1FlagsAssumption DEF Submit
    <2>2. <<c, sent[c] + 1>> \in Requests
      BY <1>8 DEF Submit, Requests
    <2>3. QED
      BY <1>8, <2>1, <2>2 DEF Submit, luaVars, histVars
  <1>9. ASSUME NEW c \in Clients, Fill(c) PROVE TypeInv'
    BY <1>9 DEF Fill, luaVars, histVars, Current, Requests
  <1>10. ASSUME NEW c \in Clients, Consume(c) PROVE TypeInv'
    BY <1>10 DEF Consume, luaVars, Current, Requests
  <1>11. ASSUME NEW c \in Clients, GiveUp(c) PROVE TypeInv'
    BY <1>11 DEF GiveUp, luaVars, histVars
  <1>12. CASE Finished \/ UNCHANGED vars
    BY <1>12 DEF Finished, vars, luaVars, clientVars, histVars
  <1>13. QED
    BY <1>1, <1>2, <1>3, <1>4, <1>5, <1>6, <1>7, <1>8, <1>9, <1>10,
       <1>11, <1>12 DEF Next, LuaNext, ClientNext

\* Every state of check_command and its producers is well typed: cmd.json
\* holds nothing, the empty string or one request, response.json one
\* response, and the counters stay within their bounds, whatever crashes,
\* failed opens, malformed texts and timeouts happen.
THEOREM TypeCorrect == Spec => []TypeOK
  <1>1. Spec => []TypeInv
    BY TypeInvInit, TypeInvStep, PTL DEF Spec
  <1>2. QED
    BY <1>1, PTL DEF TypeInv

-----------------------------------------------------------------------------
(* At most one dispatch per request, when clearing cmd.json never fails.   *)

\* A request read by the current tick, or in cmd.json, or being written
\* by its producer, or not yet submitted, has not been dispatched; once a
\* tick has cleared cmd.json, its own request is no longer there.
DispatchParts ==
  /\ AtMostOnceDispatch
  /\ luaPc \in {"read", "cleared"} => dcount[luaReq] = 0
  /\ luaPc = "cleared" => cmdFile # luaReq
  /\ cmdFile \in Requests => dcount[cmdFile] = 0
  /\ \A c \in Clients :
       clientPc[c] = "writing" => /\ Current(c) # cmdFile
                                  /\ Current(c) # luaReq
                                  /\ dcount[Current(c)] = 0
  /\ \A c \in Clients, n \in 1..MaxReq :
       n > sent[c] => /\ dcount[<<c, n>>] = 0
                      /\ cmdFile # <<c, n>>
                      /\ luaReq # <<c, n>>

DispatchInv == TypeInv /\ DispatchParts

LEMMA DispatchInvInit == Init => DispatchInv
  BY TypeInvInit, V1SentinelAssumption
  DEF Init, DispatchInv, DispatchParts, AtMostOnceDispatch, Requests

LEMMA DispatchInvStep ==
  ASSUME MaxOpenFails = 0
  PROVE  DispatchInv /\ [Next]_vars => DispatchInv'
  <1> SUFFICES ASSUME DispatchInv, [Next]_vars PROVE DispatchInv'
    OBVIOUS
  <1>0. TypeInv'
    BY TypeInvStep DEF DispatchInv
  <1> SUFFICES DispatchParts'
    BY <1>0 DEF DispatchInv
  <1> USE V1BoundsAssumption, V1SentinelAssumption
      DEF DispatchInv, DispatchParts, AtMostOnceDispatch, TypeInv, TypeOK,
          Current, Requests
  <1>1. CASE ReadCmd
    BY <1>1 DEF ReadCmd, clientVars
  <1>2. CASE ClearCmd
    <2>1. cmdFile' = Empty
      BY <1>2 DEF ClearCmd
    <2>2. QED
      BY <1>2, <2>1 DEF ClearCmd, clientVars, histVars
  <1>3. CASE ParseFail
    BY <1>3 DEF ParseFail, clientVars, histVars
  <1>4. CASE Dispatch
    BY <1>4 DEF Dispatch, clientVars, Requests
  <1>5. CASE OpenResp
    <2>1. /\ respFile' = [req |-> luaReq, whole |-> FALSE]
          /\ published' = published \cup {luaReq}
          /\ luaPc' = "opened"
          /\ UNCHANGED <<luaReq, openFails>>
      BY <1>5 DEF OpenResp
    <2>2. QED
      BY <1>5, <2>1 DEF OpenResp, clientVars
  <1>6. CASE WriteResp
    BY <1>6 DEF WriteResp, clientVars, histVars
  <1>7. CASE Crash
    BY <1>7 DEF Crash, clientVars, histVars
  <1>8. ASSUME NEW c \in Clients, Submit(c) PROVE DispatchParts'
    BY <1>8 DEF Submit, luaVars, histVars, Current, Requests
  <1>9. ASSUME NEW c \in Clients, Fill(c) PROVE DispatchParts'
    BY <1>9 DEF Fill, luaVars, histVars, Current
  <1>10. ASSUME NEW c \in Clients, Consume(c) PROVE DispatchParts'
    BY <1>10 DEF Consume, luaVars, Current
  <1>11. ASSUME NEW c \in Clients, GiveUp(c) PROVE DispatchParts'
    BY <1>11 DEF GiveUp, luaVars, histVars, Current
  <1>12. CASE Finished \/ UNCHANGED vars
    BY <1>12 DEF Finished, vars, luaVars, clientVars, histVars
  <1>13. QED
    BY <1>1, <1>2, <1>3, <1>4, <1>5, <1>6, <1>7, <1>8, <1>9, <1>10,
       <1>11, <1>12 DEF Next, LuaNext, ClientNext

\* The comment at line 105 of dt_mcp_bridge.lua: clearing cmd.json right
\* after reading it keeps a command from running twice.  It does, for any
\* number of producers, requests, crashes, timeouts and malformed texts,
\* as long as the write_file that clears it never fails to open the file;
\* the run v1_failed_clear shows a second dispatch when it does.
THEOREM AtMostOnceDispatchTheorem ==
  ASSUME MaxOpenFails = 0
  PROVE  Spec => []AtMostOnceDispatch
  <1>1. Spec => []DispatchInv
    BY DispatchInvInit, DispatchInvStep, PTL DEF Spec
  <1>2. QED
    BY <1>1, PTL DEF DispatchInv, DispatchParts
=============================================================================
