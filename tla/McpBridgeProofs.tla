-------------------------- MODULE McpBridgeProofs --------------------------
(***************************************************************************)
(* Proofs about McpBridge for every value of its constants.               *)
(***************************************************************************)
EXTENDS McpBridge, TLAPS

(* The type invariant with what the poller's and a producer's program     *)
(* counters imply about the variables they use next: a decoded request    *)
(* while the response is being written, an open temp file while it is    *)
(* being filled, a current request while a producer writes or waits.     *)
TypeInv ==
  /\ TypeOK
  /\ luaPc \in {"dispatched", "opened"} => luaReq \in Requests
  /\ luaPc = "opened" => tmpFile \in RespInodes
  /\ \A c \in Clients : clientPc[c] # "idle" => sent[c] >= 1

(* The strengthening of AtMostOnceDispatch: a request not yet submitted   *)
(* is in no file and was never dispatched, the request in cmd.json was    *)
(* never dispatched, and the request a tick has just claimed is not yet   *)
(* dispatched and is not (again) in cmd.json.                             *)
DispatchInv ==
  /\ TypeInv
  /\ AtMostOnceDispatch
  /\ \A c \in Clients, n \in 1..MaxReq :
       n > sent[c] => /\ dcount[<<c, n>>] = 0
                      /\ cmdFile # <<c, n>>
                      /\ procFile # <<c, n>>
  /\ cmdFile # NoFile => dcount[cmdFile] = 0
  /\ luaPc = "claimed" => /\ procFile \in Requests
                          /\ dcount[procFile] = 0
                          /\ procFile # cmdFile

-----------------------------------------------------------------------------
(* The type invariant.                                                     *)

LEMMA TypeInvInit == Init => TypeInv
  BY ClientsAssumption, BoundsAssumption, NoFileAssumption
  DEF Init, TypeInv, TypeOK, Requests, LuaPcs

LEMMA TypeInvStep == TypeInv /\ [Next]_vars => TypeInv'
  <1> SUFFICES ASSUME TypeInv, [Next]_vars PROVE TypeInv'
    OBVIOUS
  <1> USE BoundsAssumption, NoFileAssumption DEF TypeInv, TypeOK, LuaPcs
  <1>1. CASE Claim
    BY <1>1 DEF Claim, clientVars
  <1>2. CASE ReadEmpty
    BY <1>2 DEF ReadEmpty, clientVars, histVars
  <1>3. CASE Dispatch
    BY <1>3 DEF Dispatch, clientVars
  <1>4. CASE OpenTmp
    <2>1. CASE tmpFile' = [req |-> luaReq, whole |-> FALSE]
                /\ luaPc' = "opened" /\ UNCHANGED openFails
      BY <1>4, <2>1 DEF OpenTmp, clientVars, histVars, RespInodes
    <2>2. CASE openFails < MaxOpenFails /\ openFails' = openFails + 1
                /\ luaPc' = "written" /\ UNCHANGED tmpFile
      BY <1>4, <2>2 DEF OpenTmp, clientVars, histVars
    <2>3. QED
      BY <1>4, <2>1, <2>2 DEF OpenTmp
  <1>5. CASE WriteTmp
    BY <1>5 DEF WriteTmp, clientVars, histVars, RespInodes
  <1>6. CASE PublishResp
    BY <1>6 DEF PublishResp, clientVars, RespInodes
  <1>7. CASE RemoveProc
    BY <1>7 DEF RemoveProc, clientVars, histVars
  <1>8. CASE Crash
    BY <1>8 DEF Crash, clientVars, histVars
  <1>9. ASSUME NEW c \in Clients, Submit(c) PROVE TypeInv'
    BY <1>9 DEF Submit, luaVars, histVars, Requests
  <1>10. ASSUME NEW c \in Clients, Fill(c) PROVE TypeInv'
    BY <1>10 DEF Fill, luaVars, histVars, Current, Requests
  <1>11. ASSUME NEW c \in Clients, Consume(c) PROVE TypeInv'
    BY <1>11 DEF Consume, luaVars, Current, Requests
  <1>12. ASSUME NEW c \in Clients, GiveUp(c) PROVE TypeInv'
    BY <1>12 DEF GiveUp, luaVars, histVars
  <1>13. CASE Finished \/ UNCHANGED vars
    BY <1>13 DEF Finished, vars, luaVars, clientVars, histVars
  <1>14. QED
    BY <1>1, <1>2, <1>3, <1>4, <1>5, <1>6, <1>7, <1>8, <1>9, <1>10,
       <1>11, <1>12, <1>13 DEF Next, LuaNext, ClientNext

\* Every state the bridge and its producers reach is well typed: each file
\* holds a request or response of the model or nothing, process_commands
\* is at one of its steps, and the counters stay within their bounds.
THEOREM TypeCorrect == Spec => []TypeOK
  <1>1. Spec => []TypeInv
    BY TypeInvInit, TypeInvStep, PTL DEF Spec
  <1>2. QED
    BY <1>1, PTL DEF TypeInv

-----------------------------------------------------------------------------
(* At most one dispatch per request.                                       *)

\* The parts of DispatchInv beyond TypeInv.
DispatchParts ==
  /\ AtMostOnceDispatch
  /\ \A c \in Clients, n \in 1..MaxReq :
       n > sent[c] => /\ dcount[<<c, n>>] = 0
                      /\ cmdFile # <<c, n>>
                      /\ procFile # <<c, n>>
  /\ cmdFile # NoFile => dcount[cmdFile] = 0
  /\ luaPc = "claimed" => /\ procFile \in Requests
                          /\ dcount[procFile] = 0
                          /\ procFile # cmdFile

LEMMA DispatchInvInit == Init => DispatchInv
  BY TypeInvInit, NoFileAssumption
  DEF Init, DispatchInv, AtMostOnceDispatch, Requests

LEMMA DispatchInvStep == DispatchInv /\ [Next]_vars => DispatchInv'
  <1> SUFFICES ASSUME DispatchInv, [Next]_vars PROVE DispatchInv'
    OBVIOUS
  <1>0. TypeInv'
    BY TypeInvStep DEF DispatchInv
  <1> SUFFICES DispatchParts'
    BY <1>0 DEF DispatchInv, DispatchParts
  <1> USE BoundsAssumption, NoFileAssumption
      DEF DispatchInv, DispatchParts, AtMostOnceDispatch, TypeInv, TypeOK
  <1>1. CASE Claim
    BY <1>1 DEF Claim, clientVars, Requests
  <1>2. CASE ReadEmpty
    BY <1>2 DEF ReadEmpty, clientVars, histVars, Requests
  <1>3. CASE Dispatch
    BY <1>3 DEF Dispatch, clientVars, Requests
  <1>4. CASE OpenTmp
    BY <1>4 DEF OpenTmp, clientVars, histVars
  <1>5. CASE WriteTmp
    BY <1>5 DEF WriteTmp, clientVars, histVars
  <1>6. CASE PublishResp
    BY <1>6 DEF PublishResp, clientVars
  <1>7. CASE RemoveProc
    BY <1>7 DEF RemoveProc, clientVars, histVars, Requests
  <1>8. CASE Crash
    BY <1>8 DEF Crash, clientVars, histVars
  <1>9. ASSUME NEW c \in Clients, Submit(c) PROVE DispatchParts'
    BY <1>9 DEF Submit, luaVars, histVars, Requests
  <1>10. ASSUME NEW c \in Clients, Fill(c) PROVE DispatchParts'
    BY <1>10 DEF Fill, luaVars, histVars
  <1>11. ASSUME NEW c \in Clients, Consume(c) PROVE DispatchParts'
    BY <1>11 DEF Consume, luaVars
  <1>12. ASSUME NEW c \in Clients, GiveUp(c) PROVE DispatchParts'
    BY <1>12 DEF GiveUp, luaVars, histVars
  <1>13. CASE Finished \/ UNCHANGED vars
    BY <1>13 DEF Finished, vars, luaVars, clientVars, histVars
  <1>14. QED
    BY <1>1, <1>2, <1>3, <1>4, <1>5, <1>6, <1>7, <1>8, <1>9, <1>10,
       <1>11, <1>12, <1>13 DEF Next, LuaNext, ClientNext

\* spec.md 8, at-most-one dispatch: for any number of producers, requests,
\* crashes and failed opens, process_commands runs the handler of a
\* request at most once.  The rename of cmd.json to processing.json takes
\* the request out of the only path the poller claims from, and a
\* producer never reuses a request's name.
THEOREM AtMostOnceDispatchTheorem == Spec => []AtMostOnceDispatch
  <1>1. Spec => []DispatchInv
    BY DispatchInvInit, DispatchInvStep, PTL DEF Spec
  <1>2. QED
    BY <1>1, PTL DEF DispatchInv
-----------------------------------------------------------------------------
(* Torn responses.                                                         *)

\* Both faults have struck: darktable has died at least once and an
\* io.open of write_file has failed at least once.
Faulted == crashes >= 1 /\ openFails >= 1

\* A half-written response exists only after a crash in write_file (the
\* temp file is left as it was, line 234), is renamed only after an open
\* failed as well (write_file returns and line 301 renames the old temp
\* file), and so reaches response.json and a producer only then.
TornParts ==
  /\ tmpFile \in RespInodes /\ ~tmpFile.whole
       /\ luaPc \notin {"opened", "written"} => crashes >= 1
  /\ tmpFile \in RespInodes /\ ~tmpFile.whole /\ luaPc = "written"
       => Faulted
  /\ respFile \in RespInodes /\ ~respFile.whole => Faulted
  /\ \A d \in delivered : ~d[2].whole => Faulted

TornInv == TypeInv /\ TornParts

LEMMA TornInvInit == Init => TornInv
  BY TypeInvInit, NoFileAssumption DEF Init, TornInv, TornParts

LEMMA TornInvStep == TornInv /\ [Next]_vars => TornInv'
  <1> SUFFICES ASSUME TornInv, [Next]_vars PROVE TornInv'
    OBVIOUS
  <1>0. TypeInv'
    BY TypeInvStep DEF TornInv
  <1> SUFFICES TornParts'
    BY <1>0 DEF TornInv
  <1> USE BoundsAssumption, NoFileAssumption
      DEF TornInv, TornParts, Faulted, TypeInv, TypeOK
  <1>1. CASE Claim
    BY <1>1 DEF Claim
  <1>2. CASE ReadEmpty
    BY <1>2 DEF ReadEmpty, histVars
  <1>3. CASE Dispatch
    BY <1>3 DEF Dispatch
  <1>4. CASE OpenTmp
    <2>1. CASE tmpFile' = [req |-> luaReq, whole |-> FALSE]
                /\ luaPc' = "opened" /\ UNCHANGED openFails
      BY <1>4, <2>1 DEF OpenTmp, histVars
    <2>2. CASE openFails < MaxOpenFails /\ openFails' = openFails + 1
                /\ luaPc' = "written" /\ UNCHANGED tmpFile
      BY <1>4, <2>2 DEF OpenTmp, histVars
    <2>3. QED
      BY <1>4, <2>1, <2>2 DEF OpenTmp
  <1>5. CASE WriteTmp
    BY <1>5 DEF WriteTmp, histVars, RespInodes
  <1>6. CASE PublishResp
    BY <1>6 DEF PublishResp
  <1>7. CASE RemoveProc
    BY <1>7 DEF RemoveProc, histVars
  <1>8. CASE Crash
    BY <1>8 DEF Crash, histVars
  <1>9. ASSUME NEW c \in Clients, Submit(c) PROVE TornParts'
    BY <1>9 DEF Submit, luaVars, histVars
  <1>10. ASSUME NEW c \in Clients, Fill(c) PROVE TornParts'
    BY <1>10 DEF Fill, luaVars, histVars
  <1>11. ASSUME NEW c \in Clients, Consume(c) PROVE TornParts'
    BY <1>11 DEF Consume, luaVars
  <1>12. ASSUME NEW c \in Clients, GiveUp(c) PROVE TornParts'
    BY <1>12 DEF GiveUp, luaVars, histVars
  <1>13. CASE Finished \/ UNCHANGED vars
    BY <1>13 DEF Finished, vars, luaVars, clientVars, histVars
  <1>14. QED
    BY <1>1, <1>2, <1>3, <1>4, <1>5, <1>6, <1>7, <1>8, <1>9, <1>10,
       <1>11, <1>12, <1>13 DEF Next, LuaNext, ClientNext

\* spec.md 3, no torn read: a producer takes a half-written response from
\* response.json only in a behaviour where darktable died inside
\* write_file and a later io.open of the temp file failed.  With either
\* fault absent (as in bridge_faults, which has no failed opens) no
\* delivered response is torn; the run stale_temp shows the two together.
THEOREM ResponseNeverTornTheorem ==
  ASSUME MaxCrashes = 0 \/ MaxOpenFails = 0
  PROVE  Spec => []ResponseNeverTorn
  <1>1. Spec => []TornInv
    BY TornInvInit, TornInvStep, PTL DEF Spec
  <1>2. TornInv => ResponseNeverTorn
    BY DEF TornInv, TornParts, Faulted, TypeInv, TypeOK, ResponseNeverTorn
  <1>3. QED
    BY <1>1, <1>2, PTL

-----------------------------------------------------------------------------
(* Correlation of responses with one patient producer.                      *)

\* With c0 the only producer, everything on the response path belongs to
\* the request c0 is currently submitting or waiting for: the claimed
\* command, the decoded request, the temp file and response.json.  While
\* response.json exists the poller has finished its tick (it is between
\* the rename of line 301 and the next claim), and no newer request is
\* in cmd.json, since c0 submits only after it has consumed the answer.
CorrParts(c0) ==
  /\ luaPc = "claimed" => /\ procFile = Current(c0)
                          /\ clientPc[c0] # "idle"
                          /\ cmdFile = NoFile
  /\ luaPc \in {"dispatched", "opened", "written"}
       => /\ luaReq = Current(c0)
          /\ clientPc[c0] = "waiting"
          /\ cmdFile = NoFile
  /\ tmpFile # NoFile => /\ tmpFile.req = Current(c0)
                         /\ clientPc[c0] = "waiting"
                         /\ cmdFile = NoFile
  /\ respFile # NoFile => /\ respFile.req = Current(c0)
                          /\ clientPc[c0] = "waiting"
                          /\ cmdFile = NoFile
                          /\ tmpFile = NoFile
                          /\ luaPc \in {"idle", "renamed"}
  /\ cmdFile # NoFile => cmdFile = Current(c0) /\ clientPc[c0] # "idle"
  /\ clientPc[c0] = "writing" => Current(c0) \notin filled
  /\ \A n \in 1..MaxReq : n > sent[c0] => <<c0, n>> \notin filled
  /\ ResponseCorrelated

CorrInv(c0) == TypeInv /\ CorrParts(c0)

LEMMA CorrInvInit ==
  ASSUME NEW c0 \in Clients
  PROVE  Init => CorrInv(c0)
  BY TypeInvInit, NoFileAssumption
  DEF Init, CorrInv, CorrParts, ResponseCorrelated

LEMMA CorrInvStep ==
  ASSUME NEW c0, Clients = {c0}, MayTimeout = FALSE
  PROVE  CorrInv(c0) /\ [Next]_vars => CorrInv(c0)'
  <1> SUFFICES ASSUME CorrInv(c0), [Next]_vars PROVE CorrInv(c0)'
    OBVIOUS
  <1>0. TypeInv'
    BY TypeInvStep DEF CorrInv
  <1> SUFFICES CorrParts(c0)'
    BY <1>0 DEF CorrInv
  <1> USE BoundsAssumption, NoFileAssumption
      DEF CorrInv, CorrParts, ResponseCorrelated, TypeInv, TypeOK, Current
  <1>1. CASE Claim
    BY <1>1 DEF Claim, clientVars
  <1>2. CASE ReadEmpty
    BY <1>2 DEF ReadEmpty, clientVars, histVars
  <1>3. CASE Dispatch
    BY <1>3 DEF Dispatch, clientVars
  <1>4. CASE OpenTmp
    <2>1. CASE tmpFile' = [req |-> luaReq, whole |-> FALSE]
                /\ luaPc' = "opened" /\ UNCHANGED openFails
      BY <1>4, <2>1 DEF OpenTmp, clientVars, histVars
    <2>2. CASE openFails < MaxOpenFails /\ openFails' = openFails + 1
                /\ luaPc' = "written" /\ UNCHANGED tmpFile
      BY <1>4, <2>2 DEF OpenTmp, clientVars, histVars
    <2>3. QED
      BY <1>4, <2>1, <2>2 DEF OpenTmp
  <1>5. CASE WriteTmp
    BY <1>5 DEF WriteTmp, clientVars, histVars, RespInodes
  <1>6. CASE PublishResp
    BY <1>6 DEF PublishResp, clientVars
  <1>7. CASE RemoveProc
    BY <1>7 DEF RemoveProc, clientVars, histVars
  <1>8. CASE Crash
    BY <1>8 DEF Crash, clientVars, histVars
  <1>9. ASSUME NEW c \in Clients, Submit(c) PROVE CorrParts(c0)'
    <2>1. c = c0
      OBVIOUS
    <2>2. /\ luaPc \notin {"claimed", "dispatched", "opened", "written"}
          /\ tmpFile = NoFile /\ respFile = NoFile /\ cmdFile = NoFile
      BY <1>9, <2>1 DEF Submit
    <2>3. QED
      BY <1>9, <2>1, <2>2 DEF Submit, luaVars, histVars, Current, Requests
  <1>10. ASSUME NEW c \in Clients, Fill(c) PROVE CorrParts(c0)'
    BY <1>10 DEF Fill, luaVars, histVars, Current
  <1>11. ASSUME NEW c \in Clients, Consume(c) PROVE CorrParts(c0)'
    BY <1>11 DEF Consume, luaVars, Current
  <1>12. ASSUME NEW c \in Clients, GiveUp(c) PROVE CorrParts(c0)'
    BY <1>12 DEF GiveUp
  <1>13. CASE Finished \/ UNCHANGED vars
    BY <1>13 DEF Finished, vars, luaVars, clientVars, histVars
  <1>14. QED
    BY <1>1, <1>2, <1>3, <1>4, <1>5, <1>6, <1>7, <1>8, <1>9, <1>10,
       <1>11, <1>12, <1>13 DEF Next, LuaNext, ClientNext

\* spec.md 3 and 8 scenario C: with a single producer that waits for its
\* answer (the run single_flight), every response it reads from
\* response.json answers the request it is waiting for, for any number of
\* requests, crashes and failed opens.  The runs late_response (a
\* producer that gives up) and the two producers of scenario C show that
\* neither hypothesis can be dropped.
THEOREM ResponseCorrelatedTheorem ==
  ASSUME NEW c0, Clients = {c0}, MayTimeout = FALSE
  PROVE  Spec => []ResponseCorrelated
  <1>1. c0 \in Clients
    OBVIOUS
  <1>2. Spec => []CorrInv(c0)
    BY <1>1, CorrInvInit, CorrInvStep, PTL DEF Spec
  <1>3. CorrInv(c0) => ResponseCorrelated
    BY DEF CorrInv, CorrParts
  <1>4. QED
    BY <1>2, <1>3, PTL
-----------------------------------------------------------------------------
(* The refinement of RequestLifecycle.                                     *)

\* A response on its way has been dispatched: the decoded request of the
\* tick, and the request of a temp file, even one left by a crashed tick;
\* and what is in response.json has been published.
RefParts ==
  /\ luaPc \in {"dispatched", "opened"} => dcount[luaReq] >= 1
  /\ tmpFile # NoFile => dcount[tmpFile.req] >= 1
  /\ respFile # NoFile => respFile.req \in published

RefInv == DispatchInv /\ RefParts

LEMMA RefInvInit == Init => RefInv
  BY DispatchInvInit DEF Init, RefInv, RefParts

LEMMA RefInvStep == RefInv /\ [Next]_vars => RefInv'
  <1> SUFFICES ASSUME RefInv, [Next]_vars PROVE RefInv'
    OBVIOUS
  <1>0. DispatchInv'
    BY DispatchInvStep DEF RefInv
  <1> SUFFICES RefParts'
    BY <1>0 DEF RefInv
  <1> USE BoundsAssumption, NoFileAssumption
      DEF RefInv, RefParts, DispatchInv, TypeInv, TypeOK
  <1>1. CASE Claim
    BY <1>1 DEF Claim
  <1>2. CASE ReadEmpty
    BY <1>2 DEF ReadEmpty, histVars
  <1>3. CASE Dispatch
    BY <1>3 DEF Dispatch, Requests
  <1>4. CASE OpenTmp
    <2>1. CASE tmpFile' = [req |-> luaReq, whole |-> FALSE]
                /\ luaPc' = "opened" /\ UNCHANGED openFails
      BY <1>4, <2>1 DEF OpenTmp, histVars
    <2>2. CASE openFails < MaxOpenFails /\ openFails' = openFails + 1
                /\ luaPc' = "written" /\ UNCHANGED tmpFile
      BY <1>4, <2>2 DEF OpenTmp, histVars
    <2>3. QED
      BY <1>4, <2>1, <2>2 DEF OpenTmp
  <1>5. CASE WriteTmp
    BY <1>5 DEF WriteTmp, histVars
  <1>6. CASE PublishResp
    BY <1>6 DEF PublishResp
  <1>7. CASE RemoveProc
    BY <1>7 DEF RemoveProc, histVars
  <1>8. CASE Crash
    BY <1>8 DEF Crash, histVars
  <1>9. ASSUME NEW c \in Clients, Submit(c) PROVE RefParts'
    BY <1>9 DEF Submit, luaVars, histVars
  <1>10. ASSUME NEW c \in Clients, Fill(c) PROVE RefParts'
    BY <1>10 DEF Fill, luaVars, histVars
  <1>11. ASSUME NEW c \in Clients, Consume(c) PROVE RefParts'
    BY <1>11 DEF Consume, luaVars
  <1>12. ASSUME NEW c \in Clients, GiveUp(c) PROVE RefParts'
    BY <1>12 DEF GiveUp, luaVars, histVars
  <1>13. CASE Finished \/ UNCHANGED vars
    BY <1>13 DEF Finished, vars, luaVars, clientVars, histVars
  <1>14. QED
    BY <1>1, <1>2, <1>3, <1>4, <1>5, <1>6, <1>7, <1>8, <1>9, <1>10,
       <1>11, <1>12, <1>13 DEF Next, LuaNext, ClientNext

\* A step that changes none of sent, dcount, published and delivered is a
\* stuttering step of the lifecycle.
LEMMA LifecycleStutter ==
  ASSUME UNCHANGED <<sent, dcount, published, delivered>>
  PROVE  UNCHANGED Lifecycle!lvars
  BY DEF Lifecycle!lvars, SubmittedReqs, TakenReqs

LEMMA LifecycleStep ==
  RefInv /\ [Next]_vars => [Lifecycle!Next]_Lifecycle!lvars
  <1> SUFFICES ASSUME RefInv, [Next]_vars
               PROVE  [Lifecycle!Next]_Lifecycle!lvars
    OBVIOUS
  <1> USE BoundsAssumption, NoFileAssumption
      DEF RefInv, RefParts, DispatchInv, TypeInv, TypeOK, SubmittedReqs,
          TakenReqs
  <1>1. CASE Claim \/ ReadEmpty \/ OpenTmp \/ WriteTmp \/ RemoveProc \/ Crash
    BY <1>1, LifecycleStutter
    DEF Claim, ReadEmpty, OpenTmp, WriteTmp, RemoveProc, Crash,
        clientVars, histVars
  <1>2. CASE Dispatch
    <2>1. procFile \in SubmittedReqs /\ dcount[procFile] = 0
      BY <1>2 DEF Dispatch, SubmittedReqs, Requests
    <2>2. dcount' = [dcount EXCEPT ![procFile] = 1]
      BY <1>2, <2>1 DEF Dispatch
    <2>3. Lifecycle!Run(procFile)
      BY <1>2, <2>1, <2>2
      DEF Lifecycle!Run, Dispatch, clientVars, SubmittedReqs
    <2>4. procFile \in Requests
      BY <1>2 DEF Dispatch
    <2>5. Lifecycle!Next
      BY <2>3, <2>4 DEF Lifecycle!Next, Lifecycle!Run
    <2>6. QED
      BY <2>5
  <1>3. CASE PublishResp
    <2>1. CASE tmpFile # NoFile
      <3>1. dcount[tmpFile.req] = 1
        BY <2>1 DEF AtMostOnceDispatch, RespInodes
      <3>2. Lifecycle!Answer(tmpFile.req)
        BY <1>3, <2>1, <3>1 DEF Lifecycle!Answer, PublishResp, clientVars
      <3>3. tmpFile.req \in Requests
        BY <2>1 DEF RespInodes
      <3>4. Lifecycle!Next
        BY <3>2, <3>3 DEF Lifecycle!Next
      <3>5. QED
        BY <3>4
    <2>2. CASE tmpFile = NoFile
      BY <1>3, <2>2, LifecycleStutter DEF PublishResp, clientVars
    <2>3. QED
      BY <2>1, <2>2
  <1>4. ASSUME NEW c \in Clients, Submit(c)
        PROVE  [Lifecycle!Next]_Lifecycle!lvars
    <2> DEFINE r == <<c, sent[c] + 1>>
    <2>1. r \in Requests \ SubmittedReqs
      BY <1>4 DEF Submit, SubmittedReqs, Requests
    <2>2. SubmittedReqs' = SubmittedReqs \cup {r}
      BY <1>4 DEF Submit, SubmittedReqs, Requests
    <2>3. Lifecycle!Submit(r)
      BY <1>4, <2>1, <2>2 DEF Lifecycle!Submit, Submit, histVars, SubmittedReqs
    <2>4. Lifecycle!Next
      BY <2>1, <2>3 DEF Lifecycle!Next, Lifecycle!Submit
    <2>5. QED
      BY <2>4
  <1>5. ASSUME NEW c \in Clients, Consume(c)
        PROVE  [Lifecycle!Next]_Lifecycle!lvars
    <2>1. respFile.req \in published /\ respFile.req \in Requests
      BY <1>5 DEF Consume, RespInodes
    <2>2. TakenReqs' = TakenReqs \cup {respFile.req}
      <3>1. delivered' = delivered \cup {<<Current(c), respFile>>}
        BY <1>5 DEF Consume
      <3>2. <<Current(c), respFile>>[2].req = respFile.req
        OBVIOUS
      <3>3. QED
        BY <3>1, <3>2 DEF TakenReqs
    <2>3. Lifecycle!Take(respFile.req)
      BY <1>5, <2>1, <2>2 DEF Lifecycle!Take, Consume, TakenReqs
    <2>4. Lifecycle!Next
      BY <2>1, <2>3 DEF Lifecycle!Next, Lifecycle!Take
    <2>5. QED
      BY <2>4
  <1>6. ASSUME NEW c \in Clients, Fill(c) \/ GiveUp(c)
        PROVE  [Lifecycle!Next]_Lifecycle!lvars
    BY <1>6, LifecycleStutter DEF Fill, GiveUp, histVars
  <1>7. CASE Finished \/ UNCHANGED vars
    BY <1>7, LifecycleStutter DEF Finished, vars, clientVars, histVars
  <1>8. QED
    BY <1>1, <1>2, <1>3, <1>4, <1>5, <1>6, <1>7 DEF Next, LuaNext, ClientNext

\* spec.md 3 and 8: McpBridge implements RequestLifecycle, for every number
\* of producers, requests, crashes and failed opens: process_commands runs
\* only a submitted request and never runs one twice (a second dispatch
\* changes runs and is no step of the lifecycle), publishes only for a request
\* it ran (a stale temp file included), and producers read only published
\* responses.  The run bridge_faults checks the same refinement.
THEOREM LifecycleRefinement == Spec => LifecycleSpec
  <1>1. Init => Lifecycle!Init
    BY BoundsAssumption
    DEF Init, Lifecycle!Init, Requests, SubmittedReqs, TakenReqs
  <1>2. Spec => []RefInv
    BY RefInvInit, RefInvStep, PTL DEF Spec
  <1>3. QED
    BY <1>1, <1>2, LifecycleStep, PTL DEF Spec, LifecycleSpec, Lifecycle!Spec
=============================================================================
