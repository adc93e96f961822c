------------------------- MODULE ServerConn_proofs -------------------------
(***************************************************************************)
(* Proofs about ServerConn, for any number of threads, calls and            *)
(* connections: type correctness, that a future which has left the table is *)
(* set, and that the calls to the server implement Calls.                   *)
(***************************************************************************)
EXTENDS ServerConn, TLAPS

-----------------------------------------------------------------------------
(* Types. *)

CallerRecord == [at : CallerAt, id : 0..MaxCalls,
                 op : CallOps \cup {"none", "start", "stop", "unregister"}]

CallerType ==
  /\ caller \in [Callers -> CallerRecord]
  /\ \A p \in Callers :
       caller[p].at \in {"test", "use", "wait"} => caller[p].id # 0 /\ caller[p].op \in CallOps

(* A thread goes on in its operation, or returns.                            *)
LEMMA GotoType ==
  ASSUME CallerType, NEW p \in Callers, NEW pc \in CallerAt, Goto(p, pc),
         pc \in {"test", "use", "wait"} => caller[p].at \in {"test", "use", "wait"}
  PROVE  /\ CallerType'
         /\ caller'[p].at = pc /\ caller'[p].op = caller[p].op /\ caller'[p].id = caller[p].id
         /\ \A q \in Callers : q # p => caller'[q] = caller[q]
BY DEF CallerType, Goto, CallerRecord

LEMMA ReturnType ==
  ASSUME CallerType, NEW p \in Callers, Return(p)
  PROVE  /\ CallerType'
         /\ caller'[p].at = "idle"
         /\ \A q \in Callers : q # p => caller'[q] = caller[q]
<1>1. Idle \in CallerRecord /\ Idle.at = "idle"
  BY ServerConnAssumption DEF Idle, CallerRecord, CallerAt
<1> QED BY <1>1 DEF CallerType, Return

(* A thread begins an operation.                                             *)
LEMMA BeginType ==
  ASSUME CallerType, NEW p \in Callers, NEW c \in CallerRecord,
         caller' = [caller EXCEPT ![p] = c],
         c.at \in {"test", "use", "wait"} => c.id # 0 /\ c.op \in CallOps
  PROVE  /\ CallerType'
         /\ caller'[p] = c
         /\ \A q \in Callers : q # p => caller'[q] = caller[q]
BY DEF CallerType

LEMMA CallerTypeStep ==
  ASSUME TypeOK, [Next]_vars
  PROVE  CallerType'
<1> USE DEF loopvars, tcpvars, futvars, netvars
<1>0. CallerType
  BY DEF TypeOK, CallerType, CallerRecord
<1>a. ASSUME UNCHANGED caller
      PROVE  CallerType'
  BY <1>0, <1>a DEF CallerType
<1>b. CASE Crash
  BY <1>a, <1>b DEF Crash
<1>1. ASSUME NEW p \in Callers, NEW op \in CallOps, BeginCall(p, op)
      PROVE  CallerType'
  <2>1. future_inc_id_ + 1 \in 1..MaxCalls
    BY <1>1, ServerConnAssumption DEF BeginCall, safe_insert_future, TypeOK
  <2>2. [at |-> "test", op |-> op, id |-> future_inc_id_ + 1] \in CallerRecord
    BY <2>1 DEF CallerRecord, CallerAt
  <2> DEFINE c == [at |-> "test", op |-> op, id |-> future_inc_id_ + 1]
  <2>3. c \in CallerRecord /\ c.id # 0 /\ c.op \in CallOps /\ caller' = [caller EXCEPT ![p] = c]
    BY <1>1, <2>1, <2>2 DEF BeginCall
  <2> HIDE DEF c
  <2> QED BY <1>0, <2>3, BeginType
<1>2. ASSUME NEW p \in Callers,
             \/ RegisterNetMsgBusReceiver(p) \/ UpdateReceiverBusyState(p)
             \/ PostNetMsgUseServerRelay(p) \/ ReqReceiverInfo(p) \/ QueryAvailableServices(p)
      PROVE  CallerType'
  BY <1>1, <1>2 DEF RegisterNetMsgBusReceiver, UpdateReceiverBusyState, PostNetMsgUseServerRelay,
                    ReqReceiverInfo, QueryAvailableServices, CallOps
<1>3. ASSUME NEW p \in Callers, StartServerCommunicateLoop(p)
      PROVE  CallerType'
  <2> DEFINE c == [at |-> "connect", op |-> "start", id |-> 0]
  <2>1. c \in CallerRecord /\ c.at = "connect" /\ caller' = [caller EXCEPT ![p] = c]
    BY <1>3, ServerConnAssumption DEF StartServerCommunicateLoop, CallerRecord, CallerAt
  <2> HIDE DEF c
  <2> QED BY <1>0, <2>1, BeginType
<1>4. ASSUME NEW p \in Callers, NEW op \in {"unregister", "stop"}, BeginUnRegister(p, op)
      PROVE  CallerType'
  <2> DEFINE c == [at |-> IF m_server_connecting THEN "unreg_test" ELSE "mute_test", op |-> op, id |-> 0]
  <2>1. c \in CallerRecord /\ c.at \in {"unreg_test", "mute_test"} /\ caller' = [caller EXCEPT ![p] = c]
    BY <1>4, ServerConnAssumption DEF BeginUnRegister, CallerRecord, CallerAt
  <2> HIDE DEF c
  <2> QED BY <1>0, <2>1, BeginType
<1>5. ASSUME NEW p \in Callers, TestTcp(p) \/ SendRequest(p) \/ Join(p) \/ Timeout(p)
      PROVE  CallerType'
  BY <1>0, <1>5, <1>b, GotoType, ReturnType DEF TestTcp, SendRequest, Join, Timeout, CallerAt, At
<1>6. ASSUME NEW p \in Callers, Connect(p) \/ AddToLoop(p)
      PROVE  CallerType'
  BY <1>0, <1>6, <1>b, GotoType, ReturnType DEF Connect, AddToLoop, CallerAt, At
<1>7. ASSUME NEW p \in Callers, UnRegisterTest(p) \/ UnRegisterSend(p) \/ UnRegisterFlag(p)
      PROVE  CallerType'
  BY <1>0, <1>7, <1>b, GotoType, ReturnType
     DEF UnRegisterTest, UnRegisterSend, UnRegisterFlag, UnRegistered, CallerAt, At
<1>8. ASSUME NEW p \in Callers, MuteTest(p) \/ Mute(p) \/ Drop(p) \/ Reset(p)
      PROVE  CallerType'
  BY <1>0, <1>8, <1>b, GotoType, ReturnType DEF MuteTest, Mute, Drop, Reset, CallerAt, At
<1>9. ASSUME NEW q, NEW ok, ServerAnswers(q, ok)
      PROVE  CallerType'
  BY <1>a, <1>9 DEF ServerAnswers
<1>10. ASSUME NEW r, HandleRspRegister(r) \/ HandleRspGetClient(r) \/ HandleRspSendMsg(r)
                     \/ HandleQueryServicesRsp(r)
       PROVE  CallerType'
  BY <1>a, <1>10 DEF HandleRspRegister, HandleRspGetClient, HandleRspSendMsg,
                     HandleQueryServicesRsp, ProcessRspBody
<1>11. ASSUME NEW c, onServerTcpClose(c)
       PROVE  CallerType'
  BY <1>a, <1>11 DEF onServerTcpClose
<1>12. CASE LoopStep
  BY <1>a, <1>b, <1>12 DEF LoopStep, MuteRefused, safe_get_future, set_error, set_result, ResetLost
<1>13. CASE UNCHANGED vars
  BY <1>a, <1>13 DEF vars
<1> QED BY <1>2, <1>3, <1>4, <1>5, <1>6, <1>7, <1>8, <1>9, <1>10, <1>11, <1>12, <1>13
        DEF Next, Call

(* The connection.                                                           *)
LinkType ==
  /\ m_server_connecting \in BOOLEAN /\ m_server_tcp \in 0..MaxConns
  /\ m_isreceiver_registered \in BOOLEAN /\ crashed \in BOOLEAN
  /\ link \in [Conn -> {"none", "new", "up", "muted", "closed"}]

LEMMA LinkTypeStep ==
  ASSUME TypeOK, [Next]_vars
  PROVE  LinkType'
<1> USE DEF loopvars, tcpvars, futvars, netvars
<1>0. LinkType /\ MaxConns \in Nat /\ answers \subseteq Answer
  BY ServerConnAssumption DEF TypeOK, LinkType
<1>a. ASSUME UNCHANGED <<tcpvars, m_isreceiver_registered, crashed>>
      PROVE  LinkType'
  BY <1>0, <1>a DEF LinkType
<1>b. CASE Crash
  BY <1>0, <1>b DEF LinkType, Crash
<1>1. ASSUME NEW p \in Callers,
             \/ RegisterNetMsgBusReceiver(p) \/ UpdateReceiverBusyState(p)
             \/ PostNetMsgUseServerRelay(p) \/ ReqReceiverInfo(p) \/ QueryAvailableServices(p)
      PROVE  LinkType'
  BY <1>a, <1>1 DEF RegisterNetMsgBusReceiver, UpdateReceiverBusyState, PostNetMsgUseServerRelay,
                    ReqReceiverInfo, QueryAvailableServices, BeginCall
<1>2. ASSUME NEW p \in Callers, StartServerCommunicateLoop(p)
      PROVE  LinkType'
  BY <1>0, <1>2 DEF StartServerCommunicateLoop, LinkType, Conn
<1>3. ASSUME NEW p \in Callers, NEW op, BeginUnRegister(p, op)
      PROVE  LinkType'
  BY <1>a, <1>3 DEF BeginUnRegister
<1>4. ASSUME NEW p \in Callers, TestTcp(p) \/ SendRequest(p) \/ Join(p) \/ Timeout(p)
      PROVE  LinkType'
  BY <1>a, <1>b, <1>4 DEF TestTcp, SendRequest, Join, Timeout
<1>5. ASSUME NEW p \in Callers, Connect(p) \/ AddToLoop(p)
      PROVE  LinkType'
  <2>1. ASSUME m_server_tcp # 0
        PROVE  m_server_tcp \in Conn
    BY <1>0, <2>1 DEF LinkType, Conn
  <2>2. CASE Connect(p)
    BY <1>0, <1>b, <2>1, <2>2 DEF Connect, TcpConnect, LinkType
  <2>3. CASE AddToLoop(p)
    BY <1>0, <1>b, <2>1, <2>3 DEF AddToLoop, LinkType
  <2> QED BY <1>5, <2>2, <2>3
<1>6. ASSUME NEW p \in Callers, UnRegisterTest(p) \/ UnRegisterSend(p) \/ MuteTest(p)
      PROVE  LinkType'
  BY <1>a, <1>b, <1>6 DEF UnRegisterTest, UnRegisterSend, MuteTest
<1>7. ASSUME NEW p \in Callers, UnRegisterFlag(p)
      PROVE  LinkType'
  BY <1>0, <1>7 DEF UnRegisterFlag, LinkType
<1>c. ASSUME DisAllowSend
      PROVE  link' \in [Conn -> {"none", "new", "up", "muted", "closed"}]
  BY <1>0, <1>c DEF DisAllowSend, LinkType
<1>8. ASSUME NEW p \in Callers, Mute(p) \/ Drop(p) \/ Reset(p)
      PROVE  LinkType'
  <2>1. CASE Mute(p)
    BY <1>0, <1>b, <1>c, <2>1 DEF Mute, LinkType
  <2>2. CASE Drop(p)
    BY <1>0, <2>2 DEF Drop, LinkType
  <2>3. CASE Reset(p)
    BY <1>0, <2>3 DEF Reset, LinkType
  <2> QED BY <1>8, <2>1, <2>2, <2>3
<1>9. ASSUME NEW q, NEW ok, ServerAnswers(q, ok)
      PROVE  LinkType'
  BY <1>a, <1>9 DEF ServerAnswers
<1>10. ASSUME NEW r \in answers, HandleRspRegister(r)
       PROVE  LinkType'
  <2>1. r.ok \in BOOLEAN
    BY <1>0 DEF Answer
  <2> QED BY <1>0, <1>10, <2>1 DEF HandleRspRegister, ProcessRspBody, LinkType
<1>11. ASSUME NEW r, HandleRspGetClient(r) \/ HandleRspSendMsg(r) \/ HandleQueryServicesRsp(r)
       PROVE  LinkType'
  BY <1>a, <1>11 DEF HandleRspGetClient, HandleRspSendMsg, HandleQueryServicesRsp, ProcessRspBody
<1>12. ASSUME NEW c \in Conn, onServerTcpClose(c)
       PROVE  LinkType'
  BY <1>0, <1>12 DEF onServerTcpClose, LinkType
<1>13. CASE MuteRefused \/ ResetLost
  BY <1>0, <1>b, <1>c, <1>13 DEF MuteRefused, ResetLost, LinkType
<1>14. CASE safe_get_future \/ set_error \/ set_result
  BY <1>a, <1>14 DEF safe_get_future, set_error, set_result
<1>15. CASE UNCHANGED vars
  BY <1>a, <1>15 DEF vars
<1> QED BY <1>1, <1>2, <1>3, <1>4, <1>5, <1>6, <1>7, <1>8, <1>9, <1>10, <1>11, <1>12, <1>13, <1>14, <1>15
        DEF Next, Call, LoopStep

-----------------------------------------------------------------------------
(* The steps as the calls see them: what happens to callers, futures,        *)
(* requests and answers.                                                     *)

Holds(p) == caller[p].at \in {"test", "use", "wait"}
Busy == loop \in {"mute", "take", "fail", "ready"}

(* One thread moves, between places where it has no call under way.          *)
MovesAside(p) ==
  /\ ~Holds(p) /\ ~Holds(p)'
  /\ \A q \in Callers : q # p => caller'[q] = caller[q]

(* Nothing that a call depends on, but requests and answers may be lost, the *)
(* loop may reset a lost connection or mute it, and the flag may fall.       *)
Aside ==
  /\ UNCHANGED <<futvars, answer, outcome>>
  /\ asked' \subseteq asked /\ answers' \subseteq answers
  /\ \/ UNCHANGED <<loop, hand>>
     \/ loop \in {"idle", "lost"} /\ loop' \in {"idle", "lost"} /\ UNCHANGED hand
     \/ loop = "mute" /\ loop' = "take" /\ UNCHANGED hand
  /\ UNCHANGED m_isreceiver_registered \/ m_isreceiver_registered' = FALSE
  /\ UNCHANGED caller \/ \E p \in Callers : MovesAside(p)

(* A call ends in its own thread.                                            *)
EndsCall(p, r) ==
  /\ Holds(p) /\ Return(p) /\ Ends(caller[p].id, r)
  /\ UNCHANGED <<m_isreceiver_registered, futvars, netvars, loopvars>>

Sends(p) ==
  /\ At(p, "use") /\ m_server_tcp # 0
  /\ asked' = asked \cup {[id |-> caller[p].id, op |-> caller[p].op, conn |-> m_server_tcp]}
  /\ IF caller[p].op = "lookup" THEN Return(p) ELSE Goto(p, "wait")
  /\ UNCHANGED <<m_isreceiver_registered, futvars, answers, answer, loopvars, outcome>>

Tests(p) ==
  /\ At(p, "test") /\ Goto(p, "use")
  /\ UNCHANGED <<m_isreceiver_registered, futvars, netvars, loopvars, outcome>>

Takes(r) ==
  /\ loop = "idle" /\ answers' = answers \ {r} /\ hand' = r
  /\ loop' \in {"mute", "take"}
  /\ loop' = "mute" => r.op \in Registers
  /\ r.op \in Registers => m_isreceiver_registered' = r.ok
  /\ UNCHANGED <<futvars, caller, asked, answer, outcome>>

CallStep ==
  \/ Aside
  \/ \E p \in Callers, op \in CallOps : BeginCall(p, op)
  \/ \E p \in Callers : Tests(p) \/ Sends(p) \/ EndsCall(p, "false") \/ Join(p)
  \/ \E q \in asked, ok \in BOOLEAN : ServerAnswers(q, ok)
  \/ \E r \in answers : Takes(r)
  \/ safe_get_future \/ set_error \/ set_result

LEMMA CallSteps ==
  ASSUME TypeOK, [Next]_vars
  PROVE  CallStep
<1> USE DEF loopvars, tcpvars, futvars, netvars
<1>0. CallerType
  BY DEF TypeOK, CallerType, CallerRecord
<1>b. CASE Crash
  BY <1>b DEF Crash, CallStep, Aside
<1>1. ASSUME NEW p \in Callers,
             \/ RegisterNetMsgBusReceiver(p) \/ UpdateReceiverBusyState(p)
             \/ PostNetMsgUseServerRelay(p) \/ ReqReceiverInfo(p) \/ QueryAvailableServices(p)
      PROVE  CallStep
  BY <1>1 DEF RegisterNetMsgBusReceiver, UpdateReceiverBusyState, PostNetMsgUseServerRelay,
              ReqReceiverInfo, QueryAvailableServices, CallStep, CallOps
<1>m. ASSUME NEW p \in Callers, ~Holds(p), CallerType', ~Holds(p)',
             \A q \in Callers : q # p => caller'[q] = caller[q],
             UNCHANGED <<futvars, netvars, loopvars, outcome>>,
             UNCHANGED m_isreceiver_registered \/ m_isreceiver_registered' = FALSE
      PROVE  CallStep
  <2>1. MovesAside(p)
    BY <1>m DEF MovesAside
  <2> QED BY <1>m, <2>1 DEF CallStep, Aside
<1>2. ASSUME NEW p \in Callers, StartServerCommunicateLoop(p)
      PROVE  CallStep
  BY <1>0, <1>2 DEF StartServerCommunicateLoop, CallStep, Aside, MovesAside, Holds, At, CallerType
<1>3. ASSUME NEW p \in Callers, NEW op \in {"unregister", "stop"}, BeginUnRegister(p, op)
      PROVE  CallStep
  BY <1>0, <1>3 DEF BeginUnRegister, CallStep, Aside, MovesAside, Holds, At, CallerType
<1>4. ASSUME NEW p \in Callers, TestTcp(p)
      PROVE  CallStep
  BY <1>4 DEF TestTcp, CallStep, Tests, EndsCall, Holds, At
<1>5. ASSUME NEW p \in Callers, SendRequest(p)
      PROVE  CallStep
  <2>1. CASE CanSend /\ ~Crash
    BY <1>5, <2>1 DEF SendRequest, CanSend, CallStep, Sends
  <2>2. CASE ~CanSend /\ ~Crash
    BY <1>5, <2>2 DEF SendRequest, CallStep, EndsCall, Holds, At
  <2> QED BY <1>b, <2>1, <2>2
<1>6. ASSUME NEW p \in Callers, Join(p) \/ Timeout(p)
      PROVE  CallStep
  BY <1>6 DEF Timeout, CallStep, EndsCall, Holds, At
<1>7. ASSUME NEW p \in Callers, ~Crash,
             \/ Connect(p) \/ AddToLoop(p)
             \/ UnRegisterTest(p) \/ UnRegisterSend(p) \/ UnRegisterFlag(p)
             \/ MuteTest(p) \/ Mute(p) \/ Drop(p) \/ Reset(p)
      PROVE  CallStep
  <2>1. /\ ~Holds(p)
        /\ UNCHANGED <<futvars, netvars, loopvars, outcome>>
        /\ UNCHANGED m_isreceiver_registered \/ m_isreceiver_registered' = FALSE
    BY <1>7 DEF Connect, AddToLoop, UnRegisterTest, UnRegisterSend, UnRegisterFlag,
                MuteTest, Mute, Drop, Reset, At, Holds
  <2>2. Return(p) \/ \E pc \in CallerAt \ {"test", "use", "wait"} : Goto(p, pc)
    BY <1>7 DEF Connect, AddToLoop, UnRegisterTest, UnRegisterSend, UnRegisterFlag, UnRegistered,
                MuteTest, Mute, Drop, Reset, CallerAt
  <2>3. /\ CallerType' /\ caller'[p].at \notin {"test", "use", "wait"}
        /\ \A q \in Callers : q # p => caller'[q] = caller[q]
    BY <1>0, <2>2, GotoType, ReturnType
  <2> QED BY <1>m, <2>1, <2>3 DEF Holds
<1>8. ASSUME NEW r \in answers, HandleRspRegister(r)
      PROVE  CallStep
  <2>1. r.op \in Registers
    BY <1>8 DEF HandleRspRegister, ProcessRspBody
  <2> QED BY <1>8, <2>1 DEF HandleRspRegister, ProcessRspBody, CallStep, Takes
<1>9. ASSUME NEW r \in answers,
             HandleRspGetClient(r) \/ HandleRspSendMsg(r) \/ HandleQueryServicesRsp(r)
      PROVE  CallStep
  BY <1>9 DEF HandleRspGetClient, HandleRspSendMsg, HandleQueryServicesRsp, ProcessRspBody,
              CallStep, Takes, Registers
<1>10. ASSUME NEW c \in Conn, onServerTcpClose(c)
       PROVE  CallStep
  BY <1>10 DEF onServerTcpClose, CallStep, Aside
<1>11. CASE MuteRefused \/ ResetLost
  BY <1>b, <1>11 DEF MuteRefused, ResetLost, CallStep, Aside
<1>12. CASE UNCHANGED vars
  BY <1>12 DEF vars, CallStep, Aside
<1> QED BY <1>b, <1>1, <1>2, <1>3, <1>4, <1>5, <1>6, <1>7, <1>8, <1>9, <1>10, <1>11, <1>12
        DEF Next, Call, LoopStep, CallStep

-----------------------------------------------------------------------------
(* The inductive invariant: every id is on its way in at most one place, and *)
(* what is known of a call agrees with what the server answered.             *)

DataType ==
  /\ future_inc_id_ \in 0..MaxCalls /\ sendmsg_rsp_container_ \subseteq 1..future_inc_id_
  /\ future \in [Id -> [ready : BOOLEAN, err : BOOLEAN, ok : BOOLEAN]]
  /\ asked \subseteq Request /\ answers \subseteq Answer
  /\ loop \in {"idle", "mute", "take", "fail", "ready", "lost"}
  /\ hand \in Answer \cup {NoAnswer}
  /\ Busy => hand \in Answer
  /\ answer \in [Id -> {"none", "ok", "bad"}]
  /\ outcome \in [Id -> {"none", "true", "false"}]

(* Two threads never have the same call, and their calls have not ended.     *)
CallerIds ==
  \A p \in Callers : Holds(p) =>
    /\ caller[p].id \in 1..future_inc_id_
    /\ outcome[caller[p].id] = "none"
    /\ \A q \in Callers : q # p /\ Holds(q) => caller[q].id # caller[p].id

(* Before the request is sent nobody else knows the id.                      *)
Unsent ==
  \A p \in Callers : caller[p].at \in {"test", "use"} =>
    /\ caller[p].id \in sendmsg_rsp_container_
    /\ ~future[caller[p].id].ready
    /\ answer[caller[p].id] = "none"
    /\ \A q \in asked : q.id # caller[p].id

(* A request or an answer is that of the call with its id.                   *)
Belongs(q) ==
  /\ q.id \in 1..future_inc_id_
  /\ \A p \in Callers : caller[p].at = "wait" /\ caller[p].id = q.id => caller[p].op = q.op
  /\ q.op = "lookup" => outcome[q.id] = "none"

Asked ==
  \A q \in asked :
    /\ Belongs(q) /\ answer[q.id] = "none"
    /\ \A r \in asked : r.id = q.id => r = q

Genuine(r) ==
  /\ Belongs(r) /\ answer[r.id] = (IF r.ok THEN "ok" ELSE "bad")
  /\ r.op = "query" => r.ok

Answers ==
  \A r \in answers :
    /\ Genuine(r)
    /\ \A s \in answers : s.id = r.id => s = r
    /\ Busy => hand.id # r.id

(* The flag has not been set again since a refused registration was taken,   *)
(* and no future is made ready for a refusal without its error.              *)
Hand ==
  Busy =>
    /\ Genuine(hand)
    /\ loop = "mute" => hand.op \in Registers
    /\ loop \in {"mute", "take"} /\ hand.op \in Registers /\ ~hand.ok => ~m_isreceiver_registered
    /\ loop = "ready" /\ ~future[hand.id].err /\ hand.op \notin {"getclient", "lookup"} => hand.ok

Waiting ==
  \A p \in Callers : caller[p].at = "wait" =>
    /\ caller[p].op # "lookup"
    /\ future[caller[p].id].ready /\ Success(p) => answer[caller[p].id] = "ok"

Fresh ==
  \A i \in Id : i > future_inc_id_ => ~future[i].ready /\ answer[i] = "none" /\ outcome[i] = "none"

CallInv == /\ DataType /\ CallerIds /\ Unsent /\ Asked /\ Answers /\ Hand /\ Waiting /\ Fresh
           /\ TakenIsSet

ConnInv == CallerType /\ LinkType /\ CallInv

LEMMA IdType ==
  /\ \A q \in Request : q.id \in Id /\ q.op \in CallOps
  /\ \A r \in Answer : r.id \in Id /\ r.op \in CallOps /\ r.ok \in BOOLEAN
BY DEF Request, Answer

LEMMA HolderId ==
  ASSUME ConnInv, NEW p \in Callers, Holds(p)
  PROVE  caller[p].id \in Id /\ caller[p].op \in CallOps /\ caller[p] \in CallerRecord
<1>1. caller[p] \in CallerRecord /\ caller[p].id # 0 /\ caller[p].op \in CallOps
  BY DEF ConnInv, CallerType, Holds
<1>2. caller[p].id \in 0..MaxCalls
  BY <1>1 DEF CallerRecord
<1> QED BY <1>1, <1>2, ServerConnAssumption DEF Id

LEMMA AsideInv ==
  ASSUME ConnInv, CallerType', Aside
  PROVE  CallInv'
<1> USE DEF ConnInv, CallInv, futvars
<1>1. \A p \in Callers : Holds(p)' => Holds(p) /\ caller'[p] = caller[p]
  BY DEF Aside, MovesAside, Holds
<1>2. \A p \in Callers : caller'[p].at \in {"test", "use", "wait"} => Holds(p)'
  BY DEF Holds
<1>3. Busy' => Busy
  BY DEF Aside, Busy
<1>4. UNCHANGED <<future_inc_id_, sendmsg_rsp_container_, future, answer, outcome, hand>>
  BY DEF Aside
<1>5. asked' \subseteq asked /\ answers' \subseteq answers
  BY DEF Aside
<1>6. loop' \in {"idle", "mute", "take", "fail", "ready", "lost"}
  BY DEF Aside, DataType
<1>7. DataType'
  BY <1>3, <1>4, <1>5, <1>6 DEF DataType
<1>8. CallerIds' /\ Unsent' /\ Fresh'
  BY <1>1, <1>2, <1>4, <1>5 DEF CallerIds, Unsent, Fresh, Holds
<1>9. \A q : Belongs(q) => Belongs(q)'
  BY <1>1, <1>2, <1>4 DEF Belongs
<1>10. Asked'
  BY <1>4, <1>5, <1>9 DEF Asked
<1>11. \A r : Genuine(r) => Genuine(r)'
  BY <1>4, <1>9 DEF Genuine
<1>12. Answers'
  BY <1>3, <1>4, <1>5, <1>11 DEF Answers
<1>13. Hand'
  BY <1>3, <1>4, <1>11 DEF Hand, Aside, Busy
<1>14. Waiting'
  BY <1>1, <1>2, <1>4 DEF Waiting, Success
<1>15. TakenIsSet'
  BY <1>1, <1>2, <1>4 DEF TakenIsSet, Aside
<1> QED BY <1>7, <1>8, <1>10, <1>12, <1>13, <1>14, <1>15

(* A new call has an id nobody knows.                                        *)
LEMMA BeginInv ==
  ASSUME ConnInv, NEW p \in Callers, NEW op \in CallOps, BeginCall(p, op)
  PROVE  CallInv'
<1> USE DEF ConnInv, CallInv, netvars, loopvars
<1> DEFINE i == future_inc_id_ + 1
<1>1. /\ future_inc_id_ \in Nat /\ i \in Id /\ i \in 1..MaxCalls /\ MaxCalls \in Nat
      /\ future_inc_id_' = i
      /\ sendmsg_rsp_container_' = sendmsg_rsp_container_ \cup {i}
  BY ServerConnAssumption DEF BeginCall, safe_insert_future, DataType, Id
<1>2. /\ caller'[p] = [at |-> "test", op |-> op, id |-> i]
      /\ \A q \in Callers : q # p => caller'[q] = caller[q]
      /\ ~Holds(p)
  BY DEF BeginCall, CallerType, At, Holds
<1>3. UNCHANGED <<future, asked, answers, answer, outcome, loop, hand, m_isreceiver_registered>>
  BY DEF BeginCall, safe_insert_future
<1> HIDE DEF i
<1>4. i > future_inc_id_
  BY <1>1 DEF i
<1>5. ~future[i].ready /\ answer[i] = "none" /\ outcome[i] = "none"
  BY <1>1, <1>4 DEF Fresh
<1>6. i \notin 1..future_inc_id_ /\ 1..future_inc_id_ \subseteq 1..i /\ i \in 1..i
  BY <1>1 DEF i
<1>7. DataType'
  BY <1>1, <1>3, <1>6 DEF DataType, Busy
<1>8. \A q \in Callers : q # p /\ Holds(q) => caller[q].id # i
  BY <1>6 DEF CallerIds
<1>9. caller'[p].at = "test" /\ caller'[p].id = i
  BY <1>2
<1>10. CallerIds'
  BY <1>1, <1>2, <1>3, <1>5, <1>6, <1>8, <1>9 DEF CallerIds, Holds
<1>11. \A q \in asked : q.id # i
  BY <1>6 DEF Asked, Belongs
<1>12. Unsent'
  BY <1>1, <1>2, <1>3, <1>5, <1>9, <1>11 DEF Unsent
<1>13. \A q : Belongs(q) => Belongs(q)'
  BY <1>1, <1>2, <1>3, <1>6, <1>9 DEF Belongs
<1>14. Asked'
  BY <1>3, <1>13 DEF Asked
<1>15. \A r : Genuine(r) => Genuine(r)'
  BY <1>3, <1>13 DEF Genuine
<1>16. Answers'
  BY <1>3, <1>15 DEF Answers, Busy
<1>17. Hand'
  BY <1>3, <1>15 DEF Hand, Busy
<1>18. Waiting'
  BY <1>2, <1>3, <1>9 DEF Waiting, Success
<1>19. Fresh'
  <2>1. \A j \in Id : j > i => j > future_inc_id_
    BY <1>1 DEF i, Id
  <2> QED BY <1>1, <1>3, <2>1 DEF Fresh
<1>20. TakenIsSet'
  BY <1>1, <1>2, <1>3, <1>9 DEF TakenIsSet
<1> QED BY <1>7, <1>10, <1>12, <1>14, <1>16, <1>17, <1>18, <1>19, <1>20

LEMMA TestsInv ==
  ASSUME ConnInv, NEW p \in Callers, Tests(p)
  PROVE  CallInv'
<1> USE DEF ConnInv, CallInv, netvars, loopvars, futvars
<1>1. /\ caller[p].at = "test" /\ caller'[p].at = "use"
      /\ caller'[p].op = caller[p].op /\ caller'[p].id = caller[p].id
      /\ \A q \in Callers : q # p => caller'[q] = caller[q]
  BY GotoType DEF Tests, At, CallerAt
<1>2. UNCHANGED <<future_inc_id_, sendmsg_rsp_container_, future, asked, answers, answer, outcome,
                  loop, hand, m_isreceiver_registered>>
  BY DEF Tests
<1>3. DataType' /\ Fresh'
  BY <1>2 DEF DataType, Fresh, Busy
<1>4. CallerIds'
  BY <1>1, <1>2 DEF CallerIds, Holds
<1>5. Unsent'
  BY <1>1, <1>2 DEF Unsent
<1>6. \A q : Belongs(q) => Belongs(q)'
  BY <1>1, <1>2 DEF Belongs
<1>7. Asked'
  BY <1>2, <1>6 DEF Asked
<1>8. \A r : Genuine(r) => Genuine(r)'
  BY <1>2, <1>6 DEF Genuine
<1>9. Answers' /\ Hand'
  BY <1>2, <1>8 DEF Answers, Hand, Busy
<1>10. Waiting'
  BY <1>1, <1>2 DEF Waiting, Success
<1>11. TakenIsSet'
  BY <1>1, <1>2 DEF TakenIsSet
<1> QED BY <1>3, <1>4, <1>5, <1>7, <1>9, <1>10, <1>11

(* What is on its way with an answer is not the call of a thread before its  *)
(* request.                                                                  *)
LEMMA AnsweredIsSent ==
  ASSUME ConnInv, NEW p \in Callers, caller[p].at \in {"test", "use"}
  PROVE  /\ \A r \in answers : r.id # caller[p].id
         /\ Busy => hand.id # caller[p].id
BY DEF ConnInv, CallInv, Unsent, Answers, Hand, Genuine

LEMMA SendsInv ==
  ASSUME ConnInv, NEW p \in Callers, Sends(p)
  PROVE  CallInv'
<1> USE DEF ConnInv, CallInv, loopvars, futvars
<1>0. PICK m : m = [id |-> caller[p].id, op |-> caller[p].op, conn |-> m_server_tcp]
  OBVIOUS
<1>1. /\ caller[p].at = "use" /\ Holds(p)
      /\ asked' = asked \cup {m}
      /\ UNCHANGED <<future_inc_id_, sendmsg_rsp_container_, future, answers, answer, outcome,
                     loop, hand, m_isreceiver_registered>>
  BY <1>0 DEF Sends, At, Holds
<1>2. /\ \/ caller[p].op = "lookup" /\ caller'[p].at = "idle"
         \/ /\ caller[p].op # "lookup" /\ caller'[p].at = "wait"
            /\ caller'[p].op = caller[p].op /\ caller'[p].id = caller[p].id
      /\ \A q \in Callers : q # p => caller'[q] = caller[q]
  BY <1>1, GotoType, ReturnType DEF Sends, CallerAt
<1>3. m \in Request /\ m.id = caller[p].id /\ m.op = caller[p].op
  <2>1. m_server_tcp \in Conn
    BY DEF Sends, LinkType, Conn
  <2> QED BY <1>0, <1>1, <2>1, HolderId DEF Request
<1>4. DataType' /\ Fresh'
  BY <1>1, <1>3 DEF DataType, Fresh, Busy
<1>5. CallerIds'
  BY <1>1, <1>2 DEF CallerIds, Holds
<1>6. Unsent'
  <2> SUFFICES ASSUME NEW q \in Callers, caller'[q].at \in {"test", "use"}
               PROVE  /\ caller'[q].id \in sendmsg_rsp_container_
                      /\ ~future[caller'[q].id].ready
                      /\ answer[caller'[q].id] = "none"
                      /\ \A x \in asked' : x.id # caller'[q].id
    BY <1>1 DEF Unsent
  <2>1. q # p /\ caller'[q] = caller[q] /\ Holds(q)
    BY <1>2 DEF Holds
  <2>2. m.id # caller[q].id
    BY <1>1, <1>3, <2>1 DEF CallerIds
  <2>3. \A x \in asked : x.id # caller[q].id
    BY <2>1 DEF Unsent
  <2>4. /\ caller[q].id \in sendmsg_rsp_container_
        /\ ~future[caller[q].id].ready /\ answer[caller[q].id] = "none"
    BY <2>1 DEF Unsent
  <2> QED BY <1>1, <2>1, <2>2, <2>3, <2>4
<1>7. \A q : Belongs(q) /\ q.id # caller[p].id => Belongs(q)'
  BY <1>1, <1>2 DEF Belongs
<1>8. Belongs(m)'
  <2>1. m.id \in 1..future_inc_id_ /\ outcome[m.id] = "none"
    BY <1>1, <1>3 DEF CallerIds
  <2>2. ASSUME NEW q \in Callers, caller'[q].at = "wait", caller'[q].id = m.id
        PROVE  caller'[q].op = m.op
    <3>1. CASE q = p
      BY <1>2, <1>3, <2>2, <3>1
    <3>2. CASE q # p
      BY <1>1, <1>2, <1>3, <2>2, <3>2 DEF CallerIds, Holds
    <3> QED BY <3>1, <3>2
  <2> QED BY <1>1, <2>1, <2>2 DEF Belongs
<1>9. \A q \in asked : q.id # caller[p].id
  BY <1>1 DEF Unsent
<1>10. Asked'
  <2>1. answer[m.id] = "none"
    BY <1>1, <1>3 DEF Unsent
  <2>2. \A q \in asked : q.id # m.id
    BY <1>3, <1>9
  <2>3. \A q \in asked : Belongs(q)'
    BY <1>7, <1>9 DEF Asked
  <2> QED BY <1>1, <1>8, <2>1, <2>2, <2>3 DEF Asked
<1>11. \A r : Genuine(r) /\ r.id # caller[p].id => Genuine(r)'
  BY <1>1, <1>7 DEF Genuine
<1>12. Answers' /\ Hand'
  BY <1>1, <1>11, AnsweredIsSent DEF Answers, Hand, Busy
<1>13. Waiting'
  <2>1. ~future[caller[p].id].ready
    BY <1>1 DEF Unsent
  <2> QED BY <1>1, <1>2, <2>1 DEF Waiting, Success
<1>14. TakenIsSet'
  <2>1. caller[p].id \in sendmsg_rsp_container_
    BY <1>1 DEF Unsent
  <2> QED BY <1>1, <1>2, <2>1 DEF TakenIsSet
<1> QED BY <1>4, <1>5, <1>6, <1>10, <1>12, <1>13, <1>14

(* The call of a thread is not a lookup on its way: those end in the loop.   *)
LEMMA NoLookup ==
  ASSUME ConnInv, NEW p \in Callers, Holds(p)
  PROVE  /\ \A q \in asked : q.op = "lookup" => q.id # caller[p].id
         /\ \A r \in answers : r.op = "lookup" => r.id # caller[p].id
         /\ Busy /\ hand.op = "lookup" => hand.id # caller[p].id
<1> USE DEF ConnInv, CallInv
<1>1. CASE caller[p].at \in {"test", "use"}
  BY <1>1, AnsweredIsSent DEF Unsent
<1>2. CASE caller[p].at = "wait"
  BY <1>2 DEF Waiting, Asked, Answers, Hand, Genuine, Belongs
<1> QED BY <1>1, <1>2 DEF Holds

LEMMA EndInv ==
  ASSUME ConnInv, NEW p \in Callers, NEW v \in {"true", "false"}, EndsCall(p, v)
  PROVE  CallInv'
<1> USE DEF ConnInv, CallInv, netvars, loopvars, futvars
<1>1. /\ Holds(p)
      /\ UNCHANGED <<future_inc_id_, sendmsg_rsp_container_, future, asked, answers, answer,
                     loop, hand, m_isreceiver_registered>>
  BY DEF EndsCall
<1>2. /\ caller'[p].at = "idle" /\ \A q \in Callers : q # p => caller'[q] = caller[q]
  BY ReturnType DEF EndsCall
<1>3. \A q \in Callers : caller'[q].at \in {"test", "use", "wait"} => q # p /\ caller'[q] = caller[q]
  BY <1>2
<1>4. caller[p].id \in Id
  BY <1>1, HolderId
<1>5. /\ outcome' \in [Id -> {"none", "true", "false"}]
      /\ \A i \in Id : i # caller[p].id => outcome'[i] = outcome[i]
  BY <1>4 DEF EndsCall, Ends, DataType
<1>6. DataType'
  BY <1>1, <1>5 DEF DataType, Busy
<1>7. CallerIds'
  <2>1. \A q \in Callers : Holds(q)' => /\ Holds(q) /\ caller'[q] = caller[q]
                                        /\ caller[q].id \in Id /\ caller[q].id # caller[p].id
    BY <1>1, <1>3, HolderId DEF Holds, CallerIds
  <2> QED BY <1>1, <1>5, <2>1 DEF CallerIds
<1>8. Unsent' /\ Waiting' /\ TakenIsSet'
  BY <1>1, <1>3 DEF Unsent, Waiting, TakenIsSet, Success
<1>9. ASSUME NEW q, q.id \in Id, Belongs(q), q.op = "lookup" => q.id # caller[p].id
      PROVE  Belongs(q)'
  BY <1>1, <1>3, <1>5, <1>9 DEF Belongs
<1>10. Asked'
  <2>1. \A q \in asked : Belongs(q)'
    BY <1>1, <1>9, NoLookup, IdType DEF Asked, DataType
  <2> QED BY <1>1, <2>1 DEF Asked
<1>11. Answers'
  <2>1. \A r \in answers : Belongs(r)'
    BY <1>1, <1>9, NoLookup, IdType DEF Answers, Genuine, DataType
  <2> QED BY <1>1, <2>1 DEF Answers, Genuine, Busy
<1>12. Hand'
  <2>1. Busy => Belongs(hand)'
    <3>1. Busy => hand.id \in Id /\ Belongs(hand) /\ (hand.op = "lookup" => hand.id # caller[p].id)
      BY <1>1, NoLookup, IdType DEF Hand, Genuine, DataType
    <3>2. hand' = hand
      BY <1>1
    <3> QED BY <1>1, <1>3, <1>5, <3>1, <3>2 DEF Belongs
  <2> QED BY <1>1, <2>1 DEF Hand, Genuine, Busy
<1>13. Fresh'
  <2>1. ASSUME NEW i \in Id, i > future_inc_id_
        PROVE  i # caller[p].id
    BY <1>1, <2>1 DEF CallerIds, DataType, Id
  <2> QED BY <1>1, <1>5, <2>1 DEF Fresh
<1> QED BY <1>6, <1>7, <1>8, <1>10, <1>11, <1>12, <1>13

LEMMA ServerAnswersInv ==
  ASSUME ConnInv, NEW q \in asked, NEW ok \in BOOLEAN, ServerAnswers(q, ok)
  PROVE  CallInv'
<1> USE DEF ConnInv, CallInv, loopvars, futvars
<1>1. /\ UNCHANGED <<future_inc_id_, sendmsg_rsp_container_, future, caller, outcome,
                     loop, hand, m_isreceiver_registered>>
      /\ q.op = "query" => ok
  BY DEF ServerAnswers
<1>2. PICK a : a = [id |-> q.id, op |-> q.op, conn |-> q.conn, ok |-> ok]
  OBVIOUS
<1>3. asked' = asked \ {q} /\ answers' = answers \cup {a}
  BY <1>2 DEF ServerAnswers
<1>4. a.id = q.id /\ a.op = q.op /\ a.ok = ok /\ a \in Answer /\ q.id \in Id
  BY <1>2 DEF DataType, Request, Answer
<1>5. /\ answer' \in [Id -> {"none", "ok", "bad"}]
      /\ answer'[q.id] = (IF ok THEN "ok" ELSE "bad")
      /\ \A i \in Id : i # q.id => answer'[i] = answer[i]
  BY <1>4 DEF ServerAnswers, DataType
<1>6. DataType'
  BY <1>1, <1>3, <1>4, <1>5 DEF DataType, Busy
<1>7. CallerIds' /\ TakenIsSet'
  BY <1>1 DEF CallerIds, TakenIsSet, Holds
<1>8. Unsent'
  <2>1. \A p \in Callers : caller[p].at \in {"test", "use"} => caller[p].id # q.id /\ caller[p].id \in Id
    BY HolderId DEF Unsent, Holds
  <2> QED BY <1>1, <1>3, <1>5, <2>1 DEF Unsent
<1>9. \A r : Belongs(r) => Belongs(r)'
  BY <1>1 DEF Belongs
<1>10. answer[q.id] = "none" /\ Belongs(q)
  BY DEF Asked
<1>11. Asked'
  <2>1. \A r \in asked' : r \in asked /\ r.id # q.id /\ r.id \in Id
    BY <1>3, IdType DEF Asked, DataType
  <2> QED BY <1>3, <1>5, <1>9, <2>1 DEF Asked
<1>12. \A r \in Answer : Genuine(r) => r.id # q.id /\ Genuine(r)'
  BY <1>5, <1>9, <1>10, IdType DEF Genuine
<1>13. Genuine(a)'
  <2>1. Belongs(a)
    BY <1>4, <1>10 DEF Belongs
  <2> QED BY <1>1, <1>4, <1>5, <1>9, <2>1 DEF Genuine
<1>14. Answers'
  <2>1. \A r \in answers : r.id # a.id /\ Genuine(r)'
    BY <1>4, <1>12 DEF Answers, DataType
  <2>2. Busy => hand.id # a.id
    BY <1>4, <1>12 DEF Hand, DataType
  <2>3. Busy' = Busy /\ hand' = hand
    BY <1>1 DEF Busy
  <2> QED BY <1>3, <1>13, <2>1, <2>2, <2>3 DEF Answers
<1>15. Hand'
  <2>1. Busy => Genuine(hand)'
    BY <1>1, <1>12 DEF Hand, DataType, Genuine, Belongs
  <2> QED BY <1>1, <2>1 DEF Hand, Busy
<1>16. Waiting'
  <2>1. \A p \in Callers : caller[p].at = "wait" => caller[p].id \in Id
    BY HolderId DEF Holds
  <2> QED BY <1>1, <1>5, <1>10, <2>1 DEF Waiting, Success
<1>17. Fresh'
  <2>1. ASSUME NEW i \in Id, i > future_inc_id_
        PROVE  i # q.id
    BY <1>10, <2>1 DEF Belongs, DataType, Id
  <2> QED BY <1>1, <1>5, <2>1 DEF Fresh
<1> QED BY <1>6, <1>7, <1>8, <1>11, <1>14, <1>15, <1>16, <1>17

LEMMA TakesInv ==
  ASSUME ConnInv, NEW r \in answers, Takes(r)
  PROVE  CallInv'
<1> USE DEF ConnInv, CallInv, futvars
<1>1. /\ UNCHANGED <<future_inc_id_, sendmsg_rsp_container_, future, caller, outcome, asked, answer>>
      /\ answers' = answers \ {r} /\ hand' = r /\ loop = "idle"
      /\ loop' \in {"mute", "take"} /\ ~Busy /\ Busy'
  BY DEF Takes, Busy
<1>2. DataType' /\ Fresh'
  BY <1>1 DEF DataType, Fresh
<1>3. CallerIds' /\ Unsent' /\ Waiting'
  BY <1>1 DEF CallerIds, Unsent, Waiting, Success, Holds
<1>4. \A x : Belongs(x) => Belongs(x)'
  BY <1>1 DEF Belongs
<1>5. \A x : Genuine(x) => Genuine(x)'
  BY <1>1, <1>4 DEF Genuine
<1>6. Asked'
  BY <1>1, <1>4 DEF Asked
<1>7. Answers'
  BY <1>1, <1>5 DEF Answers
<1>8. Hand'
  BY <1>1, <1>5 DEF Hand, Takes, Answers
<1>9. TakenIsSet'
  BY <1>1 DEF TakenIsSet
<1> QED BY <1>2, <1>3, <1>6, <1>7, <1>8, <1>9

(* The future of the answer leaves the table; the answer is thrown away only *)
(* if it has already left.                                                   *)
LEMMA GetFutureInv ==
  ASSUME ConnInv, safe_get_future
  PROVE  CallInv'
<1> USE DEF ConnInv, CallInv, netvars
<1>1. /\ UNCHANGED <<future_inc_id_, future, caller, outcome, asked, answers, answer,
                     m_isreceiver_registered>>
      /\ loop = "take" /\ Busy
      /\ sendmsg_rsp_container_' = sendmsg_rsp_container_ \ {hand.id}
  BY DEF safe_get_future, Busy
<1>2. \/ hand.id \notin sendmsg_rsp_container_ /\ loop' = "idle" /\ hand' = NoAnswer
      \/ hand.id \in sendmsg_rsp_container_ /\ IsError /\ loop' = "fail" /\ hand' = hand
      \/ hand.id \in sendmsg_rsp_container_ /\ ~IsError /\ loop' = "ready" /\ hand' = hand
  BY DEF safe_get_future
<1>3. Busy' => hand' = hand
  BY <1>2 DEF Busy
<1>4. DataType' /\ Fresh'
  BY <1>1, <1>2, <1>3 DEF DataType, Fresh
<1>5. CallerIds' /\ Waiting'
  BY <1>1 DEF CallerIds, Waiting, Success, Holds
<1>6. Unsent'
  BY <1>1, AnsweredIsSent DEF Unsent
<1>7. \A x : Belongs(x) => Belongs(x)'
  BY <1>1 DEF Belongs
<1>8. \A x : Genuine(x) => Genuine(x)'
  BY <1>1, <1>7 DEF Genuine
<1>9. Asked'
  BY <1>1, <1>7 DEF Asked
<1>10. Answers'
  BY <1>1, <1>3, <1>8 DEF Answers
<1>11. Hand'
  <2>1. Genuine(hand)
    BY <1>1 DEF Hand
  <2>2. Busy' => Genuine(hand)'
    BY <1>3, <1>8, <2>1
  <2>3. ASSUME loop' = "ready", hand'.op \notin {"getclient", "lookup"}
        PROVE  hand'.ok
    <3>1. hand' = hand /\ ~IsError /\ hand.op \in CallOps
      BY <1>1, <1>2, <2>3, IdType DEF DataType
    <3>2. hand.op \in Registers => hand.ok
      BY <1>1, <3>1 DEF Hand, IsError
    <3>3. hand.op = "relay" => hand.ok
      BY <3>1 DEF IsError
    <3>4. hand.op = "query" => hand.ok
      BY <2>1 DEF Genuine
    <3> QED BY <2>3, <3>1, <3>2, <3>3, <3>4 DEF CallOps, Registers
  <2> QED BY <1>2, <2>2, <2>3 DEF Hand
<1>12. TakenIsSet'
  BY <1>1, <1>2 DEF TakenIsSet
<1> QED BY <1>4, <1>5, <1>6, <1>9, <1>10, <1>11, <1>12

LEMMA SetErrorInv ==
  ASSUME ConnInv, set_error
  PROVE  CallInv'
<1> USE DEF ConnInv, CallInv, netvars
<1>1. /\ UNCHANGED <<future_inc_id_, sendmsg_rsp_container_, caller, outcome, asked, answers,
                     answer, hand, m_isreceiver_registered>>
      /\ loop = "fail" /\ loop' = "ready" /\ Busy /\ Busy'
  BY DEF set_error, Busy
<1>2. hand \in Answer /\ hand.id \in Id
  BY <1>1, IdType DEF DataType
<1>3. /\ future' \in [Id -> [ready : BOOLEAN, err : BOOLEAN, ok : BOOLEAN]]
      /\ \A i \in Id : i # hand.id => future'[i] = future[i]
      /\ \A i \in Id : future'[i].ready = future[i].ready
      /\ future'[hand.id].err
  BY <1>2 DEF set_error, DataType
<1>4. DataType'
  BY <1>1, <1>3 DEF DataType
<1>5. Fresh' /\ CallerIds'
  BY <1>1, <1>3 DEF Fresh, CallerIds, Holds
<1>6. \A p \in Callers : Holds(p) => caller[p].id \in Id
  BY HolderId
<1>7. Unsent'
  BY <1>1, <1>3, <1>6 DEF Unsent, Holds
<1>8. \A x : Genuine(x) => Genuine(x)'
  BY <1>1 DEF Genuine, Belongs
<1>9. Asked'
  BY <1>1 DEF Asked, Belongs
<1>10. Answers' /\ Hand'
  BY <1>1, <1>3, <1>8 DEF Answers, Hand
<1>11. Waiting'
  <2> SUFFICES ASSUME NEW p \in Callers, caller[p].at = "wait", future'[caller[p].id].ready, Success(p)'
               PROVE  caller[p].op # "lookup" /\ answer[caller[p].id] = "ok"
    BY <1>1 DEF Waiting
  <2>1. caller[p].id \in Id /\ caller[p].id # hand.id
    BY <1>1, <1>3, <1>6 DEF Holds, Success
  <2>2. future'[caller[p].id] = future[caller[p].id]
    BY <1>3, <2>1
  <2> QED BY <1>1, <2>2 DEF Waiting, Success
<1>12. TakenIsSet'
  <2>1. \A p \in Callers : caller[p].at = "wait" => future'[caller[p].id].ready = future[caller[p].id].ready
    BY <1>3, <1>6 DEF Holds
  <2> QED BY <1>1, <2>1 DEF TakenIsSet
<1> QED BY <1>4, <1>5, <1>7, <1>9, <1>10, <1>11, <1>12

LEMMA SetResultInv ==
  ASSUME ConnInv, set_result
  PROVE  CallInv'
<1> USE DEF ConnInv, CallInv, netvars
<1>1. /\ UNCHANGED <<future_inc_id_, sendmsg_rsp_container_, caller, asked, answers, answer,
                     m_isreceiver_registered>>
      /\ loop = "ready" /\ loop' = "idle" /\ hand' = NoAnswer /\ Busy /\ ~Busy'
  BY DEF set_result, Busy
<1>2. hand \in Answer /\ hand.id \in Id /\ hand.ok \in BOOLEAN /\ Genuine(hand)
  BY <1>1, IdType DEF DataType, Hand
<1>3. /\ future' \in [Id -> [ready : BOOLEAN, err : BOOLEAN, ok : BOOLEAN]]
      /\ \A i \in Id : i # hand.id => future'[i] = future[i]
      /\ future'[hand.id].ready /\ (future'[hand.id].ok <=> hand.ok)
      /\ future'[hand.id].err = future[hand.id].err
  BY <1>2 DEF set_result, DataType
<1>4. /\ outcome' \in [Id -> {"none", "true", "false"}]
      /\ \A i \in Id : outcome'[i] = outcome[i] \/ (i = hand.id /\ hand.op = "lookup")
  BY <1>2 DEF set_result, Ends, DataType
<1>5. DataType'
  BY <1>1, <1>3, <1>4 DEF DataType
<1>6. \A p \in Callers : Holds(p) => caller[p].id \in Id
  BY HolderId
<1>7. \A p \in Callers : Holds(p) => outcome'[caller[p].id] = outcome[caller[p].id]
  BY <1>1, <1>4, <1>6, NoLookup
<1>8. CallerIds'
  BY <1>1, <1>7 DEF CallerIds, Holds
<1>9. Unsent'
  <2>1. \A p \in Callers : caller[p].at \in {"test", "use"} => future'[caller[p].id] = future[caller[p].id]
    BY <1>1, <1>3, <1>6, AnsweredIsSent DEF Holds
  <2> QED BY <1>1, <2>1 DEF Unsent
<1>10. ASSUME NEW x, x.id \in Id, x.id # hand.id, Belongs(x)
       PROVE  Belongs(x)'
  BY <1>1, <1>4, <1>10 DEF Belongs
<1>11. Asked'
  <2>1. \A q \in asked : q.id \in Id /\ q.id # hand.id /\ Belongs(q)
    BY <1>2, IdType DEF Asked, Genuine, DataType
  <2>2. \A q \in asked : Belongs(q)'
    BY <1>10, <2>1
  <2> QED BY <1>1, <2>2 DEF Asked
<1>12. Answers'
  <2>1. \A r \in answers : r.id \in Id /\ r.id # hand.id /\ Belongs(r)
    BY <1>1, <1>2, IdType DEF Answers, Genuine, DataType
  <2>2. \A r \in answers : Belongs(r)'
    BY <1>10, <2>1
  <2> QED BY <1>1, <2>2 DEF Answers, Genuine
<1>13. Hand'
  BY <1>1 DEF Hand
<1>14. Waiting'
  <2> SUFFICES ASSUME NEW p \in Callers, caller[p].at = "wait"
               PROVE  /\ caller[p].op # "lookup"
                      /\ future'[caller[p].id].ready /\ Success(p)' => answer[caller[p].id] = "ok"
    BY <1>1 DEF Waiting
  <2>1. caller[p].op # "lookup" /\ caller[p].id \in Id
    BY <1>6 DEF Waiting, Holds
  <2>2. CASE caller[p].id # hand.id
    BY <1>1, <1>3, <2>1, <2>2 DEF Waiting, Success
  <2>3. CASE caller[p].id = hand.id
    <3>1. caller[p].op = hand.op
      BY <1>2, <2>3 DEF Genuine, Belongs
    <3>2. ASSUME Success(p)'
          PROVE  hand.ok
      <4>1. ~future[hand.id].err /\ (hand.op = "getclient" => hand.ok)
        BY <1>1, <1>3, <2>3, <3>1, <3>2 DEF Success
      <4> QED BY <1>1, <2>1, <3>1, <4>1 DEF Hand
    <3> QED BY <1>2, <2>1, <2>3, <3>2 DEF Genuine
  <2> QED BY <2>2, <2>3
<1>15. Fresh'
  <2>1. ASSUME NEW i \in Id, i > future_inc_id_
        PROVE  i # hand.id
    BY <1>2, <2>1 DEF Genuine, Belongs, DataType, Id
  <2> QED BY <1>1, <1>3, <1>4, <2>1 DEF Fresh
<1>16. TakenIsSet'
  <2>1. \A p \in Callers : caller[p].at = "wait" =>
          caller[p].id = hand.id \/ future'[caller[p].id] = future[caller[p].id]
    BY <1>3, <1>6 DEF Holds
  <2> QED BY <1>1, <1>3, <2>1 DEF TakenIsSet
<1> QED BY <1>5, <1>8, <1>9, <1>11, <1>12, <1>13, <1>14, <1>15, <1>16

-----------------------------------------------------------------------------
LEMMA TypeParts == TypeOK <=> CallerType /\ LinkType /\ DataType
BY DEF TypeOK, CallerType, CallerRecord, LinkType, DataType, Busy

(* A call that Join ends is one that ends.                                   *)
LEMMA JoinEnds ==
  ASSUME NEW p \in Callers, Join(p)
  PROVE  \E v \in {"true", "false"} : EndsCall(p, v)
BY DEF Join, EndsCall, At, Holds

LEMMA ConnInvCorrect == Spec => []ConnInv
<1>1. Init => ConnInv
  <2> SUFFICES ASSUME Init
               PROVE  ConnInv
    OBVIOUS
  <2>1. MaxCalls \in Nat /\ MaxConns \in Nat
    BY ServerConnAssumption
  <2>2. CallerType
    BY <2>1 DEF Init, CallerType, CallerRecord, CallerAt, Idle
  <2>3. LinkType
    <3>1. m_server_tcp \in 0..MaxConns
      BY <2>1 DEF Init
    <3>2. link \in [Conn -> {"none", "new", "up", "muted", "closed"}]
      BY DEF Init
    <3> QED BY <3>1, <3>2, Zenon DEF Init, LinkType
  <2>4. \A p \in Callers : caller[p].at = "idle"
    BY DEF Init, Idle
  <2>5. DataType /\ Fresh
    BY <2>1 DEF Init, DataType, Fresh, Busy, NewFuture
  <2>6. CallerIds /\ Unsent /\ Waiting /\ TakenIsSet
    BY <2>4 DEF CallerIds, Unsent, Waiting, TakenIsSet, Holds
  <2>7. Asked /\ Answers /\ Hand
    BY DEF Init, Asked, Answers, Hand, Busy
  <2> QED BY <2>2, <2>3, <2>5, <2>6, <2>7 DEF ConnInv, CallInv
<1>2. ConnInv /\ [Next]_vars => ConnInv'
  <2> SUFFICES ASSUME ConnInv, [Next]_vars
               PROVE  ConnInv'
    OBVIOUS
  <2>1. TypeOK
    BY TypeParts DEF ConnInv, CallInv
  <2>2. CallerType' /\ LinkType'
    BY <2>1, CallerTypeStep, LinkTypeStep
  <2>3. CallInv'
    BY <2>1, <2>2, CallSteps, AsideInv, BeginInv, TestsInv, SendsInv, EndInv, JoinEnds,
       ServerAnswersInv, TakesInv, GetFutureInv, SetErrorInv, SetResultInv DEF CallStep
  <2> QED BY <2>2, <2>3 DEF ConnInv
<1> QED BY <1>1, <1>2, PTL DEF Spec

(* Every variable keeps its type.                                            *)
THEOREM TypeCorrect == Spec => []TypeOK
<1>1. ConnInv => TypeOK
  BY TypeParts DEF ConnInv, CallInv
<1> QED BY <1>1, ConnInvCorrect, PTL

(* Nobody waits for an answer that the loop has taken and thrown away.       *)
THEOREM TakenIsSetCorrect == Spec => []TakenIsSet
<1>1. ConnInv => TakenIsSet
  BY DEF ConnInv, CallInv
<1> QED BY <1>1, ConnInvCorrect, PTL

(* A call to the server ends at most once, and well only if the server has   *)
(* answered this very request well: ServerConn implements Calls.             *)
THEOREM CallsRefinement == Spec => CallsRefined
<1>1. Init => C!CInit
  BY DEF Init, C!CInit
<1>2. ConnInv /\ [Next]_vars => [C!CNext]_(C!cvars)
  <2> SUFFICES ASSUME ConnInv, [Next]_vars
               PROVE  C!CNext \/ UNCHANGED <<answer, outcome>>
    BY DEF C!cvars
  <2> USE DEF ConnInv, CallInv, netvars, loopvars, futvars
  <2>1. TypeOK
    BY TypeParts
  <2>2. ASSUME NEW p \in Callers, EndsCall(p, "false")
        PROVE  C!CNext
    <3>1. caller[p].id \in Id /\ outcome[caller[p].id] = "none"
      BY <2>2, HolderId DEF EndsCall, CallerIds
    <3> QED BY <2>2, <3>1 DEF EndsCall, Ends, C!CNext, C!Fail
  <2>3. ASSUME NEW p \in Callers, Join(p)
        PROVE  C!CNext
    <3>1. caller[p].id \in Id /\ outcome[caller[p].id] = "none"
      BY <2>3, HolderId DEF Join, At, Holds, CallerIds
    <3>2. CASE Success(p)
      BY <2>3, <3>1, <3>2 DEF Join, At, Ends, Waiting, C!CNext, C!Succeed
    <3>3. CASE ~Success(p)
      BY <2>3, <3>1, <3>3 DEF Join, Ends, C!CNext, C!Fail
    <3> QED BY <3>2, <3>3
  <2>4. ASSUME NEW q \in asked, NEW ok \in BOOLEAN, ServerAnswers(q, ok)
        PROVE  C!CNext
    <3>1. q.id \in Id /\ answer[q.id] = "none"
      BY IdType DEF Asked, DataType
    <3> QED BY <2>4, <3>1 DEF ServerAnswers, C!CNext, C!Reply
  <2>5. ASSUME set_result
        PROVE  C!CNext \/ UNCHANGED <<answer, outcome>>
    <3>1. hand.id \in Id /\ Genuine(hand)
      BY <2>5, IdType DEF set_result, Hand, DataType, Busy
    <3>2. CASE hand.op = "lookup" /\ hand.ok
      BY <2>5, <3>1, <3>2 DEF set_result, Ends, Genuine, Belongs, C!CNext, C!Succeed
    <3>3. CASE hand.op = "lookup" /\ ~hand.ok
      BY <2>5, <3>1, <3>3 DEF set_result, Ends, Genuine, Belongs, C!CNext, C!Fail
    <3>4. CASE hand.op # "lookup"
      BY <2>5, <3>4 DEF set_result
    <3> QED BY <3>2, <3>3, <3>4
  <2>6. ASSUME \/ Aside \/ safe_get_future \/ set_error
               \/ \E p \in Callers, op \in CallOps : BeginCall(p, op)
               \/ \E p \in Callers : Tests(p) \/ Sends(p)
               \/ \E r \in answers : Takes(r)
        PROVE  UNCHANGED <<answer, outcome>>
    BY <2>6 DEF Aside, safe_get_future, set_error, BeginCall, Tests, Sends, Takes
  <2> QED BY <2>1, <2>2, <2>3, <2>4, <2>5, <2>6, CallSteps DEF CallStep
<1> QED BY <1>1, <1>2, ConnInvCorrect, PTL DEF Spec, CallsRefined, C!CSpec
=============================================================================
