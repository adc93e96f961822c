----------------------------- MODULE ServerConn -----------------------------
(***************************************************************************)
(* The connection of a client to the bus server                             *)
(* (src/Core/NetMsgBusServerConnMgr.hpp) and the futures its calls wait for *)
(* (src/Core/NetMsgBusFuture.hpp).  Application threads call; the thread of *)
(* the event loop handles answers and the end of connections.  Only the     *)
(* table of futures and each future have a lock: m_server_tcp,              *)
(* m_server_connecting and m_isreceiver_registered are shared without one,  *)
(* so every access to them is a step of its own.                            *)
(*                                                                          *)
(* Names, addresses and contents are left out; of an answer remains whether *)
(* its ret_code is 0.  What the server does with a request is the subject   *)
(* of ServiceTables and MsgRelay.  This is the release build: the asserts   *)
(* do nothing, and using an empty m_server_tcp ends the program.            *)
(***************************************************************************)
EXTENDS Integers, FiniteSets

CONSTANTS
  Callers,   \* application threads
  Ops,       \* the operations each of them calls
  MaxCalls,  \* bound: futures made
  MaxConns,  \* bound: connections made
  NoAnswer   \* not an answer

Id == 1..MaxCalls
Conn == 1..MaxConns

(* What waits for an answer; "lookup" is ReqReceiverInfo with a callback. *)
CallOps == {"register", "update", "relay", "getclient", "lookup", "query"}
Registers == {"register", "update"}

ASSUME ServerConnAssumption ==
  /\ Ops \in [Callers -> SUBSET (CallOps \cup {"start", "stop", "unregister"})]
  /\ MaxCalls \in Nat \ {0} /\ MaxConns \in Nat \ {0}

VARIABLES
  m_server_connecting,
  m_server_tcp,             \* the connection held, 0 when empty
  m_isreceiver_registered,
  link,          \* each connection: "none", "new" (connected, not in the loop),
                 \* "up", "muted" (DisAllowSend) or "closed"
  future_inc_id_,
  sendmsg_rsp_container_,   \* ids in the table of futures
  future,        \* each future: ready_, has_error_, and the ret_code in its content
  caller,        \* where each thread is, in which operation, with which future
  asked,         \* requests on their way to, or at, the server
  answers,       \* answers on their way back
  loop,          \* program counter of the loop thread
  hand,          \* the answer it handles
  crashed,       \* an empty m_server_tcp has been used
  answer,        \* history: what the server answered
  outcome        \* history: how each call ended

tcpvars == <<m_server_connecting, m_server_tcp, link>>
futvars == <<future_inc_id_, sendmsg_rsp_container_, future>>
netvars == <<asked, answers, answer>>
loopvars == <<loop, hand>>
vars == <<tcpvars, m_isreceiver_registered, futvars, caller, netvars, loopvars,
          crashed, outcome>>

Request == [id : Id, op : CallOps, conn : Conn]
Answer == [id : Id, op : CallOps, conn : Conn, ok : BOOLEAN]
NewFuture == [ready |-> FALSE, err |-> FALSE, ok |-> FALSE]
Idle == [at |-> "idle", op |-> "none", id |-> 0]

CallerAt == {"idle", "test", "use", "wait", "unreg_test", "unreg_use", "unreg_flag",
             "mute_test", "mute_use", "drop", "reset", "connect", "add"}

TypeOK ==
  /\ m_server_connecting \in BOOLEAN /\ m_server_tcp \in 0..MaxConns
  /\ m_isreceiver_registered \in BOOLEAN
  /\ link \in [Conn -> {"none", "new", "up", "muted", "closed"}]
  /\ future_inc_id_ \in 0..MaxCalls /\ sendmsg_rsp_container_ \subseteq 1..future_inc_id_
  /\ future \in [Id -> [ready : BOOLEAN, err : BOOLEAN, ok : BOOLEAN]]
  /\ caller \in [Callers -> [at : CallerAt, id : 0..MaxCalls,
                             op : CallOps \cup {"none", "start", "stop", "unregister"}]]
  /\ \A p \in Callers :
       caller[p].at \in {"test", "use", "wait"} => caller[p].id # 0 /\ caller[p].op \in CallOps
  /\ asked \subseteq Request /\ answers \subseteq Answer
  /\ loop \in {"idle", "mute", "take", "fail", "ready", "lost"}
  /\ hand \in Answer \cup {NoAnswer}
  /\ loop \in {"mute", "take", "fail", "ready"} => hand \in Answer
  /\ crashed \in BOOLEAN
  /\ answer \in [Id -> {"none", "ok", "bad"}]
  /\ outcome \in [Id -> {"none", "true", "false"}]

Init ==
  /\ m_server_connecting = FALSE /\ m_server_tcp = 0
  /\ m_isreceiver_registered = FALSE
  /\ link = [c \in Conn |-> "none"]
  /\ future_inc_id_ = 0 /\ sendmsg_rsp_container_ = {}
  /\ future = [i \in Id |-> NewFuture]
  /\ caller = [p \in Callers |-> Idle]
  /\ asked = {} /\ answers = {} /\ loop = "idle" /\ hand = NoAnswer
  /\ crashed = FALSE
  /\ answer = [i \in Id |-> "none"] /\ outcome = [i \in Id |-> "none"]

At(p, pc) == ~crashed /\ caller[p].at = pc
Goto(p, pc) == caller' = [caller EXCEPT ![p].at = pc]
Return(p) == caller' = [caller EXCEPT ![p] = Idle]
Ends(i, r) == outcome' = [outcome EXCEPT ![i] = r]

(* m_server_tcp-> with nothing behind it. *)
Crash ==
  /\ m_server_tcp = 0
  /\ crashed' = TRUE
  /\ UNCHANGED <<tcpvars, m_isreceiver_registered, futvars, caller, netvars, loopvars,
                 outcome>>

-----------------------------------------------------------------------------
(* Calls that wait for an answer.                                            *)

(* FutureMgr::safe_insert_future.  The ids are 32 bits wide; that one is used
   again while its first future is still in the table is left out. *)
safe_insert_future ==
  /\ future_inc_id_ < MaxCalls
  /\ future_inc_id_' = future_inc_id_ + 1
  /\ sendmsg_rsp_container_' = sendmsg_rsp_container_ \cup {future_inc_id_ + 1}
  /\ UNCHANGED future

(* Every call begins alike: connected?, a future, the request packed with its id. *)
BeginCall(p, op) ==
  /\ At(p, "idle") /\ op \in Ops[p]
  /\ m_server_connecting
  /\ safe_insert_future
  /\ caller' = [caller EXCEPT ![p] = [at |-> "test", op |-> op, id |-> future_inc_id_ + 1]]
  /\ UNCHANGED <<tcpvars, m_isreceiver_registered, netvars, loopvars, crashed, outcome>>

RegisterNetMsgBusReceiver(p) == BeginCall(p, "register")
UpdateReceiverBusyState(p) == m_isreceiver_registered /\ BeginCall(p, "update")
PostNetMsgUseServerRelay(p) == BeginCall(p, "relay")
ReqReceiverInfo(p) == \E op \in {"getclient", "lookup"} : BeginCall(p, op)
QueryAvailableServices(p) == BeginCall(p, "query")

(* if(m_server_tcp): without a connection the call fails and its future stays
   in the table. *)
TestTcp(p) ==
  /\ At(p, "test")
  /\ \/ m_server_tcp # 0 /\ Goto(p, "use") /\ UNCHANGED outcome
     \/ m_server_tcp = 0 /\ Return(p) /\ Ends(caller[p].id, "false")
  /\ UNCHANGED <<tcpvars, m_isreceiver_registered, futvars, netvars, loopvars, crashed>>

(* TcpSock::SendData accepts the request if the connection is in the loop and
   may be written. *)
CanSend == m_server_tcp # 0 /\ link[m_server_tcp] = "up"

SendRequest(p) ==
  /\ At(p, "use")
  /\ \/ /\ CanSend
        /\ asked' = asked \cup {[id |-> caller[p].id, op |-> caller[p].op, conn |-> m_server_tcp]}
        /\ IF caller[p].op = "lookup" THEN Return(p) ELSE Goto(p, "wait")
        /\ UNCHANGED <<tcpvars, m_isreceiver_registered, futvars, answers, answer, loopvars,
                       crashed, outcome>>
     \/ /\ m_server_tcp # 0 /\ ~CanSend
        /\ Return(p) /\ Ends(caller[p].id, "false")
        /\ UNCHANGED <<tcpvars, m_isreceiver_registered, futvars, netvars, loopvars, crashed>>
     \/ Crash

(* NetFuture::join has seen ready_; ReqReceiverInfo then reads the ret_code. *)
Success(p) ==
  LET f == future[caller[p].id]
  IN  ~f.err /\ (caller[p].op = "getclient" => f.ok)

Join(p) ==
  /\ At(p, "wait")
  /\ future[caller[p].id].ready
  /\ Return(p)
  /\ Ends(caller[p].id, IF Success(p) THEN "true" ELSE "false")
  /\ UNCHANGED <<tcpvars, m_isreceiver_registered, futvars, netvars, loopvars, crashed>>

(* Mutant: join without a timeout. *)
TimeoutReady(p) ==
  /\ At(p, "wait") /\ future[caller[p].id].ready
  /\ Return(p) /\ Ends(caller[p].id, "false")
  /\ UNCHANGED <<tcpvars, m_isreceiver_registered, futvars, netvars, loopvars, crashed>>

(* join gives up after SERVER_CALL_TIMEOUT, whether the future is ready by now
   or not; the future stays in the table. *)
Timeout(p) ==
  /\ At(p, "wait")
  /\ Return(p) /\ Ends(caller[p].id, "false")
  /\ UNCHANGED <<tcpvars, m_isreceiver_registered, futvars, netvars, loopvars, crashed>>

-----------------------------------------------------------------------------
(* Starting, unregistering and stopping.                                     *)

(* StartServerCommunicateLoop: m_server_tcp.reset(new TcpSock()), ... *)
StartServerCommunicateLoop(p) ==
  /\ At(p, "idle") /\ "start" \in Ops[p] /\ ~m_server_connecting
  /\ \E c \in Conn :
       /\ link[c] = "none" /\ \A d \in Conn : d < c => link[d] # "none"
       /\ m_server_tcp' = c
       /\ link' = [link EXCEPT ![c] = "new"]
  /\ caller' = [caller EXCEPT ![p] = [at |-> "connect", op |-> "start", id |-> 0]]
  /\ UNCHANGED <<m_server_connecting, m_isreceiver_registered, futvars, netvars, loopvars,
                 crashed, outcome>>

(* TcpSock::Connect waits until the connection can be written, and closes the
   socket if that fails or takes too long; it allows sending again. *)
TcpConnect(c, ok) ==
  link' = [link EXCEPT ![c] = IF ~ok THEN "closed" ELSE IF @ = "muted" THEN "new" ELSE @]

(* ... Connect, which may fail, ... *)
Connect(p) ==
  /\ At(p, "connect")
  /\ \/ /\ m_server_tcp # 0
        /\ TcpConnect(m_server_tcp, TRUE)
        /\ m_server_connecting' = TRUE /\ Goto(p, "add")
        /\ UNCHANGED <<m_server_tcp, m_isreceiver_registered, futvars, netvars, loopvars,
                       crashed, outcome>>
     \/ /\ m_server_tcp # 0
        /\ TcpConnect(m_server_tcp, FALSE) /\ Return(p)
        /\ UNCHANGED <<m_server_connecting, m_server_tcp, m_isreceiver_registered, futvars,
                       netvars, loopvars, crashed, outcome>>
     \/ Crash

(* ... and the handlers are set and the connection added to the loop. *)
AddToLoop(p) ==
  /\ At(p, "add")
  /\ \/ /\ m_server_tcp # 0
        /\ link' = [link EXCEPT ![m_server_tcp] = IF @ = "new" THEN "up" ELSE @] /\ Return(p)
        /\ UNCHANGED <<m_server_connecting, m_server_tcp, m_isreceiver_registered, futvars,
                       netvars, loopvars, crashed, outcome>>
     \/ Crash

(* UnRegisterNetMsgBusReceiver, called alone or first thing by
   StopServerConnection.  The server does not answer it. *)
BeginUnRegister(p, op) ==
  /\ At(p, "idle") /\ op \in Ops[p]
  /\ op = "unregister" => m_server_connecting
  /\ caller' = [caller EXCEPT ![p] =
       [at |-> IF m_server_connecting THEN "unreg_test" ELSE "mute_test", op |-> op, id |-> 0]]
  /\ UNCHANGED <<tcpvars, m_isreceiver_registered, futvars, netvars, loopvars, crashed, outcome>>

UnRegistered(p) == IF caller[p].op = "stop" THEN Goto(p, "mute_test") ELSE Return(p)

UnRegisterTest(p) ==
  /\ At(p, "unreg_test")
  /\ IF m_server_tcp # 0 THEN Goto(p, "unreg_use") ELSE UnRegistered(p)
  /\ UNCHANGED <<tcpvars, m_isreceiver_registered, futvars, netvars, loopvars, crashed, outcome>>

UnRegisterSend(p) ==
  /\ At(p, "unreg_use")
  /\ \/ /\ m_server_tcp # 0
        /\ IF CanSend THEN Goto(p, "unreg_flag") ELSE UnRegistered(p)
        /\ UNCHANGED <<tcpvars, m_isreceiver_registered, futvars, netvars, loopvars, crashed,
                       outcome>>
     \/ Crash

UnRegisterFlag(p) ==
  /\ At(p, "unreg_flag")
  /\ m_isreceiver_registered' = FALSE
  /\ UnRegistered(p)
  /\ UNCHANGED <<tcpvars, futvars, netvars, loopvars, crashed, outcome>>

(* if(m_server_tcp) m_server_tcp->DisAllowSend(); *)
MuteTest(p) ==
  /\ At(p, "mute_test")
  /\ Goto(p, IF m_server_tcp # 0 THEN "mute_use" ELSE "drop")
  /\ UNCHANGED <<tcpvars, m_isreceiver_registered, futvars, netvars, loopvars, crashed, outcome>>

(* TcpSock::DisAllowSend: no more is sent; what comes in is still read. *)
DisAllowSend ==
  link' = IF link[m_server_tcp] \in {"new", "up"}
          THEN [link EXCEPT ![m_server_tcp] = "muted"] ELSE link

Mute(p) ==
  /\ At(p, "mute_use")
  /\ \/ /\ m_server_tcp # 0
        /\ DisAllowSend /\ Goto(p, "drop")
        /\ UNCHANGED <<m_server_connecting, m_server_tcp, m_isreceiver_registered, futvars,
                       netvars, loopvars, crashed, outcome>>
     \/ Crash

Drop(p) ==
  /\ At(p, "drop")
  /\ m_server_connecting' = FALSE /\ Goto(p, "reset")
  /\ UNCHANGED <<m_server_tcp, link, m_isreceiver_registered, futvars, netvars, loopvars,
                 crashed, outcome>>

Reset(p) ==
  /\ At(p, "reset")
  /\ m_server_tcp' = 0 /\ Return(p)
  /\ UNCHANGED <<m_server_connecting, link, m_isreceiver_registered, futvars, netvars,
                 loopvars, crashed, outcome>>

-----------------------------------------------------------------------------
(* The server, and the thread of the event loop.                             *)

(* The server's pool of threads answers in any order.  A list of services has
   no ret_code. *)
ServerAnswers(q, ok) ==
  /\ ~crashed /\ q \in asked
  /\ q.op = "query" => ok
  /\ asked' = asked \ {q}
  /\ answers' = answers \cup {[id |-> q.id, op |-> q.op, conn |-> q.conn, ok |-> ok]}
  /\ answer' = [answer EXCEPT ![q.id] = IF ok THEN "ok" ELSE "bad"]
  /\ UNCHANGED <<tcpvars, m_isreceiver_registered, futvars, caller, loopvars, crashed, outcome>>

(* ProcessRspBody: the loop thread takes an answer to its handler. *)
ProcessRspBody(ops, r, next) ==
  /\ ~crashed /\ loop = "idle" /\ r \in answers /\ link[r.conn] \in {"up", "muted"}
  /\ r.op \in ops
  /\ answers' = answers \ {r} /\ hand' = r
  /\ loop' = next
  /\ UNCHANGED <<tcpvars, futvars, caller, asked, answer, crashed, outcome>>

(* The flag and the name first; a refusal also mutes the connection. *)
HandleRspRegister(r) ==
  /\ ProcessRspBody(Registers, r, IF r.ok THEN "take" ELSE "mute")
  /\ m_isreceiver_registered' = r.ok

HandleRspGetClient(r) ==
  ProcessRspBody({"getclient", "lookup"}, r, "take") /\ UNCHANGED m_isreceiver_registered

HandleRspSendMsg(r) ==
  ProcessRspBody({"relay"}, r, "take") /\ UNCHANGED m_isreceiver_registered

HandleQueryServicesRsp(r) ==
  ProcessRspBody({"query"}, r, "take") /\ UNCHANGED m_isreceiver_registered

(* A refused registration: m_server_tcp->DisAllowSend(), whichever connection
   that is by now. *)
MuteRefused ==
  /\ ~crashed /\ loop = "mute"
  /\ \/ /\ m_server_tcp # 0
        /\ DisAllowSend /\ loop' = "take"
        /\ UNCHANGED <<m_server_connecting, m_server_tcp, m_isreceiver_registered, futvars,
                       caller, netvars, hand, crashed, outcome>>
     \/ Crash

(* HandleRspRegister asks the flag anew, HandleRspSendMsg the ret_code; the
   other handlers pass the answer on as it is. *)
IsError == \/ hand.op \in Registers /\ ~m_isreceiver_registered
           \/ hand.op = "relay" /\ ~hand.ok

(* Mutant: an answer with an error is only logged. *)
safe_get_futureGood ==
  /\ ~crashed /\ loop = "take"
  /\ sendmsg_rsp_container_' = sendmsg_rsp_container_ \ {hand.id}
  /\ loop' = IF hand.id \notin sendmsg_rsp_container_ \/ IsError THEN "idle" ELSE "ready"
  /\ hand' = IF loop' = "idle" THEN NoAnswer ELSE hand
  /\ UNCHANGED <<tcpvars, m_isreceiver_registered, future_inc_id_, future, caller, netvars,
                 crashed, outcome>>

(* FutureMgr::safe_get_future(msg_id, true). *)
safe_get_future ==
  /\ ~crashed /\ loop = "take"
  /\ sendmsg_rsp_container_' = sendmsg_rsp_container_ \ {hand.id}
  /\ loop' = IF hand.id \notin sendmsg_rsp_container_ THEN "idle"
             ELSE IF IsError THEN "fail" ELSE "ready"
  /\ hand' = IF loop' = "idle" THEN NoAnswer ELSE hand
  /\ UNCHANGED <<tcpvars, m_isreceiver_registered, future_inc_id_, future, caller, netvars,
                 crashed, outcome>>

(* Mutant: ready_ before has_error_. *)
set_errorLate ==
  /\ ~crashed /\ loop = "fail"
  /\ future' = [future EXCEPT ![hand.id].ready = TRUE]
  /\ loop' = "ready"
  /\ UNCHANGED <<tcpvars, m_isreceiver_registered, future_inc_id_, sendmsg_rsp_container_,
                 caller, netvars, hand, crashed, outcome>>

(* NetFuture::set_error: the flag first, without the lock. *)
set_error ==
  /\ ~crashed /\ loop = "fail"
  /\ future' = [future EXCEPT ![hand.id].err = TRUE]
  /\ loop' = "ready"
  /\ UNCHANGED <<tcpvars, m_isreceiver_registered, future_inc_id_, sendmsg_rsp_container_,
                 caller, netvars, hand, crashed, outcome>>

(* NetFuture::set_result: content and ready_ under the lock, then the callback. *)
set_result ==
  /\ ~crashed /\ loop = "ready"
  /\ future' = [future EXCEPT ![hand.id].ready = TRUE, ![hand.id].ok = hand.ok]
  /\ loop' = "idle" /\ hand' = NoAnswer
  /\ IF hand.op = "lookup" THEN Ends(hand.id, IF hand.ok THEN "true" ELSE "false")
     ELSE UNCHANGED outcome
  /\ UNCHANGED <<tcpvars, m_isreceiver_registered, future_inc_id_, sendmsg_rsp_container_,
                 caller, netvars, crashed>>

(* A connection ends; what is under way on it is lost.  onServerTcpClose and
   onServerTcpError do not ask which connection it is: m_server_connecting
   first, ... *)
onServerTcpClose(c) ==
  /\ ~crashed /\ loop = "idle" /\ link[c] \in {"up", "muted"}
  /\ link' = [link EXCEPT ![c] = "closed"]
  /\ asked' = {q \in asked : q.conn # c}
  /\ answers' = {r \in answers : r.conn # c}
  /\ m_server_connecting' = FALSE
  /\ loop' = "lost"
  /\ UNCHANGED <<m_server_tcp, m_isreceiver_registered, futvars, caller, answer, hand,
                 crashed, outcome>>

(* ... then m_server_tcp.reset(). *)
ResetLost ==
  /\ ~crashed /\ loop = "lost"
  /\ m_server_tcp' = 0 /\ loop' = "idle"
  /\ UNCHANGED <<m_server_connecting, link, m_isreceiver_registered, futvars, caller,
                 netvars, hand, crashed, outcome>>

-----------------------------------------------------------------------------
Call(p) ==
  \/ TestTcp(p) \/ SendRequest(p) \/ Join(p) \/ Timeout(p)
  \/ Connect(p) \/ AddToLoop(p)
  \/ UnRegisterTest(p) \/ UnRegisterSend(p) \/ UnRegisterFlag(p)
  \/ MuteTest(p) \/ Mute(p) \/ Drop(p) \/ Reset(p)

LoopStep == MuteRefused \/ safe_get_future \/ set_error \/ set_result \/ ResetLost

Next ==
  \/ \E p \in Callers :
       \/ RegisterNetMsgBusReceiver(p) \/ UpdateReceiverBusyState(p)
       \/ PostNetMsgUseServerRelay(p) \/ ReqReceiverInfo(p) \/ QueryAvailableServices(p)
       \/ StartServerCommunicateLoop(p)
       \/ \E op \in {"unregister", "stop"} : BeginUnRegister(p, op)
       \/ Call(p)
  \/ \E q \in asked, ok \in BOOLEAN : ServerAnswers(q, ok)
  \/ \E r \in answers : \/ HandleRspRegister(r) \/ HandleRspGetClient(r)
                          \/ HandleRspSendMsg(r) \/ HandleQueryServicesRsp(r)
  \/ \E c \in Conn : onServerTcpClose(c)
  \/ LoopStep

Spec == Init /\ [][Next]_vars

(* Threads run on, and the wait of a call ends by its timeout. *)
FairSpec == Spec /\ WF_vars(LoopStep) /\ \A p \in Callers : WF_vars(Call(p))

-----------------------------------------------------------------------------
C == INSTANCE Calls

(* A call to the server ends at most once, and successfully only when the
   server has answered this very request with ret_code 0: however answers,
   timeouts, lost connections and unregistrations interleave, and though
   HandleRspRegister reads a flag that other threads write. *)
CallsRefined == C!CSpec

(* A future that has left the table is ready, or about to be made so: nobody
   waits for an answer that the loop has already taken and thrown away. *)
TakenIsSet ==
  \A p \in Callers :
    caller[p].at = "wait" /\ caller[p].id \notin sendmsg_rsp_container_ =>
      \/ future[caller[p].id].ready
      \/ loop \in {"fail", "ready"} /\ hand.id = caller[p].id

(* Every operation of a thread ends, also when the connection is lost or the
   answer never comes. *)
CallsReturn == \A p \in Callers : caller[p].at # "idle" ~> (caller[p].at = "idle" \/ crashed)
=============================================================================
