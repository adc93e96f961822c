--------------------------- MODULE DirectRequests ---------------------------
(***************************************************************************)
(* Requests that a client sends to a receiver without the server            *)
(* (src/Core/NetMsgBusReq2ReceiverMgr.hpp), the pool of connections they    *)
(* leave by (src/Core/TcpClientPool.cpp), and the receiver that accepts,    *)
(* identifies and answers (src/Core/NetMsgBusReceiverMgr.hpp).              *)
(*                                                                          *)
(* A request is posted (it leaves through a queue, a dispatching thread and *)
(* a named thread) or sent (the caller carries it and waits), to a name     *)
(* (whose host is cached or looked up) or to a host.  There is one name, a  *)
(* receiver that may move from host to host.  The look-ups are calls of     *)
(* ServerConn, of which only what Calls promises is used.  Each critical    *)
(* section, connect and write is a step.  A request keeps its number as the *)
(* id of its future; 0 is the message by which a connection identifies      *)
(* itself.                                                                  *)
(***************************************************************************)
EXTENDS Integers, Sequences, SequencesExt, FiniteSets

CONSTANTS
  Scripts,    \* the kinds of the requests, in the order they are made
  MaxCalls,   \* bound: their number
  Hosts,      \* where the receiver may run
  FirstHost,  \* where it runs at first
  NoHost,     \* not a host
  MaxConns,   \* bound: connections made
  MaxMoves,   \* bound: times the receiver moves
  CLIENT_POOL_SIZE,
  MAX_SENDMSG_CLIENT_NUM,
  Excluded,   \* requests whose message id the receiver's filter excludes
  Allowed,    \* the receiver's filter lets this client in
  Reliable    \* the server answers every look-up

Id == 1..MaxCalls
Kinds == {"post", "postip", "send", "sendip"}
Conn == 1..MaxConns
Pools == {"send", "post"}

(* The named threads that carry posted requests, and the callers of the others. *)
Named == {<<"byname", 0>>, <<"byip", 0>>}
Caller(i) == <<"caller", i>>
Workers == Named \cup {Caller(i) : i \in Id}

ASSUME DirectRequestsAssumption ==
  /\ MaxCalls \in Nat /\ Scripts \subseteq [Id -> Kinds] /\ FirstHost \in Hosts /\ NoHost \notin Hosts
  /\ MaxConns \in Nat /\ MaxMoves \in Nat
  /\ CLIENT_POOL_SIZE \in Nat \ {0} /\ MAX_SENDMSG_CLIENT_NUM \in Nat
  /\ Excluded \subseteq Id /\ Allowed \in BOOLEAN /\ Reliable \in BOOLEAN

VARIABLES
  OpOf,          \* the kind of each request
  m_req2receiver_terminate,
  dispatcher,    \* the dispatching thread: "off", "on" or "ended"
  container,     \* m_reqtoreceiver_task_container
  rtask_list,    \* what the dispatching thread has taken from it
  named,         \* tasks of each named thread
  worker,        \* where each worker is, with which request, host, connection,
                 \* and how many connections it still has to make
  retry,         \* requests that may still ask the server
  cached,        \* m_cached_client_info: the host of the name, or NoHost
  waiting,       \* m_wait2send_task_container: requests that wait for it
  lookups,       \* look-ups the server has not answered
  answering,     \* the loop thread in HandleRspGetClient: its step, host and tasks
  table,         \* futures in the table
  ready,         \* futures with a result
  made,          \* requests made so far
  pool, counter, \* connections and m_select_counter, by pool and host
  link,          \* each connection: "none", "up" or "closed" on this side,
  dest,          \* its host,
  peer,          \* the receiver's side: "backlog", "open", "failed" (a write has
                 \* failed and its close is queued) or "closed",
  out, back,     \* what is on its way to the receiver and from it
  senders,       \* m_client_senders: connections that have identified themselves
  work,          \* requests queued to the receiver's thread pool
  m_sendmsg_clientnum,
  up,            \* hosts where the receiver listens
  accepting,     \* hosts where its accept thread runs
  known,         \* hosts the server has had for the name
  moves,         \* times it has moved
  sent,          \* history: requests written to a connection
  arrived,       \* history: requests in the order the receiver read them
  answer, outcome  \* history: who was answered, and how each request ended

stopvars == <<m_req2receiver_terminate, dispatcher, OpOf>>
quevars  == <<container, rtask_list, named>>
hostvars == <<retry, cached, waiting, lookups, answering>>
futvars  == <<table, ready>>
poolvars == <<pool, counter>>
connvars == <<link, dest>>
recvvars == <<senders, work, m_sendmsg_clientnum, arrived>>
movevars == <<up, accepting, known, moves>>
vars == <<stopvars, quevars, worker, hostvars, futvars, made, poolvars, connvars, peer, out,
          back, recvvars, movevars, sent, answer, outcome>>

Sync(i) == OpOf[i] \in {"send", "sendip"}
ByName(i) == OpOf[i] \in {"post", "send"}
ThreadOf(i) == IF ByName(i) THEN <<"byname", 0>> ELSE <<"byip", 0>>
PoolOf(i) == IF Sync(i) THEN "send" ELSE "post"

At == {"idle", "cache", "lookup", "enqueue", "forget", "ask", "get", "count", "connect",
       "identify", "push", "again", "send", "wait"}
Task(pc, i, h) == [at |-> pc, id |-> i, host |-> h, conn |-> 0, need |-> 0]
Free == Task("idle", 0, NoHost)
NotAnswering == [at |-> "idle", host |-> NoHost, tasks |-> << >>]

StopType ==
  /\ OpOf \in [Id -> Kinds]
  /\ m_req2receiver_terminate \in BOOLEAN /\ dispatcher \in {"off", "on", "ended"}

QueueType ==
  /\ container \in Seq(Id) /\ rtask_list \in Seq(Id) /\ named \in [Named -> Seq(Id)]
  /\ waiting \in Seq(Id)
  /\ answering \in [at : {"idle", "cache", "requeue"}, host : Hosts \cup {NoHost}, tasks : Seq(Id)]

WorkerType ==
  worker \in [Workers -> [at : At, id : {0} \cup Id, host : Hosts \cup {NoHost},
                          conn : 0..MaxConns, need : 0..CLIENT_POOL_SIZE]]

RequestType ==
  /\ retry \subseteq Id /\ cached \in Hosts \cup {NoHost} /\ lookups \in Nat
  /\ table \subseteq Id /\ ready \subseteq Id /\ made \in 0..MaxCalls

PoolType ==
  pool \in [Pools -> [Hosts -> Seq(Conn)]] /\ counter \in [Pools -> [Hosts -> Nat]]

ConnType ==
  /\ link \in [Conn -> {"none", "up", "closed"}] /\ dest \in [Conn -> Hosts \cup {NoHost}]
  /\ peer \in [Conn -> {"backlog", "open", "failed", "closed"}]
  /\ out \in [Conn -> Seq({0} \cup Id)] /\ back \in [Conn -> Seq(Id)]

ReceiverType ==
  /\ senders \subseteq Conn /\ work \subseteq (Conn \X Id)
  /\ m_sendmsg_clientnum \in [Hosts -> Int]
  /\ up \subseteq Hosts /\ accepting \subseteq Hosts /\ known \subseteq Hosts /\ moves \in 0..MaxMoves

HistoryType ==
  /\ sent \subseteq Id /\ arrived \in Seq(Id)
  /\ answer \in [Id -> {"none", "ok", "bad"}]
  /\ outcome \in [Id -> {"none", "true", "false"}]

TypeOK ==
  /\ StopType /\ QueueType /\ WorkerType /\ RequestType
  /\ PoolType /\ ConnType /\ ReceiverType /\ HistoryType

Init ==
  /\ OpOf \in Scripts
  /\ m_req2receiver_terminate = FALSE /\ dispatcher = "off"
  /\ container = << >> /\ rtask_list = << >> /\ named = [t \in Named |-> << >>]
  /\ worker = [w \in Workers |-> Free]
  /\ retry = {} /\ cached = NoHost /\ waiting = << >> /\ lookups = 0
  /\ answering = NotAnswering
  /\ table = {} /\ ready = {} /\ made = 0
  /\ pool = [k \in Pools |-> [h \in Hosts |-> << >>]]
  /\ counter = [k \in Pools |-> [h \in Hosts |-> 0]]
  /\ link = [c \in Conn |-> "none"] /\ dest = [c \in Conn |-> NoHost]
  /\ peer = [c \in Conn |-> "backlog"]
  /\ out = [c \in Conn |-> << >>] /\ back = [c \in Conn |-> << >>]
  /\ senders = {} /\ work = {} /\ m_sendmsg_clientnum = [h \in Hosts |-> 0]
  /\ up = {FirstHost} /\ accepting = {FirstHost} /\ known = {FirstHost} /\ moves = 0
  /\ sent = {} /\ arrived = << >>
  /\ answer = [i \in Id |-> "none"] /\ outcome = [i \in Id |-> "none"]

(* QueueReqTaskToReceiver: the dispatcher tests its queue under the same lock. *)
QueueReqTaskToReceiver(i) == container' = Append(container, i)

(* Futures older than MAX_EXIST_TIME are cleared, which are the first k or none. *)
safe_clear_bad_future == \E k \in 0..made : table' = {i \in table : i > k}

safe_get_cached_host_info == cached

(* FilterMgr: who may send, and which messages are not taken. *)
FilterBySender == Allowed
FilterByMsgId(i) == i \notin Excluded

Ends(i, r) == outcome' = [outcome EXCEPT ![i] = r]

-----------------------------------------------------------------------------
(* Starting and stopping, posting, and the dispatching thread.               *)

Start ==
  /\ dispatcher = "off"
  /\ dispatcher' = "on"
  /\ UNCHANGED <<m_req2receiver_terminate, OpOf, quevars, worker, hostvars, futvars, made, poolvars,
                 connvars, peer, out, back, recvvars, movevars, sent, answer, outcome>>

Stop ==
  /\ dispatcher # "off" /\ ~m_req2receiver_terminate
  /\ m_req2receiver_terminate' = TRUE
  /\ safe_clear_bad_future
  /\ UNCHANGED <<dispatcher, OpOf, quevars, worker, hostvars, ready, made, poolvars, connvars, peer,
                 out, back, recvvars, movevars, sent, answer, outcome>>

m_req2receiver_running == dispatcher = "on"

(* PostMsgDirectToClient: the future is in the table before the task is queued;
   a request to a name may be tried again. *)
PostMsgDirectToClient(i) ==
  /\ i = made + 1 /\ ~Sync(i)
  /\ made' = i
  /\ \/ /\ m_req2receiver_running
        /\ table' = table \cup {i}
        /\ retry' = IF ByName(i) THEN retry \cup {i} ELSE retry
        /\ QueueReqTaskToReceiver(i)
        /\ UNCHANGED outcome
     \/ /\ ~m_req2receiver_running
        /\ Ends(i, "false")
        /\ UNCHANGED <<table, retry, container>>
  /\ UNCHANGED <<stopvars, rtask_list, named, worker, cached, waiting, lookups, answering, ready,
                 poolvars, connvars, peer, out, back, recvvars, movevars, sent, answer>>

(* ProcessReq2ReceiverThreadFunc takes all that is queued; it ends only when
   nothing is. *)
TakeAll ==
  /\ dispatcher = "on" /\ rtask_list = << >> /\ container # << >>
  /\ rtask_list' = container /\ container' = << >>
  /\ UNCHANGED <<stopvars, named, worker, hostvars, futvars, made, poolvars, connvars, peer,
                 out, back, recvvars, movevars, sent, answer, outcome>>

(* The same name goes to the same named thread. *)
Dispatch ==
  /\ dispatcher = "on" /\ rtask_list # << >>
  /\ rtask_list' = Tail(rtask_list)
  /\ named' = [named EXCEPT ![ThreadOf(Head(rtask_list))] = Append(@, Head(rtask_list))]
  /\ UNCHANGED <<stopvars, container, worker, hostvars, futvars, made, poolvars, connvars, peer,
                 out, back, recvvars, movevars, sent, answer, outcome>>

EndDispatcher ==
  /\ dispatcher = "on" /\ rtask_list = << >> /\ container = << >>
  /\ m_req2receiver_terminate
  /\ dispatcher' = "ended"
  /\ UNCHANGED <<m_req2receiver_terminate, OpOf, quevars, worker, hostvars, futvars, made, poolvars,
                 connvars, peer, out, back, recvvars, movevars, sent, answer, outcome>>

-----------------------------------------------------------------------------
(* ProcessReqToReceiver, by a named thread or by the caller of a sent request. *)

Goto(w, pc) == worker' = [worker EXCEPT ![w].at = pc]
Done(w) == worker' = [worker EXCEPT ![w] = Free]

(* The request is given up: its future leaves the table, and the caller of a
   sent one returns. *)
GiveUp(w) ==
  /\ Done(w)
  /\ table' = table \ {worker[w].id}
  /\ IF w \notin Named THEN Ends(worker[w].id, "false") ELSE UNCHANGED outcome

(* A named thread begins its next task. *)
NextTask(t) ==
  /\ worker[t].at = "idle" /\ named[t] # << >>
  /\ LET i == Head(named[t])
     IN  worker' = [worker EXCEPT ![t] =
                      IF ByName(i) THEN Task("cache", i, NoHost) ELSE Task("get", i, FirstHost)]
  /\ named' = [named EXCEPT ![t] = Tail(@)]
  /\ UNCHANGED <<stopvars, container, rtask_list, hostvars, futvars, made, poolvars, connvars,
                 peer, out, back, recvvars, movevars, sent, answer, outcome>>

(* SendMsgDirectToClient: to a host, or to a name that is cached or that the
   server is asked for while the caller waits. *)
SendMsgDirectToClient(i) ==
  /\ i = made + 1 /\ Sync(i)
  /\ made' = i
  /\ \/ /\ m_req2receiver_running
        /\ LET h == IF ByName(i) THEN safe_get_cached_host_info ELSE FirstHost
           IN  /\ worker' = [worker EXCEPT ![Caller(i)] =
                               Task(IF h = NoHost THEN "lookup" ELSE "get", i, h)]
               /\ table' = IF h = NoHost THEN table ELSE table \cup {i}
        /\ UNCHANGED outcome
     \/ ~m_req2receiver_running /\ Ends(i, "false") /\ UNCHANGED <<worker, table>>
  /\ UNCHANGED <<stopvars, quevars, hostvars, ready, poolvars, connvars, peer, out, back,
                 recvvars, movevars, sent, answer>>

(* ReqReceiverInfo without a callback: a host the server knows, or a failure. *)
SyncLookup(i) ==
  /\ worker[Caller(i)].at = "lookup"
  /\ \/ \E h \in known :
          /\ cached' = h
          /\ table' = table \cup {i}
          /\ worker' = [worker EXCEPT ![Caller(i)].at = "get", ![Caller(i)].host = h]
          /\ UNCHANGED outcome
     \/ Done(Caller(i)) /\ Ends(i, "false") /\ UNCHANGED <<cached, table>>
  /\ UNCHANGED <<stopvars, quevars, retry, waiting, lookups, answering, ready, made, poolvars,
                 connvars, peer, out, back, recvvars, movevars, sent, answer>>

(* Without a host in the cache the task waits for one, unless it
   has waited before. *)
ReadCache(w) ==
  /\ worker[w].at = "cache"
  /\ \/ /\ safe_get_cached_host_info # NoHost
        /\ worker' = [worker EXCEPT ![w].at = "get", ![w].host = safe_get_cached_host_info]
        /\ UNCHANGED <<table, outcome>>
     \/ /\ safe_get_cached_host_info = NoHost /\ worker[w].id \in retry
        /\ Goto(w, "enqueue")
        /\ UNCHANGED <<table, outcome>>
     \/ /\ safe_get_cached_host_info = NoHost /\ worker[w].id \notin retry
        /\ GiveUp(w)
  /\ UNCHANGED <<stopvars, quevars, hostvars, ready, made, poolvars, connvars, peer, out, back,
                 recvvars, movevars, sent, answer>>

(* safe_queue_waiting_task.  A host that did not answer is then forgotten. *)
QueueWaiting(w) ==
  /\ worker[w].at = "enqueue"
  /\ waiting' = Append(waiting, worker[w].id)
  /\ Goto(w, IF worker[w].host = NoHost THEN "ask" ELSE "forget")
  /\ UNCHANGED <<stopvars, quevars, retry, cached, lookups, answering, futvars, made, poolvars,
                 connvars, peer, out, back, recvvars, movevars, sent, answer, outcome>>

(* safe_remove_cached_host_info *)
Forget(w) ==
  /\ worker[w].at = "forget"
  /\ cached' = NoHost
  /\ Goto(w, "ask")
  /\ UNCHANGED <<stopvars, quevars, retry, waiting, lookups, answering, futvars, made, poolvars,
                 connvars, peer, out, back, recvvars, movevars, sent, answer, outcome>>

(* ReqReceiverInfo with HandleRspGetClient as its callback; that it could not
   be asked goes unnoticed. *)
AskServer(w) ==
  /\ worker[w].at = "ask"
  /\ lookups' \in IF Reliable THEN {lookups + 1} ELSE {lookups, lookups + 1}
  /\ Done(w)
  /\ UNCHANGED <<stopvars, quevars, retry, cached, waiting, answering, futvars, made, poolvars,
                 connvars, peer, out, back, recvvars, movevars, sent, answer, outcome>>

(* TcpClientPool::GetTcpSockByDestHost: the connections take turns. *)
GetTcpSock(w, otherwise) ==
  LET k == PoolOf(worker[w].id)  h == worker[w].host  all == pool[k][h]
  IN  \/ /\ all # << >>
         /\ worker' = [worker EXCEPT ![w].at = "send",
                                     ![w].conn = all[(counter[k][h] % Len(all)) + 1]]
         /\ counter' = [counter EXCEPT ![k][h] = @ + 1]
         /\ UNCHANGED <<table, outcome>>
      \/ all = << >> /\ otherwise /\ UNCHANGED counter

FindConnection(w) ==
  /\ worker[w].at = "get"
  /\ GetTcpSock(w, Goto(w, "count") /\ UNCHANGED <<table, outcome>>)
  /\ UNCHANGED <<stopvars, quevars, hostvars, ready, made, pool, connvars, peer, out, back,
                 recvvars, movevars, sent, answer>>

(* After CreateTcpSock. *)
FindAgain(w) ==
  /\ worker[w].at = "again"
  /\ GetTcpSock(w, GiveUp(w))
  /\ UNCHANGED <<stopvars, quevars, hostvars, ready, made, pool, connvars, peer, out, back,
                 recvvars, movevars, sent, answer>>

(* TcpClientPool::CreateTcpSock counts what is missing, ... *)
Missing(w) == CLIENT_POOL_SIZE - Len(pool[PoolOf(worker[w].id)][worker[w].host])
CountMissing(w) ==
  /\ worker[w].at = "count"
  /\ IF Missing(w) > 0 THEN worker' = [worker EXCEPT ![w].at = "connect", ![w].need = Missing(w)]
     ELSE Goto(w, "again")
  /\ UNCHANGED <<stopvars, quevars, hostvars, futvars, made, poolvars, connvars, peer, out, back,
                 recvvars, movevars, sent, answer, outcome>>

(* ... and gives up at the first failure: a task that may be tried again waits
   for another host, another one is dropped. *)
CreateFails(w) ==
  IF worker[w].id \in retry
  THEN Goto(w, "enqueue") /\ UNCHANGED <<table, outcome>>
  ELSE GiveUp(w)

(* Mutant: in the pool before it has identified itself. *)
ConnectPooled(w) ==
  /\ worker[w].at = "connect"
  /\ \/ \E c \in Conn :
          /\ worker[w].host \in up
          /\ link[c] = "none" /\ \A d \in Conn : d < c => link[d] # "none"
          /\ link' = [link EXCEPT ![c] = "up"]
          /\ dest' = [dest EXCEPT ![c] = worker[w].host]
          /\ worker' = [worker EXCEPT ![w].at = "identify", ![w].conn = c]
          /\ pool' = [pool EXCEPT ![PoolOf(worker[w].id)][worker[w].host] = Append(@, c)]
          /\ UNCHANGED <<table, outcome>>
     \/ CreateFails(w) /\ UNCHANGED <<connvars, pool>>
  /\ UNCHANGED <<stopvars, quevars, hostvars, ready, made, counter, peer, out, back, recvvars,
                 movevars, sent, answer>>

(* One after the other is connected and added to the loop (here to a host whose
   receiver listens), ... *)
Connect(w) ==
  /\ worker[w].at = "connect"
  /\ \/ \E c \in Conn :
          /\ worker[w].host \in up
          /\ link[c] = "none" /\ \A d \in Conn : d < c => link[d] # "none"
          /\ link' = [link EXCEPT ![c] = "up"]
          /\ dest' = [dest EXCEPT ![c] = worker[w].host]
          /\ worker' = [worker EXCEPT ![w].at = "identify", ![w].conn = c]
          /\ UNCHANGED <<table, outcome>>
     \/ CreateFails(w) /\ UNCHANGED connvars
  /\ UNCHANGED <<stopvars, quevars, hostvars, ready, made, poolvars, peer, out, back, recvvars,
                 movevars, sent, answer>>

(* ... says who is calling (IdentiySelfToReceiver), ... *)
Identify(w) ==
  /\ worker[w].at = "identify"
  /\ \/ /\ link[worker[w].conn] = "up"
        /\ out' = [out EXCEPT ![worker[w].conn] = Append(@, 0)]
        /\ Goto(w, "push")
        /\ UNCHANGED <<table, outcome>>
     \/ link[worker[w].conn] = "closed" /\ CreateFails(w) /\ UNCHANGED out
  /\ UNCHANGED <<stopvars, quevars, hostvars, ready, made, poolvars, connvars, peer, back,
                 recvvars, movevars, sent, answer>>

(* ... and enters the pool, even if it has been closed meanwhile. *)
Push(w) ==
  /\ worker[w].at = "push"
  /\ pool' = [pool EXCEPT ![PoolOf(worker[w].id)][worker[w].host] = Append(@, worker[w].conn)]
  /\ worker' = [worker EXCEPT ![w].at = IF worker[w].need > 1 THEN "connect" ELSE "again",
                              ![w].need = @ - 1]
  /\ UNCHANGED <<stopvars, quevars, hostvars, futvars, made, counter, connvars, peer, out, back,
                 recvvars, movevars, sent, answer, outcome>>

(* WriteTaskDataToReceiver: a posted request is done, a sent one waits for the
   future it still finds in the table. *)
WriteTaskData(w) ==
  LET i == worker[w].id  c == worker[w].conn
  IN  /\ worker[w].at = "send"
      /\ \/ /\ link[c] = "up"
            /\ out' = [out EXCEPT ![c] = Append(@, i)]
            /\ sent' = sent \cup {i}
            /\ \/ ~Sync(i) /\ Done(w) /\ UNCHANGED <<table, outcome>>
               \/ Sync(i) /\ i \in table /\ Goto(w, "wait") /\ UNCHANGED <<table, outcome>>
               \/ Sync(i) /\ i \notin table /\ GiveUp(w)
         \/ link[c] = "closed" /\ GiveUp(w) /\ UNCHANGED <<out, sent>>
      /\ UNCHANGED <<stopvars, quevars, hostvars, ready, made, poolvars, connvars, peer, back,
                     recvvars, movevars, answer>>

(* NetFuture::get in the caller of a sent request: the result, ... *)
Join(i) ==
  /\ worker[Caller(i)].at = "wait" /\ i \in ready
  /\ Done(Caller(i)) /\ Ends(i, "true")
  /\ UNCHANGED <<stopvars, quevars, hostvars, futvars, made, poolvars, connvars, peer, out, back,
                 recvvars, movevars, sent, answer>>

(* Mutant: the result of get is ignored. *)
TimeoutIgnored(i) ==
  /\ worker[Caller(i)].at = "wait"
  /\ Done(Caller(i)) /\ table' = table \ {i} /\ Ends(i, "true")
  /\ UNCHANGED <<stopvars, quevars, hostvars, ready, made, poolvars, connvars, peer, out, back,
                 recvvars, movevars, sent, answer>>

(* ... or its timeout. *)
Timeout(i) ==
  /\ worker[Caller(i)].at = "wait"
  /\ GiveUp(Caller(i))
  /\ UNCHANGED <<stopvars, quevars, hostvars, ready, made, poolvars, connvars, peer, out, back,
                 recvvars, movevars, sent, answer>>

-----------------------------------------------------------------------------
(* The loop threads of the client.                                           *)

(* Mutant: the tasks are copied and not cleared. *)
HandleRspGetClientKept(h) ==
  /\ lookups > 0 /\ answering = NotAnswering
  /\ lookups' = lookups - 1
  /\ UNCHANGED waiting
  /\ retry' = retry \ ToSet(waiting)
  /\ IF h = NoHost
     THEN table' = table \ ToSet(waiting) /\ UNCHANGED answering
     ELSE answering' = [at |-> "cache", host |-> h, tasks |-> waiting] /\ UNCHANGED table
  /\ UNCHANGED <<stopvars, quevars, worker, cached, ready, made, poolvars, connvars, peer, out,
                 back, recvvars, movevars, sent, answer, outcome>>

(* Mutant: the tasks leave the list only when there is a host. *)
HandleRspGetClientFound(h) ==
  /\ lookups > 0 /\ answering = NotAnswering
  /\ lookups' = lookups - 1
  /\ waiting' = IF h = NoHost THEN waiting ELSE << >>
  /\ retry' = retry \ ToSet(waiting)
  /\ IF h = NoHost
     THEN table' = table \ ToSet(waiting) /\ UNCHANGED answering
     ELSE answering' = [at |-> "cache", host |-> h, tasks |-> waiting] /\ UNCHANGED table
  /\ UNCHANGED <<stopvars, quevars, worker, cached, ready, made, poolvars, connvars, peer, out,
                 back, recvvars, movevars, sent, answer, outcome>>

(* HandleRspGetClient: all tasks leave the waiting list; without a host they are
   dropped, and their futures with them, ... *)
HandleRspGetClient(h) ==
  /\ lookups > 0 /\ answering = NotAnswering
  /\ lookups' = lookups - 1
  /\ waiting' = << >>
  /\ retry' = retry \ ToSet(waiting)
  /\ IF h = NoHost
     THEN table' = table \ ToSet(waiting) /\ UNCHANGED answering
     ELSE answering' = [at |-> "cache", host |-> h, tasks |-> waiting] /\ UNCHANGED table
  /\ UNCHANGED <<stopvars, quevars, worker, cached, ready, made, poolvars, connvars, peer, out,
                 back, recvvars, movevars, sent, answer, outcome>>

(* ... else the host is cached, ... *)
CacheHost ==
  /\ answering.at = "cache"
  /\ cached' = answering.host
  /\ answering' = IF answering.tasks = << >> THEN NotAnswering
                  ELSE [answering EXCEPT !.at = "requeue"]
  /\ UNCHANGED <<stopvars, quevars, worker, retry, waiting, lookups, futvars, made, poolvars,
                 connvars, peer, out, back, recvvars, movevars, sent, answer, outcome>>

(* ... and one after the other is queued anew, not to be tried again. *)
Requeue ==
  /\ answering.at = "requeue"
  /\ QueueReqTaskToReceiver(Head(answering.tasks))
  /\ answering' = IF Len(answering.tasks) = 1 THEN NotAnswering
                  ELSE [answering EXCEPT !.tasks = Tail(@)]
  /\ UNCHANGED <<stopvars, rtask_list, named, worker, retry, cached, waiting, lookups, futvars,
                 made, poolvars, connvars, peer, out, back, recvvars, movevars, sent, answer,
                 outcome>>

(* Req2Receiver_onRead: the future is found by the id in the answer; the
   callback of a posted request runs. *)
Req2Receiver_onRead(c) ==
  /\ link[c] = "up" /\ back[c] # << >>
  /\ LET i == Head(back[c])
     IN  /\ table' = table \ {i}
         /\ ready' = IF i \in table THEN ready \cup {i} ELSE ready
         /\ IF i \in table /\ ~Sync(i) THEN Ends(i, "true") ELSE UNCHANGED outcome
  /\ back' = [back EXCEPT ![c] = Tail(@)]
  /\ UNCHANGED <<stopvars, quevars, worker, hostvars, made, poolvars, connvars, peer, out,
                 recvvars, movevars, sent, answer>>

(* TcpClientPool::RemoveTcpSock erases every equal entry: a connection is in the
   pool at most once (OncePooled in the proofs), so the first is all there are. *)
RemoveTcpSock(c) ==
  pool' = [k \in Pools |-> [h \in Hosts |-> RemoveFirst(pool[k][h], c)]]

(* Req2Receiver_onClose and Req2Receiver_onError, once the other side has gone. *)
Req2Receiver_onClose(c) ==
  /\ link[c] = "up" /\ peer[c] = "closed"
  /\ link' = [link EXCEPT ![c] = "closed"]
  /\ RemoveTcpSock(c)
  /\ safe_clear_bad_future
  /\ out' = [out EXCEPT ![c] = << >>] /\ back' = [back EXCEPT ![c] = << >>]
  /\ UNCHANGED <<stopvars, quevars, worker, hostvars, ready, made, counter, dest, peer, recvvars,
                 movevars, sent, answer, outcome>>

-----------------------------------------------------------------------------
(* The receiver.                                                             *)

(* The accept thread counts a connection before it tests the limit. *)
Accept(c) ==
  /\ link[c] # "none" /\ peer[c] = "backlog" /\ dest[c] \in accepting
  /\ m_sendmsg_clientnum' = [m_sendmsg_clientnum EXCEPT ![dest[c]] = @ + 1]
  /\ peer' = [peer EXCEPT ![c] = IF m_sendmsg_clientnum[dest[c]] + 1 > MAX_SENDMSG_CLIENT_NUM
                                 THEN "closed" ELSE "open"]
  /\ UNCHANGED <<stopvars, quevars, worker, hostvars, futvars, made, poolvars, connvars, out,
                 back, senders, work, arrived, movevars, sent, answer, outcome>>

(* Mutant: the place in the buffer moves on only while the sender is not known. *)
receiver_onReadKept(c) ==
  /\ peer[c] \in {"open", "failed"} /\ link[c] = "up" /\ out[c] # << >>
  /\ out' = IF c \in senders THEN out ELSE [out EXCEPT ![c] = Tail(@)]
  /\ LET i == Head(out[c])
     IN  /\ senders' = IF FilterBySender THEN senders \cup {c} ELSE senders
         /\ IF (c \in senders \/ FilterBySender) /\ i # 0
            THEN work' = work \cup {<<c, i>>} /\ arrived' = Append(arrived, i)
            ELSE UNCHANGED <<work, arrived>>
  /\ UNCHANGED <<stopvars, quevars, worker, hostvars, futvars, made, poolvars, connvars, peer,
                 back, m_sendmsg_clientnum, movevars, sent, answer, outcome>>

(* receiver_onRead: a connection that has not identified itself is checked
   against the filter; a message with an id is queued to the pool of threads. *)
receiver_onRead(c) ==
  /\ peer[c] \in {"open", "failed"} /\ link[c] = "up" /\ out[c] # << >>
  /\ out' = [out EXCEPT ![c] = Tail(@)]
  /\ LET i == Head(out[c])
     IN  /\ senders' = IF FilterBySender THEN senders \cup {c} ELSE senders
         /\ IF (c \in senders \/ FilterBySender) /\ i # 0
            THEN work' = work \cup {<<c, i>>} /\ arrived' = Append(arrived, i)
            ELSE UNCHANGED <<work, arrived>>
  /\ UNCHANGED <<stopvars, quevars, worker, hostvars, futvars, made, poolvars, connvars, peer,
                 back, m_sendmsg_clientnum, movevars, sent, answer, outcome>>

(* receiver_onError in the write thread, which can only queue the close: the
   loop thread may read on, and run receiver_onClose as well. *)
receiver_onError(c) ==
  /\ peer' = [peer EXCEPT ![c] = "failed"]
  /\ m_sendmsg_clientnum' = [m_sendmsg_clientnum EXCEPT ![dest[c]] = @ - 1]
  /\ senders' = senders \ {c}

(* NetMsgBusRspSendMsg: an excluded message id gets no answer; the write of an
   answer may fail. *)
NetMsgBusRspSendMsg(c, i) ==
  /\ <<c, i>> \in work
  /\ work' = work \ {<<c, i>>}
  /\ answer' = IF FilterByMsgId(i) THEN [answer EXCEPT ![i] = "ok"] ELSE answer
  /\ \/ /\ back' = IF ~FilterByMsgId(i) \/ peer[c] # "open" \/ link[c] # "up" THEN back
                   ELSE [back EXCEPT ![c] = Append(@, i)]
        /\ UNCHANGED <<peer, m_sendmsg_clientnum, senders>>
     \/ /\ FilterByMsgId(i) /\ peer[c] \in {"open", "failed"}
        /\ receiver_onError(c)
        /\ UNCHANGED back
  /\ UNCHANGED <<stopvars, quevars, worker, hostvars, futvars, made, poolvars, connvars, out,
                 arrived, movevars, sent, outcome>>

(* receiver_onClose, receiver_onError and receiver_onTimeout in the loop thread; or
   the close the write thread has queued, which runs none of them. *)
receiver_onClose(c) ==
  /\ peer[c] \in {"open", "failed"}
  /\ peer' = [peer EXCEPT ![c] = "closed"]
  /\ \/ /\ m_sendmsg_clientnum' = [m_sendmsg_clientnum EXCEPT ![dest[c]] = @ - 1]
        /\ senders' = senders \ {c}
     \/ peer[c] = "failed" /\ UNCHANGED <<m_sendmsg_clientnum, senders>>
  /\ UNCHANGED <<stopvars, quevars, worker, hostvars, futvars, made, poolvars, connvars, out, back,
                 work, arrived, movevars, sent, answer, outcome>>

(* The accept thread of a new receiver listens at the port it was given or the
   first of the ten after it that is free, and serves nobody yet; the host with
   that port is what the client then registers with the server.  Or no port is
   free and the process ends; or the socket cannot be made nonblocking or
   close-on-exec, and it listens though nobody accepts and StartReceiver waits. *)
StartReceiver(h) ==
  /\ \/ up' = {h} /\ accepting' = {h} /\ known' = known \cup {h}
     \/ up' = {} /\ accepting' = {} /\ UNCHANGED known
     \/ up' = {h} /\ accepting' = {} /\ UNCHANGED known
  /\ m_sendmsg_clientnum' = [g \in Hosts |-> 0]
  /\ senders' = {} /\ work' = {}

(* The receiver's process ends at one host and is started at another. *)
Move(h) ==
  /\ moves < MaxMoves /\ h \notin up
  /\ moves' = moves + 1
  /\ peer' = [c \in Conn |-> IF link[c] # "none" /\ dest[c] \in up THEN "closed" ELSE peer[c]]
  /\ StartReceiver(h)
  /\ UNCHANGED <<stopvars, quevars, worker, hostvars, futvars, made, poolvars, connvars, out, back,
                 arrived, sent, answer, outcome>>

-----------------------------------------------------------------------------
WorkerStep(w) ==
  \/ ReadCache(w) \/ QueueWaiting(w) \/ Forget(w) \/ AskServer(w)
  \/ FindConnection(w) \/ CountMissing(w) \/ Connect(w) \/ Identify(w) \/ Push(w)
  \/ FindAgain(w) \/ WriteTaskData(w)

CallerStep(i) == SyncLookup(i) \/ Join(i) \/ Timeout(i)

DispatcherStep == TakeAll \/ Dispatch \/ EndDispatcher

LookupAnswered == \E h \in known \cup {NoHost} : HandleRspGetClient(h)

Next ==
  \/ Start \/ Stop \/ DispatcherStep
  \/ \E i \in Id : PostMsgDirectToClient(i) \/ SendMsgDirectToClient(i)
  \/ \E t \in Named : NextTask(t)
  \/ \E w \in Workers : WorkerStep(w)
  \/ \E i \in Id : CallerStep(i)
  \/ LookupAnswered \/ CacheHost \/ Requeue
  \/ \E c \in Conn : \/ Req2Receiver_onRead(c) \/ Req2Receiver_onClose(c) \/ Accept(c)
                     \/ receiver_onRead(c) \/ receiver_onClose(c)
                     \/ \E i \in Id : NetMsgBusRspSendMsg(c, i)
  \/ \E h \in Hosts : Move(h)

Spec == Init /\ [][Next]_vars

(* The dispatching thread, the named threads and the loop run on, and a look-up
   that reached a reliable server is answered. *)
FairSpec ==
  /\ Spec
  /\ WF_vars(DispatcherStep)
  /\ WF_vars(\E t \in Named : WorkerStep(t))
  /\ WF_vars(LookupAnswered) /\ WF_vars(CacheHost \/ Requeue)

-----------------------------------------------------------------------------
C == INSTANCE Calls

(* A request ends at most once, and successfully only when a receiver has
   answered this very request: answers of several connections find the futures
   by number, also after timeouts, retries and cleared tables. *)
CallsRefined == C!CSpec

(* A request is handled by a receiver at most once, though it may be queued, put
   aside and queued again when its host is not known or does not answer. *)
HandledOnce == \A j, k \in 1..Len(arrived) : arrived[j] = arrived[k] => j = k

Queued == container \o rtask_list \o waiting \o answering.tasks
          \o named[<<"byname", 0>>] \o named[<<"byip", 0>>]
Carrying(w) == worker[w].at \notin {"idle", "forget", "ask"}

(* As long as its future is in the table a request is in exactly one place on
   its way, or has been written to a connection: it is neither forgotten nor
   doubled in the hand-over between threads, lists and answers. *)
OnePlace ==
  \A i \in table \ sent :
    Cardinality({j \in 1..Len(Queued) : Queued[j] = i})
      + Cardinality({w \in Workers : Carrying(w) /\ worker[w].id = i}) = 1

(* The receiver reads who is calling before it reads any request of a
   connection, though several threads take connections from the pool while
   others fill it.  (It forgets who was calling when one of its writes fails.) *)
IdentifiedFirst ==
  \A c \in Conn :
    Allowed /\ c \notin senders /\ peer[c] \in {"backlog", "open"} /\ out[c] # << >> => Head(out[c]) = 0

(* A request that waits for a host is released, or dropped, by an answer of the
   server; with a reliable server none waits for ever. *)
WaitingReleased == waiting # << >> ~> waiting = << >>
=============================================================================
