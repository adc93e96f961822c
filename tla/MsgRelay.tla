----------------------------- MODULE MsgRelay -----------------------------
(***************************************************************************)
(* The threads of the bus server (src/Core/msgbus_server.cpp): pool threads *)
(* that queue messages to relay, msgbus_process_thread that sends them on,  *)
(* the accept thread that decides when the server ends, and main, which     *)
(* wakes and joins both.  The registry changes active_clients meanwhile, as *)
(* ActiveClients says (ServiceTables implements that).                      *)
(*                                                                          *)
(* A name is a sequence of characters: relaying matches prefixes.           *)
(***************************************************************************)
EXTENDS Integers, Sequences, FiniteSets

CONSTANTS
  Names,       \* service names, non-empty sequences
  Conns,       \* connections of registered clients
  Dests,       \* destinations of messages; << >>: to every service
  NoTask,      \* a value that is no message
  QuitRounds,  \* 15 in the code: rounds without clients the server survives
  MaxMsgs      \* bound: messages to relay

VARIABLES
  active_clients,  \* name -> connections                  (g_activeclients_locker)
  found,           \* dest -> pool threads that found a receiver, not queued yet
  asked,           \* messages so far
  reqs,            \* reqtoclient_task_container                  (g_reqtask_locker)
  broadcasts,      \* broadcast_task_container                    (g_reqtask_locker)
  running_reqs,    \* running_reqtask_list
  running_bcasts,  \* running_broadcast_task_list
  queued,          \* number of messages queued so far
  dests,           \* connections selected for the message at the head
  proc,            \* program counter of msgbus_process_thread
  lastreq,         \* history: the directed message relayed last
  lastbcast,       \* history: the broadcast relayed last
  delivered,       \* per connection, what was handed to SendData
  terminate,       \* s_netmsgbus_server_terminate
  noclient_quit_cnt,
  accept,          \* program counter of the accept thread
  main             \* program counter of main

queues  == <<reqs, broadcasts, running_reqs, running_bcasts, queued>>
sending == <<dests, lastreq, lastbcast, delivered>>
ends    == <<terminate, noclient_quit_cnt, accept, main>>
vars == <<active_clients, found, asked, queues, sending, proc, ends>>

-----------------------------------------------------------------------------
Broadcast == << >>

Msg == [seq : 1..MaxMsgs, dest : Dests]

(* Where the process thread can be: testing its queues under the lock,
   asleep, woken, choosing receivers for a message, sending it, returned. *)
ProcStates == {"test", "wait", "woken", "reqs", "sendreq", "bcasts", "sendbcast", "exited"}

ASSUME MsgRelayAssumption ==
  /\ Names \subseteq Seq(STRING) \ {Broadcast}
  /\ Dests \subseteq Seq(STRING)
  /\ IsFiniteSet(Names)
  /\ NoTask \notin Msg
  /\ QuitRounds \in Nat
  /\ MaxMsgs \in Nat

QueueType ==
  /\ found \in [Dests -> Nat]
  /\ asked \in 0..MaxMsgs
  /\ queued \in 0..MaxMsgs
  /\ reqs \in Seq(Msg) /\ broadcasts \in Seq(Msg)
  /\ running_reqs \in Seq(Msg) /\ running_bcasts \in Seq(Msg)

SendType ==
  /\ active_clients \in [Names -> SUBSET Conns]
  /\ dests \subseteq (Names \cup Dests) \X Conns
  /\ proc \in ProcStates
  /\ lastreq \in Msg \cup {NoTask} /\ lastbcast \in Msg \cup {NoTask}
  /\ delivered \in [Conns -> Seq(Msg)]

EndType ==
  /\ terminate \in BOOLEAN
  /\ noclient_quit_cnt \in 0..(QuitRounds + 1)
  /\ accept \in {"start", "select", "exited"}
  /\ main \in {"sleep", "join", "done"}

TypeOK == QueueType /\ SendType /\ EndType

Init ==
  /\ active_clients = [n \in Names |-> {}]
  /\ found = [d \in Dests |-> 0] /\ asked = 0 /\ queued = 0
  /\ reqs = << >> /\ broadcasts = << >>
  /\ running_reqs = << >> /\ running_bcasts = << >>
  /\ dests = {} /\ proc = "test" /\ lastreq = NoTask /\ lastbcast = NoTask
  /\ delivered = [c \in Conns |-> << >>]
  /\ terminate = FALSE /\ noclient_quit_cnt = 0
  /\ accept = "start" /\ main = "sleep"

-----------------------------------------------------------------------------
(* Receivers.                                                               *)

is_prefix_matching(left, right) ==
  IF Len(left) > Len(right) THEN SubSeq(left, 1, Len(right)) = right
                            ELSE SubSeq(right, 1, Len(left)) = left

Matching(d) == {n \in Names : is_prefix_matching(n, d) /\ active_clients[n] # {}}

(* msgbus_select_best_client: rand() may pick any connection of the service. *)
Selections(S) == {f \in [S -> Conns] : \A n \in S : f[n] \in active_clients[n]}

AC == INSTANCE ActiveClients

(* The registry enters or removes a connection. *)
ClientsChange ==
  /\ AC!ACNext
  /\ UNCHANGED <<found, asked, queues, sending, proc, ends>>

-----------------------------------------------------------------------------
(* Pool threads: process_sendmsg_req.                                       *)

(* First critical section: is there a receiver?  If not, the sender is told
   so and nothing is queued. *)
FindDest(d) ==
  /\ asked < MaxMsgs
  /\ asked' = asked + 1
  /\ found' = IF Matching(d) # {} THEN [found EXCEPT ![d] = @ + 1] ELSE found
  /\ UNCHANGED <<active_clients, queues, sending, proc, ends>>

(* Mutant: nobody is told. *)
NotifyNobody == UNCHANGED proc

(* g_reqtask_cond: wakes the process thread if it waits. *)
Notify == proc' = IF proc = "wait" THEN "woken" ELSE proc

NewMsg(d) == [seq |-> queued + 1, dest |-> d]

(* Second critical section: msgbus_queue_reqtoclient, msgbus_queue_broadcast. *)
QueueMsg(d) ==
  /\ found[d] > 0
  /\ queued < MaxMsgs   \* no restriction: no more are queued than asked for
  /\ found' = [found EXCEPT ![d] = @ - 1]
  /\ queued' = queued + 1
  /\ \/ /\ d = Broadcast
        /\ broadcasts' = Append(broadcasts, NewMsg(d)) /\ UNCHANGED reqs
     \/ /\ d # Broadcast
        /\ reqs' = Append(reqs, NewMsg(d)) /\ UNCHANGED broadcasts
  /\ Notify
  /\ UNCHANGED <<active_clients, asked, running_reqs, running_bcasts, sending, ends>>

-----------------------------------------------------------------------------
(* msgbus_process_thread.                                                   *)

(* Mutant: the lists are copied, the containers keep their messages. *)
ProcTestCopy ==
  /\ proc = "test"
  /\ \/ /\ terminate
        /\ proc' = "exited" /\ UNCHANGED queues
     \/ /\ ~terminate /\ reqs = << >> /\ broadcasts = << >>
        /\ proc' = "wait" /\ UNCHANGED queues
     \/ /\ ~terminate /\ ~(reqs = << >> /\ broadcasts = << >>)
        /\ proc' = "reqs"
        /\ running_reqs' = reqs /\ running_bcasts' = broadcasts
        /\ UNCHANGED <<reqs, broadcasts, queued>>
  /\ UNCHANGED <<active_clients, found, asked, sending, ends>>

(* Under g_reqtask_locker: end, sleep or take everything queued. *)
ProcTest ==
  /\ proc = "test"
  /\ \/ /\ terminate
        /\ proc' = "exited" /\ UNCHANGED queues
     \/ /\ ~terminate /\ reqs = << >> /\ broadcasts = << >>
        /\ proc' = "wait" /\ UNCHANGED queues
     \/ /\ ~terminate /\ ~(reqs = << >> /\ broadcasts = << >>)
        /\ proc' = "reqs"
        /\ running_reqs' = reqs /\ reqs' = << >>
        /\ running_bcasts' = broadcasts /\ broadcasts' = << >>
        /\ UNCHANGED queued
  /\ UNCHANGED <<active_clients, found, asked, sending, ends>>

(* Notified: test again. *)
ProcWoken ==
  /\ proc = "woken"
  /\ proc' = "test"
  /\ UNCHANGED <<active_clients, found, asked, queues, sending, ends>>

(* pthread_cond_wait may return without a notification. *)
ProcSpurious ==
  /\ proc = "wait"
  /\ proc' = "test"
  /\ UNCHANGED <<active_clients, found, asked, queues, sending, ends>>

(* Mutant: a connection once for each of its services. *)
SelectReqPerName ==
  /\ proc = "reqs" /\ running_reqs # << >>
  /\ LET d == Head(running_reqs).dest
     IN \E f \in Selections(Matching(d)) : dests' = {<<n, f[n]>> : n \in Matching(d)}
  /\ proc' = "sendreq"
  /\ UNCHANGED <<active_clients, found, asked, queues, lastreq, lastbcast, delivered, ends>>

(* One receiver per matching service; the same connection only once. *)
SelectReq ==
  /\ proc = "reqs" /\ running_reqs # << >>
  /\ LET d == Head(running_reqs).dest
     IN \E f \in Selections(Matching(d)) : dests' = {<<d, f[n]>> : n \in Matching(d)}
  /\ proc' = "sendreq"
  /\ UNCHANGED <<active_clients, found, asked, queues, lastreq, lastbcast, delivered, ends>>

(* One receiver per service; a connection once for each of its services. *)
SelectBroadcast ==
  /\ proc = "bcasts" /\ running_bcasts # << >>
  /\ \E f \in Selections(Matching(Broadcast)) :
       dests' = {<<n, f[n]>> : n \in Matching(Broadcast)}
  /\ proc' = "sendbcast"
  /\ UNCHANGED <<active_clients, found, asked, queues, lastreq, lastbcast, delivered, ends>>

(* SendData to every selected connection: one that has been removed since may
   be closed, and then drops the data. *)
SendTo(m) ==
  \E lost \in SUBSET {c \in Conns : \A n \in Names : c \notin active_clients[n]} :
    delivered' = [c \in Conns |->
      IF c \in lost THEN delivered[c]
      ELSE delivered[c] \o [i \in 1..Cardinality({x \in dests : x[2] = c}) |-> m]]

SendReq ==
  /\ proc = "sendreq"
  /\ SendTo(Head(running_reqs))
  /\ lastreq' = Head(running_reqs) /\ running_reqs' = Tail(running_reqs)
  /\ proc' = "reqs"
  /\ UNCHANGED <<active_clients, found, asked, reqs, broadcasts, running_bcasts, queued,
                 dests, lastbcast, ends>>

SendBroadcast ==
  /\ proc = "sendbcast"
  /\ SendTo(Head(running_bcasts))
  /\ lastbcast' = Head(running_bcasts) /\ running_bcasts' = Tail(running_bcasts)
  /\ proc' = "bcasts"
  /\ UNCHANGED <<active_clients, found, asked, reqs, broadcasts, running_reqs, queued,
                 dests, lastreq, ends>>

(* A list is done: first the directed messages, then the broadcasts. *)
ListDone ==
  /\ \/ proc = "reqs" /\ running_reqs = << >> /\ proc' = "bcasts"
     \/ proc = "bcasts" /\ running_bcasts = << >> /\ proc' = "test"
  /\ UNCHANGED <<active_clients, found, asked, queues, sending, ends>>

-----------------------------------------------------------------------------
(* The accept thread and main.                                              *)

(* The socket is bound and listens; or it cannot, and the server ends; or it
   cannot be made nonblocking or close-on-exec, and the thread returns without
   the flag: main sleeps on. *)
AcceptStart ==
  /\ accept = "start"
  /\ \/ accept' = "select" /\ UNCHANGED terminate
     \/ accept' = "exited" /\ terminate' = TRUE
     \/ accept' = "exited" /\ UNCHANGED terminate
  /\ UNCHANGED <<active_clients, found, asked, queues, sending, proc,
                 noclient_quit_cnt, main>>

NoClients == \A n \in Names : active_clients[n] = {}

(* One round of select: it timed out, or a client connects (which enters
   active_clients only when its registration is processed). *)
AcceptRound ==
  LET cnt == IF NoClients THEN noclient_quit_cnt + 1 ELSE 0
  IN /\ accept = "select"
     /\ noclient_quit_cnt' = cnt
     /\ terminate' = (terminate \/ cnt > QuitRounds)
     /\ accept' = IF terminate' THEN "exited" ELSE "select"
     /\ UNCHANGED <<active_clients, found, asked, queues, sending, proc, main>>

(* Mutant: main joins without waking the process thread. *)
MainJoins ==
  /\ main = "sleep" /\ terminate
  /\ main' = "join"
  /\ UNCHANGED <<active_clients, found, asked, queues, sending, proc,
                 terminate, noclient_quit_cnt, accept>>

(* main polls the flag and then notifies, holding g_reqtask_locker. *)
MainNotify ==
  /\ main = "sleep" /\ terminate
  /\ Notify
  /\ main' = "join"
  /\ UNCHANGED <<active_clients, found, asked, queues, sending,
                 terminate, noclient_quit_cnt, accept>>

MainJoined ==
  /\ main = "join" /\ accept = "exited" /\ proc = "exited"
  /\ main' = "done"
  /\ UNCHANGED <<active_clients, found, asked, queues, sending, proc,
                 terminate, noclient_quit_cnt, accept>>

Process == ProcTest \/ ProcWoken \/ SelectReq \/ SendReq \/ SelectBroadcast \/ SendBroadcast \/ ListDone

Next ==
  \/ ClientsChange
  \/ \E d \in Dests : FindDest(d) \/ QueueMsg(d)
  \/ Process \/ ProcSpurious
  \/ AcceptStart \/ AcceptRound
  \/ MainNotify \/ MainJoined

Spec == Init /\ [][Next]_vars

(* The threads run; select returns at least every TIMEOUT_SHORT.  Neither    *)
(* clients nor spurious wake-ups are owed anything.                          *)
FairSpec ==
  /\ Spec
  /\ WF_vars(Process)
  /\ WF_vars(AcceptStart) /\ WF_vars(AcceptRound)
  /\ WF_vars(MainNotify) /\ WF_vars(MainJoined)

-----------------------------------------------------------------------------
(* Properties.                                                              *)

(* No lost wake-up: the process thread only sleeps when there is nothing to  *)
(* relay, and never once main has told it to end, although the flag itself   *)
(* is set by another thread without the lock.                                *)
NoLostNotify ==
  proc = "wait" => reqs = << >> /\ broadcasts = << >> /\ main = "sleep"

(* Directed messages reach a connection in the order they were queued, each  *)
(* at most once, also when the connection serves several matching names.     *)
RelayInOrder ==
  \A c \in Conns : \A i, j \in 1..Len(delivered[c]) :
    /\ i < j
    /\ delivered[c][i].dest # Broadcast /\ delivered[c][j].dest # Broadcast
    => delivered[c][i].seq < delivered[c][j].seq

(* Each kind of message is handled as TaskQueue says: in the order queued,   *)
(* at most once, nothing after the thread returned.                          *)
Reqs == INSTANCE TaskQueue WITH Task <- Msg, queue <- running_reqs \o reqs,
                                lastrun <- lastreq, stopped <- (proc = "exited")

Bcasts == INSTANCE TaskQueue WITH Task <- Msg, queue <- running_bcasts \o broadcasts,
                                  lastrun <- lastbcast, stopped <- (proc = "exited")

RelayRefined == Reqs!TQSpec /\ Bcasts!TQSpec

(* What is queued is taken, unless the server ends first.                    *)
RelayTaken ==
  (reqs # << >> \/ broadcasts # << >>) ~>
    ((reqs = << >> /\ broadcasts = << >>) \/ proc = "exited")

(* The flag ends the server: both threads return and main joins them, though *)
(* the process thread may be asleep and clients come and go.                 *)
ServerEnds == terminate ~> (main = "done")
=============================================================================
