---------------------------- MODULE LocalMsgBus ----------------------------
(***************************************************************************)
(* The message bus within a process (src/Core/msgbus_interface.cpp):        *)
(* threads that send messages and wait for the answer (SendMsg) or only     *)
(* post them (PostMsg), the bus thread MsgTaskProcessProc that handles      *)
(* them, and the thread that starts and destroys the bus.                   *)
(*                                                                          *)
(* A step is one critical section or one access outside them.  Which        *)
(* handlers a message has changes at any time, so looking them up has any   *)
(* outcome, and what they do to a message is left out: an answer is known   *)
(* by the message it is the answer to.  Posts of the same message that      *)
(* follow each other share one look-up, which is not visible here.  A       *)
(* handler that sends or posts from the bus thread does what any thread     *)
(* does.                                                                    *)
(***************************************************************************)
EXTENDS Integers, Sequences

CONSTANTS
  Threads,   \* threads that send and post
  BusTid,    \* msgbus_tid
  NoTask,    \* a value that is no message
  MaxMsgs    \* bound: messages sent and posted

VARIABLES
  s_msgbus_running,
  s_msgbus_terminate,
  s_all_sendmsgtask,  \* messages somebody waits for      (s_msgtask_locker)
  s_all_msgtask,      \* posted messages                  (s_msgtask_locker)
  running_sends,      \* running_task_list, its first part
  running_posts,      \* running_task_list, its second part
  lastsend,           \* the sent message handled last
  lastpost,           \* history: the post handled last
  bus,                \* program counter of the bus thread
  sp_readyinfo,       \* what the bus thread found in s_ready_sendmsgs
  s_ready_sendmsgs,   \* per thread, the call its ReadySendMsgInfo belongs to
  info,               \* per thread, that ReadySendMsgInfo: the message whose
                      \* answer it holds; NoTask: not ready
  pc,                 \* program counter of a thread
  own,                \* the message of its current or last call
  got,                \* the message whose answer SendMsg returns, or NoTask
  timedout,           \* history: threads of which a SendMsg timed out
  made,               \* number of messages so far
  main                \* program counter of InitMsgBus and DestroyMsgBus

queues == <<s_all_sendmsgtask, s_all_msgtask>>
batch  == <<running_sends, running_posts, lastsend, lastpost>>
call   == <<own, got, timedout, made>>
flags  == <<s_msgbus_running, s_msgbus_terminate>>
vars == <<queues, batch, bus, sp_readyinfo, s_ready_sendmsgs, info, pc, call, flags, main>>

-----------------------------------------------------------------------------
Task == [id : 1..MaxMsgs, from : Threads \cup {BusTid}]

BusStates == {"none", "created", "top", "lock", "wait", "woken", "check", "run",
              "find", "set", "exited"}

(* Not in a call; before the look-up of handlers, the entry into
   s_ready_sendmsgs, the push; testing, sleeping, woken; before the erase;
   between PostMsg's test and its push. *)
ThreadStates == {"idle", "lookup", "enter", "push", "test", "asleep", "woken", "erase", "post"}

ASSUME LocalMsgBusAssumption ==
  /\ BusTid \notin Threads
  /\ NoTask \notin Task
  /\ MaxMsgs \in Nat

QueueType ==
  /\ s_all_sendmsgtask \in Seq(Task) /\ s_all_msgtask \in Seq(Task)
  /\ running_sends \in Seq(Task) /\ running_posts \in Seq(Task)
  /\ lastsend \in Task \cup {NoTask} /\ lastpost \in Task \cup {NoTask}

AnswerType ==
  /\ sp_readyinfo \in Task \cup {NoTask}
  /\ s_ready_sendmsgs \in [Threads -> Task \cup {NoTask}]
  /\ info \in [Threads -> Task \cup {NoTask}]

CallType ==
  /\ pc \in [Threads -> ThreadStates]
  /\ own \in [Threads -> Task \cup {NoTask}]
  /\ got \in [Threads -> Task \cup {NoTask}]
  /\ timedout \subseteq Threads
  /\ made \in 0..MaxMsgs

LifeType ==
  /\ s_msgbus_running \in BOOLEAN /\ s_msgbus_terminate \in BOOLEAN
  /\ bus \in BusStates
  /\ main \in {"down", "starting", "up", "notify", "join", "gone"}

TypeOK == QueueType /\ AnswerType /\ CallType /\ LifeType

Init ==
  /\ s_all_sendmsgtask = << >> /\ s_all_msgtask = << >>
  /\ running_sends = << >> /\ running_posts = << >>
  /\ lastsend = NoTask /\ lastpost = NoTask
  /\ bus = "none" /\ sp_readyinfo = NoTask
  /\ s_ready_sendmsgs = [t \in Threads |-> NoTask]
  /\ info = [t \in Threads |-> NoTask]
  /\ pc = [t \in Threads |-> "idle"]
  /\ own = [t \in Threads |-> NoTask] /\ got = [t \in Threads |-> NoTask]
  /\ timedout = {} /\ made = 0
  /\ s_msgbus_running = FALSE /\ s_msgbus_terminate = FALSE
  /\ main = "down"

-----------------------------------------------------------------------------
(* Threads: SendMsg and PostMsg.                                            *)

NewTask(from) == [id |-> made + 1, from |-> from]

(* A call begins; when the bus does not run it returns FALSE at once. *)
BeginCall(t, from, at) ==
  /\ pc[t] = "idle" /\ s_msgbus_running
  /\ made < MaxMsgs
  /\ made' = made + 1
  /\ own' = [own EXCEPT ![t] = NewTask(from)]
  /\ pc' = [pc EXCEPT ![t] = at]
  /\ UNCHANGED <<queues, batch, bus, sp_readyinfo, s_ready_sendmsgs, info, got, timedout,
                 flags, main>>

SendMsg(t) == BeginCall(t, t, "lookup")

PostMsg(t) == BeginCall(t, BusTid, "post")

(* No handler, or only handlers that may be called in any thread and are
   called right here: SendMsg returns.  Otherwise the bus thread is needed. *)
SendLookup(t) ==
  /\ pc[t] = "lookup"
  /\ \E at \in {"idle", "enter"} : pc' = [pc EXCEPT ![t] = at]
  /\ UNCHANGED <<queues, batch, bus, sp_readyinfo, s_ready_sendmsgs, info, call, flags, main>>

(* A new ReadySendMsgInfo is entered under the thread's id. *)
SendEnter(t) ==
  /\ pc[t] = "enter"
  /\ s_ready_sendmsgs' = [s_ready_sendmsgs EXCEPT ![t] = own[t]]
  /\ info' = [info EXCEPT ![t] = NoTask]
  /\ pc' = [pc EXCEPT ![t] = "push"]
  /\ UNCHANGED <<queues, batch, bus, sp_readyinfo, call, flags, main>>

(* Mutant: nobody is told. *)
NotifyNobody == UNCHANGED bus

(* s_msgtask_condition: wakes the bus thread if it waits. *)
Notify == bus' = IF bus = "wait" THEN "woken" ELSE bus

(* The push of SendMsg, under s_msgtask_locker. *)
SendPush(t) ==
  /\ pc[t] = "push"
  /\ s_all_sendmsgtask' = Append(s_all_sendmsgtask, own[t])
  /\ Notify
  /\ pc' = [pc EXCEPT ![t] = "test"]
  /\ UNCHANGED <<s_all_msgtask, batch, sp_readyinfo, s_ready_sendmsgs, info, call, flags, main>>

(* The push of PostMsg, and its return. *)
PostPush(t) ==
  /\ pc[t] = "post"
  /\ s_all_msgtask' = Append(s_all_msgtask, own[t])
  /\ Notify
  /\ pc' = [pc EXCEPT ![t] = "idle"]
  /\ UNCHANGED <<s_all_sendmsgtask, batch, sp_readyinfo, s_ready_sendmsgs, info, call, flags, main>>

(* Mutant: SendMsg waits before it looks. *)
SendTestBlind(t) ==
  /\ pc[t] = "test"
  /\ pc' = [pc EXCEPT ![t] = "asleep"]
  /\ UNCHANGED <<queues, batch, bus, sp_readyinfo, s_ready_sendmsgs, info, call, flags, main>>

(* Under wait_lock: the answer is there, or the thread goes to sleep. *)
SendTest(t) ==
  /\ pc[t] = "test"
  /\ \/ /\ info[t] # NoTask
        /\ got' = [got EXCEPT ![t] = info[t]]
        /\ pc' = [pc EXCEPT ![t] = "erase"]
     \/ /\ info[t] = NoTask
        /\ pc' = [pc EXCEPT ![t] = "asleep"]
        /\ UNCHANGED got
  /\ UNCHANGED <<queues, batch, bus, sp_readyinfo, s_ready_sendmsgs, info, own, timedout,
                 made, flags, main>>

(* waittime returned, notified or not: take the answer or test once more. *)
SendWoken(t) ==
  /\ pc[t] = "woken"
  /\ \/ /\ info[t] # NoTask
        /\ got' = [got EXCEPT ![t] = info[t]]
        /\ pc' = [pc EXCEPT ![t] = "erase"]
     \/ /\ info[t] = NoTask
        /\ pc' = [pc EXCEPT ![t] = "test"]
        /\ UNCHANGED got
  /\ UNCHANGED <<queues, batch, bus, sp_readyinfo, s_ready_sendmsgs, info, own, timedout,
                 made, flags, main>>

SendSpurious(t) ==
  /\ pc[t] = "asleep"
  /\ pc' = [pc EXCEPT ![t] = "woken"]
  /\ UNCHANGED <<queues, batch, bus, sp_readyinfo, s_ready_sendmsgs, info, call, flags, main>>

(* TIMEOUT_SENDMSG is over, perhaps just when the answer was given. *)
SendTimeout(t) ==
  /\ pc[t] \in {"asleep", "woken"}
  /\ got' = [got EXCEPT ![t] = NoTask]
  /\ timedout' = timedout \cup {t}
  /\ pc' = [pc EXCEPT ![t] = "erase"]
  /\ UNCHANGED <<queues, batch, bus, sp_readyinfo, s_ready_sendmsgs, info, own, made, flags, main>>

(* The entry is erased and SendMsg returns. *)
SendErase(t) ==
  /\ pc[t] = "erase"
  /\ s_ready_sendmsgs' = [s_ready_sendmsgs EXCEPT ![t] = NoTask]
  /\ pc' = [pc EXCEPT ![t] = "idle"]
  /\ UNCHANGED <<queues, batch, bus, sp_readyinfo, info, call, flags, main>>

-----------------------------------------------------------------------------
(* The bus thread: MsgTaskProcessProc.                                      *)

BusStart ==
  /\ bus = "created"
  /\ s_msgbus_running' = TRUE
  /\ bus' = "top"
  /\ UNCHANGED <<queues, batch, sp_readyinfo, s_ready_sendmsgs, info, pc, call,
                 s_msgbus_terminate, main>>

(* The thread returns; what it has taken is not handled. *)
BusExit ==
  /\ s_msgbus_running' = FALSE
  /\ bus' = "exited"

(* The tests of the flag: at the top of the loop and after the tasks were
   taken. *)
BusTest ==
  /\ bus \in {"top", "check"}
  /\ \/ s_msgbus_terminate /\ BusExit
     \/ /\ ~s_msgbus_terminate
        /\ bus' = IF bus = "top" THEN "lock" ELSE "run"
        /\ UNCHANGED s_msgbus_running
  /\ UNCHANGED <<queues, batch, sp_readyinfo, s_ready_sendmsgs, info, pc, call,
                 s_msgbus_terminate, main>>

Empty == s_all_sendmsgtask = << >> /\ s_all_msgtask = << >>

(* Under s_msgtask_locker with nothing to do: end or sleep. *)
BusIdle ==
  /\ bus = "lock" /\ Empty
  /\ \/ s_msgbus_terminate /\ BusExit
     \/ ~s_msgbus_terminate /\ bus' = "wait" /\ UNCHANGED s_msgbus_running
  /\ UNCHANGED <<queues, batch, sp_readyinfo, s_ready_sendmsgs, info, pc, call,
                 s_msgbus_terminate, main>>

(* Mutant: the sent messages are taken, the posts stay in their queue too. *)
BusTakeCopy ==
  /\ bus = "lock" /\ ~Empty
  /\ running_sends' = s_all_sendmsgtask /\ s_all_sendmsgtask' = << >>
  /\ running_posts' = s_all_msgtask
  /\ bus' = "check"
  /\ UNCHANGED <<s_all_msgtask, lastsend, lastpost, sp_readyinfo, s_ready_sendmsgs, info, pc,
                 call, flags, main>>

(* Everything queued is taken, the sent messages before the posts. *)
BusTake ==
  /\ bus = "lock" /\ ~Empty
  /\ running_sends' = s_all_sendmsgtask /\ s_all_sendmsgtask' = << >>
  /\ running_posts' = s_all_msgtask /\ s_all_msgtask' = << >>
  /\ bus' = "check"
  /\ UNCHANGED <<lastsend, lastpost, sp_readyinfo, s_ready_sendmsgs, info, pc, call, flags, main>>

(* Notified, or woken without a notification: test the queues again. *)
BusWoken ==
  /\ bus = "woken"
  /\ bus' = "lock"
  /\ UNCHANGED <<queues, batch, sp_readyinfo, s_ready_sendmsgs, info, pc, call, flags, main>>

BusSpurious ==
  /\ bus = "wait"
  /\ bus' = "lock"
  /\ UNCHANGED <<queues, batch, sp_readyinfo, s_ready_sendmsgs, info, pc, call, flags, main>>

(* The handlers of a sent message are called; its thread is to be told. *)
BusHandleSend ==
  /\ bus = "run" /\ running_sends # << >>
  /\ lastsend' = Head(running_sends)
  /\ running_sends' = Tail(running_sends)
  /\ bus' = "find"
  /\ UNCHANGED <<queues, running_posts, lastpost, sp_readyinfo, s_ready_sendmsgs, info, pc,
                 call, flags, main>>

(* The handlers of a post are called; nobody waits. *)
BusHandlePost ==
  /\ bus = "run" /\ running_sends = << >> /\ running_posts # << >>
  /\ lastpost' = Head(running_posts)
  /\ running_posts' = Tail(running_posts)
  /\ UNCHANGED <<queues, running_sends, lastsend, bus, sp_readyinfo, s_ready_sendmsgs, info,
                 pc, call, flags, main>>

BusDone ==
  /\ bus = "run" /\ running_sends = << >> /\ running_posts = << >>
  /\ bus' = "top"
  /\ UNCHANGED <<queues, batch, sp_readyinfo, s_ready_sendmsgs, info, pc, call, flags, main>>

(* Mutant: any waiting thread's entry will do. *)
BusFindAny ==
  /\ bus = "find"
  /\ \/ \E t \in Threads :
          /\ s_ready_sendmsgs[t] # NoTask
          /\ sp_readyinfo' = s_ready_sendmsgs[t]
          /\ bus' = "set"
     \/ /\ \A t \in Threads : s_ready_sendmsgs[t] = NoTask
        /\ bus' = "run" /\ UNCHANGED sp_readyinfo
  /\ UNCHANGED <<queues, batch, s_ready_sendmsgs, info, pc, call, flags, main>>

(* Under s_ready_sendmsg_locker: the entry of the sender's thread id, if it
   has one, whichever call it belongs to. *)
BusFind ==
  /\ bus = "find"
  /\ \/ /\ s_ready_sendmsgs[lastsend.from] # NoTask
        /\ sp_readyinfo' = s_ready_sendmsgs[lastsend.from]
        /\ bus' = "set"
     \/ /\ s_ready_sendmsgs[lastsend.from] = NoTask
        /\ bus' = "run" /\ UNCHANGED sp_readyinfo
  /\ UNCHANGED <<queues, batch, s_ready_sendmsgs, info, pc, call, flags, main>>

(* Under wait_lock: the answer is filled in and the thread notified, unless
   it has given up this ReadySendMsgInfo since and is in another call. *)
BusSet ==
  /\ bus = "set"
  /\ LET t == sp_readyinfo.from
     IN \/ /\ own[t] = sp_readyinfo
           /\ info' = [info EXCEPT ![t] = lastsend]
           /\ pc' = [pc EXCEPT ![t] = IF @ = "asleep" THEN "woken" ELSE @]
        \/ own[t] # sp_readyinfo /\ UNCHANGED <<info, pc>>
  /\ bus' = "run"
  /\ UNCHANGED <<queues, batch, sp_readyinfo, s_ready_sendmsgs, call, flags, main>>

-----------------------------------------------------------------------------
(* InitMsgBus and DestroyMsgBus.                                            *)

(* InitMsgBus creates the thread ... *)
InitMsgBus ==
  /\ main = "down"
  /\ s_msgbus_terminate' = FALSE
  /\ bus' = "created"
  /\ main' = "starting"
  /\ UNCHANGED <<queues, batch, sp_readyinfo, s_ready_sendmsgs, info, pc, call, s_msgbus_running>>

(* ... and returns when it runs. *)
InitDone ==
  /\ main = "starting" /\ s_msgbus_running
  /\ main' = "up"
  /\ UNCHANGED <<queues, batch, bus, sp_readyinfo, s_ready_sendmsgs, info, pc, call, flags>>

(* DestroyMsgBus sets the flag without a lock ... *)
DestroyMsgBus ==
  /\ main = "up"
  /\ s_msgbus_terminate' = TRUE
  /\ main' = "notify"
  /\ UNCHANGED <<queues, batch, bus, sp_readyinfo, s_ready_sendmsgs, info, pc, call, s_msgbus_running>>

(* Mutant: nobody wakes the bus thread. *)
DestroyJoins ==
  /\ main = "notify"
  /\ main' = "join"
  /\ UNCHANGED <<queues, batch, bus, sp_readyinfo, s_ready_sendmsgs, info, pc, call, flags>>

(* ... notifies under it ... *)
DestroyNotify ==
  /\ main = "notify"
  /\ Notify
  /\ main' = "join"
  /\ UNCHANGED <<queues, batch, sp_readyinfo, s_ready_sendmsgs, info, pc, call, flags>>

(* ... and, once the thread has returned, clears the queues; the thread's own
   list is gone with it. *)
DestroyJoined ==
  /\ main = "join" /\ bus = "exited"
  /\ s_all_sendmsgtask' = << >> /\ s_all_msgtask' = << >>
  /\ running_sends' = << >> /\ running_posts' = << >>
  /\ main' = "gone"
  /\ UNCHANGED <<lastsend, lastpost, bus, sp_readyinfo, s_ready_sendmsgs, info, pc, call, flags>>

-----------------------------------------------------------------------------
BusStep == \/ BusStart \/ BusTest \/ BusIdle \/ BusTake \/ BusWoken \/ BusHandleSend
           \/ BusHandlePost \/ BusDone \/ BusFind \/ BusSet

(* What a thread does in a call without anybody's help. *)
CallStep(t) == SendLookup(t) \/ SendEnter(t) \/ SendPush(t) \/ PostPush(t)
               \/ SendTest(t) \/ SendWoken(t) \/ SendErase(t)

Next ==
  \/ \E t \in Threads : \/ SendMsg(t) \/ PostMsg(t) \/ CallStep(t)
                        \/ SendSpurious(t) \/ SendTimeout(t)
  \/ BusStep \/ BusSpurious
  \/ InitMsgBus \/ InitDone \/ DestroyMsgBus \/ DestroyNotify \/ DestroyJoined

Spec == Init /\ [][Next]_vars

(* Every thread runs, and a begun InitMsgBus or DestroyMsgBus goes on.       *)
(* Nothing is owed a timeout, a spurious wake-up or a new call.              *)
FairSpec ==
  /\ Spec
  /\ WF_vars(BusStep)
  /\ \A t \in Threads : WF_vars(CallStep(t))
  /\ WF_vars(DestroyNotify) /\ WF_vars(DestroyJoined)

-----------------------------------------------------------------------------
(* Properties.                                                              *)

(* No lost wake-up: the bus thread only sleeps when nothing is queued, and   *)
(* never once DestroyMsgBus has notified it.                                 *)
NoLostNotify == bus = "wait" => Empty /\ main \in {"starting", "up", "notify"}

(* No lost answer: SendMsg never sleeps on an answer that has been given     *)
(* ("ready flag must be confirmed first, or maybe wait for a lost notify").  *)
NoLostAnswer == \A t \in Threads : pc[t] = "asleep" => info[t] = NoTask

(* Threads do not get each other's answers, and the answer SendMsg takes is  *)
(* the one to its own message as long as no SendMsg of the thread has timed  *)
(* out; after that it is an answer to one of its messages, old or new.       *)
AnswerToOwnThread ==
  \A t \in Threads : pc[t] \in {"push", "test", "woken", "erase"} /\ info[t] # NoTask =>
    /\ info[t].from = t
    /\ info[t] = own[t] \/ t \in timedout

(* Sent messages and posts are each handled as TaskQueue says: in the order  *)
(* queued, at most once, none after the bus thread returned.                 *)
Sends == INSTANCE TaskQueue WITH queue <- running_sends \o s_all_sendmsgtask,
                                 lastrun <- lastsend, stopped <- (bus = "exited")

Posts == INSTANCE TaskQueue WITH queue <- running_posts \o s_all_msgtask,
                                 lastrun <- lastpost, stopped <- (bus = "exited")

BusRefined == Sends!TQSpec /\ Posts!TQSpec

(* DestroyMsgBus returns: the bus thread ends though it may be asleep.       *)
DestroyReturns == (main = "notify") ~> (main = "gone")

=============================================================================
