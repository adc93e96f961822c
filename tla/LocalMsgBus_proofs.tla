------------------------- MODULE LocalMsgBus_proofs -------------------------
(***************************************************************************)
(* Proofs about LocalMsgBus, for any number of threads and messages: types, *)
(* no lost wake-up in either direction, whose answer a thread gets, and the *)
(* refinement of TaskQueue by both queues.                                  *)
(***************************************************************************)
EXTENDS LocalMsgBus, SequenceTheorems, TLAPS

-----------------------------------------------------------------------------
(* Types.                                                                   *)

(* A thread in SendMsg past the test of the flag.                            *)
InSend == {"lookup", "enter", "push", "test", "asleep", "woken", "erase"}

(* The message of a call is the thread's own.                                *)
Owning ==
  \A t \in Threads : /\ pc[t] \in InSend => own[t] \in Task /\ own[t].from = t
                     /\ pc[t] = "post" => own[t] \in Task

(* A thread's entry belongs to one of its calls.                             *)
Entries ==
  \A t \in Threads : s_ready_sendmsgs[t] # NoTask => s_ready_sendmsgs[t].from = t

(* Every message somebody waits for names the thread.                        *)
Senders ==
  /\ \A i \in 1..Len(s_all_sendmsgtask) : s_all_sendmsgtask[i].from \in Threads
  /\ \A i \in 1..Len(running_sends) : running_sends[i].from \in Threads
  /\ bus \in {"find", "set"} => lastsend \in Task /\ lastsend.from \in Threads

(* The entry found is the one of the thread whose message was handled.       *)
Found == bus = "set" => sp_readyinfo \in Task /\ sp_readyinfo.from = lastsend.from

(* The bus thread takes new messages only when it has handled the old ones.  *)
Emptied ==
  bus \in {"none", "created", "top", "lock", "wait", "woken"} =>
    running_sends = << >> /\ running_posts = << >>

(* The bus thread is created once, and told to end by DestroyMsgBus only.    *)
Life ==
  /\ main = "down" => bus = "none"
  /\ s_msgbus_terminate <=> main \in {"notify", "join", "gone"}

BusInv == TypeOK /\ Life /\ Owning /\ Entries /\ Senders /\ Found /\ Emptied

LEMMA NewTaskType ==
  ASSUME CallType, made < MaxMsgs, NEW from \in Threads \cup {BusTid}
  PROVE  NewTask(from) \in Task /\ NewTask(from).from = from /\ made + 1 \in 0..MaxMsgs
BY LocalMsgBusAssumption DEF CallType, NewTask, Task

(* A step of a thread that is neither the beginning of a call nor a push.    *)
ThreadStep(t) == \/ SendLookup(t) \/ SendEnter(t) \/ SendTest(t) \/ SendWoken(t)
                 \/ SendSpurious(t) \/ SendTimeout(t) \/ SendErase(t)

LEMMA ThreadType ==
  ASSUME BusInv, NEW t \in Threads, ThreadStep(t)
  PROVE  TypeOK'
<1> USE DEF BusInv, TypeOK, queues, batch, call, flags
<1>1. QueueType' /\ LifeType'
  BY DEF ThreadStep, SendLookup, SendEnter, SendTest, SendWoken, SendSpurious, SendTimeout,
         SendErase, QueueType, LifeType
<1>2. AnswerType'
  BY DEF ThreadStep, SendLookup, SendEnter, SendTest, SendWoken, SendSpurious, SendTimeout,
         SendErase, AnswerType, Owning, InSend, CallType
<1>3. CallType'
  BY DEF ThreadStep, SendLookup, SendEnter, SendTest, SendWoken, SendSpurious, SendTimeout,
         SendErase, AnswerType, CallType, ThreadStates
<1> QED BY <1>1, <1>2, <1>3

LEMMA BeginType ==
  ASSUME BusInv, NEW t \in Threads, NEW from \in Threads \cup {BusTid},
         NEW at \in {"lookup", "post"}, BeginCall(t, from, at)
  PROVE  TypeOK'
<1> USE DEF BusInv, TypeOK, BeginCall, queues, batch, call, flags
<1>1. QueueType' /\ LifeType' /\ AnswerType'
  BY DEF QueueType, LifeType, AnswerType
<1>2. CallType'
  BY NewTaskType DEF CallType, ThreadStates
<1> QED BY <1>1, <1>2

LEMMA PushType ==
  ASSUME BusInv, NEW t \in Threads, SendPush(t) \/ PostPush(t)
  PROVE  TypeOK'
<1> USE DEF BusInv, TypeOK, queues, batch, call, flags
<1>1. own[t] \in Task
  BY DEF SendPush, PostPush, Owning, InSend
<1>2. Append(s_all_sendmsgtask, own[t]) \in Seq(Task) /\ Append(s_all_msgtask, own[t]) \in Seq(Task)
  BY <1>1 DEF QueueType
<1>3. QueueType'
  BY <1>2, Zenon DEF SendPush, PostPush, QueueType
<1>4. AnswerType' /\ CallType'
  BY DEF SendPush, PostPush, AnswerType, CallType, ThreadStates
<1>5. LifeType'
  BY DEF SendPush, PostPush, LifeType, Notify, BusStates
<1> QED BY <1>3, <1>4, <1>5

LEMMA BusType ==
  ASSUME BusInv, BusStep \/ BusSpurious
  PROVE  TypeOK'
<1> USE DEF BusInv, TypeOK, queues, batch, call, flags
<1>1. CASE BusStart \/ BusTest \/ BusIdle \/ BusWoken \/ BusSpurious \/ BusDone
  <2>1. QueueType' /\ AnswerType' /\ CallType'
    BY <1>1 DEF BusStart, BusTest, BusIdle, BusWoken, BusSpurious, BusDone,
                QueueType, AnswerType, CallType
  <2>2. LifeType'
    BY <1>1 DEF BusStart, BusTest, BusIdle, BusWoken, BusSpurious, BusDone, BusExit,
                LifeType, BusStates
  <2> QED BY <2>1, <2>2
<1>2. CASE BusTake
  <2>1. << >> \in Seq(Task)
    OBVIOUS
  <2>2. QueueType'
    BY <1>2, <2>1, Zenon DEF BusTake, QueueType
  <2> QED BY <1>2, <2>2 DEF BusTake, AnswerType, CallType, LifeType, BusStates
<1>3. CASE BusHandleSend \/ BusHandlePost
  <2>1. CASE BusHandleSend
    <3>1. Head(running_sends) \in Task /\ Tail(running_sends) \in Seq(Task)
      BY <2>1 DEF BusHandleSend, QueueType
    <3> QED BY <2>1, <3>1 DEF BusHandleSend, QueueType, AnswerType, CallType, LifeType, BusStates
  <2>2. CASE BusHandlePost
    <3>1. Head(running_posts) \in Task /\ Tail(running_posts) \in Seq(Task)
      BY <2>2 DEF BusHandlePost, QueueType
    <3> QED BY <2>2, <3>1 DEF BusHandlePost, QueueType, AnswerType, CallType, LifeType, BusStates
  <2> QED BY <1>3, <2>1, <2>2
<1>4. CASE BusFind
  <2>1. lastsend.from \in Threads
    BY <1>4 DEF BusFind, Senders
  <2> QED BY <1>4, <2>1 DEF BusFind, QueueType, AnswerType, CallType, LifeType, BusStates
<1>5. CASE BusSet
  <2>1. sp_readyinfo.from \in Threads /\ lastsend \in Task
    BY <1>5 DEF BusSet, Found, Senders
  <2>2. QueueType' /\ LifeType'
    BY <1>5 DEF BusSet, QueueType, LifeType, BusStates
  <2>3. AnswerType' /\ CallType'
    BY <1>5, <2>1 DEF BusSet, AnswerType, CallType, ThreadStates
  <2> QED BY <2>2, <2>3
<1> QED BY <1>1, <1>2, <1>3, <1>4, <1>5 DEF BusStep

LEMMA MainType ==
  ASSUME BusInv, InitMsgBus \/ InitDone \/ DestroyMsgBus \/ DestroyNotify \/ DestroyJoined
  PROVE  TypeOK'
<1> USE DEF BusInv, TypeOK, queues, batch, call, flags
<1>1. << >> \in Seq(Task)
  OBVIOUS
<1>2. QueueType'
  BY <1>1, Zenon DEF InitMsgBus, InitDone, DestroyMsgBus, DestroyNotify, DestroyJoined, QueueType
<1>3. AnswerType' /\ CallType'
  BY DEF InitMsgBus, InitDone, DestroyMsgBus, DestroyNotify, DestroyJoined, AnswerType, CallType
<1>4. LifeType'
  BY DEF InitMsgBus, InitDone, DestroyMsgBus, DestroyNotify, DestroyJoined, Notify, LifeType, BusStates
<1> QED BY <1>2, <1>3, <1>4

LEMMA TypeStep == BusInv /\ [Next]_vars => TypeOK'
<1> SUFFICES ASSUME BusInv, [Next]_vars
             PROVE  TypeOK'
  OBVIOUS
<1>1. ASSUME NEW t \in Threads, SendMsg(t) \/ PostMsg(t)
      PROVE  TypeOK'
  BY <1>1, BeginType DEF SendMsg, PostMsg
<1>2. ASSUME NEW t \in Threads, CallStep(t) \/ SendSpurious(t) \/ SendTimeout(t)
      PROVE  TypeOK'
  BY <1>2, PushType, ThreadType DEF CallStep, ThreadStep
<1>3. CASE UNCHANGED vars
  BY <1>3 DEF BusInv, vars, TypeOK, QueueType, AnswerType, CallType, LifeType, queues, batch, call, flags
<1> QED BY <1>1, <1>2, <1>3, BusType, MainType DEF Next

LEMMA OwningStep == BusInv /\ [Next]_vars => Owning' /\ Entries'
<1> SUFFICES ASSUME BusInv, [Next]_vars
             PROVE  Owning' /\ Entries'
  OBVIOUS
<1> USE DEF BusInv, TypeOK, CallType, AnswerType, Owning, Entries, InSend, queues, batch, call, flags
<1>1. ASSUME NEW t \in Threads, SendMsg(t)
      PROVE  Owning' /\ Entries'
  BY <1>1, NewTaskType DEF SendMsg, BeginCall
<1>2. ASSUME NEW t \in Threads, PostMsg(t)
      PROVE  Owning' /\ Entries'
  BY <1>2, NewTaskType DEF PostMsg, BeginCall
<1>3. ASSUME NEW t \in Threads, ThreadStep(t)
      PROVE  Owning' /\ Entries'
  BY <1>3, LocalMsgBusAssumption
     DEF ThreadStep, SendLookup, SendEnter, SendTest, SendWoken, SendSpurious, SendTimeout, SendErase
<1>4. ASSUME NEW t \in Threads, SendPush(t) \/ PostPush(t)
      PROVE  Owning' /\ Entries'
  BY <1>4 DEF SendPush, PostPush
<1>5. CASE BusSet
  BY <1>5 DEF BusSet, Found, Senders
<1>6. CASE BusStart \/ BusTest \/ BusIdle \/ BusTake \/ BusWoken \/ BusHandleSend
           \/ BusHandlePost \/ BusDone \/ BusFind \/ BusSpurious
  BY <1>6 DEF BusStart, BusTest, BusIdle, BusTake, BusWoken, BusHandleSend, BusHandlePost,
              BusDone, BusFind, BusSpurious
<1>7. CASE InitMsgBus \/ InitDone \/ DestroyMsgBus \/ DestroyNotify \/ DestroyJoined
  BY <1>7 DEF InitMsgBus, InitDone, DestroyMsgBus, DestroyNotify, DestroyJoined
<1>8. CASE UNCHANGED vars
  BY <1>8 DEF vars
<1> QED BY <1>1, <1>2, <1>3, <1>4, <1>5, <1>6, <1>7, <1>8 DEF Next, BusStep, CallStep, ThreadStep

LEMMA SendersStep == BusInv /\ [Next]_vars => Senders' /\ Found' /\ Emptied'
<1> SUFFICES ASSUME BusInv, [Next]_vars
             PROVE  Senders' /\ Found' /\ Emptied'
  OBVIOUS
<1> USE DEF BusInv, TypeOK, QueueType, Senders, Found, Emptied, queues, batch, call, flags
<1>1. ASSUME NEW t \in Threads, SendMsg(t) \/ PostMsg(t) \/ ThreadStep(t)
      PROVE  Senders' /\ Found' /\ Emptied'
  BY <1>1 DEF SendMsg, PostMsg, BeginCall, ThreadStep, SendLookup, SendEnter, SendTest, SendWoken,
              SendSpurious, SendTimeout, SendErase
<1>2. ASSUME NEW t \in Threads, SendPush(t)
      PROVE  Senders' /\ Found' /\ Emptied'
  <2>1. own[t] \in Task /\ own[t].from \in Threads
    BY <1>2 DEF SendPush, Owning, InSend
  <2>2. \A i \in 1..Len(s_all_sendmsgtask') : s_all_sendmsgtask'[i].from \in Threads
    BY <1>2, <2>1 DEF SendPush
  <2> QED BY <1>2, <2>2 DEF SendPush, Notify
<1>3. ASSUME NEW t \in Threads, PostPush(t)
      PROVE  Senders' /\ Found' /\ Emptied'
  BY <1>3 DEF PostPush, Notify
<1>4. CASE BusStart \/ BusTest \/ BusIdle \/ BusWoken \/ BusDone \/ BusSpurious
  BY <1>4 DEF BusStart, BusTest, BusIdle, BusWoken, BusDone, BusSpurious, BusExit
<1>5. CASE BusTake
  BY <1>5 DEF BusTake
<1>6. CASE BusHandleSend
  <2>1. Head(running_sends) \in Task /\ Head(running_sends).from \in Threads
    BY <1>6 DEF BusHandleSend
  <2>2. \A i \in 1..Len(Tail(running_sends)) : Tail(running_sends)[i].from \in Threads
    BY <1>6 DEF BusHandleSend
  <2> QED BY <1>6, <2>1, <2>2 DEF BusHandleSend
<1>7. CASE BusHandlePost
  BY <1>7 DEF BusHandlePost
<1>8. CASE BusFind
  BY <1>8 DEF BusFind, Entries, AnswerType
<1>9. CASE BusSet
  BY <1>9 DEF BusSet
<1>10. CASE InitMsgBus \/ InitDone \/ DestroyMsgBus \/ DestroyNotify
  BY <1>10 DEF Life, InitMsgBus, InitDone, DestroyMsgBus, DestroyNotify, Notify
<1>11. CASE DestroyJoined
  BY <1>11 DEF DestroyJoined
<1>12. CASE UNCHANGED vars
  BY <1>12 DEF vars
<1> QED BY <1>1, <1>2, <1>3, <1>4, <1>5, <1>6, <1>7, <1>8, <1>9, <1>10, <1>11, <1>12
        DEF Next, BusStep, CallStep, ThreadStep

LEMMA LifeStep == BusInv /\ [Next]_vars => Life'
<1> SUFFICES ASSUME BusInv, [Next]_vars
             PROVE  Life'
  OBVIOUS
<1> USE DEF BusInv, Life, queues, batch, call, flags
<1>1. ASSUME NEW t \in Threads, SendMsg(t) \/ PostMsg(t) \/ ThreadStep(t)
      PROVE  Life'
  BY <1>1 DEF SendMsg, PostMsg, BeginCall, ThreadStep, SendLookup, SendEnter, SendTest, SendWoken,
              SendSpurious, SendTimeout, SendErase
<1>2. ASSUME NEW t \in Threads, SendPush(t) \/ PostPush(t)
      PROVE  Life'
  BY <1>2 DEF SendPush, PostPush, Notify
<1>3. CASE BusStep \/ BusSpurious
  BY <1>3 DEF BusStep, BusStart, BusTest, BusIdle, BusTake, BusWoken, BusHandleSend, BusHandlePost,
              BusDone, BusFind, BusSet, BusSpurious, BusExit
<1>4. CASE InitMsgBus \/ InitDone \/ DestroyMsgBus \/ DestroyNotify \/ DestroyJoined
  BY <1>4 DEF InitMsgBus, InitDone, DestroyMsgBus, DestroyNotify, DestroyJoined
<1>5. CASE UNCHANGED vars
  BY <1>5 DEF vars
<1> QED BY <1>1, <1>2, <1>3, <1>4, <1>5 DEF Next, CallStep, ThreadStep

LEMMA BusInvCorrect == Spec => []BusInv
<1>1. Init => BusInv
  <2> SUFFICES ASSUME Init
               PROVE  BusInv
    OBVIOUS
  <2> USE DEF Init
  <2>1. QueueType /\ AnswerType
    BY DEF QueueType, AnswerType
  <2>2. CallType
    BY LocalMsgBusAssumption DEF CallType, ThreadStates
  <2>6. LifeType
    BY DEF LifeType, BusStates
  <2>3. Owning /\ Entries
    BY DEF Owning, InSend, Entries
  <2>5. Life
    BY DEF Life
  <2>4. Senders /\ Found /\ Emptied
    BY DEF Senders, Found, Emptied
  <2> QED BY <2>1, <2>2, <2>3, <2>4, <2>5, <2>6 DEF BusInv, TypeOK
<1>2. BusInv /\ [Next]_vars => BusInv'
  BY TypeStep, LifeStep, OwningStep, SendersStep DEF BusInv
<1> QED BY <1>1, <1>2, PTL DEF Spec

(* The type invariant of the local bus.                                      *)
THEOREM TypeCorrect == Spec => []TypeOK
<1>1. BusInv => TypeOK
  BY DEF BusInv
<1> QED BY <1>1, BusInvCorrect, PTL
-----------------------------------------------------------------------------
(* Wake-ups.                                                                *)

(* The bus thread never sleeps on a queued message nor after DestroyMsgBus   *)
(* has notified it, for any number of threads.                               *)
THEOREM NoLostNotifyCorrect == Spec => []NoLostNotify
<1>1. Init => NoLostNotify
  BY DEF Init, NoLostNotify
<1>2. BusInv /\ NoLostNotify /\ [Next]_vars => NoLostNotify'
  <2> SUFFICES ASSUME BusInv, NoLostNotify, [Next]_vars
               PROVE  NoLostNotify'
    OBVIOUS
  <2> USE DEF NoLostNotify, Empty, queues, batch, call, flags
  <2>1. ASSUME NEW t \in Threads, SendMsg(t) \/ PostMsg(t) \/ ThreadStep(t)
        PROVE  NoLostNotify'
    BY <2>1 DEF SendMsg, PostMsg, BeginCall, ThreadStep, SendLookup, SendEnter, SendTest, SendWoken,
                SendSpurious, SendTimeout, SendErase
  <2>2. ASSUME NEW t \in Threads, SendPush(t) \/ PostPush(t)
        PROVE  NoLostNotify'
    BY <2>2 DEF SendPush, PostPush, Notify
  <2>3. CASE BusIdle
    BY <2>3 DEF BusIdle, BusExit, BusInv, Life, TypeOK, LifeType
  <2>4. CASE BusSpurious \/ (BusStep /\ ~BusIdle)
    BY <2>4 DEF BusStep, BusStart, BusTest, BusTake, BusWoken, BusHandleSend, BusHandlePost,
                BusDone, BusFind, BusSet, BusSpurious, BusExit
  <2>5. CASE InitMsgBus \/ InitDone \/ DestroyMsgBus \/ DestroyNotify \/ DestroyJoined
    BY <2>5 DEF InitMsgBus, InitDone, DestroyMsgBus, DestroyNotify, DestroyJoined, Notify
  <2>6. CASE UNCHANGED vars
    BY <2>6 DEF vars
  <2> QED BY <2>1, <2>2, <2>3, <2>4, <2>5, <2>6 DEF Next, CallStep, ThreadStep
<1> QED BY <1>1, <1>2, BusInvCorrect, PTL DEF Spec

(* SendMsg never sleeps on an answer that has been given.                    *)
THEOREM NoLostAnswerCorrect == Spec => []NoLostAnswer
<1>1. Init => NoLostAnswer
  BY DEF Init, NoLostAnswer
<1>2. BusInv /\ NoLostAnswer /\ [Next]_vars => NoLostAnswer'
  <2> SUFFICES ASSUME BusInv, NoLostAnswer, [Next]_vars
               PROVE  NoLostAnswer'
    OBVIOUS
  <2> USE DEF BusInv, TypeOK, CallType, AnswerType, NoLostAnswer, queues, batch, call, flags
  <2>1. ASSUME NEW t \in Threads, SendMsg(t) \/ PostMsg(t) \/ ThreadStep(t)
        PROVE  NoLostAnswer'
    BY <2>1 DEF SendMsg, PostMsg, BeginCall, ThreadStep, SendLookup, SendEnter, SendTest, SendWoken,
                SendSpurious, SendTimeout, SendErase
  <2>2. ASSUME NEW t \in Threads, SendPush(t) \/ PostPush(t)
        PROVE  NoLostAnswer'
    BY <2>2 DEF SendPush, PostPush
  <2>3. CASE BusSet
    BY <2>3 DEF BusSet, Found, Senders
  <2>4. CASE BusSpurious \/ (BusStep /\ ~BusSet)
    BY <2>4 DEF BusStep, BusStart, BusTest, BusIdle, BusTake, BusWoken, BusHandleSend, BusHandlePost,
                BusDone, BusFind, BusSpurious
  <2>5. CASE InitMsgBus \/ InitDone \/ DestroyMsgBus \/ DestroyNotify \/ DestroyJoined
    BY <2>5 DEF InitMsgBus, InitDone, DestroyMsgBus, DestroyNotify, DestroyJoined
  <2>6. CASE UNCHANGED vars
    BY <2>6 DEF vars
  <2> QED BY <2>1, <2>2, <2>3, <2>4, <2>5, <2>6 DEF Next, CallStep, ThreadStep
<1> QED BY <1>1, <1>2, BusInvCorrect, PTL DEF Spec
-----------------------------------------------------------------------------
(* Whose answer a thread gets.                                              *)

(* A message of the thread is queued, taken or being answered.               *)
Waits(q, t) == \E i \in 1..Len(q) : q[i].from = t
AtBus(t) == bus \in {"find", "set"} /\ lastsend.from = t

InFlight(t) == Waits(s_all_sendmsgtask, t) \/ Waits(running_sends, t) \/ AtBus(t)

(* Without a timeout, no thread has two messages in flight ...               *)
OneEach(q) ==
  \A i, j \in 1..Len(q) : q[i].from = q[j].from /\ q[i].from \notin timedout => i = j

OneInFlight ==
  /\ OneEach(s_all_sendmsgtask) /\ OneEach(running_sends)
  /\ \A t \in Threads \ timedout :
       /\ ~(Waits(s_all_sendmsgtask, t) /\ Waits(running_sends, t))
       /\ ~(AtBus(t) /\ (Waits(s_all_sendmsgtask, t) \/ Waits(running_sends, t)))

(* ... the one it has is that of its call, which waits unanswered ...        *)
OwnIn(q) == \A i \in 1..Len(q) : q[i].from \notin timedout => q[i] = own[q[i].from]

OwnInFlight ==
  /\ OwnIn(s_all_sendmsgtask) /\ OwnIn(running_sends)
  /\ bus \in {"find", "set"} /\ lastsend.from \notin timedout => lastsend = own[lastsend.from]

WaitsInFlight ==
  \A t \in Threads \ timedout :
    /\ InFlight(t) => pc[t] \in {"test", "asleep", "woken"} /\ info[t] = NoTask
    /\ pc[t] = "push" => info[t] = NoTask

(* ... and what it is given is the answer to it.                             *)
Answers ==
  \A t \in Threads : info[t] # NoTask =>
    /\ info[t].from = t
    /\ pc[t] \in {"push", "test", "asleep", "woken", "erase"} =>
         info[t] = own[t] \/ t \in timedout

FlightInv == OneInFlight /\ OwnInFlight /\ WaitsInFlight /\ Answers

(* A step of a thread on its own: nothing enters or leaves the flight.       *)
LEMMA ThreadFlight ==
  ASSUME BusInv, FlightInv, NEW t \in Threads, ThreadStep(t)
  PROVE  FlightInv'
<1> USE DEF BusInv, TypeOK, CallType, AnswerType, FlightInv, queues, batch, call, flags
<1>1. /\ UNCHANGED <<s_all_sendmsgtask, running_sends, lastsend, bus, own>>
      /\ timedout \subseteq timedout' /\ timedout' \subseteq Threads
      /\ \A u \in Threads : u # t => pc'[u] = pc[u] /\ info'[u] = info[u]
  BY DEF ThreadStep, SendLookup, SendEnter, SendTest, SendWoken, SendSpurious, SendTimeout, SendErase
<1>2. \A u \in Threads : InFlight(u)' <=> InFlight(u)
  BY <1>1 DEF InFlight, Waits, AtBus
<1>3. OneInFlight'
  BY <1>1 DEF OneInFlight, OneEach, Waits, AtBus
<1>4. OwnInFlight'
  BY <1>1 DEF OwnInFlight, OwnIn
<1>5. t \notin timedout' => /\ InFlight(t) => pc'[t] \in {"test", "asleep", "woken"} /\ info'[t] = NoTask
                            /\ pc'[t] = "push" => info'[t] = NoTask
  BY <1>1 DEF WaitsInFlight, ThreadStep, SendLookup, SendEnter, SendTest, SendWoken, SendSpurious,
              SendTimeout, SendErase
<1>6. WaitsInFlight'
  <2> SUFFICES ASSUME NEW u \in Threads \ timedout'
               PROVE  /\ InFlight(u)' => pc'[u] \in {"test", "asleep", "woken"} /\ info'[u] = NoTask
                      /\ pc'[u] = "push" => info'[u] = NoTask
    BY DEF WaitsInFlight
  <2>1. InFlight(u)' <=> InFlight(u)
    BY <1>2
  <2>2. CASE u = t
    <3>1. InFlight(u) <=> InFlight(t)
      BY <2>2 DEF InFlight, Waits, AtBus
    <3> QED BY <1>5, <2>1, <2>2, <3>1
  <2>3. CASE u # t
    BY <1>1, <2>1, <2>3 DEF WaitsInFlight
  <2> QED BY <2>2, <2>3
<1>7. Answers'
  BY <1>1 DEF Answers, ThreadStep, SendLookup, SendEnter, SendTest, SendWoken, SendSpurious,
              SendTimeout, SendErase
<1> QED BY <1>3, <1>4, <1>6, <1>7

(* A call begins: the thread has nothing in flight.                          *)
LEMMA BeginFlight ==
  ASSUME BusInv, FlightInv, NEW t \in Threads, NEW from, NEW at \in {"lookup", "post"},
         BeginCall(t, from, at)
  PROVE  FlightInv'
<1> USE DEF BusInv, TypeOK, CallType, AnswerType, FlightInv, BeginCall, queues, batch, call, flags
<1>1. t \notin timedout => ~InFlight(t)
  BY DEF WaitsInFlight
<1>2. \A u \in Threads : InFlight(u)' <=> InFlight(u)
  BY DEF InFlight, Waits, AtBus
<1>3. OneInFlight'
  BY DEF OneInFlight, OneEach, Waits, AtBus
<1>4. OwnInFlight'
  <2>1. \A i \in 1..Len(s_all_sendmsgtask) :
          s_all_sendmsgtask[i].from \notin timedout => s_all_sendmsgtask[i].from # t
    BY <1>1 DEF InFlight, Waits
  <2>2. \A i \in 1..Len(running_sends) :
          running_sends[i].from \notin timedout => running_sends[i].from # t
    BY <1>1 DEF InFlight, Waits
  <2>3. bus \in {"find", "set"} /\ lastsend.from \notin timedout => lastsend.from # t
    BY <1>1 DEF InFlight, AtBus
  <2> QED BY <2>1, <2>2, <2>3 DEF OwnInFlight, OwnIn, Senders
<1>5. WaitsInFlight'
  BY <1>1, <1>2 DEF WaitsInFlight
<1>6. Answers'
  BY DEF Answers
<1> QED BY <1>3, <1>4, <1>5, <1>6

(* The push of SendMsg: the thread had nothing in flight and has now one.    *)
LEMMA PushFlight ==
  ASSUME BusInv, FlightInv, NEW t \in Threads, SendPush(t)
  PROVE  FlightInv'
<1> USE DEF BusInv, TypeOK, CallType, AnswerType, QueueType, FlightInv, SendPush, batch, call, flags
<1>1. own[t] \in Task /\ own[t].from = t /\ (t \notin timedout => ~InFlight(t))
  BY DEF Owning, InSend, WaitsInFlight
<1>2. /\ Len(s_all_sendmsgtask') = Len(s_all_sendmsgtask) + 1
      /\ \A i \in 1..Len(s_all_sendmsgtask) : s_all_sendmsgtask'[i] = s_all_sendmsgtask[i]
      /\ s_all_sendmsgtask'[Len(s_all_sendmsgtask) + 1] = own[t]
      /\ Len(s_all_sendmsgtask) \in Nat
  BY <1>1
<1>3. \A u \in Threads : /\ AtBus(u)' <=> AtBus(u)
                         /\ Waits(running_sends, u)' <=> Waits(running_sends, u)
                         /\ Waits(s_all_sendmsgtask, u)' <=> Waits(s_all_sendmsgtask, u) \/ u = t
  BY <1>1, <1>2 DEF AtBus, Waits, Notify
<1>4. OneInFlight'
  <2> DEFINE q == s_all_sendmsgtask
             n == Len(s_all_sendmsgtask)
  <2>2. t \notin timedout => \A i \in 1..n : q[i].from # t
    BY <1>1 DEF InFlight, Waits
  <2>3. OneEach(q)
    BY DEF OneInFlight
  <2>4. ASSUME NEW i \in 1..(n + 1), NEW j \in 1..(n + 1),
               q'[i].from = q'[j].from, q'[i].from \notin timedout
        PROVE  i = j
    <3>1. CASE i \in 1..n /\ j \in 1..n
      BY <1>2, <2>3, <2>4, <3>1 DEF OneEach
    <3>2. CASE i = n + 1 \/ j = n + 1
      BY <1>1, <1>2, <2>2, <2>4, <3>2
    <3> QED BY <1>2, <3>1, <3>2
  <2>1. OneEach(s_all_sendmsgtask)'
    BY <1>2, <2>4 DEF OneEach
  <2> QED BY <1>1, <1>3, <2>1 DEF OneInFlight, OneEach, InFlight
<1>5. OwnInFlight'
  <2>1. OwnIn(running_sends)'
    BY <1>1 DEF OwnInFlight, OwnIn, Notify
  <2>2. OwnIn(s_all_sendmsgtask)
    BY DEF OwnInFlight
  <2>3. OwnIn(s_all_sendmsgtask)'
    BY <1>1, <1>2, <2>2 DEF OwnIn
  <2>4. bus' \in {"find", "set"} => bus = bus' /\ lastsend' = lastsend
    BY <1>1 DEF Notify
  <2> QED BY <1>1, <2>1, <2>3, <2>4 DEF OwnInFlight
<1>6. t \notin timedout => info[t] = NoTask
  BY DEF WaitsInFlight
<1>7. WaitsInFlight'
  BY <1>1, <1>3, <1>6 DEF WaitsInFlight, InFlight
<1>8. Answers'
  BY DEF Answers
<1> QED BY <1>4, <1>5, <1>7, <1>8

(* The bus thread takes the queue: it had nothing.                           *)
LEMMA TakeFlight ==
  ASSUME BusInv, FlightInv, BusTake
  PROVE  FlightInv'
<1> USE DEF BusInv, TypeOK, CallType, AnswerType, QueueType, FlightInv, BusTake, batch, call, flags
<1>1. running_sends = << >> /\ running_sends' = s_all_sendmsgtask /\ s_all_sendmsgtask' = << >>
  BY DEF Emptied
<1>2. \A u \in Threads : /\ ~AtBus(u)' /\ ~Waits(s_all_sendmsgtask, u)'
                         /\ Waits(running_sends, u)' <=> Waits(s_all_sendmsgtask, u)
  BY <1>1 DEF AtBus, Waits
<1>3. OneInFlight'
  BY <1>1, <1>2 DEF OneInFlight, OneEach
<1>4. OwnInFlight'
  BY <1>1 DEF OwnInFlight, OwnIn
<1>5. WaitsInFlight'
  BY <1>2 DEF WaitsInFlight, InFlight
<1>6. Answers'
  BY DEF Answers
<1> QED BY <1>3, <1>4, <1>5, <1>6

(* The head of the taken messages is handled.                                *)
LEMMA HandleFlight ==
  ASSUME BusInv, FlightInv, BusHandleSend
  PROVE  FlightInv'
<1> USE DEF BusInv, TypeOK, CallType, AnswerType, QueueType, FlightInv, BusHandleSend, queues, call, flags
<1> DEFINE r == running_sends
           n == Len(running_sends)
<1>1. /\ n \in Nat /\ n > 0 /\ Len(r') = n - 1
      /\ \A i \in 1..(n - 1) : r'[i] = r[i + 1]
      /\ lastsend' = r[1] /\ r[1].from \in Threads
  BY DEF Senders
<1>t. PICK t \in Threads : t = r[1].from
  BY <1>1
<1>2. \A u \in Threads : /\ Waits(s_all_sendmsgtask, u)' <=> Waits(s_all_sendmsgtask, u)
                         /\ AtBus(u)' <=> t = u
                         /\ Waits(running_sends, u)' => Waits(running_sends, u)
  BY <1>1, <1>t DEF Waits, AtBus
<1>3. Waits(running_sends, t)
  BY <1>1, <1>t DEF Waits
<1>4. t \notin timedout => ~Waits(running_sends, t)'
  BY <1>1, <1>t DEF OneInFlight, OneEach, Waits
<1>5. OneEach(running_sends)'
  BY <1>1 DEF OneInFlight, OneEach
<1>6. OneInFlight'
  BY <1>2, <1>3, <1>4, <1>5 DEF OneInFlight, OneEach
<1>7. OwnInFlight'
  BY <1>1 DEF OwnInFlight, OwnIn
<1>8. \A u \in Threads : InFlight(u)' => InFlight(u)
  BY <1>2, <1>3 DEF InFlight
<1>9. WaitsInFlight' /\ Answers'
  BY <1>8 DEF WaitsInFlight, Answers
<1> QED BY <1>6, <1>7, <1>9

(* The answer is given: nothing of the thread is in flight any more.         *)
LEMMA SetFlight ==
  ASSUME BusInv, FlightInv, BusSet
  PROVE  FlightInv'
<1> USE DEF BusInv, TypeOK, CallType, AnswerType, FlightInv, BusSet, queues, batch, call, flags
<1> DEFINE t == sp_readyinfo.from
<1>1. t \in Threads /\ lastsend.from = t /\ AtBus(t) /\ lastsend \in Task
  BY DEF Found, Senders, AtBus
<1>2. \A u \in Threads : /\ Waits(s_all_sendmsgtask, u)' <=> Waits(s_all_sendmsgtask, u)
                         /\ Waits(running_sends, u)' <=> Waits(running_sends, u)
                         /\ ~AtBus(u)'
  BY DEF Waits, AtBus
<1>3. t \notin timedout => ~InFlight(t)'
  BY <1>1, <1>2 DEF InFlight, OneInFlight
<1>4. OneInFlight'
  BY <1>2 DEF OneInFlight, OneEach
<1>5. OwnInFlight'
  BY DEF OwnInFlight, OwnIn
<1>6. \A u \in Threads : u # t => pc'[u] = pc[u] /\ info'[u] = info[u]
  BY <1>1
<1>7. t \notin timedout => pc'[t] # "push"
  BY <1>1 DEF WaitsInFlight, InFlight
<1>8. WaitsInFlight'
  BY <1>2, <1>3, <1>6, <1>7 DEF WaitsInFlight, InFlight
<1>9. Answers'
  <2>1. t \notin timedout => lastsend = own[t]
    BY <1>1 DEF OwnInFlight
  <2> QED BY <1>1, <1>6, <2>1 DEF Answers
<1> QED BY <1>4, <1>5, <1>8, <1>9

(* A step that leaves threads and sent messages alone.                       *)
LEMMA OtherFlight ==
  ASSUME BusInv, FlightInv, UNCHANGED <<s_all_sendmsgtask, running_sends, lastsend, info, pc, call>>,
         bus' \in {"find", "set"} => bus \in {"find", "set"}
  PROVE  FlightInv'
<1> USE DEF FlightInv, call
<1>1. \A u \in Threads : /\ Waits(s_all_sendmsgtask, u)' <=> Waits(s_all_sendmsgtask, u)
                         /\ Waits(running_sends, u)' <=> Waits(running_sends, u)
                         /\ AtBus(u)' => AtBus(u)
  BY DEF Waits, AtBus
<1>2. OneInFlight'
  BY <1>1 DEF OneInFlight, OneEach
<1>3. OwnInFlight'
  BY DEF OwnInFlight, OwnIn
<1>4. WaitsInFlight' /\ Answers'
  BY <1>1 DEF WaitsInFlight, InFlight, Answers
<1> QED BY <1>2, <1>3, <1>4

LEMMA FlightStep == BusInv /\ FlightInv /\ [Next]_vars => FlightInv'
<1> SUFFICES ASSUME BusInv, FlightInv, [Next]_vars
             PROVE  FlightInv'
  OBVIOUS
<1>1. ASSUME NEW t \in Threads, SendMsg(t) \/ PostMsg(t)
      PROVE  FlightInv'
  BY <1>1, BeginFlight DEF SendMsg, PostMsg
<1>2. ASSUME NEW t \in Threads, PostPush(t)
      PROVE  FlightInv'
  <2>1. /\ UNCHANGED <<s_all_sendmsgtask, running_sends, lastsend, info, call>>
        /\ bus' \in {"find", "set"} <=> bus \in {"find", "set"}
        /\ pc' = [pc EXCEPT ![t] = "idle"] /\ pc[t] = "post"
    BY <1>2 DEF PostPush, Notify, batch
  <2>2. \A u \in Threads : InFlight(u)' <=> InFlight(u)
    BY <2>1 DEF InFlight, Waits, AtBus
  <2>3. OneInFlight' /\ OwnInFlight'
    BY <2>1 DEF FlightInv, OneInFlight, OneEach, OwnInFlight, OwnIn, Waits, AtBus, call
  <2>4. WaitsInFlight' /\ Answers'
    BY <2>1, <2>2 DEF FlightInv, WaitsInFlight, Answers, BusInv, TypeOK, CallType, call
  <2> QED BY <2>3, <2>4 DEF FlightInv
<1>3. CASE BusStart \/ BusTest \/ BusIdle \/ BusWoken \/ BusHandlePost \/ BusDone \/ BusFind
           \/ BusSpurious
  BY <1>3, OtherFlight DEF BusStart, BusTest, BusIdle, BusWoken, BusHandlePost, BusDone, BusFind,
                           BusSpurious, BusExit, queues, batch
<1>4. CASE InitMsgBus \/ InitDone \/ DestroyMsgBus \/ DestroyNotify
  BY <1>4, OtherFlight DEF InitMsgBus, InitDone, DestroyMsgBus, DestroyNotify, Notify, queues, batch
<1>5. CASE DestroyJoined
  <2>1. /\ s_all_sendmsgtask' = << >> /\ running_sends' = << >> /\ bus = "exited"
        /\ UNCHANGED <<lastsend, bus, info, pc, call>>
    BY <1>5 DEF DestroyJoined
  <2>2. \A u \in Threads : ~InFlight(u)'
    BY <2>1 DEF InFlight, Waits, AtBus
  <2>3. OneInFlight' /\ OwnInFlight'
    BY <2>1, <2>2 DEF OneInFlight, OneEach, OwnInFlight, OwnIn, InFlight
  <2>4. WaitsInFlight' /\ Answers'
    BY <2>1, <2>2 DEF FlightInv, WaitsInFlight, Answers, call
  <2> QED BY <2>3, <2>4 DEF FlightInv
<1>6. CASE UNCHANGED vars
  BY <1>6, OtherFlight DEF vars, queues, batch
<1> QED BY <1>1, <1>2, <1>3, <1>4, <1>5, <1>6, ThreadFlight, PushFlight, TakeFlight, HandleFlight,
           SetFlight DEF Next, BusStep, CallStep, ThreadStep

(* No thread gets another thread's answer, and SendMsg takes the answer to   *)
(* its own message as long as no SendMsg of the thread has timed out.        *)
THEOREM AnswerToOwnThreadCorrect == Spec => []AnswerToOwnThread
<1>1. Init => FlightInv
  BY DEF Init, FlightInv, OneInFlight, OneEach, OwnInFlight, OwnIn, WaitsInFlight, InFlight, Waits,
         AtBus, Answers
<1>2. FlightInv => AnswerToOwnThread
  BY DEF FlightInv, Answers, AnswerToOwnThread
<1> QED BY <1>1, <1>2, FlightStep, BusInvCorrect, PTL DEF Spec
-----------------------------------------------------------------------------
(* The queues.                                                              *)

(* A step that is none of these leaves both queues alone, and the bus thread *)
(* returned or not.                                                          *)
LEMMA OtherSteps ==
  ASSUME [Next]_vars,
         ~\E t \in Threads : SendPush(t) \/ PostPush(t),
         ~BusTest, ~BusIdle, ~BusTake, ~BusHandleSend, ~BusHandlePost, ~InitMsgBus, ~DestroyJoined
  PROVE  /\ UNCHANGED <<queues, batch>>
         /\ bus' = "exited" <=> bus = "exited"
<1> USE DEF queues, batch, call, flags
<1>1. CASE \E t \in Threads : SendMsg(t) \/ PostMsg(t) \/ ThreadStep(t)
  BY <1>1 DEF SendMsg, PostMsg, BeginCall, ThreadStep, SendLookup, SendEnter, SendTest, SendWoken,
              SendSpurious, SendTimeout, SendErase
<1>2. CASE BusStart \/ BusWoken \/ BusDone \/ BusFind \/ BusSet \/ BusSpurious
  BY <1>2 DEF BusStart, BusWoken, BusDone, BusFind, BusSet, BusSpurious
<1>3. CASE InitDone \/ DestroyMsgBus \/ DestroyNotify
  BY <1>3 DEF InitDone, DestroyMsgBus, DestroyNotify, Notify
<1>4. CASE UNCHANGED vars
  BY <1>4 DEF vars
<1> QED BY <1>1, <1>2, <1>3, <1>4 DEF Next, BusStep, CallStep, ThreadStep

(* Sent messages and posts are each handled as a TaskQueue: in order, at     *)
(* most once, none after the bus thread returned.                            *)
THEOREM BusRefinement == Spec => BusRefined
<1> USE DEF Sends!tqvars, Sends!TQNext, Posts!tqvars, Posts!TQNext
<1>1. Init => Sends!TQInit /\ Posts!TQInit
  BY DEF Init, Sends!TQInit, Posts!TQInit
<1> DEFINE sq == running_sends \o s_all_sendmsgtask
           pq == running_posts \o s_all_msgtask
<1>2. BusInv /\ [Next]_vars => [Sends!TQNext]_(Sends!tqvars)
  <2> SUFFICES ASSUME BusInv, [Next]_vars
               PROVE  Sends!Put \/ Sends!Run \/ Sends!Stop \/ Sends!Discard
                      \/ UNCHANGED <<running_sends \o s_all_sendmsgtask, lastsend, bus = "exited">>
    BY Zenon
  <2> USE DEF queues, batch
  <2>t. running_sends \in Seq(Task) /\ s_all_sendmsgtask \in Seq(Task)
    BY DEF BusInv, TypeOK, QueueType
  <2>1. ASSUME NEW t \in Threads, SendPush(t)
        PROVE  Sends!Put
    <3>1. own[t] \in Task
      BY <2>1 DEF SendPush, BusInv, Owning, InSend
    <3>2. running_sends \o Append(s_all_sendmsgtask, own[t]) = Append(sq, own[t])
      BY <2>t, <3>1
    <3>3. (bus = "exited")' = (bus = "exited")
      BY <2>1 DEF SendPush, Notify
    <3> QED BY <2>1, <3>1, <3>2, <3>3 DEF SendPush, Sends!Put
  <2>2. ASSUME NEW t \in Threads, PostPush(t)
        PROVE  UNCHANGED <<sq, lastsend, bus = "exited">>
    BY <2>2 DEF PostPush, Notify
  <2>3. CASE BusTest \/ BusIdle
    BY <2>3 DEF BusTest, BusIdle, BusExit, Sends!Stop
  <2>4. CASE BusTake
    <3>1. sq' = sq
      BY <2>4, <2>t, ConcatEmptySeq DEF BusTake, BusInv, Emptied
    <3> QED BY <2>4, <3>1 DEF BusTake
  <2>5. CASE BusHandleSend
    <3>1. /\ sq # << >>
          /\ Head(sq) = Head(running_sends)
          /\ Tail(sq) = Tail(running_sends) \o s_all_sendmsgtask
      BY <2>5, <2>t DEF BusHandleSend
    <3> QED BY <2>5, <3>1 DEF BusHandleSend, Sends!Run
  <2>6. CASE BusHandlePost \/ InitMsgBus
    BY <2>6 DEF BusHandlePost, InitMsgBus, BusInv, Life
  <2>7. CASE DestroyJoined
    <3>1. sq' = << >>
      BY <2>7, ConcatEmptySeq DEF DestroyJoined
    <3> QED BY <2>7, <3>1 DEF DestroyJoined, Sends!Discard
  <2>8. CASE UNCHANGED <<queues, batch>> /\ (bus' = "exited" <=> bus = "exited")
    BY <2>8
  <2> QED BY <2>1, <2>2, <2>3, <2>4, <2>5, <2>6, <2>7, <2>8, OtherSteps
<1>3. BusInv /\ [Next]_vars => [Posts!TQNext]_(Posts!tqvars)
  <2> SUFFICES ASSUME BusInv, [Next]_vars
               PROVE  Posts!Put \/ Posts!Run \/ Posts!Stop \/ Posts!Discard
                      \/ UNCHANGED <<running_posts \o s_all_msgtask, lastpost, bus = "exited">>
    BY Zenon
  <2> USE DEF queues, batch
  <2>t. running_posts \in Seq(Task) /\ s_all_msgtask \in Seq(Task)
    BY DEF BusInv, TypeOK, QueueType
  <2>1. ASSUME NEW t \in Threads, PostPush(t)
        PROVE  Posts!Put
    <3>1. own[t] \in Task
      BY <2>1 DEF PostPush, BusInv, Owning
    <3>2. running_posts \o Append(s_all_msgtask, own[t]) = Append(pq, own[t])
      BY <2>t, <3>1
    <3>3. (bus = "exited")' = (bus = "exited")
      BY <2>1 DEF PostPush, Notify
    <3> QED BY <2>1, <3>1, <3>2, <3>3 DEF PostPush, Posts!Put
  <2>2. ASSUME NEW t \in Threads, SendPush(t)
        PROVE  UNCHANGED <<pq, lastpost, bus = "exited">>
    BY <2>2 DEF SendPush, Notify
  <2>3. CASE BusTest \/ BusIdle
    BY <2>3 DEF BusTest, BusIdle, BusExit, Posts!Stop
  <2>4. CASE BusTake
    <3>1. pq' = pq
      BY <2>4, <2>t, ConcatEmptySeq DEF BusTake, BusInv, Emptied
    <3> QED BY <2>4, <3>1 DEF BusTake
  <2>5. CASE BusHandlePost
    <3>1. /\ pq # << >>
          /\ Head(pq) = Head(running_posts)
          /\ Tail(pq) = Tail(running_posts) \o s_all_msgtask
      BY <2>5, <2>t DEF BusHandlePost
    <3> QED BY <2>5, <3>1 DEF BusHandlePost, Posts!Run
  <2>6. CASE BusHandleSend \/ InitMsgBus
    BY <2>6 DEF BusHandleSend, InitMsgBus, BusInv, Life
  <2>7. CASE DestroyJoined
    <3>1. pq' = << >>
      BY <2>7, ConcatEmptySeq DEF DestroyJoined
    <3> QED BY <2>7, <3>1 DEF DestroyJoined, Posts!Discard
  <2>8. CASE UNCHANGED <<queues, batch>> /\ (bus' = "exited" <=> bus = "exited")
    BY <2>8
  <2> QED BY <2>1, <2>2, <2>3, <2>4, <2>5, <2>6, <2>7, <2>8, OtherSteps
<1> QED BY <1>1, <1>2, <1>3, BusInvCorrect, PTL
        DEF Spec, BusRefined, Sends!TQSpec, Posts!TQSpec
=============================================================================
