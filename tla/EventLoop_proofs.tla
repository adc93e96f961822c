-------------------------- MODULE EventLoop_proofs --------------------------
(***************************************************************************)
(* Proofs about EventLoop, for every number of callers and sockets and for  *)
(* every bound: the type invariant, the bytes of the notify pipe, no lost    *)
(* wake-up, no lost termination, no stranded input, the removal of closed    *)
(* sockets, and the refinement of TaskQueue.                                 *)
(***************************************************************************)
EXTENDS EventLoop, SequenceTheorems, TLAPS

-----------------------------------------------------------------------------
(* Steps several actions share.                                             *)

(* A notice keeps the notify state well-typed and can only raise the pipe's  *)
(* edge.                                                                     *)
LEMMA NotifyStep ==
  ASSUME NotifyType, NEW a \in Notices, NotifyNewActive(a)
  PROVE  NotifyType' /\ NotifyEdge \subseteq {Pipe}
BY DEF NotifyType, NotifyNewActive, NotifyEdge

(* TcpSock::Close on the loop thread keeps the socket sets well-typed.       *)
LEMMA RemoveStep ==
  ASSUME NotifyType, SockType, NEW S \in SUBSET Socks, RemoveTcpSock(S),
         closed' \subseteq Socks, halfclosed' \subseteq Socks
  PROVE  NotifyType' /\ SockType'
<1>1. NotifyType' /\ NotifyEdge \subseteq {Pipe}
  <2>1. REMOVED \in Notices
    BY DEF Notices
  <2> QED BY <2>1, NotifyStep DEF RemoveTcpSock
<1>2. SockType'
  BY <1>1 DEF SockType, RemoveTcpSock
<1> QED BY <1>1, <1>2

LEMMA CloseStep ==
  ASSUME NotifyType, SockType, NEW S \in SUBSET Socks, CloseInLoop(S)
  PROVE  NotifyType' /\ SockType'
<1>1. closed' \subseteq Socks /\ halfclosed' \subseteq Socks
  BY DEF CloseInLoop, SockType
<1> QED BY <1>1, RemoveStep DEF CloseInLoop

LEMMA ExitStep ==
  ASSUME SockType, LoopType, ExitLoop,
         UNCHANGED <<m_terminal, ret, needread, notifytype, ready, interrupts>>
  PROVE  SockType' /\ LoopType'
BY DEF SockType, LoopType, LoopStates, ExitLoop, DestroyWaiter, ForgetSocks

(* The type invariant of the event loop: every step of the loop thread, of   *)
(* the callers and of the peers keeps each variable in its set.              *)
THEOREM TypeCorrect == Spec => []TypeOK
<1> USE EventLoopAssumption
    DEF queuevars, notifyvars, sockvars, peervars, waitvars, callvars, LoopStates
<1>1. Init => TypeOK
  <2> SUFFICES ASSUME Init PROVE TypeOK
    OBVIOUS
  <2> USE DEF Init
  <2>1. QueueType BY DEF QueueType
  <2>2. NotifyType BY DEF NotifyType
  <2>3. SockType BY DEF SockType
  <2>4. PeerType BY DEF PeerType
  <2>5. LoopType
    <3>1. m_terminal \in BOOLEAN /\ m_running \in BOOLEAN /\ needread \in BOOLEAN
      OBVIOUS
    <3>2. loop \in LoopStates /\ ret \in {-1, 0, 1} /\ interrupts \in 0..MaxInterrupts
      OBVIOUS
    <3> QED BY <3>1, <3>2 DEF LoopType
  <2>6. CallerType BY DEF CallerType
  <2> QED BY <2>1, <2>2, <2>3, <2>4, <2>5, <2>6 DEF TypeOK
<1>2. TypeOK /\ [Next]_vars => TypeOK'
  <2> SUFFICES ASSUME QueueType, NotifyType, SockType, PeerType, LoopType,
                      CallerType, [Next]_vars
               PROVE  TypeOK'
    BY DEF TypeOK
  <2>a. UNCHANGED queuevars => QueueType'
    BY DEF QueueType
  <2>b. UNCHANGED notifyvars => NotifyType'
    BY DEF NotifyType
  <2>c. UNCHANGED <<sockvars, epready>> => SockType'
    BY DEF SockType
  <2>d. UNCHANGED peervars => PeerType'
    BY DEF PeerType
  <2>e. UNCHANGED <<m_terminal, m_running, loop, waitvars>> => LoopType'
    BY DEF LoopType
  <2>f. UNCHANGED callvars => CallerType'
    BY DEF CallerType
  <2> USE <2>a, <2>b, <2>c, <2>d, <2>e, <2>f
  <2>1. ASSUME NEW c \in Callers, AddTcpSock(c) PROVE TypeOK'
    <3>1. arg[c] \in Task /\ arg[c].sock \in Socks
      BY <2>1 DEF AddTcpSock, UpdateTcpSock, CallerType, Task
    <3>2. CallerType'
      BY <2>1, <3>1 DEF AddTcpSock, UpdateTcpSock, CallerType
    <3> QED BY <2>1, <3>2 DEF AddTcpSock, UpdateTcpSock, TypeOK
  <2>2. ASSUME NEW c \in Callers, QueueTaskToLoop(c) PROVE TypeOK'
    <3>1. QueueType'
      BY <2>2 DEF QueueTaskToLoop, QueueType, CallerType
    <3>2. CallerType'
      BY <2>2 DEF QueueTaskToLoop, CallerType
    <3> QED BY <2>2, <3>1, <3>2 DEF QueueTaskToLoop, TypeOK
  <2>3. ASSUME NEW c \in Callers, QueueTaskNotify(c) PROVE TypeOK'
    <3>1. NotifyType' /\ NotifyEdge \subseteq {Pipe}
      BY <2>3, NotifyStep DEF QueueTaskNotify, Notices
    <3>2. SockType'
      BY <2>3, <3>1 DEF QueueTaskNotify, SockType
    <3>3. CallerType'
      BY <2>3 DEF QueueTaskNotify, CallerType
    <3> QED BY <2>3, <3>1, <3>2, <3>3 DEF QueueTaskNotify, TypeOK
  <2>4. ASSUME NEW c \in Callers, TerminateNotify(c) PROVE TypeOK'
    <3>1. NotifyType' /\ NotifyEdge \subseteq {Pipe}
      BY <2>4, NotifyStep DEF TerminateNotify, Notices
    <3>2. SockType'
      BY <2>4, <3>1 DEF TerminateNotify, SockType
    <3>3. CallerType'
      BY <2>4 DEF TerminateNotify, CallerType
    <3> QED BY <2>4, <3>1, <3>2, <3>3 DEF TerminateNotify, TypeOK
  <2>5. ASSUME NEW c \in Callers, NEW s \in Socks, AddTcpSockToLoop(c, s)
        PROVE  TypeOK'
    <3>1. [op |-> "update", sock |-> s] \in Task
      BY DEF Task
    <3>2. CallerType'
      BY <2>5, <3>1 DEF AddTcpSockToLoop, CallerType
    <3> QED BY <2>5, <3>2 DEF AddTcpSockToLoop, TypeOK
  <2>6. ASSUME NEW c \in Callers, NEW s \in Socks, Close(c, s) PROVE TypeOK'
    <3>1. [op |-> "close", sock |-> s] \in Task
      BY DEF Task
    <3>2. CallerType'
      BY <2>6, <3>1 DEF Close, CallerType
    <3> QED BY <2>6, <3>2 DEF Close, TypeOK
  <2>7. ASSUME NEW c \in Callers, TerminateLoop(c) PROVE TypeOK'
    <3>1. LoopType'
      BY <2>7 DEF TerminateLoop, LoopType
    <3>2. CallerType'
      BY <2>7 DEF TerminateLoop, CallerType
    <3> QED BY <2>7, <3>1, <3>2 DEF TerminateLoop, TypeOK
  <2>8. ASSUME NEW s \in Socks, NEW what \in {"data", "fin"}, PeerEvent(s, what)
        PROVE  TypeOK'
    <3>1. SockType'
      BY <2>8 DEF PeerEvent, SockType
    <3>2. PeerType'
      BY <2>8 DEF PeerEvent, PeerType
    <3> QED BY <2>8, <3>1, <3>2 DEF PeerEvent, TypeOK
  <2>9. CASE LoopTop
    <3>1. SockType' /\ LoopType'
      BY <2>9, ExitStep DEF LoopTop, TerminalTest, CloseAllClient, KeepRunning, SockType, LoopType
    <3> QED BY <2>9, <3>1 DEF LoopTop, TypeOK
  <2>10. CASE EpollReady
    <3>1. SockType' /\ LoopType'
      BY <2>10 DEF EpollReady, Reportable, SockType, LoopType
    <3> QED BY <2>10, <3>1 DEF EpollReady, TypeOK
  <2>11. CASE WaitClear
    <3>1. NotifyType' /\ LoopType'
      BY <2>11 DEF WaitClear, ClearNotify, NotifyType, LoopType
    <3> QED BY <2>11, <3>1 DEF WaitClear, TypeOK
  <2>12. CASE WaitRead
    <3>1. NotifyType'
      BY <2>12 DEF WaitRead, ReadNotifyByte, NotifyType
    <3>2. SockType' /\ LoopType'
      BY <2>12, ExitStep DEF WaitRead, ClearClosedTcpSock, SockType, LoopType
    <3> QED BY <2>12, <3>1, <3>2 DEF WaitRead, TypeOK
  <2>13. CASE WaitTimeouts
    <3>1. NotifyType' /\ SockType'
      <4>1. ASSUME NEW S \in SUBSET (m_waiting \ closed), CloseInLoop(S)
            PROVE  NotifyType' /\ SockType'
        <5>1. S \in SUBSET Socks
          BY DEF SockType
        <5> QED BY <4>1, <5>1, CloseStep
      <4> QED BY <2>13, <4>1 DEF WaitTimeouts
    <3>2. LoopType'
      BY <2>13 DEF WaitTimeouts, LoopType
    <3> QED BY <2>13, <3>1, <3>2 DEF WaitTimeouts, TypeOK
  <2>14. CASE SwapTasks
    <3>1. QueueType' /\ LoopType'
      BY <2>14 DEF SwapTasks, QueueType, LoopType
    <3> QED BY <2>14, <3>1 DEF SwapTasks, TypeOK
  <2>15. CASE RunTask
    <3>1. Head(tmptasks) \in Task /\ Tail(tmptasks) \in Seq(Task)
      BY <2>15 DEF RunTask, QueueType
    <3>2. PICK s \in Socks : s = Head(tmptasks).sock
      BY <3>1 DEF Task
    <3>3. CASE UNCHANGED <<notifyvars, sockvars, epready>>
      BY <2>15, <3>1, <3>3 DEF RunTask, QueueType, TypeOK
    <3>4. CASE RegisterSock(s)
      <4>1. SockType' /\ UNCHANGED notifyvars
        BY <3>4 DEF RegisterSock, SockType
      <4> QED BY <2>15, <3>1, <4>1 DEF RunTask, QueueType, TypeOK
    <3>5. CASE RemoveTcpSock({s}) /\ UNCHANGED <<closed, halfclosed>>
      <4>1. closed' \subseteq Socks /\ halfclosed' \subseteq Socks
        BY <3>5 DEF SockType
      <4>2. SockType' /\ NotifyType'
        BY <3>5, <4>1, RemoveStep
      <4> QED BY <2>15, <3>1, <4>2 DEF RunTask, QueueType, TypeOK
    <3>6. CASE CloseInLoop({s})
      <4>1. SockType' /\ NotifyType'
        BY <3>6, CloseStep
      <4> QED BY <2>15, <3>1, <4>1 DEF RunTask, QueueType, TypeOK
    <3> QED
      BY <2>15, <3>2, <3>3, <3>4, <3>5, <3>6
      DEF RunTask, UpdateTcpSockInLoop, CloseTask
  <2>16. CASE TasksDone
    <3>1. LoopType'
      BY <2>16 DEF TasksDone, LoopType
    <3> QED BY <2>16, <3>1 DEF TasksDone, TypeOK
  <2>17. CASE LoopCheck
    <3>1. SockType' /\ LoopType'
      BY <2>17, ExitStep DEF LoopCheck, TerminalTest, CloseAllClient, KeepRunning, SockType, LoopType
    <3> QED BY <2>17, <3>1 DEF LoopCheck, TypeOK
  <2>18. CASE LoopTimedOut
    <3>1. SockType' /\ LoopType'
      BY <2>18, ExitStep DEF LoopTimedOut, SockType, LoopType
    <3> QED BY <2>18, <3>1 DEF LoopTimedOut, TypeOK
  <2>19. ASSUME NEW s \in Socks, HandleEvent(s) PROVE TypeOK'
    <3>1. NotifyType' /\ SockType'
      BY <2>19, CloseStep DEF HandleEvent
    <3>2. PeerType' /\ LoopType'
      BY <2>19 DEF HandleEvent, PeerType, LoopType
    <3> QED BY <2>19, <3>1, <3>2 DEF HandleEvent, TypeOK
  <2>20. CASE DispatchDone
    <3>1. LoopType'
      BY <2>20 DEF DispatchDone, LoopType
    <3> QED BY <2>20, <3>1 DEF DispatchDone, TypeOK
  <2>21. CASE EpollTimeout
    <3>1. LoopType'
      BY <2>21 DEF EpollTimeout, LoopType
    <3> QED BY <2>21, <3>1 DEF EpollTimeout, TypeOK
  <2>22. CASE EpollInterrupted
    <3>1. LoopType'
      BY <2>22 DEF EpollInterrupted, LoopType
    <3> QED BY <2>22, <3>1 DEF EpollInterrupted, TypeOK
  <2>23. CASE UNCHANGED vars
    BY <2>23 DEF vars, TypeOK
  <2> QED
    BY <2>1, <2>2, <2>3, <2>4, <2>5, <2>6, <2>7, <2>8, <2>9, <2>10, <2>11,
       <2>12, <2>13, <2>14, <2>15, <2>16, <2>17, <2>18, <2>19, <2>20, <2>21,
       <2>22, <2>23 DEF Next, CallerStep, CallerCall, LoopStep
<1> QED
  BY <1>1, <1>2, PTL DEF Spec

-----------------------------------------------------------------------------
(* The inductive invariant behind the safety properties.                    *)

(* A notice that is announced and not yet taken keeps its edge in the kernel *)
(* until the loop thread comes to clear the flag.                            *)
EdgeArmed ==
  m_newnotify /\ loop \notin {"clear", "exited"} => Pipe \in epready

(* Queued tasks are covered by a notice, by a caller that will send one, or  *)
(* by a loop thread that is on its way to take them.                         *)
WakeupCovered ==
  m_pendings # << >> =>
    \/ \E c \in Callers : pc[c] = "notify"
    \/ m_newnotify
    \/ ret = -1
    \/ loop \in {"clear", "read", "timeouts", "swap", "exited"}

(* The same for termination.                                                 *)
TerminateCovered ==
  m_terminal /\ loop = "wait" =>
    \/ \E c \in Callers : pc[c] = "terminate"
    \/ m_newnotify
    \/ m_waiting \subseteq halfclosed \cup closed

(* epoll knows only sockets the waiter knows and that are open; so the       *)
(* events of a batch are for sockets that were open when it was returned.    *)
SocksKnown ==
  /\ epfds \subseteq m_waiting
  /\ epfds \cap closed = {}
  /\ epready \subseteq epfds \cup {Pipe}
  /\ loop \in {"clear", "read"} => ready \subseteq m_waiting \ closed
  /\ loop \in {"timeouts", "swap"} => ready \subseteq m_waiting

SafetyInv == /\ NotifyBytes /\ EdgeArmed /\ WakeupCovered
             /\ TerminateCovered /\ SocksKnown

IInv == TypeOK /\ SafetyInv

(* Each conjunct of the invariant is preserved by each action.              *)
LEMMA SafetyStep == IInv /\ [Next]_vars => SafetyInv'
<1> SUFFICES ASSUME TypeOK, SafetyInv, [Next]_vars
             PROVE  SafetyInv'
  BY DEF IInv
<1> USE DEF SafetyInv
<1> USE EventLoopAssumption
    DEF queuevars, notifyvars, sockvars, peervars, waitvars, callvars
<1>t. /\ m_newnotify \in BOOLEAN /\ pipe \in Nat /\ needread \in BOOLEAN
      /\ ret \in {-1, 0, 1}
      /\ pc \in [Callers -> {"idle", "add", "push", "notify", "terminate"}]
      /\ m_waiting \subseteq Socks /\ epfds \subseteq Socks
  BY DEF TypeOK, NotifyType, LoopType, CallerType, SockType
<1>1. ASSUME NEW c \in Callers, AddTcpSock(c)
      PROVE  SafetyInv'
  BY <1>1, <1>t DEF AddTcpSock, UpdateTcpSock, NotifyBytes, EdgeArmed, WakeupCovered,
     TerminateCovered, SocksKnown
<1>2. ASSUME NEW c \in Callers, QueueTaskToLoop(c)
      PROVE  SafetyInv'
  BY <1>2, <1>t DEF QueueTaskToLoop, NotifyBytes, EdgeArmed, WakeupCovered,
     TerminateCovered, SocksKnown
<1>3. ASSUME NEW c \in Callers, QueueTaskNotify(c)
      PROVE  SafetyInv'
  <2>1. NotifyBytes'
    BY <1>3, <1>t DEF QueueTaskNotify, NotifyNewActive, NotifyEdge, NotifyBytes
  <2>2. EdgeArmed'
    BY <1>3, <1>t DEF QueueTaskNotify, NotifyNewActive, NotifyEdge, EdgeArmed
  <2>3. WakeupCovered'
    BY <1>3, <1>t DEF QueueTaskNotify, NotifyNewActive, NotifyEdge, WakeupCovered
  <2>4. TerminateCovered'
    BY <1>3, <1>t DEF QueueTaskNotify, NotifyNewActive, NotifyEdge, TerminateCovered
  <2>5. SocksKnown'
    BY <1>3, <1>t DEF QueueTaskNotify, NotifyNewActive, NotifyEdge, SocksKnown
  <2> QED BY <2>1, <2>2, <2>3, <2>4, <2>5
<1>4. ASSUME NEW c \in Callers, TerminateNotify(c)
      PROVE  SafetyInv'
  <2>1. NotifyBytes'
    BY <1>4, <1>t DEF TerminateNotify, NotifyNewActive, NotifyEdge, NotifyBytes
  <2>2. EdgeArmed'
    BY <1>4, <1>t DEF TerminateNotify, NotifyNewActive, NotifyEdge, EdgeArmed
  <2>3. WakeupCovered'
    BY <1>4, <1>t DEF TerminateNotify, NotifyNewActive, NotifyEdge, WakeupCovered
  <2>4. TerminateCovered'
    BY <1>4, <1>t DEF TerminateNotify, NotifyNewActive, NotifyEdge, TerminateCovered
  <2>5. SocksKnown'
    BY <1>4, <1>t DEF TerminateNotify, NotifyNewActive, NotifyEdge, SocksKnown
  <2> QED BY <2>1, <2>2, <2>3, <2>4, <2>5
<1>5. ASSUME NEW c \in Callers, NEW s \in Socks, AddTcpSockToLoop(c, s)
      PROVE  SafetyInv'
  BY <1>5, <1>t DEF AddTcpSockToLoop, NotifyBytes, EdgeArmed, WakeupCovered,
     TerminateCovered, SocksKnown
<1>6. ASSUME NEW c \in Callers, NEW s \in Socks, Close(c, s)
      PROVE  SafetyInv'
  BY <1>6, <1>t DEF Close, NotifyBytes, EdgeArmed, WakeupCovered,
     TerminateCovered, SocksKnown
<1>7. ASSUME NEW c \in Callers, TerminateLoop(c)
      PROVE  SafetyInv'
  BY <1>7, <1>t DEF TerminateLoop, NotifyBytes, EdgeArmed, WakeupCovered,
     TerminateCovered, SocksKnown
<1>8. ASSUME NEW s \in Socks, NEW what \in {"data", "fin"}, PeerEvent(s, what)
      PROVE  SafetyInv'
  <2>1. NotifyBytes'
    BY <1>8, <1>t DEF PeerEvent, NotifyBytes
  <2>2. EdgeArmed'
    BY <1>8, <1>t DEF PeerEvent, EdgeArmed
  <2>3. WakeupCovered'
    BY <1>8, <1>t DEF PeerEvent, WakeupCovered
  <2>4. TerminateCovered'
    BY <1>8, <1>t DEF PeerEvent, TerminateCovered
  <2>5. SocksKnown'
    BY <1>8, <1>t DEF PeerEvent, SocksKnown
  <2> QED BY <2>1, <2>2, <2>3, <2>4, <2>5
<1>9. ASSUME LoopTop
      PROVE  SafetyInv'
  <2>1. NotifyBytes'
    BY <1>9, <1>t DEF LoopTop, TerminalTest, ExitLoop, DestroyWaiter, ForgetSocks, CloseAllClient, KeepRunning, NotifyBytes
  <2>2. EdgeArmed'
    BY <1>9, <1>t DEF LoopTop, TerminalTest, ExitLoop, DestroyWaiter, ForgetSocks, CloseAllClient, KeepRunning, EdgeArmed
  <2>3. WakeupCovered'
    BY <1>9, <1>t DEF LoopTop, TerminalTest, ExitLoop, DestroyWaiter, ForgetSocks, CloseAllClient, KeepRunning, WakeupCovered
  <2>4. TerminateCovered'
    BY <1>9, <1>t DEF LoopTop, TerminalTest, ExitLoop, DestroyWaiter, ForgetSocks, CloseAllClient, KeepRunning, TerminateCovered
  <2>5. SocksKnown'
    BY <1>9, <1>t DEF LoopTop, TerminalTest, ExitLoop, DestroyWaiter, ForgetSocks, CloseAllClient, KeepRunning, SocksKnown
  <2> QED BY <2>1, <2>2, <2>3, <2>4, <2>5
<1>10. ASSUME EpollReady
      PROVE  SafetyInv'
  <2>1. NotifyBytes'
    BY <1>10, <1>t DEF EpollReady, Reportable, NotifyBytes
  <2>2. EdgeArmed'
    BY <1>10, <1>t DEF EpollReady, Reportable, EdgeArmed
  <2>3. WakeupCovered'
    BY <1>10, <1>t DEF EpollReady, Reportable, WakeupCovered
  <2>4. TerminateCovered'
    BY <1>10, <1>t DEF EpollReady, Reportable, TerminateCovered
  <2>5. SocksKnown'
    BY <1>10, <1>t DEF EpollReady, Reportable, SocksKnown
  <2> QED BY <2>1, <2>2, <2>3, <2>4, <2>5
<1>11. ASSUME WaitClear
      PROVE  SafetyInv'
  <2>1. NotifyBytes'
    BY <1>11, <1>t DEF WaitClear, ClearNotify, NotifyBytes
  <2>2. EdgeArmed'
    BY <1>11, <1>t DEF WaitClear, ClearNotify, EdgeArmed
  <2>3. WakeupCovered'
    BY <1>11, <1>t DEF WaitClear, ClearNotify, WakeupCovered
  <2>4. TerminateCovered'
    BY <1>11, <1>t DEF WaitClear, ClearNotify, TerminateCovered
  <2>5. SocksKnown'
    BY <1>11, <1>t DEF WaitClear, ClearNotify, SocksKnown
  <2> QED BY <2>1, <2>2, <2>3, <2>4, <2>5
<1>12. ASSUME WaitRead
      PROVE  SafetyInv'
  <2>1. NotifyBytes'
    BY <1>12, <1>t DEF WaitRead, ReadNotifyByte, ExitLoop, DestroyWaiter, ForgetSocks, ClearClosedTcpSock, NotifyBytes
  <2>2. EdgeArmed'
    BY <1>12, <1>t DEF WaitRead, ReadNotifyByte, ExitLoop, DestroyWaiter, ForgetSocks, ClearClosedTcpSock, EdgeArmed
  <2>3. WakeupCovered'
    BY <1>12, <1>t DEF WaitRead, ReadNotifyByte, ExitLoop, DestroyWaiter, ForgetSocks, ClearClosedTcpSock, WakeupCovered
  <2>4. TerminateCovered'
    BY <1>12, <1>t DEF WaitRead, ReadNotifyByte, ExitLoop, DestroyWaiter, ForgetSocks, ClearClosedTcpSock, TerminateCovered
  <2>5. SocksKnown'
    BY <1>12, <1>t DEF WaitRead, ReadNotifyByte, ExitLoop, DestroyWaiter, ForgetSocks, ClearClosedTcpSock, SocksKnown
  <2> QED BY <2>1, <2>2, <2>3, <2>4, <2>5
<1>13. ASSUME WaitTimeouts
      PROVE  SafetyInv'
  <2>1. NotifyBytes'
    BY <1>13, <1>t DEF WaitTimeouts, CloseInLoop, RemoveTcpSock, NotifyNewActive, NotifyEdge, NotifyBytes
  <2>2. EdgeArmed'
    BY <1>13, <1>t DEF WaitTimeouts, CloseInLoop, RemoveTcpSock, NotifyNewActive, NotifyEdge, EdgeArmed
  <2>3. WakeupCovered'
    BY <1>13, <1>t DEF WaitTimeouts, CloseInLoop, RemoveTcpSock, NotifyNewActive, NotifyEdge, WakeupCovered
  <2>4. TerminateCovered'
    BY <1>13, <1>t DEF WaitTimeouts, CloseInLoop, RemoveTcpSock, NotifyNewActive, NotifyEdge, TerminateCovered
  <2>5. SocksKnown'
    BY <1>13, <1>t DEF WaitTimeouts, CloseInLoop, RemoveTcpSock, NotifyNewActive, NotifyEdge, SocksKnown
  <2> QED BY <2>1, <2>2, <2>3, <2>4, <2>5
<1>14. ASSUME SwapTasks
      PROVE  SafetyInv'
  BY <1>14, <1>t DEF SwapTasks, NotifyBytes, EdgeArmed, WakeupCovered,
     TerminateCovered, SocksKnown
<1>15. ASSUME RunTask
      PROVE  SafetyInv'
  <2>0. PICK s \in Socks : s = Head(tmptasks).sock
    <3>1. Head(tmptasks) \in Task
      BY <1>15 DEF RunTask, TypeOK, QueueType
    <3> QED BY <3>1 DEF Task
  <2>1. NotifyBytes'
    BY <1>15, <2>0, <1>t DEF RunTask, UpdateTcpSockInLoop, CloseTask, RegisterSock, CloseInLoop, RemoveTcpSock, NotifyNewActive, NotifyEdge, NotifyBytes
  <2>2. EdgeArmed'
    BY <1>15, <2>0, <1>t DEF RunTask, UpdateTcpSockInLoop, CloseTask, RegisterSock, CloseInLoop, RemoveTcpSock, NotifyNewActive, NotifyEdge, EdgeArmed
  <2>3. WakeupCovered'
    BY <1>15, <2>0, <1>t DEF RunTask, UpdateTcpSockInLoop, CloseTask, RegisterSock, CloseInLoop, RemoveTcpSock, NotifyNewActive, NotifyEdge, WakeupCovered
  <2>4. TerminateCovered'
    BY <1>15, <2>0, <1>t DEF RunTask, UpdateTcpSockInLoop, CloseTask, RegisterSock, CloseInLoop, RemoveTcpSock, NotifyNewActive, NotifyEdge, TerminateCovered
  <2>5. SocksKnown'
    BY <1>15, <2>0, <1>t DEF RunTask, UpdateTcpSockInLoop, CloseTask, RegisterSock, CloseInLoop, RemoveTcpSock, NotifyNewActive, NotifyEdge, SocksKnown
  <2> QED BY <2>1, <2>2, <2>3, <2>4, <2>5
<1>16. ASSUME TasksDone
      PROVE  SafetyInv'
  BY <1>16, <1>t DEF TasksDone, NotifyBytes, EdgeArmed, WakeupCovered,
     TerminateCovered, SocksKnown
<1>17. ASSUME LoopCheck
      PROVE  SafetyInv'
  <2>1. NotifyBytes'
    BY <1>17, <1>t DEF LoopCheck, TerminalTest, ExitLoop, DestroyWaiter, ForgetSocks, CloseAllClient, KeepRunning, NotifyBytes
  <2>2. EdgeArmed'
    BY <1>17, <1>t DEF LoopCheck, TerminalTest, ExitLoop, DestroyWaiter, ForgetSocks, CloseAllClient, KeepRunning, EdgeArmed
  <2>3. WakeupCovered'
    BY <1>17, <1>t DEF LoopCheck, TerminalTest, ExitLoop, DestroyWaiter, ForgetSocks, CloseAllClient, KeepRunning, WakeupCovered
  <2>4. TerminateCovered'
    BY <1>17, <1>t DEF LoopCheck, TerminalTest, ExitLoop, DestroyWaiter, ForgetSocks, CloseAllClient, KeepRunning, TerminateCovered
  <2>5. SocksKnown'
    BY <1>17, <1>t DEF LoopCheck, TerminalTest, ExitLoop, DestroyWaiter, ForgetSocks, CloseAllClient, KeepRunning, SocksKnown
  <2> QED BY <2>1, <2>2, <2>3, <2>4, <2>5
<1>18. ASSUME LoopTimedOut
      PROVE  SafetyInv'
  <2>1. NotifyBytes'
    BY <1>18, <1>t DEF LoopTimedOut, ExitLoop, DestroyWaiter, ForgetSocks, NotifyBytes
  <2>2. EdgeArmed'
    BY <1>18, <1>t DEF LoopTimedOut, ExitLoop, DestroyWaiter, ForgetSocks, EdgeArmed
  <2>3. WakeupCovered'
    BY <1>18, <1>t DEF LoopTimedOut, ExitLoop, DestroyWaiter, ForgetSocks, WakeupCovered
  <2>4. TerminateCovered'
    BY <1>18, <1>t DEF LoopTimedOut, ExitLoop, DestroyWaiter, ForgetSocks, TerminateCovered
  <2>5. SocksKnown'
    BY <1>18, <1>t DEF LoopTimedOut, ExitLoop, DestroyWaiter, ForgetSocks, SocksKnown
  <2> QED BY <2>1, <2>2, <2>3, <2>4, <2>5
<1>19. ASSUME NEW s \in Socks, HandleEvent(s)
      PROVE  SafetyInv'
  <2>1. NotifyBytes'
    BY <1>19, <1>t DEF HandleEvent, CloseInLoop, RemoveTcpSock, NotifyNewActive, NotifyEdge, NotifyBytes
  <2>2. EdgeArmed'
    BY <1>19, <1>t DEF HandleEvent, CloseInLoop, RemoveTcpSock, NotifyNewActive, NotifyEdge, EdgeArmed
  <2>3. WakeupCovered'
    BY <1>19, <1>t DEF HandleEvent, CloseInLoop, RemoveTcpSock, NotifyNewActive, NotifyEdge, WakeupCovered
  <2>4. TerminateCovered'
    BY <1>19, <1>t DEF HandleEvent, CloseInLoop, RemoveTcpSock, NotifyNewActive, NotifyEdge, TerminateCovered
  <2>5. SocksKnown'
    BY <1>19, <1>t DEF HandleEvent, CloseInLoop, RemoveTcpSock, NotifyNewActive, NotifyEdge, SocksKnown
  <2> QED BY <2>1, <2>2, <2>3, <2>4, <2>5
<1>20. ASSUME DispatchDone
      PROVE  SafetyInv'
  BY <1>20, <1>t DEF DispatchDone, NotifyBytes, EdgeArmed, WakeupCovered,
     TerminateCovered, SocksKnown
<1>21. ASSUME EpollTimeout
      PROVE  SafetyInv'
  BY <1>21, <1>t DEF EpollTimeout, NotifyBytes, EdgeArmed, WakeupCovered,
     TerminateCovered, SocksKnown
<1>22. ASSUME EpollInterrupted
      PROVE  SafetyInv'
  BY <1>22, <1>t DEF EpollInterrupted, NotifyBytes, EdgeArmed, WakeupCovered,
     TerminateCovered, SocksKnown
<1>23. ASSUME UNCHANGED vars
      PROVE  SafetyInv'
  BY <1>23, <1>t DEF vars, NotifyBytes, EdgeArmed, WakeupCovered,
     TerminateCovered, SocksKnown
<1> QED
  BY <1>1, <1>2, <1>3, <1>4, <1>5, <1>6, <1>7, <1>8, <1>9, <1>10, <1>11, <1>12, <1>13, <1>14, <1>15, <1>16, <1>17, <1>18, <1>19, <1>20, <1>21, <1>22, <1>23
  DEF Next, CallerStep, CallerCall, LoopStep

THEOREM SafetyInvariant == Spec => []SafetyInv
<1>1. Init => SafetyInv
  BY DEF Init, SafetyInv, NotifyBytes, EdgeArmed, WakeupCovered,
         TerminateCovered, SocksKnown
<1>2. TypeOK /\ SafetyInv /\ [Next]_vars => SafetyInv'
  BY SafetyStep DEF IInv
<1> QED
  BY <1>1, <1>2, TypeCorrect, PTL DEF Spec

(* The bytes in the notify pipe are exactly those accounted for              *)
(* (SockWaiterBase::NotifyNewActiveWithoutLock and GetAndClearNotify).       *)
THEOREM NotifyBytesCorrect == Spec => []NotifyBytes
<1>1. SafetyInv => NotifyBytes
  BY DEF SafetyInv
<1> QED BY <1>1, SafetyInvariant, PTL

(* No wake-up is lost between QueueTaskToLoop and epoll_wait.                *)
THEOREM NoLostWakeupCorrect == Spec => []NoLostWakeup
<1>1. TypeOK /\ SafetyInv => NoLostWakeup
  <2> SUFFICES ASSUME TypeOK, SafetyInv, loop = "wait", m_pendings # << >>,
                      ~ \E c \in Callers : pc[c] = "notify", ret # -1
               PROVE  Pipe \in Reportable
    BY DEF NoLostWakeup
  <2>1. m_newnotify
    BY DEF SafetyInv, WakeupCovered
  <2>2. Pipe \in epready
    BY <2>1 DEF SafetyInv, EdgeArmed
  <2>3. pipe > 0
    BY <2>1 DEF SafetyInv, NotifyBytes
  <2> QED BY <2>2, <2>3 DEF Reportable
<1> QED BY <1>1, TypeCorrect, SafetyInvariant, PTL

(* No termination request is lost between TerminateLoop and epoll_wait.      *)
THEOREM NoLostTerminateCorrect == Spec => []NoLostTerminate
<1>1. TypeOK /\ SafetyInv => NoLostTerminate
  <2> SUFFICES ASSUME TypeOK, SafetyInv, loop = "wait", m_terminal,
                      ~ \E c \in Callers : pc[c] = "terminate",
                      ~ m_waiting \subseteq halfclosed \cup closed
               PROVE  Pipe \in Reportable
    BY DEF NoLostTerminate
  <2>1. m_newnotify
    BY DEF SafetyInv, TerminateCovered
  <2>2. Pipe \in epready
    BY <2>1 DEF SafetyInv, EdgeArmed
  <2>3. pipe > 0
    BY <2>1 DEF SafetyInv, NotifyBytes
  <2> QED BY <2>2, <2>3 DEF Reportable
<1> QED BY <1>1, TypeCorrect, SafetyInvariant, PTL

(* EpollWaiter::Wait never looks up an fd that m_waiting_tcpsocks has lost.  *)
THEOREM EventsHaveSocketCorrect == Spec => []EventsHaveSocket
<1>1. SafetyInv => EventsHaveSocket
  BY DEF SafetyInv, SocksKnown, EventsHaveSocket
<1> QED BY <1>1, SafetyInvariant, PTL

-----------------------------------------------------------------------------
(* Unread input and closed sockets.                                         *)

(* Events are left over only while a batch that epoll_wait returned is being *)
(* worked off.                                                               *)
BatchDone ==
  /\ ret # 1 => ready = {}
  /\ loop = "timedout" => ret = 0
  /\ loop \in {"top", "wait"} => ready = {}

(* A closed socket in m_waiting_tcpsocks has its notice on the way.          *)
RemovalAnnounced ==
  closed \cap m_waiting # {} =>
    REMOVED \in m_allactive \/ (loop = "read" /\ REMOVED \in notifytype)

InputInv == NoStrandedInput /\ BatchDone /\ RemovalAnnounced

(* TcpSock::Close and RemoveTcpSock on the loop thread.                      *)
LEMMA RemoveInput ==
  ASSUME InputInv, NEW S, RemoveTcpSock(S), closed' \subseteq closed \cup S,
         UNCHANGED <<loop, ret, notifytype, ready>>,
         \A s \in epfds' : peer'[s] = peer[s]
  PROVE  InputInv'
<1>1. NoStrandedInput'
  BY DEF RemoveTcpSock, InputInv, NoStrandedInput
<1>2. BatchDone'
  BY DEF InputInv, BatchDone
<1>3. RemovalAnnounced'
  BY DEF RemoveTcpSock, NotifyNewActive, RemovalAnnounced
<1> QED BY <1>1, <1>2, <1>3 DEF InputInv

LEMMA InputStep == TypeOK /\ SafetyInv /\ InputInv /\ [Next]_vars => InputInv'
<1> SUFFICES ASSUME TypeOK, SafetyInv, InputInv, [Next]_vars
             PROVE  InputInv'
  OBVIOUS
<1> USE EventLoopAssumption
    DEF queuevars, notifyvars, sockvars, peervars, waitvars, callvars
<1>t. epfds \subseteq Socks /\ peer \in [Socks -> {"quiet", "data", "fin"}]
  BY DEF TypeOK, SockType, PeerType
<1>e. ASSUME UNCHANGED <<notifyvars, ret, notifytype, ready, peer>>, ExitLoop
      PROVE  InputInv'
  BY <1>e DEF ExitLoop, DestroyWaiter, ForgetSocks, InputInv, NoStrandedInput, BatchDone, RemovalAnnounced
<1>1. ASSUME NEW c \in Callers, CallerStep(c) \/ CallerCall(c)
      PROVE  InputInv'
  <2>1. /\ UNCHANGED <<m_waiting, closed, epfds, peer, loop, ret, notifytype, ready>>
        /\ epready \subseteq epready' /\ m_allactive \subseteq m_allactive'
    BY <1>1 DEF CallerStep, CallerCall, AddTcpSock, QueueTaskToLoop, QueueTaskNotify,
       TerminateNotify, AddTcpSockToLoop, Close, TerminateLoop, NotifyNewActive
  <2> QED BY <2>1 DEF InputInv, NoStrandedInput, BatchDone, RemovalAnnounced
<1>2. ASSUME NEW s \in Socks, NEW what \in {"data", "fin"}, PeerEvent(s, what)
      PROVE  InputInv'
  BY <1>2, <1>t DEF PeerEvent, InputInv, NoStrandedInput, BatchDone, RemovalAnnounced
<1>3. CASE LoopTop
  <2>1. CASE ~ExitLoop
    BY <1>3, <2>1 DEF LoopTop, TerminalTest, KeepRunning, InputInv, NoStrandedInput, BatchDone,
                      RemovalAnnounced
  <2> QED BY <1>3, <1>e, <2>1 DEF LoopTop
<1>4. CASE EpollReady
  <2>1. NoStrandedInput'
    <3> SUFFICES ASSUME NEW s \in epfds, peer[s] # "quiet"
                 PROVE  s \in epready' \cup ready'
      BY <1>4 DEF EpollReady, NoStrandedInput
    <3>1. s \in epready /\ s # Pipe
      BY <1>4, <1>t DEF EpollReady, InputInv, NoStrandedInput, BatchDone
    <3> QED BY <1>4, <3>1 DEF EpollReady
  <2>2. BatchDone' /\ RemovalAnnounced'
    BY <1>4 DEF EpollReady, InputInv, BatchDone, RemovalAnnounced
  <2> QED BY <2>1, <2>2 DEF InputInv
<1>5. CASE EpollTimeout \/ EpollInterrupted
  BY <1>5 DEF EpollTimeout, EpollInterrupted, InputInv, NoStrandedInput, BatchDone, RemovalAnnounced
<1>6. CASE WaitClear
  BY <1>6 DEF WaitClear, ClearNotify, InputInv, NoStrandedInput, BatchDone, RemovalAnnounced
<1>7. CASE WaitRead
  <2>1. CASE ~ExitLoop
    BY <1>7, <2>1 DEF WaitRead, ClearClosedTcpSock, InputInv, NoStrandedInput, BatchDone,
                      RemovalAnnounced
  <2>2. CASE ExitLoop
    BY <1>7, <2>2 DEF WaitRead, ExitLoop, DestroyWaiter, ForgetSocks, InputInv, NoStrandedInput,
                      BatchDone, RemovalAnnounced
  <2> QED BY <2>1, <2>2
<1>8. CASE WaitTimeouts
  <2>1. ASSUME NEW S, CloseInLoop(S)
        PROVE  InputInv'
    <3>1. NoStrandedInput'
      BY <1>8, <2>1 DEF WaitTimeouts, CloseInLoop, RemoveTcpSock, InputInv, NoStrandedInput
    <3>2. BatchDone' /\ RemovalAnnounced'
      BY <1>8, <2>1 DEF WaitTimeouts, CloseInLoop, RemoveTcpSock, NotifyNewActive, InputInv,
                        BatchDone, RemovalAnnounced
    <3> QED BY <3>1, <3>2 DEF InputInv
  <2>2. CASE UNCHANGED <<notifyvars, sockvars, epready>>
    BY <1>8, <2>2 DEF WaitTimeouts, InputInv, NoStrandedInput, BatchDone, RemovalAnnounced
  <2> QED BY <1>8, <2>1, <2>2 DEF WaitTimeouts
<1>9. CASE SwapTasks \/ TasksDone \/ DispatchDone
  BY <1>9 DEF SwapTasks, TasksDone, DispatchDone, InputInv, NoStrandedInput, BatchDone,
              RemovalAnnounced
<1>10. CASE RunTask
  <2> DEFINE s == Head(tmptasks).sock
  <2>0. UNCHANGED <<loop, ret, notifytype, ready, peer>>
    BY <1>10 DEF RunTask
  <2>1. CASE RegisterSock(s) /\ s \notin closed
    <3> HIDE DEF s
    <3>1. NoStrandedInput'
      BY <2>0, <2>1 DEF RegisterSock, InputInv, NoStrandedInput
    <3>2. BatchDone' /\ RemovalAnnounced'
      BY <2>0, <2>1 DEF RegisterSock, InputInv, BatchDone, RemovalAnnounced
    <3> QED BY <3>1, <3>2 DEF InputInv
  <2>2. CASE RemoveTcpSock({s}) /\ closed' \subseteq closed \cup {s}
    BY <2>0, <2>2, RemoveInput
  <2>3. CASE UNCHANGED <<notifyvars, sockvars, epready>>
    BY <2>0, <2>3 DEF InputInv, NoStrandedInput, BatchDone, RemovalAnnounced
  <2> QED BY <1>10, <2>1, <2>2, <2>3 DEF RunTask, UpdateTcpSockInLoop, CloseTask, CloseInLoop
<1>11. CASE LoopCheck
  <2>1. CASE ~ExitLoop
    BY <1>11, <2>1 DEF LoopCheck, TerminalTest, KeepRunning, InputInv, NoStrandedInput, BatchDone,
                       RemovalAnnounced
  <2> QED BY <1>11, <1>e, <2>1 DEF LoopCheck
<1>12. CASE LoopTimedOut
  <2>1. CASE ~ExitLoop
    BY <1>12, <2>1 DEF LoopTimedOut, InputInv, NoStrandedInput, BatchDone, RemovalAnnounced
  <2> QED BY <1>12, <1>e, <2>1 DEF LoopTimedOut
<1>13. ASSUME NEW s \in Socks, HandleEvent(s)
       PROVE  InputInv'
  <2>1. BatchDone'
    BY <1>13 DEF HandleEvent, InputInv, BatchDone
  <2>2. CASE s \in closed
    <3>1. s \notin epfds
      BY <2>2 DEF SafetyInv, SocksKnown
    <3> QED BY <1>13, <2>1, <2>2, <3>1 DEF HandleEvent, InputInv, NoStrandedInput, RemovalAnnounced
  <2>3. CASE s \notin closed /\ peer[s] # "fin"
    BY <1>13, <1>t, <2>1, <2>3 DEF HandleEvent, InputInv, NoStrandedInput, RemovalAnnounced
  <2>4. CASE s \notin closed /\ peer[s] = "fin"
    <3>1. NoStrandedInput'
      BY <1>13, <1>t, <2>4 DEF HandleEvent, CloseInLoop, RemoveTcpSock, InputInv, NoStrandedInput
    <3>2. RemovalAnnounced'
      BY <1>13, <2>4 DEF HandleEvent, CloseInLoop, RemoveTcpSock, NotifyNewActive, RemovalAnnounced
    <3> QED BY <2>1, <3>1, <3>2 DEF InputInv
  <2> QED BY <2>2, <2>3, <2>4
<1>14. CASE UNCHANGED vars
  BY <1>14 DEF vars, InputInv, NoStrandedInput, BatchDone, RemovalAnnounced
<1> QED
  BY <1>1, <1>2, <1>3, <1>4, <1>5, <1>6, <1>7, <1>8, <1>9, <1>10, <1>11, <1>12, <1>13, <1>14
  DEF Next, LoopStep

LEMMA InputInvCorrect == Spec => []InputInv
<1>1. Init => InputInv
  BY DEF Init, InputInv, NoStrandedInput, BatchDone, RemovalAnnounced
<1> QED BY <1>1, InputStep, TypeCorrect, SafetyInvariant, PTL DEF Spec

(* Edge-triggered epoll strands no input: reading until EAGAIN, and DEL and  *)
(* ADD at every registration, are enough for any number of sockets.          *)
THEOREM NoStrandedInputCorrect == Spec => []NoStrandedInput
<1>1. InputInv => NoStrandedInput
  BY DEF InputInv
<1> QED BY <1>1, InputInvCorrect, PTL

(* A closed socket leaves epoll for good and m_waiting_tcpsocks as soon as   *)
(* its notice is handled.                                                    *)
THEOREM ClosedGoesAwayCorrect == Spec => []ClosedGoesAway
<1>1. SafetyInv /\ InputInv => ClosedGoesAway
  BY DEF SafetyInv, SocksKnown, InputInv, RemovalAnnounced, ClosedGoesAway
<1> QED BY <1>1, InputInvCorrect, SafetyInvariant, PTL

-----------------------------------------------------------------------------
(* The task queue.                                                          *)

(* Outside the running of tasks no task is in hand.                          *)
InHand == loop # "run" => tmptasks = << >>

LEMMA InHandCorrect == Spec => []InHand
<1>1. Init => InHand
  BY DEF Init, InHand
<1>2. InHand /\ [Next]_vars => InHand'
  BY DEF InHand, Next, vars, CallerStep, CallerCall, LoopStep, queuevars,
         AddTcpSock, UpdateTcpSock, QueueTaskToLoop, QueueTaskNotify, TerminateNotify,
         AddTcpSockToLoop, Close, TerminateLoop, PeerEvent, LoopTop,
         TerminalTest, ExitLoop, DestroyWaiter, ForgetSocks, KeepRunning, EpollReady, WaitClear, WaitRead,
         WaitTimeouts, SwapTasks, RunTask, TasksDone, LoopCheck, LoopTimedOut,
         HandleEvent, DispatchDone, EpollTimeout, EpollInterrupted
<1> QED BY <1>1, <1>2, PTL DEF Spec

(* The loop implements TaskQueue: whatever thread queues a task, and however *)
(* the loop batches them, tasks run in order, once, and not after the end.   *)
THEOREM QueueRefinement == Spec => QueueRefined
<1> DEFINE q == tmptasks \o m_pendings
           stop == (loop = "exited")
<1> USE DEF Tasks!tqvars, Tasks!TQNext
<1>1. Init => Tasks!TQInit
  BY DEF Init, Tasks!TQInit
<1>2. TypeOK /\ InHand /\ [Next]_vars => [Tasks!TQNext]_(Tasks!tqvars)
  <2> SUFFICES ASSUME TypeOK, InHand, [Next]_vars
               PROVE  Tasks!Put \/ Tasks!Run \/ Tasks!Stop
                      \/ UNCHANGED <<tmptasks \o m_pendings, lastrun, stop>>
    BY Zenon
  <2> USE DEF queuevars
  <2>t. tmptasks \in Seq(Task) /\ m_pendings \in Seq(Task)
    BY DEF TypeOK, QueueType
  <2>1. ASSUME NEW c \in Callers, QueueTaskToLoop(c) PROVE Tasks!Put
    <3>1. arg[c] \in Task
      BY <2>1 DEF QueueTaskToLoop, TypeOK, CallerType
    <3>2. tmptasks \o Append(m_pendings, arg[c]) = Append(q, arg[c])
      BY <2>t, <3>1
    <3> QED BY <2>1, <3>1, <3>2 DEF QueueTaskToLoop, Tasks!Put
  <2>2. CASE SwapTasks
    <3>1. tmptasks = << >>
      BY <2>2 DEF SwapTasks, InHand
    <3>2. q' = q
      BY <2>2, <2>t, <3>1, ConcatEmptySeq DEF SwapTasks
    <3> QED BY <2>2, <3>2 DEF SwapTasks
  <2>3. CASE RunTask
    <3>1. /\ q # << >>
          /\ Head(q) = Head(tmptasks)
          /\ Tail(q) = Tail(tmptasks) \o m_pendings
      BY <2>3, <2>t DEF RunTask
    <3> QED BY <2>3, <3>1 DEF RunTask, Tasks!Run
  <2>4. ASSUME loop # "exited", loop' = "exited", UNCHANGED queuevars
        PROVE  Tasks!Stop
    BY <2>4 DEF Tasks!Stop
  <2>5. CASE UNCHANGED <<queuevars, loop>>
    BY <2>5
  <2>6. ASSUME loop # "exited", loop' # "exited", UNCHANGED queuevars
        PROVE  UNCHANGED <<q, lastrun, stop>>
    BY <2>6
  <2>7. \/ \E c \in Callers : QueueTaskToLoop(c)
        \/ SwapTasks
        \/ RunTask
        \/ UNCHANGED <<queuevars, loop>>
        \/ loop # "exited" /\ UNCHANGED queuevars
    BY DEF Next, vars, CallerStep, CallerCall, LoopStep, AddTcpSock, UpdateTcpSock,
           QueueTaskNotify, TerminateNotify, AddTcpSockToLoop, Close,
           TerminateLoop, PeerEvent, LoopTop, EpollReady, WaitClear, WaitRead,
           WaitTimeouts, TasksDone, LoopCheck, LoopTimedOut, HandleEvent,
           DispatchDone, EpollTimeout, EpollInterrupted
  <2> QED BY <2>1, <2>2, <2>3, <2>4, <2>5, <2>6, <2>7
<1> QED
  BY <1>1, <1>2, TypeCorrect, InHandCorrect, PTL
  DEF Spec, QueueRefined, Tasks!TQSpec
=============================================================================
