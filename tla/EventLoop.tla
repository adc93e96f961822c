----------------------------- MODULE EventLoop -----------------------------
(***************************************************************************)
(* One event loop of the network layer (src/Core/EventLoop.cpp) with its   *)
(* waiter (SockWaiterBase.cpp, EpollWaiter.cpp): the tasks other threads    *)
(* queue to it, the notify pipe that wakes it, the sockets it watches and   *)
(* its orderly end.                                                         *)
(*                                                                          *)
(* The loop thread runs Loop(); its program counter is `loop`.  Any number  *)
(* of caller threads run AddTcpSockToLoop, TcpSock::Close (which queues     *)
(* itself when called off the loop thread) and TerminateLoop.  A step is    *)
(* what happens between two points where another thread can interfere: one  *)
(* critical section, or one access to a shared flag.                        *)
(***************************************************************************)
EXTENDS Integers, Sequences, FiniteSets

CONSTANTS
  Callers,          \* threads other than the loop thread
  Socks,            \* TcpSock objects (each has its own fd: see README)
  NoTask,           \* a value that is no task
  EPOLL_QUEUE_LEN,  \* events one epoll_wait can return
  MaxPendings,      \* bound: callers queue no more than this many tasks
  MaxInterrupts,    \* bound: signals that interrupt epoll_wait
  MaxData           \* bound: times a peer sends data, per socket

VARIABLES
  m_pendings,    \* tasks queued, not yet taken by the loop      (m_lock)
  tmptasks,      \* tasks the loop has taken and is running
  lastrun,       \* history: the task that ran last
  m_newnotify,   \* a wake-up byte was written and not yet taken (m_common_lock)
  m_allactive,   \* reasons given since the flag was last cleared
  pipe,          \* bytes in the notify pipe
  m_terminal,    \* TerminateLoop was called
  m_running,     \* the waiter has not been destroyed
  m_waiting,     \* m_waiting_tcpsocks: the sockets the waiter knows
  added,         \* sockets whose m_evloop is this loop
  closed,        \* sockets for which TcpSock::Close has run
  halfclosed,    \* sockets told to send no more (DisAllowSend)
  epfds,         \* fds registered with epoll
  epready,       \* kernel: fds (and the pipe) with an undelivered edge
  peer,          \* per socket, what the loop has not read: "quiet", "data", "fin"
  sent,          \* per socket, how often its peer has sent (bounded by MaxData)
  loop,          \* program counter of the loop thread
  ret,           \* what the last epoll_wait returned: -1, 0 or 1 (some events)
  needread,      \* local of GetAndClearNotify
  notifytype,    \* what GetAndClearNotify returned
  ready,         \* events returned by the last epoll_wait, not yet handled
  interrupts,    \* epoll_wait calls interrupted so far
  pc,            \* program counter of each caller
  arg            \* per caller, the task it is queueing

queuevars  == <<m_pendings, tmptasks, lastrun>>
notifyvars == <<m_newnotify, m_allactive, pipe>>
sockvars   == <<m_waiting, closed, halfclosed, epfds>>
peervars   == <<peer, sent>>
waitvars   == <<ret, needread, notifytype, ready, interrupts>>
callvars   == <<pc, arg, added>>
vars == <<queuevars, notifyvars, m_terminal, m_running, sockvars, epready,
          peervars, loop, waitvars, callvars>>

-----------------------------------------------------------------------------
(* Types.                                                                   *)

Pipe == "notify_pipe"

(* kSockActiveNotify *)
REMOVED     == "REMOVED"
UPDATEEVENT == "UPDATEEVENT"
TERMINATE   == "TERMINATE"
Notices     == {REMOVED, UPDATEEVENT, TERMINATE}

(* The tasks this part of the program queues: UpdateTcpSock of a socket just
   added, and Close of a socket. *)
Task == [op : {"update", "close"}, sock : Socks]

LoopStates == {"top", "wait", "clear", "read", "timeouts", "swap", "run",
               "check", "timedout", "dispatch", "exited"}

ASSUME EventLoopAssumption ==
  /\ EPOLL_QUEUE_LEN \in Nat \ {0}
  /\ MaxPendings \in Nat
  /\ MaxInterrupts \in Nat
  /\ MaxData \in Nat
  /\ Pipe \notin Socks
  /\ NoTask \notin Task

QueueType ==
  /\ m_pendings \in Seq(Task)
  /\ tmptasks \in Seq(Task)
  /\ lastrun \in Task \cup {NoTask}

NotifyType ==
  /\ m_newnotify \in BOOLEAN
  /\ m_allactive \subseteq Notices
  /\ pipe \in Nat

SockType ==
  /\ m_waiting \subseteq Socks
  /\ closed \subseteq Socks
  /\ halfclosed \subseteq Socks
  /\ epfds \subseteq Socks
  /\ epready \subseteq Socks \cup {Pipe}

PeerType ==
  /\ peer \in [Socks -> {"quiet", "data", "fin"}]
  /\ sent \in [Socks -> 0..MaxData]

LoopType ==
  /\ m_terminal \in BOOLEAN
  /\ m_running \in BOOLEAN
  /\ loop \in LoopStates
  /\ ret \in {-1, 0, 1}
  /\ needread \in BOOLEAN
  /\ notifytype \subseteq Notices
  /\ ready \subseteq Socks
  /\ interrupts \in 0..MaxInterrupts

CallerType ==
  /\ pc \in [Callers -> {"idle", "add", "push", "notify", "terminate"}]
  /\ arg \in [Callers -> Task \cup {NoTask}]
  /\ \A c \in Callers : pc[c] \in {"add", "push", "notify"} => arg[c] \in Task
  /\ added \subseteq Socks

TypeOK == /\ QueueType /\ NotifyType /\ SockType /\ PeerType
          /\ LoopType /\ CallerType

Init ==
  /\ m_pendings = << >> /\ tmptasks = << >> /\ lastrun = NoTask
  /\ m_newnotify = FALSE /\ m_allactive = {} /\ pipe = 0
  /\ m_terminal = FALSE /\ m_running = TRUE
  /\ m_waiting = {} /\ added = {} /\ closed = {} /\ halfclosed = {} /\ epfds = {}
  /\ epready = {}
  /\ peer = [s \in Socks |-> "quiet"] /\ sent = [s \in Socks |-> 0]
  /\ loop = "top" /\ ret = 0 /\ needread = FALSE /\ notifytype = {}
  /\ ready = {} /\ interrupts = 0
  /\ pc = [c \in Callers |-> "idle"]
  /\ arg = [c \in Callers |-> NoTask]

-----------------------------------------------------------------------------
(* The notify pipe.                                                         *)

(* Mutant: only the first notice leaves its reason.                          *)
NotifyFirstReason(active) ==
  /\ pipe' = IF m_newnotify THEN pipe ELSE pipe + 1
  /\ m_allactive' = IF m_newnotify THEN m_allactive ELSE {active}
  /\ m_newnotify' = TRUE

(* NotifyNewActive, one critical section of m_common_lock.  The byte is      *)
(* written for the first notice only; a write to the pipe raises its edge.   *)
NotifyNewActive(active) ==
  /\ pipe' = IF m_newnotify THEN pipe ELSE pipe + 1
  /\ m_allactive' = m_allactive \cup {active}
  /\ m_newnotify' = TRUE

NotifyEdge == IF m_newnotify THEN {} ELSE {Pipe}

(* GetAndClearNotify, its critical section ...                              *)
ClearNotify ==
  /\ needread' = m_newnotify
  /\ m_newnotify' = FALSE
  /\ notifytype' = m_allactive
  /\ m_allactive' = {}

(* Mutant: drain the pipe, and with it the byte of a newer notice.           *)
DrainNotify == pipe' = IF needread THEN 0 ELSE pipe

(* ... and, outside the lock, the read of one byte if one was announced      *)
(* (EAGAIN on an empty pipe ends the read).                                  *)
ReadNotifyByte ==
  pipe' = IF needread /\ pipe > 0 THEN pipe - 1 ELSE pipe

-----------------------------------------------------------------------------
(* The waiter's sockets; all of these run on the loop thread.               *)

(* Mutant: registration changes without DEL and ADD, no edge is raised.      *)
RegisterNoRearm(s) ==
  /\ epfds' = epfds \cup {s}
  /\ m_waiting' = m_waiting \cup {s}
  /\ UNCHANGED <<notifyvars, closed, halfclosed, epready>>

(* UpdateTcpSockInLoop of a socket that cares about something: DEL and ADD   *)
(* in epoll, so a condition already there raises an edge again, and an entry *)
(* in m_waiting_tcpsocks.                                                    *)
RegisterSock(s) ==
  /\ epfds' = epfds \cup {s}
  /\ m_waiting' = m_waiting \cup {s}
  /\ epready' = IF peer[s] = "quiet" THEN epready \ {s} ELSE epready \cup {s}
  /\ UNCHANGED <<notifyvars, closed, halfclosed>>

(* RemoveTcpSock: no cared events, DEL in epoll, notice REMOVED.  The entry   *)
(* of m_waiting_tcpsocks goes later, in ClearClosedTcpSock.                  *)
RemoveTcpSock(S) ==
  /\ epfds' = epfds \ S
  /\ epready' = (epready \ S) \cup NotifyEdge
  /\ NotifyNewActive(REMOVED)
  /\ UNCHANGED m_waiting

(* TcpSock::Close on the loop thread, for every socket of S.                 *)
CloseInLoop(S) ==
  /\ closed' = closed \cup S
  /\ RemoveTcpSock(S)
  /\ UNCHANGED halfclosed

(* ClearClosedTcpSock.                                                       *)
ClearClosedTcpSock ==
  m_waiting' = IF REMOVED \in notifytype THEN m_waiting \ closed ELSE m_waiting

(* CloseAllClient / DisAllowAllTcpSend: half-close every socket known.       *)
CloseAllClient ==
  halfclosed' = halfclosed \cup m_waiting

-----------------------------------------------------------------------------
(* Caller threads.                                                          *)

(* AddTcpSockToLoop(s) of a socket no loop owns: the test of m_terminal.     *)
AddTcpSockToLoop(c, s) ==
  /\ pc[c] = "idle"
  /\ s \notin added
  /\ \A d \in Callers : arg[d] # [op |-> "update", sock |-> s]
  /\ ~m_terminal
  /\ pc' = [pc EXCEPT ![c] = "add"]
  /\ arg' = [arg EXCEPT ![c] = [op |-> "update", sock |-> s]]
  /\ UNCHANGED <<queuevars, notifyvars, m_terminal, m_running, sockvars,
                 epready, peervars, loop, waitvars, added>>

(* UpdateTcpSock, off the loop thread: the update is queued, or dropped      *)
(* silently when the waiter is gone.                                         *)
UpdateTcpSock(c) ==
  IF m_running
  THEN pc' = [pc EXCEPT ![c] = "push"] /\ UNCHANGED arg
  ELSE pc' = [pc EXCEPT ![c] = "idle"] /\ arg' = [arg EXCEPT ![c] = NoTask]

(* SockWaiterBase::AddTcpSock: the socket gets the waiter's m_evloop, which  *)
(* is NULL once the waiter is destroyed.                                     *)
AddTcpSock(c) ==
  /\ pc[c] = "add"
  /\ added' = IF m_running THEN added \cup {arg[c].sock} ELSE added
  /\ UpdateTcpSock(c)
  /\ UNCHANGED <<queuevars, notifyvars, m_terminal, m_running, sockvars,
                 epready, peervars, loop, waitvars>>

(* TcpSock::Close off the loop thread: queue itself to the loop.             *)
Close(c, s) ==
  /\ pc[c] = "idle"
  /\ s \in added
  /\ s \notin closed
  /\ pc' = [pc EXCEPT ![c] = "push"]
  /\ arg' = [arg EXCEPT ![c] = [op |-> "close", sock |-> s]]
  /\ UNCHANGED <<queuevars, notifyvars, m_terminal, m_running, sockvars,
                 epready, peervars, loop, waitvars, added>>

(* QueueTaskToLoop: push_back under m_lock ...                               *)
QueueTaskToLoop(c) ==
  /\ pc[c] = "push"
  /\ Len(m_pendings) < MaxPendings
  /\ m_pendings' = Append(m_pendings, arg[c])
  /\ pc' = [pc EXCEPT ![c] = "notify"]
  /\ UNCHANGED <<tmptasks, lastrun, notifyvars, m_terminal, m_running,
                 sockvars, epready, peervars, loop, waitvars, arg, added>>

(* ... then, no lock held, NotifyNewActive(UPDATEEVENT).                     *)
QueueTaskNotify(c) ==
  /\ pc[c] = "notify"
  /\ NotifyNewActive(UPDATEEVENT)
  /\ epready' = epready \cup NotifyEdge
  /\ pc' = [pc EXCEPT ![c] = "idle"]
  /\ arg' = [arg EXCEPT ![c] = NoTask]
  /\ UNCHANGED <<queuevars, m_terminal, m_running, sockvars, peervars, loop,
                 waitvars, added>>

(* TerminateLoop: the flag ...                                               *)
TerminateLoop(c) ==
  /\ pc[c] = "idle"
  /\ ~m_terminal
  /\ m_terminal' = TRUE
  /\ pc' = [pc EXCEPT ![c] = "terminate"]
  /\ UNCHANGED <<queuevars, notifyvars, m_running, sockvars, epready,
                 peervars, loop, waitvars, arg, added>>

(* ... then the notice.                                                      *)
TerminateNotify(c) ==
  /\ pc[c] = "terminate"
  /\ NotifyNewActive(TERMINATE)
  /\ epready' = epready \cup NotifyEdge
  /\ pc' = [pc EXCEPT ![c] = "idle"]
  /\ UNCHANGED <<queuevars, m_terminal, m_running, sockvars, peervars, loop,
                 waitvars, arg, added>>

-----------------------------------------------------------------------------
(* Peers: data or the end of the stream arrives on a connection; the kernel  *)
(* raises an edge if the fd is registered.  (External.)                      *)

PeerEvent(s, what) ==
  /\ s \notin closed
  /\ peer[s] # "fin"
  /\ what = "data" => sent[s] < MaxData
  /\ peer' = [peer EXCEPT ![s] = what]
  /\ sent' = IF what = "data" THEN [sent EXCEPT ![s] = @ + 1] ELSE sent
  /\ epready' = IF s \in epfds THEN epready \cup {s} ELSE epready
  /\ UNCHANGED <<queuevars, notifyvars, m_terminal, m_running, sockvars, loop,
                 waitvars, callvars>>

-----------------------------------------------------------------------------
(* The loop thread.                                                         *)

(* SockWaiterBase::DestroyWaiter forgets the sockets, ...                    *)
ForgetSocks ==
  /\ m_running' = FALSE
  /\ m_waiting' = {}

(* ... after EpollWaiter::DestroyWaiter has closed the epoll fd.             *)
DestroyWaiter ==
  /\ epfds' = {}
  /\ epready' = {}
  /\ ForgetSocks

(* The end of Loop().                                                        *)
ExitLoop ==
  /\ DestroyWaiter
  /\ loop' = "exited"
  /\ UNCHANGED <<closed, halfclosed>>

(* The test of m_terminal made before each Wait, and again after the tasks:  *)
(* end when no socket is left, half-close the sockets otherwise.             *)
TerminalTest(next) ==
  IF m_terminal
  THEN IF m_waiting = {}
       THEN ExitLoop
       ELSE next /\ CloseAllClient /\ UNCHANGED <<m_waiting, closed>>
  ELSE next /\ UNCHANGED <<m_waiting, closed, halfclosed>>

KeepRunning == UNCHANGED <<m_running, epfds, epready>>

LoopTop ==
  /\ loop = "top"
  /\ TerminalTest(loop' = "wait" /\ KeepRunning)
  /\ UNCHANGED <<queuevars, notifyvars, m_terminal, peervars, waitvars,
                 callvars>>

(* What epoll_wait can report: an edge whose condition still holds.          *)
Reportable == {x \in epready : x = Pipe => pipe > 0}

(* epoll_wait returns some of the events, EPOLL_QUEUE_LEN at most.           *)
EpollReady ==
  /\ loop = "wait"
  /\ \E batch \in (SUBSET Reportable) \ {{}} :
       /\ Cardinality(batch) <= EPOLL_QUEUE_LEN
       /\ batch # Reportable => Cardinality(batch) = EPOLL_QUEUE_LEN
       /\ ready' = batch \ {Pipe}
       /\ epready' = epready \ batch
  /\ ret' = 1
  /\ loop' = "clear"
  /\ UNCHANGED <<queuevars, notifyvars, m_terminal, m_running, sockvars,
                 peervars, needread, notifytype, interrupts, callvars>>

(* epoll_wait returns 0 after 1.2 s without an event, ...                    *)
EpollTimeout ==
  /\ loop = "wait"
  /\ Reportable = {}
  /\ ret' = 0
  /\ ready' = {}
  /\ loop' = "clear"
  /\ UNCHANGED <<queuevars, notifyvars, m_terminal, m_running, sockvars,
                 epready, peervars, needread, notifytype, interrupts, callvars>>

(* ... or -1 (EINTR), which delivers no event.                               *)
EpollInterrupted ==
  /\ loop = "wait"
  /\ interrupts < MaxInterrupts
  /\ interrupts' = interrupts + 1
  /\ ret' = -1
  /\ ready' = {}
  /\ loop' = "clear"
  /\ UNCHANGED <<queuevars, notifyvars, m_terminal, m_running, sockvars,
                 epready, peervars, needread, notifytype, callvars>>

WaitClear ==
  /\ loop = "clear"
  /\ ClearNotify
  /\ loop' = "read"
  /\ UNCHANGED <<queuevars, pipe, m_terminal, m_running, sockvars, epready,
                 peervars, ret, ready, interrupts, callvars>>

(* The rest of GetAndClearNotify and ClearClosedTcpSock; Wait returns -1 at   *)
(* once after an interrupt, and Loop() starts over (or ends) without taking  *)
(* the tasks.                                                                *)
WaitRead ==
  /\ loop = "read"
  /\ ReadNotifyByte
  /\ IF ret = -1 /\ m_terminal
     THEN ExitLoop
     ELSE /\ ClearClosedTcpSock
          /\ loop' = IF ret = -1 THEN "top" ELSE "timeouts"
          /\ UNCHANGED <<m_running, closed, halfclosed, epfds, epready>>
  /\ UNCHANGED <<queuevars, m_newnotify, m_allactive, m_terminal, peervars,
                 waitvars, callvars>>

(* UpdateTimeout on every socket known; the onTimeout handler of some of     *)
(* them closes the socket.                                                   *)
WaitTimeouts ==
  /\ loop = "timeouts"
  /\ \/ \E S \in (SUBSET (m_waiting \ closed)) \ {{}} : CloseInLoop(S)
     \/ UNCHANGED <<notifyvars, sockvars, epready>>
  /\ loop' = "swap"
  /\ UNCHANGED <<queuevars, m_terminal, m_running, peervars, waitvars, callvars>>

(* Mutant: m_pendings is cleared before it is swapped.                       *)
ClearTasks ==
  /\ loop = "swap"
  /\ tmptasks' = << >>
  /\ m_pendings' = << >>
  /\ loop' = "run"
  /\ UNCHANGED <<lastrun, notifyvars, m_terminal, m_running, sockvars, epready,
                 peervars, waitvars, callvars>>

(* The tasks are swapped out under m_lock.                                   *)
SwapTasks ==
  /\ loop = "swap"
  /\ tmptasks' = m_pendings
  /\ m_pendings' = << >>
  /\ loop' = "run"
  /\ UNCHANGED <<lastrun, notifyvars, m_terminal, m_running, sockvars, epready,
                 peervars, waitvars, callvars>>

(* What a task does on the loop thread.                                      *)
UpdateTcpSockInLoop(s) ==
  IF s \in closed
  THEN RemoveTcpSock({s}) /\ UNCHANGED <<closed, halfclosed>>
  ELSE RegisterSock(s)

CloseTask(s) ==
  IF s \in closed
  THEN UNCHANGED <<notifyvars, sockvars, epready>>
  ELSE CloseInLoop({s})

RunTask ==
  /\ loop = "run"
  /\ tmptasks # << >>
  /\ lastrun' = Head(tmptasks)
  /\ tmptasks' = Tail(tmptasks)
  /\ IF Head(tmptasks).op = "update"
     THEN UpdateTcpSockInLoop(Head(tmptasks).sock)
     ELSE CloseTask(Head(tmptasks).sock)
  /\ UNCHANGED <<m_pendings, m_terminal, m_running, peervars, loop, waitvars,
                 callvars>>

TasksDone ==
  /\ loop = "run"
  /\ tmptasks = << >>
  /\ loop' = "check"
  /\ UNCHANGED <<queuevars, notifyvars, m_terminal, m_running, sockvars,
                 epready, peervars, waitvars, callvars>>

(* After the tasks: the test of m_terminal, ...                             *)
LoopCheck ==
  /\ loop = "check"
  /\ TerminalTest(loop' = (IF ret = 0 THEN "timedout" ELSE "dispatch")
                  /\ KeepRunning)
  /\ UNCHANGED <<queuevars, notifyvars, m_terminal, peervars, waitvars,
                 callvars>>

(* Mutant: a loop that is terminating waits for its sockets for ever.        *)
TimedOutGoOn ==
  /\ loop = "timedout"
  /\ loop' = "top"
  /\ UNCHANGED <<queuevars, notifyvars, m_terminal, m_running, sockvars,
                 epready, peervars, waitvars, callvars>>

(* ... and a Wait that timed out while terminating ends the loop, whatever   *)
(* sockets are left.                                                         *)
LoopTimedOut ==
  /\ loop = "timedout"
  /\ IF m_terminal
     THEN ExitLoop
     ELSE loop' = "top" /\ UNCHANGED <<m_running, sockvars, epready>>
  /\ UNCHANGED <<queuevars, notifyvars, m_terminal, peervars, waitvars,
                 callvars>>

(* HandleEvent of one ready socket: nothing if it was closed meanwhile;      *)
(* otherwise it is read until EAGAIN, and closed at the end of the stream.   *)
HandleEvent(s) ==
  /\ loop = "dispatch"
  /\ s \in ready
  /\ ready' = ready \ {s}
  /\ IF s \in closed
     THEN UNCHANGED <<notifyvars, sockvars, epready, peer>>
     ELSE /\ peer' = [peer EXCEPT ![s] = "quiet"]
          /\ IF peer[s] = "fin"
             THEN CloseInLoop({s})
             ELSE UNCHANGED <<notifyvars, sockvars, epready>>
  /\ UNCHANGED <<queuevars, m_terminal, m_running, sent, loop, ret, needread,
                 notifytype, interrupts, callvars>>

DispatchDone ==
  /\ loop = "dispatch"
  /\ ready = {}
  /\ loop' = "top"
  /\ UNCHANGED <<queuevars, notifyvars, m_terminal, m_running, sockvars,
                 epready, peervars, waitvars, callvars>>

-----------------------------------------------------------------------------

CallerStep(c) == \/ AddTcpSock(c)
                 \/ QueueTaskToLoop(c)
                 \/ QueueTaskNotify(c)
                 \/ TerminateNotify(c)

CallerCall(c) == \/ \E s \in Socks : AddTcpSockToLoop(c, s)
                 \/ \E s \in Socks : Close(c, s)
                 \/ TerminateLoop(c)

LoopStep == \/ LoopTop \/ EpollReady \/ WaitClear \/ WaitRead \/ WaitTimeouts
            \/ SwapTasks \/ RunTask \/ TasksDone \/ LoopCheck \/ LoopTimedOut
            \/ \E s \in Socks : HandleEvent(s)
            \/ DispatchDone

Next == \/ \E c \in Callers : CallerStep(c) \/ CallerCall(c)
        \/ \E s \in Socks, what \in {"data", "fin"} : PeerEvent(s, what)
        \/ LoopStep
        \/ EpollTimeout
        \/ EpollInterrupted

Spec == Init /\ [][Next]_vars

(* The operating system keeps scheduling every thread, so a thread that can  *)
(* go on does; what threads are asked to do, peers and signals are free.     *)
Fairness == /\ WF_vars(LoopStep)
            /\ \A c \in Callers : WF_vars(CallerStep(c))

(* epoll_wait is called with a timeout of 1.2 s.  It is owed only to a loop  *)
(* that is to end: until then the notices alone have to do.                  *)
FairSpec == Spec /\ Fairness /\ WF_vars(m_terminal /\ EpollTimeout)

-----------------------------------------------------------------------------
(* Properties.                                                              *)

(* The pipe holds exactly the bytes that are accounted for: one while a      *)
(* notice is announced (m_newnotify), one more while the loop thread is      *)
(* between clearing that flag and reading its byte.  So the pipe never       *)
(* fills up, the read in GetAndClearNotify never finds it empty, and no      *)
(* stale byte survives (SockWaiterBase.cpp, lines 66-116).                   *)
NotifyBytes ==
  pipe = (IF m_newnotify THEN 1 ELSE 0)
         + (IF loop = "read" /\ needread THEN 1 ELSE 0)

(* No lost wake-up: when the loop sleeps in epoll_wait while tasks are       *)
(* queued, either some caller has yet to send its notice, or epoll_wait has  *)
(* the pipe to report, or the Wait before this one was interrupted by a      *)
(* signal (its notice was consumed at EpollWaiter.cpp:112, the tasks were    *)
(* not taken: they wait for the 1.2 s timeout).                              *)
NoLostWakeup ==
  loop = "wait" /\ m_pendings # << >> =>
    \/ \E c \in Callers : pc[c] = "notify"
    \/ Pipe \in Reportable
    \/ ret = -1

(* No lost termination: when the loop sleeps although TerminateLoop has      *)
(* returned, it is about to be woken, or it has half-closed every open       *)
(* socket and only waits for their peers (EventLoop.cpp, lines 172-177).     *)
NoLostTerminate ==
  loop = "wait" /\ m_terminal =>
    \/ \E c \in Callers : pc[c] = "terminate"
    \/ Pipe \in Reportable
    \/ m_waiting \subseteq halfclosed \cup closed

(* Every event epoll_wait returns is for a socket m_waiting_tcpsocks still   *)
(* has when its events are copied (EpollWaiter.cpp, lines 129-136: the       *)
(* operator[] would insert a null pointer and the next line use it), although *)
(* closed sockets are erased, and others time out, in between.                                    *)
EventsHaveSocket ==
  loop \in {"clear", "read", "timeouts", "swap"} => ready \subseteq m_waiting

(* Edge-triggered epoll never strands input: a watched socket with something *)
(* unread has its edge in the kernel or in the batch being handled           *)
(* (TcpSock.cpp, lines 455-520: read until EAGAIN).                          *)
NoStrandedInput ==
  \A s \in epfds : peer[s] # "quiet" => s \in epready \cup ready

(* A closed socket is never watched again, and m_waiting_tcpsocks, on which  *)
(* the end of the loop depends, keeps a closed socket only as long as a      *)
(* notice REMOVED is on its way to have it erased.                           *)
ClosedGoesAway ==
  /\ closed \cap epfds = {}
  /\ closed \cap m_waiting # {} =>
       REMOVED \in m_allactive \/ (loop = "read" /\ REMOVED \in notifytype)

(* The tasks run as TaskQueue says: in the order queued, at most once, none  *)
(* after the loop ended; swapping the whole vector out is invisible.         *)
Tasks == INSTANCE TaskQueue WITH queue <- tmptasks \o m_pendings,
                                 stopped <- (loop = "exited")

QueueRefined == Tasks!TQSpec

(* Without any help from the timeout (and without signals) the notices alone *)
(* get every queued task taken by the loop, unless the loop ends first.      *)
TasksTaken == (m_pendings # << >>) ~> (m_pendings = << >> \/ loop = "exited")

(* TerminateLoop ends the loop, whatever its sockets do, once peers stop     *)
(* sending: EventLoopPool joins the loop's thread without a limit.           *)
LoopEnds == m_terminal ~> (loop = "exited")

=============================================================================
