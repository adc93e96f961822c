------------------------------ MODULE TcpSock ------------------------------
(***************************************************************************)
(* One connected socket of the network layer (src/Core/TcpSock.cpp) and the *)
(* two threads that share it: the loop thread, which reads and owns the     *)
(* epoll registration, and the loop's write thread, which alone writes.     *)
(* Other threads call SendData, DisAllowSend and Close.                     *)
(*                                                                          *)
(* Each thread hands work to the others through two queues: tasks for the   *)
(* write thread and m_pendings of the loop.  How the loop is woken is the   *)
(* subject of EventLoop; here it wakes when its queue is not empty or epoll *)
(* has something to report.  The release build is modelled (template.mk     *)
(* defines NDEBUG), so asserts do nothing.  Data are unit-sized: a datum is *)
(* what one write of the kernel takes or leaves.                            *)
(***************************************************************************)
EXTENDS Integers, Sequences, SequencesExt, FiniteSetsExt

CONSTANTS
  Data,      \* what callers pass to SendData, each once
  NoData,    \* not a datum
  SndBuf,    \* data the kernel's send buffer holds
  MaxInput,  \* bound: times the peer sends something
  MaxDis     \* bound: calls of DisAllowSend from outside the write thread

VARIABLES
  m_outbuf,           \* accepted by the write thread, not yet written
  m_writeable,        \* the write end has not been shut down
  m_allow_more_send,  \* DisAllowSend has not been called
  closed,             \* Close has run (m_isclosing, m_fd = -1, m_evloop = NULL)
  m_caredev,          \* events the socket cares about
  m_sockev,           \* events reported by the last Wait
  writetasks,         \* tasks queued to the write thread
  writer,             \* program counter of the write thread
  hand,               \* the datum SendDataInLoop is about to push
  caller,             \* who called DoSend: "send" (SendDataInLoop), "handle"
  m_pendings,         \* tasks of this socket queued to the loop
  tmptasks,           \* tasks the loop has taken
  loop,               \* program counter of the loop thread
  reported,           \* the last Wait reported the socket
  checked,            \* data whose SendData passed the test, not yet queued
  disallowing,        \* thread between the two halves of DisAllowSend, or "none"
  discalls,           \* calls of DisAllowSend so far
  registered,         \* kernel: events registered with epoll
  epready,            \* kernel: the socket is on epoll's ready list
  nospace,            \* kernel: a waiter is to be told when there is room again
  sndbuf,             \* kernel: data in the send buffer
  input,              \* kernel: there is unread input
  inputs,             \* times the peer sent something
  peer,               \* "open", "fin" (it ended its stream) or "reset"
  accepted,           \* history: data SendData accepted, in order
  wire,               \* history: data written to the kernel, in order
  promised,           \* history: how much was written or buffered at DisAllowSend
  mixed               \* history: a read was reported with, or before the handling
                      \* of, a write event

outvars    == <<m_outbuf, m_writeable, m_allow_more_send>>
queuevars  == <<writetasks, m_pendings>>
writervars == <<writer, hand, caller>>
loopvars   == <<loop, tmptasks, reported, m_sockev>>
appvars    == <<checked, disallowing, discalls>>
epollvars  == <<registered, epready, nospace>>
peervars   == <<sndbuf, input, inputs, peer>>
history    == <<accepted, wire, promised, mixed>>
vars == <<outvars, closed, m_caredev, queuevars, writervars, loopvars, appvars,
          epollvars, peervars, history>>

EV_READ      == "EV_READ"
EV_WRITE     == "EV_WRITE"
EV_EXCEPTION == "EV_EXCEPTION"
Events == {EV_READ, EV_WRITE, EV_EXCEPTION}

(* SendDataInLoop, ShutDownWrite and HandleEvent, queued to the write thread. *)
WriteTask == [op : {"send"}, data : Data] \cup [op : {"shutdown", "handle"}, data : {NoData}]
SendTask(d) == [op |-> "send", data |-> d]
ShutDownTask == [op |-> "shutdown", data |-> NoData]
HandleTask == [op |-> "handle", data |-> NoData]

(* UpdateTcpSock, AddAndUpdateEvent(EV_WRITE) and Close, queued to the loop. *)
LoopTask == {"update", "addwrite", "close"}

ASSUME TcpSockAssumption ==
  /\ SndBuf \in Nat \ {0}
  /\ MaxInput \in Nat
  /\ MaxDis \in Nat
  /\ NoData \notin Data

OutType ==
  /\ m_outbuf \in Seq(Data)
  /\ m_writeable \in BOOLEAN /\ m_allow_more_send \in BOOLEAN /\ closed \in BOOLEAN

EventType ==
  /\ m_caredev \subseteq Events /\ m_sockev \subseteq Events /\ reported \in BOOLEAN
  /\ registered \subseteq Events /\ epready \in BOOLEAN /\ nospace \in BOOLEAN

QueueType ==
  /\ writetasks \in Seq(WriteTask)
  /\ m_pendings \in Seq(LoopTask) /\ tmptasks \in Seq(LoopTask)

ThreadType ==
  /\ writer \in {"idle", "push", "write", "emptied", "onsend", "after"}
  /\ hand \in Data \cup {NoData} /\ (writer = "push" => hand \in Data)
  /\ caller \in {"send", "handle"}
  /\ loop \in {"wait", "swap", "run", "handle"}
  /\ checked \subseteq Data /\ disallowing \in {"none", "app", "loop"}
  /\ discalls \in 0..MaxDis

PeerType ==
  /\ sndbuf \in 0..SndBuf /\ input \in BOOLEAN /\ inputs \in 0..MaxInput
  /\ peer \in {"open", "fin", "reset"}

HistoryType ==
  /\ accepted \in Seq(Data) /\ wire \in Seq(Data)
  /\ promised \in Nat /\ mixed \in BOOLEAN

TypeOK == OutType /\ EventType /\ QueueType /\ ThreadType /\ PeerType /\ HistoryType

(* A connected socket that AddTcpSock has put into the loop. *)
Init ==
  /\ m_outbuf = << >> /\ m_writeable = TRUE /\ m_allow_more_send = TRUE
  /\ closed = FALSE /\ m_caredev = {EV_READ, EV_EXCEPTION} /\ m_sockev = {}
  /\ writetasks = << >> /\ writer = "idle" /\ hand = NoData /\ caller = "send"
  /\ m_pendings = << >> /\ tmptasks = << >> /\ loop = "wait" /\ reported = FALSE
  /\ checked = {} /\ disallowing = "none" /\ discalls = 0
  /\ registered = {EV_READ, EV_EXCEPTION} /\ epready = FALSE /\ nospace = FALSE
  /\ sndbuf = 0 /\ input = FALSE /\ inputs = 0 /\ peer = "open"
  /\ accepted = << >> /\ wire = << >> /\ promised = 0 /\ mixed = FALSE

-----------------------------------------------------------------------------
(* The kernel: edge-triggered epoll and the peer.                            *)

(* What polling the socket says now. *)
Poll ==
  {e \in Events :
     \/ e = EV_READ /\ (input \/ peer # "open")
     \/ e = EV_WRITE /\ (sndbuf < SndBuf \/ ~m_writeable \/ peer = "reset")
     \/ e = EV_EXCEPTION /\ peer = "reset"}

(* A poll that finds no room leaves a request to be told of it. *)
AskForRoom == nospace' = (nospace \/ EV_WRITE \notin Poll)

(* EpollWaiter::UpdateTcpSockEvent: removed and added again, which reports
   whatever is pending once more. *)
Register(evs) ==
  /\ registered' = evs
  /\ epready' = (evs \cap Poll # {})
  /\ IF evs = {} THEN UNCHANGED nospace ELSE AskForRoom

(* The peer acknowledges a datum. *)
Drain ==
  /\ sndbuf > 0
  /\ sndbuf' = sndbuf - 1
  /\ nospace' = FALSE
  /\ epready' = (epready \/ (nospace /\ EV_WRITE \in registered))
  /\ UNCHANGED <<outvars, closed, m_caredev, queuevars, writervars, loopvars, appvars,
                 registered, input, inputs, peer, history>>

(* The peer sends something, ends its stream or resets the connection. *)
PeerActs ==
  /\ peer = "open"
  /\ \/ /\ inputs < MaxInput
        /\ input' = TRUE /\ inputs' = inputs + 1
        /\ UNCHANGED peer
     \/ /\ peer' \in {"fin", "reset"}
        /\ UNCHANGED <<input, inputs>>
  /\ epready' = (epready \/ registered # {})
  /\ UNCHANGED <<outvars, closed, m_caredev, queuevars, writervars, loopvars, appvars,
                 registered, nospace, sndbuf, history>>

-----------------------------------------------------------------------------
(* Calls of other threads.                                                   *)

Writeable == m_writeable /\ m_allow_more_send

(* SendData: the test, then the task; true is returned in between or after. *)
SendData(d) ==
  /\ d \notin checked \cup Range(accepted)
  /\ ~closed /\ Writeable
  /\ checked' = checked \cup {d}
  /\ UNCHANGED <<outvars, closed, m_caredev, queuevars, writervars, loopvars,
                 disallowing, discalls, epollvars, peervars, history>>

SendQueue(d) ==
  /\ d \in checked
  /\ checked' = checked \ {d}
  /\ accepted' = Append(accepted, d)
  /\ writetasks' = Append(writetasks, SendTask(d))
  /\ UNCHANGED <<outvars, closed, m_caredev, m_pendings, writervars, loopvars,
                 disallowing, discalls, epollvars, peervars, wire, promised, mixed>>

(* DisAllowSend by the loop thread (CloseAllClient before it waits, or a      *)
(* callback) or by any other thread but the write thread: first the flag.    *)
DisAllowSend(t) ==
  /\ disallowing = "none" /\ discalls < MaxDis
  /\ t = "loop" => loop \in {"wait", "handle"}
  /\ disallowing' = t /\ discalls' = discalls + 1
  /\ m_allow_more_send' = FALSE
  /\ promised' = IF m_allow_more_send THEN Len(wire) + Len(m_outbuf) ELSE promised
  /\ UNCHANGED <<m_outbuf, m_writeable, closed, m_caredev, queuevars, writervars,
                 loopvars, checked, epollvars, peervars, accepted, wire, mixed>>

(* Mutant: the write end is shut down without looking at the buffer. *)
DisAllowAtOnce ==
  /\ disallowing # "none"
  /\ disallowing' = "none"
  /\ writetasks' = IF closed THEN writetasks ELSE Append(writetasks, ShutDownTask)
  /\ UNCHANGED <<outvars, closed, m_caredev, m_pendings, writervars, loopvars, checked,
                 discalls, epollvars, peervars, history>>

(* Then the buffer, which the write thread may be emptying. *)
DisAllowTest ==
  /\ disallowing # "none"
  /\ disallowing' = "none"
  /\ \/ /\ closed
        /\ UNCHANGED <<m_caredev, queuevars, epollvars>>
     \/ /\ ~closed /\ m_outbuf = << >>
        /\ writetasks' = Append(writetasks, ShutDownTask)
        /\ UNCHANGED <<m_caredev, m_pendings, epollvars>>
     \/ /\ ~closed /\ m_outbuf # << >> /\ disallowing = "app"
        /\ m_pendings' = Append(m_pendings, "addwrite")
        /\ UNCHANGED <<m_caredev, writetasks, epollvars>>
     \/ /\ ~closed /\ m_outbuf # << >> /\ disallowing = "loop"
        /\ EV_WRITE \notin m_caredev
        /\ m_caredev' = m_caredev \cup {EV_WRITE}
        /\ Register(m_caredev')
        /\ UNCHANGED queuevars
     \/ /\ ~closed /\ m_outbuf # << >> /\ disallowing = "loop"
        /\ EV_WRITE \in m_caredev
        /\ UNCHANGED <<m_caredev, queuevars, epollvars>>
  /\ UNCHANGED <<outvars, closed, writervars, loopvars, checked, discalls, peervars, history>>

(* Close off the loop thread queues itself. *)
CloseCall ==
  /\ ~closed
  /\ "close" \notin Range(m_pendings \o tmptasks)
  /\ m_pendings' = Append(m_pendings, "close")
  /\ UNCHANGED <<outvars, closed, m_caredev, writetasks, writervars, loopvars, appvars,
                 epollvars, peervars, history>>

-----------------------------------------------------------------------------
(* The write thread.                                                         *)

(* ShutDownWrite in the write thread.  What is in m_outbuf is thrown away. *)
ShutDownWrite ==
  IF closed
  THEN UNCHANGED <<m_writeable, m_outbuf>>
  ELSE m_writeable' = FALSE /\ m_outbuf' = << >>

(* SendDataInLoop: the test ... *)
TakeSend ==
  /\ writer = "idle" /\ writetasks # << >> /\ Head(writetasks).op = "send"
  /\ writetasks' = Tail(writetasks)
  /\ IF closed \/ ~Writeable
     THEN UNCHANGED <<writer, hand, caller>>
     ELSE writer' = "push" /\ hand' = Head(writetasks).data /\ caller' = "send"
  /\ UNCHANGED <<outvars, closed, m_caredev, m_pendings, loopvars, appvars, epollvars,
                 peervars, history>>

(* ... and the push. *)
Push ==
  /\ writer = "push"
  /\ m_outbuf' = Append(m_outbuf, hand)
  /\ writer' = "write" /\ hand' = NoData
  /\ UNCHANGED <<m_writeable, m_allow_more_send, closed, m_caredev, queuevars, caller,
                 loopvars, appvars, epollvars, peervars, history>>

(* HandleEvent in the write thread leaves reads, and writes reported together
   with them, to the loop thread. *)
TakeHandle ==
  /\ writer = "idle" /\ writetasks # << >> /\ Head(writetasks).op = "handle"
  /\ writetasks' = Tail(writetasks)
  /\ IF ~closed /\ EV_READ \notin m_sockev /\ EV_WRITE \in m_sockev /\ m_writeable
     THEN writer' = "write" /\ caller' = "handle"
     ELSE UNCHANGED <<writer, caller>>
  /\ UNCHANGED <<outvars, closed, m_caredev, m_pendings, hand, loopvars, appvars,
                 epollvars, peervars, history>>

TakeShutDown ==
  /\ writer = "idle" /\ writetasks # << >> /\ Head(writetasks).op = "shutdown"
  /\ writetasks' = Tail(writetasks)
  /\ ShutDownWrite
  /\ UNCHANGED <<m_allow_more_send, closed, m_caredev, m_pendings, writervars, loopvars,
                 appvars, epollvars, peervars, history>>

(* Mutant: one datum too few is removed from the buffer. *)
WriteOneTwice ==
  /\ writer = "write" /\ ~closed /\ peer # "reset"
  /\ m_outbuf # << >> /\ sndbuf < SndBuf
  /\ LET n == Min({Len(m_outbuf), SndBuf - sndbuf})
     IN  /\ wire' = wire \o SubSeq(m_outbuf, 1, n)
         /\ m_outbuf' = SubSeq(m_outbuf, n, Len(m_outbuf))
         /\ sndbuf' = sndbuf + n
  /\ UNCHANGED <<m_writeable, m_allow_more_send, closed, m_caredev, queuevars, writervars,
                 loopvars, appvars, epollvars, input, inputs, peer, accepted, promised, mixed>>

(* DoSend: write() takes what there is room for. *)
WriteSome ==
  /\ writer = "write" /\ ~closed /\ peer # "reset"
  /\ m_outbuf # << >> /\ sndbuf < SndBuf
  /\ LET n == Min({Len(m_outbuf), SndBuf - sndbuf})
     IN  /\ wire' = wire \o SubSeq(m_outbuf, 1, n)
         /\ m_outbuf' = SubSeq(m_outbuf, n + 1, Len(m_outbuf))
         /\ sndbuf' = sndbuf + n
         /\ writer' = IF n = Len(m_outbuf) THEN "emptied" ELSE "write"
  /\ UNCHANGED <<m_writeable, m_allow_more_send, closed, m_caredev, queuevars, hand, caller,
                 loopvars, appvars, epollvars, input, inputs, peer, accepted, promised, mixed>>

(* write() of nothing, or EAGAIN. *)
WriteNothing ==
  /\ writer = "write" /\ ~closed
  /\ \/ m_outbuf = << >> /\ UNCHANGED nospace
     \/ m_outbuf # << >> /\ peer # "reset" /\ sndbuf = SndBuf /\ nospace' = TRUE
  /\ writer' = "after"
  /\ UNCHANGED <<outvars, closed, m_caredev, queuevars, hand, caller, loopvars, appvars,
                 registered, epready, peervars, history>>

(* write() fails: the loop has closed the fd meanwhile, or the peer reset the
   connection, and then Close queues itself to the loop. *)
WriteError ==
  /\ writer = "write"
  /\ \/ closed /\ UNCHANGED m_pendings
     \/ ~closed /\ peer = "reset" /\ m_pendings' = Append(m_pendings, "close")
  /\ writer' = "idle"
  /\ UNCHANGED <<outvars, closed, m_caredev, writetasks, hand, caller, loopvars, appvars,
                 epollvars, peervars, history>>

(* RemoveAndUpdateEvent(EV_WRITE): the buffer is empty. *)
Emptied ==
  /\ writer = "emptied"
  /\ writer' = "onsend"
  /\ IF closed \/ EV_WRITE \notin m_caredev
     THEN UNCHANGED <<m_caredev, m_pendings>>
     ELSE /\ m_caredev' = m_caredev \ {EV_WRITE}
          /\ m_pendings' = Append(m_pendings, "update")
  /\ UNCHANGED <<outvars, closed, writetasks, hand, caller, loopvars, appvars, epollvars,
                 peervars, history>>

(* The onSend callback may disallow more; then, as when another thread has
   done so, the write end is shut down and DoSend ends. *)
OnSend ==
  /\ writer = "onsend"
  /\ \E ok \in BOOLEAN :
       /\ m_allow_more_send' = (m_allow_more_send /\ (ok \/ closed))
       /\ promised' = IF m_allow_more_send /\ ~m_allow_more_send'
                      THEN Len(wire) ELSE promised
       /\ IF m_allow_more_send'
          THEN writer' = "write" /\ UNCHANGED <<m_writeable, m_outbuf>>
          ELSE writer' = "idle" /\ ShutDownWrite
  /\ UNCHANGED <<closed, m_caredev, queuevars, hand, caller, loopvars, appvars, epollvars,
                 peervars, accepted, wire, mixed>>

(* Mutant: the event is noted, but the loop is not told. *)
AfterSendSilent ==
  /\ writer = "after"
  /\ writer' = "idle"
  /\ m_caredev' = IF caller = "send" /\ m_outbuf # << >> /\ ~closed
                  THEN m_caredev \cup {EV_WRITE} ELSE m_caredev
  /\ UNCHANGED <<outvars, closed, queuevars, hand, caller, loopvars, appvars, epollvars,
                 peervars, history>>

(* SendDataInLoop after DoSend: AddAndUpdateEvent(EV_WRITE) for what is left. *)
AfterSend ==
  /\ writer = "after"
  /\ writer' = "idle"
  /\ IF caller = "send" /\ m_outbuf # << >> /\ ~closed /\ EV_WRITE \notin m_caredev
     THEN /\ m_caredev' = m_caredev \cup {EV_WRITE}
          /\ m_pendings' = Append(m_pendings, "update")
     ELSE UNCHANGED <<m_caredev, m_pendings>>
  /\ UNCHANGED <<outvars, closed, writetasks, hand, caller, loopvars, appvars, epollvars,
                 peervars, history>>

-----------------------------------------------------------------------------
(* The loop thread.                                                          *)

(* Wait: the events reported replace m_sockev, which the write thread reads. *)
Wait ==
  /\ loop = "wait" /\ disallowing # "loop"
  /\ epready \/ m_pendings # << >>
  /\ loop' = "swap"
  /\ LET evs == IF epready /\ registered # {} THEN Poll \cap (registered \cup {EV_EXCEPTION}) ELSE {}
     IN  /\ reported' = (evs # {})
         /\ m_sockev' = IF evs # {} THEN evs ELSE m_sockev
         /\ mixed' = (mixed \/ /\ EV_READ \in evs
                               /\ EV_WRITE \in evs \/ HandleTask \in Range(writetasks))
  /\ epready' = FALSE
  /\ IF epready THEN AskForRoom ELSE UNCHANGED nospace
  /\ UNCHANGED <<outvars, closed, m_caredev, queuevars, writervars, tmptasks, appvars,
                 registered, peervars, accepted, wire, promised>>

Swap ==
  /\ loop = "swap"
  /\ tmptasks' = m_pendings /\ m_pendings' = << >>
  /\ loop' = "run"
  /\ UNCHANGED <<outvars, closed, m_caredev, writetasks, writervars, reported, m_sockev,
                 appvars, epollvars, peervars, history>>

(* Close in the loop thread. *)
Close ==
  /\ closed' = TRUE /\ m_writeable' = FALSE /\ m_allow_more_send' = FALSE
  /\ m_caredev' = {}
  /\ registered' = {} /\ epready' = FALSE

StayOpen == UNCHANGED <<closed, m_writeable, m_allow_more_send>>

(* SockWaiterBase::UpdateTcpSockInLoop registers the events cared about now. *)
RunUpdate ==
  /\ loop = "run" /\ tmptasks # << >> /\ Head(tmptasks) = "update"
  /\ tmptasks' = Tail(tmptasks)
  /\ IF closed THEN UNCHANGED epollvars ELSE Register(m_caredev)
  /\ UNCHANGED <<outvars, closed, m_caredev, queuevars, writervars, loop, reported,
                 m_sockev, appvars, peervars, history>>

RunAddWrite ==
  /\ loop = "run" /\ tmptasks # << >> /\ Head(tmptasks) = "addwrite"
  /\ tmptasks' = Tail(tmptasks)
  /\ IF closed \/ EV_WRITE \in m_caredev
     THEN UNCHANGED <<m_caredev, epollvars>>
     ELSE m_caredev' = m_caredev \cup {EV_WRITE} /\ Register(m_caredev')
  /\ UNCHANGED <<outvars, closed, queuevars, writervars, loop, reported, m_sockev, appvars,
                 peervars, history>>

RunClose ==
  /\ loop = "run" /\ tmptasks # << >> /\ Head(tmptasks) = "close"
  /\ tmptasks' = Tail(tmptasks)
  /\ IF closed THEN StayOpen /\ UNCHANGED <<m_caredev, registered, epready>> ELSE Close
  /\ UNCHANGED <<m_outbuf, queuevars, writervars, loop, reported, m_sockev, appvars,
                 nospace, peervars, history>>

(* A write event is queued to the write thread first. *)
Dispatch ==
  /\ loop = "run" /\ tmptasks = << >>
  /\ loop' = IF reported THEN "handle" ELSE "wait"
  /\ writetasks' = IF reported /\ EV_WRITE \in m_sockev
                   THEN Append(writetasks, HandleTask) ELSE writetasks
  /\ UNCHANGED <<outvars, closed, m_caredev, m_pendings, writervars, tmptasks, reported,
                 m_sockev, appvars, epollvars, peervars, history>>

(* HandleEvent in the loop thread reads to the end; the end of the peer's
   stream, an error, or an exception that no write event hides, closes. *)
HandleEvent ==
  /\ loop = "handle" /\ disallowing # "loop"
  /\ loop' = "wait"
  /\ input' = (input /\ (closed \/ EV_READ \notin m_sockev))
  /\ IF /\ ~closed
        /\ \/ EV_READ \in m_sockev /\ peer # "open"
           \/ EV_EXCEPTION \in m_sockev /\ ~(EV_WRITE \in m_sockev /\ m_writeable)
     THEN Close
     ELSE StayOpen /\ UNCHANGED <<m_caredev, registered, epready>>
  /\ UNCHANGED <<m_outbuf, queuevars, writervars, tmptasks, reported, m_sockev, appvars,
                 nospace, sndbuf, inputs, peer, history>>

-----------------------------------------------------------------------------
WriteThread ==
  \/ TakeSend \/ Push \/ TakeHandle \/ TakeShutDown
  \/ WriteSome \/ WriteNothing \/ WriteError \/ Emptied \/ OnSend \/ AfterSend

LoopThread ==
  \/ Wait \/ Swap \/ RunUpdate \/ RunAddWrite \/ RunClose \/ Dispatch \/ HandleEvent

Next ==
  \/ Drain \/ PeerActs
  \/ \E d \in Data : SendData(d) \/ SendQueue(d)
  \/ \E t \in {"app", "loop"} : DisAllowSend(t)
  \/ DisAllowTest \/ CloseCall
  \/ WriteThread \/ LoopThread

Spec == Init /\ [][Next]_vars

-----------------------------------------------------------------------------
(* Properties.                                                              *)

(* What SendData accepts is written in that order, without gaps, whatever is *)
(* dropped at the end.                                                       *)
SentInOrder == IsPrefix(wire \o m_outbuf, accepted)

(* DisAllowSend "should wait for the data be sended": whatever was written   *)
(* or buffered when it was first called has been written before the write    *)
(* end is shut down.                                                         *)
BufferedIsFlushed == ~m_writeable /\ ~closed => promised <= Len(wire)

(* Neither thread has anything left to do and epoll nothing to report. *)
Quiet ==
  /\ writer = "idle" /\ writetasks = << >>
  /\ loop = "wait" /\ m_pendings = << >> /\ ~epready
  /\ disallowing = "none"

(* The kernel has room, yet output waits, or the shutdown DisAllowSend asked *)
(* for has not happened, and nobody is going to do anything about it.        *)
Stalled ==
  /\ Quiet /\ ~closed /\ m_writeable /\ sndbuf < SndBuf
  /\ m_outbuf # << >> \/ ~m_allow_more_send

(* The hand-over of write interest between the threads never loses the       *)
(* wake-up, as long as no read is reported with a write event or before the  *)
(* write thread has handled one.                                             *)
OutputGoesOn == ~mixed => ~Stalled

(* TcpSock.h:38: SendData buffers and sends by itself when it can.           *)
NeverStalled == ~Stalled
=============================================================================
