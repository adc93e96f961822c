--------------------------- MODULE TcpSock_proofs ---------------------------
(***************************************************************************)
(* Proofs about a connection.  TcpSock: type correctness, that the write   *)
(* end is not shut down before what was buffered is written, that the two  *)
(* threads never lose the wake-up that goes on with the output, and that   *)
(* output is written in the order accepted.  FastBuffer: that it is the    *)
(* sequence it stands for.  MsgStream, with Wire: that every message is    *)
(* decoded as it was packed, in order, and that no byte is lost.           *)
(***************************************************************************)
EXTENDS TcpSock, MsgStream, SequenceTheorems, WellFoundedInduction, TLAPS

-----------------------------------------------------------------------------
(* Queues.                                                                   *)

Has(q, x) == \E i \in 1..Len(q) : q[i] = x

(* What is in a queue after something is added to it.                        *)
LEMMA HasAppend ==
  ASSUME NEW S, NEW q \in Seq(S), NEW e \in S, NEW x
  PROVE  /\ Append(q, e) \in Seq(S)
         /\ Has(Append(q, e), x) <=> Has(q, x) \/ x = e
<1>1. /\ Append(q, e) \in Seq(S) /\ Len(Append(q, e)) = Len(q) + 1 /\ Len(q) \in Nat
      /\ \A i \in 1..Len(q) : Append(q, e)[i] = q[i]
      /\ Append(q, e)[Len(q) + 1] = e
  OBVIOUS
<1>2. ASSUME Has(q, x) \/ x = e PROVE Has(Append(q, e), x)
  <2>1. CASE x = e
    BY <1>1, <2>1 DEF Has
  <2>2. CASE Has(q, x)
    <3>1. PICK i \in 1..Len(q) : q[i] = x
      BY <2>2 DEF Has
    <3> QED BY <1>1, <3>1 DEF Has
  <2> QED BY <1>2, <2>1, <2>2
<1>3. ASSUME Has(Append(q, e), x) PROVE Has(q, x) \/ x = e
  <2>1. PICK i \in 1..(Len(q) + 1) : Append(q, e)[i] = x
    BY <1>1, <1>3 DEF Has
  <2>2. CASE i = Len(q) + 1
    BY <1>1, <2>1, <2>2
  <2>3. CASE i # Len(q) + 1
    <3>1. i \in 1..Len(q)
      BY <1>1, <2>3
    <3> QED BY <1>1, <2>1, <3>1 DEF Has
  <2> QED BY <2>2, <2>3
<1> QED BY <1>1, <1>2, <1>3

(* What is in a queue after its head is taken.                               *)
LEMMA HasTail ==
  ASSUME NEW S, NEW q \in Seq(S), q # << >>, NEW x
  PROVE  /\ Head(q) \in S /\ Tail(q) \in Seq(S)
         /\ Has(Tail(q), x) => Has(q, x)
         /\ Has(q, x) => x = Head(q) \/ Has(Tail(q), x)
<1>1. /\ Len(q) \in Nat \ {0} /\ Tail(q) \in Seq(S) /\ Len(Tail(q)) = Len(q) - 1
      /\ \A i \in 1..Len(q) - 1 : Tail(q)[i] = q[i + 1]
      /\ Head(q) = q[1] /\ Head(q) \in S
  OBVIOUS
<1>2. ASSUME Has(Tail(q), x) PROVE Has(q, x)
  <2>1. PICK i \in 1..Len(q) - 1 : Tail(q)[i] = x
    BY <1>1, <1>2 DEF Has
  <2>2. i + 1 \in 1..Len(q) /\ q[i + 1] = x
    BY <1>1, <2>1
  <2> QED BY <2>2 DEF Has
<1>3. ASSUME Has(q, x), x # Head(q) PROVE Has(Tail(q), x)
  <2>1. PICK i \in 1..Len(q) : q[i] = x
    BY <1>3 DEF Has
  <2>2. i - 1 \in 1..Len(q) - 1 /\ Tail(q)[i - 1] = x
    BY <1>1, <1>3, <2>1
  <2> QED BY <1>1, <2>2 DEF Has
<1> QED BY <1>1, <1>2, <1>3

(* Being in a queue is being in its range.                                   *)
LEMMA HasRange ==
  ASSUME NEW S, NEW q \in Seq(S), NEW x
  PROVE  x \in Range(q) <=> Has(q, x)
BY DEF Range, Has

(* An empty queue holds nothing.                                             *)
LEMMA HasEmpty == ASSUME NEW x PROVE ~Has(<< >>, x)
BY DEF Has

(* The smaller of two integers.                                              *)
LEMMA MinOfTwo ==
  ASSUME NEW a \in Int, NEW b \in Int
  PROVE  Min({a, b}) = IF a <= b THEN a ELSE b
<1>1. CASE a <= b
  BY <1>1 DEF Min
<1>2. CASE ~(a <= b)
  BY <1>2 DEF Min
<1> QED BY <1>1, <1>2

-----------------------------------------------------------------------------
(* Types.                                                                    *)

(* Every step keeps the types.                                               *)
LEMMA TypeStep == TypeOK /\ [Next]_vars => TypeOK'
<1> SUFFICES ASSUME TypeOK, [Next]_vars PROVE TypeOK'
  OBVIOUS
<1> USE TcpSockAssumption
<1> USE DEF TypeOK, outvars, queuevars, writervars, loopvars, appvars, epollvars, peervars, history
<1>1. CASE Drain
  <2>1. EventType'
    BY <1>1 DEF Drain, EventType
  <2>2. PeerType'
    BY <1>1 DEF Drain, PeerType
  <2>3. OutType' /\ QueueType' /\ ThreadType' /\ HistoryType'
    BY <1>1 DEF Drain, OutType, QueueType, ThreadType, HistoryType
  <2> QED BY <2>1, <2>2, <2>3
<1>2. CASE PeerActs
  <2>1. EventType'
    BY <1>2 DEF PeerActs, EventType
  <2>2. PeerType'
    <3>1. CASE peer' \in {"fin", "reset"} /\ UNCHANGED <<input, inputs>>
      BY <1>2, <3>1 DEF PeerActs, PeerType
    <3>2. CASE inputs < MaxInput /\ input' = TRUE /\ inputs' = inputs + 1 /\ UNCHANGED peer
      BY <1>2, <3>2 DEF PeerActs, PeerType
    <3> QED BY <1>2, <3>1, <3>2 DEF PeerActs
  <2>3. OutType' /\ QueueType' /\ ThreadType' /\ HistoryType'
    BY <1>2 DEF PeerActs, OutType, QueueType, ThreadType, HistoryType
  <2> QED BY <2>1, <2>2, <2>3
<1>3. ASSUME NEW d \in Data, SendData(d) PROVE TypeOK'
  <2>1. ThreadType'
    BY <1>3 DEF SendData, ThreadType
  <2>2. OutType' /\ EventType' /\ QueueType' /\ PeerType' /\ HistoryType'
    BY <1>3 DEF SendData, OutType, EventType, QueueType, PeerType, HistoryType
  <2> QED BY <2>1, <2>2
<1>4. ASSUME NEW d \in Data, SendQueue(d) PROVE TypeOK'
  <2>1. ThreadType'
    BY <1>4 DEF SendQueue, ThreadType, SendTask, WriteTask
  <2>2. HistoryType'
    BY <1>4 DEF SendQueue, HistoryType, SendTask, WriteTask
  <2>3. QueueType'
    BY <1>4 DEF SendQueue, QueueType, SendTask, WriteTask
  <2>4. OutType' /\ EventType' /\ PeerType'
    BY <1>4 DEF SendQueue, OutType, EventType, PeerType
  <2> QED BY <2>1, <2>2, <2>3, <2>4
<1>5. ASSUME NEW t \in {"app", "loop"}, DisAllowSend(t) PROVE TypeOK'
  <2>1. ThreadType'
    BY <1>5 DEF DisAllowSend, ThreadType
  <2>2. OutType'
    BY <1>5 DEF DisAllowSend, OutType
  <2>3. HistoryType'
    BY <1>5 DEF DisAllowSend, HistoryType
  <2>4. EventType' /\ QueueType' /\ PeerType'
    BY <1>5 DEF DisAllowSend, EventType, QueueType, PeerType
  <2> QED BY <2>1, <2>2, <2>3, <2>4
<1>6. CASE DisAllowTest
  <2>1. ThreadType'
    BY <1>6 DEF DisAllowTest, ThreadType, ShutDownTask, WriteTask, LoopTask, Register, AskForRoom, Events, EV_WRITE
  <2>2. EventType'
    BY <1>6 DEF DisAllowTest, EventType, ShutDownTask, WriteTask, LoopTask, Register, AskForRoom, Events, EV_WRITE
  <2>3. QueueType'
    <3>1. ShutDownTask \in WriteTask /\ "addwrite" \in LoopTask
      BY DEF ShutDownTask, WriteTask, LoopTask
    <3>2. Append(writetasks, ShutDownTask) \in Seq(WriteTask) /\ Append(m_pendings, "addwrite") \in Seq(LoopTask)
      BY <3>1 DEF QueueType
    <3>3. m_pendings' \in Seq(LoopTask) /\ tmptasks' \in Seq(LoopTask)
      BY <1>6, <3>2 DEF DisAllowTest, QueueType
    <3>4. writetasks' \in Seq(WriteTask)
      BY <1>6, <3>2 DEF DisAllowTest, QueueType
    <3> QED BY <3>3, <3>4 DEF QueueType
  <2>4. OutType' /\ PeerType' /\ HistoryType'
    BY <1>6 DEF DisAllowTest, OutType, PeerType, HistoryType
  <2> QED BY <2>1, <2>2, <2>3, <2>4
<1>7. CASE CloseCall
  <2>1. QueueType'
    BY <1>7 DEF CloseCall, QueueType, LoopTask
  <2>2. OutType' /\ EventType' /\ ThreadType' /\ PeerType' /\ HistoryType'
    BY <1>7 DEF CloseCall, OutType, EventType, ThreadType, PeerType, HistoryType
  <2> QED BY <2>1, <2>2
<1>8. CASE TakeSend
  <2>3. Head(writetasks) \in WriteTask
    BY <1>8 DEF TakeSend, QueueType
  <2>4. Head(writetasks).op = "send" => Head(writetasks).data \in Data
    BY <2>3 DEF WriteTask
  <2>1. QueueType'
    BY <1>8 DEF TakeSend, QueueType
  <2>2. ThreadType'
    BY <1>8, <2>3, <2>4 DEF TakeSend, ThreadType
  <2>5. OutType' /\ EventType' /\ PeerType' /\ HistoryType'
    BY <1>8 DEF TakeSend, OutType, EventType, PeerType, HistoryType
  <2> QED BY <2>1, <2>2, <2>5
<1>9. CASE Push
  <2>1. OutType'
    BY <1>9 DEF Push, OutType, ThreadType
  <2>2. ThreadType'
    BY <1>9 DEF Push, ThreadType
  <2>3. EventType' /\ QueueType' /\ PeerType' /\ HistoryType'
    BY <1>9 DEF Push, EventType, QueueType, PeerType, HistoryType
  <2> QED BY <2>1, <2>2, <2>3
<1>10. CASE TakeHandle
  <2>1. QueueType'
    BY <1>10 DEF TakeHandle, QueueType
  <2>2. ThreadType'
    BY <1>10 DEF TakeHandle, ThreadType
  <2>3. OutType' /\ EventType' /\ PeerType' /\ HistoryType'
    BY <1>10 DEF TakeHandle, OutType, EventType, PeerType, HistoryType
  <2> QED BY <2>1, <2>2, <2>3
<1>11. CASE TakeShutDown
  <2>1. QueueType'
    BY <1>11 DEF TakeShutDown, QueueType, ShutDownWrite
  <2>2. OutType'
    <3>1. m_outbuf' \in Seq(Data)
      <4>1. m_outbuf' = m_outbuf \/ m_outbuf' = << >>
        BY <1>11 DEF TakeShutDown, ShutDownWrite
      <4>2. << >> \in Seq(Data)
        OBVIOUS
      <4> QED BY <4>1, <4>2 DEF OutType
    <3>2. m_writeable' \in BOOLEAN
      BY <1>11 DEF TakeShutDown, OutType, ShutDownWrite
    <3>3. m_allow_more_send' \in BOOLEAN /\ closed' \in BOOLEAN
      BY <1>11 DEF TakeShutDown, OutType
    <3> QED BY <3>1, <3>2, <3>3 DEF OutType
  <2>3. EventType' /\ ThreadType' /\ PeerType' /\ HistoryType'
    BY <1>11 DEF TakeShutDown, EventType, ThreadType, PeerType, HistoryType
  <2> QED BY <2>1, <2>2, <2>3
<1>12. CASE WriteSome
  <2> DEFINE n == Min({Len(m_outbuf), SndBuf - sndbuf})
  <2>1. n \in 1..Len(m_outbuf) /\ n <= SndBuf - sndbuf
    <3>1. Len(m_outbuf) \in Nat \ {0} /\ SndBuf - sndbuf \in Nat \ {0}
      BY <1>12 DEF WriteSome, OutType, PeerType
    <3>2. n = IF Len(m_outbuf) <= SndBuf - sndbuf THEN Len(m_outbuf) ELSE SndBuf - sndbuf
      BY <3>1, MinOfTwo
    <3> HIDE DEF n
    <3> QED BY <3>1, <3>2
  <2>2. OutType'
    <3>1. m_outbuf' = SubSeq(m_outbuf, n + 1, Len(m_outbuf))
      BY <1>12 DEF WriteSome
    <3> HIDE DEF n
    <3>2. m_outbuf' \in Seq(Data)
      BY <2>1, <3>1 DEF OutType
    <3> QED BY <1>12, <3>2 DEF WriteSome, OutType
  <2>3. PeerType'
    BY <1>12, <2>1 DEF WriteSome, PeerType
  <2>4. HistoryType'
    <3>1. wire' = wire \o SubSeq(m_outbuf, 1, n)
      BY <1>12 DEF WriteSome
    <3> HIDE DEF n
    <3>2. SubSeq(m_outbuf, 1, n) \in Seq(Data)
      BY <2>1 DEF OutType
    <3>3. wire' \in Seq(Data)
      BY <3>1, <3>2 DEF HistoryType
    <3> QED BY <1>12, <3>3 DEF WriteSome, HistoryType
  <2>5. ThreadType'
    BY <1>12 DEF WriteSome, ThreadType
  <2>6. EventType' /\ QueueType'
    BY <1>12 DEF WriteSome, EventType, QueueType
  <2> QED BY <2>2, <2>3, <2>4, <2>5, <2>6
<1>13. CASE WriteNothing
  <2>1. EventType'
    BY <1>13 DEF WriteNothing, EventType
  <2>2. ThreadType'
    BY <1>13 DEF WriteNothing, ThreadType
  <2>3. OutType' /\ QueueType' /\ PeerType' /\ HistoryType'
    BY <1>13 DEF WriteNothing, OutType, QueueType, PeerType, HistoryType
  <2> QED BY <2>1, <2>2, <2>3
<1>14. CASE WriteError
  <2>1. QueueType'
    BY <1>14 DEF WriteError, QueueType, LoopTask
  <2>2. ThreadType'
    BY <1>14 DEF WriteError, ThreadType, LoopTask
  <2>3. OutType' /\ EventType' /\ PeerType' /\ HistoryType'
    BY <1>14 DEF WriteError, OutType, EventType, PeerType, HistoryType
  <2> QED BY <2>1, <2>2, <2>3
<1>15. CASE Emptied
  <2>1. QueueType'
    BY <1>15 DEF Emptied, QueueType, LoopTask
  <2>2. ThreadType'
    BY <1>15 DEF Emptied, ThreadType, LoopTask
  <2>3. EventType'
    BY <1>15 DEF Emptied, EventType, LoopTask
  <2>4. OutType' /\ PeerType' /\ HistoryType'
    BY <1>15 DEF Emptied, OutType, PeerType, HistoryType
  <2> QED BY <2>1, <2>2, <2>3, <2>4
<1>16. CASE OnSend
  <2>1. OutType'
    <3>1. m_writeable' \in BOOLEAN
      BY <1>16 DEF OnSend, OutType, ShutDownWrite
    <3>2. m_allow_more_send' \in BOOLEAN /\ closed' \in BOOLEAN
      BY <1>16 DEF OnSend, OutType
    <3>3. m_outbuf' \in Seq(Data)
      <4>1. m_outbuf' = m_outbuf \/ m_outbuf' = << >>
        BY <1>16 DEF OnSend, ShutDownWrite
      <4>2. << >> \in Seq(Data)
        OBVIOUS
      <4> QED BY <4>1, <4>2 DEF OutType
    <3> QED BY <3>1, <3>2, <3>3 DEF OutType
  <2>2. ThreadType'
    BY <1>16 DEF OnSend, ThreadType, ShutDownWrite
  <2>3. HistoryType'
    BY <1>16 DEF OnSend, HistoryType, ShutDownWrite
  <2>4. EventType' /\ QueueType' /\ PeerType'
    BY <1>16 DEF OnSend, EventType, QueueType, PeerType
  <2> QED BY <2>1, <2>2, <2>3, <2>4
<1>17. CASE AfterSend
  <2>1. QueueType'
    BY <1>17 DEF AfterSend, QueueType, LoopTask, Events, EV_WRITE
  <2>2. ThreadType'
    BY <1>17 DEF AfterSend, ThreadType, LoopTask, Events, EV_WRITE
  <2>3. EventType'
    BY <1>17 DEF AfterSend, EventType, LoopTask, Events, EV_WRITE
  <2>4. OutType' /\ PeerType' /\ HistoryType'
    BY <1>17 DEF AfterSend, OutType, PeerType, HistoryType
  <2> QED BY <2>1, <2>2, <2>3, <2>4
<1>18. CASE Wait
  <2>1. EventType'
    BY <1>18 DEF Wait, EventType, AskForRoom, Poll
  <2>2. ThreadType'
    BY <1>18 DEF Wait, ThreadType, AskForRoom, Poll
  <2>3. HistoryType'
    BY <1>18 DEF Wait, HistoryType, AskForRoom, Poll
  <2>4. OutType' /\ QueueType' /\ PeerType'
    BY <1>18 DEF Wait, OutType, QueueType, PeerType
  <2> QED BY <2>1, <2>2, <2>3, <2>4
<1>19. CASE Swap
  <2>1. QueueType'
    BY <1>19 DEF Swap, QueueType
  <2>2. ThreadType'
    BY <1>19 DEF Swap, ThreadType
  <2>3. OutType' /\ EventType' /\ PeerType' /\ HistoryType'
    BY <1>19 DEF Swap, OutType, EventType, PeerType, HistoryType
  <2> QED BY <2>1, <2>2, <2>3
<1>20. CASE RunUpdate
  <2>1. QueueType'
    BY <1>20 DEF RunUpdate, QueueType, Register, AskForRoom
  <2>2. EventType'
    BY <1>20 DEF RunUpdate, EventType, Register, AskForRoom
  <2>3. OutType' /\ ThreadType' /\ PeerType' /\ HistoryType'
    BY <1>20 DEF RunUpdate, OutType, ThreadType, PeerType, HistoryType
  <2> QED BY <2>1, <2>2, <2>3
<1>21. CASE RunAddWrite
  <2>1. QueueType'
    BY <1>21 DEF RunAddWrite, QueueType, Register, AskForRoom, Events, EV_WRITE
  <2>2. EventType'
    BY <1>21 DEF RunAddWrite, EventType, Register, AskForRoom, Events, EV_WRITE
  <2>3. OutType' /\ ThreadType' /\ PeerType' /\ HistoryType'
    BY <1>21 DEF RunAddWrite, OutType, ThreadType, PeerType, HistoryType
  <2> QED BY <2>1, <2>2, <2>3
<1>22. CASE RunClose
  <2>1. QueueType'
    BY <1>22 DEF RunClose, QueueType, StayOpen, Close
  <2>2. EventType'
    BY <1>22 DEF RunClose, EventType, StayOpen, Close
  <2>3. OutType'
    BY <1>22 DEF RunClose, OutType, StayOpen, Close
  <2>4. ThreadType' /\ PeerType' /\ HistoryType'
    BY <1>22 DEF RunClose, ThreadType, PeerType, HistoryType
  <2> QED BY <2>1, <2>2, <2>3, <2>4
<1>23. CASE Dispatch
  <2>1. QueueType'
    BY <1>23 DEF Dispatch, QueueType, HandleTask, WriteTask
  <2>2. ThreadType'
    BY <1>23 DEF Dispatch, ThreadType, HandleTask, WriteTask
  <2>3. OutType' /\ EventType' /\ PeerType' /\ HistoryType'
    BY <1>23 DEF Dispatch, OutType, EventType, PeerType, HistoryType
  <2> QED BY <2>1, <2>2, <2>3
<1>24. CASE HandleEvent
  <2>1. EventType'
    BY <1>24 DEF HandleEvent, EventType, StayOpen, Close
  <2>2. OutType'
    BY <1>24 DEF HandleEvent, OutType, StayOpen, Close
  <2>3. PeerType'
    BY <1>24 DEF HandleEvent, PeerType, StayOpen, Close
  <2>4. ThreadType'
    BY <1>24 DEF HandleEvent, ThreadType, StayOpen, Close
  <2>5. QueueType' /\ HistoryType'
    BY <1>24 DEF HandleEvent, QueueType, HistoryType
  <2> QED BY <2>1, <2>2, <2>3, <2>4, <2>5
<1>25. CASE UNCHANGED vars
  BY <1>25 DEF vars, OutType, EventType, QueueType, ThreadType, PeerType, HistoryType
<1> QED BY <1>1, <1>2, <1>3, <1>4, <1>5, <1>6, <1>7, <1>8, <1>9, <1>10, <1>11, <1>12, <1>13,
           <1>14, <1>15, <1>16, <1>17, <1>18, <1>19, <1>20, <1>21, <1>22, <1>23, <1>24, <1>25
        DEF Next, WriteThread, LoopThread

(* The types hold initially.                                                 *)
LEMMA TypeInit == Init => TypeOK
<1> SUFFICES ASSUME Init PROVE TypeOK
  OBVIOUS
<1>1. << >> \in Seq(Data) /\ << >> \in Seq(WriteTask) /\ << >> \in Seq(LoopTask)
  OBVIOUS
<1>4. OutType
  BY <1>1 DEF Init, OutType
<1>5. QueueType
  BY <1>1 DEF Init, QueueType
<1>6. HistoryType
  BY <1>1 DEF Init, HistoryType
<1>2. EventType
  BY DEF Init, EventType, Events
<1>3. ThreadType
  BY TcpSockAssumption DEF Init, ThreadType
<1>7. PeerType
  <2>1. sndbuf \in 0..SndBuf /\ inputs \in 0..MaxInput
    BY TcpSockAssumption DEF Init
  <2>2. input \in BOOLEAN /\ peer \in {"open", "fin", "reset"}
    BY DEF Init
  <2> QED BY <2>1, <2>2 DEF PeerType
<1> QED BY <1>2, <1>3, <1>4, <1>5, <1>6, <1>7 DEF TypeOK

(* Every variable keeps its type.                                            *)
THEOREM TypeCorrect == Spec => []TypeOK
BY TypeInit, TypeStep, PTL DEF Spec

-----------------------------------------------------------------------------
(* What was buffered when DisAllowSend was called.                           *)

(* A shutdown is only asked for once more sending is disallowed.             *)
Asked ==
  /\ m_allow_more_send => m_writeable /\ ~Has(writetasks, ShutDownTask)
  /\ disallowing # "none" => ~m_allow_more_send

(* The promise is in the buffer or written; written, when nothing is left to *)
(* wait for.                                                                 *)
Promise ==
  ~closed => /\ promised <= Len(wire) + Len(m_outbuf)
             /\ Has(writetasks, ShutDownTask) => promised <= Len(wire)

EmptyWhenEmptied == writer \in {"emptied", "onsend"} => m_outbuf = << >>

FlushInv == TypeOK /\ Asked /\ Promise /\ EmptyWhenEmptied /\ BufferedIsFlushed

(* Steps that touch neither the buffer nor its promise.                      *)
LEMMA FlushFrame ==
  ASSUME FlushInv,
         UNCHANGED <<outvars, closed, writetasks, writer, disallowing, wire, promised>>
  PROVE  Asked' /\ Promise' /\ EmptyWhenEmptied' /\ BufferedIsFlushed'
BY DEF FlushInv, Asked, Promise, EmptyWhenEmptied, BufferedIsFlushed, outvars, Has

(* A task other than a shutdown is queued or taken.                          *)
LEMMA FlushTasks ==
  ASSUME FlushInv, Has(writetasks, ShutDownTask)' => Has(writetasks, ShutDownTask),
         UNCHANGED <<outvars, closed, disallowing, wire, promised>>,
         writer' \in {"emptied", "onsend"} => writer \in {"emptied", "onsend"}
  PROVE  Asked' /\ Promise' /\ EmptyWhenEmptied' /\ BufferedIsFlushed'
<1> USE DEF FlushInv, outvars
<1>1. Asked' /\ EmptyWhenEmptied' /\ BufferedIsFlushed'
  BY DEF Asked, EmptyWhenEmptied, BufferedIsFlushed
<1>2. Promise'
  BY DEF Promise
<1> QED BY <1>1, <1>2

(* Every step keeps what was buffered at DisAllowSend.                       *)
LEMMA FlushStep == FlushInv /\ [Next]_vars => FlushInv'
<1> SUFFICES ASSUME FlushInv, [Next]_vars
             PROVE  Asked' /\ Promise' /\ EmptyWhenEmptied' /\ BufferedIsFlushed'
  BY TypeStep DEF FlushInv
<1> USE DEF outvars, queuevars, writervars, loopvars, appvars, epollvars, peervars, history
<1>0. /\ TypeOK /\ OutType /\ QueueType /\ Asked /\ Promise /\ EmptyWhenEmptied /\ BufferedIsFlushed
      /\ Len(wire) \in Nat /\ Len(m_outbuf) \in Nat /\ promised \in Nat
      /\ ShutDownTask # HandleTask /\ HandleTask \in WriteTask /\ ShutDownTask \in WriteTask
  BY DEF FlushInv, TypeOK, OutType, HistoryType, ShutDownTask, HandleTask, WriteTask
<1>1. CASE Drain \/ PeerActs \/ CloseCall \/ Wait \/ Swap \/ RunUpdate \/ RunAddWrite
  BY <1>1, FlushFrame DEF Drain, PeerActs, CloseCall, Wait, Swap, RunUpdate, RunAddWrite
<1>2. ASSUME NEW d \in Data, SendData(d) PROVE Asked' /\ Promise' /\ EmptyWhenEmptied' /\ BufferedIsFlushed'
  BY <1>2, FlushFrame DEF SendData
<1>3. ASSUME NEW d \in Data, SendQueue(d) PROVE Asked' /\ Promise' /\ EmptyWhenEmptied' /\ BufferedIsFlushed'
  <2>1. SendTask(d) \in WriteTask /\ SendTask(d) # ShutDownTask
    BY DEF SendTask, ShutDownTask, WriteTask
  <2>2. Has(writetasks, ShutDownTask)' => Has(writetasks, ShutDownTask)
    BY <1>0, <1>3, <2>1, HasAppend DEF SendQueue, QueueType
  <2> QED BY <1>3, <2>2, FlushTasks DEF SendQueue
<1>4. ASSUME NEW t \in {"app", "loop"}, DisAllowSend(t)
      PROVE  Asked' /\ Promise' /\ EmptyWhenEmptied' /\ BufferedIsFlushed'
  <2>1. Asked' /\ EmptyWhenEmptied'
    BY <1>0, <1>4 DEF DisAllowSend, Asked, EmptyWhenEmptied
  <2>2. CASE m_allow_more_send
    BY <1>0, <1>4, <2>1, <2>2 DEF DisAllowSend, Asked, Promise, BufferedIsFlushed, Has
  <2>3. CASE ~m_allow_more_send
    BY <1>0, <1>4, <2>1, <2>3 DEF DisAllowSend, Promise, BufferedIsFlushed, Has
  <2> QED BY <2>2, <2>3
<1>5. CASE DisAllowTest
  <2>1. CASE UNCHANGED writetasks
    BY <1>0, <1>5, <2>1 DEF DisAllowTest, Asked, Promise, EmptyWhenEmptied, BufferedIsFlushed, Has
  <2>2. CASE ~closed /\ m_outbuf = << >> /\ writetasks' = Append(writetasks, ShutDownTask)
    <3>1. promised <= Len(wire)
      BY <1>0, <2>2 DEF Promise
    <3>2. Promise'
      BY <1>0, <1>5, <2>2, <3>1 DEF DisAllowTest, Promise
    <3>3. Asked'
      BY <1>0, <1>5 DEF DisAllowTest, Asked
    <3> QED BY <1>0, <1>5, <3>2, <3>3 DEF DisAllowTest, EmptyWhenEmptied, BufferedIsFlushed
  <2> QED BY <1>5, <2>1, <2>2 DEF DisAllowTest
<1>6. CASE TakeSend \/ TakeHandle
  <2>1. Has(writetasks, ShutDownTask)' => Has(writetasks, ShutDownTask)
    BY <1>0, <1>6, HasTail DEF TakeSend, TakeHandle, QueueType
  <2> QED BY <1>6, <2>1, FlushTasks DEF TakeSend, TakeHandle
<1>7. CASE Push
  <2>1. Len(m_outbuf') = Len(m_outbuf) + 1
    BY <1>0, <1>7 DEF Push, OutType
  <2> QED BY <1>0, <1>7, <2>1 DEF Push, Asked, Promise, EmptyWhenEmptied, BufferedIsFlushed, Has
<1>8. CASE TakeShutDown
  <2>1. Has(writetasks, ShutDownTask)
    <3>1. Head(writetasks) \in WriteTask /\ Head(writetasks).op = "shutdown"
      BY <1>0, <1>8 DEF TakeShutDown, QueueType
    <3>2. Head(writetasks) = ShutDownTask
      BY <3>1 DEF WriteTask, ShutDownTask
    <3> QED BY <1>0, <1>8, <3>2 DEF TakeShutDown, QueueType, Has
  <2>2. Has(writetasks, ShutDownTask)' => Has(writetasks, ShutDownTask)
    BY <1>0, <1>8, HasTail DEF TakeShutDown, QueueType
  <2>3. CASE closed
    BY <1>8, <2>2, <2>3, FlushTasks DEF TakeShutDown, ShutDownWrite
  <2>4. CASE ~closed
    <3>1. promised <= Len(wire) /\ ~m_allow_more_send
      BY <1>0, <2>1, <2>4 DEF Asked, Promise
    <3>2. Asked' /\ EmptyWhenEmptied' /\ BufferedIsFlushed'
      BY <1>0, <1>8, <2>4, <3>1 DEF TakeShutDown, ShutDownWrite, Asked, EmptyWhenEmptied, BufferedIsFlushed
    <3>3. m_outbuf' = << >> /\ UNCHANGED <<closed, wire, promised>>
      BY <1>8, <2>4 DEF TakeShutDown, ShutDownWrite
    <3>4. Promise'
      BY <1>0, <3>1, <3>3 DEF Promise
    <3> QED BY <3>2, <3>4
  <2> QED BY <2>3, <2>4
<1>9. CASE WriteSome
  <2> DEFINE n == Min({Len(m_outbuf), SndBuf - sndbuf})
  <2>1. n \in 1..Len(m_outbuf)
    <3>1. Len(m_outbuf) \in Nat \ {0} /\ SndBuf - sndbuf \in Nat \ {0}
      BY <1>0, <1>9, TcpSockAssumption DEF WriteSome, TypeOK, OutType, PeerType
    <3>2. n = IF Len(m_outbuf) <= SndBuf - sndbuf THEN Len(m_outbuf) ELSE SndBuf - sndbuf
      BY <3>1, MinOfTwo
    <3> HIDE DEF n
    <3> QED BY <3>1, <3>2
  <2>2. /\ wire' = wire \o SubSeq(m_outbuf, 1, n)
        /\ m_outbuf' = SubSeq(m_outbuf, n + 1, Len(m_outbuf))
        /\ writer' = IF n = Len(m_outbuf) THEN "emptied" ELSE "write"
    BY <1>9 DEF WriteSome
  <2> HIDE DEF n
  <2>3. Len(m_outbuf') = Len(m_outbuf) - n
    BY <1>0, <2>1, <2>2 DEF OutType
  <2>4. Len(wire') = Len(wire) + n
    <3>1. SubSeq(m_outbuf, 1, n) \in Seq(Data) /\ Len(SubSeq(m_outbuf, 1, n)) = n
      BY <1>0, <2>1 DEF OutType
    <3> QED BY <1>0, <2>2, <3>1 DEF TypeOK, HistoryType
  <2>5. UNCHANGED <<closed, promised, writetasks, m_writeable, m_allow_more_send, disallowing>>
    BY <1>9 DEF WriteSome
  <2>6. Promise'
    BY <1>0, <2>1, <2>3, <2>4, <2>5 DEF Promise
  <2>7. Asked' /\ BufferedIsFlushed'
    BY <1>0, <2>1, <2>4, <2>5 DEF Asked, BufferedIsFlushed
  <2>8. EmptyWhenEmptied'
    <3>1. CASE n = Len(m_outbuf)
      BY <1>0, <2>2, <3>1 DEF EmptyWhenEmptied, OutType
    <3>2. CASE n # Len(m_outbuf)
      BY <2>2, <3>2 DEF EmptyWhenEmptied
    <3> QED BY <3>1, <3>2
  <2> QED BY <2>6, <2>7, <2>8
<1>10. CASE WriteNothing \/ WriteError \/ Emptied \/ AfterSend
  <2>1. writer' \in {"emptied", "onsend"} => writer \in {"emptied", "onsend"}
    BY <1>10 DEF WriteNothing, WriteError, Emptied, AfterSend
  <2>2. UNCHANGED <<outvars, closed, disallowing, wire, promised, writetasks>>
    BY <1>10 DEF WriteNothing, WriteError, Emptied, AfterSend
  <2>3. Has(writetasks, ShutDownTask)' => Has(writetasks, ShutDownTask)
    BY <2>2
  <2> QED BY <2>1, <2>2, <2>3, FlushTasks
<1>11. CASE OnSend
  <2>1. m_outbuf = << >> /\ m_outbuf' = << >> /\ writer' \in {"write", "idle"}
    BY <1>0, <1>11 DEF OnSend, ShutDownWrite, EmptyWhenEmptied
  <2>2. UNCHANGED <<closed, writetasks, wire, disallowing>>
    BY <1>11 DEF OnSend
  <2>3. promised' = promised \/ promised' = Len(wire)
    BY <1>11 DEF OnSend
  <2>4. ~closed => promised <= Len(wire)
    BY <1>0, <2>1 DEF Promise
  <2>5. Promise' /\ EmptyWhenEmptied' /\ BufferedIsFlushed'
    BY <1>0, <2>1, <2>2, <2>3, <2>4 DEF Promise, EmptyWhenEmptied, BufferedIsFlushed
  <2>6. Asked'
    BY <1>0, <1>11, <2>2 DEF OnSend, Asked, TypeOK, OutType
  <2> QED BY <2>5, <2>6
<1>12. CASE RunClose \/ HandleEvent
  <2>1. UNCHANGED <<m_outbuf, writetasks, writer, disallowing, wire, promised>>
    BY <1>12 DEF RunClose, HandleEvent
  <2>2. CASE UNCHANGED <<closed, m_writeable, m_allow_more_send>>
    BY <2>1, <2>2, FlushFrame
  <2>3. CASE closed' /\ ~m_allow_more_send'
    BY <1>0, <2>1, <2>3 DEF Asked, Promise, EmptyWhenEmptied, BufferedIsFlushed
  <2> QED BY <1>12, <2>2, <2>3 DEF RunClose, HandleEvent, Close, StayOpen
<1>13. CASE Dispatch
  <2>1. Has(writetasks, ShutDownTask)' => Has(writetasks, ShutDownTask)
    BY <1>0, <1>13, HasAppend DEF Dispatch, QueueType
  <2> QED BY <1>13, <2>1, FlushTasks DEF Dispatch
<1>14. CASE UNCHANGED vars
  BY <1>14, FlushFrame DEF vars
<1> QED BY <1>1, <1>2, <1>3, <1>4, <1>5, <1>6, <1>7, <1>8, <1>9, <1>10, <1>11, <1>12, <1>13, <1>14
        DEF Next, WriteThread, LoopThread

(* DisAllowSend waits: what had been buffered when it was first called has   *)
(* been written when the write end is shut down.                             *)
THEOREM BufferedIsFlushedCorrect == Spec => []BufferedIsFlushed
<1>1. Init => FlushInv
  BY TypeInit, HasEmpty DEF Init, FlushInv, Asked, Promise, EmptyWhenEmptied, BufferedIsFlushed
<1>2. FlushInv => BufferedIsFlushed
  BY DEF FlushInv
<1> QED BY <1>1, <1>2, FlushStep, PTL DEF Spec

-----------------------------------------------------------------------------
(* The wake-up for waiting output.                                           *)

(* UpdateTcpSock is queued to the loop. *)
UpdateQueued == Has(m_pendings, "update") \/ Has(tmptasks, "update")

(* A write event has been reported and not yet passed on. *)
WriteReported == loop \in {"swap", "run"} /\ reported /\ EV_WRITE \in m_sockev

Wake ==
  \/ UpdateQueued
  \/ /\ EV_WRITE \in registered
     /\ \/ nospace /\ sndbuf = SndBuf
        \/ epready
        \/ WriteReported
        \/ Has(writetasks, HandleTask)

CanWrite == ~closed /\ m_writeable /\ peer = "open"

(* The loop runs tasks in one place, SendDataInLoop pushes in one place. *)
Places ==
  /\ loop # "run" => tmptasks = << >>
  /\ writer = "push" => caller = "send"
  /\ ~closed => EV_READ \in m_caredev
  /\ IF closed THEN registered = {} ELSE EV_READ \in registered

(* Interest in writing is registered, or about to be. *)
CaredIsRegistered ==
  ~closed /\ EV_WRITE \in m_caredev => EV_WRITE \in registered \/ UpdateQueued

(* Whoever leaves output behind has declared the interest. *)
OutputIsCaredFor ==
  /\ CanWrite /\ m_outbuf # << >>
  /\ writer \in {"idle", "push"} \/ (writer \in {"write", "after"} /\ caller = "handle")
  => EV_WRITE \in m_caredev

(* The events the write thread is going to find are those it was sent for. *)
EventsAreForWriter ==
  ~mixed /\ (WriteReported \/ Has(writetasks, HandleTask))
    => EV_WRITE \in m_sockev /\ EV_READ \notin m_sockev

OutputHasWake ==
  /\ CanWrite /\ ~mixed /\ m_outbuf # << >>
  /\ EV_WRITE \in m_caredev /\ writer \in {"idle", "push", "after"}
  => Wake

(* The end of the peer's stream is going to be read. *)
EndIsSeen ==
  ~closed /\ peer # "open" =>
    epready \/ (loop \in {"swap", "run", "handle"} /\ reported /\ EV_READ \in m_sockev)

(* The shutdown is queued, or whoever empties the buffer will do it. *)
ShutDownIsComing ==
  ~closed /\ m_writeable /\ ~m_allow_more_send =>
    \/ disallowing # "none" \/ Has(writetasks, ShutDownTask)
    \/ m_outbuf # << >> \/ writer \in {"emptied", "onsend"}

WakeInv ==
  /\ Places /\ CaredIsRegistered /\ OutputIsCaredFor /\ EventsAreForWriter
  /\ OutputHasWake /\ EndIsSeen /\ ShutDownIsComing

(* What a poll finds.                                                        *)
LEMMA PollIs ==
  /\ EV_READ \in Poll <=> input \/ peer # "open"
  /\ EV_WRITE \in Poll <=> sndbuf < SndBuf \/ ~m_writeable \/ peer = "reset"
  /\ EV_EXCEPTION \in Poll <=> peer = "reset"
BY DEF Poll, EV_READ, EV_WRITE, EV_EXCEPTION, Events

(* Registering again reports what is pending, or asks to be told.            *)
LEMMA RegisterWakes ==
  ASSUME TypeOK, NEW evs, Register(evs)
  PROVE  /\ registered' = evs
         /\ EV_WRITE \in evs => epready' \/ (nospace' /\ sndbuf = SndBuf)
         /\ EV_READ \in evs /\ peer # "open" => epready'
<1>1. registered' = evs /\ (epready' <=> evs \cap Poll # {})
  BY DEF Register
<1>2. ASSUME EV_WRITE \in evs, EV_WRITE \notin Poll PROVE nospace' /\ sndbuf = SndBuf
  <2>1. nospace'
    BY <1>2 DEF Register, AskForRoom
  <2>2. ~(sndbuf < SndBuf)
    BY <1>2, PollIs
  <2> QED BY <2>1, <2>2, TcpSockAssumption DEF TypeOK, PeerType
<1>3. EV_WRITE \in evs => epready' \/ (nospace' /\ sndbuf = SndBuf)
  BY <1>1, <1>2
<1>4. EV_READ \in evs /\ peer # "open" => epready'
  BY <1>1, PollIs
<1> QED BY <1>1, <1>3, <1>4

(* Every step keeps the wake-up, or makes one.                               *)
LEMMA WakeStep == FlushInv /\ WakeInv /\ [Next]_vars => WakeInv'
<1> SUFFICES ASSUME FlushInv, WakeInv, [Next]_vars PROVE WakeInv'
  OBVIOUS
<1> USE TcpSockAssumption
<1> USE DEF outvars, queuevars, writervars, loopvars, appvars, epollvars, peervars, history
<1>0. /\ TypeOK /\ OutType /\ EventType /\ QueueType /\ ThreadType /\ PeerType /\ EmptyWhenEmptied
      /\ Places /\ CaredIsRegistered /\ OutputIsCaredFor /\ EventsAreForWriter
      /\ OutputHasWake /\ EndIsSeen /\ ShutDownIsComing
      /\ ShutDownTask # HandleTask /\ HandleTask \in WriteTask /\ ShutDownTask \in WriteTask
      /\ ShutDownTask.op = "shutdown" /\ HandleTask.op = "handle"
      /\ EV_READ # EV_WRITE /\ EV_READ \in Events /\ EV_WRITE \in Events
  BY DEF FlushInv, WakeInv, TypeOK, ShutDownTask, HandleTask, WriteTask, EV_READ, EV_WRITE, Events
<1>1. CASE Drain
  <2>1. OutputHasWake'
    BY <1>0, <1>1 DEF Drain, OutputHasWake, CanWrite, Wake, UpdateQueued, WriteReported
  <2>2. EndIsSeen'
    BY <1>0, <1>1 DEF Drain, EndIsSeen
  <2>3. Places' /\ CaredIsRegistered' /\ OutputIsCaredFor' /\ EventsAreForWriter' /\ ShutDownIsComing'
    BY <1>0, <1>1 DEF Drain, Places, CaredIsRegistered, UpdateQueued, OutputIsCaredFor, CanWrite, EventsAreForWriter, WriteReported, ShutDownIsComing
  <2> QED BY <2>1, <2>2, <2>3 DEF WakeInv
<1>2. CASE PeerActs
  <2>1. OutputIsCaredFor'
    BY <1>0, <1>2 DEF PeerActs, OutputIsCaredFor, CanWrite
  <2>2. OutputHasWake'
    BY <1>0, <1>2 DEF PeerActs, OutputHasWake, CanWrite, Wake, UpdateQueued, WriteReported
  <2>3. EndIsSeen'
    <3>1. closed' = closed /\ (registered # {} => epready')
      BY <1>2 DEF PeerActs
    <3>2. ~closed => registered # {}
      BY <1>0 DEF Places
    <3> QED BY <3>1, <3>2 DEF EndIsSeen
  <2>4. Places' /\ CaredIsRegistered' /\ EventsAreForWriter' /\ ShutDownIsComing'
    BY <1>0, <1>2 DEF PeerActs, Places, CaredIsRegistered, UpdateQueued, EventsAreForWriter, WriteReported, ShutDownIsComing
  <2> QED BY <2>1, <2>2, <2>3, <2>4 DEF WakeInv
<1>3. ASSUME NEW d \in Data, SendData(d) PROVE WakeInv'
  <2>1. Places' /\ CaredIsRegistered' /\ OutputIsCaredFor' /\ EventsAreForWriter' /\ OutputHasWake' /\ EndIsSeen' /\ ShutDownIsComing'
    BY <1>0, <1>3 DEF SendData, Places, CaredIsRegistered, UpdateQueued, OutputIsCaredFor, CanWrite, EventsAreForWriter, WriteReported, OutputHasWake, Wake, EndIsSeen, ShutDownIsComing
  <2> QED BY <2>1 DEF WakeInv
<1>4. ASSUME NEW d \in Data, SendQueue(d) PROVE WakeInv'
  <2>1. SendTask(d) \in WriteTask /\ SendTask(d) # ShutDownTask /\ SendTask(d) # HandleTask
    BY DEF SendTask, ShutDownTask, HandleTask, WriteTask
  <2>2. \A x \in {ShutDownTask, HandleTask} : Has(writetasks', x) <=> Has(writetasks, x)
    BY <1>0, <1>4, <2>1, HasAppend DEF SendQueue, QueueType
  <2>3. EventsAreForWriter'
    BY <1>0, <1>4, <2>2 DEF SendQueue, EventsAreForWriter, WriteReported
  <2>4. OutputHasWake'
    BY <1>0, <1>4, <2>2 DEF SendQueue, OutputHasWake, CanWrite, Wake, UpdateQueued, WriteReported
  <2>5. ShutDownIsComing'
    BY <1>0, <1>4, <2>2 DEF SendQueue, ShutDownIsComing
  <2>6. Places' /\ CaredIsRegistered' /\ OutputIsCaredFor' /\ EndIsSeen'
    BY <1>0, <1>4 DEF SendQueue, Places, CaredIsRegistered, UpdateQueued, OutputIsCaredFor, CanWrite, EndIsSeen
  <2> QED BY <2>3, <2>4, <2>5, <2>6 DEF WakeInv
<1>5. ASSUME NEW t \in {"app", "loop"}, DisAllowSend(t) PROVE WakeInv'
  <2>1. ShutDownIsComing'
    BY <1>0, <1>5 DEF DisAllowSend, ShutDownIsComing
  <2>2. Places' /\ CaredIsRegistered' /\ OutputIsCaredFor' /\ EventsAreForWriter' /\ OutputHasWake' /\ EndIsSeen'
    BY <1>0, <1>5 DEF DisAllowSend, Places, CaredIsRegistered, UpdateQueued, OutputIsCaredFor, CanWrite, EventsAreForWriter, WriteReported, OutputHasWake, Wake, EndIsSeen
  <2> QED BY <2>1, <2>2 DEF WakeInv
<1>6. CASE DisAllowTest
  <2>1. /\ Has(writetasks', HandleTask) <=> Has(writetasks, HandleTask)
        /\ Has(writetasks, ShutDownTask) => Has(writetasks', ShutDownTask)
        /\ ~closed /\ m_outbuf = << >> => Has(writetasks', ShutDownTask)
        /\ Has(m_pendings, "update") => Has(m_pendings', "update")
    <3>1. CASE UNCHANGED writetasks /\ ~(~closed /\ m_outbuf = << >>)
      <4>1. m_pendings' = m_pendings \/ m_pendings' = Append(m_pendings, "addwrite")
        BY <1>6 DEF DisAllowTest
      <4>2. Has(Append(m_pendings, "addwrite"), "update") <=> Has(m_pendings, "update")
        BY <1>0, HasAppend DEF QueueType, LoopTask
      <4> QED BY <3>1, <4>1, <4>2
    <3>2. CASE writetasks' = Append(writetasks, ShutDownTask) /\ UNCHANGED m_pendings
      BY <1>0, <3>2, HasAppend DEF QueueType
    <3> QED BY <1>6, <3>1, <3>2 DEF DisAllowTest
  <2>2. Places'
    BY <1>0, <1>6, <2>1 DEF DisAllowTest, Register, AskForRoom, Places
  <2>3. CaredIsRegistered'
    BY <1>0, <1>6, <2>1 DEF DisAllowTest, Register, AskForRoom, CaredIsRegistered, UpdateQueued
  <2>4. OutputIsCaredFor'
    BY <1>0, <1>6, <2>1 DEF DisAllowTest, Register, AskForRoom, OutputIsCaredFor, CanWrite
  <2>5. EventsAreForWriter'
    BY <1>0, <1>6, <2>1 DEF DisAllowTest, Register, AskForRoom, EventsAreForWriter, WriteReported, Poll
  <2>6. OutputHasWake'
    <3>1. CASE UNCHANGED <<m_caredev, epollvars>>
      BY <1>0, <1>6, <2>1, <3>1 DEF DisAllowTest, OutputHasWake, CanWrite, Wake, UpdateQueued, WriteReported
    <3>2. CASE Register(m_caredev') /\ EV_WRITE \in m_caredev'
      BY <1>0, <1>6, <3>2, RegisterWakes DEF DisAllowTest, OutputHasWake, CanWrite, Wake, UpdateQueued, WriteReported
    <3> QED BY <1>6, <3>1, <3>2 DEF DisAllowTest
  <2>7. EndIsSeen'
    <3>1. CASE UNCHANGED <<m_caredev, epollvars>>
      BY <1>0, <1>6, <3>1 DEF DisAllowTest, EndIsSeen
    <3>2. CASE Register(m_caredev') /\ m_caredev' = m_caredev \cup {EV_WRITE} /\ UNCHANGED peervars
      BY <1>0, <1>6, <3>2, RegisterWakes DEF DisAllowTest, EndIsSeen, Places
    <3> QED BY <1>6, <3>1, <3>2 DEF DisAllowTest
  <2>8. ShutDownIsComing'
    BY <1>0, <1>6, <2>1 DEF DisAllowTest, Register, AskForRoom, ShutDownIsComing
  <2> QED BY <2>2, <2>3, <2>4, <2>5, <2>6, <2>7, <2>8 DEF WakeInv
<1>7. CASE CloseCall
  <2>1. Has(m_pendings, "update") => Has(m_pendings', "update")
    BY <1>0, <1>7, HasAppend DEF CloseCall, QueueType, LoopTask
  <2>2. CaredIsRegistered'
    BY <1>0, <1>7, <2>1 DEF CloseCall, CaredIsRegistered, UpdateQueued
  <2>3. OutputHasWake'
    BY <1>0, <1>7, <2>1 DEF CloseCall, OutputHasWake, CanWrite, Wake, UpdateQueued, WriteReported
  <2>4. Places' /\ OutputIsCaredFor' /\ EventsAreForWriter' /\ EndIsSeen' /\ ShutDownIsComing'
    BY <1>0, <1>7 DEF CloseCall, Places, OutputIsCaredFor, CanWrite, EventsAreForWriter, WriteReported, EndIsSeen, ShutDownIsComing
  <2> QED BY <2>2, <2>3, <2>4 DEF WakeInv
<1>8. CASE TakeSend
  <2>1. \A x \in {ShutDownTask, HandleTask} :
          /\ Has(writetasks', x) => Has(writetasks, x)
          /\ Has(writetasks, x) /\ x.op # "send" => Has(writetasks', x)
    BY <1>0, <1>8, HasTail DEF TakeSend, QueueType
  <2>2. Places'
    BY <1>0, <1>8, <2>1 DEF TakeSend, Places
  <2>3. OutputIsCaredFor'
    BY <1>0, <1>8, <2>1 DEF TakeSend, OutputIsCaredFor, CanWrite
  <2>4. EventsAreForWriter'
    BY <1>0, <1>8, <2>1 DEF TakeSend, EventsAreForWriter, WriteReported
  <2>5. OutputHasWake'
    BY <1>0, <1>8, <2>1 DEF TakeSend, OutputHasWake, CanWrite, Wake, UpdateQueued, WriteReported
  <2>6. ShutDownIsComing'
    BY <1>0, <1>8, <2>1 DEF TakeSend, ShutDownIsComing
  <2>7. CaredIsRegistered' /\ EndIsSeen'
    BY <1>0, <1>8 DEF TakeSend, CaredIsRegistered, UpdateQueued, EndIsSeen
  <2> QED BY <2>2, <2>3, <2>4, <2>5, <2>6, <2>7 DEF WakeInv
<1>9. CASE Push
  <2>1. Places'
    BY <1>0, <1>9 DEF Push, Places
  <2>2. OutputIsCaredFor'
    <3>1. writer' = "write" /\ caller' = "send"
      BY <1>0, <1>9 DEF Push, Places
    <3> QED BY <3>1 DEF OutputIsCaredFor
  <2>3. OutputHasWake'
    BY <1>0, <1>9 DEF Push, OutputHasWake, CanWrite, Wake, UpdateQueued, WriteReported
  <2>4. ShutDownIsComing'
    BY <1>0, <1>9 DEF Push, ShutDownIsComing
  <2>5. CaredIsRegistered' /\ EventsAreForWriter' /\ EndIsSeen'
    BY <1>0, <1>9 DEF Push, CaredIsRegistered, UpdateQueued, EventsAreForWriter, WriteReported, EndIsSeen
  <2> QED BY <2>1, <2>2, <2>3, <2>4, <2>5 DEF WakeInv
<1>10. CASE TakeHandle
  <2>1. \A x \in {ShutDownTask, HandleTask} :
          /\ Has(writetasks', x) => Has(writetasks, x)
          /\ Has(writetasks, x) /\ x.op # "handle" => Has(writetasks', x)
    BY <1>0, <1>10, HasTail DEF TakeHandle, QueueType
  <2>2. Places'
    BY <1>0, <1>10, <2>1 DEF TakeHandle, Places
  <2>3. OutputIsCaredFor'
    BY <1>0, <1>10, <2>1 DEF TakeHandle, OutputIsCaredFor, CanWrite
  <2>4. EventsAreForWriter'
    BY <1>0, <1>10, <2>1 DEF TakeHandle, EventsAreForWriter, WriteReported
  <2>5. OutputHasWake'
    <3>1. CASE writer' = "write"
      BY <3>1 DEF OutputHasWake
    <3>2. CASE UNCHANGED <<writer, caller>>
      <4> SUFFICES ASSUME CanWrite, ~mixed, Has(writetasks, HandleTask) PROVE FALSE
        BY <1>0, <1>10, <2>1, <3>2 DEF TakeHandle, OutputHasWake, CanWrite, Wake, UpdateQueued, WriteReported
      <4>1. ~closed /\ EV_READ \notin m_sockev /\ EV_WRITE \in m_sockev /\ m_writeable
        BY <1>0 DEF EventsAreForWriter, CanWrite
      <4> QED BY <1>10, <3>2, <4>1 DEF TakeHandle
    <3> QED BY <1>10, <3>1, <3>2 DEF TakeHandle
  <2>6. ShutDownIsComing'
    BY <1>0, <1>10, <2>1 DEF TakeHandle, ShutDownIsComing
  <2>7. CaredIsRegistered' /\ EndIsSeen'
    BY <1>0, <1>10 DEF TakeHandle, CaredIsRegistered, UpdateQueued, EndIsSeen
  <2> QED BY <2>2, <2>3, <2>4, <2>5, <2>6, <2>7 DEF WakeInv
<1>11. CASE TakeShutDown
  <2>1. \A x \in {ShutDownTask, HandleTask} :
          /\ Has(writetasks', x) => Has(writetasks, x)
          /\ Has(writetasks, x) /\ x.op # "shutdown" => Has(writetasks', x)
    BY <1>0, <1>11, HasTail DEF TakeShutDown, QueueType
  <2>2. OutputIsCaredFor'
    BY <1>0, <1>11, <2>1 DEF TakeShutDown, ShutDownWrite, OutputIsCaredFor, CanWrite
  <2>3. EventsAreForWriter'
    BY <1>0, <1>11, <2>1 DEF TakeShutDown, ShutDownWrite, EventsAreForWriter, WriteReported
  <2>4. OutputHasWake'
    BY <1>0, <1>11, <2>1 DEF TakeShutDown, ShutDownWrite, OutputHasWake, CanWrite, Wake, UpdateQueued, WriteReported
  <2>5. ShutDownIsComing'
    BY <1>0, <1>11, <2>1 DEF TakeShutDown, ShutDownWrite, ShutDownIsComing
  <2>6. Places' /\ CaredIsRegistered' /\ EndIsSeen'
    BY <1>0, <1>11 DEF TakeShutDown, Places, CaredIsRegistered, UpdateQueued, EndIsSeen
  <2> QED BY <2>2, <2>3, <2>4, <2>5, <2>6 DEF WakeInv
<1>12. CASE WriteSome
  <2>1. Places'
    BY <1>0, <1>12 DEF WriteSome, Places
  <2>2. OutputIsCaredFor'
    BY <1>0, <1>12 DEF WriteSome, OutputIsCaredFor, CanWrite
  <2>3. OutputHasWake'
    BY <1>0, <1>12 DEF WriteSome, OutputHasWake, CanWrite, Wake, UpdateQueued, WriteReported
  <2>4. ShutDownIsComing'
    <3> DEFINE n == Min({Len(m_outbuf), SndBuf - sndbuf})
    <3>1. /\ m_outbuf' = SubSeq(m_outbuf, n + 1, Len(m_outbuf))
          /\ writer' = IF n = Len(m_outbuf) THEN "emptied" ELSE "write"
      BY <1>12 DEF WriteSome
    <3>2. n \in 1..Len(m_outbuf)
      <4>1. Len(m_outbuf) \in Nat \ {0} /\ SndBuf - sndbuf \in Nat \ {0}
        BY <1>0, <1>12 DEF WriteSome, OutType, PeerType
      <4>2. n = IF Len(m_outbuf) <= SndBuf - sndbuf THEN Len(m_outbuf) ELSE SndBuf - sndbuf
        BY <4>1, MinOfTwo
      <4> HIDE DEF n
      <4> QED BY <4>1, <4>2
    <3> HIDE DEF n
    <3>3. CASE n = Len(m_outbuf)
      BY <3>1, <3>3 DEF ShutDownIsComing
    <3>4. CASE n # Len(m_outbuf)
      <4>1. Len(m_outbuf') = Len(m_outbuf) - n /\ Len(m_outbuf) - n > 0
        BY <1>0, <3>1, <3>2, <3>4 DEF OutType
      <4>2. m_outbuf' # << >>
        BY <4>1
      <4> QED BY <4>2 DEF ShutDownIsComing
    <3> QED BY <3>3, <3>4
  <2>5. CaredIsRegistered' /\ EventsAreForWriter' /\ EndIsSeen'
    BY <1>0, <1>12 DEF WriteSome, CaredIsRegistered, UpdateQueued, EventsAreForWriter, WriteReported, EndIsSeen
  <2> QED BY <2>1, <2>2, <2>3, <2>4, <2>5 DEF WakeInv
<1>13. CASE WriteNothing
  <2>1. Places'
    BY <1>0, <1>13 DEF WriteNothing, Places
  <2>2. OutputIsCaredFor'
    BY <1>0, <1>13 DEF WriteNothing, OutputIsCaredFor, CanWrite
  <2>3. OutputHasWake'
    <3>1. CASE m_outbuf = << >>
      BY <1>13, <3>1 DEF WriteNothing, OutputHasWake
    <3>2. CASE m_outbuf # << >> /\ sndbuf = SndBuf /\ nospace'
      BY <1>0, <1>13, <3>2 DEF WriteNothing, CaredIsRegistered, OutputHasWake, CanWrite, Wake, UpdateQueued, WriteReported
    <3> QED BY <1>13, <3>1, <3>2 DEF WriteNothing
  <2>4. ShutDownIsComing'
    BY <1>0, <1>13 DEF WriteNothing, ShutDownIsComing
  <2>5. CaredIsRegistered' /\ EventsAreForWriter' /\ EndIsSeen'
    BY <1>0, <1>13 DEF WriteNothing, CaredIsRegistered, UpdateQueued, EventsAreForWriter, WriteReported, EndIsSeen
  <2> QED BY <2>1, <2>2, <2>3, <2>4, <2>5 DEF WakeInv
<1>14. CASE WriteError
  <2>1. Has(m_pendings, "update") => Has(m_pendings', "update")
    <3>1. Has(Append(m_pendings, "close"), "update") <=> Has(m_pendings, "update")
      BY <1>0, HasAppend DEF QueueType, LoopTask
    <3>2. CASE m_pendings' = m_pendings
      BY <3>2
    <3>3. CASE m_pendings' = Append(m_pendings, "close")
      BY <3>1, <3>3
    <3> QED BY <1>14, <3>2, <3>3 DEF WriteError
  <2>2. Places'
    BY <1>0, <1>14, <2>1 DEF WriteError, Places
  <2>3. CaredIsRegistered'
    BY <1>0, <1>14, <2>1 DEF WriteError, CaredIsRegistered, UpdateQueued
  <2>4. OutputIsCaredFor'
    BY <1>0, <1>14, <2>1 DEF WriteError, OutputIsCaredFor, CanWrite
  <2>5. OutputHasWake'
    BY <1>0, <1>14, <2>1 DEF WriteError, OutputHasWake, CanWrite, Wake, UpdateQueued, WriteReported
  <2>6. ShutDownIsComing'
    BY <1>0, <1>14, <2>1 DEF WriteError, ShutDownIsComing
  <2>7. EventsAreForWriter' /\ EndIsSeen'
    BY <1>0, <1>14 DEF WriteError, EventsAreForWriter, WriteReported, EndIsSeen
  <2> QED BY <2>2, <2>3, <2>4, <2>5, <2>6, <2>7 DEF WakeInv
<1>15. CASE Emptied
  <2>1. /\ Has(m_pendings, "update") => Has(m_pendings', "update")
        /\ m_pendings' # m_pendings => Has(m_pendings', "update")
    <3>1. Has(Append(m_pendings, "update"), "update")
      BY <1>0, HasAppend DEF QueueType, LoopTask
    <3>2. CASE m_pendings' = m_pendings
      BY <3>2
    <3>3. CASE m_pendings' = Append(m_pendings, "update")
      BY <3>1, <3>3
    <3> QED BY <1>15, <3>2, <3>3 DEF Emptied
  <2>2. Places'
    BY <1>0, <1>15, <2>1 DEF Emptied, Places
  <2>3. CaredIsRegistered'
    BY <1>0, <1>15, <2>1 DEF Emptied, CaredIsRegistered, UpdateQueued
  <2>4. OutputIsCaredFor'
    BY <1>0, <1>15, <2>1 DEF Emptied, OutputIsCaredFor, CanWrite
  <2>5. OutputHasWake'
    BY <1>0, <1>15, <2>1 DEF Emptied, OutputHasWake, CanWrite, Wake, UpdateQueued, WriteReported
  <2>6. ShutDownIsComing'
    BY <1>0, <1>15, <2>1 DEF Emptied, ShutDownIsComing
  <2>7. EventsAreForWriter' /\ EndIsSeen'
    BY <1>0, <1>15 DEF Emptied, EventsAreForWriter, WriteReported, EndIsSeen
  <2> QED BY <2>2, <2>3, <2>4, <2>5, <2>6, <2>7 DEF WakeInv
<1>16. CASE OnSend
  <2>1. Places'
    BY <1>0, <1>16 DEF OnSend, ShutDownWrite, Places
  <2>2. OutputIsCaredFor'
    <3>1. m_outbuf' = << >>
      BY <1>0, <1>16 DEF OnSend, ShutDownWrite, EmptyWhenEmptied
    <3> QED BY <3>1 DEF OutputIsCaredFor
  <2>3. OutputHasWake'
    BY <1>0, <1>16 DEF OnSend, ShutDownWrite, OutputHasWake, CanWrite, Wake, UpdateQueued, WriteReported
  <2>4. ShutDownIsComing'
    BY <1>0, <1>16 DEF OnSend, ShutDownWrite, ShutDownIsComing
  <2>5. CaredIsRegistered' /\ EventsAreForWriter' /\ EndIsSeen'
    BY <1>0, <1>16 DEF OnSend, CaredIsRegistered, UpdateQueued, EventsAreForWriter, WriteReported, EndIsSeen
  <2> QED BY <2>1, <2>2, <2>3, <2>4, <2>5 DEF WakeInv
<1>17. CASE AfterSend
  <2>1. /\ Has(m_pendings, "update") => Has(m_pendings', "update")
        /\ m_pendings' # m_pendings => Has(m_pendings', "update")
    <3>1. Has(Append(m_pendings, "update"), "update")
      BY <1>0, HasAppend DEF QueueType, LoopTask
    <3>2. CASE m_pendings' = m_pendings
      BY <3>2
    <3>3. CASE m_pendings' = Append(m_pendings, "update")
      BY <3>1, <3>3
    <3> QED BY <1>17, <3>2, <3>3 DEF AfterSend
  <2>2. Places'
    BY <1>0, <1>17, <2>1 DEF AfterSend, Places
  <2>3. CaredIsRegistered'
    BY <1>0, <1>17, <2>1 DEF AfterSend, CaredIsRegistered, UpdateQueued
  <2>4. OutputIsCaredFor'
    <3>1. UNCHANGED <<m_outbuf, m_writeable, closed, peer, caller>> /\ writer' = "idle"
      BY <1>17 DEF AfterSend
    <3>2. CASE caller = "handle"
      BY <1>0, <1>17, <3>1, <3>2 DEF AfterSend, OutputIsCaredFor, CanWrite
    <3>3. CASE caller = "send"
      BY <1>17, <3>1, <3>3 DEF AfterSend, OutputIsCaredFor, CanWrite
    <3> QED BY <1>0, <3>2, <3>3 DEF ThreadType
  <2>5. OutputHasWake'
    BY <1>0, <1>17, <2>1 DEF AfterSend, OutputHasWake, CanWrite, Wake, UpdateQueued, WriteReported
  <2>6. ShutDownIsComing'
    BY <1>0, <1>17, <2>1 DEF AfterSend, ShutDownIsComing
  <2>7. EventsAreForWriter' /\ EndIsSeen'
    BY <1>0, <1>17 DEF AfterSend, EventsAreForWriter, WriteReported, EndIsSeen
  <2> QED BY <2>2, <2>3, <2>4, <2>5, <2>6, <2>7 DEF WakeInv
<1>18. CASE Wait
  <2>1. Places'
    BY <1>0, <1>18 DEF Wait, AskForRoom, Places
  <2>2. EventsAreForWriter'
    <3> DEFINE evs == IF epready /\ registered # {} THEN Poll \cap (registered \cup {EV_EXCEPTION}) ELSE {}
    <3>1. /\ loop' = "swap" /\ reported' = (evs # {}) /\ m_sockev' = IF evs # {} THEN evs ELSE m_sockev
          /\ mixed' = (mixed \/ (EV_READ \in evs /\ (EV_WRITE \in evs \/ HandleTask \in Range(writetasks))))
          /\ UNCHANGED writetasks
      BY <1>18 DEF Wait
    <3>2. EV_EXCEPTION \in evs => EV_READ \in evs
      BY <1>0, PollIs DEF Places
    <3>3. evs \subseteq {EV_READ, EV_WRITE, EV_EXCEPTION}
      BY DEF Poll, Events
    <3>4. HandleTask \in Range(writetasks) <=> Has(writetasks, HandleTask)
      BY <1>0, HasRange DEF QueueType
    <3> HIDE DEF evs
    <3>5. CASE evs = {}
      BY <1>0, <3>1, <3>5 DEF EventsAreForWriter, WriteReported
    <3>6. CASE evs # {}
      BY <3>1, <3>2, <3>3, <3>4, <3>6 DEF EventsAreForWriter, WriteReported
    <3> QED BY <3>5, <3>6
  <2>3. OutputHasWake'
    <3>1. /\ loop = "wait" /\ loop' = "swap"
          /\ UNCHANGED <<closed, m_writeable, peer, m_outbuf, m_caredev, writer, m_pendings, tmptasks,
                         registered, sndbuf, writetasks>>
          /\ mixed => mixed'
      BY <1>18 DEF Wait
    <3>2. CASE ~epready
      BY <1>0, <1>18, <3>1, <3>2 DEF Wait, OutputHasWake, CanWrite, Wake, UpdateQueued, WriteReported
    <3>3. CASE epready /\ EV_WRITE \in registered /\ EV_WRITE \in Poll
      <4>1. EV_WRITE \in m_sockev' /\ reported'
        BY <1>18, <3>3 DEF Wait
      <4> QED BY <3>1, <3>3, <4>1 DEF OutputHasWake, CanWrite, Wake, UpdateQueued, WriteReported
    <3>4. CASE epready /\ EV_WRITE \in registered /\ EV_WRITE \notin Poll
      <4>1. nospace'
        BY <1>18, <3>4 DEF Wait, AskForRoom
      <4>2. ~(sndbuf < SndBuf)
        BY <3>4, PollIs
      <4>3. sndbuf = SndBuf
        BY <1>0, <4>2 DEF PeerType
      <4> QED BY <3>1, <3>4, <4>1, <4>3 DEF OutputHasWake, CanWrite, Wake, UpdateQueued, WriteReported
    <3>5. CASE EV_WRITE \notin registered
      BY <1>0, <3>1, <3>5 DEF OutputHasWake, CanWrite, Wake, UpdateQueued, WriteReported
    <3> QED BY <3>2, <3>3, <3>4, <3>5
  <2>4. EndIsSeen'
    <3>1. loop = "wait" /\ loop' = "swap" /\ UNCHANGED <<closed, peer>>
      BY <1>18 DEF Wait
    <3> SUFFICES ASSUME ~closed, peer # "open" PROVE reported' /\ EV_READ \in m_sockev'
      BY <3>1 DEF EndIsSeen
    <3>2. epready /\ EV_READ \in registered /\ EV_READ \in Poll
      BY <1>0, <3>1, PollIs DEF EndIsSeen, Places
    <3> QED BY <1>18, <3>2 DEF Wait
  <2>5. CaredIsRegistered' /\ OutputIsCaredFor' /\ ShutDownIsComing'
    BY <1>0, <1>18 DEF Wait, CaredIsRegistered, UpdateQueued, OutputIsCaredFor, CanWrite, ShutDownIsComing
  <2> QED BY <2>1, <2>2, <2>3, <2>4, <2>5 DEF WakeInv
<1>19. CASE Swap
  <2>1. UpdateQueued => Has(tmptasks', "update")
    <3>1. tmptasks' = m_pendings
      BY <1>19 DEF Swap
    <3>2. ~Has(tmptasks, "update")
      BY <1>0, <1>19, HasEmpty DEF Swap, Places
    <3>3. Has(tmptasks', "update") <=> Has(m_pendings, "update")
      BY <3>1
    <3> QED BY <3>2, <3>3 DEF UpdateQueued
  <2>2. Places'
    BY <1>0, <1>19, <2>1 DEF Swap, Places
  <2>3. CaredIsRegistered'
    BY <1>0, <1>19, <2>1 DEF Swap, CaredIsRegistered, UpdateQueued
  <2>4. EventsAreForWriter'
    BY <1>0, <1>19, <2>1 DEF Swap, EventsAreForWriter, WriteReported
  <2>5. OutputHasWake'
    BY <1>0, <1>19, <2>1 DEF Swap, OutputHasWake, CanWrite, Wake, UpdateQueued, WriteReported
  <2>6. EndIsSeen'
    BY <1>0, <1>19, <2>1 DEF Swap, EndIsSeen
  <2>7. OutputIsCaredFor' /\ ShutDownIsComing'
    BY <1>0, <1>19 DEF Swap, OutputIsCaredFor, CanWrite, ShutDownIsComing
  <2> QED BY <2>2, <2>3, <2>4, <2>5, <2>6, <2>7 DEF WakeInv
<1>20. CASE RunUpdate
  <2>1. Places'
    BY <1>0, <1>20 DEF RunUpdate, Register, AskForRoom, Places
  <2>2. CaredIsRegistered'
    BY <1>0, <1>20 DEF RunUpdate, Register, AskForRoom, CaredIsRegistered, UpdateQueued
  <2>3. OutputHasWake'
    <3>1. CASE closed
      BY <1>20, <3>1 DEF RunUpdate, OutputHasWake, CanWrite
    <3>2. CASE ~closed
      <4>1. Register(m_caredev) /\ UNCHANGED <<m_caredev, sndbuf>>
        BY <1>20, <3>2 DEF RunUpdate
      <4> QED BY <1>0, <4>1, RegisterWakes DEF OutputHasWake, Wake
    <3> QED BY <3>1, <3>2
  <2>4. EndIsSeen'
    <3>1. CASE closed
      BY <1>20, <3>1 DEF RunUpdate, EndIsSeen
    <3>2. CASE ~closed
      <4>1. Register(m_caredev) /\ UNCHANGED <<m_caredev, peer>>
        BY <1>20, <3>2 DEF RunUpdate
      <4> QED BY <1>0, <3>2, <4>1, RegisterWakes DEF EndIsSeen, Places
    <3> QED BY <3>1, <3>2
  <2>5. OutputIsCaredFor' /\ EventsAreForWriter' /\ ShutDownIsComing'
    BY <1>0, <1>20 DEF RunUpdate, OutputIsCaredFor, CanWrite, EventsAreForWriter, WriteReported, ShutDownIsComing
  <2> QED BY <2>1, <2>2, <2>3, <2>4, <2>5 DEF WakeInv
<1>21. CASE RunAddWrite
  <2>1. Has(tmptasks, "update") => Has(tmptasks', "update")
    BY <1>0, <1>21, HasTail DEF RunAddWrite, QueueType
  <2>2. Places'
    BY <1>0, <1>21, <2>1 DEF RunAddWrite, Register, AskForRoom, Places
  <2>3. CaredIsRegistered'
    BY <1>0, <1>21, <2>1 DEF RunAddWrite, Register, AskForRoom, CaredIsRegistered, UpdateQueued
  <2>4. OutputIsCaredFor'
    BY <1>0, <1>21, <2>1 DEF RunAddWrite, Register, AskForRoom, OutputIsCaredFor, CanWrite
  <2>5. OutputHasWake'
    <3>1. CASE UNCHANGED <<m_caredev, epollvars>>
      BY <1>0, <1>21, <2>1, <3>1 DEF RunAddWrite, OutputHasWake, CanWrite, Wake, UpdateQueued, WriteReported
    <3>2. CASE Register(m_caredev') /\ UNCHANGED sndbuf
      BY <1>0, <3>2, RegisterWakes DEF OutputHasWake, Wake
    <3> QED BY <1>21, <3>1, <3>2 DEF RunAddWrite
  <2>6. EndIsSeen'
    <3>1. CASE UNCHANGED <<m_caredev, epollvars>>
      BY <1>0, <1>21, <3>1 DEF RunAddWrite, EndIsSeen
    <3>2. CASE ~closed /\ Register(m_caredev') /\ m_caredev' = m_caredev \cup {EV_WRITE} /\ UNCHANGED peer
      BY <1>0, <3>2, RegisterWakes DEF EndIsSeen, Places
    <3> QED BY <1>21, <3>1, <3>2 DEF RunAddWrite
  <2>7. EventsAreForWriter' /\ ShutDownIsComing'
    BY <1>0, <1>21 DEF RunAddWrite, EventsAreForWriter, WriteReported, ShutDownIsComing
  <2> QED BY <2>2, <2>3, <2>4, <2>5, <2>6, <2>7 DEF WakeInv
<1>22. CASE RunClose
  <2>1. Has(tmptasks, "update") => Has(tmptasks', "update")
    BY <1>0, <1>22, HasTail DEF RunClose, QueueType
  <2>2. Places'
    BY <1>0, <1>22, <2>1 DEF RunClose, StayOpen, Close, Places
  <2>3. CaredIsRegistered'
    BY <1>0, <1>22, <2>1 DEF RunClose, StayOpen, Close, CaredIsRegistered, UpdateQueued
  <2>4. OutputIsCaredFor'
    BY <1>0, <1>22, <2>1 DEF RunClose, StayOpen, Close, OutputIsCaredFor, CanWrite
  <2>5. OutputHasWake'
    BY <1>0, <1>22, <2>1 DEF RunClose, StayOpen, Close, OutputHasWake, CanWrite, Wake, UpdateQueued, WriteReported
  <2>6. EndIsSeen'
    BY <1>0, <1>22, <2>1 DEF RunClose, StayOpen, Close, EndIsSeen
  <2>7. ShutDownIsComing'
    BY <1>0, <1>22, <2>1 DEF RunClose, StayOpen, Close, ShutDownIsComing
  <2>8. EventsAreForWriter'
    BY <1>0, <1>22 DEF RunClose, EventsAreForWriter, WriteReported
  <2> QED BY <2>2, <2>3, <2>4, <2>5, <2>6, <2>7, <2>8 DEF WakeInv
<1>23. CASE Dispatch
  <2>1. /\ Has(writetasks', ShutDownTask) <=> Has(writetasks, ShutDownTask)
        /\ Has(writetasks', HandleTask) <=> Has(writetasks, HandleTask) \/ (reported /\ EV_WRITE \in m_sockev)
    BY <1>0, <1>23, HasAppend DEF Dispatch, QueueType
  <2>2. Places'
    BY <1>0, <1>23, <2>1 DEF Dispatch, Places
  <2>3. EventsAreForWriter'
    BY <1>0, <1>23, <2>1 DEF Dispatch, EventsAreForWriter, WriteReported
  <2>4. OutputHasWake'
    BY <1>0, <1>23, <2>1 DEF Dispatch, OutputHasWake, CanWrite, Wake, UpdateQueued, WriteReported
  <2>5. EndIsSeen'
    BY <1>0, <1>23, <2>1 DEF Dispatch, EndIsSeen
  <2>6. ShutDownIsComing'
    BY <1>0, <1>23, <2>1 DEF Dispatch, ShutDownIsComing
  <2>7. CaredIsRegistered' /\ OutputIsCaredFor'
    BY <1>0, <1>23 DEF Dispatch, CaredIsRegistered, UpdateQueued, OutputIsCaredFor, CanWrite
  <2> QED BY <2>2, <2>3, <2>4, <2>5, <2>6, <2>7 DEF WakeInv
<1>24. CASE HandleEvent
  <2>1. Places'
    BY <1>0, <1>24 DEF HandleEvent, StayOpen, Close, Places
  <2>2. CaredIsRegistered'
    BY <1>0, <1>24 DEF HandleEvent, StayOpen, Close, CaredIsRegistered, UpdateQueued
  <2>3. OutputIsCaredFor'
    BY <1>0, <1>24 DEF HandleEvent, StayOpen, Close, OutputIsCaredFor, CanWrite
  <2>4. EventsAreForWriter'
    BY <1>0, <1>24 DEF HandleEvent, StayOpen, Close, EventsAreForWriter, WriteReported
  <2>5. OutputHasWake'
    BY <1>0, <1>24 DEF HandleEvent, StayOpen, Close, OutputHasWake, CanWrite, Wake, UpdateQueued, WriteReported
  <2>6. EndIsSeen'
    BY <1>0, <1>24 DEF HandleEvent, StayOpen, Close, EndIsSeen
  <2>7. ShutDownIsComing'
    BY <1>0, <1>24 DEF HandleEvent, StayOpen, Close, ShutDownIsComing
  <2> QED BY <2>1, <2>2, <2>3, <2>4, <2>5, <2>6, <2>7 DEF WakeInv
<1>25. CASE UNCHANGED vars
  BY <1>0, <1>25 DEF vars, WakeInv, Places, CaredIsRegistered, UpdateQueued, OutputIsCaredFor, CanWrite, EventsAreForWriter, WriteReported, OutputHasWake, Wake, EndIsSeen, ShutDownIsComing
<1> QED BY <1>1, <1>2, <1>3, <1>4, <1>5, <1>6, <1>7, <1>8, <1>9, <1>10, <1>11, <1>12, <1>13, <1>14, <1>15, <1>16, <1>17, <1>18, <1>19, <1>20, <1>21, <1>22, <1>23, <1>24, <1>25
        DEF Next, WriteThread, LoopThread

(* Without a read reported in the way of a write event, neither waiting      *)
(* output nor an unfinished DisAllowSend is ever left to nobody.             *)
THEOREM OutputGoesOnCorrect == Spec => []OutputGoesOn
<1>1. Init => FlushInv /\ WakeInv
  BY TypeInit, HasEmpty DEF Init, FlushInv, Asked, Promise, EmptyWhenEmptied, BufferedIsFlushed,
     WakeInv, Places, CaredIsRegistered, OutputIsCaredFor, EventsAreForWriter, OutputHasWake,
     EndIsSeen, ShutDownIsComing, WriteReported
<1>2. FlushInv /\ WakeInv => OutputGoesOn
  <2> SUFFICES ASSUME FlushInv, WakeInv, ~mixed, Stalled PROVE FALSE
    BY DEF OutputGoesOn
  <2>1. peer = "open" /\ tmptasks = << >>
    BY DEF WakeInv, EndIsSeen, Places, Stalled, Quiet
  <2>2. ~Has(m_pendings, "update") /\ ~Has(tmptasks, "update")
        /\ ~Has(writetasks, HandleTask) /\ ~Has(writetasks, ShutDownTask)
    BY <2>1, HasEmpty DEF Stalled, Quiet
  <2>3. m_outbuf # << >>
    BY <2>2 DEF WakeInv, ShutDownIsComing, Stalled, Quiet
  <2>4. Wake
    BY <2>1, <2>3 DEF WakeInv, OutputIsCaredFor, OutputHasWake, CanWrite, Stalled, Quiet
  <2> QED BY <2>2, <2>4 DEF Wake, UpdateQueued, WriteReported, Stalled, Quiet, FlushInv, TypeOK, PeerType
<1> QED BY <1>1, <1>2, FlushStep, WakeStep, PTL DEF Spec

-----------------------------------------------------------------------------
(* The order of the output.                                                  *)

(* p counts the send tasks of queue q: the first n data of a have left it, and *)
(* its send tasks carry the others, in order.                                *)
Counted(q, a, n, p) ==
  /\ p[0] = n /\ p[Len(q)] = Len(a)
  /\ \A i \in 1..Len(q) : IF q[i].op = "send"
                          THEN p[i] = p[i - 1] + 1 /\ q[i].data = a[p[i]]
                          ELSE p[i] = p[i - 1]

Pending(q, a, n) == \E p \in [0..Len(q) -> 0..Len(a)] : Counted(q, a, n, p)

(* A datum is accepted and its task queued.                                  *)
LEMMA PendingSend ==
  ASSUME NEW q \in Seq(WriteTask), NEW a \in Seq(Data), NEW n, Pending(q, a, n), NEW d \in Data
  PROVE  Pending(Append(q, SendTask(d)), Append(a, d), n)
<1> DEFINE r == Append(q, SendTask(d))  b == Append(a, d)
<1>1. PICK p \in [0..Len(q) -> 0..Len(a)] : Counted(q, a, n, p)
  BY DEF Pending
<1>2. SendTask(d) \in WriteTask /\ SendTask(d).op = "send" /\ SendTask(d).data = d
  BY DEF SendTask, WriteTask
<1>3. /\ Len(q) \in Nat /\ Len(r) = Len(q) + 1 /\ r[Len(q) + 1] = SendTask(d)
      /\ \A i \in 1..Len(q) : r[i] = q[i]
  BY <1>2
<1>4. /\ Len(a) \in Nat /\ Len(b) = Len(a) + 1 /\ b[Len(a) + 1] = d
      /\ \A i \in 1..Len(a) : b[i] = a[i]
  OBVIOUS
<1> HIDE DEF r, b
<1> DEFINE s == [i \in 0..Len(r) |-> IF i \in 0..Len(q) THEN p[i] ELSE Len(b)]
<1>5. s \in [0..Len(r) -> 0..Len(b)]
  BY <1>1, <1>3, <1>4
<1>6. s[0] = n /\ s[Len(r)] = Len(b)
  BY <1>1, <1>3 DEF Counted
<1>7. ASSUME NEW i \in 1..Len(r)
      PROVE  IF r[i].op = "send" THEN s[i] = s[i - 1] + 1 /\ r[i].data = b[s[i]]
                                 ELSE s[i] = s[i - 1]
  <2>1. CASE i \in 1..Len(q)
    <3>1. /\ s[i] = p[i] /\ s[i - 1] = p[i - 1] /\ r[i] = q[i]
          /\ p[i] \in 0..Len(a) /\ p[i - 1] \in 0..Len(a)
      BY <1>1, <1>3, <2>1
    <3>2. IF q[i].op = "send" THEN p[i] = p[i - 1] + 1 /\ q[i].data = a[p[i]]
                              ELSE p[i] = p[i - 1]
      BY <1>1, <2>1 DEF Counted
    <3>3. p[i] = p[i - 1] + 1 => b[p[i]] = a[p[i]]
      BY <1>4, <3>1
    <3> HIDE DEF s
    <3> QED BY <3>1, <3>2, <3>3
  <2>2. CASE i = Len(q) + 1
    <3>1. s[i] = Len(a) + 1 /\ s[i - 1] = p[Len(q)] /\ p[Len(q)] = Len(a)
      BY <1>1, <1>3, <1>4, <2>2 DEF Counted
    <3> HIDE DEF s
    <3> QED BY <1>2, <1>3, <1>4, <2>2, <3>1
  <2> QED BY <1>3, <2>1, <2>2
<1>8. Counted(r, b, n, s)
  <2> HIDE DEF s
  <2> QED BY <1>6, <1>7 DEF Counted
<1> QED
  <2> HIDE DEF s
  <2>1. Pending(r, b, n)
    BY <1>5, <1>8 DEF Pending
  <2> QED BY <2>1 DEF r, b

(* Another task is queued.                                                   *)
LEMMA PendingOther ==
  ASSUME NEW q \in Seq(WriteTask), NEW a \in Seq(Data), NEW n, Pending(q, a, n),
         NEW e \in WriteTask, e.op # "send"
  PROVE  Pending(Append(q, e), a, n)
<1> DEFINE r == Append(q, e)
<1>1. PICK p \in [0..Len(q) -> 0..Len(a)] : Counted(q, a, n, p)
  BY DEF Pending
<1>3. /\ Len(q) \in Nat /\ Len(r) = Len(q) + 1 /\ r[Len(q) + 1] = e
      /\ \A i \in 1..Len(q) : r[i] = q[i]
  OBVIOUS
<1>4. Len(a) \in Nat
  OBVIOUS
<1> HIDE DEF r
<1> DEFINE s == [i \in 0..Len(r) |-> IF i \in 0..Len(q) THEN p[i] ELSE Len(a)]
<1>5. s \in [0..Len(r) -> 0..Len(a)]
  BY <1>1, <1>3, <1>4
<1>6. s[0] = n /\ s[Len(r)] = Len(a)
  BY <1>1, <1>3 DEF Counted
<1>7. ASSUME NEW i \in 1..Len(r)
      PROVE  IF r[i].op = "send" THEN s[i] = s[i - 1] + 1 /\ r[i].data = a[s[i]]
                                 ELSE s[i] = s[i - 1]
  <2>1. CASE i \in 1..Len(q)
    <3>1. s[i] = p[i] /\ s[i - 1] = p[i - 1] /\ r[i] = q[i]
      BY <1>1, <1>3, <2>1
    <3>2. IF q[i].op = "send" THEN p[i] = p[i - 1] + 1 /\ q[i].data = a[p[i]]
                              ELSE p[i] = p[i - 1]
      BY <1>1, <2>1 DEF Counted
    <3> HIDE DEF s
    <3> QED BY <3>1, <3>2
  <2>2. CASE i = Len(q) + 1
    <3>1. s[i] = Len(a) /\ s[i - 1] = p[Len(q)] /\ p[Len(q)] = Len(a)
      BY <1>1, <1>3, <1>4, <2>2 DEF Counted
    <3> HIDE DEF s
    <3> QED BY <1>3, <2>2, <3>1
  <2> QED BY <1>3, <2>1, <2>2
<1>8. Counted(r, a, n, s)
  <2> HIDE DEF s
  <2> QED BY <1>6, <1>7 DEF Counted
<1> QED
  <2> HIDE DEF s
  <2>1. Pending(r, a, n)
    BY <1>5, <1>8 DEF Pending
  <2> QED BY <2>1 DEF r

(* A task is taken.                                                          *)
LEMMA PendingTake ==
  ASSUME NEW q \in Seq(WriteTask), NEW a \in Seq(Data), NEW n, Pending(q, a, n), q # << >>
  PROVE  IF Head(q).op = "send"
         THEN /\ n + 1 \in 1..Len(a) /\ Head(q).data = a[n + 1]
              /\ Pending(Tail(q), a, n + 1)
         ELSE Pending(Tail(q), a, n)
<1> DEFINE r == Tail(q)
<1>1. PICK p \in [0..Len(q) -> 0..Len(a)] : Counted(q, a, n, p)
  BY DEF Pending
<1>2. /\ Len(q) \in Nat \ {0} /\ Len(r) = Len(q) - 1 /\ Head(q) = q[1] /\ Len(a) \in Nat
      /\ \A i \in 1..Len(r) : r[i] = q[i + 1]
  OBVIOUS
<1> HIDE DEF r
<1> DEFINE s == [i \in 0..Len(r) |-> p[i + 1]]
<1>3. s \in [0..Len(r) -> 0..Len(a)]
  BY <1>1, <1>2
<1>4. Counted(r, a, p[1], s)
  <2>1. s[0] = p[1] /\ s[Len(r)] = Len(a)
    BY <1>1, <1>2 DEF Counted
  <2>2. ASSUME NEW i \in 1..Len(r)
        PROVE  IF r[i].op = "send" THEN s[i] = s[i - 1] + 1 /\ r[i].data = a[s[i]]
                                   ELSE s[i] = s[i - 1]
    <3>1. s[i] = p[i + 1] /\ s[i - 1] = p[i] /\ r[i] = q[i + 1]
      BY <1>2
    <3>2. i + 1 \in 1..Len(q) /\ (i + 1) - 1 = i
      BY <1>2
    <3>3. IF q[i + 1].op = "send" THEN p[i + 1] = p[i] + 1 /\ q[i + 1].data = a[p[i + 1]]
                                  ELSE p[i + 1] = p[i]
      <4>1. ASSUME NEW j \in 1..Len(q)
            PROVE  IF q[j].op = "send" THEN p[j] = p[j - 1] + 1 /\ q[j].data = a[p[j]]
                                       ELSE p[j] = p[j - 1]
        BY <1>1 DEF Counted
      <4> QED BY <3>2, <4>1
    <3> HIDE DEF s
    <3> QED BY <3>1, <3>3
  <2> HIDE DEF s
  <2> QED BY <2>1, <2>2 DEF Counted
<1>5. Pending(r, a, p[1])
  <2> HIDE DEF s
  <2> QED BY <1>3, <1>4 DEF Pending
<1>6. p[0] = n /\ p[0] \in 0..Len(a) /\ p[1] \in 0..Len(a)
  BY <1>1, <1>2 DEF Counted
<1>7. IF q[1].op = "send" THEN p[1] = n + 1 /\ q[1].data = a[p[1]] ELSE p[1] = n
  <2>1. 1 \in 1..Len(q) /\ 1 - 1 = 0
    BY <1>2
  <2> QED BY <1>1, <1>6, <2>1 DEF Counted
<1> QED BY <1>2, <1>5, <1>6, <1>7 DEF r

(* What has left the queue of tasks for the kernel or the buffer.            *)
flow == wire \o m_outbuf

Written == Len(flow) <= Len(accepted) /\ \A i \in 1..Len(flow) : flow[i] = accepted[i]

NextOut == writer = "push" => Len(flow) < Len(accepted) /\ hand = accepted[Len(flow) + 1]

Live == ~closed /\ m_writeable /\ m_allow_more_send

(* As long as tasks are not dropped, they carry on where the flow ends.      *)
Left == Live => Pending(writetasks, accepted, IF writer = "push" THEN Len(flow) + 1 ELSE Len(flow))

OrderInv == Written /\ NextOut /\ Left

LEMMA WrittenIsPrefix ==
  ASSUME TypeOK, Written
  PROVE  SentInOrder
<1>1. flow \in Seq(Data) /\ accepted \in Seq(Data)
  BY DEF TypeOK, OutType, HistoryType, flow
<1>2. ASSUME NEW s \in Seq(Data), NEW t \in Seq(Data), Len(s) <= Len(t),
             \A i \in 1..Len(s) : s[i] = t[i]
      PROVE  SubSeq(s, 1, Len(s)) = SubSeq(t, 1, Len(s))
  BY <1>2
<1> QED BY <1>1, <1>2 DEF SentInOrder, IsPrefix, Written, flow

(* Nothing but the queue of tasks and the flags may have changed, ...        *)
LEMMA OrderFrame ==
  ASSUME OrderInv, UNCHANGED <<wire, m_outbuf, accepted, hand>>,
         writer' = writer \/ {writer, writer'} \cap {"push"} = {},
         Live' => Live /\ writetasks' = writetasks
  PROVE  OrderInv'
<1>1. flow' = flow
  BY DEF flow
<1>2. writer' = "push" <=> writer = "push"
  OBVIOUS
<1>3. Written' /\ NextOut'
  BY <1>1, <1>2 DEF OrderInv, Written, NextOut
<1>4. Left'
  BY <1>1, <1>2 DEF OrderInv, Left
<1> QED BY <1>3, <1>4 DEF OrderInv

(* ... or a task that sends nothing has been queued.                         *)
LEMMA OrderOther ==
  ASSUME TypeOK, OrderInv, UNCHANGED <<wire, m_outbuf, accepted, hand, writer>>,
         Live' => Live, NEW e \in WriteTask, e.op # "send", writetasks' = Append(writetasks, e)
  PROVE  OrderInv'
<1>1. flow' = flow
  BY DEF flow
<1>2. Written' /\ NextOut'
  BY <1>1 DEF OrderInv, Written, NextOut
<1>3. writetasks \in Seq(WriteTask) /\ accepted \in Seq(Data)
  BY DEF TypeOK, QueueType, HistoryType
<1> DEFINE n == IF writer = "push" THEN Len(flow) + 1 ELSE Len(flow)
<1>4. Pending(writetasks, accepted, n) => Pending(Append(writetasks, e), accepted, n)
  <2> HIDE DEF n
  <2> QED BY <1>3, PendingOther
<1>5. Left'
  BY <1>1, <1>4 DEF OrderInv, Left
<1> QED BY <1>2, <1>5 DEF OrderInv

LEMMA OtherTasks ==
  /\ ShutDownTask \in WriteTask /\ ShutDownTask.op # "send"
  /\ HandleTask \in WriteTask /\ HandleTask.op # "send"
BY DEF ShutDownTask, HandleTask, WriteTask

(* The buffer is thrown away and no more is taken.                           *)
LEMMA OrderDropped ==
  ASSUME TypeOK, OrderInv, UNCHANGED <<wire, accepted>>, m_outbuf' = << >>,
         ~Live', writer' # "push"
  PROVE  OrderInv'
<1>1. wire \in Seq(Data) /\ m_outbuf \in Seq(Data) /\ accepted \in Seq(Data)
  BY DEF TypeOK, OutType, HistoryType
<1>2. flow' = wire
  BY <1>1 DEF flow
<1>3. /\ Len(wire) \in Nat /\ Len(flow) \in Nat /\ Len(accepted) \in Nat /\ Len(wire) <= Len(flow)
      /\ \A i \in 1..Len(wire) : i \in 1..Len(flow) /\ flow[i] = wire[i]
  BY <1>1 DEF flow
<1>4. Written'
  BY <1>2, <1>3 DEF OrderInv, Written
<1> QED BY <1>4 DEF OrderInv, NextOut, Left

(* A write moves the front of the buffer to the end of what is written.      *)
LEMMA Regrouped ==
  ASSUME NEW s \in Seq(Data), NEW u \in Seq(Data), NEW k \in 1..Len(u)
  PROVE  (s \o SubSeq(u, 1, k)) \o SubSeq(u, k + 1, Len(u)) = s \o u
<1>1. SubSeq(u, 1, k) \in Seq(Data) /\ SubSeq(u, k + 1, Len(u)) \in Seq(Data)
  OBVIOUS
<1>2. SubSeq(u, 1, k) \o SubSeq(u, k + 1, Len(u)) = u
  OBVIOUS
<1>3. ASSUME NEW x \in Seq(Data), NEW y \in Seq(Data)
      PROVE  (s \o x) \o y = s \o (x \o y)
  OBVIOUS
<1>4. PICK x \in Seq(Data), y \in Seq(Data) :
               x = SubSeq(u, 1, k) /\ y = SubSeq(u, k + 1, Len(u))
  BY <1>1
<1>5. x \o y = u
  BY <1>2, <1>4, Zenon
<1>6. (s \o x) \o y = s \o u
  BY <1>3, <1>5, Zenon
<1> QED BY <1>4, <1>6, Zenon

LEMMA OrderStep == TypeOK /\ OrderInv /\ [Next]_vars => OrderInv'
<1> SUFFICES ASSUME TypeOK, OrderInv, [Next]_vars
             PROVE  OrderInv'
  OBVIOUS
<1> USE DEF outvars, queuevars, writervars, loopvars, appvars, epollvars, peervars, history
<1>t. /\ wire \in Seq(Data) /\ m_outbuf \in Seq(Data) /\ accepted \in Seq(Data)
      /\ flow \in Seq(Data) /\ writetasks \in Seq(WriteTask)
      /\ writer = "push" => hand \in Data
  BY DEF TypeOK, OutType, HistoryType, QueueType, ThreadType, flow
<1>1. CASE Drain \/ PeerActs \/ CloseCall
  BY <1>1, OrderFrame DEF Drain, PeerActs, CloseCall, Live
<1>2. ASSUME NEW d \in Data, SendData(d)
      PROVE  OrderInv'
  BY <1>2, OrderFrame DEF SendData, Live
<1>3. ASSUME NEW d \in Data, SendQueue(d)
      PROVE  OrderInv'
  <2>1. /\ accepted' = Append(accepted, d) /\ writetasks' = Append(writetasks, SendTask(d))
        /\ UNCHANGED <<wire, m_outbuf, writer, hand, closed, m_writeable, m_allow_more_send>>
    BY <1>3 DEF SendQueue
  <2>2. flow' = flow
    BY <2>1 DEF flow
  <2>3. /\ Len(flow) \in Nat /\ Len(accepted) \in Nat /\ Len(accepted') = Len(accepted) + 1
        /\ \A i \in 1..Len(accepted) : accepted'[i] = accepted[i]
    BY <1>t, <2>1
  <2>4. Written' /\ NextOut'
    BY <2>1, <2>2, <2>3 DEF OrderInv, Written, NextOut
  <2> DEFINE n == IF writer = "push" THEN Len(flow) + 1 ELSE Len(flow)
  <2>5. Pending(writetasks, accepted, n) => Pending(writetasks', accepted', n)
    <3> HIDE DEF n
    <3> QED BY <1>t, <2>1, PendingSend
  <2>6. Left'
    BY <2>1, <2>2, <2>5 DEF OrderInv, Left, Live
  <2> QED BY <2>4, <2>6 DEF OrderInv
<1>4. ASSUME NEW t \in {"app", "loop"}, DisAllowSend(t)
      PROVE  OrderInv'
  BY <1>4, OrderFrame DEF DisAllowSend, Live
<1>5. CASE DisAllowTest
  <2>1. /\ UNCHANGED <<wire, m_outbuf, accepted, hand, writer, closed, m_writeable, m_allow_more_send>>
        /\ writetasks' = writetasks \/ writetasks' = Append(writetasks, ShutDownTask)
    BY <1>5 DEF DisAllowTest
  <2> QED BY <2>1, OrderFrame, OrderOther, OtherTasks DEF Live
<1>6. CASE TakeSend
  <2>1. UNCHANGED <<wire, m_outbuf, accepted, closed, m_writeable, m_allow_more_send>>
    BY <1>6 DEF TakeSend
  <2>2. CASE ~Live
    <3>1. UNCHANGED <<writer, hand>>
      BY <1>6, <2>2 DEF TakeSend, Live, Writeable
    <3> QED BY <2>1, <2>2, <3>1, OrderFrame DEF Live
  <2>3. CASE Live
    <3>1. /\ writer = "idle" /\ writetasks # << >> /\ Head(writetasks).op = "send"
          /\ writetasks' = Tail(writetasks)
          /\ writer' = "push" /\ hand' = Head(writetasks).data
      BY <1>6, <2>3 DEF TakeSend, Live, Writeable
    <3>2. Pending(writetasks, accepted, Len(flow))
      BY <2>3, <3>1 DEF OrderInv, Left
    <3>3. /\ Len(flow) + 1 \in 1..Len(accepted) /\ hand' = accepted[Len(flow) + 1]
          /\ Pending(writetasks', accepted, Len(flow) + 1)
      BY <1>t, <3>1, <3>2, PendingTake
    <3>4. flow' = flow /\ accepted' = accepted /\ Len(flow) \in Nat /\ Len(accepted) \in Nat
      BY <1>t, <2>1 DEF flow
    <3> QED BY <3>1, <3>3, <3>4 DEF OrderInv, Written, NextOut, Left
  <2> QED BY <2>2, <2>3
<1>7. CASE Push
  <2>1. /\ m_outbuf' = Append(m_outbuf, hand) /\ writer = "push" /\ writer' = "write"
        /\ UNCHANGED <<wire, accepted, closed, m_writeable, m_allow_more_send, writetasks>>
    BY <1>7 DEF Push
  <2>2. flow' = Append(flow, hand)
    BY <1>t, <2>1 DEF flow
  <2>3. /\ Len(flow') = Len(flow) + 1 /\ flow'[Len(flow) + 1] = hand
        /\ Len(flow) \in Nat /\ Len(accepted) \in Nat
        /\ \A i \in 1..Len(flow) : flow'[i] = flow[i]
    BY <1>t, <2>1, <2>2
  <2>4. Written'
    <3>1. \A i \in 1..Len(flow') : i \in 1..Len(flow) \/ i = Len(flow) + 1
      BY <2>3
    <3> QED BY <2>1, <2>3, <3>1 DEF OrderInv, Written, NextOut
  <2>5. NextOut' /\ Left'
    BY <2>1, <2>3 DEF OrderInv, NextOut, Left, Live
  <2> QED BY <2>4, <2>5 DEF OrderInv
<1>8. CASE TakeHandle \/ TakeShutDown
  <2>1. /\ UNCHANGED <<wire, accepted, hand, closed, m_allow_more_send>>
        /\ writer = "idle" /\ writer' # "push" /\ writetasks' = Tail(writetasks)
        /\ writetasks # << >> /\ Head(writetasks).op # "send"
        /\ \/ UNCHANGED <<m_outbuf, m_writeable>>
           \/ ~closed /\ m_writeable' = FALSE /\ m_outbuf' = << >>
    BY <1>8 DEF TakeHandle, TakeShutDown, ShutDownWrite
  <2>2. CASE UNCHANGED <<m_outbuf, m_writeable>>
    <3>1. flow' = flow /\ Live' = Live
      BY <2>1, <2>2 DEF flow, Live
    <3>2. Written' /\ NextOut'
      BY <2>1, <3>1 DEF OrderInv, Written, NextOut
    <3>3. Pending(writetasks, accepted, Len(flow)) => Pending(writetasks', accepted, Len(flow))
      BY <1>t, <2>1, PendingTake
    <3>4. Left'
      BY <2>1, <3>1, <3>3 DEF OrderInv, Left
    <3> QED BY <3>2, <3>4 DEF OrderInv
  <2>3. CASE ~closed /\ m_writeable' = FALSE /\ m_outbuf' = << >>
    BY <2>1, <2>3, OrderDropped DEF Live
  <2> QED BY <2>1, <2>2, <2>3
<1>9. CASE WriteSome
  <2> DEFINE n == Min({Len(m_outbuf), SndBuf - sndbuf})
  <2>1. n \in 1..Len(m_outbuf)
    <3>1. /\ Len(m_outbuf) \in Nat \ {0} /\ SndBuf - sndbuf \in Nat \ {0}
      BY <1>9, <1>t, TcpSockAssumption DEF WriteSome, TypeOK, PeerType
    <3> QED BY <3>1, MinOfTwo
  <2>2. /\ wire' = wire \o SubSeq(m_outbuf, 1, n)
        /\ m_outbuf' = SubSeq(m_outbuf, n + 1, Len(m_outbuf))
        /\ writer = "write" /\ writer' # "push"
        /\ UNCHANGED <<accepted, writetasks, closed, m_writeable, m_allow_more_send>>
    BY <1>9 DEF WriteSome
  <2> HIDE DEF n
  <2>3. flow' = flow
    <3> QED BY <1>t, <2>1, <2>2, Regrouped, Zenon DEF flow
  <2> QED BY <2>2, <2>3 DEF OrderInv, Written, NextOut, Left, Live
<1>10. CASE WriteNothing \/ WriteError \/ Emptied \/ AfterSend
  BY <1>10, OrderFrame DEF WriteNothing, WriteError, Emptied, AfterSend, Live
<1>11. CASE OnSend
  <2>1. /\ UNCHANGED <<wire, accepted, hand, closed, writetasks>>
        /\ writer = "onsend" /\ writer' # "push"
        /\ m_allow_more_send' => m_allow_more_send /\ UNCHANGED <<m_writeable, m_outbuf>>
        /\ ~m_allow_more_send' => UNCHANGED m_outbuf \/ m_outbuf' = << >>
    BY <1>11 DEF OnSend, ShutDownWrite
  <2>2. CASE m_allow_more_send' \/ UNCHANGED m_outbuf
    BY <2>1, <2>2, OrderFrame DEF Live
  <2>3. CASE ~m_allow_more_send' /\ m_outbuf' = << >>
    BY <2>1, <2>3, OrderDropped DEF Live
  <2> QED BY <2>1, <2>2, <2>3
<1>12. CASE Wait \/ Swap \/ RunUpdate \/ RunAddWrite
  BY <1>12, OrderFrame DEF Wait, Swap, RunUpdate, RunAddWrite, Live
<1>13. CASE RunClose \/ HandleEvent
  <2>1. /\ UNCHANGED <<wire, m_outbuf, accepted, hand, writer, writetasks>>
        /\ UNCHANGED <<closed, m_writeable, m_allow_more_send>> \/ closed'
    BY <1>13 DEF RunClose, HandleEvent, Close, StayOpen
  <2> QED BY <2>1, OrderFrame DEF Live
<1>14. CASE Dispatch
  <2>1. /\ UNCHANGED <<wire, m_outbuf, accepted, hand, writer, closed, m_writeable, m_allow_more_send>>
        /\ writetasks' = writetasks \/ writetasks' = Append(writetasks, HandleTask)
    BY <1>14 DEF Dispatch
  <2> QED BY <2>1, OrderFrame, OrderOther, OtherTasks DEF Live
<1>15. CASE UNCHANGED vars
  BY <1>15, OrderFrame DEF vars, Live
<1> QED BY <1>1, <1>2, <1>3, <1>4, <1>5, <1>6, <1>7, <1>8, <1>9, <1>10, <1>11, <1>12, <1>13,
           <1>14, <1>15 DEF Next, WriteThread, LoopThread

(* SendData's order is the order on the wire, for any number of data and any *)
(* size of the kernel's buffer, whoever disallows or closes meanwhile.       *)
THEOREM SentInOrderCorrect == Spec => []SentInOrder
<1>1. Init => OrderInv
  <2> SUFFICES ASSUME Init
               PROVE  OrderInv
    OBVIOUS
  <2>1. flow = << >> /\ accepted = << >> /\ writetasks = << >> /\ writer = "idle"
    BY DEF Init, flow
  <2>2. Pending(<< >>, << >>, 0)
    <3>1. Counted(<< >>, << >>, 0, [i \in 0..0 |-> 0])
      BY DEF Counted
    <3>2. [i \in 0..0 |-> 0] \in [0..Len(<< >>) -> 0..Len(<< >>)]
      OBVIOUS
    <3> QED BY <3>1, <3>2 DEF Pending
  <2>3. Left
    BY <2>1, <2>2 DEF Left
  <2> QED BY <2>1, <2>3 DEF OrderInv, Written, NextOut
<1>2. TypeOK /\ OrderInv => SentInOrder
  BY WrittenIsPrefix DEF OrderInv
<1> QED BY <1>1, <1>2, OrderStep, TypeCorrect, PTL DEF Spec

-----------------------------------------------------------------------------
(* The FastBuffer behind m_outbuf, which is kept above as the sequence of its *)
(* unread bytes: for any sizes and thresholds it is one.                     *)

(* A vector of elements of S with its two indices, and what lies between them. *)
Buffer(S) == [d : Seq(S), r : Nat, w : Nat, half : Nat]

Encloses(b, q) ==
  /\ WellFormed(b) /\ Len(q) = b.w - b.r
  /\ \A k \in 1..Len(q) : b.d[b.r + k] = q[k]

LEMMA Vector ==
  ASSUME NEW S, NEW n \in Nat, NEW f \in [1..n -> S]
  PROVE  f \in Seq(S) /\ Len(f) = n
<1>1. f \in Seq(S)
  BY SeqDef
<1>2. DOMAIN f = 1..n /\ DOMAIN f = 1..Len(f) /\ Len(f) \in Nat
  BY <1>1, LenProperties
<1>3. 1..n = 1..Len(f)
  BY <1>2
<1>4. n = Len(f)
  <2>1. CASE n < Len(f)
    BY <1>2, <1>3, <2>1
  <2>2. CASE n > Len(f)
    BY <1>2, <1>3, <2>2
  <2> QED BY <1>2, <2>1, <2>2
<1> QED BY <1>1, <1>4

LEMMA BufferFields ==
  ASSUME NEW S, NEW b \in Buffer(S)
  PROVE  b.d \in Seq(S) /\ b.r \in Nat /\ b.w \in Nat /\ b.half \in Nat /\ Len(b.d) \in Nat
BY DEF Buffer

(* The vector gets another size: what lies within both is kept.              *)
LEMMA ResizeKeeps ==
  ASSUME NEW S, 0 \in S, NEW b \in Buffer(S), NEW q \in Seq(S), Encloses(b, q), NEW n \in Nat, b.w <= n
  PROVE  /\ Resize(b, n) \in Buffer(S) /\ Encloses(Resize(b, n), q)
         /\ Len(Resize(b, n).d) = n /\ Resize(b, n).w = b.w /\ Resize(b, n).r = b.r
<1> DEFINE v == [k \in 1..n |-> IF k <= Len(b.d) THEN b.d[k] ELSE 0]
<1>1. b.d \in Seq(S) /\ b.r \in Nat /\ b.w \in Nat /\ b.half \in Nat /\ Len(b.d) \in Nat
  BY BufferFields
<1>2. \A k \in 1..n : v[k] \in S
  <2> SUFFICES ASSUME NEW k \in 1..n
               PROVE  (IF k <= Len(b.d) THEN b.d[k] ELSE 0) \in S
    OBVIOUS
  <2>1. k <= Len(b.d) => k \in 1..Len(b.d)
    BY <1>1
  <2> QED BY <1>1, <2>1, ElementOfSeq
<1>3. v \in [1..n -> S]
  BY <1>2
<1>4. v \in Seq(S) /\ Len(v) = n
  BY <1>3, Vector
<1>5. \A k \in 1..Len(q) : v[b.r + k] = b.d[b.r + k]
  BY <1>1 DEF Encloses, WellFormed
<1> HIDE DEF v
<1>6. Resize(b, n) = [b EXCEPT !.d = v]
  BY DEF Resize, v
<1>7. /\ Resize(b, n).d = v /\ Resize(b, n).w = b.w /\ Resize(b, n).r = b.r
      /\ Resize(b, n) \in Buffer(S)
  BY <1>4, <1>6 DEF Buffer
<1>8. Encloses(Resize(b, n), q)
  BY <1>1, <1>4, <1>5, <1>7 DEF Encloses, WellFormed
<1> QED BY <1>4, <1>7, <1>8

(* The unread bytes go to the start of the vector.                           *)
LEMMA MoveDownKeeps ==
  ASSUME NEW S, NEW b \in Buffer(S), NEW q \in Seq(S), Encloses(b, q)
  PROVE  /\ MoveDown(b) \in Buffer(S) /\ Encloses(MoveDown(b), q)
         /\ Len(MoveDown(b).d) = Len(b.d) /\ MoveDown(b).w = Len(q) /\ MoveDown(b).r = 0
<1> DEFINE n == Len(b.d)  v == [k \in DOMAIN b.d |-> IF k <= size(b) THEN b.d[b.r + k] ELSE b.d[k]]
<1>1. b.d \in Seq(S) /\ b.r \in Nat /\ b.w \in Nat /\ b.half \in Nat /\ n \in Nat /\ DOMAIN b.d = 1..n
  BY BufferFields, LenProperties
<1>2. size(b) = Len(q) /\ Len(q) \in Nat /\ b.r + Len(q) <= n
  BY <1>1 DEF size, Encloses, WellFormed
<1>3. \A k \in 1..n : (IF k <= size(b) THEN b.d[b.r + k] ELSE b.d[k]) \in S
  <2> SUFFICES ASSUME NEW k \in 1..n
               PROVE  (IF k <= size(b) THEN b.d[b.r + k] ELSE b.d[k]) \in S
    OBVIOUS
  <2>1. k <= size(b) => b.r + k \in 1..n
    BY <1>1, <1>2
  <2> QED BY <1>1, <2>1, ElementOfSeq
<1>4. v \in [1..n -> S]
  BY <1>1, <1>3
<1>5. v \in Seq(S) /\ Len(v) = n
  BY <1>1, <1>4, Vector
<1>6. \A k \in 1..Len(q) : v[k] = q[k]
  BY <1>1, <1>2 DEF Encloses
<1> HIDE DEF v, n
<1>7. MoveDown(b) = [d |-> v, r |-> 0, w |-> size(b), half |-> b.half]
  BY DEF MoveDown, v
<1>8. /\ MoveDown(b).d = v /\ MoveDown(b).w = Len(q) /\ MoveDown(b).r = 0
      /\ MoveDown(b) \in Buffer(S)
  BY <1>1, <1>2, <1>5, <1>7 DEF Buffer
<1>9. Len(q) <= n
  BY <1>1, <1>2
<1>10. Encloses(MoveDown(b), q)
  BY <1>1, <1>2, <1>5, <1>6, <1>8, <1>9 DEF Encloses, WellFormed
<1> QED BY <1>5, <1>8, <1>10 DEF n

LEMMA EnsureKeeps ==
  ASSUME NEW S, 0 \in S, NEW b \in Buffer(S), NEW q \in Seq(S), Encloses(b, q), NEW n \in Nat
  PROVE  /\ ensurewritable(b, n) \in Buffer(S) /\ Encloses(ensurewritable(b, n), q)
         /\ ensurewritable(b, n).w + n <= Len(ensurewritable(b, n).d)
<1>1. /\ b.d \in Seq(S) /\ b.r \in Nat /\ b.w \in Nat /\ b.half \in Nat /\ Len(b.d) \in Nat
      /\ MAX_SIZE \in Nat /\ GROW_SIZE \in Nat
  BY BufferFields, SizeAssumption
<1>2. CASE Len(b.d) >= b.w + n
  BY <1>1, <1>2 DEF ensurewritable
<1>3. CASE ~(Len(b.d) >= b.w + n) /\ Len(b.d) <= MAX_SIZE
  <2> DEFINE m == 2 * b.w + n + GROW_SIZE
  <2>1. m \in Nat /\ b.w <= m /\ b.w + n <= m
    <3>1. b.w \in Nat /\ n \in Nat /\ GROW_SIZE \in Nat
      BY <1>1
    <3> QED BY <3>1
  <2>2. ensurewritable(b, n) = Resize(b, m)
    BY <1>3 DEF ensurewritable
  <2> HIDE DEF m
  <2>3. /\ Resize(b, m) \in Buffer(S) /\ Encloses(Resize(b, m), q)
        /\ Len(Resize(b, m).d) = m /\ Resize(b, m).w = b.w
    BY <2>1, ResizeKeeps
  <2> QED BY <2>1, <2>2, <2>3
<1>4. CASE ~(Len(b.d) >= b.w + n) /\ ~(Len(b.d) <= MAX_SIZE)
  <2> DEFINE c == MoveDown(b)
  <2>1. c \in Buffer(S) /\ Encloses(c, q) /\ c.w = Len(q) /\ c.r = 0
    BY MoveDownKeeps
  <2>2. ensurewritable(b, n) = IF Len(c.d) < n + size(c) THEN Resize(c, size(c) + n) ELSE c
    BY <1>4 DEF ensurewritable
  <2> HIDE DEF c
  <2>3. size(c) = c.w /\ c.w \in Nat /\ Len(c.d) \in Nat
    BY <2>1, BufferFields DEF size
  <2>4. CASE Len(c.d) < n + size(c)
    <3> DEFINE m == size(c) + n
    <3>1. m \in Nat /\ c.w <= m /\ c.w + n <= m
      BY <2>3
    <3>2. ensurewritable(b, n) = Resize(c, m)
      BY <2>2, <2>4
    <3> HIDE DEF m
    <3>3. /\ Resize(c, m) \in Buffer(S) /\ Encloses(Resize(c, m), q)
          /\ Len(Resize(c, m).d) = m /\ Resize(c, m).w = c.w
      BY <2>1, <3>1, ResizeKeeps
    <3> QED BY <3>1, <3>2, <3>3
  <2>5. CASE ~(Len(c.d) < n + size(c))
    <3>1. ensurewritable(b, n) = c /\ c.w + n <= Len(c.d)
      BY <2>2, <2>3, <2>5
    <3> QED BY <2>1, <3>1
  <2> QED BY <2>4, <2>5
<1> QED BY <1>2, <1>3, <1>4

LEMMA FillAppends ==
  ASSUME NEW S, NEW b \in Buffer(S), NEW q \in Seq(S), Encloses(b, q), NEW s \in Seq(S),
         b.w + Len(s) <= Len(b.d)
  PROVE  Fill(b, s) \in Buffer(S) /\ Encloses(Fill(b, s), q \o s)
<1> DEFINE n == Len(b.d)  t == q \o s
           v == [k \in DOMAIN b.d |-> IF k > b.w /\ k <= b.w + Len(s) THEN s[k - b.w] ELSE b.d[k]]
<1>1. /\ b.d \in Seq(S) /\ b.r \in Nat /\ b.w \in Nat /\ b.half \in Nat /\ n \in Nat
      /\ DOMAIN b.d = 1..n /\ Len(s) \in Nat /\ Len(q) \in Nat
  BY BufferFields, LenProperties
<1>2. Len(q) = b.w - b.r /\ b.r <= b.w /\ b.w + Len(s) <= n
  BY DEF Encloses, WellFormed
<1>3. \A k \in 1..n : (IF k > b.w /\ k <= b.w + Len(s) THEN s[k - b.w] ELSE b.d[k]) \in S
  <2> SUFFICES ASSUME NEW k \in 1..n
               PROVE  (IF k > b.w /\ k <= b.w + Len(s) THEN s[k - b.w] ELSE b.d[k]) \in S
    OBVIOUS
  <2>1. k > b.w /\ k <= b.w + Len(s) => k - b.w \in 1..Len(s)
    BY <1>1
  <2> QED BY <1>1, <2>1, ElementOfSeq
<1>4. v \in [1..n -> S]
  BY <1>1, <1>3
<1>5. v \in Seq(S) /\ Len(v) = n
  BY <1>1, <1>4, Vector
<1>6. /\ t \in Seq(S) /\ Len(t) = Len(q) + Len(s)
      /\ \A k \in 1..Len(q) + Len(s) : t[k] = IF k <= Len(q) THEN q[k] ELSE s[k - Len(q)]
  BY ConcatProperties
<1> HIDE DEF t
<1>7. ASSUME NEW k \in 1..Len(t)
      PROVE  v[b.r + k] = t[k]
  <2>0. Len(t) = Len(q) + Len(s)
    BY <1>6
  <2>1. b.r + k \in 1..n
    <3>1. PICK x, y, z, r, w : x = Len(q) /\ y = Len(s) /\ z = n /\ r = b.r /\ w = b.w
      OBVIOUS
    <3>2. k \in 1..(x + y)
      BY <2>0, <3>1
    <3>3. /\ x \in Nat /\ y \in Nat /\ z \in Nat /\ r \in Nat /\ w \in Nat
          /\ x = w - r /\ w + y <= z
      BY <1>1, <1>2, <3>1
    <3>4. r + k \in 1..z
      BY <3>2, <3>3
    <3> QED BY <3>1, <3>4
  <2>2. CASE k <= Len(q)
    <3>1. ~(b.r + k > b.w) /\ k \in 1..Len(q)
      BY <1>1, <1>2, <1>6, <2>2
    <3>2. v[b.r + k] = b.d[b.r + k]
      BY <1>1, <2>1, <3>1
    <3>3. b.d[b.r + k] = q[k]
      BY <3>1 DEF Encloses
    <3>4. t[k] = q[k]
      BY <1>1, <1>6, <2>2
    <3> QED BY <3>2, <3>3, <3>4
  <2>3. CASE k > Len(q)
    <3>1. b.r + k > b.w /\ b.r + k <= b.w + Len(s) /\ b.r + k - b.w = k - Len(q)
      <4>1. PICK x, y, r, w : x = Len(q) /\ y = Len(s) /\ r = b.r /\ w = b.w
        OBVIOUS
      <4>2. k \in 1..(x + y) /\ k > x
        BY <2>0, <2>3, <4>1
      <4>3. x \in Nat /\ y \in Nat /\ r \in Nat /\ w \in Nat /\ x = w - r
        BY <1>1, <1>2, <4>1
      <4>4. r + k > w /\ r + k <= w + y /\ r + k - w = k - x
        BY <4>2, <4>3
      <4> QED BY <4>1, <4>4
    <3>2. v[b.r + k] = s[k - Len(q)]
      BY <1>1, <2>1, <3>1
    <3>3. t[k] = s[k - Len(q)]
      BY <1>1, <1>6, <2>3
    <3> QED BY <3>2, <3>3
  <2> QED BY <1>1, <1>6, <2>2, <2>3
<1> HIDE DEF v, n
<1>8. Fill(b, s) = [d |-> v, r |-> b.r, w |-> b.w + Len(s), half |-> b.half]
  BY DEF Fill, v
<1>9. /\ Fill(b, s).d = v /\ Fill(b, s).w = b.w + Len(s) /\ Fill(b, s).r = b.r
      /\ Fill(b, s) \in Buffer(S)
  BY <1>1, <1>5, <1>8 DEF Buffer
<1>10. Encloses(Fill(b, s), t)
  BY <1>1, <1>2, <1>5, <1>6, <1>7, <1>9 DEF Encloses, WellFormed
<1> QED BY <1>9, <1>10 DEF t

(* A vector that is nearly empty, and large, has room for the rest when it is cut. *)
LEMMA CutFits ==
  ASSUME NEW L \in Nat, NEW u \in Nat, NEW n \in Nat,
         L > SHRINK_SIZE, L - u - n > (L \div 8) * 7, u <= L
  PROVE  L - DOWN_SIZE \in Nat /\ u <= L - DOWN_SIZE
<1>1. DOWN_SIZE \in Nat /\ SHRINK_SIZE \in Nat /\ 16 * DOWN_SIZE <= SHRINK_SIZE
  BY SizeAssumption
<1>2. L \div 8 \in Nat /\ L <= 8 * (L \div 8) + 7 /\ 8 * (L \div 8) <= L
  OBVIOUS
<1>3. u + n < L - 7 * (L \div 8)
  BY <1>2
<1> QED BY <1>1, <1>2, <1>3

LEMMA ShrinkKeeps ==
  ASSUME NEW S, 0 \in S, NEW b \in Buffer(S), NEW q \in Seq(S), Encloses(b, q), NEW n \in Nat
  PROVE  Shrink(b, n) \in Buffer(S) /\ Encloses(Shrink(b, n), q)
<1> DEFINE L == Len(b.d)
<1>1. b.d \in Seq(S) /\ b.r \in Nat /\ b.w \in Nat /\ b.half \in Nat /\ L \in Nat
  BY BufferFields
<1>2. SHRINK_SIZE \in Nat /\ HALF \in Nat
  BY SizeAssumption
<1>3. ASSUME NEW h \in Nat, NEW c \in Buffer(S), Encloses(c, q)
      PROVE  [c EXCEPT !.half = h] \in Buffer(S) /\ Encloses([c EXCEPT !.half = h], q)
  BY <1>3 DEF Buffer, Encloses, WellFormed
<1>4. CASE L <= SHRINK_SIZE
  <2>1. Shrink(b, n) = b
    BY <1>4 DEF Shrink
  <2> QED BY <2>1
<1>5. CASE ~(L <= SHRINK_SIZE) /\ ~MuchFree(b, n)
  <2>1. Shrink(b, n) = [b EXCEPT !.half = 0]
    BY <1>5 DEF Shrink
  <2> QED BY <1>3, <2>1
<1>6. CASE ~(L <= SHRINK_SIZE) /\ MuchFree(b, n)
  <2>1. CASE b.half <= HALF
    <3>1. Shrink(b, n) = [b EXCEPT !.half = b.half + 1] /\ b.half + 1 \in Nat
      BY <1>1, <1>6, <2>1 DEF Shrink
    <3> QED BY <1>3, <3>1
  <2>2. CASE ~(b.half <= HALF)
    <3> DEFINE m == L - DOWN_SIZE  c == MoveDown(b)
    <3>1. c \in Buffer(S) /\ Encloses(c, q) /\ c.w = Len(q)
      BY MoveDownKeeps
    <3>2. size(b) = Len(q) /\ Len(q) \in Nat /\ Len(q) <= L
      BY <1>1 DEF size, Encloses, WellFormed
    <3>3. m \in Nat /\ Len(q) <= m
      <4>1. L > SHRINK_SIZE
        BY <1>1, <1>2, <1>6
      <4>2. L - size(b) - n > (L \div 8) * 7
        BY <1>6 DEF MuchFree
      <4> DEFINE u == size(b)
      <4>3. u \in Nat /\ u <= L /\ u = Len(q)
        BY <3>2
      <4> HIDE DEF L, u
      <4> QED BY <1>1, <4>1, <4>2, <4>3, CutFits DEF u
    <3>4. Shrink(b, n) = [Resize(c, m) EXCEPT !.half = 0]
      BY <1>6, <2>2 DEF Shrink
    <3> HIDE DEF m, c
    <3>5. Resize(c, m) \in Buffer(S) /\ Encloses(Resize(c, m), q)
      BY <3>1, <3>3, ResizeKeeps
    <3> QED BY <1>3, <3>4, <3>5
  <2> QED BY <2>1, <2>2
<1> QED BY <1>4, <1>5, <1>6

(* What the indices enclose is what data() and size() give.                  *)
LEMMA EnclosesData ==
  ASSUME NEW S, NEW b \in Buffer(S)
  PROVE  /\ WellFormed(b) => data(b) \in Seq(S) /\ Encloses(b, data(b)) /\ Len(data(b)) = size(b)
         /\ \A q \in Seq(S) : Encloses(b, q) => WellFormed(b) /\ data(b) = q
<1>1. b.d \in Seq(S) /\ b.r \in Nat /\ b.w \in Nat /\ b.half \in Nat /\ Len(b.d) \in Nat
  BY BufferFields
<1>2. ASSUME WellFormed(b)
      PROVE  data(b) \in Seq(S) /\ Encloses(b, data(b)) /\ Len(data(b)) = size(b)
  <2> DEFINE m == b.r + 1
  <2>1. \A i \in m..b.w : b.d[i] \in S
    BY <1>1, <1>2, ElementOfSeq DEF WellFormed
  <2>2. m \in Int /\ b.w \in Int /\ b.w - m + 1 = b.w - b.r /\ b.r <= b.w
    BY <1>1, <1>2 DEF WellFormed
  <2>3. data(b) = SubSeq(b.d, m, b.w)
    BY DEF data
  <2> HIDE DEF m
  <2>4. /\ data(b) \in Seq(S) /\ Len(data(b)) = IF m <= b.w THEN b.w - m + 1 ELSE 0
        /\ \A i \in 1..b.w - m + 1 : data(b)[i] = b.d[m + i - 1]
    BY <2>1, <2>2, <2>3, SubSeqProperties
  <2>5. Len(data(b)) = b.w - b.r
    BY <1>1, <2>2, <2>4 DEF m
  <2>6. \A k \in 1..Len(data(b)) : b.d[b.r + k] = data(b)[k]
    <3> SUFFICES ASSUME NEW k \in 1..Len(data(b))
                 PROVE  b.d[b.r + k] = data(b)[k]
      OBVIOUS
    <3>1. k \in 1..b.w - m + 1 /\ m + k - 1 = b.r + k
      BY <1>1, <2>2, <2>5 DEF m
    <3> QED BY <2>4, <3>1
  <2> QED BY <1>2, <2>4, <2>5, <2>6 DEF Encloses, size
<1>3. ASSUME NEW q \in Seq(S), Encloses(b, q)
      PROVE  WellFormed(b) /\ data(b) = q
  <2>1. WellFormed(b) /\ Len(q) = b.w - b.r
    BY <1>3 DEF Encloses
  <2>2. data(b) \in Seq(S) /\ Encloses(b, data(b))
    BY <1>2, <2>1
  <2>3. Len(data(b)) = Len(q) /\ \A k \in 1..Len(data(b)) : data(b)[k] = q[k]
    BY <1>3, <2>1, <2>2 DEF Encloses
  <2> QED BY <2>1, <2>2, <2>3, SeqEqual
<1> QED BY <1>2, <1>3

LEMMA EmptyBufferIs ==
  ASSUME NEW S, 0 \in S
  PROVE  EmptyBuffer \in Buffer(S) /\ WellFormed(EmptyBuffer) /\ data(EmptyBuffer) = << >>
<1> DEFINE v == [k \in 1..DEFAULT_SIZE |-> 0]
<1>1. DEFAULT_SIZE \in Nat
  BY SizeAssumption
<1>2. v \in [1..DEFAULT_SIZE -> S]
  OBVIOUS
<1>3. v \in Seq(S) /\ Len(v) = DEFAULT_SIZE
  BY <1>1, <1>2, Vector
<1> HIDE DEF v
<1>4. EmptyBuffer = [d |-> v, r |-> 0, w |-> 0, half |-> 0]
  BY DEF EmptyBuffer, v
<1>5. EmptyBuffer \in Buffer(S)
  BY <1>3, <1>4 DEF Buffer
<1>6. Encloses(EmptyBuffer, << >>)
  BY <1>1, <1>3, <1>4 DEF Encloses, WellFormed
<1>7. << >> \in Seq(S)
  BY EmptySeq
<1> QED BY <1>5, <1>6, <1>7, EnclosesData

(* FastBuffer::push_back appends, and ensurewritable followed by the bytes
   written behind its back and counted by push_back_withoutdata does so too:
   however the vector has grown, moved or been cut before, no unread byte is lost
   and no access leaves the vector.                                          *)
THEOREM BufferAppends ==
  ASSUME NEW S, 0 \in S, NEW b \in Buffer(S), WellFormed(b), NEW s \in Seq(S), NEW n \in Nat, Len(s) <= n
  PROVE  /\ LET c == push_back(b, s)
            IN  c \in Buffer(S) /\ WellFormed(c) /\ data(c) = data(b) \o s
         /\ LET c == Fill(ensurewritable(b, n), s)
            IN  c \in Buffer(S) /\ WellFormed(c) /\ data(c) = data(b) \o s
<1> DEFINE q == data(b)
<1>1. q \in Seq(S) /\ Encloses(b, q) /\ Len(s) \in Nat
  BY EnclosesData, LenProperties
<1>2. q \o s \in Seq(S)
  BY <1>1, ConcatProperties
<1> HIDE DEF q
<1>3. ASSUME NEW a \in Buffer(S), Encloses(a, q), NEW k \in Nat, Len(s) <= k
      PROVE  LET c == Fill(ensurewritable(a, k), s)
             IN  c \in Buffer(S) /\ WellFormed(c) /\ data(c) = q \o s
  <2> DEFINE e == ensurewritable(a, k)
  <2>1. e \in Buffer(S) /\ Encloses(e, q) /\ e.w + k <= Len(e.d)
    BY <1>1, <1>3, EnsureKeeps
  <2> HIDE DEF e
  <2>2. e.w \in Nat /\ Len(e.d) \in Nat
    BY <2>1, BufferFields
  <2>3. e.w + Len(s) <= Len(e.d)
    BY <1>1, <1>3, <2>1, <2>2
  <2>4. Fill(e, s) \in Buffer(S) /\ Encloses(Fill(e, s), q \o s)
    BY <1>1, <2>1, <2>3, FillAppends
  <2>5. WellFormed(Fill(e, s)) /\ data(Fill(e, s)) = q \o s
    BY <1>2, <2>4, EnclosesData
  <2> QED BY <2>4, <2>5 DEF e
<1>4. LET c == push_back(b, s)
      IN  c \in Buffer(S) /\ WellFormed(c) /\ data(c) = q \o s
  <2>1. CASE s = << >>
    <3>1. push_back(b, s) = b
      BY <2>1 DEF push_back
    <3>2. q \o s = q
      BY <1>1, <2>1, ConcatEmptySeq
    <3> QED BY <3>1, <3>2 DEF q
  <2>2. CASE s # << >>
    <3> DEFINE a == Shrink(b, Len(s))
    <3>1. a \in Buffer(S) /\ Encloses(a, q)
      BY <1>1, ShrinkKeeps
    <3>2. push_back(b, s) = Fill(ensurewritable(a, Len(s)), s)
      BY <2>2 DEF push_back
    <3> HIDE DEF a
    <3> QED BY <1>1, <1>3, <3>1, <3>2
  <2> QED BY <2>1, <2>2
<1>5. LET c == Fill(ensurewritable(b, n), s)
      IN  c \in Buffer(S) /\ WellFormed(c) /\ data(c) = q \o s
  BY <1>1, <1>3
<1> QED BY <1>4, <1>5 DEF q

(* FastBuffer::pop_front takes the first n unread bytes and no other.        *)
THEOREM BufferPops ==
  ASSUME NEW S, NEW b \in Buffer(S), WellFormed(b), NEW n \in Nat, n <= size(b)
  PROVE  LET c == pop_front(b, n)
         IN  c \in Buffer(S) /\ WellFormed(c) /\ data(b) = SubSeq(data(b), 1, n) \o data(c)
<1> DEFINE q == data(b)  m == n + 1  t == SubSeq(q, m, Len(q))  c == pop_front(b, n)
<1>1. /\ b.d \in Seq(S) /\ b.r \in Nat /\ b.w \in Nat /\ b.half \in Nat /\ Len(b.d) \in Nat
      /\ b.r <= b.w /\ b.w <= Len(b.d)
  BY BufferFields DEF WellFormed
<1>2. q \in Seq(S) /\ Encloses(b, q) /\ Len(q) = b.w - b.r /\ n <= Len(q)
  BY EnclosesData DEF size
<1>3. m \in Int /\ Len(q) \in Int /\ Len(q) - m + 1 = Len(q) - n
  BY <1>1, <1>2
<1> HIDE DEF q
<1>4. \A i \in m..Len(q) : q[i] \in S
  BY <1>2, <1>3, ElementOfSeq
<1> HIDE DEF m
<1>5. /\ t \in Seq(S) /\ Len(t) = IF m <= Len(q) THEN Len(q) - m + 1 ELSE 0
      /\ \A i \in 1..Len(q) - m + 1 : t[i] = q[m + i - 1]
  BY <1>3, <1>4, SubSeqProperties
<1> HIDE DEF t
<1>6. Len(t) = Len(q) - n /\ \A i \in 1..Len(t) : t[i] = q[n + i]
  <2>1. Len(t) = Len(q) - n
    BY <1>1, <1>2, <1>3, <1>5 DEF m
  <2>2. ASSUME NEW i \in 1..Len(t)
        PROVE  t[i] = q[n + i]
    <3>1. i \in 1..Len(q) - m + 1 /\ m + i - 1 = n + i
      BY <1>2, <1>3, <2>1 DEF m
    <3> QED BY <1>5, <3>1
  <2> QED BY <2>1, <2>2
<1>7. c \in Buffer(S) /\ Encloses(c, t)
  <2>1. CASE b.r + n >= b.w
    <3>1. c = [d |-> b.d, r |-> 0, w |-> 0, half |-> b.half]
      BY <2>1 DEF pop_front, clear
    <3>2. c \in Buffer(S) /\ c.r = 0 /\ c.w = 0 /\ c.d = b.d
      BY <1>1, <3>1 DEF Buffer
    <3>3. Len(t) = 0
      BY <1>1, <1>2, <1>6, <2>1
    <3> QED BY <1>1, <3>2, <3>3 DEF Encloses, WellFormed
  <2>2. CASE ~(b.r + n >= b.w)
    <3>1. c = [b EXCEPT !.r = b.r + n]
      BY <2>2 DEF pop_front
    <3>2. c \in Buffer(S) /\ c.r = b.r + n /\ c.w = b.w /\ c.d = b.d
      BY <1>1, <3>1 DEF Buffer
    <3>3. WellFormed(c) /\ Len(t) = c.w - c.r
      BY <1>1, <1>2, <1>6, <2>2, <3>2 DEF WellFormed
    <3>4. ASSUME NEW k \in 1..Len(t)
          PROVE  c.d[c.r + k] = t[k]
      <4>1. n + k \in 1..Len(q) /\ b.r + (n + k) = c.r + k
        BY <1>1, <1>2, <1>6, <3>2
      <4> QED BY <1>2, <1>6, <3>2, <4>1 DEF Encloses
    <3> QED BY <3>2, <3>3, <3>4 DEF Encloses
  <2> QED BY <2>1, <2>2
<1> HIDE DEF c
<1>8. WellFormed(c) /\ data(c) = t
  BY <1>5, <1>7, EnclosesData
<1>9. q = SubSeq(q, 1, n) \o t
  <2> DEFINE p == SubSeq(q, 1, n)  u == p \o t
  <2>1. \A i \in 1..n : q[i] \in S
    BY <1>2, ElementOfSeq
  <2>2. p \in Seq(S) /\ Len(p) = n /\ \A i \in 1..n : p[i] = q[i]
    BY <2>1, SubSeqProperties
  <2> HIDE DEF p
  <2>3. /\ u \in Seq(S) /\ Len(u) = n + Len(t)
        /\ \A i \in 1..n + Len(t) : u[i] = IF i <= n THEN p[i] ELSE t[i - n]
    BY <1>5, <2>2, ConcatProperties
  <2> HIDE DEF u
  <2>4. Len(q) \in Nat /\ n <= Len(q)
    BY <1>2
  <2>5. Len(u) = Len(q)
    BY <1>6, <2>3, <2>4
  <2>6. ASSUME NEW i \in 1..Len(q)
        PROVE  q[i] = u[i]
    <3>1. CASE i <= n
      BY <1>6, <2>2, <2>3, <2>4, <3>1
    <3>2. CASE i > n
      <4>1. i - n \in 1..Len(t) /\ n + (i - n) = i /\ i \in 1..n + Len(t)
        BY <1>6, <2>4, <3>2
      <4> QED BY <1>6, <2>3, <3>2, <4>1
    <3> QED BY <3>1, <3>2
  <2>7. q = u
    BY <1>2, <2>3, <2>5, <2>6, SeqEqual
  <2> QED BY <2>7 DEF u, p
<1> QED BY <1>7, <1>8, <1>9 DEF q, c

-----------------------------------------------------------------------------
(* Induction over the numbers, for a set instead of a predicate: a set of    *)
(* numbers has a least element.                                              *)
LEMMA Induction ==
  ASSUME NEW T, 0 \in T, \A n \in Nat : n \in T => n + 1 \in T
  PROVE  Nat \subseteq T
<1> SUFFICES ASSUME ~(Nat \subseteq T) PROVE FALSE
  OBVIOUS
<1> DEFINE L == OpToRel(<, Nat)  R == {n \in Nat : n \notin T}
<1>1. IsWellFoundedOn(L, Nat)
  BY NatLessThanWellFounded
<1>2. L = {p \in Nat \X Nat : p[1] < p[2]}
  BY DEF OpToRel
<1>3. R \subseteq Nat /\ R # {}
  OBVIOUS
<1> HIDE DEF L
<1>4. PICK n \in R : \A k \in R : ~(<<k, n>> \in L)
  <2> HIDE DEF R
  <2> QED BY <1>1, <1>3, WFMin
<1>5. n \in Nat /\ n # 0 /\ n \notin T
  OBVIOUS
<1>6. n - 1 \in Nat /\ n - 1 \notin T
  BY <1>5
<1>7. <<n - 1, n>> \in L
  BY <1>2, <1>5, <1>6
<1> QED BY <1>4, <1>6, <1>7

(* A function defined from its value at 0, upwards.                          *)
Upward(f, n, a, G) == f[0] = a /\ \A k \in 1..n : f[k] = G[<<f[k - 1], k>>]

LEMMA UpwardFunction ==
  ASSUME NEW n \in Nat, NEW V, NEW a \in V, NEW G \in [V \X (1..n) -> V]
  PROVE  \E f \in [0..n -> V] : Upward(f, n, a, G)
<1> DEFINE T == {j \in Nat : j <= n => \E f \in [0..j -> V] : Upward(f, j, a, G)}
<1>1. 0 \in T
  <2> DEFINE f == [k \in 0..0 |-> a]
  <2>1. f \in [0..0 -> V] /\ Upward(f, 0, a, G)
    BY DEF Upward
  <2> QED BY <2>1
<1>2. ASSUME NEW j \in Nat, j \in T
      PROVE  j + 1 \in T
  <2> SUFFICES ASSUME j + 1 <= n PROVE \E f \in [0..(j + 1) -> V] : Upward(f, j + 1, a, G)
    OBVIOUS
  <2>1. PICK f \in [0..j -> V] : Upward(f, j, a, G)
    BY <1>2
  <2> DEFINE g == [k \in 0..(j + 1) |-> IF k <= j THEN f[k] ELSE G[<<f[j], j + 1>>]]
  <2>2. f[j] \in V /\ j + 1 \in 1..n
    OBVIOUS
  <2>3. G[<<f[j], j + 1>>] \in V
    BY <2>2
  <2>4. g \in [0..(j + 1) -> V]
    BY <2>3
  <2>5. g[0] = a
    BY <2>1 DEF Upward
  <2>6. ASSUME NEW k \in 1..(j + 1) PROVE g[k] = G[<<g[k - 1], k>>]
    <3>1. CASE k <= j
      BY <2>1, <3>1 DEF Upward
    <3>2. CASE ~(k <= j)
      <4>1. k = j + 1
        BY <3>2
      <4> QED BY <4>1
    <3> QED BY <3>1, <3>2
  <2> HIDE DEF g
  <2> QED BY <2>4, <2>5, <2>6 DEF Upward
<1>3. n \in T
  <2> HIDE DEF T
  <2> QED BY <1>1, <1>2, Induction
<1> QED BY <1>3

(* Strings of bytes.                                                         *)
Str == Seq(Byte)

LEMMA StrEmpty == << >> \in Str /\ Len(<< >>) = 0 /\ \A a \in Str : a \o << >> = a /\ << >> \o a = a
BY ConcatEmptySeq, EmptySeq DEF Str

LEMMA StrLen ==
  ASSUME NEW a \in Str
  PROVE  Len(a) \in Nat /\ DOMAIN a = 1..Len(a) /\ \A i \in 1..Len(a) : a[i] \in Byte
BY DEF Str

LEMMA StrConcat ==
  ASSUME NEW a \in Str, NEW b \in Str
  PROVE  /\ a \o b \in Str /\ Len(a \o b) = Len(a) + Len(b)
         /\ \A i \in 1..(Len(a) + Len(b)) :
              (a \o b)[i] = IF i <= Len(a) THEN a[i] ELSE b[i - Len(a)]
BY ConcatProperties DEF Str

LEMMA StrAssoc ==
  ASSUME NEW a \in Str, NEW b \in Str, NEW c \in Str
  PROVE  (a \o b) \o c = a \o (b \o c)
BY ConcatAssociative DEF Str

LEMMA StrEqual ==
  ASSUME NEW a \in Str, NEW b \in Str, Len(a) = Len(b), \A i \in 1..Len(a) : a[i] = b[i]
  PROVE  a = b
BY SeqEqual DEF Str

(* FlattenSeq, from its value on one element less.                           *)
Joins(g, s) == g[0] = << >> /\ \A i \in 1..Len(s) : g[i] = g[i - 1] \o s[i]

LEMMA FlattenUpward ==
  ASSUME NEW s \in Seq(Str)
  PROVE  \E g \in [0..Len(s) -> Str] : Joins(g, s) /\ FlattenSeq(s) = g[Len(s)]
<1> DEFINE n == Len(s)
           G == [p \in Str \X (1..n) |-> p[1] \o s[p[2]]]
           D(f) == f = [i \in 1..n |-> IF i = 1 THEN s[i] ELSE f[i - 1] \o s[i]]
           f == CHOOSE x : D(x)
<1>1. n \in Nat /\ \A i \in 1..n : s[i] \in Str
  OBVIOUS
<1>2. PICK g \in [0..n -> Str] : g[0] = << >> /\ \A k \in 1..n : g[k] = G[<<g[k - 1], k>>]
  <2>1. << >> \in Str
    BY StrEmpty
  <2>2. G \in [Str \X (1..n) -> Str]
    <3>1. ASSUME NEW p \in Str \X (1..n) PROVE p[1] \o s[p[2]] \in Str
      <4>1. p[1] \in Str /\ s[p[2]] \in Str
        BY <1>1
      <4> QED BY <4>1, StrConcat
    <3> QED BY <3>1
  <2> DEFINE V == Str  a == << >>
  <2> HIDE DEF G, n, V, a
  <2>3. a \in V /\ G \in [V \X (1..n) -> V]
    BY <2>1, <2>2 DEF V, a
  <2>4. \E g \in [0..n -> V] : Upward(g, n, a, G)
    BY <1>1, <2>3, UpwardFunction
  <2> QED BY <2>4 DEF V, a, Upward
<1>3. \A i \in 1..n : g[i] = g[i - 1] \o s[i]
  <2> SUFFICES ASSUME NEW i \in 1..n PROVE g[i] = g[i - 1] \o s[i]
    OBVIOUS
  <2>1. i - 1 \in 0..n
    BY <1>1
  <2>2. <<g[i - 1], i>> \in Str \X (1..n)
    BY <2>1
  <2> QED BY <1>2, <2>2
<1>4. CASE n = 0
  <2>1. FlattenSeq(s) = s /\ s = << >>
    BY <1>4 DEF FlattenSeq
  <2> QED BY <1>2, <1>3, <1>4, <2>1 DEF Joins
<1>5. CASE n # 0
  <2>1. FlattenSeq(s) = f[n]
    BY <1>5 DEF FlattenSeq
  <2>2. g[1] = s[1]
    <3>1. 1 \in 1..n /\ 1 - 1 = 0
      BY <1>1, <1>5
    <3>2. s[1] \in Str /\ g[1] = g[0] \o s[1]
      BY <1>1, <1>3, <3>1
    <3> QED BY <1>2, <3>2, StrEmpty
  <2> DEFINE h == [i \in 1..n |-> g[i]]
  <2>3. D(h)
    <3>1. ASSUME NEW i \in 1..n
          PROVE  h[i] = IF i = 1 THEN s[i] ELSE h[i - 1] \o s[i]
      <4>1. CASE i = 1
        BY <2>2, <4>1
      <4>2. CASE i # 1
        <5>1. i - 1 \in 1..n
          BY <1>1, <4>2
        <5> QED BY <1>3, <4>2, <5>1
      <4> QED BY <4>1, <4>2
    <3> QED BY <3>1
  <2>4. D(f)
    <3> HIDE DEF h, D
    <3> QED BY <2>3
  <2>5. \A i \in 1..n : f[i] = IF i = 1 THEN s[i] ELSE f[i - 1] \o s[i]
    <3> HIDE DEF f
    <3> QED BY <2>4
  <2> HIDE DEF f
  <2> DEFINE T == {j \in Nat : j + 1 \in 1..n => f[j + 1] = g[j + 1]}
  <2>6. 0 \in T
    BY <1>1, <1>5, <2>2, <2>5
  <2>7. ASSUME NEW j \in Nat, j \in T PROVE j + 1 \in T
    <3> SUFFICES ASSUME j + 2 \in 1..n PROVE f[j + 2] = g[j + 2]
      OBVIOUS
    <3>1. j + 1 \in 1..n /\ j + 2 # 1 /\ (j + 2) - 1 = j + 1
      BY <1>1
    <3>2. f[j + 2] = f[j + 1] \o s[j + 2]
      <4>1. f[j + 2] = f[(j + 2) - 1] \o s[j + 2]
        BY <2>5, <3>1
      <4> QED BY <3>1, <4>1
    <3>3. g[j + 2] = g[j + 1] \o s[j + 2]
      <4>1. g[j + 2] = g[(j + 2) - 1] \o s[j + 2]
        BY <1>3
      <4> QED BY <3>1, <4>1
    <3> QED BY <2>7, <3>1, <3>2, <3>3
  <2>8. n - 1 \in T
    <3>1. n - 1 \in Nat
      BY <1>1, <1>5
    <3> HIDE DEF T
    <3> QED BY <2>6, <2>7, <3>1, Induction
  <2>9. f[n] = g[n]
    BY <1>1, <1>5, <2>8
  <2> QED BY <1>2, <1>3, <2>1, <2>9 DEF Joins
<1> QED BY <1>4, <1>5

(* FlattenSeq is the last value of any such function.                        *)
LEMMA FlattenIs ==
  ASSUME NEW s \in Seq(Str), NEW h, Joins(h, s)
  PROVE  FlattenSeq(s) = h[Len(s)]
<1> DEFINE n == Len(s)
<1>1. n \in Nat
  OBVIOUS
<1>2. PICK g \in [0..n -> Str] : Joins(g, s) /\ FlattenSeq(s) = g[n]
  BY FlattenUpward
<1> DEFINE T == {j \in Nat : j <= n => h[j] = g[j]}
<1>3. 0 \in T
  BY <1>2 DEF Joins
<1>4. ASSUME NEW j \in Nat, j \in T PROVE j + 1 \in T
  <2> SUFFICES ASSUME j + 1 <= n PROVE h[j + 1] = g[j + 1]
    OBVIOUS
  <2>1. j + 1 \in 1..n /\ j <= n /\ (j + 1) - 1 = j
    BY <1>1
  <2> QED BY <1>2, <1>4, <2>1 DEF Joins
<1>5. n \in T
  <2> HIDE DEF T
  <2> QED BY <1>1, <1>3, <1>4, Induction
<1> QED BY <1>1, <1>2, <1>5

(* FlattenSeq joins the strings: of none, of one, of two lists of them.      *)
LEMMA FlattenType ==
  ASSUME NEW s \in Seq(Str)
  PROVE  FlattenSeq(s) \in Str
<1>1. PICK g \in [0..Len(s) -> Str] : FlattenSeq(s) = g[Len(s)]
  BY FlattenUpward
<1>2. Len(s) \in 0..Len(s)
  OBVIOUS
<1> QED BY <1>1, <1>2

LEMMA FlattenEmpty == FlattenSeq(<< >>) = << >>
<1>1. Len(<< >>) = 0
  OBVIOUS
<1> QED BY <1>1 DEF FlattenSeq

LEMMA JoinedUpward ==
  ASSUME NEW s \in Seq(Str), NEW t \in Seq(Str),
         NEW g \in [0..Len(s) -> Str], Joins(g, s), NEW f \in [0..Len(t) -> Str], Joins(f, t)
  PROVE  \E h : Joins(h, s \o t) /\ h[Len(s \o t)] = g[Len(s)] \o f[Len(t)]
<1>1. PICK m, n, u : m = Len(s) /\ n = Len(t) /\ u = s \o t
  OBVIOUS
<1>2. /\ m \in Nat /\ n \in Nat /\ g \in [0..m -> Str] /\ f \in [0..n -> Str]
      /\ g[0] = << >> /\ \A i \in 1..m : g[i] = g[i - 1] \o s[i]
      /\ f[0] = << >> /\ \A i \in 1..n : f[i] = f[i - 1] \o t[i]
  <2>1. m \in Nat /\ n \in Nat
    BY <1>1, LenProperties
  <2>2. Joins(g, s) /\ Joins(f, t)
    OBVIOUS
  <2> QED BY <1>1, <2>1, <2>2 DEF Joins
<1>3. /\ u \in Seq(Str) /\ Len(u) = m + n /\ \A i \in 1..n : t[i] \in Str
      /\ \A i \in 1..(m + n) : u[i] = IF i <= m THEN s[i] ELSE t[i - m]
  BY <1>1, ConcatProperties
<1>4. PICK h : h = [j \in 0..(m + n) |-> IF j <= m THEN g[j] ELSE g[m] \o f[j - m]]
  OBVIOUS
<1>5. g[m] \in Str /\ g[m] \o f[0] = g[m]
  <2>1. m \in 0..m
    BY <1>2
  <2>2. g[m] \in Str
    BY <1>2, <2>1
  <2> QED BY <1>2, <2>2, StrEmpty
<1>6. h[0] = << >>
  BY <1>2, <1>4
<1>7. ASSUME NEW i \in 1..(m + n) PROVE h[i] = h[i - 1] \o u[i]
  <2>1. CASE i <= m
    <3>1. h[i] = g[i] /\ h[i - 1] = g[i - 1]
      BY <1>2, <1>4, <2>1
    <3>2. i \in 1..m
      BY <1>2, <2>1
    <3>3. g[i] = g[i - 1] \o s[i] /\ u[i] = s[i]
      BY <1>2, <1>3, <2>1, <3>2
    <3> QED BY <3>1, <3>3
  <2>2. CASE ~(i <= m)
    <3>1. PICK k : k = i - m
      OBVIOUS
    <3>2. k \in 1..n /\ k - 1 \in 0..n /\ (i - 1) - m = k - 1
      BY <1>2, <2>2, <3>1
    <3>3. h[i - 1] = g[m] \o f[k - 1]
      <4>1. CASE i - 1 <= m
        <5>1. i - 1 = m /\ k - 1 = 0
          BY <1>2, <2>2, <3>1, <4>1
        <5>2. h[i - 1] = g[m] /\ f[k - 1] = f[0]
          BY <1>2, <1>4, <5>1
        <5> QED BY <1>5, <5>2
      <4>2. CASE ~(i - 1 <= m)
        <5>1. i - 1 \in 0..(m + n)
          BY <1>2
        <5>2. h[i - 1] = g[m] \o f[(i - 1) - m]
          BY <1>4, <4>2, <5>1
        <5> QED BY <3>2, <5>2
      <4> QED BY <4>1, <4>2
    <3>4. h[i] = g[m] \o f[k] /\ u[i] = t[k]
      <4>1. i \in 0..(m + n)
        BY <1>2
      <4>2. h[i] = g[m] \o f[i - m]
        BY <1>4, <2>2, <4>1
      <4> QED BY <1>3, <2>2, <3>1, <4>2
    <3>5. f[k] = f[k - 1] \o t[k] /\ f[k - 1] \in Str /\ t[k] \in Str
      BY <1>2, <1>3, <3>2
    <3>6. (g[m] \o f[k - 1]) \o t[k] = g[m] \o (f[k - 1] \o t[k])
      BY <1>5, <3>5, StrAssoc
    <3> QED BY <3>3, <3>4, <3>5, <3>6
  <2> QED BY <2>1, <2>2
<1>8. h[m + n] = g[m] \o f[n]
  <2>1. CASE n = 0
    <3>1. h[m + n] = g[m] /\ f[n] = f[0]
      BY <1>2, <1>4, <2>1
    <3> QED BY <1>5, <3>1
  <2>2. CASE n # 0
    <3>1. ~(m + n <= m) /\ (m + n) - m = n /\ m + n \in 0..(m + n)
      BY <1>2, <2>2
    <3> QED BY <1>4, <3>1
  <2> QED BY <2>1, <2>2
<1> QED BY <1>1, <1>3, <1>6, <1>7, <1>8 DEF Joins

LEMMA FlattenConcat ==
  ASSUME NEW s \in Seq(Str), NEW t \in Seq(Str)
  PROVE  FlattenSeq(s \o t) = FlattenSeq(s) \o FlattenSeq(t)
<1>1. PICK g \in [0..Len(s) -> Str] : Joins(g, s) /\ FlattenSeq(s) = g[Len(s)]
  BY FlattenUpward
<1>2. PICK f \in [0..Len(t) -> Str] : Joins(f, t) /\ FlattenSeq(t) = f[Len(t)]
  BY FlattenUpward
<1>3. PICK h : Joins(h, s \o t) /\ h[Len(s \o t)] = g[Len(s)] \o f[Len(t)]
  BY <1>1, <1>2, JoinedUpward
<1>4. s \o t \in Seq(Str)
  BY ConcatProperties
<1>5. FlattenSeq(s \o t) = h[Len(s \o t)]
  BY <1>3, <1>4, FlattenIs
<1> QED BY <1>1, <1>2, <1>3, <1>5

LEMMA FlattenOne ==
  ASSUME NEW x \in Str
  PROVE  FlattenSeq(<<x>>) = x
<1> DEFINE h == [i \in 0..1 |-> IF i = 0 THEN << >> ELSE x]
<1>1. <<x>> \in Seq(Str) /\ Len(<<x>>) = 1 /\ <<x>>[1] = x
  OBVIOUS
<1>2. << >> \o x = x
  BY StrEmpty
<1>3. Joins(h, <<x>>)
  <2>1. h[0] = << >> /\ h[1] = x /\ 1 - 1 = 0 /\ \A i \in 1..1 : i = 1
    OBVIOUS
  <2> HIDE DEF h
  <2> QED BY <1>1, <1>2, <2>1 DEF Joins
<1> HIDE DEF h
<1>4. FlattenSeq(<<x>>) = h[1]
  BY <1>1, <1>3, FlattenIs
<1> QED BY <1>4 DEF h

-----------------------------------------------------------------------------
(* Numbers on the wire.                                                      *)

LEMMA DivMod ==
  ASSUME NEW x \in Nat
  PROVE  /\ x \div 256 \in Nat /\ x % 256 \in Byte
         /\ x = 256 * (x \div 256) + (x % 256)
<1>1. x \div 256 \in Nat
  BY SMT
<1>2. x % 256 \in Byte
  BY SMT DEF Byte
<1>3. x = 256 * (x \div 256) + (x % 256)
  BY SMT
<1> QED BY <1>1, <1>2, <1>3

Shifts(q, v, n) == q[0] = v /\ \A k \in 1..n : q[k] = q[k - 1] \div 256

LEMMA ShiftedUpward ==
  ASSUME NEW v \in Nat, NEW n \in Nat
  PROVE  \E q \in [0..n -> Nat] : Shifts(q, v, n) /\ Shifted(v, n) = q[n]
<1> DEFINE D(f) == f = [k \in 0..n |-> IF k = 0 THEN v ELSE f[k - 1] \div 256]
           f == CHOOSE x : D(x)
<1>1. PICK G : G = [p \in Nat \X (1..n) |-> p[1] \div 256]
  OBVIOUS
<1>2. G \in [Nat \X (1..n) -> Nat]
  <2>1. ASSUME NEW p \in Nat \X (1..n) PROVE p[1] \div 256 \in Nat
    <3>1. p[1] \in Nat
      OBVIOUS
    <3> QED BY <3>1, DivMod
  <2> QED BY <1>1, <2>1
<1>3. PICK g \in [0..n -> Nat] : Upward(g, n, v, G)
  BY <1>2, UpwardFunction
<1>4. ASSUME NEW k \in 1..n PROVE g[k] = g[k - 1] \div 256
  <2>1. <<g[k - 1], k>> \in Nat \X (1..n) /\ g[k] = G[<<g[k - 1], k>>]
    BY <1>3 DEF Upward
  <2> QED BY <1>1, <2>1
<1>5. D(g)
  <2>1. g[0] = v
    BY <1>3 DEF Upward
  <2> QED BY <1>4, <2>1
<1>6. D(f)
  <2> HIDE DEF D
  <2> QED BY <1>5
<1>7. Shifted(v, n) = f[n]
  BY DEF Shifted
<1> HIDE DEF f
<1>8. Shifts(f, v, n)
  BY <1>6 DEF Shifts
<1>9. f \in [0..n -> Nat]
  <2> DEFINE T == {j \in Nat : j <= n => f[j] \in Nat}
  <2>1. 0 \in T
    BY <1>8 DEF Shifts
  <2>2. ASSUME NEW j \in Nat, j \in T PROVE j + 1 \in T
    <3> SUFFICES ASSUME j + 1 <= n PROVE f[j + 1] \in Nat
      OBVIOUS
    <3>1. j + 1 \in 1..n /\ (j + 1) - 1 = j /\ f[j] \in Nat
      BY <2>2
    <3>2. f[j + 1] = f[j] \div 256
      BY <1>8, <3>1 DEF Shifts
    <3> QED BY <3>1, <3>2, DivMod
  <2>3. Nat \subseteq T
    <3> HIDE DEF T
    <3> QED BY <2>1, <2>2, Induction
  <2>4. \A j \in 0..n : f[j] \in Nat
    BY <2>3
  <2> QED BY <1>6, <2>4
<1> QED BY <1>7, <1>8, <1>9

LEMMA ShiftsUnique ==
  ASSUME NEW v, NEW m \in Nat, NEW n \in Nat, m <= n,
         NEW p, Shifts(p, v, m), NEW q, Shifts(q, v, n)
  PROVE  p[m] = q[m]
<1> DEFINE T == {j \in Nat : j <= m => p[j] = q[j]}
<1>1. 0 \in T
  BY DEF Shifts
<1>2. ASSUME NEW j \in Nat, j \in T PROVE j + 1 \in T
  <2> SUFFICES ASSUME j + 1 <= m PROVE p[j + 1] = q[j + 1]
    OBVIOUS
  <2>1. j + 1 \in 1..m /\ j + 1 \in 1..n /\ (j + 1) - 1 = j /\ p[j] = q[j]
    BY <1>2
  <2>2. p[j + 1] = p[j] \div 256
    BY <2>1 DEF Shifts
  <2>3. q[j + 1] = q[j] \div 256
    BY <2>1 DEF Shifts
  <2> QED BY <2>1, <2>2, <2>3
<1>3. m \in T
  <2> HIDE DEF T
  <2> QED BY <1>1, <1>2, Induction
<1> QED BY <1>3

(* ntohl(htonl(v)) = v, for a number that fits, in as many bytes as it is put. *)
LEMMA HostUpward ==
  ASSUME NEW b \in Str
  PROVE  \E h \in [0..Len(b) -> Nat] :
           /\ h[0] = 0 /\ \A k \in 1..Len(b) : h[k] = 256 * h[k - 1] + b[k]
           /\ Host(b) = h[Len(b)]
<1>1. PICK n : n = Len(b)
  OBVIOUS
<1>2. n \in Nat /\ \A k \in 1..n : b[k] \in Nat
  <2>1. n \in Nat
    BY <1>1, StrLen
  <2>2. \A k \in 1..n : b[k] \in Byte
    BY <1>1, StrLen
  <2> QED BY <2>1, <2>2 DEF Byte
<1> DEFINE D(f) == f = [k \in 0..n |-> IF k = 0 THEN 0 ELSE 256 * f[k - 1] + b[k]]
           f == CHOOSE x : D(x)
<1>3. PICK G : G = [p \in Nat \X (1..n) |-> 256 * p[1] + b[p[2]]]
  OBVIOUS
<1>4. G \in [Nat \X (1..n) -> Nat]
  <2>1. ASSUME NEW p \in Nat \X (1..n) PROVE 256 * p[1] + b[p[2]] \in Nat
    <3>1. p[1] \in Nat /\ b[p[2]] \in Nat
      BY <1>2
    <3> QED BY <3>1
  <2> QED BY <1>3, <2>1
<1>5. PICK g \in [0..n -> Nat] : Upward(g, n, 0, G)
  <2>1. 0 \in Nat
    OBVIOUS
  <2> QED BY <1>2, <1>4, <2>1, UpwardFunction
<1>6. ASSUME NEW k \in 1..n PROVE g[k] = 256 * g[k - 1] + b[k]
  <2>0. k - 1 \in 0..n
    BY <1>2
  <2>1. <<g[k - 1], k>> \in Nat \X (1..n) /\ g[k] = G[<<g[k - 1], k>>]
    BY <1>5, <2>0 DEF Upward
  <2> QED BY <1>3, <2>1
<1>7. D(g)
  <2>1. g[0] = 0
    BY <1>5 DEF Upward
  <2> QED BY <1>6, <2>1
<1>8. D(f)
  <2> HIDE DEF D
  <2> QED BY <1>7
<1>9. Host(b) = f[n]
  BY <1>1 DEF Host
<1> HIDE DEF f
<1>10. f[0] = 0 /\ \A k \in 1..n : f[k] = 256 * f[k - 1] + b[k]
  BY <1>2, <1>8
<1>11. f \in [0..n -> Nat]
  <2> DEFINE T == {j \in Nat : j <= n => f[j] \in Nat}
  <2>1. 0 \in T
    BY <1>10
  <2>2. ASSUME NEW j \in Nat, j \in T PROVE j + 1 \in T
    <3> SUFFICES ASSUME j + 1 <= n PROVE f[j + 1] \in Nat
      OBVIOUS
    <3>1. j + 1 \in 1..n /\ (j + 1) - 1 = j /\ f[j] \in Nat
      BY <1>2, <2>2
    <3>2. f[j + 1] = 256 * f[j] + b[j + 1] /\ b[j + 1] \in Nat
      BY <1>2, <1>10, <3>1
    <3> QED BY <3>1, <3>2
  <2>3. Nat \subseteq T
    <3> HIDE DEF T
    <3> QED BY <2>1, <2>2, Induction
  <2>4. \A j \in 0..n : f[j] \in Nat
    BY <2>3
  <2> QED BY <1>8, <2>4
<1> QED BY <1>1, <1>9, <1>10, <1>11

LEMMA HostType ==
  ASSUME NEW b \in Str
  PROVE  Host(b) \in Nat
<1>1. PICK h \in [0..Len(b) -> Nat] : Host(b) = h[Len(b)]
  BY HostUpward
<1>2. Len(b) \in 0..Len(b)
  BY StrLen
<1> QED BY <1>1, <1>2

Digits(b, q, w) == \A k \in 1..w : b[k] = q[w - k] % 256

LEMMA NetIs ==
  ASSUME NEW v \in Nat, NEW w \in Nat
  PROVE  /\ Net(v, w) \in Str /\ Len(Net(v, w)) = w
         /\ \E q \in [0..w -> Nat] :
              Shifts(q, v, w) /\ Shifted(v, w) = q[w] /\ Digits(Net(v, w), q, w)
<1>1. PICK q \in [0..w -> Nat] : Shifts(q, v, w) /\ Shifted(v, w) = q[w]
  BY ShiftedUpward
<1>2. ASSUME NEW k \in 1..w PROVE Shifted(v, w - k) = q[w - k]
  <2>1. PICK m : m = w - k
    OBVIOUS
  <2>2. m \in Nat /\ m <= w
    BY <2>1
  <2>3. PICK p \in [0..m -> Nat] : Shifts(p, v, m) /\ Shifted(v, m) = p[m]
    BY <2>2, ShiftedUpward
  <2>4. p[m] = q[m]
    BY <1>1, <2>2, <2>3, ShiftsUnique
  <2> QED BY <2>1, <2>3, <2>4
<1>3. ASSUME NEW k \in 1..w PROVE Shifted(v, w - k) % 256 = q[w - k] % 256 /\ q[w - k] % 256 \in Byte
  <2>1. w - k \in 0..w
    OBVIOUS
  <2>2. q[w - k] \in Nat
    BY <2>1
  <2> QED BY <1>2, <2>2, DivMod
<1>4. PICK n : n = Net(v, w)
  OBVIOUS
<1>5. n = [k \in 1..w |-> Shifted(v, w - k) % 256]
  BY <1>4 DEF Net
<1>6. \A k \in 1..w : n[k] = q[w - k] % 256 /\ n[k] \in Byte
  BY <1>3, <1>5
<1>7. n \in Str /\ Len(n) = w
  <2>1. DOMAIN n = 1..w /\ n \in [1..w -> Byte]
    BY <1>5, <1>6
  <2> QED BY <2>1 DEF Str
<1> QED BY <1>1, <1>4, <1>6, <1>7 DEF Digits

LEMMA HostOfNet ==
  ASSUME NEW w \in Nat, NEW v, Fits(v, w)
  PROVE  v \in Nat /\ Net(v, w) \in Str /\ Len(Net(v, w)) = w /\ Host(Net(v, w)) = v
<1>1. v \in Nat /\ Shifted(v, w) = 0
  BY DEF Fits
<1>2. PICK b : b = Net(v, w)
  OBVIOUS
<1>3. b \in Str /\ Len(b) = w
  BY <1>1, <1>2, NetIs
<1>4. PICK q \in [0..w -> Nat] : Shifts(q, v, w) /\ Shifted(v, w) = q[w] /\ Digits(b, q, w)
  BY <1>1, <1>2, NetIs
<1>5. PICK h \in [0..Len(b) -> Nat] :
        /\ h[0] = 0 /\ \A k \in 1..Len(b) : h[k] = 256 * h[k - 1] + b[k]
        /\ Host(b) = h[Len(b)]
  BY <1>3, HostUpward
<1> DEFINE T == {j \in Nat : j <= w => h[j] = q[w - j]}
<1>6. 0 \in T
  BY <1>1, <1>4, <1>5
<1>7. ASSUME NEW j \in Nat, j \in T PROVE j + 1 \in T
  <2> SUFFICES ASSUME j + 1 <= w PROVE h[j + 1] = q[w - (j + 1)]
    OBVIOUS
  <2>1. PICK k : k = w - (j + 1)
    OBVIOUS
  <2>2. /\ j + 1 \in 1..w /\ (j + 1) - 1 = j /\ w - j = k + 1 /\ w - (j + 1) = k
        /\ k \in 0..w /\ k + 1 \in 1..w /\ (k + 1) - 1 = k /\ h[j] = q[w - j]
    BY <1>7, <2>1
  <2>3. q[k + 1] = q[k] \div 256
    BY <1>4, <2>2 DEF Shifts
  <2>4. h[j + 1] = 256 * h[j] + b[j + 1]
    BY <1>3, <1>5, <2>2
  <2>5. b[j + 1] = q[k] % 256
    BY <1>4, <2>2 DEF Digits
  <2>6. q[k] \in Nat
    BY <2>2
  <2>7. q[k] = 256 * (q[k] \div 256) + (q[k] % 256)
    BY <2>6, DivMod
  <2> QED BY <2>2, <2>3, <2>4, <2>5, <2>7
<1>8. w \in T
  <2> HIDE DEF T
  <2> QED BY <1>6, <1>7, Induction
<1>9. h[w] = q[0] /\ q[0] = v
  BY <1>4, <1>8 DEF Shifts
<1> QED BY <1>1, <1>2, <1>3, <1>5, <1>9

-----------------------------------------------------------------------------
(* A function on the positions 1..n + 1 of a string, defined from the end: at *)
(* the positions in H it goes on w[k] further on.                            *)
Onward(n, H, w) ==
  \A k \in 1..(n + 1) : k \in H => w[k] \in Nat \ {0} /\ k + w[k] <= n + 1

From(f, l, n, H, w, X) ==
  f = [k \in l..(n + 1) |-> IF k \in H THEN X[k] \o f[k + w[k]] ELSE << >>]

LEMMA DownwardStep ==
  ASSUME NEW n \in Nat, NEW H, NEW w, NEW X,
         Onward(n, H, w),
         NEW l \in 2..(n + 1), NEW f, From(f, l, n, H, w, X)
  PROVE  \E g : From(g, l - 1, n, H, w, X)
<1>1. f = [k \in l..(n + 1) |-> IF k \in H THEN X[k] \o f[k + w[k]] ELSE << >>]
  BY DEF From
<1>2. PICK g : g = [k \in (l - 1)..(n + 1) |-> IF k \in H THEN X[k] \o f[k + w[k]] ELSE << >>]
  OBVIOUS
<1>3. \A k \in l..(n + 1) : g[k] = f[k]
  <2>1. \A k \in l..(n + 1) : f[k] = IF k \in H THEN X[k] \o f[k + w[k]] ELSE << >>
    BY <1>1
  <2>2. \A k \in l..(n + 1) : k \in (l - 1)..(n + 1)
    OBVIOUS
  <2> QED BY <1>2, <2>1, <2>2
<1>4. ASSUME NEW k \in (l - 1)..(n + 1), k \in H PROVE g[k + w[k]] = f[k + w[k]]
  <2>1. PICK i : i = k + w[k]
    OBVIOUS
  <2>2. k \in 1..(n + 1)
    OBVIOUS
  <2>3. w[k] \in Nat \ {0} /\ k + w[k] <= n + 1
    BY <1>4, <2>2 DEF Onward
  <2>4. i \in l..(n + 1)
    BY <2>1, <2>3
  <2> QED BY <1>3, <2>1, <2>4
<1>5. g = [k \in (l - 1)..(n + 1) |-> IF k \in H THEN X[k] \o g[k + w[k]] ELSE << >>]
  BY <1>2, <1>4
<1> QED BY <1>5 DEF From

LEMMA DownwardExists ==
  ASSUME NEW n \in Nat, NEW H, NEW w, NEW X,
         Onward(n, H, w)
  PROVE  \E g : From(g, 1, n, H, w, X)
<1> DEFINE T == {j \in Nat : j <= n => \E g : From(g, n + 1 - j, n, H, w, X)}
<1>1. 0 \in T
  <2>1. PICK g : g = [k \in (n + 1)..(n + 1) |-> << >>]
    OBVIOUS
  <2>2. \A k \in (n + 1)..(n + 1) : k \notin H
    BY DEF Onward
  <2>3. g = [k \in (n + 1)..(n + 1) |-> IF k \in H THEN X[k] \o g[k + w[k]] ELSE << >>]
    BY <2>1, <2>2
  <2>4. From(g, n + 1, n, H, w, X)
    BY <2>3 DEF From
  <2>5. n + 1 - 0 = n + 1
    OBVIOUS
  <2> QED BY <2>4, <2>5
<1>2. ASSUME NEW j \in Nat, j \in T PROVE j + 1 \in T
  <2> SUFFICES ASSUME j + 1 <= n PROVE \E g : From(g, n + 1 - (j + 1), n, H, w, X)
    OBVIOUS
  <2>1. PICK l : l = n + 1 - j
    OBVIOUS
  <2>2. l \in 2..(n + 1) /\ n + 1 - (j + 1) = l - 1
    BY <2>1
  <2>3. \E g : From(g, l, n, H, w, X)
    BY <1>2, <2>1
  <2>4. \E g : From(g, l - 1, n, H, w, X)
    BY <2>2, <2>3, DownwardStep
  <2> QED BY <2>2, <2>4
<1>3. n \in T
  <2> HIDE DEF T
  <2> QED BY <1>1, <1>2, Induction
<1>4. PICK g : From(g, n + 1 - n, n, H, w, X)
  BY <1>3
<1>5. n + 1 - n = 1
  OBVIOUS
<1> QED BY <1>4, <1>5

-----------------------------------------------------------------------------
(* Parts of strings.                                                         *)
LEMMA StrSub ==
  ASSUME NEW s \in Str, NEW i \in Nat \ {0}, NEW j \in Nat, j <= Len(s), i <= j + 1
  PROVE  /\ SubSeq(s, i, j) \in Str /\ Len(SubSeq(s, i, j)) = j - i + 1
         /\ \A k \in 1..(j - i + 1) : SubSeq(s, i, j)[k] = s[i + k - 1]
<1>1. Len(s) \in Nat /\ \A k \in 1..Len(s) : s[k] \in Byte
  BY StrLen
<1>2. \A k \in i..j : s[k] \in Byte
  BY <1>1
<1>3. i \in Int /\ j \in Int
  OBVIOUS
<1>4. /\ SubSeq(s, i, j) \in Seq(Byte) /\ Len(SubSeq(s, i, j)) = IF i <= j THEN j - i + 1 ELSE 0
      /\ \A k \in 1..(j - i + 1) : SubSeq(s, i, j)[k] = s[i + k - 1]
  BY <1>2, <1>3, SubSeqProperties
<1>5. (IF i <= j THEN j - i + 1 ELSE 0) = j - i + 1
  OBVIOUS
<1> QED BY <1>4, <1>5 DEF Str

(* A string cut in two; its parts; a cut inside the first of two strings.    *)
LEMMA StrCut ==
  ASSUME NEW s \in Str, NEW k \in Nat, k <= Len(s)
  PROVE  /\ SubSeq(s, 1, k) \in Str /\ Len(SubSeq(s, 1, k)) = k
         /\ SubSeq(s, k + 1, Len(s)) \in Str /\ Len(SubSeq(s, k + 1, Len(s))) = Len(s) - k
         /\ s = SubSeq(s, 1, k) \o SubSeq(s, k + 1, Len(s))
<1>1. PICK n, a, b : n = Len(s) /\ a = SubSeq(s, 1, k) /\ b = SubSeq(s, k + 1, n)
  OBVIOUS
<1>2. n \in Nat
  BY <1>1, StrLen
<1>3. a \in Str /\ Len(a) = k - 1 + 1 /\ \A i \in 1..(k - 1 + 1) : a[i] = s[1 + i - 1]
  BY <1>1, <1>2, StrSub
<1>4. b \in Str /\ Len(b) = n - (k + 1) + 1 /\ \A i \in 1..(n - (k + 1) + 1) : b[i] = s[k + 1 + i - 1]
  <2>1. k + 1 \in Nat \ {0} /\ k + 1 <= n + 1 /\ n <= Len(s)
    BY <1>1, <1>2
  <2> QED BY <1>1, <1>2, <2>1, StrSub
<1>5. k - 1 + 1 = k /\ n - (k + 1) + 1 = n - k
  BY <1>2
<1>6. s = a \o b
  <2>1. /\ a \o b \in Str /\ Len(a \o b) = n
        /\ \A i \in 1..n : (a \o b)[i] = IF i <= k THEN a[i] ELSE b[i - k]
    BY <1>2, <1>3, <1>4, <1>5, StrConcat
  <2>2. ASSUME NEW i \in 1..n PROVE s[i] = (a \o b)[i]
    <3>1. CASE i <= k
      <4>1. a[i] = s[1 + i - 1] /\ 1 + i - 1 = i
        BY <1>3, <1>5, <3>1
      <4> QED BY <2>1, <3>1, <4>1
    <3>2. CASE ~(i <= k)
      <4>1. i - k \in 1..(n - k) /\ k + 1 + (i - k) - 1 = i
        BY <1>2, <3>2
      <4>2. b[i - k] = s[k + 1 + (i - k) - 1]
        BY <1>4, <1>5, <4>1
      <4> QED BY <2>1, <3>2, <4>1, <4>2
    <3> QED BY <3>1, <3>2
  <2> QED BY <1>1, <2>1, <2>2, StrEqual
<1> QED BY <1>1, <1>3, <1>4, <1>5, <1>6

LEMMA StrParts ==
  ASSUME NEW a \in Str, NEW b \in Str
  PROVE  /\ SubSeq(a \o b, 1, Len(a)) = a
         /\ SubSeq(a \o b, Len(a) + 1, Len(a \o b)) = b
<1>1. PICK m, n, c : m = Len(a) /\ n = Len(b) /\ c = a \o b
  OBVIOUS
<1>2. m \in Nat /\ n \in Nat
  BY <1>1, StrLen
<1>3. /\ c \in Str /\ Len(c) = m + n
      /\ \A i \in 1..(m + n) : c[i] = IF i <= m THEN a[i] ELSE b[i - m]
  BY <1>1, StrConcat
<1>4. SubSeq(c, 1, m) = a
  <2>1. PICK d : d = SubSeq(c, 1, m)
    OBVIOUS
  <2>2. d \in Str /\ Len(d) = m - 1 + 1 /\ \A i \in 1..(m - 1 + 1) : d[i] = c[1 + i - 1]
    <3>1. m <= Len(c) /\ 1 <= m + 1 /\ 1 \in Nat \ {0}
      BY <1>2, <1>3
    <3> QED BY <1>2, <1>3, <2>1, <3>1, StrSub
  <2>3. m - 1 + 1 = m /\ \A i \in 1..m : 1 + i - 1 = i /\ i \in 1..(m + n) /\ i <= m
    BY <1>2
  <2>4. Len(d) = Len(a) /\ \A i \in 1..Len(d) : d[i] = a[i]
    BY <1>1, <1>3, <2>2, <2>3
  <2> QED BY <2>1, <2>2, <2>4, StrEqual
<1>5. SubSeq(c, m + 1, m + n) = b
  <2>1. PICK d, l, u : d = SubSeq(c, l, u) /\ l = m + 1 /\ u = m + n
    OBVIOUS
  <2>0. l \in Nat \ {0} /\ u \in Nat /\ u <= Len(c) /\ l <= u + 1
    BY <1>2, <1>3, <2>1
  <2>2. d \in Str /\ Len(d) = u - l + 1 /\ \A i \in 1..(u - l + 1) : d[i] = c[l + i - 1]
    BY <1>3, <2>0, <2>1, StrSub
  <2>3. u - l + 1 = n
    BY <1>2, <2>1
  <2>4. ASSUME NEW i \in 1..n PROVE d[i] = b[i]
    <3>1. PICK j : j = l + i - 1
      OBVIOUS
    <3>2. j \in 1..(m + n) /\ ~(j <= m) /\ j - m = i
      BY <1>2, <2>1, <3>1
    <3>3. d[i] = c[j]
      BY <2>2, <2>3, <3>1
    <3> QED BY <1>3, <3>2, <3>3
  <2> QED BY <1>1, <2>1, <2>2, <2>3, <2>4, StrEqual
<1> QED BY <1>1, <1>3, <1>4, <1>5

LEMMA StrInside ==
  ASSUME NEW a \in Str, NEW b \in Str, NEW i \in Nat \ {0}, NEW j \in Nat, i <= j + 1
  PROVE  /\ j <= Len(a) => SubSeq(a \o b, i, j) = SubSeq(a, i, j)
         /\ j <= Len(b) => SubSeq(a \o b, Len(a) + i, Len(a) + j) = SubSeq(b, i, j)
<1>1. PICK m, n, c, w : m = Len(a) /\ n = Len(b) /\ c = a \o b /\ w = j - i + 1
  OBVIOUS
<1>2. m \in Nat /\ n \in Nat /\ w \in Nat
  BY <1>1, StrLen
<1>3. /\ c \in Str /\ Len(c) = m + n
      /\ \A k \in 1..(m + n) : c[k] = IF k <= m THEN a[k] ELSE b[k - m]
  BY <1>1, StrConcat
<1>4. ASSUME j <= m PROVE SubSeq(c, i, j) = SubSeq(a, i, j)
  <2>1. PICK d, e : d = SubSeq(c, i, j) /\ e = SubSeq(a, i, j)
    OBVIOUS
  <2>2. j <= Len(c)
    BY <1>2, <1>3, <1>4
  <2>3. d \in Str /\ Len(d) = w /\ \A k \in 1..w : d[k] = c[i + k - 1]
    BY <1>1, <1>3, <2>1, <2>2, StrSub
  <2>4. e \in Str /\ Len(e) = w /\ \A k \in 1..w : e[k] = a[i + k - 1]
    BY <1>1, <1>4, <2>1, StrSub
  <2>5. \A k \in 1..w : i + k - 1 \in 1..(m + n) /\ i + k - 1 <= m
    BY <1>1, <1>2, <1>4
  <2>6. \A k \in 1..w : d[k] = e[k]
    BY <1>3, <2>3, <2>4, <2>5
  <2> QED BY <2>1, <2>3, <2>4, <2>6, StrEqual
<1>5. ASSUME j <= n PROVE SubSeq(c, m + i, m + j) = SubSeq(b, i, j)
  <2>1. PICK d, e, p, q : p = m + i /\ q = m + j /\ d = SubSeq(c, p, q) /\ e = SubSeq(b, i, j)
    OBVIOUS
  <2>2. p \in Nat \ {0} /\ q \in Nat /\ q <= Len(c) /\ p <= q + 1 /\ q - p + 1 = w
    BY <1>1, <1>2, <1>3, <1>5, <2>1
  <2>0. /\ SubSeq(c, p, q) \in Str /\ Len(SubSeq(c, p, q)) = q - p + 1
        /\ \A k \in 1..(q - p + 1) : SubSeq(c, p, q)[k] = c[p + k - 1]
    BY <1>3, <2>2, StrSub
  <2>3. d \in Str /\ Len(d) = w /\ \A k \in 1..w : d[k] = c[p + k - 1]
    BY <2>0, <2>1, <2>2
  <2>4. e \in Str /\ Len(e) = w /\ \A k \in 1..w : e[k] = b[i + k - 1]
    BY <1>1, <1>5, <2>1, StrSub
  <2>5. \A k \in 1..w : p + k - 1 \in 1..(m + n) /\ ~(p + k - 1 <= m) /\ p + k - 1 - m = i + k - 1
    BY <1>1, <1>2, <1>5, <2>1
  <2>6. ASSUME NEW k \in 1..w PROVE d[k] = e[k]
    <3>1. PICK u : u = p + k - 1
      OBVIOUS
    <3>2. u \in 1..(m + n) /\ ~(u <= m) /\ u - m = i + k - 1
      BY <1>1, <1>2, <1>5, <2>1, <3>1
    <3>3. c[u] = b[i + k - 1]
      BY <1>3, <3>2
    <3> QED BY <2>3, <2>4, <3>1, <3>3
  <2> QED BY <2>1, <2>3, <2>4, <2>6, StrEqual
<1> QED BY <1>1, <1>4, <1>5

(* Two ways to cut one string.                                               *)
Overlap(a, b, c, d, e) == a = c \o e /\ d = e \o b

LEMMA StrSplit ==
  ASSUME NEW a \in Str, NEW b \in Str, NEW c \in Str, NEW d \in Str,
         a \o b = c \o d, Len(c) <= Len(a)
  PROVE  \E e \in Str : Overlap(a, b, c, d, e)
<1>1. PICK k, e, f : k = Len(c) /\ f = SubSeq(a, 1, k) /\ e = SubSeq(a, k + 1, Len(a))
  OBVIOUS
<1>2. k \in Nat /\ Len(a) \in Nat /\ k <= Len(a)
  BY <1>1, StrLen
<1>3. f \in Str /\ e \in Str /\ a = f \o e
  BY <1>1, <1>2, StrCut
<1>4. f = c
  <2>1. SubSeq(a \o b, 1, k) = f
    <3>1. 1 \in Nat \ {0} /\ 1 <= k + 1
      BY <1>2
    <3> QED BY <1>1, <1>2, <3>1, StrInside
  <2>2. SubSeq(c \o d, 1, k) = c
    BY <1>1, StrParts
  <2> QED BY <2>1, <2>2
<1>5. d = e \o b
  <2>0. e \o b \in Str /\ a = c \o e
    BY <1>3, <1>4, StrConcat
  <2>4. (c \o e) \o b = c \o (e \o b)
    BY <1>3, StrAssoc
  <2>1. a \o b = c \o (e \o b) /\ e \o b \in Str
    BY <2>0, <2>4
  <2>2. SubSeq(c \o (e \o b), k + 1, Len(c \o (e \o b))) = e \o b
    BY <1>1, <2>1, StrParts
  <2>3. SubSeq(c \o d, k + 1, Len(c \o d)) = d
    BY <1>1, StrParts
  <2> QED BY <2>1, <2>2, <2>3
<1> QED BY <1>3, <1>4, <1>5 DEF Overlap

LEMMA StrShorter ==
  ASSUME NEW a \in Str, Len(a) = 0
  PROVE  a = << >>
BY StrEmpty, StrEqual

-----------------------------------------------------------------------------
(* The frames of a string.                                                   *)
LEMMA FrameSizeIs ==
  ASSUME NEW h \in Nat, h >= 4, NEW b \in Str, Len(b) >= h
  PROVE  FrameSize(h, b) \in Nat /\ FrameSize(h, b) >= h
<1>1. PICK i, c : i = h - 3 /\ c = Range1(b, i, 4)
  OBVIOUS
<1>2. i \in Nat \ {0} /\ i + 4 - 1 \in Nat /\ i + 4 - 1 <= Len(b) /\ i <= i + 4 - 1 + 1
  BY <1>1, StrLen
<1>3. c \in Str
  BY <1>1, <1>2, StrSub DEF Range1
<1>4. Host(c) \in Nat
  BY <1>3, HostType
<1>5. FrameSize(h, b) = h + Host(c)
  BY <1>1 DEF FrameSize
<1> QED BY <1>4, <1>5

FrameAt(f, h, b, k) ==
  f[k] = LET r == SubSeq(b, k, Len(b))
         IN  IF HoldsFrame(h, r)
             THEN <<SubSeq(b, k, k + FrameSize(h, r) - 1)>> \o f[k + FrameSize(h, r)]
             ELSE << >>

LEMMA FrameEnds ==
  ASSUME NEW h \in Nat, h >= 4, NEW b \in Str, NEW k \in 1..(Len(b) + 1),
         HoldsFrame(h, SubSeq(b, k, Len(b)))
  PROVE  /\ FrameSize(h, SubSeq(b, k, Len(b))) \in Nat \ {0}
         /\ k + FrameSize(h, SubSeq(b, k, Len(b))) <= Len(b) + 1
<1>1. PICK n, r, s : n = Len(b) /\ r = SubSeq(b, k, n) /\ s = FrameSize(h, r)
  OBVIOUS
<1>2. n \in Nat /\ k \in Nat \ {0} /\ k <= n + 1
  BY <1>1, StrLen
<1>3. r \in Str /\ Len(r) = n - k + 1
  BY <1>1, <1>2, StrSub
<1>4. Len(r) >= h /\ Len(r) >= s
  BY <1>1 DEF HoldsFrame
<1>5. s \in Nat /\ s >= h
  BY <1>1, <1>3, <1>4, FrameSizeIs
<1>6. s \in Nat \ {0} /\ k + s <= n + 1
  BY <1>2, <1>3, <1>4, <1>5
<1> QED BY <1>1, <1>6

LEMMA FramesUpward ==
  ASSUME NEW h \in Nat, h >= 4, NEW b \in Str
  PROVE  \E f : (\A k \in 1..(Len(b) + 1) : FrameAt(f, h, b, k)) /\ Frames(h, b) = f[1]
<1> DEFINE Rest(k) == SubSeq(b, k, Len(b))
           D(f) == f = [k \in 1..(Len(b) + 1) |->
                          IF ~HoldsFrame(h, Rest(k)) THEN << >>
                          ELSE <<SubSeq(b, k, k + FrameSize(h, Rest(k)) - 1)>>
                                 \o f[k + FrameSize(h, Rest(k))]]
           f == CHOOSE x : D(x)
<1>1. PICK n : n = Len(b)
  OBVIOUS
<1>2. n \in Nat
  BY <1>1, StrLen
<1>3. PICK H, w, X :
        /\ H = {k \in 1..(n + 1) : HoldsFrame(h, SubSeq(b, k, n))}
        /\ w = [k \in 1..(n + 1) |-> FrameSize(h, SubSeq(b, k, n))]
        /\ X = [k \in 1..(n + 1) |-> <<SubSeq(b, k, k + FrameSize(h, SubSeq(b, k, n)) - 1)>>]
  OBVIOUS
<1>4. Onward(n, H, w)
  <2> SUFFICES ASSUME NEW k \in 1..(n + 1), k \in H
               PROVE  w[k] \in Nat \ {0} /\ k + w[k] <= n + 1
    BY DEF Onward
  <2>1. HoldsFrame(h, SubSeq(b, k, n)) /\ w[k] = FrameSize(h, SubSeq(b, k, n))
    BY <1>3
  <2> QED BY <1>1, <2>1, FrameEnds
<1>5. PICK g : From(g, 1, n, H, w, X)
  BY <1>2, <1>4, DownwardExists
<1>11. g = [k \in 1..(n + 1) |-> IF k \in H THEN X[k] \o g[k + w[k]] ELSE << >>]
  BY <1>5 DEF From
<1>6. ASSUME NEW k \in 1..(n + 1)
      PROVE  (IF k \in H THEN X[k] \o g[k + w[k]] ELSE << >>)
              = IF ~HoldsFrame(h, Rest(k)) THEN << >>
                ELSE <<SubSeq(b, k, k + FrameSize(h, Rest(k)) - 1)>> \o g[k + FrameSize(h, Rest(k))]
  <2>1. PICK r : r = SubSeq(b, k, n)
    OBVIOUS
  <2>2. /\ k \in H <=> HoldsFrame(h, r)
        /\ w[k] = FrameSize(h, r) /\ X[k] = <<SubSeq(b, k, k + FrameSize(h, r) - 1)>>
    BY <1>3, <2>1
  <2>3. Rest(k) = r
    BY <1>1, <2>1
  <2> HIDE DEF Rest
  <2> QED BY <2>2, <2>3
<1>7. D(g)
  <2>1. n + 1 = Len(b) + 1
    BY <1>1
  <2> HIDE DEF Rest
  <2> QED BY <1>6, <1>11, <2>1
<1>8. D(f)
  <2> HIDE DEF D
  <2> QED BY <1>7
<1>9. Frames(h, b) = f[1]
  BY DEF Frames
<1> HIDE DEF f
<1>10. ASSUME NEW k \in 1..(Len(b) + 1) PROVE FrameAt(f, h, b, k)
  <2>1. f[k] = IF ~HoldsFrame(h, Rest(k)) THEN << >>
               ELSE <<SubSeq(b, k, k + FrameSize(h, Rest(k)) - 1)>> \o f[k + FrameSize(h, Rest(k))]
    <3> HIDE DEF Rest
    <3> QED BY <1>8
  <2> QED BY <2>1 DEF FrameAt
<1> QED BY <1>9, <1>10

(* No frame, or one and the frames of what is behind it.                     *)
LEMMA FramesNone ==
  ASSUME NEW h \in Nat, h >= 4, NEW b \in Str, ~HoldsFrame(h, b)
  PROVE  Frames(h, b) = << >>
<1>1. PICK f : (\A k \in 1..(Len(b) + 1) : FrameAt(f, h, b, k)) /\ Frames(h, b) = f[1]
  BY FramesUpward
<1>2. SubSeq(b, 1, Len(b)) = b
  BY SubSeqFull DEF Str
<1>3. 1 \in 1..(Len(b) + 1)
  BY StrLen
<1>4. FrameAt(f, h, b, 1)
  BY <1>1, <1>3
<1> QED BY <1>1, <1>2, <1>4 DEF FrameAt

LEMMA FramesShift ==
  ASSUME NEW h \in Nat, h >= 4, NEW p \in Str, NEW r \in Str,
         NEW f, \A k \in 1..(Len(p \o r) + 1) : FrameAt(f, h, p \o r, k),
         NEW g, \A k \in 1..(Len(r) + 1) : FrameAt(g, h, r, k)
  PROVE  f[Len(p) + 1] = g[1]
<1>1. PICK m, n, b : m = Len(p) /\ n = Len(r) /\ b = p \o r
  OBVIOUS
<1>2. m \in Nat /\ n \in Nat /\ b \in Str /\ Len(b) = m + n
  BY <1>1, StrLen, StrConcat
<1> DEFINE T == {j \in Nat : \A k \in 1..(n + 1) : k > n + 1 - j => f[m + k] = g[k]}
<1>3. 0 \in T
  <2>1. \A k \in 1..(n + 1) : ~(k > n + 1 - 0)
    BY <1>2
  <2> QED BY <2>1
<1>4. ASSUME NEW j \in Nat, j \in T PROVE j + 1 \in T
  <2> SUFFICES ASSUME NEW k \in 1..(n + 1), k > n + 1 - (j + 1) PROVE f[m + k] = g[k]
    OBVIOUS
  <2>1. PICK q, s, i : q = SubSeq(r, k, n) /\ s = FrameSize(h, q) /\ i = m + k
    OBVIOUS
  <2>2. SubSeq(b, i, m + n) = q
    BY <1>1, <1>2, <2>1, StrInside
  <2>3. i \in 1..(Len(b) + 1)
    BY <1>2, <2>1
  <2>4. FrameAt(f, h, b, i) /\ FrameAt(g, h, r, k)
    BY <1>1, <2>3
  <2>5. f[i] = IF HoldsFrame(h, q) THEN <<SubSeq(b, i, i + s - 1)>> \o f[i + s] ELSE << >>
    BY <1>2, <2>1, <2>2, <2>4 DEF FrameAt
  <2>6. g[k] = IF HoldsFrame(h, q) THEN <<SubSeq(r, k, k + s - 1)>> \o g[k + s] ELSE << >>
    BY <1>1, <2>1, <2>4 DEF FrameAt
  <2>7. CASE ~HoldsFrame(h, q)
    BY <2>1, <2>5, <2>6, <2>7
  <2>8. CASE HoldsFrame(h, q)
    <3>1. s \in Nat \ {0} /\ k + s <= n + 1
      BY <1>1, <2>1, <2>8, FrameEnds
    <3>2. PICK e : e = k + s - 1
      OBVIOUS
    <3>3. e \in Nat /\ e <= n /\ k <= e + 1 /\ k \in Nat \ {0} /\ i + s - 1 = m + e
      <4>1. k \in Nat \ {0} /\ i = m + k /\ s \in Nat /\ s > 0 /\ k + s <= n + 1
        BY <2>1, <3>1
      <4> QED BY <1>2, <3>2, <4>1
    <3>4. SubSeq(b, m + k, m + e) = SubSeq(r, k, e)
      BY <1>1, <3>3, StrInside
    <3>5. PICK l : l = k + s
      OBVIOUS
    <3>6. l \in 1..(n + 1) /\ l > n + 1 - j /\ i + s = m + l
      BY <1>2, <2>1, <3>1, <3>5
    <3>7. f[m + l] = g[l]
      BY <1>4, <3>6
    <3> QED BY <2>1, <2>5, <2>6, <2>8, <3>2, <3>3, <3>4, <3>5, <3>6, <3>7
  <2> QED BY <2>7, <2>8
<1>5. n + 1 \in T
  <2>1. n + 1 \in Nat
    BY <1>2
  <2> HIDE DEF T
  <2> QED BY <1>3, <1>4, <2>1, Induction
<1>6. 1 \in 1..(n + 1) /\ 1 > n + 1 - (n + 1)
  BY <1>2
<1> QED BY <1>1, <1>5, <1>6

LEMMA FramesNext ==
  ASSUME NEW h \in Nat, h >= 4, NEW p \in Str, NEW r \in Str,
         HoldsFrame(h, p \o r), FrameSize(h, p \o r) = Len(p)
  PROVE  Frames(h, p \o r) = <<p>> \o Frames(h, r)
<1>1. PICK b : b = p \o r
  OBVIOUS
<1>2. b \in Str /\ Len(p) \in Nat
  BY <1>1, StrConcat, StrLen
<1>3. PICK f : (\A k \in 1..(Len(b) + 1) : FrameAt(f, h, b, k)) /\ Frames(h, b) = f[1]
  BY <1>2, FramesUpward
<1>4. PICK g : (\A k \in 1..(Len(r) + 1) : FrameAt(g, h, r, k)) /\ Frames(h, r) = g[1]
  BY FramesUpward
<1>5. f[Len(p) + 1] = g[1]
  BY <1>1, <1>3, <1>4, FramesShift
<1>6. SubSeq(b, 1, Len(b)) = b /\ SubSeq(b, 1, Len(p)) = p
  BY <1>1, <1>2, StrParts, SubSeqFull DEF Str
<1>7. 1 \in 1..(Len(b) + 1)
  BY <1>2, StrLen
<1>8. FrameAt(f, h, b, 1)
  BY <1>3, <1>7
<1>9. 1 + Len(p) - 1 = Len(p) /\ 1 + Len(p) = Len(p) + 1
  BY <1>2
<1>10. f[1] = <<SubSeq(b, 1, 1 + Len(p) - 1)>> \o f[1 + Len(p)]
  BY <1>1, <1>6, <1>8 DEF FrameAt
<1> QED BY <1>1, <1>3, <1>4, <1>5, <1>6, <1>9, <1>10

LEMMA FramePrefix ==
  ASSUME NEW h \in Nat, h >= 4, NEW b \in Str, NEW z \in Str, NEW p \in Str, NEW q \in Str,
         b \o z = p \o q, Len(b) >= h, Len(p) >= h
  PROVE  FrameSize(h, b) = FrameSize(h, p)
<1>1. PICK i : i = h - 3
  OBVIOUS
<1>2. i \in Nat \ {0} /\ i + 4 - 1 \in Nat /\ i <= i + 4 - 1 + 1 /\ i + 4 - 1 <= Len(b) /\ i + 4 - 1 <= Len(p)
  BY <1>1, StrLen
<1>3. SubSeq(b \o z, i, i + 4 - 1) = SubSeq(b, i, i + 4 - 1)
  BY <1>2, StrInside
<1>4. SubSeq(p \o q, i, i + 4 - 1) = SubSeq(p, i, i + 4 - 1)
  BY <1>2, StrInside
<1>5. Range1(b, i, 4) = Range1(p, i, 4)
  BY <1>3, <1>4 DEF Range1
<1> QED BY <1>1, <1>5 DEF FrameSize

(* A string that is one frame; a list of them, of which b is a beginning: the  *)
(* frames us that b holds, and the beginning r of the next.                   *)
IsFrame(h, p) == HoldsFrame(h, p) /\ FrameSize(h, p) = Len(p)

Holds(h, ps, b, z, us, vs, r) ==
  /\ us \in Seq(Str) /\ vs \in Seq(Str) /\ r \in Str
  /\ ps = us \o vs /\ Frames(h, b) = us
  /\ b = FlattenSeq(us) \o r /\ r \o z = FlattenSeq(vs)
  /\ vs # << >> => Len(r) < Len(vs[1])

AnyCut(h, ps, z) ==
  \A b \in Str : b \o z = FlattenSeq(ps) => \E us, vs, r : Holds(h, ps, b, z, us, vs, r)

LEMMA SeqHead ==
  ASSUME NEW S, NEW s \in Seq(S), s # << >>
  PROVE  /\ s[1] \in S /\ Tail(s) \in Seq(S) /\ Len(Tail(s)) = Len(s) - 1 /\ Len(s) \in Nat \ {0}
         /\ s = <<s[1]>> \o Tail(s) /\ \A i \in 1..(Len(s) - 1) : Tail(s)[i] = s[i + 1]
<1>1. Len(s) \in Nat \ {0} /\ s[1] \in S
  BY EmptySeq, ElementOfSeq
<1>2. Tail(s) \in Seq(S) /\ Len(Tail(s)) = Len(s) - 1 /\ \A i \in 1..Len(Tail(s)) : Tail(s)[i] = s[i + 1]
  BY HeadTailProperties
<1>3. PICK t : t = Tail(s)
  OBVIOUS
<1>4. <<s[1]>> \in Seq(S) /\ Len(<<s[1]>>) = 1 /\ <<s[1]>>[1] = s[1]
  BY <1>1
<1>5. /\ <<s[1]>> \o t \in Seq(S) /\ Len(<<s[1]>> \o t) = 1 + Len(t)
      /\ \A i \in 1..(1 + Len(t)) : (<<s[1]>> \o t)[i] = IF i <= 1 THEN <<s[1]>>[i] ELSE t[i - 1]
  BY <1>2, <1>3, <1>4, ConcatProperties
<1>6. ASSUME NEW i \in 1..Len(s) PROVE s[i] = (<<s[1]>> \o t)[i]
  <2>1. CASE i = 1
    BY <1>1, <1>2, <1>3, <1>4, <1>5, <2>1
  <2>2. CASE i # 1
    <3>1. PICK j : j = i - 1
      OBVIOUS
    <3>2. j \in 1..Len(t) /\ i = j + 1 /\ ~(i <= 1) /\ i \in 1..(1 + Len(t))
      BY <1>1, <1>2, <1>3, <2>2, <3>1
    <3>3. t[j] = s[i]
      BY <1>2, <1>3, <3>2
    <3> QED BY <1>5, <3>1, <3>2, <3>3
  <2> QED BY <2>1, <2>2
<1>7. Len(s) = 1 + Len(t)
  BY <1>1, <1>2, <1>3
<1>8. s = <<s[1]>> \o t
  BY <1>5, <1>6, <1>7, SeqEqual
<1> QED BY <1>1, <1>2, <1>3, <1>8

LEMMA FramesStep ==
  ASSUME NEW h \in Nat, h >= 4, NEW p \in Str, IsFrame(h, p), NEW qs \in Seq(Str),
         NEW b \in Str, NEW z \in Str, b \o z = FlattenSeq(<<p>> \o qs),
         AnyCut(h, qs, z)
  PROVE  \E us, vs, r : Holds(h, <<p>> \o qs, b, z, us, vs, r)
<1>1. <<p>> \in Seq(Str)
  OBVIOUS
<1>2. PICK q : q = FlattenSeq(qs)
  OBVIOUS
<1>3. q \in Str
  BY <1>2, FlattenType
<1>4. b \o z = p \o q
  BY <1>1, <1>2, FlattenConcat, FlattenOne
<1>5. Len(b) \in Nat /\ Len(p) \in Nat
  BY StrLen
<1>6. Len(p) >= h /\ FrameSize(h, p) = Len(p)
  BY DEF IsFrame, HoldsFrame
<1>7. CASE Len(b) < Len(p)
  <2>1. ~HoldsFrame(h, b)
    <3>1. ASSUME Len(b) >= h PROVE FrameSize(h, b) = Len(p)
      <4>1. FrameSize(h, b) = FrameSize(h, p)
        BY <1>3, <1>4, <1>6, <3>1, FramePrefix, ZenonT(30)
      <4> QED BY <1>6, <4>1
    <3> QED BY <1>5, <1>7, <3>1 DEF HoldsFrame
  <2>2. Frames(h, b) = << >>
    BY <2>1, FramesNone
  <2>3. PICK ps : ps = <<p>> \o qs
    OBVIOUS
  <2>4. ps \in Seq(Str) /\ ps[1] = p
    <3>1. /\ ps \in Seq(Str) /\ Len(<<p>>) = 1 /\ Len(qs) \in Nat
          /\ \A i \in 1..(Len(<<p>>) + Len(qs)) :
               ps[i] = IF i <= Len(<<p>>) THEN <<p>>[i] ELSE qs[i - Len(<<p>>)]
      BY <1>1, <2>3, ConcatProperties
    <3>2. 1 \in 1..(Len(<<p>>) + Len(qs)) /\ 1 <= Len(<<p>>)
      BY <3>1
    <3> QED BY <3>1, <3>2
  <2>5. << >> \in Seq(Str) /\ << >> \o ps = ps
    BY <2>4, EmptySeq, ConcatEmptySeq
  <2>6. FlattenSeq(<< >>) \o b = b
    BY FlattenEmpty, StrEmpty
  <2>7. Holds(h, ps, b, z, << >>, ps, b)
    BY <1>7, <2>2, <2>3, <2>4, <2>5, <2>6 DEF Holds
  <2> QED BY <2>3, <2>7
<1>8. CASE ~(Len(b) < Len(p))
  <2>1. PICK e \in Str : b = p \o e /\ q = e \o z
    <3>1. Len(p) <= Len(b)
      BY <1>5, <1>8
    <3>2. p \in Str /\ q \in Str /\ b \in Str /\ z \in Str
      BY <1>3
    <3>3. \E e \in Str : Overlap(b, z, p, q, e)
      BY <1>4, <3>1, <3>2, StrSplit
    <3> QED BY <3>3 DEF Overlap
  <2>2. PICK us, vs, r : Holds(h, qs, e, z, us, vs, r)
    BY <1>2, <2>1 DEF AnyCut
  <2>3. /\ us \in Seq(Str) /\ vs \in Seq(Str) /\ r \in Str
        /\ qs = us \o vs /\ Frames(h, e) = us
        /\ e = FlattenSeq(us) \o r /\ r \o z = FlattenSeq(vs)
        /\ vs # << >> => Len(r) < Len(vs[1])
    BY <2>2 DEF Holds
  <2>4. Len(b) >= h /\ FrameSize(h, b) = Len(p) /\ HoldsFrame(h, b)
    <3>1. Len(b) >= h
      BY <1>5, <1>6, <1>8
    <3>2. FrameSize(h, b) = FrameSize(h, p)
      BY <1>3, <1>4, <1>6, <3>1, FramePrefix, ZenonT(30)
    <3>3. FrameSize(h, b) = Len(p)
      BY <1>6, <3>2
    <3> QED BY <1>5, <1>8, <3>1, <3>3 DEF HoldsFrame
  <2>5. Frames(h, b) = <<p>> \o us
    BY <2>1, <2>3, <2>4, FramesNext
  <2>6. <<p>> \o us \in Seq(Str) /\ <<p>> \o qs = (<<p>> \o us) \o vs
    <3>1. <<p>> \o us \in Seq(Str)
      BY <1>1, <2>3, ConcatProperties
    <3>2. (<<p>> \o us) \o vs = <<p>> \o (us \o vs)
      BY <1>1, <2>3, ConcatAssociative
    <3> QED BY <2>3, <3>1, <3>2
  <2>7. b = FlattenSeq(<<p>> \o us) \o r
    <3>1. FlattenSeq(<<p>> \o us) = p \o FlattenSeq(us) /\ FlattenSeq(us) \in Str
      BY <1>1, <2>3, FlattenConcat, FlattenOne, FlattenType
    <3>2. p \o (FlattenSeq(us) \o r) = (p \o FlattenSeq(us)) \o r
      BY <2>3, <3>1, StrAssoc
    <3> QED BY <2>1, <2>3, <3>1, <3>2
  <2>8. Holds(h, <<p>> \o qs, b, z, <<p>> \o us, vs, r)
    BY <2>3, <2>5, <2>6, <2>7 DEF Holds
  <2> QED BY <2>8
<1> QED BY <1>7, <1>8

FrameList(h, ps) == ps \in Seq(Str) /\ \A i \in 1..Len(ps) : IsFrame(h, ps[i])

Cuts(h, n) ==
  \A ps : FrameList(h, ps) /\ Len(ps) = n => \A z \in Str : AnyCut(h, ps, z)

(* The loop over the frames finds those that b holds complete and no other.   *)
LEMMA FramesAre ==
  ASSUME NEW h \in Nat, h >= 4, NEW ps, FrameList(h, ps),
         NEW b \in Str, NEW z \in Str, b \o z = FlattenSeq(ps)
  PROVE  \E us, vs, r : Holds(h, ps, b, z, us, vs, r)
<1> DEFINE T == {n \in Nat : Cuts(h, n)}
<1>1. 0 \in T
  <2> SUFFICES ASSUME NEW qs, FrameList(h, qs), Len(qs) = 0, NEW c \in Str, NEW y \in Str,
                      c \o y = FlattenSeq(qs)
               PROVE  \E us, vs, r : Holds(h, qs, c, y, us, vs, r)
    BY DEF Cuts, AnyCut
  <2>1. qs \in Seq(Str) /\ qs = << >>
    BY EmptySeq DEF FrameList
  <2>2. c \o y = << >> /\ Len(c) \in Nat /\ Len(y) \in Nat
    BY <2>1, FlattenEmpty, StrLen
  <2>3. Len(c) = 0
    <3>1. Len(c \o y) = 0 /\ Len(c \o y) = Len(c) + Len(y)
      BY <2>2, StrConcat, StrEmpty
    <3> QED BY <2>2, <3>1
  <2>4. ~HoldsFrame(h, c)
    BY <2>3 DEF HoldsFrame
  <2>5. Frames(h, c) = << >>
    BY <2>4, FramesNone
  <2>6. << >> \in Seq(Str) /\ << >> \o << >> = << >>
    BY EmptySeq, ConcatEmptySeq
  <2>7. FlattenSeq(<< >>) \o c = c
    BY FlattenEmpty, StrEmpty
  <2>8. Holds(h, qs, c, y, << >>, << >>, c)
    BY <2>1, <2>5, <2>6, <2>7 DEF Holds
  <2> QED BY <2>8
<1>2. ASSUME NEW n \in Nat, n \in T PROVE n + 1 \in T
  <2>7. Cuts(h, n)
    BY <1>2
  <2> SUFFICES ASSUME NEW qs, FrameList(h, qs), Len(qs) = n + 1, NEW y \in Str
               PROVE  AnyCut(h, qs, y)
    BY DEF Cuts
  <2>1. qs \in Seq(Str) /\ \A i \in 1..Len(qs) : IsFrame(h, qs[i])
    BY DEF FrameList
  <2>2. qs # << >>
    <3>1. Len(<< >>) = 0
      OBVIOUS
    <3> QED BY <3>1
  <2>3. PICK p, ts : p = qs[1] /\ ts = Tail(qs)
    OBVIOUS
  <2>4. /\ p \in Str /\ ts \in Seq(Str) /\ Len(ts) = n /\ qs = <<p>> \o ts
        /\ \A i \in 1..n : ts[i] = qs[i + 1]
    <3>1. Len(qs) - 1 = n
      OBVIOUS
    <3> QED BY <2>1, <2>2, <2>3, <3>1, SeqHead
  <2>5. IsFrame(h, p)
    BY <2>1, <2>3
  <2>6. FrameList(h, ts)
    <3>1. ASSUME NEW i \in 1..n PROVE IsFrame(h, ts[i])
      <4>1. i + 1 \in 1..Len(qs)
        OBVIOUS
      <4> QED BY <2>1, <2>4, <4>1
    <3> QED BY <2>4, <3>1 DEF FrameList
  <2>8. AnyCut(h, ts, y)
    BY <2>4, <2>6, <2>7 DEF Cuts
  <2>9. ASSUME NEW c \in Str, c \o y = FlattenSeq(qs)
        PROVE  \E us, vs, r : Holds(h, qs, c, y, us, vs, r)
    <3>1. c \o y = FlattenSeq(<<p>> \o ts)
      BY <2>4, <2>9
    <3>2. \E us, vs, r : Holds(h, <<p>> \o ts, c, y, us, vs, r)
      BY <2>4, <2>5, <2>8, <3>1, FramesStep
    <3> QED BY <2>4, <3>2
  <2> QED BY <2>9 DEF AnyCut
<1>3. Len(ps) \in T
  <2>1. Len(ps) \in Nat
    BY LenProperties DEF FrameList
  <2> HIDE DEF T
  <2> QED BY <1>1, <1>2, <2>1, Induction
<1> QED BY <1>3 DEF Cuts, AnyCut

-----------------------------------------------------------------------------
(* The head.                                                                 *)
Small(v) == v \in Nat /\ v < 200000

LEMMA SmallFits ==
  ASSUME NEW v, Small(v)
  PROVE  Fits(v, 4) /\ (v < 256 => Fits(v, 1) /\ Fits(v, 2) /\ Net(v, 1)[1] = v)
<1>0. v \in Nat
  BY SMT DEF Small
<1>1. PICK q \in [0..4 -> Nat] : Shifts(q, v, 4) /\ Shifted(v, 4) = q[4]
  BY <1>0, ShiftedUpward
<1>2. PICK x1, x2, x3, x4 : x1 = q[1] /\ x2 = q[2] /\ x3 = q[3] /\ x4 = q[4]
  OBVIOUS
<1>3. x1 = v \div 256 /\ x2 = x1 \div 256 /\ x3 = x2 \div 256 /\ x4 = x3 \div 256
  <2>1. q[0] = v /\ q[1] = q[1 - 1] \div 256 /\ q[2] = q[2 - 1] \div 256
        /\ q[3] = q[3 - 1] \div 256 /\ q[4] = q[4 - 1] \div 256
    BY <1>1 DEF Shifts
  <2> QED BY <1>2, <2>1
<1>4. x1 \in 0..781
  BY <1>3, SMT DEF Small
<1>5. x2 \in 0..3
  BY <1>3, <1>4, SMT
<1>6. x3 = 0 /\ x4 = 0
  BY <1>3, <1>5, SMT
<1>7. Fits(v, 4)
  BY <1>0, <1>1, <1>2, <1>6 DEF Fits
<1>8. ASSUME v < 256 PROVE Fits(v, 1) /\ Fits(v, 2) /\ Net(v, 1)[1] = v
  <2>1. x1 = 0 /\ x2 = 0 /\ v % 256 = v
    BY <1>0, <1>3, <1>8, SMT
  <2>2. PICK p \in [0..1 -> Nat] : Shifts(p, v, 1) /\ Shifted(v, 1) = p[1]
    BY <1>0, ShiftedUpward
  <2>3. PICK r \in [0..2 -> Nat] : Shifts(r, v, 2) /\ Shifted(v, 2) = r[2]
    BY <1>0, ShiftedUpward
  <2>4. PICK s \in [0..0 -> Nat] : Shifts(s, v, 0) /\ Shifted(v, 0) = s[0]
    BY <1>0, ShiftedUpward
  <2>5. p[1] = q[1]
    BY <1>0, <1>1, <2>2, ShiftsUnique
  <2>6. r[2] = q[2]
    BY <1>0, <1>1, <2>3, ShiftsUnique
  <2>7. s[0] = v
    BY <2>4 DEF Shifts
  <2>8. Net(v, 1)[1] = Shifted(v, 0) % 256
    BY DEF Net
  <2> QED BY <1>0, <1>2, <2>1, <2>2, <2>3, <2>4, <2>5, <2>6, <2>7, <2>8 DEF Fits
<1> QED BY <1>7, <1>8

LEMMA PartOf ==
  ASSUME NEW a \in Str, NEW x \in Str
  PROVE  /\ Range1(a \o x, Len(a) + 1, Len(x)) = x
         /\ \A i \in Nat \ {0}, w \in Nat : i + w <= Len(a) + 1 => Range1(a \o x, i, w) = Range1(a, i, w)
<1>1. Len(a) \in Nat /\ Len(x) \in Nat /\ Len(a \o x) = Len(a) + Len(x)
  BY StrLen, StrConcat
<1>2. Range1(a \o x, Len(a) + 1, Len(x)) = x
  <2>1. SubSeq(a \o x, Len(a) + 1, Len(a \o x)) = x
    BY StrParts
  <2>2. Len(a) + 1 + Len(x) - 1 = Len(a \o x)
    BY <1>1
  <2> QED BY <2>1, <2>2 DEF Range1
<1>3. ASSUME NEW i \in Nat \ {0}, NEW w \in Nat, i + w <= Len(a) + 1
      PROVE  Range1(a \o x, i, w) = Range1(a, i, w)
  <2>1. PICK j : j = i + w - 1
    OBVIOUS
  <2>2. j \in Nat /\ i <= j + 1 /\ j <= Len(a)
    BY <1>1, <1>3, <2>1
  <2>3. SubSeq(a \o x, i, j) = SubSeq(a, i, j)
    BY <2>2, StrInside
  <2> QED BY <2>1, <2>3 DEF Range1
<1> QED BY <1>2, <1>3

(* What is known of a string that is put behind another.                     *)
Behind(c, a, b) ==
  /\ c \in Str /\ Len(c) = Len(a) + Len(b) /\ (Len(a) >= 1 => c[1] = a[1])
  /\ Range1(c, Len(a) + 1, Len(b)) = b
  /\ \A i \in Nat \ {0}, w \in Nat : i + w <= Len(a) + 1 => Range1(c, i, w) = Range1(a, i, w)

LEMMA BehindIs ==
  ASSUME NEW a \in Str, NEW b \in Str
  PROVE  Behind(a \o b, a, b)
<1>1. PICK c : c = a \o b
  OBVIOUS
<1>2. /\ c \in Str /\ Len(c) = Len(a) + Len(b) /\ Len(a) \in Nat /\ Len(b) \in Nat
      /\ \A i \in 1..(Len(a) + Len(b)) : c[i] = IF i <= Len(a) THEN a[i] ELSE b[i - Len(a)]
  BY <1>1, StrConcat, StrLen
<1>3. Len(a) >= 1 => c[1] = a[1]
  BY <1>2
<1>4. Range1(a \o b, Len(a) + 1, Len(b)) = b
  BY PartOf
<1>5. \A i \in Nat \ {0}, w \in Nat : i + w <= Len(a) + 1 => Range1(a \o b, i, w) = Range1(a, i, w)
  BY PartOf
<1>6. Behind(c, a, b)
  BY <1>1, <1>2, <1>3, <1>4, <1>5 DEF Behind
<1> QED BY <1>1, <1>6

HeadHas(h, id, bt, n) ==
  /\ h \in Str /\ Len(h) = HeadSize /\ h[1] = MAGIC /\ Host(Range1(h, 2, 2)) = VERSION
  /\ Host(Range1(h, 5, 4)) = id /\ Host(Range1(h, 9, 4)) = bt /\ Host(Range1(h, 13, 4)) = n

LEMMA HeadIs ==
  ASSUME NEW t \in {0, 1}, NEW id, Fits(id, 4), NEW bt, Fits(bt, 4), NEW n, Fits(n, 4)
  PROVE  HeadHas(PackHead(t, id, bt, n), id, bt, n)
<1>1. PICK a, b, c, d, e, f : /\ a = Net(MAGIC, 1) /\ b = Net(VERSION, 2) /\ c = Net(t, 1)
                              /\ d = Net(id, 4) /\ e = Net(bt, 4) /\ f = Net(n, 4)
  OBVIOUS
<1>2. Fits(MAGIC, 1) /\ a[1] = MAGIC /\ Fits(VERSION, 2) /\ Fits(t, 1)
  <2>1. Small(MAGIC) /\ MAGIC < 256 /\ Small(VERSION) /\ VERSION < 256 /\ Small(t) /\ t < 256
    BY SMT DEF MAGIC, VERSION, Small
  <2> QED BY <1>1, <2>1, SmallFits
<1>3. /\ a \in Str /\ b \in Str /\ c \in Str /\ d \in Str /\ e \in Str /\ f \in Str
      /\ Len(a) = 1 /\ Len(b) = 2 /\ Len(c) = 1 /\ Len(d) = 4 /\ Len(e) = 4 /\ Len(f) = 4
      /\ Host(b) = VERSION /\ Host(d) = id /\ Host(e) = bt /\ Host(f) = n
  BY <1>1, <1>2, HostOfNet
<1>4. PICK p, q, r, s, h : p = a \o b /\ q = p \o c /\ r = q \o d /\ s = r \o e /\ h = s \o f
  OBVIOUS
<1>5. Behind(p, a, b)
  BY <1>3, <1>4, BehindIs
<1>6. p \in Str /\ Len(p) = 3 /\ p[1] = MAGIC /\ Range1(p, 2, 2) = b
  BY <1>2, <1>3, <1>5 DEF Behind
<1>7. Behind(q, p, c)
  BY <1>3, <1>4, <1>6, BehindIs
<1>8. q \in Str /\ Len(q) = 4 /\ q[1] = MAGIC /\ Range1(q, 2, 2) = b
  BY <1>3, <1>6, <1>7 DEF Behind
<1>9. Behind(r, q, d)
  BY <1>3, <1>4, <1>8, BehindIs
<1>10. r \in Str /\ Len(r) = 8 /\ r[1] = MAGIC /\ Range1(r, 2, 2) = b /\ Range1(r, 5, 4) = d
  BY <1>3, <1>8, <1>9 DEF Behind
<1>11. Behind(s, r, e)
  BY <1>3, <1>4, <1>10, BehindIs
<1>12. /\ s \in Str /\ Len(s) = 12 /\ s[1] = MAGIC /\ Range1(s, 2, 2) = b /\ Range1(s, 5, 4) = d
       /\ Range1(s, 9, 4) = e
  BY <1>3, <1>10, <1>11 DEF Behind
<1>13. Behind(h, s, f)
  BY <1>3, <1>4, <1>12, BehindIs
<1>14. /\ h \in Str /\ Len(h) = 16 /\ h[1] = MAGIC /\ Range1(h, 2, 2) = b /\ Range1(h, 5, 4) = d
       /\ Range1(h, 9, 4) = e /\ Range1(h, 13, 4) = f
  BY <1>3, <1>12, <1>13 DEF Behind
<1>15. h = PackHead(t, id, bt, n)
  BY <1>1, <1>4 DEF PackHead
<1> QED BY <1>3, <1>14, <1>15 DEF HeadHas, HeadSize

-----------------------------------------------------------------------------
(* C strings: strncpy into w bytes and back.                                 *)
Text0 == Seq(Byte \ {0})

LEMMA TextIs ==
  ASSUME NEW v \in Text0
  PROVE  v \in Str /\ Len(v) \in Nat /\ \A i \in 1..Len(v) : v[i] \in Byte /\ v[i] # 0
<1>1. Len(v) \in Nat /\ \A i \in 1..Len(v) : v[i] \in Byte \ {0}
  BY LenProperties, ElementOfSeq DEF Text0
<1>2. v \in Seq(Byte)
  <2>1. Byte \ {0} \subseteq Byte
    OBVIOUS
  <2> QED BY <2>1, SeqMonotonic DEF Text0
<1> QED BY <1>1, <1>2 DEF Str

LEMMA CStringWhole ==
  ASSUME NEW v, NEW n \in Nat, n = Len(v), \A i \in 1..n : v[i] # 0
  PROVE  CString(v) = v
<1>1. {i \in 1..n : v[i] = 0} = {}
  OBVIOUS
<1>2. SelectInSeq(v, LAMBDA x : x = 0) = 0
  BY <1>1 DEF SelectInSeq
<1> QED BY <1>2 DEF CString

LEMMA strncpyIs ==
  ASSUME NEW v \in Str, NEW w \in Nat
  PROVE  /\ strncpy(v, w) \in Str /\ Len(strncpy(v, w)) = w
         /\ \A k \in 1..w : strncpy(v, w)[k] = IF k <= Len(v) THEN v[k] ELSE 0
<1>1. PICK s : s = strncpy(v, w)
  OBVIOUS
<1>2. s = [k \in 1..w |-> IF k <= Len(v) THEN v[k] ELSE 0]
  BY <1>1 DEF strncpy
<1>3. Len(v) \in Nat /\ (\A k \in 1..Len(v) : v[k] \in Byte) /\ 0 \in Byte
  BY StrLen DEF Byte
<1>4. \A k \in 1..w : s[k] \in Byte
  <2> SUFFICES ASSUME NEW k \in 1..w PROVE s[k] \in Byte
    OBVIOUS
  <2>1. CASE k <= Len(v)
    BY <1>2, <1>3, <2>1
  <2>2. CASE ~(k <= Len(v))
    BY <1>2, <1>3, <2>2
  <2> QED BY <2>1, <2>2
<1>5. s \in Seq(Byte) /\ Len(s) = w
  <2>1. s \in [1..w -> Byte]
    BY <1>2, <1>4
  <2> QED BY <2>1
<1> QED BY <1>1, <1>2, <1>5 DEF Str

LEMMA CStringOfCopy ==
  ASSUME NEW v \in Text0, NEW w \in Nat, Len(v) <= w
  PROVE  CString(strncpy(v, w)) = v
<1>1. PICK s, n : s = strncpy(v, w) /\ n = Len(v)
  OBVIOUS
<1>2. v \in Str /\ n \in Nat /\ \A i \in 1..n : v[i] \in Byte /\ v[i] # 0
  BY <1>1, TextIs
<1>3. s \in Str /\ Len(s) = w /\ \A k \in 1..w : s[k] = IF k <= n THEN v[k] ELSE 0
  BY <1>1, <1>2, strncpyIs
<1>4. CASE n = w
  <2>1. \A i \in 1..w : s[i] = v[i]
    BY <1>2, <1>3, <1>4
  <2>2. s = v
    BY <1>1, <1>2, <1>3, <1>4, <2>1, StrEqual
  <2>3. CString(v) = v
    BY <1>1, <1>2, CStringWhole
  <2> QED BY <1>1, <2>2, <2>3
<1>5. CASE n # w
  <2>1. PICK m : m = n + 1
    OBVIOUS
  <2>2. n < w /\ m \in 1..w /\ m - 1 = n
    BY <1>1, <1>2, <1>5, <2>1
  <2>3. PICK I : I = {i \in 1..Len(s) : s[i] = 0}
    OBVIOUS
  <2>4. m \in I /\ \A i \in I : m <= i
    <3>1. s[m] = 0
      BY <1>2, <1>3, <2>1, <2>2
    <3>2. ASSUME NEW i \in I PROVE m <= i
      <4>1. i \in 1..w /\ s[i] = 0
        BY <1>3, <2>3
      <4>2. ~(i <= n)
        BY <1>2, <1>3, <4>1
      <4> QED BY <1>2, <2>1, <4>1, <4>2
    <3> QED BY <1>3, <2>2, <2>3, <3>1, <3>2
  <2>5. Min(I) = m
    <3>1. I \subseteq Nat
      BY <1>3, <2>3
    <3>2. PICK k : k = Min(I)
      OBVIOUS
    <3>3. k \in I /\ \A y \in I : k =< y
      BY <2>4, <3>2 DEF Min
    <3>4. k \in Nat /\ m \in Nat /\ k =< m /\ m <= k
      BY <2>4, <3>1, <3>3
    <3> QED BY <3>2, <3>4
  <2>6. SelectInSeq(s, LAMBDA x : x = 0) = m
    BY <2>3, <2>4, <2>5 DEF SelectInSeq
  <2>7. CString(s) = SubSeq(s, 1, n)
    BY <1>2, <2>1, <2>2, <2>6 DEF CString
  <2>8. SubSeq(s, 1, n) = v
    <3>1. PICK t : t = SubSeq(s, 1, n)
      OBVIOUS
    <3>2. 1 \in Nat \ {0} /\ n <= Len(s) /\ 1 <= n + 1 /\ n - 1 + 1 = n
      BY <1>2, <1>3, <2>2
    <3>3. t \in Str /\ Len(t) = n - 1 + 1 /\ \A k \in 1..(n - 1 + 1) : t[k] = s[1 + k - 1]
      BY <1>2, <1>3, <3>1, <3>2, StrSub
    <3>4. ASSUME NEW k \in 1..n PROVE t[k] = v[k]
      <4>1. 1 + k - 1 = k /\ k \in 1..w /\ k <= n
        BY <1>2, <2>2
      <4> QED BY <1>3, <3>2, <3>3, <4>1
    <3> QED BY <1>1, <1>2, <3>1, <3>2, <3>3, <3>4, StrEqual
  <2> QED BY <1>1, <2>7, <2>8
<1> QED BY <1>4, <1>5
(* Memory that ends with its only zero survives strncpy.                     *)
LEMMA MemoryCopied ==
  ASSUME NEW v \in Str, Len(v) >= 1, \A k \in 1..Len(v) : v[k] = 0 <=> k = Len(v)
  PROVE  strncpy(CString(v), Len(v)) = v
<1>1. PICK l, n : l = Len(v) /\ n = l - 1
  OBVIOUS
<1>2. l \in Nat \ {0} /\ n \in Nat /\ n + 1 = l
  BY <1>1, StrLen
<1>3. PICK I : I = {k \in 1..l : v[k] = 0}
  OBVIOUS
<1>4. I = {l}
  BY <1>1, <1>2, <1>3
<1>5. Min(I) = l
  BY <1>2, <1>4 DEF Min
<1>6. SelectInSeq(v, LAMBDA x : x = 0) = l
  BY <1>1, <1>3, <1>4, <1>5 DEF SelectInSeq
<1>7. CString(v) = SubSeq(v, 1, n)
  BY <1>1, <1>2, <1>6 DEF CString
<1>8. PICK u : u = SubSeq(v, 1, n)
  OBVIOUS
<1>9. 1 \in Nat \ {0} /\ n <= Len(v) /\ 1 <= n + 1 /\ n - 1 + 1 = n
  BY <1>1, <1>2
<1>10. u \in Str /\ Len(u) = n /\ \A k \in 1..n : u[k] = v[1 + k - 1]
  <2>1. u \in Str /\ Len(u) = n - 1 + 1 /\ \A k \in 1..(n - 1 + 1) : u[k] = v[1 + k - 1]
    BY <1>2, <1>8, <1>9, StrSub
  <2> QED BY <1>9, <2>1
<1>11. PICK t : t = strncpy(u, l)
  OBVIOUS
<1>12. t \in Str /\ Len(t) = l /\ \A k \in 1..l : t[k] = IF k <= n THEN u[k] ELSE 0
  BY <1>2, <1>10, <1>11, strncpyIs
<1>13. ASSUME NEW k \in 1..l PROVE t[k] = v[k]
  <2>1. CASE k <= n
    <3>1. k \in 1..n /\ 1 + k - 1 = k
      BY <1>2, <2>1
    <3> QED BY <1>10, <1>12, <2>1, <3>1
  <2>2. CASE ~(k <= n)
    <3>1. k = l
      BY <1>2, <2>2
    <3> QED BY <1>1, <1>12, <2>2, <3>1
  <2> QED BY <2>1, <2>2
<1>14. t = v
  BY <1>1, <1>12, <1>13, StrEqual
<1> QED BY <1>1, <1>7, <1>8, <1>11, <1>14

-----------------------------------------------------------------------------
(* The fields of a body, and what is put for each of them.                   *)
GoodField(body, i) ==
  \/ body[i].kind \in {"num", "name"} /\ body[i].width \in Nat
  \/ /\ body[i].kind \in {"text", "memory", "data"}
     /\ \E j \in 1..(i - 1) : body[j].kind = "num" /\ body[j].name = body[i].len

GoodBody(body, n) ==
  n \in Nat /\ DOMAIN body = 1..n /\ Len(body) = n /\ \A i \in 1..n : GoodField(body, i)

LEMMA LenField ==
  ASSUME NEW body, NEW n, GoodBody(body, n), NEW m, BodyFits(body, m), NEW i \in 1..n,
         body[i].kind \in {"text", "memory", "data"}
  PROVE  m[body[i].len] \in Nat
<1>1. PICK j \in 1..(i - 1) : body[j].kind = "num" /\ body[j].name = body[i].len
  BY DEF GoodBody, GoodField
<1>2. n \in Nat /\ j \in 1..n /\ j \in DOMAIN body
  BY DEF GoodBody
<1>3. FieldFits(body[j], m)
  BY <1>2 DEF BodyFits
<1>4. Fits(m[body[j].name], body[j].width)
  BY <1>1, <1>3 DEF FieldFits
<1> QED BY <1>1, <1>4 DEF Fits

LEMMA MemoryIs ==
  ASSUME NEW f, f.kind = "memory", NEW m, FieldFits(f, m), NEW v, v = m[f.name]
  PROVE  v \in Str /\ Len(v) = m[f.len] /\ Len(v) >= 1 /\ \A k \in 1..Len(v) : v[k] = 0 <=> k = Len(v)
<1>1. /\ v \in Seq(Byte) /\ Len(v) = m[f.len] /\ v # << >>
      /\ \A k \in DOMAIN v : v[k] = 0 <=> k = Len(v)
  BY DEF FieldFits
<1>2. v \in Str /\ Len(v) \in Nat /\ DOMAIN v = 1..Len(v)
  BY <1>1, StrLen DEF Str
<1>3. Len(v) # 0
  BY <1>1
<1> QED BY <1>1, <1>2, <1>3

PutIs(f, m) ==
  /\ Width(f, m) \in Nat /\ Put(f, m) \in Str /\ Len(Put(f, m)) = Width(f, m)
  /\ Take(f, Put(f, m)) = m[f.name]

LEMMA FieldPut ==
  ASSUME NEW body, NEW n, GoodBody(body, n), NEW m, BodyFits(body, m), NEW i \in 1..n
  PROVE  PutIs(body[i], m)
<1>1. PICK f, v : f = body[i] /\ v = m[f.name]
  OBVIOUS
<1>2. FieldFits(f, m) /\ GoodField(body, i)
  BY <1>1 DEF GoodBody, BodyFits
<1>3. CASE f.kind = "num"
  <2>1. Fits(v, f.width) /\ f.width \in Nat
    BY <1>1, <1>2, <1>3 DEF FieldFits, GoodField
  <2>2. Put(f, m) = Net(v, f.width) /\ Width(f, m) = f.width
    BY <1>1, <1>3 DEF Put, Width, Variable
  <2>3. Net(v, f.width) \in Str /\ Len(Net(v, f.width)) = f.width /\ Host(Net(v, f.width)) = v
    BY <2>1, HostOfNet
  <2>4. Take(f, Put(f, m)) = Host(Put(f, m))
    BY <1>3 DEF Take
  <2> QED BY <1>1, <2>1, <2>2, <2>3, <2>4 DEF PutIs
<1>4. CASE f.kind = "data"
  <2>1. v \in Str /\ Len(v) = m[f.len]
    BY <1>1, <1>2, <1>4 DEF FieldFits, Str
  <2>2. Put(f, m) = v /\ Width(f, m) = m[f.len] /\ Take(f, v) = v
    BY <1>1, <1>4 DEF Put, Width, Variable, Take
  <2>3. m[f.len] \in Nat
    BY <1>1, <1>4, LenField
  <2> QED BY <1>1, <2>1, <2>2, <2>3 DEF PutIs
<1>5. CASE f.kind \in {"name", "text"}
  <2>1. PICK w : w = Width(f, m)
    OBVIOUS
  <2>2. v \in Text0 /\ w \in Nat /\ Len(v) <= w
    <3>1. CASE f.kind = "name"
      <4>1. v \in Text0 /\ Len(v) < f.width /\ f.width \in Nat /\ w = f.width
        BY <1>1, <1>2, <2>1, <3>1 DEF FieldFits, GoodField, Text0, Width, Variable
      <4> QED BY <4>1, TextIs
    <3>2. CASE f.kind = "text"
      <4>1. v \in Text0 /\ Len(v) < m[f.len] /\ w = m[f.len]
        BY <1>1, <1>2, <2>1, <3>2 DEF FieldFits, Text0, Width, Variable
      <4>2. m[f.len] \in Nat
        BY <1>1, <3>2, LenField
      <4> QED BY <4>1, <4>2, TextIs
    <3> QED BY <1>5, <3>1, <3>2
  <2>3. CString(v) = v /\ v \in Str
    <3>1. v \in Str /\ Len(v) \in Nat /\ \A k \in 1..Len(v) : v[k] # 0
      BY <2>2, TextIs
    <3> QED BY <3>1, CStringWhole
  <2>4. Put(f, m) = strncpy(v, w)
    <3>1. Put(f, m) = strncpy(CString(v), w)
      BY <1>1, <1>5, <2>1 DEF Put
    <3> QED BY <2>3, <3>1
  <2>5. strncpy(v, w) \in Str /\ Len(strncpy(v, w)) = w
    BY <2>2, <2>3, strncpyIs
  <2>6. Take(f, Put(f, m)) = CString(Put(f, m))
    BY <1>5 DEF Take
  <2>7. CString(strncpy(v, w)) = v
    BY <2>2, CStringOfCopy
  <2> QED BY <1>1, <2>1, <2>2, <2>4, <2>5, <2>6, <2>7 DEF PutIs
<1>6. CASE f.kind = "memory"
  <2>1. v \in Str /\ Len(v) = m[f.len] /\ Len(v) >= 1 /\ \A k \in 1..Len(v) : v[k] = 0 <=> k = Len(v)
    BY <1>1, <1>2, <1>6, MemoryIs
  <2>2. m[f.len] \in Nat
    BY <1>1, <1>6, LenField
  <2>3. strncpy(CString(v), Len(v)) = v
    BY <2>1, MemoryCopied
  <2>4. Width(f, m) = m[f.len]
    BY <1>6 DEF Width, Variable
  <2>5. Put(f, m) = strncpy(CString(v), m[f.len])
    BY <1>1, <1>6, <2>4 DEF Put
  <2>6. Take(f, v) = strncpy(CString(v), Len(v))
    BY <1>6 DEF Take
  <2> QED BY <1>1, <2>1, <2>2, <2>3, <2>4, <2>5, <2>6 DEF PutIs
<1>7. f.kind \in {"num", "name", "text", "memory", "data"}
  BY <1>1, <1>2 DEF GoodField
<1> QED BY <1>1, <1>3, <1>4, <1>5, <1>6, <1>7

-----------------------------------------------------------------------------
(* PackBody and UnPackBody, field by field.                                  *)
Packs(g, body, n, m) ==
  /\ g \in [0..n -> Str] /\ g[0] = << >>
  /\ \A k \in 1..n : g[k] = g[k - 1] \o Put(body[k], m)

LEMMA PackUpward ==
  ASSUME NEW c, NEW n, GoodBody(c.body, n), NEW m, BodyFits(c.body, m)
  PROVE  \E g : Packs(g, c.body, n, m) /\ PackBody(c, m) = g[n]
<1>1. PICK body, s : body = c.body /\ s = [i \in DOMAIN body |-> Put(body[i], m)]
  OBVIOUS
<1>2. n \in Nat /\ DOMAIN body = 1..n
  BY <1>1 DEF GoodBody
<1>3. \A i \in 1..n : Put(body[i], m) \in Str
  <2> SUFFICES ASSUME NEW i \in 1..n PROVE Put(body[i], m) \in Str
    OBVIOUS
  <2>1. PutIs(body[i], m)
    BY <1>1, FieldPut
  <2> QED BY <2>1 DEF PutIs
<1>4. s \in Seq(Str) /\ Len(s) = n /\ \A i \in 1..n : s[i] = Put(body[i], m)
  <2>1. s \in [1..n -> Str]
    BY <1>1, <1>2, <1>3
  <2> QED BY <1>1, <1>2, <2>1
<1>5. PackBody(c, m) = FlattenSeq(s)
  BY <1>1 DEF PackBody
<1>6. PICK g \in [0..Len(s) -> Str] : Joins(g, s) /\ FlattenSeq(s) = g[Len(s)]
  BY <1>4, FlattenUpward
<1>7. Packs(g, body, n, m)
  <2>1. g \in [0..n -> Str] /\ g[0] = << >> /\ \A k \in 1..n : g[k] = g[k - 1] \o s[k]
    BY <1>4, <1>6 DEF Joins
  <2> QED BY <1>4, <2>1 DEF Packs
<1>8. PackBody(c, m) = g[n]
  BY <1>4, <1>5, <1>6
<1> QED BY <1>1, <1>7, <1>8

PutAt(g, body, n, m, k) ==
  /\ n \in Nat /\ g[k - 1] \in Str /\ g[k] \in Str /\ PutIs(body[k], m)
  /\ g[k] = g[k - 1] \o Put(body[k], m)
  /\ Len(g[k]) = Len(g[k - 1]) + Width(body[k], m)

LEMMA PackStep ==
  ASSUME NEW body, NEW n, GoodBody(body, n), NEW m, BodyFits(body, m), NEW g, Packs(g, body, n, m),
         NEW k \in 1..n
  PROVE  PutAt(g, body, n, m, k)
<1>1. n \in Nat
  BY DEF GoodBody
<1>2. k \in 0..n /\ k - 1 \in 0..n
  BY <1>1
<1>3. g[k - 1] \in Str /\ g[k] \in Str /\ g[k] = g[k - 1] \o Put(body[k], m)
  BY <1>2 DEF Packs
<1>4. PutIs(body[k], m)
  BY FieldPut
<1>5. Put(body[k], m) \in Str /\ Len(Put(body[k], m)) = Width(body[k], m)
  BY <1>4 DEF PutIs
<1>6. Len(g[k - 1] \o Put(body[k], m)) = Len(g[k - 1]) + Len(Put(body[k], m))
  BY <1>3, <1>5, StrConcat
<1> QED BY <1>1, <1>3, <1>4, <1>5, <1>6 DEF PutAt

Begins(a, b) == \E z \in Str : b = a \o z

LEMMA PackBegins ==
  ASSUME NEW body, NEW n, GoodBody(body, n), NEW m, BodyFits(body, m), NEW g, Packs(g, body, n, m),
         NEW k \in 0..n
  PROVE  Begins(g[k], g[n])
<1>1. n \in Nat
  BY DEF GoodBody
<1> DEFINE T == {j \in Nat : j <= n => Begins(g[n - j], g[n])}
<1>2. 0 \in T
  <2>1. n \in 0..n /\ n - 0 = n
    BY <1>1
  <2>2. g[n] \in Str
    BY <2>1 DEF Packs
  <2>3. << >> \in Str /\ g[n] \o << >> = g[n]
    BY <2>2, StrEmpty
  <2>4. Begins(g[n], g[n])
    BY <2>3 DEF Begins
  <2> QED BY <2>1, <2>4
<1>3. ASSUME NEW j \in Nat, j \in T PROVE j + 1 \in T
  <2> SUFFICES ASSUME j + 1 <= n PROVE Begins(g[n - (j + 1)], g[n])
    OBVIOUS
  <2>1. PICK i : i = n - j
    OBVIOUS
  <2>2. i \in 1..n /\ n - (j + 1) = i - 1
    BY <1>1, <2>1
  <2>3. Begins(g[i], g[n])
    BY <1>1, <1>3, <2>1
  <2>4. PICK z \in Str : g[n] = g[i] \o z
    BY <2>3 DEF Begins
  <2>5. g[i - 1] \in Str /\ g[i] = g[i - 1] \o Put(body[i], m) /\ PutIs(body[i], m)
    <3>1. PutAt(g, body, n, m, i)
      BY <2>2, PackStep
    <3> QED BY <3>1 DEF PutAt
  <2>6. Put(body[i], m) \in Str
    BY <2>5 DEF PutIs
  <2>7. (g[i - 1] \o Put(body[i], m)) \o z = g[i - 1] \o (Put(body[i], m) \o z)
    BY <2>5, <2>6, StrAssoc
  <2>8. Put(body[i], m) \o z \in Str
    BY <2>6, StrConcat
  <2>9. Begins(g[i - 1], g[n])
    BY <2>4, <2>5, <2>7, <2>8 DEF Begins
  <2> QED BY <2>2, <2>9
<1>4. PICK j : j = n - k
  OBVIOUS
<1>5. j \in Nat /\ j <= n /\ n - j = k
  BY <1>1, <1>4
<1>6. j \in T
  <2> HIDE DEF T
  <2> QED BY <1>2, <1>3, <1>5, Induction
<1> QED BY <1>5, <1>6

(* Where a field begins in the packed body, and what stands there.           *)
LEMMA PackField ==
  ASSUME NEW body, NEW n, GoodBody(body, n), NEW m, BodyFits(body, m), NEW g, Packs(g, body, n, m),
         NEW k \in 1..n
  PROVE  /\ Len(g[k - 1]) + Width(body[k], m) <= Len(g[n])
         /\ Range1(g[n], Len(g[k - 1]) + 1, Width(body[k], m)) = Put(body[k], m)
<1>1. /\ n \in Nat /\ g[k - 1] \in Str /\ g[k] \in Str /\ PutIs(body[k], m)
      /\ g[k] = g[k - 1] \o Put(body[k], m) /\ Len(g[k]) = Len(g[k - 1]) + Width(body[k], m)
  <2>1. PutAt(g, body, n, m, k)
    BY PackStep
  <2> QED BY <2>1 DEF PutAt
<1>2. PICK a, p, w : a = g[k - 1] /\ p = Put(body[k], m) /\ w = Width(body[k], m)
  OBVIOUS
<1>3. a \in Str /\ p \in Str /\ w \in Nat /\ Len(p) = w /\ g[k] = a \o p /\ Len(a) \in Nat
  BY <1>1, <1>2, StrLen DEF PutIs
<1>4. k \in 0..n
  BY <1>1
<1>5. PICK z \in Str : g[n] = g[k] \o z
  BY <1>4, PackBegins DEF Begins
<1>6. Len(g[n]) = Len(g[k]) + Len(z) /\ Len(z) \in Nat
  BY <1>1, <1>5, StrConcat, StrLen
<1>7. PICK i, j : i = Len(a) + 1 /\ j = Len(a) + w
  OBVIOUS
<1>8. i \in Nat \ {0} /\ j \in Nat /\ i <= j + 1 /\ i + w - 1 = j
  BY <1>3, <1>7
<1>9. j <= Len(a \o p) /\ Len(a \o p) = Len(a) + Len(p)
  <2>1. Len(a \o p) = Len(a) + Len(p)
    BY <1>3, StrConcat
  <2> QED BY <1>3, <1>7, <2>1
<1>10. a \o p \in Str
  BY <1>3, StrConcat
<1>11. SubSeq((a \o p) \o z, i, j) = SubSeq(a \o p, i, j)
  BY <1>8, <1>9, <1>10, StrInside
<1>12. SubSeq(a \o p, i, j) = p
  <2>1. SubSeq(a \o p, Len(a) + 1, Len(a \o p)) = p
    BY <1>3, StrParts
  <2> QED BY <1>3, <1>7, <1>9, <2>1
<1>13. Range1(g[n], i, w) = p
  BY <1>3, <1>5, <1>8, <1>11, <1>12 DEF Range1
<1> QED BY <1>1, <1>2, <1>6, <1>3, <1>7, <1>13

(* UnPackBody after k of the fields: it is behind them, and has their values.  *)
Names(body, k) == {body[i].name : i \in 1..k}
ReadTo(g, body, m, k) == [at |-> Len(g[k]) + 1, m |-> [y \in Names(body, k) |-> m[y]]]

ReadNext(r, f, b) ==
  IF r.at + Width(f, r.m) - 1 > Len(b) THEN [at |-> Len(b) + 2, m |-> r.m]
  ELSE [at |-> r.at + Width(f, r.m),
        m |-> Assign(r.m, f.name, Take(f, Range1(b, r.at, Width(f, r.m))))]

LEMMA ReadField ==
  ASSUME NEW body, NEW n, GoodBody(body, n), NEW m, BodyFits(body, m), NEW g, Packs(g, body, n, m),
         NEW k \in 1..n
  PROVE  ReadNext(ReadTo(g, body, m, k - 1), body[k], g[n]) = ReadTo(g, body, m, k)
<1>1. PutAt(g, body, n, m, k)
  BY PackStep
<1>2. PICK f, w, l, r : /\ f = body[k] /\ w = Width(f, m) /\ l = Len(g[k - 1])
                        /\ r = ReadTo(g, body, m, k - 1)
  OBVIOUS
<1>3. /\ n \in Nat /\ w \in Nat /\ g[k - 1] \in Str /\ Len(g[k]) = l + w
      /\ Put(f, m) \in Str /\ Take(f, Put(f, m)) = m[f.name]
  BY <1>1, <1>2 DEF PutAt, PutIs
<1>4. l \in Nat
  BY <1>2, <1>3, StrLen
<1>5. r.at = l + 1 /\ r.m = [y \in Names(body, k - 1) |-> m[y]]
  BY <1>2 DEF ReadTo
<1>6. Width(f, r.m) = w
  <2>1. CASE ~Variable(f)
    BY <1>2, <2>1 DEF Width
  <2>2. CASE Variable(f)
    <3>1. GoodField(body, k)
      BY DEF GoodBody
    <3>2. \E j \in 1..(k - 1) : body[j].name = f.len
      BY <1>2, <2>2, <3>1 DEF GoodField, Variable
    <3>3. f.len \in Names(body, k - 1)
      BY <3>2 DEF Names
    <3>4. r.m[f.len] = m[f.len]
      BY <1>5, <3>3
    <3> QED BY <1>2, <2>2, <3>4 DEF Width
  <2> QED BY <2>1, <2>2
<1>7. l + w <= Len(g[n]) /\ Range1(g[n], l + 1, w) = Put(f, m)
  BY <1>2, PackField
<1>8. Len(g[n]) \in Nat
  <2>1. n \in 0..n
    BY <1>3
  <2> QED BY <2>1, StrLen DEF Packs
<1>9. ~(r.at + w - 1 > Len(g[n])) /\ r.at + w = Len(g[k]) + 1
  BY <1>3, <1>4, <1>5, <1>7, <1>8
<1>10. ReadNext(r, f, g[n]) = [at |-> r.at + w, m |-> Assign(r.m, f.name, Take(f, Range1(g[n], r.at, w)))]
  BY <1>6, <1>9 DEF ReadNext
<1>11. Take(f, Range1(g[n], r.at, w)) = m[f.name]
  BY <1>3, <1>5, <1>7
<1>12. Assign(r.m, f.name, m[f.name]) = [y \in Names(body, k) |-> m[y]]
  <2>1. Names(body, k) = Names(body, k - 1) \cup {f.name}
    <3>1. 1..k = 1..(k - 1) \cup {k}
      BY <1>3
    <3> QED BY <1>2, <3>1 DEF Names
  <2>2. DOMAIN r.m = Names(body, k - 1)
    BY <1>5
  <2>3. ASSUME NEW y \in Names(body, k) PROVE (IF y = f.name THEN m[f.name] ELSE r.m[y]) = m[y]
    <3>1. CASE y = f.name
      BY <3>1
    <3>2. CASE y # f.name
      BY <1>5, <2>1, <3>2
    <3> QED BY <3>1, <3>2
  <2> QED BY <2>1, <2>2, <2>3 DEF Assign
<1> QED BY <1>2, <1>9, <1>10, <1>11, <1>12 DEF ReadTo

Reads(h, body, b, n) ==
  h = [k \in 0..n |-> IF k = 0 THEN [at |-> 1, m |-> << >>] ELSE ReadNext(h[k - 1], body[k], b)]

LEMMA ReadsUnique ==
  ASSUME NEW n \in Nat, NEW body, NEW b, NEW h, Reads(h, body, b, n), NEW f, Reads(f, body, b, n)
  PROVE  h[n] = f[n]
<1>1. /\ h[0] = [at |-> 1, m |-> << >>] /\ f[0] = [at |-> 1, m |-> << >>]
      /\ \A k \in 1..n : h[k] = ReadNext(h[k - 1], body[k], b) /\ f[k] = ReadNext(f[k - 1], body[k], b)
  BY DEF Reads
<1> DEFINE T == {j \in Nat : j <= n => h[j] = f[j]}
<1>2. 0 \in T
  BY <1>1
<1>3. ASSUME NEW j \in Nat, j \in T PROVE j + 1 \in T
  <2> SUFFICES ASSUME j + 1 <= n PROVE h[j + 1] = f[j + 1]
    OBVIOUS
  <2>1. j + 1 \in 1..n /\ (j + 1) - 1 = j /\ h[j] = f[j]
    BY <1>3
  <2>2. /\ h[j + 1] = ReadNext(h[(j + 1) - 1], body[j + 1], b)
        /\ f[j + 1] = ReadNext(f[(j + 1) - 1], body[j + 1], b)
    BY <1>1, <2>1
  <2> QED BY <2>1, <2>2
<1>4. n \in T
  <2> HIDE DEF T
  <2> QED BY <1>2, <1>3, Induction
<1> QED BY <1>4

LEMMA UnPackReads ==
  ASSUME NEW c, NEW n \in Nat, Len(c.body) = n, NEW b, NEW h, Reads(h, c.body, b, n)
  PROVE  UnPackBody(c, b) = h[n]
<1> DEFINE Step(r, f) ==
             LET w == Width(f, r.m)
             IN  IF r.at + w - 1 > Len(b) THEN [at |-> Len(b) + 2, m |-> r.m]
                 ELSE [at |-> r.at + w, m |-> Assign(r.m, f.name, Take(f, Range1(b, r.at, w)))]
           D(f) == f = [k \in 0..Len(c.body) |->
                          IF k = 0 THEN [at |-> 1, m |-> << >>] ELSE Step(f[k - 1], c.body[k])]
           f == CHOOSE x : D(x)
<1>1. UnPackBody(c, b) = f[Len(c.body)]
  BY DEF UnPackBody
<1>2. \A r, e : Step(r, e) = ReadNext(r, e, b)
  BY DEF ReadNext
<1>3. \A x : D(x) <=> Reads(x, c.body, b, n)
  <2> HIDE DEF Step
  <2> QED BY <1>2 DEF Reads
<1>4. D(f)
  <2>1. D(h)
    BY <1>3
  <2> HIDE DEF D
  <2> QED BY <2>1
<1>5. Reads(f, c.body, b, n)
  <2> HIDE DEF D, f
  <2> QED BY <1>3, <1>4
<1> HIDE DEF f
<1>6. h[n] = f[n]
  BY <1>5, ReadsUnique
<1> QED BY <1>1, <1>6

(* UnPackBody reads what PackBody packed.                                    *)
LEMMA UnPackPacked ==
  ASSUME NEW c, NEW n, GoodBody(c.body, n), NEW m, BodyFits(c.body, m)
  PROVE  UnPackBody(c, PackBody(c, m)).m = m
<1>1. PICK g, body : Packs(g, body, n, m) /\ PackBody(c, m) = g[n] /\ body = c.body
  BY PackUpward
<1>2. n \in Nat /\ DOMAIN body = 1..n /\ Len(body) = n
  BY <1>1 DEF GoodBody
<1>3. PICK h : h = [k \in 0..n |-> ReadTo(g, body, m, k)]
  OBVIOUS
<1>4. \A k \in 1..n : h[k] = ReadNext(h[k - 1], body[k], g[n])
  <2> SUFFICES ASSUME NEW k \in 1..n PROVE h[k] = ReadNext(h[k - 1], body[k], g[n])
    OBVIOUS
  <2>1. ReadNext(ReadTo(g, body, m, k - 1), body[k], g[n]) = ReadTo(g, body, m, k)
    BY <1>1, ReadField
  <2>2. k \in 0..n /\ k - 1 \in 0..n
    BY <1>2
  <2>3. h[k] = ReadTo(g, body, m, k) /\ h[k - 1] = ReadTo(g, body, m, k - 1)
    BY <1>3, <2>2
  <2> QED BY <2>1, <2>3
<1>5. h[0] = [at |-> 1, m |-> << >>]
  <2>1. h[0] = ReadTo(g, body, m, 0)
    BY <1>2, <1>3
  <2>2. Len(g[0]) + 1 = 1
    BY <1>1, StrEmpty DEF Packs
  <2>3. [y \in Names(body, 0) |-> m[y]] = << >>
    <3>1. Names(body, 0) = {}
      BY DEF Names
    <3> QED BY <3>1
  <2> QED BY <2>1, <2>2, <2>3 DEF ReadTo
<1>6. Reads(h, body, g[n], n)
  <2>1. \A k \in 0..n : h[k] = IF k = 0 THEN [at |-> 1, m |-> << >>] ELSE ReadNext(h[k - 1], body[k], g[n])
    <3> SUFFICES ASSUME NEW k \in 0..n
                 PROVE  h[k] = IF k = 0 THEN [at |-> 1, m |-> << >>] ELSE ReadNext(h[k - 1], body[k], g[n])
      OBVIOUS
    <3>1. CASE k = 0
      BY <1>5, <3>1
    <3>2. CASE k # 0
      <4>1. k \in 1..n
        BY <1>2, <3>2
      <4> QED BY <1>4, <3>2, <4>1
    <3> QED BY <3>1, <3>2
  <2>2. DOMAIN h = 0..n /\ h = [k \in 0..n |-> h[k]]
    BY <1>3
  <2> QED BY <2>1, <2>2 DEF Reads
<1>7. UnPackBody(c, g[n]) = h[n]
  BY <1>1, <1>2, <1>6, UnPackReads
<1>8. h[n].m = [y \in Names(body, n) |-> m[y]]
  <2>1. h[n] = ReadTo(g, body, m, n)
    BY <1>2, <1>3
  <2> QED BY <2>1 DEF ReadTo
<1>9. m = [y \in {body[i].name : i \in DOMAIN body} |-> m[y]]
  BY <1>1 DEF BodyFits
<1>10. {body[i].name : i \in DOMAIN body} = Names(body, n)
  BY <1>2 DEF Names
<1> QED BY <1>1, <1>7, <1>8, <1>9, <1>10

-----------------------------------------------------------------------------
(* Size() is the length of what PackBody packs.                              *)
Fixed(f) == IF Variable(f) THEN 0 ELSE f.width
More(f, m) == IF Variable(f) THEN m[f.len] ELSE 0

Sums(F, body, n) ==
  /\ F \in [0..n -> Nat] /\ F[0] = 0 /\ \A k \in 1..n : F[k] = F[k - 1] + Fixed(body[k])

Counts(h, c, m, n) == h = [k \in 0..n |-> IF k = 0 THEN c.Size ELSE h[k - 1] + More(c.body[k], m)]

LEMMA CountsUnique ==
  ASSUME NEW n \in Nat, NEW c, NEW m, NEW h, Counts(h, c, m, n), NEW f, Counts(f, c, m, n)
  PROVE  h[n] = f[n]
<1>1. /\ h[0] = c.Size /\ f[0] = c.Size
      /\ \A k \in 1..n : h[k] = h[k - 1] + More(c.body[k], m) /\ f[k] = f[k - 1] + More(c.body[k], m)
  BY DEF Counts
<1> DEFINE T == {j \in Nat : j <= n => h[j] = f[j]}
<1>2. 0 \in T
  BY <1>1
<1>3. ASSUME NEW j \in Nat, j \in T PROVE j + 1 \in T
  <2> SUFFICES ASSUME j + 1 <= n PROVE h[j + 1] = f[j + 1]
    OBVIOUS
  <2>1. j + 1 \in 1..n /\ (j + 1) - 1 = j /\ h[j] = f[j]
    BY <1>3
  <2>2. /\ h[j + 1] = h[(j + 1) - 1] + More(c.body[j + 1], m)
        /\ f[j + 1] = f[(j + 1) - 1] + More(c.body[j + 1], m)
    BY <1>1, <2>1
  <2> QED BY <2>1, <2>2
<1>4. n \in T
  <2> HIDE DEF T
  <2> QED BY <1>2, <1>3, Induction
<1> QED BY <1>4

LEMMA BodySizeCounts ==
  ASSUME NEW c, NEW n \in Nat, Len(c.body) = n, NEW m, NEW h, Counts(h, c, m, n)
  PROVE  BodySize(c, m) = h[n]
<1> DEFINE D(f) == f = [k \in 0..Len(c.body) |->
                          IF k = 0 THEN c.Size
                          ELSE f[k - 1] + (IF Variable(c.body[k]) THEN m[c.body[k].len] ELSE 0)]
           f == CHOOSE x : D(x)
<1>1. BodySize(c, m) = f[Len(c.body)]
  BY DEF BodySize
<1>2. \A x : D(x) <=> Counts(x, c, m, n)
  BY DEF Counts, More
<1>3. D(f)
  <2>1. D(h)
    BY <1>2
  <2> HIDE DEF D
  <2> QED BY <2>1
<1>4. Counts(f, c, m, n)
  <2> HIDE DEF D, f
  <2> QED BY <1>2, <1>3
<1> HIDE DEF f
<1>5. h[n] = f[n]
  BY <1>4, CountsUnique
<1> QED BY <1>1, <1>5

LEMMA PackedSize ==
  ASSUME NEW c, NEW n, GoodBody(c.body, n), NEW m, BodyFits(c.body, m),
         NEW F, Sums(F, c.body, n), F[n] = c.Size
  PROVE  PackBody(c, m) \in Str /\ Len(PackBody(c, m)) = BodySize(c, m)
<1>1. PICK g, body : Packs(g, body, n, m) /\ PackBody(c, m) = g[n] /\ body = c.body
  BY PackUpward
<1>2. n \in Nat /\ Len(body) = n
  BY <1>1 DEF GoodBody
<1>3. /\ F \in [0..n -> Nat] /\ F[0] = 0 /\ \A k \in 1..n : F[k] = F[k - 1] + Fixed(body[k])
  BY <1>1 DEF Sums
<1>4. g \in [0..n -> Str] /\ g[0] = << >>
  BY <1>1 DEF Packs
<1>5. PICK s : s = c.Size
  OBVIOUS
<1>6. s = F[n] /\ s \in Nat
  BY <1>2, <1>3, <1>5
<1>7. PICK h : h = [k \in 0..n |-> s + Len(g[k]) - F[k]]
  OBVIOUS
<1>8. h[0] = s
  <2>1. 0 \in 0..n /\ Len(g[0]) = 0
    BY <1>2, <1>4, StrEmpty
  <2> QED BY <1>3, <1>6, <1>7, <2>1
<1>9. ASSUME NEW k \in 1..n PROVE h[k] = h[k - 1] + More(body[k], m)
  <2>1. PutAt(g, body, n, m, k)
    BY <1>1, PackStep
  <2>2. PICK a, b, w, x, y : a = Len(g[k - 1]) /\ b = Len(g[k]) /\ w = Width(body[k], m)
                             /\ x = F[k - 1] /\ y = F[k]
    OBVIOUS
  <2>3. w \in Nat /\ g[k - 1] \in Str /\ b = a + w
    BY <2>1, <2>2 DEF PutAt, PutIs
  <2>4. a \in Nat
    BY <2>2, <2>3, StrLen
  <2>5. k \in 0..n /\ k - 1 \in 0..n
    BY <1>2
  <2>6. x \in Nat /\ y \in Nat /\ y = x + Fixed(body[k])
    BY <1>3, <2>2, <2>5
  <2>7. h[k] = s + b - y /\ h[k - 1] = s + a - x
    BY <1>7, <2>2, <2>5
  <2>8. CASE Variable(body[k])
    <3>1. w = More(body[k], m) /\ Fixed(body[k]) = 0
      BY <2>2, <2>8 DEF Width, More, Fixed
    <3> QED BY <1>6, <2>3, <2>4, <2>6, <2>7, <3>1
  <2>9. CASE ~Variable(body[k])
    <3>1. w = Fixed(body[k]) /\ More(body[k], m) = 0
      BY <2>2, <2>9 DEF Width, More, Fixed
    <3> QED BY <1>6, <2>3, <2>4, <2>6, <2>7, <3>1
  <2> QED BY <2>8, <2>9
<1>10. Counts(h, c, m, n)
  <2>1. \A k \in 0..n : h[k] = IF k = 0 THEN c.Size ELSE h[k - 1] + More(c.body[k], m)
    <3> SUFFICES ASSUME NEW k \in 0..n
                 PROVE  h[k] = IF k = 0 THEN c.Size ELSE h[k - 1] + More(c.body[k], m)
      OBVIOUS
    <3>1. CASE k = 0
      BY <1>5, <1>8, <3>1
    <3>2. CASE k # 0
      <4>1. k \in 1..n
        BY <1>2, <3>2
      <4> QED BY <1>1, <1>9, <3>2, <4>1
    <3> QED BY <3>1, <3>2
  <2>2. h = [k \in 0..n |-> h[k]]
    BY <1>7
  <2> QED BY <2>1, <2>2 DEF Counts
<1>11. BodySize(c, m) = h[n]
  BY <1>1, <1>2, <1>10, BodySizeCounts
<1>12. n \in 0..n
  BY <1>2
<1>13. g[n] \in Str /\ Len(g[n]) \in Nat
  BY <1>4, <1>12, StrLen
<1>14. h[n] = Len(g[n])
  BY <1>6, <1>7, <1>12, <1>13
<1> QED BY <1>1, <1>11, <1>13, <1>14

-----------------------------------------------------------------------------
(* The message classes.                                                      *)
LEMMA SumsUpward ==
  ASSUME NEW body, NEW n, GoodBody(body, n)
  PROVE  \E F : Sums(F, body, n)
<1>1. n \in Nat
  BY DEF GoodBody
<1>2. \A k \in 1..n : Fixed(body[k]) \in Nat
  <2> SUFFICES ASSUME NEW k \in 1..n PROVE Fixed(body[k]) \in Nat
    OBVIOUS
  <2>1. GoodField(body, k)
    BY DEF GoodBody
  <2> QED BY <2>1 DEF GoodField, Fixed, Variable
<1>3. PICK G : G = [p \in Nat \X (1..n) |-> p[1] + Fixed(body[p[2]])]
  OBVIOUS
<1>4. G \in [Nat \X (1..n) -> Nat]
  <2>1. ASSUME NEW p \in Nat \X (1..n) PROVE p[1] + Fixed(body[p[2]]) \in Nat
    <3>1. p[1] \in Nat /\ Fixed(body[p[2]]) \in Nat
      BY <1>2
    <3> QED BY <3>1
  <2> QED BY <1>3, <2>1
<1>5. PICK F \in [0..n -> Nat] : Upward(F, n, 0, G)
  <2>1. 0 \in Nat
    OBVIOUS
  <2> QED BY <1>1, <1>4, <2>1, UpwardFunction
<1>6. \A k \in 1..n : F[k] = F[k - 1] + Fixed(body[k])
  <2> SUFFICES ASSUME NEW k \in 1..n PROVE F[k] = F[k - 1] + Fixed(body[k])
    OBVIOUS
  <2>1. k - 1 \in 0..n
    BY <1>1
  <2>2. <<F[k - 1], k>> \in Nat \X (1..n) /\ F[k] = G[<<F[k - 1], k>>]
    BY <1>5, <2>1 DEF Upward
  <2> QED BY <1>3, <2>2
<1> QED BY <1>5, <1>6 DEF Sums, Upward

GoodClass(c) == \E n, F : GoodBody(c.body, n) /\ Sums(F, c.body, n) /\ F[n] = c.Size

LEMMA SumIs ==
  ASSUME NEW body, NEW n \in 1..5, NEW F, Sums(F, body, n), NEW X,
         \A k \in 1..n : X[k] \in Nat /\ Fixed(body[k]) = X[k]
  PROVE  /\ n = 1 => F[n] = X[1]
         /\ n = 3 => F[n] = X[1] + X[2] + X[3]
         /\ n = 4 => F[n] = X[1] + X[2] + X[3] + X[4]
         /\ n = 5 => F[n] = X[1] + X[2] + X[3] + X[4] + X[5]
<1>1. F \in [0..n -> Nat] /\ F[0] = 0 /\ \A k \in 1..n : F[k] = F[k - 1] + X[k]
  BY DEF Sums
<1>2. \A k \in 1..n : F[k - 1] \in Nat
  BY <1>1
<1>3. F[1] = X[1]
  <2>1. 1 \in 1..n /\ 1 - 1 = 0
    OBVIOUS
  <2>2. F[1] = F[0] + X[1] /\ F[1] \in Nat
    BY <1>1, <2>1
  <2> QED BY <1>1, <2>2
<1>4. n >= 2 => F[2] = F[1] + X[2]
  BY <1>1
<1>5. n >= 3 => F[3] = F[2] + X[3]
  BY <1>1
<1>6. n >= 4 => F[4] = F[3] + X[4]
  BY <1>1
<1>7. n >= 5 => F[5] = F[4] + X[5]
  BY <1>1
<1> QED BY <1>3, <1>4, <1>5, <1>6, <1>7

LEMMA JoinOne ==
  ASSUME NEW S, NEW a \in S, NEW x \in S, NEW y \in S, NEW z \in S
  PROVE  <<a>> \o <<x, y, z>> = <<a, x, y, z>>
<1>1. PICK p, q, t : p = <<a>> /\ q = <<x, y, z>> /\ t = <<a, x, y, z>>
  OBVIOUS
<1>2. p \in Seq(S) /\ Len(p) = 1 /\ p[1] = a
  BY <1>1
<1>3. q \in Seq(S) /\ Len(q) = 3 /\ q[1] = x /\ q[2] = y /\ q[3] = z
  BY <1>1
<1>4. t \in Seq(S) /\ Len(t) = 4 /\ t[1] = a /\ t[2] = x /\ t[3] = y /\ t[4] = z
  BY <1>1
<1>5. PICK r : r = p \o q
  OBVIOUS
<1>6. /\ r \in Seq(S) /\ Len(r) = Len(p) + Len(q)
      /\ \A i \in 1..(Len(p) + Len(q)) : r[i] = IF i <= Len(p) THEN p[i] ELSE q[i - Len(p)]
  BY <1>2, <1>3, <1>5, ConcatProperties
<1>7. Len(r) = 4 /\ \A i \in 1..4 : r[i] = IF i <= 1 THEN p[i] ELSE q[i - 1]
  BY <1>2, <1>3, <1>6
<1>8. r[1] = a
  BY <1>2, <1>3, <1>7
<1>9. r[2] = x
  BY <1>2, <1>3, <1>7
<1>10. r[3] = y
  BY <1>2, <1>3, <1>7
<1>11. r[4] = z
  BY <1>2, <1>3, <1>7
<1>12. \A i \in 1..4 : i = 1 \/ i = 2 \/ i = 3 \/ i = 4
  OBVIOUS
<1>13. \A i \in 1..Len(r) : r[i] = t[i]
  BY <1>4, <1>7, <1>8, <1>9, <1>10, <1>11, <1>12
<1>14. r = t
  BY <1>4, <1>6, <1>7, <1>13, SeqEqual
<1> QED BY <1>1, <1>5, <1>14

LEMMA JoinTwo ==
  ASSUME NEW S, NEW a \in S, NEW b \in S, NEW x \in S, NEW y \in S, NEW z \in S
  PROVE  <<a, b>> \o <<x, y, z>> = <<a, b, x, y, z>>
<1>1. PICK p, q, t : p = <<a, b>> /\ q = <<x, y, z>> /\ t = <<a, b, x, y, z>>
  OBVIOUS
<1>2. p \in Seq(S) /\ Len(p) = 2 /\ p[1] = a /\ p[2] = b
  BY <1>1
<1>3. q \in Seq(S) /\ Len(q) = 3 /\ q[1] = x /\ q[2] = y /\ q[3] = z
  BY <1>1
<1>4. t \in Seq(S) /\ Len(t) = 5 /\ t[1] = a /\ t[2] = b /\ t[3] = x /\ t[4] = y /\ t[5] = z
  BY <1>1
<1>5. PICK r : r = p \o q
  OBVIOUS
<1>6. /\ r \in Seq(S) /\ Len(r) = Len(p) + Len(q)
      /\ \A i \in 1..(Len(p) + Len(q)) : r[i] = IF i <= Len(p) THEN p[i] ELSE q[i - Len(p)]
  BY <1>2, <1>3, <1>5, ConcatProperties
<1>7. Len(r) = 5 /\ \A i \in 1..5 : r[i] = IF i <= 2 THEN p[i] ELSE q[i - 2]
  BY <1>2, <1>3, <1>6
<1>8. r[1] = a
  BY <1>2, <1>3, <1>7
<1>9. r[2] = b
  BY <1>2, <1>3, <1>7
<1>10. r[3] = x
  BY <1>2, <1>3, <1>7
<1>11. r[4] = y
  BY <1>2, <1>3, <1>7
<1>12. r[5] = z
  BY <1>2, <1>3, <1>7
<1>13. \A i \in 1..5 : i = 1 \/ i = 2 \/ i = 3 \/ i = 4 \/ i = 5
  OBVIOUS
<1>14. \A i \in 1..Len(r) : r[i] = t[i]
  BY <1>4, <1>7, <1>8, <1>9, <1>10, <1>11, <1>12, <1>13
<1>15. r = t
  BY <1>4, <1>6, <1>7, <1>14, SeqEqual
<1> QED BY <1>1, <1>5, <1>15

LEMMA RegisterFields ==
  /\ <<Name("service_name")>> \o ClientHost
       = <<Name("service_name"), Num("ip", 4), Num("port", 2), Num("busy_state", 4)>>
  /\ <<Num("ret_code", 2), Name("dest_name")>> \o ClientHost
       = <<Num("ret_code", 2), Name("dest_name"), Num("ip", 4), Num("port", 2), Num("busy_state", 4)>>
<1>1. PICK a, b, c, x, y, z : /\ a = Name("service_name") /\ b = Num("ret_code", 2) /\ c = Name("dest_name")
                              /\ x = Num("ip", 4) /\ y = Num("port", 2) /\ z = Num("busy_state", 4)
  OBVIOUS
<1>2. ClientHost = <<x, y, z>>
  BY <1>1 DEF ClientHost
<1>3. PICK S : S = {a, b, c, x, y, z}
  OBVIOUS
<1>4. a \in S /\ b \in S /\ c \in S /\ x \in S /\ y \in S /\ z \in S
  BY <1>3
<1>5. <<a>> \o <<x, y, z>> = <<a, x, y, z>>
  BY <1>4, JoinOne
<1>6. <<b, c>> \o <<x, y, z>> = <<b, c, x, y, z>>
  BY <1>4, JoinTwo
<1> QED BY <1>1, <1>2, <1>5, <1>6

Total(X, n) == IF n = 1 THEN X[1]
               ELSE IF n = 3 THEN X[1] + X[2] + X[3]
               ELSE IF n = 4 THEN X[1] + X[2] + X[3] + X[4]
               ELSE X[1] + X[2] + X[3] + X[4] + X[5]

LEMMA GoodIf ==
  ASSUME NEW c, NEW n \in {1, 3, 4, 5}, GoodBody(c.body, n), NEW X,
         \A k \in 1..n : X[k] \in Nat /\ Fixed(c.body[k]) = X[k], c.Size = Total(X, n)
  PROVE  GoodClass(c)
<1>1. PICK F : Sums(F, c.body, n)
  BY SumsUpward
<1>2. n \in 1..5
  OBVIOUS
<1>3. /\ n = 1 => F[n] = X[1]
      /\ n = 3 => F[n] = X[1] + X[2] + X[3]
      /\ n = 4 => F[n] = X[1] + X[2] + X[3] + X[4]
      /\ n = 5 => F[n] = X[1] + X[2] + X[3] + X[4] + X[5]
  BY <1>1, <1>2, SumIs
<1>4. F[n] = c.Size
  BY <1>3 DEF Total
<1> QED BY <1>1, <1>4 DEF GoodClass

LEMMA MsgBusRegisterReqGood == GoodClass(MsgBusRegisterReq)
<1>1. PICK c, X : c = MsgBusRegisterReq /\ X = <<MAX_SERVICE_NAME, 4, 2, 4>>
  OBVIOUS
<1>2. c.body = <<Name("service_name"), Num("ip", 4), Num("port", 2), Num("busy_state", 4)>>
  BY <1>1, RegisterFields DEF MsgBusRegisterReq, Req
<1>3. GoodBody(c.body, 4)
  BY <1>2, NameAssumption DEF GoodBody, GoodField, Num, Name, Text, Bytes
<1>4. \A k \in 1..4 : X[k] \in Nat /\ Fixed(c.body[k]) = X[k]
  BY <1>1, <1>2, NameAssumption DEF Fixed, Variable, Num, Name
<1>5. c.Size = Total(X, 4)
  BY <1>1, NameAssumption DEF MsgBusRegisterReq, Req, Total
<1> QED BY <1>1, <1>3, <1>4, <1>5, GoodIf

LEMMA MsgBusRegisterRspGood == GoodClass(MsgBusRegisterRsp)
<1>1. PICK c, X : c = MsgBusRegisterRsp /\ X = <<2, MAX_SERVICE_NAME, 2, 0>>
  OBVIOUS
<1>3. GoodBody(c.body, 4)
  BY <1>1, NameAssumption DEF MsgBusRegisterRsp, Rsp, GoodBody, GoodField, Num, Name, Memory, Bytes
<1>4. \A k \in 1..4 : X[k] \in Nat /\ Fixed(c.body[k]) = X[k]
  BY <1>1, NameAssumption DEF MsgBusRegisterRsp, Rsp, Fixed, Variable, Num, Name, Memory, Bytes
<1>5. c.Size = Total(X, 4)
  BY <1>1, NameAssumption DEF MsgBusRegisterRsp, Rsp, Total
<1> QED BY <1>1, <1>3, <1>4, <1>5, GoodIf

LEMMA PyRegisterRspGood == GoodClass(PyRegisterRsp)
<1>1. PICK c, X : c = PyRegisterRsp /\ X = <<2, MAX_SERVICE_NAME, 2, 0>>
  OBVIOUS
<1>3. GoodBody(c.body, 4)
  BY <1>1, NameAssumption DEF PyRegisterRsp, Rsp, GoodBody, GoodField, Num, Name, Bytes
<1>4. \A k \in 1..4 : X[k] \in Nat /\ Fixed(c.body[k]) = X[k]
  BY <1>1, NameAssumption DEF PyRegisterRsp, Rsp, Fixed, Variable, Num, Name, Bytes
<1>5. c.Size = Total(X, 4)
  BY <1>1, NameAssumption DEF PyRegisterRsp, Rsp, Total
<1> QED BY <1>1, <1>3, <1>4, <1>5, GoodIf

LEMMA MsgBusUnRegisterReqGood == GoodClass(MsgBusUnRegisterReq)
<1>1. PICK c, X : c = MsgBusUnRegisterReq /\ X = <<MAX_SERVICE_NAME, 4, 2, 4>>
  OBVIOUS
<1>2. c.body = <<Name("service_name"), Num("ip", 4), Num("port", 2), Num("busy_state", 4)>>
  BY <1>1, RegisterFields DEF MsgBusUnRegisterReq, Req
<1>3. GoodBody(c.body, 4)
  BY <1>2, NameAssumption DEF GoodBody, GoodField, Num, Name, Text, Bytes
<1>4. \A k \in 1..4 : X[k] \in Nat /\ Fixed(c.body[k]) = X[k]
  BY <1>1, <1>2, NameAssumption DEF Fixed, Variable, Num, Name
<1>5. c.Size = Total(X, 4)
  BY <1>1, NameAssumption DEF MsgBusUnRegisterReq, Req, Total
<1> QED BY <1>1, <1>3, <1>4, <1>5, GoodIf

LEMMA MsgBusConfirmAliveReqGood == GoodClass(MsgBusConfirmAliveReq)
<1>1. PICK c, X : c = MsgBusConfirmAliveReq /\ X = <<1>>
  OBVIOUS
<1>3. GoodBody(c.body, 1)
  BY <1>1, NameAssumption DEF MsgBusConfirmAliveReq, Req, GoodBody, GoodField, Num, Name, Text,
     Bytes
<1>4. \A k \in 1..1 : X[k] \in Nat /\ Fixed(c.body[k]) = X[k]
  BY <1>1, NameAssumption DEF MsgBusConfirmAliveReq, Req, Fixed, Variable, Num, Name, Text, Bytes
<1>5. c.Size = Total(X, 1)
  BY <1>1, NameAssumption DEF MsgBusConfirmAliveReq, Req, Total
<1> QED BY <1>1, <1>3, <1>4, <1>5, GoodIf

LEMMA MsgBusConfirmAliveRspGood == GoodClass(MsgBusConfirmAliveRsp)
<1>1. PICK c, X : c = MsgBusConfirmAliveRsp /\ X = <<2>>
  OBVIOUS
<1>3. GoodBody(c.body, 1)
  BY <1>1, NameAssumption DEF MsgBusConfirmAliveRsp, Rsp, GoodBody, GoodField, Num, Name, Text,
     Bytes
<1>4. \A k \in 1..1 : X[k] \in Nat /\ Fixed(c.body[k]) = X[k]
  BY <1>1, NameAssumption DEF MsgBusConfirmAliveRsp, Rsp, Fixed, Variable, Num, Name, Text, Bytes
<1>5. c.Size = Total(X, 1)
  BY <1>1, NameAssumption DEF MsgBusConfirmAliveRsp, Rsp, Total
<1> QED BY <1>1, <1>3, <1>4, <1>5, GoodIf

LEMMA MsgBusGetClientReqGood == GoodClass(MsgBusGetClientReq)
<1>1. PICK c, X : c = MsgBusGetClientReq /\ X = <<MAX_SERVICE_NAME>>
  OBVIOUS
<1>3. GoodBody(c.body, 1)
  BY <1>1, NameAssumption DEF MsgBusGetClientReq, Req, GoodBody, GoodField, Num, Name, Text, Bytes
<1>4. \A k \in 1..1 : X[k] \in Nat /\ Fixed(c.body[k]) = X[k]
  BY <1>1, NameAssumption DEF MsgBusGetClientReq, Req, Fixed, Variable, Num, Name, Text, Bytes
<1>5. c.Size = Total(X, 1)
  BY <1>1, NameAssumption DEF MsgBusGetClientReq, Req, Total
<1> QED BY <1>1, <1>3, <1>4, <1>5, GoodIf

LEMMA MsgBusGetClientRspGood == GoodClass(MsgBusGetClientRsp)
<1>1. PICK c, X : c = MsgBusGetClientRsp /\ X = <<2, MAX_SERVICE_NAME, 4, 2, 4>>
  OBVIOUS
<1>2. c.body = <<Num("ret_code", 2), Name("dest_name"), Num("ip", 4), Num("port", 2), Num("busy_state", 4)>>
  BY <1>1, RegisterFields DEF MsgBusGetClientRsp, Rsp
<1>3. GoodBody(c.body, 5)
  BY <1>2, NameAssumption DEF GoodBody, GoodField, Num, Name, Text, Bytes
<1>4. \A k \in 1..5 : X[k] \in Nat /\ Fixed(c.body[k]) = X[k]
  BY <1>1, <1>2, NameAssumption DEF Fixed, Variable, Num, Name
<1>5. c.Size = Total(X, 5)
  BY <1>1, NameAssumption DEF MsgBusGetClientRsp, Rsp, Total
<1> QED BY <1>1, <1>3, <1>4, <1>5, GoodIf

LEMMA MsgBusSendMsgReqGood == GoodClass(MsgBusSendMsgReq)
<1>1. PICK c, X : c = MsgBusSendMsgReq /\ X = <<MAX_SERVICE_NAME, MAX_SERVICE_NAME, 4, 0>>
  OBVIOUS
<1>3. GoodBody(c.body, 4)
  BY <1>1, NameAssumption DEF MsgBusSendMsgReq, Req, GoodBody, GoodField, Num, Name, Text, Bytes
<1>4. \A k \in 1..4 : X[k] \in Nat /\ Fixed(c.body[k]) = X[k]
  BY <1>1, NameAssumption DEF MsgBusSendMsgReq, Req, Fixed, Variable, Num, Name, Text, Bytes
<1>5. c.Size = Total(X, 4)
  BY <1>1, NameAssumption DEF MsgBusSendMsgReq, Req, Total
<1> QED BY <1>1, <1>3, <1>4, <1>5, GoodIf

LEMMA MsgBusSendMsgRspGood == GoodClass(MsgBusSendMsgRsp)
<1>1. PICK c, X : c = MsgBusSendMsgRsp /\ X = <<2, 2, 0>>
  OBVIOUS
<1>3. GoodBody(c.body, 3)
  BY <1>1, NameAssumption DEF MsgBusSendMsgRsp, Rsp, GoodBody, GoodField, Num, Name, Memory, Bytes
<1>4. \A k \in 1..3 : X[k] \in Nat /\ Fixed(c.body[k]) = X[k]
  BY <1>1, NameAssumption DEF MsgBusSendMsgRsp, Rsp, Fixed, Variable, Num, Name, Memory, Bytes
<1>5. c.Size = Total(X, 3)
  BY <1>1, NameAssumption DEF MsgBusSendMsgRsp, Rsp, Total
<1> QED BY <1>1, <1>3, <1>4, <1>5, GoodIf

LEMMA PySendMsgRspGood == GoodClass(PySendMsgRsp)
<1>1. PICK c, X : c = PySendMsgRsp /\ X = <<2, 2, 0>>
  OBVIOUS
<1>3. GoodBody(c.body, 3)
  BY <1>1, NameAssumption DEF PySendMsgRsp, Rsp, GoodBody, GoodField, Num, Name, Bytes
<1>4. \A k \in 1..3 : X[k] \in Nat /\ Fixed(c.body[k]) = X[k]
  BY <1>1, NameAssumption DEF PySendMsgRsp, Rsp, Fixed, Variable, Num, Name, Bytes
<1>5. c.Size = Total(X, 3)
  BY <1>1, NameAssumption DEF PySendMsgRsp, Rsp, Total
<1> QED BY <1>1, <1>3, <1>4, <1>5, GoodIf

LEMMA MsgBusPackPBTypeGood == GoodClass(MsgBusPackPBType)
<1>1. PICK c, X : c = MsgBusPackPBType /\ X = <<4, 4, 0, 0>>
  OBVIOUS
<1>3. GoodBody(c.body, 4)
  BY <1>1, NameAssumption DEF MsgBusPackPBType, Req, GoodBody, GoodField, Num, Name, Text, Bytes
<1>4. \A k \in 1..4 : X[k] \in Nat /\ Fixed(c.body[k]) = X[k]
  BY <1>1, NameAssumption DEF MsgBusPackPBType, Req, Fixed, Variable, Num, Name, Text, Bytes
<1>5. c.Size = Total(X, 4)
  BY <1>1, NameAssumption DEF MsgBusPackPBType, Req, Total
<1> QED BY <1>1, <1>3, <1>4, <1>5, GoodIf

SmallType(c) == Small(c.body_type) /\ c.msg_type \in {0, 1}

LEMMA RegisterReqType == SmallType(MsgBusRegisterReq) /\ MsgBusRegisterReq.body_type = 65537
BY SMT DEF SmallType, Small, MsgBusRegisterReq, Req

LEMMA RegisterRspType == SmallType(MsgBusRegisterRsp) /\ MsgBusRegisterRsp.body_type = 131073
BY SMT DEF SmallType, Small, MsgBusRegisterRsp, Rsp

LEMMA UnRegisterReqType == SmallType(MsgBusUnRegisterReq) /\ MsgBusUnRegisterReq.body_type = 65538
BY SMT DEF SmallType, Small, MsgBusUnRegisterReq, Req

LEMMA ConfirmAliveReqType == SmallType(MsgBusConfirmAliveReq) /\ MsgBusConfirmAliveReq.body_type = 65539
BY SMT DEF SmallType, Small, MsgBusConfirmAliveReq, Req

LEMMA ConfirmAliveRspType == SmallType(MsgBusConfirmAliveRsp) /\ MsgBusConfirmAliveRsp.body_type = 131075
BY SMT DEF SmallType, Small, MsgBusConfirmAliveRsp, Rsp

LEMMA GetClientReqType == SmallType(MsgBusGetClientReq) /\ MsgBusGetClientReq.body_type = 65541
BY SMT DEF SmallType, Small, MsgBusGetClientReq, Req

LEMMA GetClientRspType == SmallType(MsgBusGetClientRsp) /\ MsgBusGetClientRsp.body_type = 131077
BY SMT DEF SmallType, Small, MsgBusGetClientRsp, Rsp

LEMMA SendMsgReqType == SmallType(MsgBusSendMsgReq) /\ MsgBusSendMsgReq.body_type = 65540
BY SMT DEF SmallType, Small, MsgBusSendMsgReq, Req

LEMMA SendMsgRspType == SmallType(MsgBusSendMsgRsp) /\ MsgBusSendMsgRsp.body_type = 131076
BY SMT DEF SmallType, Small, MsgBusSendMsgRsp, Rsp

LEMMA PyRegisterRspType == SmallType(PyRegisterRsp) /\ PyRegisterRsp.body_type = 131073
BY SMT DEF SmallType, Small, PyRegisterRsp, Rsp

LEMMA PySendMsgRspType == SmallType(PySendMsgRsp) /\ PySendMsgRsp.body_type = 131076
BY SMT DEF SmallType, Small, PySendMsgRsp, Rsp

LEMMA PackPBTypeType == SmallType(MsgBusPackPBType) /\ MsgBusPackPBType.body_type = 196609
BY SMT DEF SmallType, Small, MsgBusPackPBType, Req

(* The two answers that carry an error text are the classes in which C++ and  *)
(* the Python port differ; the other eight are the same.                     *)
RegisterRsp(lang) == IF lang = "cpp" THEN MsgBusRegisterRsp ELSE PyRegisterRsp
SendMsgRsp(lang) == IF lang = "cpp" THEN MsgBusSendMsgRsp ELSE PySendMsgRsp

LEMMA SameClasses ==
  /\ PyRegisterReq = MsgBusRegisterReq /\ PyUnRegisterReq = MsgBusUnRegisterReq
  /\ PyConfirmAliveReq = MsgBusConfirmAliveReq /\ PyConfirmAliveRsp = MsgBusConfirmAliveRsp
  /\ PyGetClientReq = MsgBusGetClientReq /\ PyGetClientRsp = MsgBusGetClientRsp
  /\ PySendMsgReq = MsgBusSendMsgReq /\ PyPackPBType = MsgBusPackPBType
<1>1. PyRegisterReq = MsgBusRegisterReq
  BY NameAssumption, SMT DEF PyRegisterReq, MsgBusRegisterReq, Req
<1>3. PyUnRegisterReq = MsgBusUnRegisterReq
  BY NameAssumption, SMT DEF PyUnRegisterReq, MsgBusUnRegisterReq, Req
<1>4. PyConfirmAliveReq = MsgBusConfirmAliveReq
  BY NameAssumption, SMT DEF PyConfirmAliveReq, MsgBusConfirmAliveReq, Req
<1>5. PyConfirmAliveRsp = MsgBusConfirmAliveRsp
  BY NameAssumption, SMT DEF PyConfirmAliveRsp, MsgBusConfirmAliveRsp, Rsp
<1>6. PyGetClientReq = MsgBusGetClientReq
  BY NameAssumption, SMT DEF PyGetClientReq, MsgBusGetClientReq, Req
<1>7. PyGetClientRsp = MsgBusGetClientRsp
  BY NameAssumption, SMT DEF PyGetClientRsp, MsgBusGetClientRsp, Rsp
<1>8. PySendMsgReq = MsgBusSendMsgReq
  BY NameAssumption, SMT DEF PySendMsgReq, MsgBusSendMsgReq, Req
<1>10. PyPackPBType = MsgBusPackPBType
  BY NameAssumption, SMT DEF PyPackPBType, MsgBusPackPBType, Req
<1> QED BY <1>1, <1>3, <1>4, <1>5, <1>6, <1>7, <1>8, <1>10

LEMMA ClassesAre ==
  ASSUME NEW lang \in {"cpp", "py"}
  PROVE  Classes[lang] = {MsgBusRegisterReq, RegisterRsp(lang), MsgBusUnRegisterReq,
                          MsgBusConfirmAliveReq, MsgBusConfirmAliveRsp, MsgBusGetClientReq,
                          MsgBusGetClientRsp, MsgBusSendMsgReq, SendMsgRsp(lang), MsgBusPackPBType}
<1>1. CASE lang = "cpp"
  <2>1. RegisterRsp(lang) = MsgBusRegisterRsp /\ SendMsgRsp(lang) = MsgBusSendMsgRsp
    BY <1>1 DEF RegisterRsp, SendMsgRsp
  <2> QED BY <1>1, <2>1 DEF Classes
<1>2. CASE lang = "py"
  <2>1. RegisterRsp(lang) = PyRegisterRsp /\ SendMsgRsp(lang) = PySendMsgRsp
    BY <1>2 DEF RegisterRsp, SendMsgRsp
  <2>2. Classes["py"] = {PyRegisterReq, PyRegisterRsp, PyUnRegisterReq, PyConfirmAliveReq,
                         PyConfirmAliveRsp, PyGetClientReq, PyGetClientRsp, PySendMsgReq,
                         PySendMsgRsp, PyPackPBType}
    BY DEF Classes
  <2> QED BY <1>2, <2>1, <2>2, SameClasses
<1> QED BY <1>1, <1>2

LEMMA RspGood ==
  ASSUME NEW lang \in {"cpp", "py"}
  PROVE  /\ GoodClass(RegisterRsp(lang)) /\ SmallType(RegisterRsp(lang))
         /\ RegisterRsp(lang).body_type = 131073
         /\ GoodClass(SendMsgRsp(lang)) /\ SmallType(SendMsgRsp(lang))
         /\ SendMsgRsp(lang).body_type = 131076
<1>1. RegisterRsp(lang) = MsgBusRegisterRsp \/ RegisterRsp(lang) = PyRegisterRsp
  BY DEF RegisterRsp
<1>2. SendMsgRsp(lang) = MsgBusSendMsgRsp \/ SendMsgRsp(lang) = PySendMsgRsp
  BY DEF SendMsgRsp
<1>3. /\ GoodClass(RegisterRsp(lang)) /\ SmallType(RegisterRsp(lang))
      /\ RegisterRsp(lang).body_type = 131073
  BY <1>1, MsgBusRegisterRspGood, RegisterRspType, PyRegisterRspGood, PyRegisterRspType
<1>4. /\ GoodClass(SendMsgRsp(lang)) /\ SmallType(SendMsgRsp(lang))
      /\ SendMsgRsp(lang).body_type = 131076
  BY <1>2, MsgBusSendMsgRspGood, SendMsgRspType, PySendMsgRspGood, PySendMsgRspType
<1> QED BY <1>3, <1>4

LEMMA ClassesGood ==
  ASSUME NEW lang \in {"cpp", "py"}, NEW c \in Classes[lang]
  PROVE  GoodClass(c) /\ SmallType(c)
<1>1. \/ c = MsgBusRegisterReq
      \/ c = RegisterRsp(lang)
      \/ c = MsgBusUnRegisterReq
      \/ c = MsgBusConfirmAliveReq
      \/ c = MsgBusConfirmAliveRsp
      \/ c = MsgBusGetClientReq
      \/ c = MsgBusGetClientRsp
      \/ c = MsgBusSendMsgReq
      \/ c = SendMsgRsp(lang)
      \/ c = MsgBusPackPBType
  BY ClassesAre
<1> QED BY <1>1, RspGood, MsgBusRegisterReqGood, RegisterReqType,
           MsgBusUnRegisterReqGood, UnRegisterReqType, MsgBusConfirmAliveReqGood,
           ConfirmAliveReqType, MsgBusConfirmAliveRspGood, ConfirmAliveRspType,
           MsgBusGetClientReqGood, GetClientReqType, MsgBusGetClientRspGood, GetClientRspType,
           MsgBusSendMsgReqGood, SendMsgReqType, MsgBusPackPBTypeGood, PackPBTypeType

LEMMA ClassOfType ==
  ASSUME NEW lang \in {"cpp", "py"}, NEW c \in Classes[lang]
  PROVE  ClassOf(lang, c.body_type) = c /\ GoodClass(c) /\ SmallType(c)
<1>1. PICK C : C = Classes[lang]
  OBVIOUS
<1>2. C = {MsgBusRegisterReq, RegisterRsp(lang), MsgBusUnRegisterReq,
           MsgBusConfirmAliveReq, MsgBusConfirmAliveRsp, MsgBusGetClientReq,
           MsgBusGetClientRsp, MsgBusSendMsgReq, SendMsgRsp(lang), MsgBusPackPBType}
  BY <1>1, ClassesAre
<1>3. \A d, e \in C : d.body_type = e.body_type => d = e
  <2>1. PICK c1, c2, c3, c4, c5, c6, c7, c8, c9, c10 : 
          /\ c1 = MsgBusRegisterReq /\ c1.body_type = 65537
          /\ c2 = RegisterRsp(lang) /\ c2.body_type = 131073
          /\ c3 = MsgBusUnRegisterReq /\ c3.body_type = 65538
          /\ c4 = MsgBusConfirmAliveReq /\ c4.body_type = 65539
          /\ c5 = MsgBusConfirmAliveRsp /\ c5.body_type = 131075
          /\ c6 = MsgBusGetClientReq /\ c6.body_type = 65541
          /\ c7 = MsgBusGetClientRsp /\ c7.body_type = 131077
          /\ c8 = MsgBusSendMsgReq /\ c8.body_type = 65540
          /\ c9 = SendMsgRsp(lang) /\ c9.body_type = 131076
          /\ c10 = MsgBusPackPBType /\ c10.body_type = 196609
    BY RspGood, RegisterReqType, UnRegisterReqType, ConfirmAliveReqType,
       ConfirmAliveRspType, GetClientReqType, GetClientRspType, SendMsgReqType, PackPBTypeType
  <2>2. C = {c1, c2, c3, c4, c5, c6, c7, c8, c9, c10}
    BY <1>2, <2>1, SMT
  <2> QED BY <2>1, <2>2, SMT
<1>4. ClassOf(lang, c.body_type) = CHOOSE d \in C : d.body_type = c.body_type
  BY <1>1 DEF ClassOf
<1>5. c \in C
  BY <1>1
<1>6. (CHOOSE d \in C : d.body_type = c.body_type) = c
  BY <1>3, <1>5
<1> QED BY <1>4, <1>6, ClassesGood

-----------------------------------------------------------------------------
(* What PackData packs is a frame, and UnPackFrame reads it back.            *)
BusFits(lang, c, x) ==
  /\ c \in Classes[lang] /\ c.body_type = x.body_type /\ (lang = "py" => c.msg_type = 0)
  /\ x = [body_type |-> x.body_type, msg_id |-> x.msg_id, m |-> x.m]
  /\ Fits(x.msg_id, 4) /\ BodyFits(c.body, x.m) /\ Fits(BodySize(c, x.m), 4)

BusFrame(p, h, c, x) ==
  /\ HeadHas(h, x.msg_id, c.body_type, BodySize(c, x.m)) /\ p = h \o PackBody(c, x.m)

LEMMA PackedBody ==
  ASSUME NEW c, GoodClass(c), NEW m, BodyFits(c.body, m)
  PROVE  /\ PackBody(c, m) \in Str /\ Len(PackBody(c, m)) = BodySize(c, m)
         /\ UnPackBody(c, PackBody(c, m)).m = m
<1>1. PICK n, F : GoodBody(c.body, n) /\ Sums(F, c.body, n) /\ F[n] = c.Size
  BY DEF GoodClass
<1> QED BY <1>1, PackedSize, UnPackPacked

LEMMA BusPacked ==
  ASSUME OnBus, NEW lang \in {"cpp", "py"}, NEW c, NEW x, BusFits(lang, c, x)
  PROVE  \E h : BusFrame(PackData(lang, x), h, c, x)
<1>1. ClassOf(lang, x.body_type) = c /\ GoodClass(c) /\ SmallType(c)
  BY ClassOfType DEF BusFits
<1>2. PICK h : h = PackHead(c.msg_type, x.msg_id, c.body_type, BodySize(c, x.m))
  OBVIOUS
<1>3. h = PyPackHead(c.msg_type, x.msg_id, c.body_type, BodySize(c, x.m))
  BY <1>2 DEF PackHead, PyPackHead
<1>4. Fits(c.body_type, 4) /\ c.msg_type \in {0, 1}
  BY <1>1, SmallFits DEF SmallType
<1>5. Fits(x.msg_id, 4) /\ Fits(BodySize(c, x.m), 4)
  BY DEF BusFits
<1>6. HeadHas(h, x.msg_id, c.body_type, BodySize(c, x.m))
  BY <1>2, <1>4, <1>5, HeadIs
<1>7. PackData(lang, x) = [cpp |-> h, py |-> h][lang] \o PackBody(c, x.m)
  BY <1>1, <1>2, <1>3 DEF PackData
<1>8. [cpp |-> h, py |-> h][lang] = h
  OBVIOUS
<1> QED BY <1>6, <1>7, <1>8 DEF BusFrame

LEMMA BusFrameIs ==
  ASSUME NEW lang \in {"cpp", "py"}, NEW c, NEW x, BusFits(lang, c, x), NEW p,
         NEW h, BusFrame(p, h, c, x)
  PROVE  p \in Str /\ IsFrame(HeadSize, p) /\ Behind(p, h, PackBody(c, x.m)) /\ PyHeadAccepted(p)
<1>1. GoodClass(c) /\ BodyFits(c.body, x.m)
  BY ClassOfType DEF BusFits
<1>2. PICK b, s : b = PackBody(c, x.m) /\ s = BodySize(c, x.m)
  OBVIOUS
<1>3. b \in Str /\ Len(b) = s /\ s \in Nat
  BY <1>1, <1>2, PackedBody, StrLen
<1>4. /\ h \in Str /\ Len(h) = 16 /\ h[1] = MAGIC /\ Host(Range1(h, 2, 2)) = VERSION
      /\ Host(Range1(h, 13, 4)) = s /\ p = h \o b
  BY <1>2 DEF BusFrame, HeadHas, HeadSize
<1>5. Behind(p, h, b)
  BY <1>3, <1>4, BehindIs
<1>6. /\ p \in Str /\ Len(p) = 16 + s /\ p[1] = MAGIC
      /\ Range1(p, 13, 4) = Range1(h, 13, 4) /\ Range1(p, 2, 2) = Range1(h, 2, 2)
  BY <1>3, <1>4, <1>5 DEF Behind
<1>7. FrameSize(16, p) = 16 + s
  <2>1. 16 - 3 = 13
    OBVIOUS
  <2> QED BY <1>4, <1>6, <2>1 DEF FrameSize
<1>8. IsFrame(16, p)
  BY <1>3, <1>6, <1>7 DEF IsFrame, HoldsFrame
<1>9. PyHeadAccepted(p)
  BY <1>4, <1>6 DEF PyHeadAccepted
<1> QED BY <1>2, <1>5, <1>6, <1>8, <1>9 DEF HeadSize

(* The reader's class of a message reads the same bytes to the same fields:   *)
(* an error text that C++ sends is for Python the bytes it consists of.      *)
AsBytes(f, g) ==
  \/ g = f
  \/ f.kind = "memory" /\ g.kind = "data" /\ g.name = f.name /\ g.len = f.len

LEMMA FieldAsBytes ==
  ASSUME NEW f, NEW g, AsBytes(f, g), NEW m, FieldFits(f, m)
  PROVE  FieldFits(g, m) /\ Put(g, m) = Put(f, m) /\ g.name = f.name
<1>1. CASE g = f
  BY <1>1
<1>2. CASE f.kind = "memory" /\ g.kind = "data" /\ g.name = f.name /\ g.len = f.len
  <2>1. PICK v : v = m[f.name]
    OBVIOUS
  <2>2. v \in Str /\ Len(v) = m[f.len] /\ Len(v) >= 1 /\ \A k \in 1..Len(v) : v[k] = 0 <=> k = Len(v)
    BY <1>2, <2>1, MemoryIs
  <2>3. Width(f, m) = Len(v)
    BY <1>2, <2>2 DEF Width, Variable
  <2>4. Put(f, m) = strncpy(CString(v), Len(v))
    BY <1>2, <2>1, <2>3 DEF Put
  <2>5. Put(f, m) = v
    BY <2>2, <2>4, MemoryCopied
  <2>6. Put(g, m) = v
    BY <1>2, <2>1 DEF Put
  <2>7. FieldFits(g, m)
    BY <1>2, <2>1, <2>2 DEF FieldFits, Str
  <2> QED BY <1>2, <2>5, <2>6, <2>7
<1> QED BY <1>1, <1>2 DEF AsBytes

LEMMA BodyAsBytes ==
  ASSUME NEW c, NEW d, DOMAIN d.body = DOMAIN c.body,
         \A i \in DOMAIN c.body : AsBytes(c.body[i], d.body[i]), NEW m, BodyFits(c.body, m)
  PROVE  BodyFits(d.body, m) /\ PackBody(d, m) = PackBody(c, m)
<1>1. PICK I, a, b : I = DOMAIN c.body /\ a = c.body /\ b = d.body
  OBVIOUS
<1>2. /\ DOMAIN a = I /\ DOMAIN b = I /\ m = [y \in {a[i].name : i \in I} |-> m[y]]
      /\ \A i \in I : FieldFits(a[i], m) /\ AsBytes(a[i], b[i])
  BY <1>1 DEF BodyFits
<1>3. \A i \in I : FieldFits(b[i], m) /\ Put(b[i], m) = Put(a[i], m) /\ b[i].name = a[i].name
  BY <1>2, FieldAsBytes
<1>4. {b[i].name : i \in I} = {a[i].name : i \in I}
  BY <1>3
<1>5. BodyFits(b, m)
  BY <1>2, <1>3, <1>4 DEF BodyFits
<1>6. [i \in I |-> Put(b[i], m)] = [i \in I |-> Put(a[i], m)]
  BY <1>3
<1>7. PackBody(c, m) = FlattenSeq([i \in I |-> Put(a[i], m)])
  BY <1>1 DEF PackBody
<1>8. PackBody(d, m) = FlattenSeq([i \in I |-> Put(b[i], m)])
  BY <1>1, <1>2 DEF PackBody
<1> QED BY <1>1, <1>5, <1>6, <1>7, <1>8

ReadAs(c, d) ==
  /\ d.body_type = c.body_type /\ DOMAIN d.body = DOMAIN c.body
  /\ \A i \in DOMAIN c.body : AsBytes(c.body[i], d.body[i])

LEMMA RspReadAs ==
  ReadAs(MsgBusRegisterRsp, PyRegisterRsp) /\ ReadAs(MsgBusSendMsgRsp, PySendMsgRsp)
<1>1. PICK c, d : c = MsgBusRegisterRsp.body /\ d = PyRegisterRsp.body
  OBVIOUS
<1>2. PICK q, n, l, e, b : /\ q = Num("ret_code", 2) /\ n = Name("service_name")
                           /\ l = Num("err_msg_len", 2) /\ e = Memory("err_msg", "err_msg_len")
                           /\ b = Bytes("err_msg", "err_msg_len")
  OBVIOUS
<1>3. AsBytes(e, b) /\ AsBytes(q, q) /\ AsBytes(n, n) /\ AsBytes(l, l)
  BY <1>2 DEF AsBytes, Memory, Bytes
<1>4. c = <<q, n, l, e>> /\ d = <<q, n, l, b>>
  BY <1>1, <1>2 DEF MsgBusRegisterRsp, PyRegisterRsp, Rsp
<1>5. DOMAIN d = DOMAIN c /\ \A i \in DOMAIN c : AsBytes(c[i], d[i])
  <2>1. DOMAIN c = 1..4 /\ DOMAIN d = 1..4
    BY <1>4
  <2>2. AsBytes(c[1], d[1]) /\ AsBytes(c[2], d[2]) /\ AsBytes(c[3], d[3]) /\ AsBytes(c[4], d[4])
    BY <1>3, <1>4
  <2>3. \A i \in 1..4 : i = 1 \/ i = 2 \/ i = 3 \/ i = 4
    OBVIOUS
  <2> QED BY <2>1, <2>2, <2>3
<1>6. ReadAs(MsgBusRegisterRsp, PyRegisterRsp)
  BY <1>1, <1>5, RegisterRspType, PyRegisterRspType DEF ReadAs
<1>7. PICK s, t : s = MsgBusSendMsgRsp.body /\ t = PySendMsgRsp.body
  OBVIOUS
<1>8. s = <<q, l, e>> /\ t = <<q, l, b>>
  BY <1>2, <1>7 DEF MsgBusSendMsgRsp, PySendMsgRsp, Rsp
<1>9. DOMAIN t = DOMAIN s /\ \A i \in DOMAIN s : AsBytes(s[i], t[i])
  <2>1. DOMAIN s = 1..3 /\ DOMAIN t = 1..3
    BY <1>8
  <2>2. AsBytes(s[1], t[1]) /\ AsBytes(s[2], t[2]) /\ AsBytes(s[3], t[3])
    BY <1>3, <1>8
  <2>3. \A i \in 1..3 : i = 1 \/ i = 2 \/ i = 3
    OBVIOUS
  <2> QED BY <2>1, <2>2, <2>3
<1>10. ReadAs(MsgBusSendMsgRsp, PySendMsgRsp)
  BY <1>7, <1>9, SendMsgRspType, PySendMsgRspType DEF ReadAs
<1> QED BY <1>6, <1>10

LEMMA ReadersClass ==
  ASSUME NEW lang \in {"cpp", "py"}, NEW to \in {"cpp", "py"}, NEW c \in Classes[lang],
         lang = "py" => c.msg_type = 0
  PROVE  \E d \in Classes[to] : ReadAs(c, d)
<1>1. ReadAs(c, c)
  BY DEF ReadAs, AsBytes
<1>2. CASE lang = to
  BY <1>1, <1>2
<1>3. CASE lang # to /\ c \in {RegisterRsp(lang), SendMsgRsp(lang)}
  <2>1. lang = "cpp" /\ to = "py"
    <3>1. CASE lang = "py"
      <4>1. c = PyRegisterRsp \/ c = PySendMsgRsp
        BY <1>3, <3>1 DEF RegisterRsp, SendMsgRsp
      <4>2. PyRegisterRsp.msg_type = 1 /\ PySendMsgRsp.msg_type = 1
        BY DEF PyRegisterRsp, PySendMsgRsp, Rsp
      <4> QED BY <3>1, <4>1, <4>2
    <3> QED BY <1>3, <3>1
  <2>2. RegisterRsp(to) \in Classes[to] /\ SendMsgRsp(to) \in Classes[to]
    BY ClassesAre
  <2>3. RegisterRsp(to) = PyRegisterRsp /\ SendMsgRsp(to) = PySendMsgRsp
    BY <2>1 DEF RegisterRsp, SendMsgRsp
  <2>4. RegisterRsp(lang) = MsgBusRegisterRsp /\ SendMsgRsp(lang) = MsgBusSendMsgRsp
    BY <2>1 DEF RegisterRsp, SendMsgRsp
  <2>5. CASE c = RegisterRsp(lang)
    BY <2>2, <2>3, <2>4, <2>5, RspReadAs
  <2>6. CASE c = SendMsgRsp(lang)
    BY <2>2, <2>3, <2>4, <2>6, RspReadAs
  <2> QED BY <1>3, <2>5, <2>6
<1>4. CASE c \notin {RegisterRsp(lang), SendMsgRsp(lang)}
  <2>1. c \in Classes[to]
    BY <1>4, ClassesAre
  <2> QED BY <1>1, <2>1
<1> QED BY <1>2, <1>3, <1>4

LEMMA BusUnPacked ==
  ASSUME OnBus, NEW lang \in {"cpp", "py"}, NEW to \in {"cpp", "py"}, NEW c, NEW x, BusFits(lang, c, x),
         NEW p, NEW h, BusFrame(p, h, c, x)
  PROVE  UnPackFrame(to, p) = x
<1>1. GoodClass(c) /\ BodyFits(c.body, x.m) /\ c \in Classes[lang] /\ (lang = "py" => c.msg_type = 0)
  BY ClassOfType DEF BusFits
<1>2. PICK b : b = PackBody(c, x.m)
  OBVIOUS
<1>3. Behind(p, h, b) /\ b \in Str
  BY <1>1, <1>2, BusFrameIs, PackedBody
<1>4. /\ h \in Str /\ Len(h) = 16 /\ p = h \o b
      /\ Host(Range1(h, 5, 4)) = x.msg_id /\ Host(Range1(h, 9, 4)) = c.body_type
  BY <1>2 DEF BusFrame, HeadHas, HeadSize
<1>5. Range1(p, 5, 4) = Range1(h, 5, 4) /\ Range1(p, 9, 4) = Range1(h, 9, 4)
  BY <1>4, <1>3 DEF Behind
<1>6. SubSeq(p, 16 + 1, Len(p)) = b
  BY <1>3, <1>4, StrParts
<1>7. UnPackHead(p).body_type = c.body_type /\ UnPackHead(p).msg_id = x.msg_id
  BY <1>4, <1>5 DEF UnPackHead
<1>8. PICK d \in Classes[to] : ReadAs(c, d)
  BY <1>1, ReadersClass
<1>9. ClassOf(to, c.body_type) = d
  BY <1>8, ClassOfType DEF ReadAs
<1>10. BodyFits(d.body, x.m) /\ PackBody(d, x.m) = b
  BY <1>1, <1>2, <1>8, BodyAsBytes DEF ReadAs
<1>11. UnPackBody(d, b).m = x.m
  BY <1>8, <1>10, ClassesGood, PackedBody
<1>12. UnPackFrame(to, p) = [body_type |-> c.body_type, msg_id |-> x.msg_id, m |-> x.m]
  BY <1>6, <1>7, <1>9, <1>11 DEF UnPackFrame, HeadSize
<1> QED BY <1>12 DEF BusFits

(* A reader that has the head of a frame of the bus accepts it.              *)
LEMMA HeadAccepted ==
  ASSUME NEW b \in Str, NEW z \in Str, NEW p \in Str, NEW q \in Str, b \o z = p \o q,
         Len(b) >= HeadSize, Len(p) >= HeadSize, PyHeadAccepted(p)
  PROVE  PyHeadAccepted(b)
<1>1. Len(b) \in Nat /\ Len(p) \in Nat /\ Len(b) >= 16 /\ Len(p) >= 16
  BY StrLen DEF HeadSize
<1>2. Behind(b \o z, b, z) /\ Behind(p \o q, p, q)
  BY BehindIs
<1>3. (b \o z)[1] = b[1] /\ (p \o q)[1] = p[1]
  BY <1>1, <1>2 DEF Behind
<1>4. Range1(b \o z, 2, 2) = Range1(b, 2, 2)
  BY <1>1, <1>2 DEF Behind
<1>5. Range1(p \o q, 2, 2) = Range1(p, 2, 2)
  BY <1>1, <1>2 DEF Behind
<1> QED BY <1>3, <1>4, <1>5 DEF PyHeadAccepted

-----------------------------------------------------------------------------
(* The frames between two clients: fields of fixed width, the last of them   *)
(* the number of bytes of the data behind them.                              *)
DirectBody(body, n, h) ==
  /\ GoodBody(body, n) /\ n \in {3, 4} /\ h = IF n = 4 THEN 9 ELSE 8
  /\ body[1].kind = "num" /\ body[1].width = IF n = 4 THEN 1 ELSE 4
  /\ body[2].kind = "num" /\ body[2].width = 4
  /\ body[n - 1].kind = "num" /\ body[n - 1].width = 4 /\ body[n - 1].name = "data_len"
  /\ body[n].kind = "data" /\ body[n].len = "data_len"

LEMMA DirectFieldsAre ==
  ASSUME NEW lang \in {"cpp", "py"}
  PROVE  DirectBody(DirectFields(lang, "request"), 4, 9) /\ DirectBody(DirectFields(lang, "answer"), 3, 8)
<1>1. PICK a, b : a = DirectFields(lang, "request") /\ b = DirectFields(lang, "answer")
  OBVIOUS
<1>2. a = <<Num("is_sync", 1), Num("sync_sid", 4), Num("data_len", 4), Bytes("data", "data_len")>>
  BY <1>1 DEF DirectFields, ReceiverReq, PyReceiverSendMsgReq
<1>3. b = <<Num("sync_sid", 4), Num("data_len", 4), Bytes("data", "data_len")>>
  BY <1>1 DEF DirectFields, ReceiverRsp, PyReceiverSendMsgRsp
<1>4. GoodBody(a, 4)
  BY <1>2 DEF GoodBody, GoodField, Num, Bytes
<1>5. GoodBody(b, 3)
  BY <1>3 DEF GoodBody, GoodField, Num, Bytes
<1>6. DirectBody(a, 4, 9)
  BY <1>2, <1>4 DEF DirectBody, Num, Bytes
<1>7. DirectBody(b, 3, 8)
  BY <1>3, <1>5 DEF DirectBody, Num, Bytes
<1> QED BY <1>1, <1>6, <1>7

LEMMA DirectHeadSize ==
  ASSUME NEW body, NEW n, NEW h, DirectBody(body, n, h), NEW m, BodyFits(body, m), NEW g,
         Packs(g, body, n, m)
  PROVE  Len(g[n - 2]) = h - 4 /\ Len(g[n - 1]) = h /\ h \in {8, 9}
<1>1. /\ n \in {3, 4} /\ h = IF n = 4 THEN 9 ELSE 8
      /\ body[1].kind = "num" /\ body[1].width = IF n = 4 THEN 1 ELSE 4
      /\ body[2].kind = "num" /\ body[2].width = 4
      /\ body[n - 1].kind = "num" /\ body[n - 1].width = 4 /\ GoodBody(body, n)
  BY DEF DirectBody
<1>2. Width(body[1], m) = (IF n = 4 THEN 1 ELSE 4) /\ Width(body[2], m) = 4 /\ Width(body[n - 1], m) = 4
  BY <1>1 DEF Width, Variable
<1>3. Len(g[0]) = 0
  BY StrEmpty DEF Packs
<1>4. \A k \in 1..n : Len(g[k]) = Len(g[k - 1]) + Width(body[k], m)
  <2> SUFFICES ASSUME NEW k \in 1..n PROVE Len(g[k]) = Len(g[k - 1]) + Width(body[k], m)
    OBVIOUS
  <2>1. PutAt(g, body, n, m, k)
    BY <1>1, PackStep
  <2> QED BY <2>1 DEF PutAt
<1>5. Len(g[1]) = Len(g[0]) + Width(body[1], m)
  <2>1. 1 \in 1..n /\ 1 - 1 = 0
    BY <1>1
  <2> QED BY <1>4, <2>1
<1>6. Len(g[2]) = Len(g[1]) + Width(body[2], m)
  <2>1. 2 \in 1..n /\ 2 - 1 = 1
    BY <1>1
  <2> QED BY <1>4, <2>1
<1>7. n = 4 => Len(g[3]) = Len(g[2]) + Width(body[3], m)
  <2> SUFFICES ASSUME n = 4 PROVE Len(g[3]) = Len(g[2]) + Width(body[3], m)
    OBVIOUS
  <2>1. 3 \in 1..n /\ 3 - 1 = 2
    OBVIOUS
  <2> QED BY <1>4, <2>1
<1>8. CASE n = 4
  <2>1. n - 1 = 3 /\ n - 2 = 2 /\ h = 9
    BY <1>1, <1>8
  <2>2. Width(body[1], m) = 1 /\ Width(body[2], m) = 4 /\ Width(body[3], m) = 4
    BY <1>2, <1>8, <2>1
  <2>3. Len(g[1]) = 1 /\ Len(g[2]) = 5
    BY <1>3, <1>5, <1>6, <2>2
  <2>4. Len(g[3]) = 9
    BY <1>7, <1>8, <2>2, <2>3
  <2> QED BY <2>1, <2>3, <2>4
<1>9. CASE n = 3
  BY <1>1, <1>2, <1>3, <1>5, <1>6, <1>9
<1> QED BY <1>1, <1>8, <1>9

LEMMA DirectFrame ==
  ASSUME NEW c, NEW n, NEW h, DirectBody(c.body, n, h), NEW m, BodyFits(c.body, m)
  PROVE  /\ PackBody(c, m) \in Str /\ IsFrame(h, PackBody(c, m))
         /\ UnPackBody(c, PackBody(c, m)).m = m
<1>1. GoodBody(c.body, n)
  BY DEF DirectBody
<1>2. PICK g, body, p : Packs(g, body, n, m) /\ PackBody(c, m) = p /\ p = g[n] /\ body = c.body
  BY <1>1, PackUpward
<1>3. /\ n \in {3, 4} /\ DirectBody(body, n, h) /\ GoodBody(body, n) /\ BodyFits(body, m)
      /\ DOMAIN body = 1..n
      /\ body[n - 1].kind = "num" /\ body[n - 1].width = 4 /\ body[n - 1].name = "data_len"
      /\ body[n].kind = "data" /\ body[n].len = "data_len"
  BY <1>1, <1>2 DEF DirectBody, GoodBody
<1>4. Len(g[n - 2]) = h - 4 /\ Len(g[n - 1]) = h /\ h \in {8, 9}
  BY <1>2, <1>3, DirectHeadSize
<1>5. PICK v, k : v = m["data_len"] /\ k = n - 1
  OBVIOUS
<1>6. k \in 1..n /\ k - 1 = n - 2 /\ n \in 1..n /\ n \in 0..n
  BY <1>3, <1>5
<1>7. Fits(v, 4)
  <2>1. FieldFits(body[k], m)
    BY <1>3, <1>5, <1>6 DEF BodyFits
  <2> QED BY <1>3, <1>5, <2>1 DEF FieldFits
<1>8. Width(body[k], m) = 4 /\ Put(body[k], m) = Net(v, 4)
  BY <1>3, <1>5 DEF Width, Variable, Put
<1>9. Range1(p, h - 4 + 1, 4) = Net(v, 4)
  <2>1. Range1(g[n], Len(g[k - 1]) + 1, Width(body[k], m)) = Put(body[k], m)
    BY <1>2, <1>3, <1>6, PackField
  <2> QED BY <1>2, <1>4, <1>6, <1>8, <2>1
<1>10. v \in Nat /\ Host(Net(v, 4)) = v
  BY <1>7, HostOfNet
<1>11. p \in Str /\ Len(p) = h + v
  <2>1. PutAt(g, body, n, m, n)
    BY <1>2, <1>3, <1>6, PackStep
  <2>2. Width(body[n], m) = v
    BY <1>3, <1>5 DEF Width, Variable
  <2> QED BY <1>2, <1>4, <2>1, <2>2 DEF PutAt
<1>12. IsFrame(h, p)
  <2>1. h - 4 + 1 = h - 3
    BY <1>4
  <2>2. FrameSize(h, p) = h + v
    BY <1>9, <1>10, <2>1 DEF FrameSize
  <2> QED BY <1>4, <1>10, <1>11, <2>2 DEF IsFrame, HoldsFrame
<1>13. UnPackBody(c, p).m = m
  BY <1>1, <1>2, UnPackPacked
<1> QED BY <1>2, <1>11, <1>12, <1>13

(* On every stream: what is packed of a message is one frame, and the reader *)
(* has the message back from it.                                             *)
HeadOf(kind) == IF kind \in {"up", "down"} THEN 16 ELSE IF kind = "request" THEN 9 ELSE 8

GoodFrame(p, x) ==
  /\ p \in Str /\ IsFrame(HeadOf(stream.kind), p) /\ UnPackFrame(stream.to, p) = x
  /\ OnBus => PyHeadAccepted(p)

LEMMA FrameOfMessage ==
  ASSUME stream \in Streams, NEW x \in Messages(stream)
  PROVE  GoodFrame(PackData(stream.from, x), x)
<1>1. /\ stream.kind \in {"up", "down", "request", "answer"}
      /\ stream.from \in {"cpp", "py"} /\ stream.to \in {"cpp", "py"}
  BY StreamAssumption
<1>2. CASE OnBus
  <2>1. PICK c \in Classes[stream.from] : /\ c.body_type = x.body_type /\ BodyFits(c.body, x.m)
                                          /\ Fits(BodySize(c, x.m), 4) /\ Fits(x.msg_id, 4)
                                          /\ x = [body_type |-> x.body_type, msg_id |-> x.msg_id, m |-> x.m]
                                          /\ stream.kind = "up" => c.msg_type = 0
    BY <1>2, MessageAssumption DEF OnBus
  <2>2. BusFits(stream.from, c, x)
    <3>1. stream.from = "py" => c.msg_type = 0
      BY <1>2, <2>1, StreamAssumption DEF OnBus
    <3> QED BY <2>1, <3>1 DEF BusFits
  <2>3. PICK h, p : BusFrame(p, h, c, x) /\ p = PackData(stream.from, x)
    BY <1>1, <1>2, <2>2, BusPacked
  <2>4. p \in Str /\ IsFrame(HeadSize, p) /\ PyHeadAccepted(p)
    BY <1>1, <2>2, <2>3, BusFrameIs
  <2>5. UnPackFrame(stream.to, p) = x
    BY <1>1, <1>2, <2>2, <2>3, BusUnPacked
  <2>6. HeadOf(stream.kind) = HeadSize
    BY <1>2 DEF HeadOf, HeadSize, OnBus
  <2> QED BY <2>3, <2>4, <2>5, <2>6 DEF GoodFrame
<1>3. CASE ~OnBus
  <2>1. stream.kind \in {"request", "answer"}
    BY <1>1, <1>3 DEF OnBus
  <2>2. x = [m |-> x.m] /\ BodyFits(DirectFields(stream.from, stream.kind), x.m)
    BY <1>3, MessageAssumption DEF OnBus
  <2>3. PICK c, p : c = [body |-> DirectFields(stream.from, stream.kind)] /\ p = PackBody(c, x.m)
    OBVIOUS
  <2>4. c.body = DirectFields(stream.from, stream.kind)
    BY <2>3
  <2>5. \E n : DirectBody(c.body, n, HeadOf(stream.kind))
    <3>1. CASE stream.kind = "request"
      BY <1>1, <2>4, <3>1, DirectFieldsAre DEF HeadOf
    <3>2. CASE stream.kind = "answer"
      BY <1>1, <2>4, <3>2, DirectFieldsAre DEF HeadOf
    <3> QED BY <2>1, <3>1, <3>2
  <2>6. p \in Str /\ IsFrame(HeadOf(stream.kind), p) /\ UnPackBody(c, p).m = x.m
    BY <2>2, <2>3, <2>4, <2>5, DirectFrame
  <2>7. PackData(stream.from, x) = p
    BY <1>3, <2>3 DEF PackData
  <2>8. DirectFields(stream.to, stream.kind) = DirectFields(stream.from, stream.kind)
    BY <1>1, <2>1 DEF DirectFields, ReceiverReq, PyReceiverSendMsgReq, ReceiverRsp,
       PyReceiverSendMsgRsp
  <2>9. UnPackFrame(stream.to, p) = [m |-> x.m]
    BY <1>3, <2>3, <2>6, <2>8 DEF UnPackFrame
  <2> QED BY <1>3, <2>2, <2>6, <2>7, <2>9 DEF GoodFrame
<1> QED BY <1>2, <1>3

-----------------------------------------------------------------------------
(* Messages and their frames.                                                *)
LEMMA SeqParts ==
  ASSUME NEW S, NEW a \in Seq(S), NEW b \in Seq(S)
  PROVE  /\ SubSeq(a \o b, 1, Len(a)) = a
         /\ SubSeq(a \o b, Len(a) + 1, Len(a \o b)) = b
<1>1. PICK m, n, c : m = Len(a) /\ n = Len(b) /\ c = a \o b
  OBVIOUS
<1>2. m \in Nat /\ n \in Nat /\ (\A i \in 1..m : a[i] \in S) /\ \A i \in 1..n : b[i] \in S
  BY <1>1, LenProperties, ElementOfSeq
<1>3. /\ c \in Seq(S) /\ Len(c) = m + n
      /\ \A i \in 1..(m + n) : c[i] = IF i <= m THEN a[i] ELSE b[i - m]
  BY <1>1, ConcatProperties
<1>4. \A i \in 1..(m + n) : c[i] \in S
  BY <1>2, <1>3, ElementOfSeq
<1>5. SubSeq(c, 1, m) = a
  <2>1. PICK d : d = SubSeq(c, 1, m)
    OBVIOUS
  <2>2. 1 \in Int /\ m \in Int /\ (\A i \in 1..m : c[i] \in S) /\ m - 1 + 1 = m
    BY <1>2, <1>4
  <2>3. /\ d \in Seq(S) /\ Len(d) = (IF 1 <= m THEN m - 1 + 1 ELSE 0)
        /\ \A i \in 1..(m - 1 + 1) : d[i] = c[1 + i - 1]
    BY <2>1, <2>2, SubSeqProperties
  <2>4. Len(d) = m
    BY <1>2, <2>3
  <2>5. \A i \in 1..m : d[i] = a[i]
    <3> SUFFICES ASSUME NEW i \in 1..m PROVE d[i] = a[i]
      OBVIOUS
    <3>1. 1 + i - 1 = i /\ i \in 1..(m + n) /\ i <= m
      BY <1>2
    <3> QED BY <1>3, <2>2, <2>3, <3>1
  <2> QED BY <1>1, <2>1, <2>3, <2>4, <2>5, SeqEqual
<1>6. SubSeq(c, m + 1, m + n) = b
  <2>1. PICK d, l, u : d = SubSeq(c, l, u) /\ l = m + 1 /\ u = m + n
    OBVIOUS
  <2>2. l \in Int /\ u \in Int /\ (\A i \in l..u : c[i] \in S) /\ u - l + 1 = n
    BY <1>2, <1>4, <2>1
  <2>3. /\ d \in Seq(S) /\ Len(d) = (IF l <= u THEN u - l + 1 ELSE 0)
        /\ \A i \in 1..(u - l + 1) : d[i] = c[l + i - 1]
    BY <2>1, <2>2, SubSeqProperties
  <2>4. Len(d) = n
    BY <1>2, <2>1, <2>3
  <2>5. ASSUME NEW i \in 1..n PROVE d[i] = b[i]
    <3>1. PICK j : j = l + i - 1
      OBVIOUS
    <3>2. j \in 1..(m + n) /\ ~(j <= m) /\ j - m = i
      BY <1>2, <2>1, <3>1
    <3>3. d[i] = c[j]
      BY <2>2, <2>3, <3>1
    <3> QED BY <1>3, <3>2, <3>3
  <2> QED BY <1>1, <2>1, <2>3, <2>4, <2>5, SeqEqual
<1> QED BY <1>1, <1>3, <1>5, <1>6

(* The frames of messages ws, F[x] being that of x.                          *)
FrameSeq(F, ws) == [i \in DOMAIN ws |-> F[ws[i]]]

Images(F, M) == \A x \in M : F[x] \in Str
Coding(F, M, h) ==
  h \in {8, 9, 16} /\ \A x \in M : F[x] \in Str /\ IsFrame(h, F[x]) /\ Len(F[x]) \in Nat \ {0}

LEMMA CodingImages ==
  ASSUME NEW F, NEW M, NEW h, Coding(F, M, h)
  PROVE  Images(F, M)
BY DEF Coding, Images

LEMMA FrameSeqIs ==
  ASSUME NEW F, NEW M, Images(F, M), NEW ws \in Seq(M)
  PROVE  /\ FrameSeq(F, ws) \in Seq(Str) /\ Len(FrameSeq(F, ws)) = Len(ws) /\ Len(ws) \in Nat
         /\ \A i \in 1..Len(ws) : ws[i] \in M /\ FrameSeq(F, ws)[i] = F[ws[i]]
<1>1. PICK n, fs : n = Len(ws) /\ fs = FrameSeq(F, ws)
  OBVIOUS
<1>2. n \in Nat /\ DOMAIN ws = 1..n /\ \A i \in 1..n : ws[i] \in M
  BY <1>1, LenProperties, ElementOfSeq
<1>3. fs = [i \in 1..n |-> F[ws[i]]]
  BY <1>1, <1>2 DEF FrameSeq
<1>4. fs \in [1..n -> Str]
  BY <1>2, <1>3 DEF Images
<1>5. fs \in Seq(Str) /\ Len(fs) = n
  BY <1>2, <1>3, <1>4
<1>6. \A i \in 1..n : ws[i] \in M /\ fs[i] = F[ws[i]]
  BY <1>2, <1>3
<1> QED BY <1>1, <1>2, <1>5, <1>6

LEMMA FrameSeqList ==
  ASSUME NEW F, NEW M, NEW h, Coding(F, M, h), NEW ws \in Seq(M)
  PROVE  FrameList(h, FrameSeq(F, ws))
<1>1. /\ FrameSeq(F, ws) \in Seq(Str) /\ Len(FrameSeq(F, ws)) = Len(ws)
      /\ \A i \in 1..Len(ws) : ws[i] \in M /\ FrameSeq(F, ws)[i] = F[ws[i]]
  BY CodingImages, FrameSeqIs
<1>2. \A i \in 1..Len(ws) : IsFrame(h, FrameSeq(F, ws)[i])
  BY <1>1 DEF Coding
<1> QED BY <1>1, <1>2 DEF FrameList

LEMMA FrameSeqConcat ==
  ASSUME NEW F, NEW M, Images(F, M), NEW a \in Seq(M), NEW e \in Seq(M)
  PROVE  FrameSeq(F, a \o e) = FrameSeq(F, a) \o FrameSeq(F, e)
<1>1. PICK m, n, c, s, t, u : /\ m = Len(a) /\ n = Len(e) /\ c = a \o e
                              /\ s = FrameSeq(F, a) /\ t = FrameSeq(F, e) /\ u = FrameSeq(F, c)
  OBVIOUS
<1>2. /\ c \in Seq(M) /\ Len(c) = m + n /\ m \in Nat /\ n \in Nat
      /\ \A i \in 1..(m + n) : c[i] = IF i <= m THEN a[i] ELSE e[i - m]
  BY <1>1, ConcatProperties, LenProperties
<1>3. s \in Seq(Str) /\ Len(s) = m /\ \A i \in 1..m : s[i] = F[a[i]]
  BY <1>1, FrameSeqIs
<1>4. t \in Seq(Str) /\ Len(t) = n /\ \A i \in 1..n : t[i] = F[e[i]]
  BY <1>1, FrameSeqIs
<1>5. u \in Seq(Str) /\ Len(u) = m + n /\ \A i \in 1..(m + n) : u[i] = F[c[i]]
  <2>1. c \in Seq(M)
    BY <1>2
  <2>2. /\ FrameSeq(F, c) \in Seq(Str) /\ Len(FrameSeq(F, c)) = Len(c)
        /\ \A i \in 1..Len(c) : FrameSeq(F, c)[i] = F[c[i]]
    BY <2>1, FrameSeqIs
  <2> QED BY <1>1, <1>2, <2>2
<1>6. /\ s \o t \in Seq(Str) /\ Len(s \o t) = m + n
      /\ \A i \in 1..(m + n) : (s \o t)[i] = IF i <= m THEN s[i] ELSE t[i - m]
  <2>1. /\ s \o t \in Seq(Str) /\ Len(s \o t) = Len(s) + Len(t)
        /\ \A i \in 1..(Len(s) + Len(t)) : (s \o t)[i] = IF i <= Len(s) THEN s[i] ELSE t[i - Len(s)]
    BY <1>3, <1>4, ConcatProperties
  <2> QED BY <1>3, <1>4, <2>1
<1>7. ASSUME NEW i \in 1..(m + n) PROVE u[i] = (s \o t)[i]
  <2>1. CASE i <= m
    <3>1. i \in 1..m
      BY <1>2, <2>1
    <3>2. u[i] = F[c[i]] /\ c[i] = a[i] /\ (s \o t)[i] = s[i]
      BY <1>2, <1>5, <1>6, <2>1
    <3> QED BY <1>3, <3>1, <3>2
  <2>2. CASE ~(i <= m)
    <3>1. i - m \in 1..n
      BY <1>2, <2>2
    <3> QED BY <1>2, <1>4, <1>5, <1>6, <2>2, <3>1
  <2> QED BY <2>1, <2>2
<1> QED BY <1>1, <1>5, <1>6, <1>7, SeqEqual

LEMMA FrameSeqOne ==
  ASSUME NEW F, NEW M, Images(F, M), NEW x \in M
  PROVE  <<x>> \in Seq(M) /\ FrameSeq(F, <<x>>) = <<F[x]>>
<1>1. <<x>> \in Seq(M) /\ Len(<<x>>) = 1 /\ <<x>>[1] = x /\ DOMAIN <<x>> = 1..1
  OBVIOUS
<1>2. F[x] \in Str
  BY DEF Images
<1>3. <<F[x]>> \in Seq(Str) /\ Len(<<F[x]>>) = 1 /\ <<F[x]>>[1] = F[x]
  BY <1>2
<1>4. /\ FrameSeq(F, <<x>>) \in Seq(Str) /\ Len(FrameSeq(F, <<x>>)) = 1
      /\ \A i \in 1..1 : FrameSeq(F, <<x>>)[i] = F[<<x>>[i]]
  BY <1>1, FrameSeqIs
<1>5. \A i \in 1..1 : FrameSeq(F, <<x>>)[i] = <<F[x]>>[i]
  <2>1. \A i \in 1..1 : i = 1
    OBVIOUS
  <2> QED BY <1>1, <1>3, <1>4, <2>1
<1> QED BY <1>1, <1>3, <1>4, <1>5, SeqEqual

(* The frames that were cut off are those of the first messages.             *)
SplitAt(F, M, ws, us, vs, a, e) ==
  a \in Seq(M) /\ e \in Seq(M) /\ ws = a \o e /\ FrameSeq(F, a) = us /\ FrameSeq(F, e) = vs

LEMMA FrameSeqSplit ==
  ASSUME NEW F, NEW M, Images(F, M), NEW ws \in Seq(M),
         NEW us \in Seq(Str), NEW vs \in Seq(Str), FrameSeq(F, ws) = us \o vs
  PROVE  \E a, e : SplitAt(F, M, ws, us, vs, a, e)
<1>1. PICK m, n, fs : m = Len(us) /\ n = Len(vs) /\ fs = FrameSeq(F, ws)
  OBVIOUS
<1>2. /\ m \in Nat /\ n \in Nat /\ Len(fs) = m + n
      /\ \A i \in 1..(m + n) : fs[i] = IF i <= m THEN us[i] ELSE vs[i - m]
  BY <1>1, ConcatProperties, LenProperties
<1>3. Len(ws) = m + n /\ \A i \in 1..(m + n) : ws[i] \in M /\ fs[i] = F[ws[i]]
  <2>1. Len(fs) = Len(ws) /\ \A i \in 1..Len(ws) : ws[i] \in M /\ fs[i] = F[ws[i]]
    BY <1>1, FrameSeqIs
  <2> QED BY <1>2, <2>1
<1>4. PICK a, e : a = [i \in 1..m |-> ws[i]] /\ e = [i \in 1..n |-> ws[m + i]]
  OBVIOUS
<1>5. a \in Seq(M) /\ Len(a) = m
  <2>1. \A i \in 1..m : ws[i] \in M
    BY <1>2, <1>3
  <2> QED BY <1>2, <1>4, <2>1
<1>6. e \in Seq(M) /\ Len(e) = n
  <2>1. \A i \in 1..n : ws[m + i] \in M
    <3>1. \A i \in 1..n : m + i \in 1..(m + n)
      BY <1>2
    <3> QED BY <1>3, <3>1
  <2> QED BY <1>2, <1>4, <2>1
<1>7. /\ a \o e \in Seq(M) /\ Len(a \o e) = m + n
      /\ \A i \in 1..(m + n) : (a \o e)[i] = IF i <= m THEN a[i] ELSE e[i - m]
  BY <1>5, <1>6, ConcatProperties
<1>8. ws = a \o e
  <2>1. ASSUME NEW i \in 1..(m + n) PROVE ws[i] = (a \o e)[i]
    <3>1. CASE i <= m
      <4>1. i \in 1..m
        BY <1>2, <3>1
      <4> QED BY <1>4, <1>7, <3>1, <4>1
    <3>2. CASE ~(i <= m)
      <4>1. i - m \in 1..n /\ m + (i - m) = i
        BY <1>2, <3>2
      <4> QED BY <1>4, <1>7, <3>2, <4>1
    <3> QED BY <3>1, <3>2
  <2> QED BY <1>3, <1>7, <2>1, SeqEqual
<1>9. FrameSeq(F, a) = us
  <2>1. FrameSeq(F, a) \in Seq(Str) /\ Len(FrameSeq(F, a)) = m /\ \A i \in 1..m : FrameSeq(F, a)[i] = F[a[i]]
    BY <1>5, FrameSeqIs
  <2>2. ASSUME NEW i \in 1..m PROVE FrameSeq(F, a)[i] = us[i]
    <3>1. i \in 1..(m + n) /\ i <= m
      BY <1>2
    <3> QED BY <1>2, <1>3, <1>4, <2>1, <3>1
  <2> QED BY <1>1, <2>1, <2>2, SeqEqual
<1>10. FrameSeq(F, e) = vs
  <2>1. FrameSeq(F, e) \in Seq(Str) /\ Len(FrameSeq(F, e)) = n /\ \A i \in 1..n : FrameSeq(F, e)[i] = F[e[i]]
    BY <1>6, FrameSeqIs
  <2>2. ASSUME NEW i \in 1..n PROVE FrameSeq(F, e)[i] = vs[i]
    <3>1. PICK j : j = m + i
      OBVIOUS
    <3>2. j \in 1..(m + n) /\ ~(j <= m) /\ j - m = i
      BY <1>2, <3>1
    <3>3. fs[j] = vs[i] /\ fs[j] = F[ws[j]] /\ e[i] = ws[j]
      BY <1>2, <1>3, <1>4, <3>1, <3>2
    <3> QED BY <2>1, <3>3
  <2> QED BY <1>1, <2>1, <2>2, SeqEqual
<1> QED BY <1>5, <1>6, <1>8, <1>9, <1>10 DEF SplitAt

-----------------------------------------------------------------------------
(* Of the messages st that were sent, gt were handled and ws are on their    *)
(* way: their frames are the bytes b that the reader has and those behind    *)
(* them, z; and the reader has not the whole of the first of these frames.   *)
Waits(F, M, st, gt, ws, b, z) ==
  /\ gt \in Seq(M) /\ ws \in Seq(M) /\ st = gt \o ws /\ b \in Str /\ z \in Str
  /\ FlattenSeq(FrameSeq(F, ws)) = b \o z
  /\ ws # << >> => Len(b) < Len(F[ws[1]])

LEMMA WaitsFirst ==
  ASSUME NEW F, NEW M, NEW h, Coding(F, M, h), NEW ws \in Seq(M), ws # << >>
  PROVE  ws[1] \in M /\ \E q \in Str : FlattenSeq(FrameSeq(F, ws)) = F[ws[1]] \o q
<1>1. PICK x, t : x = ws[1] /\ t = Tail(ws)
  OBVIOUS
<1>2. x \in M /\ t \in Seq(M) /\ ws = <<x>> \o t
  BY <1>1, SeqHead
<1>3. <<x>> \in Seq(M) /\ FrameSeq(F, <<x>>) = <<F[x]>> /\ F[x] \in Str
  BY <1>2, CodingImages, FrameSeqOne DEF Coding
<1>4. PICK ts : ts = FrameSeq(F, t) /\ ts \in Seq(Str)
  BY <1>2, CodingImages, FrameSeqIs
<1>5. FrameSeq(F, ws) = <<F[x]>> \o ts
  <2>1. FrameSeq(F, <<x>> \o t) = FrameSeq(F, <<x>>) \o FrameSeq(F, t)
    BY <1>2, <1>3, CodingImages, FrameSeqConcat
  <2> QED BY <1>2, <1>3, <1>4, <2>1
<1>6. <<F[x]>> \in Seq(Str)
  BY <1>3
<1>7. FlattenSeq(<<F[x]>> \o ts) = FlattenSeq(<<F[x]>>) \o FlattenSeq(ts)
  BY <1>4, <1>6, FlattenConcat
<1>8. FlattenSeq(<<F[x]>>) = F[x] /\ FlattenSeq(ts) \in Str
  BY <1>3, <1>4, FlattenOne, FlattenType
<1> QED BY <1>1, <1>2, <1>5, <1>7, <1>8

LEMMA FlattenNone ==
  ASSUME NEW F
  PROVE  FlattenSeq(FrameSeq(F, << >>)) = << >>
<1>1. FrameSeq(F, << >>) = << >>
  BY DEF FrameSeq
<1> QED BY <1>1, FlattenEmpty

LEMMA StrNone ==
  ASSUME NEW b \in Str, NEW z \in Str, b \o z = << >>
  PROVE  b = << >> /\ z = << >>
<1>1. Len(b) \in Nat /\ Len(z) \in Nat /\ Len(b \o z) = Len(b) + Len(z) /\ Len(b \o z) = 0
  BY StrLen, StrConcat, StrEmpty
<1>2. Len(b) = 0 /\ Len(z) = 0
  BY <1>1
<1> QED BY <1>2, StrShorter

(* Another message is sent.                                                  *)
LEMMA WaitsSend ==
  ASSUME NEW F, NEW M, NEW h, Coding(F, M, h), NEW st, NEW gt, NEW ws, NEW b, NEW z,
         Waits(F, M, st, gt, ws, b, z), NEW x \in M
  PROVE  Waits(F, M, Append(st, x), gt, ws \o <<x>>, b, z \o F[x])
<1>1. /\ gt \in Seq(M) /\ ws \in Seq(M) /\ st = gt \o ws /\ b \in Str /\ z \in Str
      /\ FlattenSeq(FrameSeq(F, ws)) = b \o z
      /\ ws # << >> => Len(b) < Len(F[ws[1]])
  BY DEF Waits
<1>2. <<x>> \in Seq(M) /\ FrameSeq(F, <<x>>) = <<F[x]>>
  BY CodingImages, FrameSeqOne
<1>3. F[x] \in Str /\ Len(F[x]) \in Nat \ {0}
  BY DEF Coding
<1>4. ws \o <<x>> \in Seq(M) /\ Append(st, x) = gt \o (ws \o <<x>>)
  <2>1. st \in Seq(M) /\ ws \o <<x>> \in Seq(M)
    BY <1>1, <1>2, ConcatProperties
  <2>2. Append(st, x) = st \o <<x>>
    BY <2>1
  <2>3. (gt \o ws) \o <<x>> = gt \o (ws \o <<x>>)
    BY <1>1, <1>2, ConcatAssociative
  <2> QED BY <1>1, <2>1, <2>2, <2>3
<1>5. FlattenSeq(FrameSeq(F, ws \o <<x>>)) = b \o (z \o F[x])
  <2>1. FrameSeq(F, ws \o <<x>>) = FrameSeq(F, ws) \o <<F[x]>>
    <3>1. FrameSeq(F, ws \o <<x>>) = FrameSeq(F, ws) \o FrameSeq(F, <<x>>)
      BY <1>1, <1>2, CodingImages, FrameSeqConcat
    <3> QED BY <1>2, <3>1
  <2>2. FrameSeq(F, ws) \in Seq(Str) /\ <<F[x]>> \in Seq(Str)
    BY <1>1, <1>3, CodingImages, FrameSeqIs
  <2>3. FlattenSeq(FrameSeq(F, ws) \o <<F[x]>>) = FlattenSeq(FrameSeq(F, ws)) \o FlattenSeq(<<F[x]>>)
    BY <2>2, FlattenConcat
  <2>4. FlattenSeq(<<F[x]>>) = F[x]
    BY <1>3, FlattenOne
  <2>5. (b \o z) \o F[x] = b \o (z \o F[x])
    BY <1>1, <1>3, StrAssoc
  <2> QED BY <1>1, <2>1, <2>3, <2>4, <2>5
<1>6. Len(b) < Len(F[(ws \o <<x>>)[1]])
  <2>1. /\ Len(ws \o <<x>>) = Len(ws) + Len(<<x>>) /\ Len(ws) \in Nat /\ Len(<<x>>) = 1 /\ <<x>>[1] = x
        /\ \A i \in 1..(Len(ws) + Len(<<x>>)) :
             (ws \o <<x>>)[i] = IF i <= Len(ws) THEN ws[i] ELSE <<x>>[i - Len(ws)]
    BY <1>1, <1>2, ConcatProperties, LenProperties
  <2>2. CASE ws = << >>
    <3>1. FlattenSeq(FrameSeq(F, ws)) = << >>
      BY <2>2, FlattenNone
    <3>2. b = << >>
      BY <1>1, <3>1, StrNone
    <3>3. Len(b) = 0
      BY <3>2, StrEmpty
    <3>4. (ws \o <<x>>)[1] = x
      BY <1>2, <2>2, ConcatEmptySeq
    <3> QED BY <1>3, <3>3, <3>4
  <2>3. CASE ws # << >>
    <3>1. Len(ws) \in Nat \ {0}
      BY <1>1, <2>3, SeqHead
    <3>2. (ws \o <<x>>)[1] = ws[1]
      <4>1. 1 \in 1..(Len(ws) + Len(<<x>>)) /\ 1 <= Len(ws)
        BY <2>1, <3>1
      <4> QED BY <2>1, <4>1
    <3> QED BY <1>1, <2>3, <3>2
  <2> QED BY <2>2, <2>3
<1>7. z \o F[x] \in Str
  BY <1>1, <1>3, StrConcat
<1> QED BY <1>1, <1>4, <1>5, <1>6, <1>7 DEF Waits

(* The reader has got more bytes, and handles the messages a.                *)
Taken(F, M, h, st, gt, c, y, a, r, e) ==
  /\ a \in Seq(M) /\ Frames(h, c) = FrameSeq(F, a) /\ FrameSeq(F, a) \in Seq(Str)
  /\ c = FlattenSeq(FrameSeq(F, a)) \o r /\ Waits(F, M, st, gt \o a, e, r, y)

LEMMA WaitsRead ==
  ASSUME NEW F, NEW M, NEW h, Coding(F, M, h), NEW st, NEW gt, NEW ws, NEW b, NEW z,
         Waits(F, M, st, gt, ws, b, z), NEW c \in Str, NEW y \in Str, c \o y = b \o z
  PROVE  \E a, r, e : Taken(F, M, h, st, gt, c, y, a, r, e)
<1>1. /\ gt \in Seq(M) /\ ws \in Seq(M) /\ st = gt \o ws
      /\ FlattenSeq(FrameSeq(F, ws)) = b \o z
  BY DEF Waits
<1>2. PICK ps : ps = FrameSeq(F, ws) /\ FrameList(h, ps)
  BY <1>1, CodingImages, FrameSeqList
<1>3. h \in Nat /\ h >= 4
  BY DEF Coding
<1>4. PICK us, vs, r : Holds(h, ps, c, y, us, vs, r)
  BY <1>1, <1>2, <1>3, FramesAre
<1>5. /\ us \in Seq(Str) /\ vs \in Seq(Str) /\ r \in Str /\ ps = us \o vs /\ Frames(h, c) = us
      /\ c = FlattenSeq(us) \o r /\ r \o y = FlattenSeq(vs)
      /\ vs # << >> => Len(r) < Len(vs[1])
  BY <1>4 DEF Holds
<1>6. PICK a, e : SplitAt(F, M, ws, us, vs, a, e)
  BY <1>1, <1>2, <1>5, CodingImages, FrameSeqSplit
<1>7. a \in Seq(M) /\ e \in Seq(M) /\ ws = a \o e /\ FrameSeq(F, a) = us /\ FrameSeq(F, e) = vs
  BY <1>6 DEF SplitAt
<1>8. gt \o a \in Seq(M) /\ st = (gt \o a) \o e
  <2>1. (gt \o a) \o e = gt \o (a \o e)
    BY <1>1, <1>7, ConcatAssociative
  <2> QED BY <1>1, <1>7, <2>1, ConcatProperties
<1>9. ASSUME e # << >> PROVE Len(r) < Len(F[e[1]])
  <2>1. Len(e) \in Nat \ {0}
    BY <1>7, <1>9, SeqHead
  <2>2. Len(vs) = Len(e) /\ \A i \in 1..Len(e) : vs[i] = F[e[i]]
    <3>1. Images(F, M)
      BY CodingImages
    <3>2. e \in Seq(M)
      BY <1>7
    <3>3. Len(FrameSeq(F, e)) = Len(e) /\ \A i \in 1..Len(e) : FrameSeq(F, e)[i] = F[e[i]]
      BY <3>1, <3>2, FrameSeqIs
    <3> QED BY <1>7, <3>3
  <2>3. 1 \in 1..Len(e)
    BY <2>1
  <2>4. vs # << >>
    BY <2>1, <2>2, StrEmpty
  <2> QED BY <1>5, <2>2, <2>3, <2>4
<1>10. Waits(F, M, st, gt \o a, e, r, y)
  BY <1>5, <1>7, <1>8, <1>9 DEF Waits
<1> QED BY <1>5, <1>7, <1>10 DEF Taken

(* When nothing is behind what the reader has, it has nothing to wait for.   *)
LEMMA WaitsNot ==
  ASSUME NEW F, NEW M, NEW h, Coding(F, M, h), NEW st, NEW gt, NEW ws, NEW b,
         Waits(F, M, st, gt, ws, b, << >>)
  PROVE  st = gt
<1>1. /\ gt \in Seq(M) /\ ws \in Seq(M) /\ st = gt \o ws /\ b \in Str
      /\ FlattenSeq(FrameSeq(F, ws)) = b \o << >>
      /\ ws # << >> => Len(b) < Len(F[ws[1]])
  BY DEF Waits
<1>2. ASSUME ws # << >> PROVE FALSE
  <2>1. PICK q \in Str : FlattenSeq(FrameSeq(F, ws)) = F[ws[1]] \o q /\ ws[1] \in M
    BY <1>1, <1>2, WaitsFirst
  <2>2. F[ws[1]] \in Str
    BY <2>1 DEF Coding
  <2>3. b = F[ws[1]] \o q
    BY <1>1, <2>1, StrEmpty
  <2>4. Len(b) = Len(F[ws[1]]) + Len(q) /\ Len(q) \in Nat /\ Len(F[ws[1]]) \in Nat
    BY <2>2, <2>3, StrConcat, StrLen
  <2>5. Len(b) < Len(F[ws[1]])
    BY <1>1, <1>2
  <2> QED BY <2>4, <2>5
<1> QED BY <1>1, <1>2, ConcatEmptySeq

(* The Python reader never drops what it has.                                *)
LEMMA WaitsAccepted ==
  ASSUME NEW F, NEW M, Coding(F, M, HeadSize), \A x \in M : PyHeadAccepted(F[x]),
         NEW st, NEW gt, NEW ws, NEW b, NEW z, Waits(F, M, st, gt, ws, b, z),
         NEW c \in Str, NEW y \in Str, c \o y = b \o z, Len(c) >= HeadSize
  PROVE  PyHeadAccepted(c)
<1>1. ws \in Seq(M) /\ FlattenSeq(FrameSeq(F, ws)) = c \o y
  BY DEF Waits
<1>2. ws # << >>
  <2> SUFFICES ASSUME ws = << >> PROVE FALSE
    OBVIOUS
  <2>1. c \o y = << >>
    BY <1>1, FlattenNone
  <2>2. c = << >>
    BY <2>1, StrNone
  <2>3. Len(c) = 0
    BY <2>2, StrEmpty
  <2> QED BY <2>3 DEF HeadSize
<1>3. PICK q \in Str : FlattenSeq(FrameSeq(F, ws)) = F[ws[1]] \o q /\ ws[1] \in M
  BY <1>1, <1>2, WaitsFirst
<1>4. PICK p : p = F[ws[1]] /\ p \in Str /\ IsFrame(HeadSize, p) /\ PyHeadAccepted(p)
  BY <1>3 DEF Coding
<1>5. Len(p) >= HeadSize
  BY <1>4 DEF IsFrame, HoldsFrame
<1> QED BY <1>1, <1>3, <1>4, <1>5, HeadAccepted

-----------------------------------------------------------------------------
(* The buffer of a Python end, and the parts of what a reader has.           *)
LEMMA PyBufferIs ==
  ASSUME NEW s \in Str
  PROVE  /\ PyBuffer(s) \in Buffer(Byte) /\ WellFormed(PyBuffer(s)) /\ data(PyBuffer(s)) = s
<1>1. PICK b, n : b = PyBuffer(s) /\ n = Len(s)
  OBVIOUS
<1>2. b = [d |-> s, r |-> 0, w |-> n, half |-> 0] /\ n \in Nat /\ s \in Seq(Byte)
  BY <1>1, StrLen DEF PyBuffer, Str
<1>3. b \in Buffer(Byte) /\ WellFormed(b)
  BY <1>1, <1>2 DEF Buffer, WellFormed
<1>4. data(b) = s
  <2>1. data(b) = SubSeq(s, 1, n)
    BY <1>2 DEF data
  <2>2. << >> \in Str /\ s \o << >> = s
    BY StrEmpty
  <2>3. SubSeq(s \o << >>, 1, Len(s)) = s
    BY <2>2, StrParts
  <2> QED BY <1>1, <2>1, <2>2, <2>3
<1> QED BY <1>1, <1>3, <1>4

Room(b) == b \in Buffer(Byte) /\ WellFormed(b)

LEMMA RoomData ==
  ASSUME NEW b, Room(b)
  PROVE  data(b) \in Str /\ Len(data(b)) = size(b) /\ size(b) \in Nat
<1>1. data(b) \in Seq(Byte) /\ Encloses(b, data(b))
  BY EnclosesData DEF Room
<1>2. Len(data(b)) = b.w - b.r /\ Len(data(b)) \in Nat
  BY <1>1, LenProperties DEF Encloses
<1> QED BY <1>1, <1>2 DEF Str, size

LEMMA RoomAppend ==
  ASSUME NEW b, Room(b), NEW s \in Str, NEW n \in Nat, Len(s) <= n
  PROVE  /\ Room(push_back(b, s)) /\ data(push_back(b, s)) = data(b) \o s
         /\ Room(Fill(ensurewritable(b, n), s)) /\ data(Fill(ensurewritable(b, n), s)) = data(b) \o s
<1>1. 0 \in Byte /\ b \in Buffer(Byte) /\ WellFormed(b) /\ s \in Seq(Byte)
  BY DEF Room, Byte, Str
<1> QED BY <1>1, BufferAppends DEF Room

LEMMA RoomPop ==
  ASSUME NEW b, Room(b), NEW a \in Str, NEW r \in Str, data(b) = a \o r
  PROVE  Room(pop_front(b, Len(a))) /\ data(pop_front(b, Len(a))) = r
<1>1. PICK n, c, x : n = Len(a) /\ c = pop_front(b, n) /\ x = SubSeq(data(b), 1, n)
  OBVIOUS
<1>2. n \in Nat /\ n <= size(b) /\ n <= Len(data(b))
  <2>1. Len(data(b)) = Len(a) + Len(r) /\ Len(a) \in Nat /\ Len(r) \in Nat
    BY StrConcat, StrLen
  <2> QED BY <1>1, <2>1, RoomData
<1>3. Room(c) /\ data(b) = x \o data(c)
  BY <1>1, <1>2, BufferPops DEF Room
<1>4. x = a
  BY <1>1, StrParts
<1>5. data(c) \in Str
  BY <1>3, RoomData
<1>6. SubSeq(a \o r, n + 1, Len(a \o r)) = r /\ SubSeq(a \o data(c), n + 1, Len(a \o data(c))) = data(c)
  BY <1>1, <1>5, StrParts
<1> QED BY <1>1, <1>3, <1>4, <1>6

-----------------------------------------------------------------------------
(* The frame of each message of the stream, and the messages on their way.   *)
Frame == [x \in Messages(stream) |-> PackData(stream.from, x)]
Waiting == SubSeq(sent, Len(got) + 1, Len(sent))

StreamInv ==
  /\ StreamTypeOK
  /\ Waits(Frame, Messages(stream), sent, got, Waiting, data(in), pipe \o data(out))

LEMMA FrameCoding ==
  ASSUME stream \in Streams
  PROVE  /\ Coding(Frame, Messages(stream), HeadOf(stream.kind))
         /\ \A x \in Messages(stream) : /\ Frame[x] = PackData(stream.from, x)
                                        /\ UnPackFrame(stream.to, Frame[x]) = x
                                        /\ OnBus => PyHeadAccepted(Frame[x])
<1>1. PICK F, M, h : F = Frame /\ M = Messages(stream) /\ h = HeadOf(stream.kind)
  OBVIOUS
<1>2. h \in {8, 9, 16}
  BY <1>1 DEF HeadOf
<1>3. ASSUME NEW x \in M
      PROVE  /\ F[x] = PackData(stream.from, x) /\ F[x] \in Str /\ IsFrame(h, F[x])
             /\ Len(F[x]) \in Nat \ {0} /\ UnPackFrame(stream.to, F[x]) = x
             /\ OnBus => PyHeadAccepted(F[x])
  <2>1. F[x] = PackData(stream.from, x)
    BY <1>1 DEF Frame
  <2>2. GoodFrame(F[x], x)
    BY <1>1, <2>1, FrameOfMessage
  <2>3. /\ F[x] \in Str /\ IsFrame(h, F[x]) /\ UnPackFrame(stream.to, F[x]) = x
        /\ OnBus => PyHeadAccepted(F[x])
    BY <1>1, <2>2 DEF GoodFrame
  <2>4. Len(F[x]) \in Nat /\ Len(F[x]) >= h
    BY <2>3, StrLen DEF IsFrame, HoldsFrame
  <2> QED BY <1>2, <2>1, <2>3, <2>4
<1>4. Coding(F, M, h)
  BY <1>2, <1>3 DEF Coding
<1> QED BY <1>1, <1>3, <1>4

LEMMA OnReadIs ==
  ASSUME stream \in Streams, NEW b
  PROVE  OnRead(b) = Frames(HeadOf(stream.kind), b)
<1>1. stream.kind \in {"up", "down", "request", "answer"} /\ stream.to \in {"cpp", "py"}
  BY StreamAssumption
<1>2. 1 + 4 + 4 = 9 /\ 4 + 4 = 8 /\ HeadSize = 16
  BY DEF HeadSize
<1>3. CASE stream.kind = "up"
  BY <1>2, <1>3 DEF OnRead, HeadOf, server_onRead
<1>4. CASE stream.kind = "down"
  BY <1>1, <1>2, <1>4 DEF OnRead, HeadOf, ServerRspProcess, PyServerReceivePack
<1>5. CASE stream.kind = "request"
  BY <1>1, <1>2, <1>5 DEF OnRead, HeadOf, receiver_onRead, PyReceiverReceivePack
<1>6. CASE stream.kind = "answer"
  BY <1>1, <1>2, <1>6 DEF OnRead, HeadOf, Req2Receiver_onRead, PyReq2ReceiverReceivePack
<1> QED BY <1>1, <1>3, <1>4, <1>5, <1>6

LEMMA SameFrame ==
  ASSUME stream' = stream
  PROVE  Frame' = Frame /\ Messages(stream)' = Messages(stream)
BY DEF Frame, PackData, OnBus

LEMMA WaitsParts ==
  ASSUME NEW F, NEW M, NEW st, NEW gt, NEW ws, NEW b, NEW z, Waits(F, M, st, gt, ws, b, z)
  PROVE  /\ SubSeq(st, Len(gt) + 1, Len(st)) = ws /\ SubSeq(st, 1, Len(gt)) = gt
         /\ gt \in Seq(M) /\ Len(gt) \in Nat /\ Len(st) \in Nat /\ Len(gt) <= Len(st)
<1>1. gt \in Seq(M) /\ ws \in Seq(M) /\ st = gt \o ws
  BY DEF Waits
<1>2. SubSeq(st, Len(gt) + 1, Len(st)) = ws /\ SubSeq(st, 1, Len(gt)) = gt
  BY <1>1, SeqParts
<1>3. Len(st) = Len(gt) + Len(ws) /\ Len(gt) \in Nat /\ Len(ws) \in Nat
  BY <1>1, ConcatProperties, LenProperties
<1> QED BY <1>1, <1>2, <1>3

(* What a step has to show.                                                  *)
LEMMA StreamKept ==
  ASSUME stream' = stream, stream \in Streams,
         NEW ws, Waits(Frame, Messages(stream), sent', got', ws, data(in)', (pipe \o data(out))'),
         sent' \in Seq(Messages(stream)), Len(sent') <= MaxFrames[stream.kind],
         pipe' \in Str, Room(in'), Room(out'), block' \in Nat \ {0}
  PROVE  StreamInv'
<1>1. Waiting' = ws
  <2>1. SubSeq(sent', Len(got') + 1, Len(sent')) = ws
    BY WaitsParts
  <2> QED BY <2>1 DEF Waiting
<1>2. Waits(Frame', Messages(stream)', sent', got', Waiting', data(in)', (pipe \o data(out))')
  BY <1>1, SameFrame
<1>3. StreamTypeOK'
  BY DEF StreamTypeOK, Room, Buffer, Str
<1> QED BY <1>2, <1>3 DEF StreamInv

LEMMA StreamInitInv == StreamInit => StreamInv
<1> SUFFICES ASSUME StreamInit PROVE StreamInv
  OBVIOUS
<1>1. stream \in Streams /\ sent = << >> /\ pipe = << >> /\ got = << >>
  BY DEF StreamInit
<1>2. Room(EmptyBuffer) /\ data(EmptyBuffer) = << >>
  <2>1. 0 \in Byte
    BY DEF Byte
  <2> QED BY <2>1, EmptyBufferIs DEF Room
<1>3. Room(PyBuffer(<< >>)) /\ data(PyBuffer(<< >>)) = << >>
  BY StrEmpty, PyBufferIs DEF Room
<1>4. Room(in) /\ Room(out) /\ data(in) = << >> /\ data(out) = << >>
  BY <1>2, <1>3 DEF StreamInit
<1>5. block \in Nat \ {0} /\ MaxFrames[stream.kind] \in Nat
  BY <1>1, StreamAssumption DEF StreamInit
<1>6. << >> \in Str /\ << >> \o << >> = << >> /\ Len(<< >>) = 0
  BY StrEmpty
<1>7. << >> \in Seq(Messages(stream)) /\ SubSeq(<< >>, 1, 0) = << >>
  BY SubSeqEmpty
<1>8. StreamTypeOK
  BY <1>1, <1>4, <1>5, <1>6, <1>7 DEF StreamTypeOK, Room, Buffer, Str
<1>9. Waiting = << >>
  BY <1>1, <1>6, <1>7 DEF Waiting
<1>10. FlattenSeq(FrameSeq(Frame, << >>)) = << >>
  BY FlattenNone
<1>11. Waits(Frame, Messages(stream), << >>, << >>, << >>, << >>, << >> \o << >>)
  BY <1>6, <1>7, <1>10 DEF Waits
<1> QED BY <1>1, <1>4, <1>8, <1>9, <1>11 DEF StreamInv

(* What the steps start from.                                                *)
Before(F, M, h) ==
  /\ F = Frame /\ M = Messages(stream) /\ h = HeadOf(stream.kind) /\ Coding(F, M, h)
  /\ stream \in Streams /\ sent \in Seq(M) /\ Len(sent) <= MaxFrames[stream.kind]
  /\ pipe \in Str /\ Room(in) /\ Room(out) /\ block \in Nat \ {0}
  /\ Waits(F, M, sent, got, Waiting, data(in), pipe \o data(out))

LEMMA StreamInvBefore ==
  ASSUME StreamInv
  PROVE  \E F, M, h : Before(F, M, h)
<1>1. /\ stream \in Streams /\ sent \in Seq(Messages(stream)) /\ Len(sent) <= MaxFrames[stream.kind]
      /\ pipe \in Str /\ Room(in) /\ Room(out) /\ block \in Nat \ {0}
  BY DEF StreamInv, StreamTypeOK, Room, Buffer, Str
<1>2. Coding(Frame, Messages(stream), HeadOf(stream.kind))
  BY <1>1, FrameCoding
<1>3. Before(Frame, Messages(stream), HeadOf(stream.kind))
  BY <1>1, <1>2 DEF StreamInv, Before
<1> QED BY <1>3

LEMMA SendKeeps ==
  ASSUME NEW F, NEW M, NEW h, Before(F, M, h), NEW x \in Messages(stream), Send(x)
  PROVE  StreamInv'
<1>1. /\ F = Frame /\ M = Messages(stream) /\ Coding(F, M, h) /\ stream \in Streams
      /\ sent \in Seq(M) /\ pipe \in Str /\ Room(in) /\ Room(out) /\ block \in Nat \ {0}
      /\ Waits(F, M, sent, got, Waiting, data(in), pipe \o data(out))
  BY DEF Before
<1>2. /\ Len(sent) < MaxFrames[stream.kind] /\ sent' = Append(sent, x)
      /\ stream' = stream /\ pipe' = pipe /\ in' = in /\ block' = block /\ got' = got
      /\ out' = IF stream.from = "cpp" THEN push_back(out, PackData(stream.from, x))
                ELSE PyBuffer(data(out) \o PackData(stream.from, x))
  BY DEF Send
<1>3. PICK p : p = F[x] /\ p \in Str /\ p = PackData(stream.from, x)
  BY <1>1, FrameCoding DEF Coding
<1>4. data(out) \in Str /\ Len(p) \in Nat /\ data(out) \o p \in Str
  BY <1>1, <1>3, RoomData, StrLen, StrConcat
<1>5. Room(out') /\ data(out') = data(out) \o p
  <2>1. CASE stream.from = "cpp"
    <3>1. out' = push_back(out, p)
      BY <1>2, <1>3, <2>1
    <3>2. Len(p) <= Len(p)
      BY <1>4
    <3>3. Room(push_back(out, p)) /\ data(push_back(out, p)) = data(out) \o p
      BY <1>1, <1>3, <1>4, <3>2, RoomAppend
    <3>4. data(out') = data(push_back(out, p))
      BY <3>1
    <3> QED BY <3>1, <3>3, <3>4
  <2>2. CASE stream.from # "cpp"
    <3>1. out' = PyBuffer(data(out) \o p)
      BY <1>2, <1>3, <2>2
    <3> QED BY <1>4, <3>1, PyBufferIs DEF Room
  <2> QED BY <2>1, <2>2
<1>6. Waits(F, M, sent', got, Waiting \o <<x>>, data(in), (pipe \o data(out)) \o p)
  BY <1>1, <1>2, <1>3, WaitsSend
<1>7. (pipe \o data(out)) \o p = pipe' \o data(out')
  <2>1. (pipe \o data(out)) \o p = pipe \o (data(out) \o p)
    BY <1>1, <1>3, <1>4, StrAssoc
  <2> QED BY <1>2, <1>5, <2>1
<1>8. Waits(F, M, sent', got', Waiting \o <<x>>, data(in)', (pipe \o data(out))')
  <2>1. data(in)' = data(in) /\ (pipe \o data(out))' = pipe' \o data(out')
    BY <1>2 DEF data
  <2> QED BY <1>2, <1>6, <1>7, <2>1
<1>9. sent' \in Seq(M) /\ Len(sent') <= MaxFrames[stream.kind]
  <2>1. sent' \in Seq(M) /\ Len(sent') = Len(sent) + 1 /\ Len(sent) \in Nat
    BY <1>1, <1>2
  <2>2. MaxFrames[stream.kind] \in Nat
    BY <1>1, StreamAssumption
  <2> QED BY <1>2, <2>1, <2>2
<1> QED BY <1>1, <1>2, <1>5, <1>8, <1>9, StreamKept

LEMMA WriteKeeps ==
  ASSUME NEW F, NEW M, NEW h, Before(F, M, h), NEW k \in Chunks \cup {size(out)}, k > 0, Write(k)
  PROVE  StreamInv'
<1>1. /\ F = Frame /\ M = Messages(stream) /\ Coding(F, M, h) /\ stream \in Streams
      /\ sent \in Seq(M) /\ Len(sent) <= MaxFrames[stream.kind]
      /\ pipe \in Str /\ Room(in) /\ Room(out) /\ block \in Nat \ {0}
      /\ Waits(F, M, sent, got, Waiting, data(in), pipe \o data(out))
  BY DEF Before
<1>2. /\ k <= size(out) /\ pipe' = pipe \o SubSeq(data(out), 1, k)
      /\ stream' = stream /\ sent' = sent /\ in' = in /\ block' = block /\ got' = got
      /\ out' = IF stream.from = "cpp" THEN pop_front(out, k)
                ELSE PyBuffer(SubSeq(data(out), k + 1, size(out)))
  BY DEF Write
<1>3. PICK d, a, r : d = data(out) /\ a = SubSeq(d, 1, k) /\ r = SubSeq(d, k + 1, Len(d))
  OBVIOUS
<1>4. d \in Str /\ Len(d) = size(out) /\ k \in Nat
  BY <1>1, <1>3, RoomData, StreamAssumption
<1>5. a \in Str /\ r \in Str /\ d = a \o r /\ Len(a) = k
  BY <1>2, <1>3, <1>4, StrCut
<1>6. Room(out') /\ data(out') = r
  <2>1. CASE stream.from = "cpp"
    <3>1. out' = pop_front(out, Len(a))
      BY <1>2, <1>5, <2>1
    <3>2. data(out) = a \o r
      BY <1>3, <1>5
    <3>3. Room(pop_front(out, Len(a))) /\ data(pop_front(out, Len(a))) = r
      BY <1>1, <1>5, <3>2, RoomPop
    <3>4. data(out') = data(pop_front(out, Len(a)))
      BY <3>1
    <3> QED BY <3>1, <3>3, <3>4
  <2>2. CASE stream.from # "cpp"
    <3>1. out' = PyBuffer(r)
      BY <1>2, <1>3, <1>4, <2>2
    <3> QED BY <1>5, <3>1, PyBufferIs DEF Room
  <2> QED BY <2>1, <2>2
<1>7. pipe' \in Str /\ pipe' \o r = pipe \o d
  <2>1. pipe' = pipe \o a
    BY <1>2, <1>3
  <2>2. (pipe \o a) \o r = pipe \o (a \o r)
    BY <1>1, <1>5, StrAssoc
  <2> QED BY <1>1, <1>5, <2>1, <2>2, StrConcat
<1>8. Waits(F, M, sent', got', Waiting, data(in)', (pipe \o data(out))')
  <2>1. data(in)' = data(in) /\ (pipe \o data(out))' = pipe' \o data(out')
    BY <1>2 DEF data
  <2> QED BY <1>1, <1>2, <1>3, <1>6, <1>7, <2>1
<1> QED BY <1>1, <1>2, <1>6, <1>7, <1>8, StreamKept

(* What both readers start from: s is read, y stays in the kernel.           *)
Reading(h, s, y, c) ==
  \E F, M, a, r, e :
    /\ F = Frame /\ M = Messages(stream) /\ s \in Str /\ y \in Str /\ c \in Str
    /\ pipe = s \o y /\ c = data(in) \o s /\ h = HeadOf(stream.kind)
    /\ Taken(F, M, h, sent, got, c, y \o data(out), a, r, e)
    /\ OnBus /\ Len(c) >= HeadSize => PyHeadAccepted(c)

LEMMA ReadingIs ==
  ASSUME NEW F, NEW M, NEW h, Before(F, M, h), NEW k \in Nat, k <= Len(pipe),
         NEW s, s = SubSeq(pipe, 1, k), NEW y, y = SubSeq(pipe, k + 1, Len(pipe)),
         NEW c, c = data(in) \o s
  PROVE  Reading(h, s, y, c)
<1>1. /\ F = Frame /\ M = Messages(stream) /\ h = HeadOf(stream.kind)
      /\ Coding(F, M, h) /\ stream \in Streams
      /\ pipe \in Str /\ Room(in) /\ Room(out)
      /\ Waits(F, M, sent, got, Waiting, data(in), pipe \o data(out))
  BY DEF Before
<1>2. s \in Str /\ y \in Str /\ pipe = s \o y
  BY <1>1, StrCut
<1>3. PICK i, o, z : i = data(in) /\ o = data(out) /\ z = y \o o
  OBVIOUS
<1>4. i \in Str /\ o \in Str
  BY <1>1, <1>3, RoomData
<1>5. z \in Str /\ c \in Str
  BY <1>2, <1>3, <1>4, StrConcat
<1>6. c \o z = i \o (pipe \o o)
  <2>1. (i \o s) \o z = i \o (s \o z)
    <3>1. i \in Str /\ s \in Str /\ z \in Str
      BY <1>2, <1>4, <1>5
    <3> QED BY <3>1, StrAssoc
  <2>2. (s \o y) \o o = s \o (y \o o)
    BY <1>2, <1>4, StrAssoc
  <2>3. pipe \o o = s \o z
    BY <1>2, <1>3, <2>2
  <2>4. c = i \o s
    BY <1>3
  <2> QED BY <2>1, <2>3, <2>4
<1>7. Waits(F, M, sent, got, Waiting, i, pipe \o o)
  BY <1>1, <1>3
<1>8. \E a, r, e : Taken(F, M, h, sent, got, c, z, a, r, e)
  BY <1>1, <1>5, <1>6, <1>7, WaitsRead
<1>9. ASSUME OnBus, Len(c) >= HeadSize PROVE PyHeadAccepted(c)
  <2>1. h = HeadSize
    BY <1>1, <1>9 DEF HeadOf, HeadSize, OnBus
  <2>2. \A x \in M : PyHeadAccepted(F[x])
    BY <1>1, <1>9, FrameCoding
  <2>3. Coding(F, M, HeadSize)
    BY <1>1, <2>1
  <2> QED BY <1>5, <1>6, <1>7, <1>9, <2>2, <2>3, WaitsAccepted
<1> QED BY <1>1, <1>2, <1>3, <1>5, <1>8, <1>9 DEF Reading

LEMMA HandledAre ==
  ASSUME NEW F, F = Frame, NEW M, M = Messages(stream), NEW h, Coding(F, M, h),
         stream \in Streams, NEW a \in Seq(M),
         NEW us, us = FrameSeq(F, a)
  PROVE  [i \in DOMAIN us |-> UnPackFrame(stream.to, us[i])] = a
<1>1. PICK n, u : n = Len(a) /\ u = [i \in DOMAIN us |-> UnPackFrame(stream.to, us[i])]
  OBVIOUS
<1>2. /\ n \in Nat /\ us \in Seq(Str) /\ Len(us) = n
      /\ \A i \in 1..n : a[i] \in M /\ us[i] = F[a[i]]
  BY <1>1, CodingImages, FrameSeqIs
<1>3. u = [i \in 1..n |-> UnPackFrame(stream.to, us[i])]
  BY <1>1, <1>2
<1>4. \A i \in 1..n : u[i] = a[i]
  BY <1>2, <1>3, FrameCoding
<1>5. u \in Seq(M) /\ Len(u) = n
  BY <1>2, <1>3, <1>4
<1> QED BY <1>1, <1>4, <1>5, SeqEqual

LEMMA ReadKeeps ==
  ASSUME NEW F, NEW M, NEW h, Before(F, M, h), stream' = stream, sent' = sent, out' = out,
         NEW c, NEW a, NEW r, NEW e, Taken(F, M, h, sent, got, c, pipe' \o data(out), a, r, e),
         Handle(OnRead(c)), pipe' \in Str, Room(in'), data(in') = r, block' \in Nat \ {0}
  PROVE  StreamInv'
<1>1. /\ F = Frame /\ M = Messages(stream) /\ h = HeadOf(stream.kind)
      /\ Coding(F, M, h) /\ stream \in Streams
      /\ sent \in Seq(M) /\ Len(sent) <= MaxFrames[stream.kind] /\ Room(out)
  BY DEF Before
<1>2. /\ a \in Seq(M) /\ Frames(h, c) = FrameSeq(F, a)
      /\ Waits(F, M, sent, got \o a, e, r, pipe' \o data(out))
  BY DEF Taken
<1>3. got' = got \o a
  <2>1. PICK us : us = OnRead(c)
    OBVIOUS
  <2>2. us = FrameSeq(F, a)
    BY <1>1, <1>2, <2>1, OnReadIs
  <2>3. [i \in DOMAIN us |-> UnPackFrame(stream.to, us[i])] = a
    BY <1>1, <1>2, <2>2, HandledAre
  <2> QED BY <2>1, <2>3 DEF Handle
<1>4. data(in)' = r /\ (pipe \o data(out))' = pipe' \o data(out)
  BY DEF data
<1>5. Waits(F, M, sent', got', e, data(in)', (pipe \o data(out))')
  BY <1>2, <1>3, <1>4
<1> QED BY <1>1, <1>5, StreamKept

LEMMA ReadSize ==
  ASSUME NEW F, NEW M, NEW h, Before(F, M, h), NEW k, k = Min({block, Len(pipe)})
  PROVE  k \in Nat /\ k <= Len(pipe) /\ k <= block
<1>1. block \in Nat /\ Len(pipe) \in Nat
  BY StrLen DEF Before
<1>2. k \in {block, Len(pipe)} /\ \A j \in {block, Len(pipe)} : k =< j
  BY <1>1, MinOfTwo
<1> QED BY <1>1, <1>2

LEMMA HandleReadKeeps ==
  ASSUME NEW F, NEW M, NEW h, Before(F, M, h), HandleRead
  PROVE  StreamInv'
<1>1. PICK k, s, y, b, c, us : /\ k = Min({block, Len(pipe)}) /\ s = SubSeq(pipe, 1, k)
                               /\ y = SubSeq(pipe, k + 1, Len(pipe))
                               /\ b = Fill(ensurewritable(in, block), s)
                               /\ c = data(in) \o s /\ us = OnRead(data(b))
  OBVIOUS
<1>2. /\ pipe' = y /\ block' = IF k = block THEN 2 * block ELSE block
      /\ Handle(us) /\ in' = pop_front(b, Len(FlattenSeq(us)))
      /\ stream' = stream /\ sent' = sent /\ out' = out
  BY <1>1 DEF HandleRead
<1>3. Room(in) /\ block \in Nat \ {0} /\ stream \in Streams /\ h = HeadOf(stream.kind) /\ pipe \in Str
      /\ F = Frame /\ M = Messages(stream)
  BY DEF Before
<1>4. k \in Nat /\ k <= Len(pipe) /\ k <= block
  BY <1>1, ReadSize
<1>5. Reading(h, s, y, c)
  BY <1>1, <1>4, ReadingIs
<1>6. PICK a, r, e : /\ s \in Str /\ y \in Str /\ c \in Str
                     /\ Taken(F, M, h, sent, got, c, y \o data(out), a, r, e)
  BY <1>3, <1>5 DEF Reading
<1>7. Room(b) /\ data(b) = c
  <2>1. Len(s) = k
    BY <1>1, <1>3, <1>4, StrCut
  <2>2. /\ Room(Fill(ensurewritable(in, block), s))
        /\ data(Fill(ensurewritable(in, block), s)) = data(in) \o s
    BY <1>3, <1>4, <1>6, <2>1, RoomAppend
  <2> QED BY <1>1, <2>2
<1>8. us = Frames(h, c) /\ us = OnRead(c)
  BY <1>1, <1>3, <1>7, OnReadIs
<1>9. us \in Seq(Str) /\ c = FlattenSeq(us) \o r /\ r \in Str
  BY <1>6, <1>8 DEF Taken, Waits
<1>10. Room(in') /\ data(in') = r
  <2>1. PICK f : f = FlattenSeq(us) /\ f \in Str
    BY <1>9, FlattenType
  <2>2. data(b) = f \o r
    BY <1>7, <1>9, <2>1
  <2>3. Room(pop_front(b, Len(f))) /\ data(pop_front(b, Len(f))) = r
    BY <1>7, <1>9, <2>1, <2>2, RoomPop
  <2>4. in' = pop_front(b, Len(f))
    BY <1>2, <2>1
  <2> QED BY <2>3, <2>4
<1>11. block' \in Nat \ {0}
  BY <1>2, <1>3
<1>12. Handle(OnRead(c)) /\ pipe' \in Str /\ Taken(F, M, h, sent, got, c, pipe' \o data(out), a, r, e)
  BY <1>2, <1>6, <1>8
<1> QED BY <1>2, <1>10, <1>11, <1>12, ReadKeeps

LEMMA ReceivePackKeeps ==
  ASSUME NEW F, NEW M, NEW h, Before(F, M, h), ReceivePack
  PROVE  StreamInv'
<1>1. PICK k, s, y, c, us, refused :
        /\ k = Min({block, Len(pipe)}) /\ s = SubSeq(pipe, 1, k) /\ y = SubSeq(pipe, k + 1, Len(pipe))
        /\ c = data(in) \o s
        /\ refused = (OnBus /\ Len(c) >= HeadSize /\ ~PyHeadAccepted(c))
        /\ us = IF refused THEN << >> ELSE OnRead(c)
  OBVIOUS
<1>2. /\ pipe' = y /\ Handle(us)
      /\ in' = PyBuffer(IF refused THEN << >> ELSE SubSeq(c, Len(FlattenSeq(us)) + 1, Len(c)))
      /\ stream' = stream /\ sent' = sent /\ out' = out /\ block' = block
  BY <1>1 DEF ReceivePack
<1>3. Room(in) /\ block \in Nat \ {0} /\ stream \in Streams /\ h = HeadOf(stream.kind) /\ pipe \in Str
      /\ F = Frame /\ M = Messages(stream)
  BY DEF Before
<1>4. k \in Nat /\ k <= Len(pipe) /\ k <= block
  BY <1>1, ReadSize
<1>5. Reading(h, s, y, c)
  BY <1>1, <1>4, ReadingIs
<1>6. PICK a, r, e : /\ s \in Str /\ y \in Str /\ c \in Str
                     /\ Taken(F, M, h, sent, got, c, y \o data(out), a, r, e)
                     /\ OnBus /\ Len(c) >= HeadSize => PyHeadAccepted(c)
  BY <1>3, <1>5 DEF Reading
<1>7. us = OnRead(c) /\ in' = PyBuffer(SubSeq(c, Len(FlattenSeq(us)) + 1, Len(c)))
  BY <1>1, <1>2, <1>6
<1>8. us = Frames(h, c)
  BY <1>3, <1>7, OnReadIs
<1>9. us \in Seq(Str) /\ c = FlattenSeq(us) \o r /\ r \in Str
  BY <1>6, <1>8 DEF Taken, Waits
<1>10. Room(in') /\ data(in') = r
  <2>1. PICK f : f = FlattenSeq(us) /\ f \in Str
    BY <1>9, FlattenType
  <2>2. SubSeq(f \o r, Len(f) + 1, Len(f \o r)) = r
    BY <1>9, <2>1, StrParts
  <2>3. in' = PyBuffer(r)
    BY <1>7, <1>9, <2>1, <2>2
  <2> QED BY <1>9, <2>3, PyBufferIs DEF Room
<1>11. block' \in Nat \ {0}
  BY <1>2, <1>3
<1>12. Handle(OnRead(c)) /\ pipe' \in Str /\ Taken(F, M, h, sent, got, c, pipe' \o data(out), a, r, e)
  BY <1>2, <1>6, <1>7
<1> QED BY <1>2, <1>10, <1>11, <1>12, ReadKeeps

LEMMA StreamStep == StreamInv /\ [StreamNext]_streamVars => StreamInv'
<1> SUFFICES ASSUME StreamInv, [StreamNext]_streamVars PROVE StreamInv'
  OBVIOUS
<1>1. PICK F, M, h : Before(F, M, h)
  BY StreamInvBefore
<1>2. CASE \E x \in Messages(stream) : Send(x)
  BY <1>1, <1>2, SendKeeps
<1>3. CASE \E k \in Chunks \cup {size(out)} : k > 0 /\ Write(k)
  BY <1>1, <1>3, WriteKeeps
<1>4. CASE HandleRead
  BY <1>1, <1>4, HandleReadKeeps
<1>5. CASE ReceivePack
  BY <1>1, <1>5, ReceivePackKeeps
<1>6. CASE UNCHANGED streamVars
  <2>1. /\ stream' = stream /\ sent' = sent /\ out' = out
        /\ pipe' = pipe /\ in' = in /\ block' = block /\ got' = got
    BY <1>6 DEF streamVars
  <2>2. /\ F = Frame /\ M = Messages(stream) /\ stream \in Streams
        /\ sent \in Seq(M) /\ Len(sent) <= MaxFrames[stream.kind]
        /\ pipe \in Str /\ Room(in) /\ Room(out) /\ block \in Nat \ {0}
        /\ Waits(F, M, sent, got, Waiting, data(in), pipe \o data(out))
    BY <1>1 DEF Before
  <2>3. data(in)' = data(in) /\ (pipe \o data(out))' = pipe \o data(out)
    BY <2>1 DEF data
  <2>4. Waits(F, M, sent', got', Waiting, data(in)', (pipe \o data(out))')
    BY <2>1, <2>2, <2>3
  <2> QED BY <2>1, <2>2, <2>4, StreamKept
<1> QED BY <1>2, <1>3, <1>4, <1>5, <1>6 DEF StreamNext

LEMMA StreamInvariant == StreamSpec => []StreamInv
<1>1. StreamInit => StreamInv
  BY StreamInitInv
<1>2. StreamInv /\ [StreamNext]_streamVars => StreamInv'
  BY StreamStep
<1> QED BY <1>1, <1>2, PTL DEF StreamSpec

(* Types of the variables, and both buffers keep their positions inside      *)
(* their vector, whatever their sizes and whatever the kernel takes at once. *)
THEOREM StreamTypes == StreamSpec => []StreamTypeOK
<1>1. StreamInv => StreamTypeOK
  BY DEF StreamInv
<1> QED BY <1>1, StreamInvariant, PTL

(* The handlers of the reader are given what the sender packed, field by     *)
(* field and in order: for both languages, every message that fits its       *)
(* fields, every size of buffer and wherever the kernel cuts the stream.  Of *)
(* an error text both are given the bytes, with the zero that ends it.       *)
THEOREM StreamDecodedAsSent == StreamSpec => []DecodedAsSent
<1>1. ASSUME StreamInv PROVE DecodedAsSent
  <2>1. PICK F, M, ws, b, z : Waits(F, M, sent, got, ws, b, z)
    BY <1>1 DEF StreamInv
  <2>2. SubSeq(sent, 1, Len(got)) = got /\ got \in Seq(M) /\ Len(got) <= Len(sent)
    BY <2>1, WaitsParts
  <2>3. << >> \in Seq(M) /\ got \o << >> = got
    BY <2>2, EmptySeq, ConcatEmptySeq
  <2>4. SubSeq(got, 1, Len(got)) = got
    <3>1. SubSeq(got \o << >>, 1, Len(got)) = got
      BY <2>2, <2>3, SeqParts
    <3> QED BY <2>3, <3>1
  <2> QED BY <2>2, <2>4 DEF DecodedAsSent, IsPrefix
<1> QED BY <1>1, StreamInvariant, PTL

(* The bytes at the two ends and under way are the frames that were sent and *)
(* not handled: no buffer that grows, moves or shrinks loses or repeats any. *)
THEOREM StreamNoByteLost == StreamSpec => []NoByteLost
<1>1. ASSUME StreamInv PROVE NoByteLost
  <2>1. PICK ws : ws = Waiting
    OBVIOUS
  <2>2. stream \in Streams /\ Room(in) /\ Room(out) /\ pipe \in Str
    BY <1>1 DEF StreamInv, StreamTypeOK, Room, Buffer, Str
  <2>3. /\ ws \in Seq(Messages(stream))
        /\ FlattenSeq(FrameSeq(Frame, ws)) = data(in) \o (pipe \o data(out))
    BY <1>1, <2>1 DEF StreamInv, Waits
  <2>4. FrameSeq(Frame, ws) = [i \in DOMAIN ws |-> PackData(stream.from, ws[i])]
    <3>1. \A i \in DOMAIN ws : ws[i] \in Messages(stream)
      BY <2>3
    <3> QED BY <3>1 DEF FrameSeq, Frame
  <2>5. (data(in) \o pipe) \o data(out) = data(in) \o (pipe \o data(out))
    <3>1. data(in) \in Str /\ data(out) \in Str
      BY <2>2, RoomData
    <3> QED BY <2>2, <3>1, StrAssoc
  <2> QED BY <2>1, <2>3, <2>4, <2>5 DEF NoByteLost, Waiting
<1> QED BY <1>1, StreamInvariant, PTL

(* When everything is read everything is handled: the loop of the reader     *)
(* never leaves a complete frame for an event that may not come.             *)
THEOREM StreamNothingLeft == StreamSpec => []NothingLeftUnhandled
<1>1. ASSUME StreamInv PROVE NothingLeftUnhandled
  <2> SUFFICES ASSUME size(out) = 0, pipe = << >> PROVE got = sent
    BY DEF NothingLeftUnhandled
  <2>1. stream \in Streams /\ Room(out)
    BY <1>1 DEF StreamInv, StreamTypeOK, Room, Buffer
  <2>2. data(out) = << >>
    <3>1. data(out) \in Str /\ Len(data(out)) = 0
      BY <2>1, RoomData
    <3> QED BY <3>1, StrShorter
  <2>3. pipe \o data(out) = << >>
    BY <2>2, StrEmpty
  <2>4. Waits(Frame, Messages(stream), sent, got, Waiting, data(in), << >>)
    BY <1>1, <2>3 DEF StreamInv
  <2>5. Coding(Frame, Messages(stream), HeadOf(stream.kind))
    BY <2>1, FrameCoding
  <2> QED BY <2>4, <2>5, WaitsNot
<1> QED BY <1>1, StreamInvariant, PTL

-----------------------------------------------------------------------------
(* The content of a request, written and read in C++.                        *)
LEMMA BeginsIs ==
  ASSUME NEW a \in Str, NEW b \in Str, Begins(a, b)
  PROVE  /\ Len(a) <= Len(b) /\ \A i \in 1..Len(a) : b[i] = a[i]
         /\ \A i \in Nat \ {0}, w \in Nat : i + w <= Len(a) + 1 => Range1(b, i, w) = Range1(a, i, w)
<1>1. PICK z \in Str : b = a \o z
  BY DEF Begins
<1>2. Len(a) \in Nat /\ Len(z) \in Nat
  BY StrLen
<1>3. Len(a \o z) = Len(a) + Len(z) /\ \A i \in 1..Len(a) : (a \o z)[i] = a[i]
  <2>1. /\ Len(a \o z) = Len(a) + Len(z)
        /\ \A i \in 1..(Len(a) + Len(z)) : (a \o z)[i] = IF i <= Len(a) THEN a[i] ELSE z[i - Len(a)]
    BY StrConcat
  <2>2. \A i \in 1..Len(a) : i \in 1..(Len(a) + Len(z)) /\ i <= Len(a)
    BY <1>2
  <2> QED BY <2>1, <2>2
<1>4. \A i \in Nat \ {0}, w \in Nat : i + w <= Len(a) + 1 => Range1(a \o z, i, w) = Range1(a, i, w)
  BY PartOf
<1> QED BY <1>1, <1>2, <1>3, <1>4

LEMMA BeginsMore ==
  ASSUME NEW a \in Str, NEW b \in Str, NEW x \in Str, Begins(a, b)
  PROVE  Begins(a, b \o x)
<1>1. PICK z \in Str : b = a \o z
  BY DEF Begins
<1>2. (a \o z) \o x = a \o (z \o x)
  BY StrAssoc
<1>3. z \o x \in Str
  BY StrConcat
<1> QED BY <1>1, <1>2, <1>3 DEF Begins

(* A number put into one byte is that byte.                                  *)
LEMMA OneByte ==
  ASSUME NEW v \in Nat, v < 256
  PROVE  /\ Net(v, 1) \in Str /\ Len(Net(v, 1)) = 1 /\ Net(v, 1)[1] = v
         /\ v % 256 = v
<1>1. Small(v)
  BY SMT DEF Small
<1>2. Fits(v, 1) /\ Net(v, 1)[1] = v
  BY <1>1, SmallFits
<1>3. v % 256 = v
  BY SMT
<1> QED BY <1>2, <1>3, HostOfNet

(* A part that follows another: it begins where that one ends.               *)
LEMMA PartBehind ==
  ASSUME NEW a \in Str, NEW x \in Str
  PROVE  /\ a \o x \in Str /\ Len(a \o x) = Len(a) + Len(x) /\ Len(a) \in Nat /\ Len(x) \in Nat
         /\ Range1(a \o x, Len(a) + 1, Len(x)) = x
         /\ Len(x) >= 1 => (a \o x)[Len(a) + 1] = x[1]
         /\ Begins(a, a \o x)
<1>1. /\ a \o x \in Str /\ Len(a \o x) = Len(a) + Len(x)
      /\ \A i \in 1..(Len(a) + Len(x)) : (a \o x)[i] = IF i <= Len(a) THEN a[i] ELSE x[i - Len(a)]
  BY StrConcat
<1>2. Len(a) \in Nat /\ Len(x) \in Nat
  BY StrLen
<1>3. ASSUME Len(x) >= 1 PROVE (a \o x)[Len(a) + 1] = x[1]
  <2>1. Len(a) + 1 \in 1..(Len(a) + Len(x)) /\ ~(Len(a) + 1 <= Len(a)) /\ Len(a) + 1 - Len(a) = 1
    BY <1>2, <1>3
  <2> QED BY <1>1, <2>1
<1>4. Range1(a \o x, Len(a) + 1, Len(x)) = x
  BY PartOf
<1>5. Begins(a, a \o x)
  BY DEF Begins
<1> QED BY <1>1, <1>2, <1>3, <1>4, <1>5

SixParts(b, a1, a2, a3, a4, a5, s, i, p) ==
  /\ a1 = Net(Len(s), 1) /\ a2 = a1 \o s /\ a3 = a2 \o Net(Len(i), 1) /\ a4 = a3 \o i
  /\ a5 = a4 \o Net(Len(p), 4) /\ b = a5 \o p

ContentHolds(b, s, i, p) ==
  /\ b \in Str /\ Len(s) \in Nat /\ Len(i) \in Nat /\ Len(p) \in Nat
  /\ Len(b) = 6 + Len(s) + Len(i) + Len(p)
  /\ b[1] = Len(s) /\ Range1(b, 2, Len(s)) = s
  /\ b[2 + Len(s)] = Len(i) /\ Range1(b, 3 + Len(s), Len(i)) = i
  /\ Host(Range1(b, 3 + Len(s) + Len(i), 4)) = Len(p)
  /\ Range1(b, 7 + Len(s) + Len(i), Len(p)) = p

LEMMA SixPartsHold ==
  ASSUME NEW s \in Str, NEW i \in Str, NEW p \in Str,
         Len(s) < 256, Len(i) < 256, Fits(Len(p), 4),
         NEW b, NEW a1, NEW a2, NEW a3, NEW a4, NEW a5, SixParts(b, a1, a2, a3, a4, a5, s, i, p)
  PROVE  ContentHolds(b, s, i, p)
<1>1. PICK S, I, P, ni, np : /\ S = Len(s) /\ I = Len(i) /\ P = Len(p)
                             /\ ni = Net(I, 1) /\ np = Net(P, 4)
  OBVIOUS
<1>2. S \in Nat /\ I \in Nat /\ P \in Nat /\ S < 256 /\ I < 256
  BY <1>1, StrLen
<1>3. a1 \in Str /\ Len(a1) = 1 /\ a1[1] = S
  BY <1>1, <1>2, OneByte DEF SixParts
<1>4. ni \in Str /\ Len(ni) = 1 /\ ni[1] = I
  BY <1>1, <1>2, OneByte
<1>5. np \in Str /\ Len(np) = 4 /\ Host(np) = P
  <2>1. Fits(P, 4)
    BY <1>1
  <2> QED BY <1>1, <2>1, HostOfNet
<1>6. a2 = a1 \o s /\ a3 = a2 \o ni /\ a4 = a3 \o i /\ a5 = a4 \o np /\ b = a5 \o p
  BY <1>1 DEF SixParts
<1>7. a2 \in Str /\ Len(a2) = 1 + S /\ Range1(a2, 2, S) = s /\ Begins(a1, a2)
  <2>1. /\ a1 \o s \in Str /\ Len(a1 \o s) = Len(a1) + Len(s)
        /\ Range1(a1 \o s, Len(a1) + 1, Len(s)) = s /\ Begins(a1, a1 \o s)
    BY <1>3, PartBehind
  <2>2. 1 + 1 = 2
    OBVIOUS
  <2> QED BY <1>1, <1>3, <1>6, <2>1, <2>2
<1>8. a3 \in Str /\ Len(a3) = 2 + S /\ a3[2 + S] = I /\ Begins(a2, a3)
  <2>1. /\ a2 \o ni \in Str /\ Len(a2 \o ni) = Len(a2) + Len(ni)
        /\ Len(ni) >= 1 => (a2 \o ni)[Len(a2) + 1] = ni[1]
        /\ Begins(a2, a2 \o ni)
    BY <1>4, <1>7, PartBehind
  <2>2. 1 + S + 1 = 2 + S
    BY <1>2
  <2> QED BY <1>4, <1>6, <1>7, <2>1, <2>2
<1>9. a4 \in Str /\ Len(a4) = 2 + S + I /\ Range1(a4, 3 + S, I) = i /\ Begins(a3, a4)
  <2>1. /\ a3 \o i \in Str /\ Len(a3 \o i) = Len(a3) + Len(i)
        /\ Range1(a3 \o i, Len(a3) + 1, Len(i)) = i /\ Begins(a3, a3 \o i)
    BY <1>8, PartBehind
  <2>2. 2 + S + 1 = 3 + S
    BY <1>2
  <2> QED BY <1>1, <1>6, <1>8, <2>1, <2>2
<1>10. a5 \in Str /\ Len(a5) = 6 + S + I /\ Range1(a5, 3 + S + I, 4) = np /\ Begins(a4, a5)
  <2>1. /\ a4 \o np \in Str /\ Len(a4 \o np) = Len(a4) + Len(np)
        /\ Range1(a4 \o np, Len(a4) + 1, Len(np)) = np /\ Begins(a4, a4 \o np)
    BY <1>5, <1>9, PartBehind
  <2>2. 2 + S + I + 1 = 3 + S + I /\ 2 + S + I + 4 = 6 + S + I
    BY <1>2
  <2> QED BY <1>5, <1>6, <1>9, <2>1, <2>2
<1>11. b \in Str /\ Len(b) = 6 + S + I + P /\ Range1(b, 7 + S + I, P) = p /\ Begins(a5, b)
  <2>1. /\ a5 \o p \in Str /\ Len(a5 \o p) = Len(a5) + Len(p)
        /\ Range1(a5 \o p, Len(a5) + 1, Len(p)) = p /\ Begins(a5, a5 \o p)
    BY <1>10, PartBehind
  <2>2. 6 + S + I + 1 = 7 + S + I
    BY <1>2
  <2> QED BY <1>1, <1>6, <1>10, <2>1, <2>2
<1>12. Begins(a1, b) /\ Begins(a2, b) /\ Begins(a3, b) /\ Begins(a4, b)
  <2>1. Begins(a4, b)
    BY <1>5, <1>6, <1>9, <1>10, BeginsMore
  <2>2. Begins(a3, a5) /\ Begins(a3, b)
    <3>1. Begins(a3, a5)
      BY <1>5, <1>6, <1>8, <1>9, BeginsMore
    <3> QED BY <1>6, <1>8, <1>10, <3>1, BeginsMore
  <2>3. Begins(a2, a4)
    BY <1>6, <1>7, <1>8, <1>9, BeginsMore
  <2>4. Begins(a2, a5)
    BY <1>5, <1>6, <1>7, <1>9, <2>3, BeginsMore
  <2>5. Begins(a2, b)
    BY <1>6, <1>7, <1>10, <2>4, BeginsMore
  <2>6. Begins(a1, a3)
    BY <1>3, <1>4, <1>6, <1>7, BeginsMore
  <2>7. Begins(a1, a4)
    BY <1>3, <1>6, <1>8, <2>6, BeginsMore
  <2>8. Begins(a1, a5)
    BY <1>3, <1>5, <1>6, <1>9, <2>7, BeginsMore
  <2>9. Begins(a1, b)
    BY <1>3, <1>6, <1>10, <2>8, BeginsMore
  <2> QED BY <2>1, <2>2, <2>5, <2>9
<1>13. b[1] = S
  <2>1. 1 \in 1..Len(a1)
    BY <1>3
  <2>2. b[1] = a1[1]
    BY <1>3, <1>11, <1>12, <2>1, BeginsIs
  <2> QED BY <1>3, <2>2
<1>14. Range1(b, 2, S) = s
  <2>1. 2 \in Nat \ {0} /\ 2 + S <= Len(a2) + 1
    BY <1>2, <1>7
  <2>2. Range1(b, 2, S) = Range1(a2, 2, S)
    BY <1>2, <1>7, <1>11, <1>12, <2>1, BeginsIs
  <2> QED BY <1>7, <2>2
<1>15. b[2 + S] = I
  <2>1. 2 + S \in 1..Len(a3)
    BY <1>2, <1>8
  <2>2. b[2 + S] = a3[2 + S]
    BY <1>8, <1>11, <1>12, <2>1, BeginsIs
  <2> QED BY <1>8, <2>2
<1>16. Range1(b, 3 + S, I) = i
  <2>1. PICK k : k = 3 + S
    OBVIOUS
  <2>2. k \in Nat \ {0} /\ k + I <= Len(a4) + 1
    BY <1>2, <1>9, <2>1
  <2>3. Range1(b, k, I) = Range1(a4, k, I)
    BY <1>2, <1>9, <1>11, <1>12, <2>2, BeginsIs
  <2> QED BY <1>9, <2>1, <2>3
<1>17. Range1(b, 3 + S + I, 4) = np
  <2>1. PICK k : k = 3 + S + I
    OBVIOUS
  <2>2. k \in Nat \ {0} /\ 4 \in Nat /\ k + 4 <= Len(a5) + 1
    BY <1>2, <1>10, <2>1
  <2>3. Range1(b, k, 4) = Range1(a5, k, 4)
    BY <1>10, <1>11, <2>2, BeginsIs
  <2> QED BY <1>10, <2>1, <2>3
<1> QED BY <1>1, <1>2, <1>5, <1>11, <1>13, <1>14, <1>15, <1>16, <1>17 DEF ContentHolds

LEMMA CppContent ==
  ASSUME NEW c \in Contents
  PROVE  LET b == GenerateNetMsgContent(c)
         IN  /\ GetMsgSender(b) = <<c.sender>> /\ GetMsgId(b) = <<c.msgid>>
             /\ GetMsgParam(b) = <<c.param>>
<1>1. PICK s, i, p, b : s = c.sender /\ i = c.msgid /\ p = c.param /\ b = GenerateNetMsgContent(c)
  OBVIOUS
<1>2. s \in Str /\ i \in Str /\ p \in Str /\ Len(s) < 256 /\ Len(i) < 256 /\ Fits(Len(p), 4)
  BY <1>1, ContentAssumption DEF Str
<1>3. Len(s) \in Nat /\ Len(i) \in Nat /\ Len(s) % 256 = Len(s) /\ Len(i) % 256 = Len(i)
  <2>1. Len(s) \in Nat /\ Len(i) \in Nat
    BY <1>2, StrLen
  <2> QED BY <1>2, <2>1, OneByte
<1>4. SubSeq(s, 1, Len(s)) = s /\ SubSeq(i, 1, Len(i)) = i
  BY <1>2, SubSeqFull DEF Str
<1>5. b = Net(Len(s), 1) \o s \o Net(Len(i), 1) \o i \o Net(Len(p), 4) \o p
  <2>1. b = Net(Len(s) % 256, 1) \o SubSeq(s, 1, Len(s) % 256)
              \o Net(Len(i) % 256, 1) \o SubSeq(i, 1, Len(i) % 256) \o Net(Len(p), 4) \o p
    BY <1>1, Zenon DEF GenerateNetMsgContent
  <2> QED BY <1>3, <1>4, <2>1, Zenon
<1>6. PICK a1, a2, a3, a4, a5 : SixParts(b, a1, a2, a3, a4, a5, s, i, p)
  BY <1>5 DEF SixParts
<1>7. ContentHolds(b, s, i, p)
  BY <1>2, <1>6, SixPartsHold
<1>8. PICK S, I, P, n : S = Len(s) /\ I = Len(i) /\ P = Len(p) /\ n = Len(b)
  OBVIOUS
<1>9. /\ S \in Nat /\ I \in Nat /\ P \in Nat /\ n = 6 + S + I + P
      /\ b[1] = S /\ Range1(b, 2, S) = s
      /\ b[2 + S] = I /\ Range1(b, 3 + S, I) = i
      /\ Host(Range1(b, 3 + S + I, 4)) = P
      /\ Range1(b, 7 + S + I, P) = p
  BY <1>7, <1>8 DEF ContentHolds
<1>10. GetMsgSender(b) = <<s>>
  <2>1. n >= 1 /\ n >= 1 + S
    BY <1>9
  <2> QED BY <1>8, <1>9, <2>1 DEF GetMsgSender
<1>11. GetMsgId(b) = <<i>>
  <2>1. n >= 1 /\ n >= 2 + S /\ n >= 2 + S + I
    BY <1>9
  <2> QED BY <1>8, <1>9, <2>1 DEF GetMsgId
<1>12. GetMsgParam(b) = <<p>>
  <2>1. PICK at : at = 2 + S + I
    OBVIOUS
  <2>2. at + 1 = 3 + S + I /\ at + 5 = 7 + S + I
    BY <1>9, <2>1
  <2>3. Host(Range1(b, at + 1, 4)) = P /\ Range1(b, at + 5, P) = p
    BY <1>9, <2>2
  <2>4. n >= 1 /\ n >= 2 + S /\ n >= at + 4 /\ n >= at + 4 + P
    BY <1>9, <2>1
  <2>5. at = 2 + b[1] + b[2 + b[1]] /\ Len(b) >= 2 + b[1]
    BY <1>8, <1>9, <2>1, <2>4
  <2> QED BY <1>8, <2>3, <2>4, <2>5 DEF GetMsgParam
<1> QED BY <1>1, <1>10, <1>11, <1>12

-----------------------------------------------------------------------------
(* Python's replace: nothing of nothing; an occurrence in front is replaced; *)
(* a byte in front that begins none stays.                                   *)
ReplaceFrom(f, v, old, new, k) ==
  f[k] = IF k > Len(v) THEN << >>
         ELSE IF IsPrefix(old, SubSeq(v, k, Len(v))) THEN new \o f[k + Len(old)]
         ELSE <<v[k]>> \o f[k + 1]

Replacing(f, v, old, new) == \A k \in 1..(Len(v) + 1) : ReplaceFrom(f, v, old, new, k)

LEMMA PrefixFits ==
  ASSUME NEW old \in Str, NEW s \in Str, IsPrefix(old, s)
  PROVE  Len(old) <= Len(s) /\ \A i \in 1..Len(old) : old[i] = s[i]
<1>1. PICK m : m = Len(old)
  OBVIOUS
<1>2. m \in Nat /\ m <= Len(s) /\ SubSeq(old, 1, m) = SubSeq(s, 1, m)
  BY <1>1, StrLen DEF IsPrefix
<1>3. SubSeq(old, 1, m) = old
  BY <1>1, SubSeqFull DEF Str
<1>4. 1 \in Nat \ {0} /\ 1 <= m + 1 /\ m - 1 + 1 = m
  BY <1>2
<1>5. \A k \in 1..(m - 1 + 1) : SubSeq(s, 1, m)[k] = s[1 + k - 1]
  BY <1>2, <1>4, StrSub
<1>6. \A k \in 1..m : 1 + k - 1 = k
  BY <1>2
<1> QED BY <1>1, <1>2, <1>3, <1>4, <1>5, <1>6

LEMMA PrefixOf ==
  ASSUME NEW old \in Str, NEW s \in Str
  PROVE  IsPrefix(old, old \o s)
<1>1. SubSeq(old \o s, 1, Len(old)) = old
  BY StrParts
<1>2. SubSeq(old, 1, Len(old)) = old
  BY SubSeqFull DEF Str
<1>3. Len(old \o s) = Len(old) + Len(s) /\ Len(old) \in Nat /\ Len(s) \in Nat
  BY StrConcat, StrLen
<1> QED BY <1>1, <1>2, <1>3 DEF IsPrefix

LEMMA ReplaceUpward ==
  ASSUME NEW v \in Str, NEW old \in Str, Len(old) >= 1, NEW new
  PROVE  \E f : Replacing(f, v, old, new) /\ Replace(v, old, new) = f[1]
<1> DEFINE D(f) == f = [k \in 1..(Len(v) + 1) |->
                          IF k > Len(v) THEN << >>
                          ELSE IF IsPrefix(old, SubSeq(v, k, Len(v))) THEN new \o f[k + Len(old)]
                          ELSE <<v[k]>> \o f[k + 1]]
           f == CHOOSE x : D(x)
<1>1. PICK n, m : n = Len(v) /\ m = Len(old)
  OBVIOUS
<1>2. n \in Nat /\ m \in Nat \ {0}
  BY <1>1, StrLen
<1>3. PICK O : O = {k \in 1..n : IsPrefix(old, SubSeq(v, k, n))}
  OBVIOUS
<1>4. PICK H, w, X : /\ H = 1..n
                     /\ w = [k \in 1..(n + 1) |-> IF k \in O THEN m ELSE 1]
                     /\ X = [k \in 1..(n + 1) |-> IF k \in O THEN new ELSE <<v[k]>>]
  OBVIOUS
<1>5. Onward(n, H, w)
  <2> SUFFICES ASSUME NEW k \in 1..(n + 1), k \in H
               PROVE  w[k] \in Nat \ {0} /\ k + w[k] <= n + 1
    BY DEF Onward
  <2>1. k \in 1..n /\ k \in Nat \ {0} /\ k <= n + 1
    BY <1>2, <1>4
  <2>2. CASE k \in O
    <3>1. IsPrefix(old, SubSeq(v, k, n)) /\ w[k] = m
      BY <1>3, <1>4, <2>2
    <3>2. SubSeq(v, k, n) \in Str /\ Len(SubSeq(v, k, n)) = n - k + 1
      BY <1>1, <1>2, <2>1, StrSub
    <3>3. m <= n - k + 1
      BY <1>1, <3>1, <3>2, PrefixFits
    <3> QED BY <1>2, <2>1, <3>1, <3>3
  <2>3. CASE k \notin O
    BY <1>2, <1>4, <2>1, <2>3
  <2> QED BY <2>2, <2>3
<1>6. PICK g : From(g, 1, n, H, w, X)
  BY <1>2, <1>5, DownwardExists
<1>7. g = [k \in 1..(n + 1) |-> IF k \in H THEN X[k] \o g[k + w[k]] ELSE << >>]
  BY <1>6 DEF From
<1>8. ASSUME NEW k \in 1..(n + 1)
      PROVE  (IF k \in H THEN X[k] \o g[k + w[k]] ELSE << >>)
              = IF k > n THEN << >>
                ELSE IF IsPrefix(old, SubSeq(v, k, n)) THEN new \o g[k + m]
                ELSE <<v[k]>> \o g[k + 1]
  <2>1. k \in H <=> ~(k > n)
    BY <1>2, <1>4
  <2>2. CASE k > n
    BY <2>1, <2>2
  <2>3. CASE ~(k > n) /\ IsPrefix(old, SubSeq(v, k, n))
    <3>1. k \in O
      BY <1>2, <1>3, <2>3
    <3>2. w[k] = m /\ X[k] = new
      BY <1>4, <3>1
    <3> QED BY <2>1, <2>3, <3>2
  <2>4. CASE ~(k > n) /\ ~IsPrefix(old, SubSeq(v, k, n))
    <3>1. k \notin O
      BY <1>3, <2>4
    <3>2. w[k] = 1 /\ X[k] = <<v[k]>>
      BY <1>4, <3>1
    <3> QED BY <2>1, <2>4, <3>2
  <2> QED BY <2>2, <2>3, <2>4
<1>9. g = [k \in 1..(n + 1) |->
             IF k > n THEN << >>
             ELSE IF IsPrefix(old, SubSeq(v, k, n)) THEN new \o g[k + m]
             ELSE <<v[k]>> \o g[k + 1]]
  BY <1>7, <1>8
<1>10. D(g)
  BY <1>1, <1>9
<1>11. D(f)
  <2> HIDE DEF D
  <2> QED BY <1>10
<1>12. Replace(v, old, new) = f[1]
  BY DEF Replace
<1> HIDE DEF f
<1>13. ASSUME NEW k \in 1..(Len(v) + 1) PROVE ReplaceFrom(f, v, old, new, k)
  BY <1>11 DEF ReplaceFrom
<1> QED BY <1>12, <1>13 DEF Replacing

LEMMA ReplaceShift ==
  ASSUME NEW p \in Str, NEW r \in Str, NEW old \in Str, Len(old) >= 1, NEW new,
         NEW f, Replacing(f, p \o r, old, new), NEW g, Replacing(g, r, old, new)
  PROVE  f[Len(p) + 1] = g[1]
<1>1. PICK m, n, b, o : m = Len(p) /\ n = Len(r) /\ b = p \o r /\ o = Len(old)
  OBVIOUS
<1>2. m \in Nat /\ n \in Nat /\ o \in Nat \ {0} /\ b \in Str /\ Len(b) = m + n
  BY <1>1, StrLen, StrConcat
<1>0. \A i \in 1..(m + n) : b[i] = IF i <= m THEN p[i] ELSE r[i - m]
  BY <1>1, StrConcat
<1> DEFINE T == {j \in Nat : \A k \in 1..(n + 1) : k > n + 1 - j => f[m + k] = g[k]}
<1>3. 0 \in T
  <2>1. \A k \in 1..(n + 1) : ~(k > n + 1 - 0)
    BY <1>2
  <2> QED BY <2>1
<1>4. ASSUME NEW j \in Nat, j \in T PROVE j + 1 \in T
  <2> SUFFICES ASSUME NEW k \in 1..(n + 1), k > n + 1 - (j + 1) PROVE f[m + k] = g[k]
    OBVIOUS
  <2>1. PICK q, i : q = SubSeq(r, k, n) /\ i = m + k
    OBVIOUS
  <2>2. k \in Nat \ {0} /\ n \in Nat /\ k <= n + 1 /\ n <= Len(r)
    BY <1>1, <1>2
  <2>3. SubSeq(b, i, m + n) = q
    BY <1>1, <2>1, <2>2, StrInside
  <2>4. i \in 1..(Len(b) + 1) /\ (i > m + n <=> k > n)
    BY <1>2, <2>1, <2>2
  <2>5. ReplaceFrom(f, b, old, new, i) /\ ReplaceFrom(g, r, old, new, k)
    <3>1. i \in 1..(Len(p \o r) + 1) /\ k \in 1..(Len(r) + 1)
      BY <1>1, <2>4
    <3> QED BY <1>1, <3>1 DEF Replacing
  <2>6. f[i] = IF k > n THEN << >>
               ELSE IF IsPrefix(old, q) THEN new \o f[i + o] ELSE <<b[i]>> \o f[i + 1]
    <3>1. f[i] = IF i > m + n THEN << >>
                 ELSE IF IsPrefix(old, q) THEN new \o f[i + o] ELSE <<b[i]>> \o f[i + 1]
      BY <1>1, <1>2, <2>3, <2>5 DEF ReplaceFrom
    <3> QED BY <2>4, <3>1
  <2>7. g[k] = IF k > n THEN << >>
               ELSE IF IsPrefix(old, q) THEN new \o g[k + o] ELSE <<r[k]>> \o g[k + 1]
    BY <1>1, <2>1, <2>5 DEF ReplaceFrom
  <2>8. ASSUME NEW l \in Nat, l > k, l <= n + 1 PROVE f[m + l] = g[l]
    <3>1. l \in 1..(n + 1) /\ l > n + 1 - j
      BY <1>2, <2>2, <2>8
    <3> QED BY <1>4, <3>1
  <2>9. CASE k > n
    BY <2>1, <2>6, <2>7, <2>9
  <2>10. CASE ~(k > n) /\ IsPrefix(old, q)
    <3>1. q \in Str /\ Len(q) = n - k + 1
      BY <2>1, <2>2, StrSub
    <3>2. o <= n - k + 1
      BY <1>1, <2>10, <3>1, PrefixFits
    <3>3. PICK l : l = k + o
      OBVIOUS
    <3>4. l \in Nat /\ l > k /\ l <= n + 1 /\ i + o = m + l
      BY <1>2, <2>1, <2>2, <3>2, <3>3
    <3>5. f[m + l] = g[l]
      BY <2>8, <3>4
    <3> QED BY <2>1, <2>6, <2>7, <2>10, <3>3, <3>4, <3>5
  <2>11. CASE ~(k > n) /\ ~IsPrefix(old, q)
    <3>1. PICK l : l = k + 1
      OBVIOUS
    <3>2. l \in Nat /\ l > k /\ l <= n + 1 /\ i + 1 = m + l
      BY <1>2, <2>1, <2>2, <2>11, <3>1
    <3>3. f[m + l] = g[l]
      BY <2>8, <3>2
    <3>4. b[i] = r[k]
      <4>1. i \in 1..(m + n) /\ ~(i <= m) /\ i - m = k
        BY <1>2, <2>1, <2>2, <2>11
      <4> QED BY <1>0, <4>1
    <3> QED BY <2>1, <2>6, <2>7, <2>11, <3>1, <3>2, <3>3, <3>4
  <2> QED BY <2>9, <2>10, <2>11
<1>5. n + 1 \in T
  <2>1. n + 1 \in Nat
    BY <1>2
  <2> HIDE DEF T
  <2> QED BY <1>3, <1>4, <2>1, Induction
<1>6. 1 \in 1..(n + 1) /\ 1 > n + 1 - (n + 1)
  BY <1>2
<1> QED BY <1>1, <1>5, <1>6

LEMMA ReplaceNone ==
  ASSUME NEW old \in Str, Len(old) >= 1, NEW new
  PROVE  Replace(<< >>, old, new) = << >>
<1>1. << >> \in Str /\ Len(<< >>) = 0
  BY StrEmpty
<1>2. PICK f : Replacing(f, << >>, old, new) /\ Replace(<< >>, old, new) = f[1]
  BY <1>1, ReplaceUpward
<1>3. ReplaceFrom(f, << >>, old, new, 1)
  BY <1>1, <1>2 DEF Replacing
<1>4. f[1] = << >>
  BY <1>1, <1>3 DEF ReplaceFrom
<1> QED BY <1>2, <1>4

(* What one step of the replacement does with the p before s: all of it is      *)
(* exchanged, or its one element is kept.                                       *)
AtFront(p, s, old, new) ==
  /\ IsPrefix(old, p \o s) /\ Len(p) = Len(old)
       => Replace(p \o s, old, new) = new \o Replace(s, old, new)
  /\ ~IsPrefix(old, p \o s) /\ Len(p) = 1
       => Replace(p \o s, old, new) = p \o Replace(s, old, new)

LEMMA ReplaceFront ==
  ASSUME NEW p \in Str, NEW s \in Str, NEW old \in Str, Len(old) >= 1, NEW new, Len(p) >= 1
  PROVE  AtFront(p, s, old, new)
<1>1. PICK b, m : b = p \o s /\ m = Len(p)
  OBVIOUS
<1>2. b \in Str /\ Len(b) = m + Len(s) /\ m \in Nat \ {0} /\ Len(s) \in Nat /\ b[1] = p[1]
  <2>1. /\ b \in Str /\ Len(b) = Len(p) + Len(s) /\ Len(p) \in Nat /\ Len(s) \in Nat
        /\ \A i \in 1..(Len(p) + Len(s)) : b[i] = IF i <= Len(p) THEN p[i] ELSE s[i - Len(p)]
    BY <1>1, StrConcat, StrLen
  <2>2. 1 \in 1..(Len(p) + Len(s)) /\ 1 <= Len(p)
    BY <2>1
  <2> QED BY <1>1, <2>1, <2>2
<1>3. PICK f : Replacing(f, b, old, new) /\ Replace(b, old, new) = f[1]
  BY <1>2, ReplaceUpward
<1>4. PICK g : Replacing(g, s, old, new) /\ Replace(s, old, new) = g[1]
  BY ReplaceUpward
<1>5. f[m + 1] = g[1]
  <2>1. Replacing(f, p \o s, old, new)
    BY <1>1, <1>3
  <2>2. f[Len(p) + 1] = g[1]
    BY <1>4, <2>1, ReplaceShift
  <2> QED BY <1>1, <2>2
<1>6. SubSeq(b, 1, Len(b)) = b
  BY <1>2, SubSeqFull DEF Str
<1>7. 1 \in 1..(Len(b) + 1) /\ ~(1 > Len(b)) /\ 1 + m = m + 1
  BY <1>2
<1>8. ReplaceFrom(f, b, old, new, 1)
  BY <1>3, <1>7 DEF Replacing
<1>9. f[1] = IF IsPrefix(old, b) THEN new \o f[1 + Len(old)] ELSE <<b[1]>> \o f[1 + 1]
  BY <1>6, <1>7, <1>8 DEF ReplaceFrom
<1>10. ASSUME IsPrefix(old, b), m = Len(old) PROVE Replace(b, old, new) = new \o Replace(s, old, new)
  BY <1>3, <1>4, <1>5, <1>7, <1>9, <1>10
<1>11. ASSUME ~IsPrefix(old, b), m = 1 PROVE Replace(b, old, new) = p \o Replace(s, old, new)
  <2>1. Len(p) = 1 /\ <<b[1]>> \in Str /\ Len(<<b[1]>>) = 1 /\ <<b[1]>>[1] = b[1]
    <3>1. b[1] \in Byte
      <4>1. 1 \in 1..Len(b)
        BY <1>2
      <4> QED BY <1>2, <4>1, StrLen
    <3>2. <<b[1]>> \in Seq(Byte) /\ Len(<<b[1]>>) = 1 /\ <<b[1]>>[1] = b[1]
      BY <3>1
    <3> QED BY <1>1, <1>11, <3>2 DEF Str
  <2>2. <<b[1]>> = p
    <3>1. \A i \in 1..1 : <<b[1]>>[i] = p[i]
      <4>1. \A i \in 1..1 : i = 1
        OBVIOUS
      <4> QED BY <1>2, <2>1, <4>1
    <3> QED BY <2>1, <3>1, StrEqual
  <2> QED BY <1>3, <1>4, <1>5, <1>9, <1>11, <2>2
<1> QED BY <1>1, <1>10, <1>11 DEF AtFront

-----------------------------------------------------------------------------
(* Values are written with '%' and '&' escaped, and read back.               *)
Escaped == [x \in Byte |-> IF x = 37 THEN <<37, 50, 53>>
                           ELSE IF x = AND THEN <<37, 50, 54>> ELSE <<x>>]
Unmixed == [x \in Byte |-> IF x = 37 THEN <<37, 50, 53>> ELSE <<x>>]

Joined(F, v) == FlattenSeq(FrameSeq(F, v))

Lacks(s, k) == \A i \in 1..Len(s) : s[i] # k

LEMMA OneStr ==
  ASSUME NEW x \in Byte
  PROVE  <<x>> \in Str /\ Len(<<x>>) = 1 /\ <<x>>[1] = x
<1>1. <<x>> \in Seq(Byte) /\ Len(<<x>>) = 1 /\ <<x>>[1] = x
  OBVIOUS
<1> QED BY <1>1 DEF Str

LEMMA ThreeStr ==
  ASSUME NEW x \in Byte, NEW y \in Byte, NEW z \in Byte, NEW s \in Str
  PROVE  /\ <<x, y, z>> \in Str /\ Len(<<x, y, z>>) = 3
         /\ <<x, y, z>>[1] = x /\ <<x, y, z>>[2] = y /\ <<x, y, z>>[3] = z
         /\ <<x, y, z>> \o s = <<x>> \o (<<y>> \o (<<z>> \o s))
<1>1. <<x, y, z>> \in Seq(Byte) /\ Len(<<x, y, z>>) = 3
      /\ <<x, y, z>>[1] = x /\ <<x, y, z>>[2] = y /\ <<x, y, z>>[3] = z
  OBVIOUS
<1>2. <<x, y, z>> \in Str
  BY <1>1 DEF Str
<1>3. <<x>> \in Str /\ <<y>> \in Str /\ <<z>> \in Str
  BY OneStr
<1>4. PICK a, b, c, d : /\ a = <<x>> /\ b = <<y>> /\ c = <<z>>
                        /\ a \in Str /\ b \in Str /\ c \in Str
                        /\ Len(a) = 1 /\ Len(b) = 1 /\ Len(c) = 1
                        /\ a[1] = x /\ b[1] = y /\ c[1] = z /\ d = b \o c
  BY <1>3, OneStr
<1>5. /\ d \in Str /\ Len(d) = 2 /\ d[1] = y /\ d[2] = z
  <2>1. /\ b \o c \in Str /\ Len(b \o c) = Len(b) + Len(c)
        /\ \A i \in 1..(Len(b) + Len(c)) : (b \o c)[i] = IF i <= Len(b) THEN b[i] ELSE c[i - Len(b)]
    BY <1>4, StrConcat
  <2> QED BY <1>4, <2>1
<1>6. <<x, y, z>> = a \o d
  <2>1. /\ a \o d \in Str /\ Len(a \o d) = Len(a) + Len(d)
        /\ \A i \in 1..(Len(a) + Len(d)) : (a \o d)[i] = IF i <= Len(a) THEN a[i] ELSE d[i - Len(a)]
    <3>1. a \in Str /\ d \in Str
      BY <1>4, <1>5
    <3> QED BY <3>1, StrConcat
  <2>2. Len(a \o d) = 3 /\ (a \o d)[1] = x /\ (a \o d)[2] = y /\ (a \o d)[3] = z
    BY <1>4, <1>5, <2>1
  <2>3. \A i \in 1..3 : i = 1 \/ i = 2 \/ i = 3
    OBVIOUS
  <2>4. \A i \in 1..3 : <<x, y, z>>[i] = (a \o d)[i]
    BY <1>1, <2>2, <2>3
  <2> QED BY <1>1, <1>2, <2>1, <2>2, <2>4, StrEqual
<1>7. (a \o d) \o s = a \o (d \o s)
  BY <1>4, <1>5, StrAssoc
<1>8. (b \o c) \o s = b \o (c \o s)
  BY <1>4, StrAssoc
<1> QED BY <1>1, <1>2, <1>4, <1>6, <1>7, <1>8

LEMMA LacksConcat ==
  ASSUME NEW a \in Str, NEW b \in Str, NEW k
  PROVE  Lacks(a \o b, k) <=> Lacks(a, k) /\ Lacks(b, k)
<1>1. PICK m, n, c : m = Len(a) /\ n = Len(b) /\ c = a \o b
  OBVIOUS
<1>2. /\ m \in Nat /\ n \in Nat /\ Len(c) = m + n
      /\ \A i \in 1..(m + n) : c[i] = IF i <= m THEN a[i] ELSE b[i - m]
  BY <1>1, StrLen, StrConcat
<1>3. ASSUME Lacks(c, k) PROVE Lacks(a, k) /\ Lacks(b, k)
  <2>1. ASSUME NEW i \in 1..m PROVE a[i] # k
    <3>1. i \in 1..(m + n) /\ i <= m
      BY <1>2
    <3> QED BY <1>2, <1>3, <3>1 DEF Lacks
  <2>2. ASSUME NEW i \in 1..n PROVE b[i] # k
    <3>1. PICK j : j = m + i
      OBVIOUS
    <3>2. j \in 1..(m + n) /\ ~(j <= m) /\ j - m = i
      BY <1>2, <3>1
    <3> QED BY <1>2, <1>3, <3>2 DEF Lacks
  <2> QED BY <1>1, <2>1, <2>2 DEF Lacks
<1>4. ASSUME Lacks(a, k), Lacks(b, k) PROVE Lacks(c, k)
  <2> SUFFICES ASSUME NEW i \in 1..(m + n) PROVE c[i] # k
    BY <1>2 DEF Lacks
  <2>1. CASE i <= m
    <3>1. i \in 1..m /\ c[i] = a[i]
      BY <1>2, <2>1
    <3> QED BY <1>1, <1>4, <3>1 DEF Lacks
  <2>2. CASE ~(i <= m)
    <3>1. i - m \in 1..n /\ c[i] = b[i - m]
      BY <1>2, <2>2
    <3> QED BY <1>1, <1>4, <3>1 DEF Lacks
  <2> QED BY <2>1, <2>2
<1> QED BY <1>1, <1>3, <1>4

LEMMA Pieces ==
  /\ Images(Escaped, Byte) /\ Images(Unmixed, Byte)
  /\ 37 \in Byte /\ 50 \in Byte /\ 53 \in Byte /\ 54 \in Byte /\ AND \in Byte /\ AND = 38
<1>1. 37 \in Byte /\ 50 \in Byte /\ 53 \in Byte /\ 54 \in Byte /\ AND \in Byte /\ AND = 38
  BY SMT DEF Byte, AND
<1>2. <<37, 50, 53>> \in Str /\ <<37, 50, 54>> \in Str
  <2>1. << >> \in Str
    BY StrEmpty
  <2>2. ASSUME NEW x \in Byte, NEW y \in Byte, NEW z \in Byte PROVE <<x, y, z>> \in Str
    BY <2>1, ThreeStr
  <2> QED BY <1>1, <2>2
<1>3. \A x \in Byte : <<x>> \in Str
  BY OneStr
<1>4. Images(Escaped, Byte)
  BY <1>2, <1>3 DEF Images, Escaped
<1>5. Images(Unmixed, Byte)
  BY <1>2, <1>3 DEF Images, Unmixed
<1> QED BY <1>1, <1>4, <1>5

LEMMA JoinedFirst ==
  ASSUME NEW F, Images(F, Byte), NEW x \in Byte, NEW t \in Str
  PROVE  Joined(F, <<x>> \o t) = F[x] \o Joined(F, t)
<1>1. <<x>> \in Seq(Byte) /\ FrameSeq(F, <<x>>) = <<F[x]>>
  BY FrameSeqOne
<1>2. F[x] \in Str /\ <<F[x]>> \in Seq(Str)
  <2>1. F[x] \in Str
    BY DEF Images
  <2> QED BY <2>1
<1>3. t \in Seq(Byte) /\ FrameSeq(F, t) \in Seq(Str)
  BY FrameSeqIs DEF Str
<1>4. FrameSeq(F, <<x>> \o t) = <<F[x]>> \o FrameSeq(F, t)
  <2>1. <<x>> \in Seq(Byte) /\ t \in Seq(Byte)
    BY <1>1, <1>3
  <2>2. FrameSeq(F, <<x>> \o t) = FrameSeq(F, <<x>>) \o FrameSeq(F, t)
    BY <2>1, FrameSeqConcat
  <2> QED BY <1>1, <2>2
<1>5. FlattenSeq(<<F[x]>> \o FrameSeq(F, t)) = FlattenSeq(<<F[x]>>) \o FlattenSeq(FrameSeq(F, t))
  BY <1>2, <1>3, FlattenConcat
<1>6. FlattenSeq(<<F[x]>>) = F[x]
  BY <1>2, FlattenOne
<1> QED BY <1>4, <1>5, <1>6 DEF Joined

LEMMA JoinedNone ==
  ASSUME NEW F
  PROVE  Joined(F, << >>) = << >>
<1>1. FrameSeq(F, << >>) = << >>
  BY DEF FrameSeq
<1> QED BY <1>1, FlattenEmpty DEF Joined

LEMMA EncodeIs ==
  ASSUME NEW v \in Str
  PROVE  EncodeMsgKeyValue(v) = Joined(Escaped, v)
<1>1. \A k \in DOMAIN v : v[k] \in Byte
  BY StrLen
<1>2. FrameSeq(Escaped, v)
        = [k \in DOMAIN v |-> IF v[k] = 37 THEN <<37, 50, 53>>
                              ELSE IF v[k] = AND THEN <<37, 50, 54>> ELSE <<v[k]>>]
  BY <1>1 DEF FrameSeq, Escaped
<1> QED BY <1>2 DEF EncodeMsgKeyValue, Joined

(* A byte that does not begin old is passed over.                            *)
Passes(p, s, old, new) == Replace(p \o s, old, new) = p \o Replace(s, old, new)

LEMMA ReplacePasses ==
  ASSUME NEW p \in Str, Len(p) = 1, NEW s \in Str, NEW old \in Str, Len(old) >= 1, p[1] # old[1],
         NEW new
  PROVE  Passes(p, s, old, new)
<1>1. PICK b : b = p \o s
  OBVIOUS
<1>2. b \in Str /\ b[1] = p[1]
  <2>1. b \in Str /\ \A i \in 1..(Len(p) + Len(s)) : b[i] = IF i <= Len(p) THEN p[i] ELSE s[i - Len(p)]
    BY <1>1, StrConcat
  <2>2. 1 \in 1..(Len(p) + Len(s)) /\ 1 <= Len(p)
    BY StrLen
  <2> QED BY <2>1, <2>2
<1>3. ~IsPrefix(old, b)
  <2> SUFFICES ASSUME IsPrefix(old, b) PROVE FALSE
    OBVIOUS
  <2>1. 1 \in 1..Len(old)
    BY StrLen
  <2>2. \A i \in 1..Len(old) : old[i] = b[i]
    BY <1>2, PrefixFits
  <2>3. old[1] = b[1]
    BY <2>1, <2>2
  <2> QED BY <1>2, <2>3
<1>4. AtFront(p, s, old, new)
  <2>1. Len(p) >= 1
    OBVIOUS
  <2> QED BY <2>1, ReplaceFront
<1> QED BY <1>1, <1>3, <1>4 DEF AtFront, Passes

(* An occurrence of old in front is replaced.                                 *)
Replaced(s, old, new) == Replace(old \o s, old, new) = new \o Replace(s, old, new)

LEMMA ReplacesFront ==
  ASSUME NEW old \in Str, NEW s \in Str, Len(old) >= 1, NEW new
  PROVE  Replaced(s, old, new)
<1>1. AtFront(old, s, old, new)
  BY ReplaceFront
<1>2. IsPrefix(old, old \o s)
  BY PrefixOf
<1> QED BY <1>1, <1>2 DEF AtFront, Replaced

(* The values whose code, e, is without '&', and is decoded by the two       *)
(* replacements.                                                             *)
P25 == <<37, 50, 53>>
P26 == <<37, 50, 54>>
Percent == <<37>>
AndStr == <<AND>>

Coded(v, e, h) ==
  /\ e \in Str /\ h \in Str /\ Lacks(e, AND)
  /\ Lacks(v, MSGPARAM) => Lacks(e, MSGPARAM)
  /\ Replace(e, P26, AndStr) = h
  /\ Replace(h, P25, Percent) = v

LEMMA Patterns ==
  /\ P25 \in Str /\ Len(P25) = 3 /\ P25[1] = 37 /\ P25[2] = 50 /\ P25[3] = 53
  /\ P26 \in Str /\ Len(P26) = 3 /\ P26[1] = 37 /\ P26[2] = 50 /\ P26[3] = 54
  /\ Lacks(P25, AND) /\ Lacks(P26, AND) /\ Lacks(P25, MSGPARAM) /\ Lacks(P26, MSGPARAM)
<1>1. P25 \in Str /\ Len(P25) = 3 /\ P25[1] = 37 /\ P25[2] = 50 /\ P25[3] = 53
  <2>1. <<37, 50, 53>> \in Seq(0..255)
    OBVIOUS
  <2> QED BY <2>1 DEF P25, Str, Byte
<1>2. P26 \in Str /\ Len(P26) = 3 /\ P26[1] = 37 /\ P26[2] = 50 /\ P26[3] = 54
  <2>1. <<37, 50, 54>> \in Seq(0..255)
    OBVIOUS
  <2> QED BY <2>1 DEF P26, Str, Byte
<1>3. AND = 38 /\ MSGPARAM = 112
  BY DEF AND, MSGPARAM
<1>4. \A i \in 1..3 : i = 1 \/ i = 2 \/ i = 3
  OBVIOUS
<1>5. Lacks(P25, AND) /\ Lacks(P25, MSGPARAM)
  BY <1>1, <1>3, <1>4 DEF Lacks
<1>6. Lacks(P26, AND) /\ Lacks(P26, MSGPARAM)
  BY <1>2, <1>3, <1>4 DEF Lacks
<1> QED BY <1>1, <1>2, <1>5, <1>6

(* "%25" in front is passed over by the first replacement.                   *)
LEMMA PercentPasses ==
  ASSUME NEW s \in Str, NEW new, NEW r \in Str, Replace(s, P26, new) = r
  PROVE  Replace(P25 \o s, P26, new) = P25 \o r
<1>2. PICK a, b, c : a = <<37>> /\ b = <<50>> /\ c = <<53>>
  OBVIOUS
<1>3. /\ a \in Str /\ Len(a) = 1 /\ a[1] = 37 /\ b \in Str /\ Len(b) = 1 /\ b[1] = 50
      /\ c \in Str /\ Len(c) = 1 /\ c[1] = 53
  BY <1>2, Pieces, OneStr
<1>4. P25 \o s = a \o (b \o (c \o s)) /\ P25 \o r = a \o (b \o (c \o r))
  <2>1. 37 \in Byte /\ 50 \in Byte /\ 53 \in Byte
    BY Pieces
  <2>2. /\ <<37, 50, 53>> \o s = <<37>> \o (<<50>> \o (<<53>> \o s))
        /\ <<37, 50, 53>> \o r = <<37>> \o (<<50>> \o (<<53>> \o r))
    BY <2>1, ThreeStr
  <2> QED BY <1>2, <2>2 DEF P25
<1>5. PICK t, u : t = c \o s /\ u = b \o t
  OBVIOUS
<1>6. t \in Str /\ u \in Str
  <2>1. t \in Str
    BY <1>3, <1>5, StrConcat
  <2> QED BY <1>3, <1>5, <2>1, StrConcat
<1>7. Replace(t, P26, new) = c \o r
  <2>1. c[1] # P26[1] /\ P26 \in Str /\ Len(P26) >= 1
    BY <1>3, Patterns
  <2>2. Passes(c, s, P26, new)
    BY <1>3, <2>1, ReplacePasses
  <2> QED BY <1>5, <2>2 DEF Passes
<1>8. Replace(u, P26, new) = b \o (c \o r)
  <2>1. b[1] # P26[1] /\ P26 \in Str /\ Len(P26) >= 1
    BY <1>3, Patterns
  <2>2. Passes(b, t, P26, new)
    BY <1>3, <1>6, <2>1, ReplacePasses
  <2> QED BY <1>5, <1>7, <2>2 DEF Passes
<1>9. ~IsPrefix(P26, a \o u)
  <2>1. a \o u \in Str /\ (a \o u)[3] = 53
    <3>1. /\ P25 \o s \in Str
          /\ \A i \in 1..(Len(P25) + Len(s)) :
               (P25 \o s)[i] = IF i <= Len(P25) THEN P25[i] ELSE s[i - Len(P25)]
      BY Patterns, StrConcat
    <3>2. 3 \in 1..(Len(P25) + Len(s)) /\ 3 <= Len(P25) /\ P25[3] = 53
      BY Patterns, StrLen
    <3>3. P25 \o s = a \o u
      BY <1>4, <1>5
    <3> QED BY <3>1, <3>2, <3>3
  <2> SUFFICES ASSUME IsPrefix(P26, a \o u) PROVE FALSE
    OBVIOUS
  <2>2. P26 \in Str /\ P26[3] = 54 /\ 3 \in 1..Len(P26)
    BY Patterns
  <2>3. \A i \in 1..Len(P26) : P26[i] = (a \o u)[i]
    <3>1. PICK y : y = a \o u
      OBVIOUS
    <3>2. y \in Str /\ IsPrefix(P26, y)
      BY <2>1, <3>1
    <3>3. \A i \in 1..Len(P26) : P26[i] = y[i]
      BY <2>2, <3>2, PrefixFits
    <3> QED BY <3>1, <3>3
  <2>4. P26[3] = (a \o u)[3]
    BY <2>2, <2>3
  <2> QED BY <2>1, <2>2, <2>4
<1>10. Replace(a \o u, P26, new) = a \o Replace(u, P26, new)
  <2>1. AtFront(a, u, P26, new)
    <3>1. P26 \in Str /\ Len(P26) >= 1 /\ Len(a) >= 1
      BY <1>3, Patterns
    <3> QED BY <1>3, <1>6, <3>1, ReplaceFront
  <2> QED BY <1>3, <1>9, <2>1 DEF AtFront
<1> QED BY <1>4, <1>5, <1>7, <1>8, <1>10

LEMMA CodedNext ==
  ASSUME NEW x \in Byte, NEW t \in Str, NEW e, NEW h, Coded(t, e, h)
  PROVE  Coded(<<x>> \o t, Escaped[x] \o e, Unmixed[x] \o h)
<1>1. /\ e \in Str /\ h \in Str /\ Lacks(e, AND)
      /\ Lacks(t, MSGPARAM) => Lacks(e, MSGPARAM)
      /\ Replace(e, P26, AndStr) = h /\ Replace(h, P25, Percent) = t
  BY DEF Coded
<1>2. PICK p, q, o : p = Escaped[x] /\ q = Unmixed[x] /\ o = <<x>>
  OBVIOUS
<1>3. p \in Str /\ q \in Str /\ o \in Str /\ Len(o) = 1 /\ o[1] = x
  <2>1. p \in Str /\ q \in Str
    BY <1>2, Pieces DEF Images
  <2> QED BY <1>2, <2>1, OneStr
<1>4. /\ x = 37 => p = P25 /\ q = P25
      /\ x = 38 => p = P26 /\ q = o
      /\ x # 37 /\ x # 38 => p = o /\ q = o
  <2>1. AND = 38
    BY DEF AND
  <2>2. /\ p = IF x = 37 THEN P25 ELSE IF x = 38 THEN P26 ELSE <<x>>
        /\ q = IF x = 37 THEN P25 ELSE <<x>>
    BY <1>2, <2>1 DEF Escaped, Unmixed, P25, P26
  <2> QED BY <1>2, <2>2
<1>5. p \o e \in Str /\ q \o h \in Str
  BY <1>1, <1>3, StrConcat
<1>6. Lacks(p \o e, AND)
  <2>1. Lacks(p, AND)
    <3>1. CASE x = 37 \/ x = 38
      BY <1>4, <3>1, Patterns
    <3>2. CASE x # 37 /\ x # 38
      <4>1. p = o /\ AND = 38
        BY <1>4, <3>2 DEF AND
      <4>2. \A i \in 1..Len(o) : i = 1
        BY <1>3
      <4>3. Lacks(o, AND)
        BY <1>3, <3>2, <4>1, <4>2 DEF Lacks
      <4> QED BY <4>1, <4>3
    <3> QED BY <3>1, <3>2
  <2> QED BY <1>1, <1>3, <2>1, LacksConcat
<1>7. ASSUME Lacks(o \o t, MSGPARAM) PROVE Lacks(p \o e, MSGPARAM)
  <2>1. Lacks(o, MSGPARAM) /\ Lacks(t, MSGPARAM)
    BY <1>3, <1>7, LacksConcat
  <2>2. Lacks(p, MSGPARAM)
    <3>1. CASE x = 37 \/ x = 38
      BY <1>4, <3>1, Patterns
    <3>2. CASE x # 37 /\ x # 38
      BY <1>4, <2>1, <3>2
    <3> QED BY <3>1, <3>2
  <2> QED BY <1>1, <1>3, <2>1, <2>2, LacksConcat
<1>8. Replace(p \o e, P26, AndStr) = q \o h
  <2>1. CASE x = 37
    <3>1. Replace(P25 \o e, P26, AndStr) = P25 \o h
      BY <1>1, PercentPasses
    <3> QED BY <1>4, <2>1, <3>1
  <2>2. CASE x = 38
    <3>1. P26 \in Str /\ Len(P26) >= 1
      BY Patterns
    <3>2. Replace(P26 \o e, P26, AndStr) = AndStr \o h
      <4>1. Replaced(e, P26, AndStr)
        BY <1>1, <3>1, ReplacesFront
      <4> QED BY <1>1, <4>1 DEF Replaced
    <3>3. AndStr = o
      BY <1>2, <2>2 DEF AND, AndStr
    <3> QED BY <1>4, <2>2, <3>2, <3>3
  <2>3. CASE x # 37 /\ x # 38
    <3>1. P26 \in Str /\ Len(P26) >= 1 /\ o[1] # P26[1]
      BY <1>3, <2>3, Patterns
    <3>2. Replace(o \o e, P26, AndStr) = o \o h
      <4>1. Passes(o, e, P26, AndStr)
        BY <1>1, <1>3, <3>1, ReplacePasses
      <4> QED BY <1>1, <4>1 DEF Passes
    <3> QED BY <1>4, <2>3, <3>2
  <2> QED BY <2>1, <2>2, <2>3
<1>9. Replace(q \o h, P25, Percent) = o \o t
  <2>1. CASE x = 37
    <3>1. P25 \in Str /\ Len(P25) >= 1
      BY Patterns
    <3>2. Replace(P25 \o h, P25, Percent) = Percent \o t
      <4>1. Replaced(h, P25, Percent)
        BY <1>1, <3>1, ReplacesFront
      <4> QED BY <1>1, <4>1 DEF Replaced
    <3>3. Percent = o
      BY <1>2, <2>1 DEF Percent
    <3> QED BY <1>4, <2>1, <3>2, <3>3
  <2>2. CASE x # 37
    <3>1. P25 \in Str /\ Len(P25) >= 1 /\ o[1] # P25[1]
      BY <1>3, <2>2, Patterns
    <3>2. Replace(o \o h, P25, Percent) = o \o t
      <4>1. Passes(o, h, P25, Percent)
        BY <1>1, <1>3, <3>1, ReplacePasses
      <4> QED BY <1>1, <4>1 DEF Passes
    <3>3. q = o
      BY <1>4, <2>2
    <3> QED BY <3>2, <3>3
  <2> QED BY <2>1, <2>2
<1> QED BY <1>2, <1>5, <1>6, <1>7, <1>8, <1>9 DEF Coded

LEMMA AllCoded ==
  ASSUME NEW v \in Str
  PROVE  Coded(v, Joined(Escaped, v), Joined(Unmixed, v))
<1> DEFINE T == {n \in Nat : \A s \in Str : Len(s) = n => Coded(s, Joined(Escaped, s), Joined(Unmixed, s))}
<1>1. 0 \in T
  <2> SUFFICES ASSUME NEW s \in Str, Len(s) = 0 PROVE Coded(s, Joined(Escaped, s), Joined(Unmixed, s))
    OBVIOUS
  <2>1. s = << >> /\ s \in Str /\ Len(s) = 0
    BY StrShorter
  <2>2. Joined(Escaped, s) = s /\ Joined(Unmixed, s) = s
    BY <2>1, JoinedNone
  <2>3. Replace(s, P25, Percent) = s /\ Replace(s, P26, AndStr) = s
    <3>1. P25 \in Str /\ P26 \in Str /\ Len(P25) >= 1 /\ Len(P26) >= 1
      BY Patterns
    <3> QED BY <2>1, <3>1, ReplaceNone
  <2>4. Lacks(s, AND) /\ Lacks(s, MSGPARAM)
    BY <2>1 DEF Lacks
  <2> QED BY <2>1, <2>2, <2>3, <2>4 DEF Coded
<1>2. ASSUME NEW n \in Nat, n \in T PROVE n + 1 \in T
  <2> SUFFICES ASSUME NEW s \in Str, Len(s) = n + 1
               PROVE  Coded(s, Joined(Escaped, s), Joined(Unmixed, s))
    OBVIOUS
  <2>1. s \in Seq(Byte) /\ s # << >>
    BY StrEmpty DEF Str
  <2>2. PICK x, t : x = s[1] /\ t = Tail(s)
    OBVIOUS
  <2>3. x \in Byte /\ t \in Str /\ Len(t) = n /\ s = <<x>> \o t
    <3>1. s[1] \in Byte /\ Tail(s) \in Seq(Byte) /\ Len(Tail(s)) = Len(s) - 1 /\ s = <<s[1]>> \o Tail(s)
      BY <2>1, SeqHead
    <3> QED BY <2>2, <3>1 DEF Str
  <2>4. Coded(t, Joined(Escaped, t), Joined(Unmixed, t))
    BY <1>2, <2>3
  <2>5. /\ Joined(Escaped, <<x>> \o t) = Escaped[x] \o Joined(Escaped, t)
        /\ Joined(Unmixed, <<x>> \o t) = Unmixed[x] \o Joined(Unmixed, t)
    BY <2>3, Pieces, JoinedFirst
  <2>6. Coded(<<x>> \o t, Escaped[x] \o Joined(Escaped, t), Unmixed[x] \o Joined(Unmixed, t))
    BY <2>3, <2>4, CodedNext
  <2> QED BY <2>3, <2>5, <2>6
<1>3. Len(v) \in T
  <2>1. Len(v) \in Nat
    BY StrLen
  <2> HIDE DEF T
  <2> QED BY <1>1, <1>2, <2>1, Induction
<1> QED BY <1>3

(* What is decoded is what was encoded.                                      *)
LEMMA EncodeDecode ==
  ASSUME NEW v \in Str
  PROVE  /\ EncodeMsgKeyValue(v) \in Str /\ Lacks(EncodeMsgKeyValue(v), AND)
         /\ Lacks(v, MSGPARAM) => Lacks(EncodeMsgKeyValue(v), MSGPARAM)
         /\ DecodeMsgKeyValue(EncodeMsgKeyValue(v)) = v
<1>1. PICK e, h : e = Joined(Escaped, v) /\ h = Joined(Unmixed, v)
  OBVIOUS
<1>2. EncodeMsgKeyValue(v) = e
  BY <1>1, EncodeIs
<1>3. Coded(v, e, h)
  BY <1>1, AllCoded
<1>4. /\ e \in Str /\ Lacks(e, AND)
      /\ Lacks(v, MSGPARAM) => Lacks(e, MSGPARAM)
      /\ Replace(e, P26, AndStr) = h /\ Replace(h, P25, Percent) = v
  BY <1>3 DEF Coded
<1>5. DecodeMsgKeyValue(e) = Replace(Replace(e, P26, AndStr), P25, Percent)
  BY Zenon DEF DecodeMsgKeyValue, P25, P26, Percent, AndStr
<1> QED BY <1>2, <1>4, <1>5

(* The value of a key: what is between its first occurrence and the next '&'. *)
LEMMA LeastOf ==
  ASSUME NEW I, I \subseteq Nat, NEW m \in I, \A i \in I : m <= i
  PROVE  I # {} /\ Min(I) = m
<1>1. PICK k : k = Min(I)
  OBVIOUS
<1>2. k \in I /\ \A y \in I : k =< y
  BY <1>1 DEF Min
<1>3. k \in Nat /\ m \in Nat /\ k =< m /\ m <= k
  BY <1>2
<1> QED BY <1>1, <1>3

First(b, k) == SelectInSeq(b, LAMBDA x : x = k)

LEMMA FirstAt ==
  ASSUME NEW a \in Str, NEW b \in Str, NEW k, Lacks(a, k), Len(b) >= 1, b[1] = k
  PROVE  First(a \o b, k) = Len(a) + 1
<1>1. PICK m, n, c, p : m = Len(a) /\ n = Len(b) /\ c = a \o b /\ p = m + 1
  OBVIOUS
<1>2. /\ m \in Nat /\ n \in Nat \ {0} /\ c \in Str /\ Len(c) = m + n
      /\ \A i \in 1..(m + n) : c[i] = IF i <= m THEN a[i] ELSE b[i - m]
  BY <1>1, StrLen, StrConcat
<1>3. PICK I : I = {i \in 1..Len(c) : c[i] = k}
  OBVIOUS
<1>4. p \in I
  <2>1. p \in 1..(m + n) /\ ~(p <= m) /\ p - m = 1
    BY <1>1, <1>2
  <2> QED BY <1>2, <1>3, <2>1
<1>5. ASSUME NEW i \in I PROVE p <= i
  <2>1. i \in 1..(m + n) /\ c[i] = k
    BY <1>2, <1>3
  <2>2. ~(i <= m)
    <3> SUFFICES ASSUME i <= m PROVE FALSE
      OBVIOUS
    <3>1. i \in 1..m /\ a[i] = k
      BY <1>2, <2>1
    <3> QED BY <1>1, <3>1 DEF Lacks
  <2> QED BY <1>1, <1>2, <2>1, <2>2
<1>6. I # {} /\ Min(I) = p
  <2>1. I \subseteq Nat
    BY <1>2, <1>3
  <2> QED BY <1>4, <1>5, <2>1, LeastOf
<1>7. First(c, k) = p
  BY <1>3, <1>6 DEF First, SelectInSeq
<1> QED BY <1>1, <1>7

(* v and what is behind it, at at + 1 in b; the next '&' is right behind v.  *)
Ends(w) == w = << >> \/ (Len(w) >= 1 /\ w[1] = AND)
ValueAt(b, at, end, v) == SubSeq(b, at + 1, IF end = 0 THEN Len(b) ELSE end - 1) = v
NextAnd(b, at) == SelectInSubSeq(b, at + 1, Len(b), LAMBDA x : x = AND)

LEMMA ValueEnds ==
  ASSUME NEW a \in Str, NEW v \in Str, NEW w \in Str, Lacks(v, AND),
         Ends(w), NEW b, b = a \o (v \o w), NEW at, at = Len(a), NEW end, end = NextAnd(b, at)
  PROVE  ValueAt(b, at, end, v)
<1>1. PICK n, l, d : n = Len(v) /\ l = Len(w) /\ d = v \o w
  OBVIOUS
<1>2. /\ at \in Nat /\ n \in Nat /\ l \in Nat /\ d \in Str /\ Len(d) = n + l
      /\ \A i \in 1..(n + l) : d[i] = IF i <= n THEN v[i] ELSE w[i - n]
  BY <1>1, StrLen, StrConcat
<1>3. /\ b \in Str /\ Len(b) = at + n + l
      /\ \A i \in 1..(at + (n + l)) : b[i] = IF i <= at THEN a[i] ELSE d[i - at]
  <2>1. /\ a \o d \in Str /\ Len(a \o d) = Len(a) + Len(d)
        /\ \A i \in 1..(Len(a) + Len(d)) : (a \o d)[i] = IF i <= Len(a) THEN a[i] ELSE d[i - Len(a)]
    BY <1>2, StrConcat
  <2>2. at + (n + l) = at + n + l
    BY <1>2
  <2> QED BY <1>1, <1>2, <2>1, <2>2
<1>4. PICK I : I = {i \in (at + 1)..Len(b) : b[i] = AND}
  OBVIOUS
<1>5. end = IF I # {} THEN Min(I) ELSE 0
  BY <1>4 DEF NextAnd, SelectInSubSeq
<1>6. ASSUME NEW i \in I PROVE i > at + n
  <2>1. i \in (at + 1)..(at + n + l) /\ b[i] = AND
    BY <1>3, <1>4
  <2> SUFFICES ASSUME ~(i > at + n) PROVE FALSE
    OBVIOUS
  <2>2. PICK j : j = i - at
    OBVIOUS
  <2>3. j \in 1..n /\ j \in 1..(n + l) /\ i \in 1..(at + (n + l)) /\ ~(i <= at) /\ j <= n
    BY <1>2, <2>1, <2>2
  <2>4. b[i] = d[j] /\ d[j] = v[j]
    BY <1>2, <1>3, <2>2, <2>3
  <2>5. v[j] # AND
    BY <1>1, <2>3 DEF Lacks
  <2> QED BY <2>1, <2>4, <2>5
<1>7. SubSeq(b, at + 1, at + n) = v
  <2>1. 1 \in Nat \ {0} /\ 1 <= n + 1 /\ n <= Len(d)
    BY <1>2
  <2>2. SubSeq(a \o d, Len(a) + 1, Len(a) + n) = SubSeq(d, 1, n)
    BY <1>2, <2>1, StrInside
  <2>3. SubSeq(d, 1, n) = v
    BY <1>1, StrParts
  <2> QED BY <1>1, <2>2, <2>3
<1>8. CASE w = << >>
  <2>1. l = 0
    BY <1>1, <1>8
  <2>2. I = {}
    <3> SUFFICES ASSUME NEW i \in I PROVE FALSE
      OBVIOUS
    <3>1. i \in (at + 1)..(at + n + l) /\ i > at + n
      BY <1>3, <1>4, <1>6
    <3> QED BY <1>2, <2>1, <3>1
  <2>3. end = 0 /\ Len(b) = at + n
    BY <1>2, <1>3, <1>5, <2>1, <2>2
  <2> QED BY <1>7, <2>3 DEF ValueAt
<1>9. CASE Len(w) >= 1 /\ w[1] = AND
  <2>1. PICK e : e = at + n + 1
    OBVIOUS
  <2>2. e \in I
    <3>1. l >= 1
      BY <1>1, <1>9
    <3>2. PICK j : j = n + 1
      OBVIOUS
    <3>3. /\ e \in 1..(at + (n + l)) /\ ~(e <= at) /\ e - at = j /\ e \in (at + 1)..(at + n + l)
          /\ j \in 1..(n + l) /\ ~(j <= n) /\ j - n = 1
      BY <1>2, <2>1, <3>1, <3>2
    <3>4. b[e] = d[j] /\ d[j] = w[1]
      BY <1>2, <1>3, <3>3
    <3> QED BY <1>3, <1>4, <1>9, <3>3, <3>4
  <2>3. ASSUME NEW i \in I PROVE e <= i
    <3>1. i \in (at + 1)..(at + n + l) /\ i > at + n
      BY <1>3, <1>4, <1>6
    <3> QED BY <1>2, <2>1, <3>1
  <2>4. I \subseteq Nat
    <3>1. \A i \in I : i \in (at + 1)..(at + n + l)
      BY <1>3, <1>4
    <3> QED BY <1>2, <3>1
  <2>5. I # {} /\ Min(I) = e
    BY <2>2, <2>3, <2>4, LeastOf
  <2>6. end = e /\ end # 0 /\ end - 1 = at + n
    BY <1>2, <1>5, <2>1, <2>5
  <2> QED BY <1>7, <2>6 DEF ValueAt
<1> QED BY <1>8, <1>9 DEF Ends

KeyIn(b, u, key, v, w) == Lacks(u, key) /\ Lacks(v, AND) /\ Ends(w) /\ b = u \o (<<key>> \o (v \o w))
Found(b, key, v) == PyGetMsgKey(b, key) = DecodeMsgKeyValue(v)

LEMMA KeyFound ==
  ASSUME NEW u \in Str, NEW v \in Str, NEW w \in Str, NEW key \in Byte,
         NEW b, KeyIn(b, u, key, v, w)
  PROVE  Found(b, key, v)
<1>0. Lacks(u, key) /\ Lacks(v, AND) /\ Ends(w) /\ b = u \o (<<key>> \o (v \o w))
  BY DEF KeyIn
<1>1. PICK k, d, a, c, at : /\ k = <<key>> /\ d = v \o w /\ a = u \o k /\ c = k \o d
                            /\ at = Len(u) + 1
  OBVIOUS
<1>2. k \in Str /\ Len(k) = 1 /\ k[1] = key
  BY <1>1, OneStr
<1>3. d \in Str /\ a \in Str /\ Len(a) = at /\ Len(u) \in Nat
  <2>1. d \in Str
    BY <1>1, StrConcat
  <2>2. u \o k \in Str /\ Len(u \o k) = Len(u) + Len(k)
    BY <1>2, StrConcat
  <2> QED BY <1>1, <1>2, <2>1, <2>2, StrLen
<1>4. c \in Str /\ Len(c) >= 1 /\ c[1] = key
  <2>1. /\ k \o d \in Str /\ Len(k \o d) = Len(k) + Len(d)
        /\ \A i \in 1..(Len(k) + Len(d)) : (k \o d)[i] = IF i <= Len(k) THEN k[i] ELSE d[i - Len(k)]
    BY <1>2, <1>3, StrConcat
  <2>2. Len(d) \in Nat
    BY <1>3, StrLen
  <2>3. 1 \in 1..(Len(k) + Len(d)) /\ 1 <= Len(k)
    BY <1>2, <2>2
  <2> QED BY <1>1, <1>2, <2>1, <2>2, <2>3
<1>5. b = u \o c /\ b = a \o d
  <2>0. u \in Str /\ k \in Str /\ d \in Str
    BY <1>2, <1>3
  <2>1. (u \o k) \o d = u \o (k \o d)
    BY <2>0, StrAssoc
  <2> QED BY <1>0, <1>1, <2>1
<1>6. First(b, key) = at
  <2>1. First(u \o c, key) = Len(u) + 1
    BY <1>0, <1>4, FirstAt
  <2> QED BY <1>1, <1>5, <2>1
<1>7. PICK end : end = NextAnd(b, at)
  OBVIOUS
<1>8. ValueAt(b, at, end, v)
  <2>1. b = a \o (v \o w) /\ at = Len(a)
    BY <1>1, <1>3, <1>5
  <2> QED BY <1>0, <1>3, <1>7, <2>1, ValueEnds
<1>9. at # 0
  BY <1>1, <1>3
<1> QED BY <1>6, <1>7, <1>8, <1>9 DEF PyGetMsgKey, NextAnd, First, ValueAt, Found

LEMMA ByteParts ==
  ASSUME NEW x \in Byte, NEW y \in Byte
  PROVE  <<x, y>> = <<x>> \o <<y>>
<1>1. PICK a, b, c : a = <<x>> /\ b = <<y>> /\ c = <<x, y>>
  OBVIOUS
<1>2. a \in Str /\ Len(a) = 1 /\ a[1] = x /\ b \in Str /\ Len(b) = 1 /\ b[1] = y
  BY <1>1, OneStr
<1>3. c \in Str /\ Len(c) = 2 /\ c[1] = x /\ c[2] = y
  <2>1. <<x, y>> \in Seq(Byte)
    OBVIOUS
  <2> QED BY <1>1, <2>1 DEF Str
<1>4. /\ a \o b \in Str /\ Len(a \o b) = Len(a) + Len(b)
      /\ \A i \in 1..(Len(a) + Len(b)) : (a \o b)[i] = IF i <= Len(a) THEN a[i] ELSE b[i - Len(a)]
  BY <1>2, StrConcat
<1>5. Len(a \o b) = 2 /\ (a \o b)[1] = x /\ (a \o b)[2] = y
  BY <1>2, <1>4
<1>6. \A i \in 1..2 : i = 1 \/ i = 2
  OBVIOUS
<1>7. c = a \o b
  BY <1>3, <1>4, <1>5, <1>6, StrEqual
<1> QED BY <1>1, <1>7

LEMMA PyContent ==
  ASSUME NEW c \in Contents
  PROVE  LET b == MakeMsgNetData(c)
         IN  PyGetMsgKey(b, MSGID) = c.msgid /\ PyGetMsgKey(b, MSGPARAM) = c.param
<1>1. PICK s, i, p, es, ei, ep : /\ s = c.sender /\ i = c.msgid /\ p = c.param
                                 /\ es = EncodeMsgKeyValue(s) /\ ei = EncodeMsgKeyValue(i)
                                 /\ ep = EncodeMsgKeyValue(p)
  OBVIOUS
<1>2. s \in Str /\ i \in Str /\ p \in Str /\ Lacks(i, MSGPARAM)
  <2>1. s \in Str /\ i \in Str /\ p \in Str /\ \A k \in DOMAIN i : i[k] # MSGPARAM
    BY <1>1, ContentAssumption DEF Str
  <2>2. DOMAIN i = 1..Len(i)
    BY <2>1, StrLen
  <2> QED BY <2>1, <2>2 DEF Lacks
<1>3. /\ es \in Str /\ ei \in Str /\ ep \in Str /\ Lacks(ei, AND) /\ Lacks(ep, AND)
      /\ Lacks(ei, MSGPARAM) /\ DecodeMsgKeyValue(ei) = i /\ DecodeMsgKeyValue(ep) = p
  BY <1>1, <1>2, EncodeDecode
<1>4. /\ MSGID \in Byte /\ MSGPARAM \in Byte /\ AND \in Byte /\ MSGSENDER \in Byte /\ 0 \in Byte
      /\ AND # MSGPARAM /\ MSGID # MSGPARAM
  BY SMT DEF MSGID, MSGPARAM, MSGSENDER, AND, Byte
<1>5. PICK k, a, q : k = <<MSGID>> /\ a = <<AND>> /\ q = <<MSGPARAM>>
  OBVIOUS
<1>6. /\ k \in Str /\ Len(k) = 1 /\ k[1] = MSGID /\ a \in Str /\ Len(a) = 1 /\ a[1] = AND
      /\ q \in Str /\ Len(q) = 1 /\ q[1] = MSGPARAM
  BY <1>4, <1>5, OneStr
<1>7. PICK tl : tl = IF s = << >> THEN << >> ELSE <<AND, MSGSENDER>> \o es \o <<0>>
  OBVIOUS
<1>8. tl \in Str /\ Ends(tl)
  <2>1. CASE s = << >>
    BY <1>7, <2>1, StrEmpty DEF Ends
  <2>2. CASE s # << >>
    <3>1. PICK x, y, z, t, r : /\ x = <<AND>> /\ y = <<MSGSENDER>> /\ z = <<0>>
                               /\ t = x \o y /\ r = t \o es
      OBVIOUS
    <3>2. x \in Str /\ Len(x) = 1 /\ x[1] = AND /\ y \in Str /\ z \in Str /\ Len(y) = 1
      BY <1>4, <3>1, OneStr
    <3>3. t \in Str /\ Len(t) = 2 /\ t[1] = AND /\ Begins(x, t)
      <4>1. x \o y \in Str /\ Len(x \o y) = Len(x) + Len(y) /\ Begins(x, x \o y)
        BY <3>2, PartBehind
      <4>2. \A j \in 1..Len(x) : (x \o y)[j] = x[j]
        BY <3>2, <4>1, BeginsIs
      <4> QED BY <3>1, <3>2, <4>1, <4>2
    <3>4. r \in Str /\ Begins(t, r)
      BY <1>3, <3>1, <3>3, PartBehind
    <3>5. r \o z \in Str /\ Begins(t, r \o z)
      BY <3>2, <3>3, <3>4, BeginsMore, StrConcat
    <3>6. Len(t) <= Len(r \o z) /\ \A j \in 1..Len(t) : (r \o z)[j] = t[j]
      BY <3>3, <3>5, BeginsIs
    <3>7. Len(r \o z) \in Nat
      BY <3>5, StrLen
    <3>8. tl = r \o z
      <4>1. <<AND, MSGSENDER>> = t
        BY <1>4, <3>1, ByteParts
      <4> QED BY <1>7, <2>2, <3>1, <4>1
    <3> QED BY <3>3, <3>5, <3>6, <3>7, <3>8 DEF Ends
  <2> QED BY <2>1, <2>2
<1>9. PICK b, ap, d, e : b = MakeMsgNetData(c) /\ ap = a \o q /\ d = ep \o tl /\ e = k \o ei
  OBVIOUS
<1>10. ap \in Str /\ d \in Str /\ e \in Str
  <2>1. a \o q \in Str
    BY <1>6, StrConcat
  <2>2. ep \o tl \in Str
    BY <1>3, <1>8, StrConcat
  <2>3. k \o ei \in Str
    BY <1>3, <1>6, StrConcat
  <2> QED BY <1>9, <2>1, <2>2, <2>3
<1>11. b = (((k \o ei) \o ap) \o ep) \o tl
  <2>1. <<AND, MSGPARAM>> = ap
    BY <1>4, <1>5, <1>9, ByteParts
  <2>2. MakeMsgNetData(c)
          = <<MSGID>> \o EncodeMsgKeyValue(i) \o <<AND, MSGPARAM>> \o EncodeMsgKeyValue(p)
              \o (IF s = << >> THEN << >>
                  ELSE <<AND, MSGSENDER>> \o EncodeMsgKeyValue(s) \o <<0>>)
    BY <1>1, Zenon DEF MakeMsgNetData
  <2> QED BY <1>1, <1>5, <1>7, <1>9, <2>1, <2>2, Zenon
<1>12. b = e \o (ap \o d)
  <2>1. ((e \o ap) \o ep) \o tl = (e \o ap) \o (ep \o tl)
    <3>1. e \o ap \in Str
      BY <1>10, StrConcat
    <3> QED BY <1>3, <1>8, <3>1, StrAssoc
  <2>2. (e \o ap) \o d = e \o (ap \o d)
    BY <1>10, StrAssoc
  <2> QED BY <1>9, <1>11, <2>1, <2>2
<1>13. PICK w : w = ap \o d
  OBVIOUS
<1>14. w \in Str /\ Len(w) >= 1 /\ w[1] = AND
  <2>1. /\ ap \in Str /\ Len(ap) = 2 /\ Begins(a, ap)
    <3>1. a \in Str /\ q \in Str
      BY <1>6
    <3>2. a \o q \in Str /\ Len(a \o q) = Len(a) + Len(q) /\ Begins(a, a \o q)
      BY <3>1, PartBehind
    <3> QED BY <1>6, <1>9, <3>2
  <2>2. w \in Str /\ Begins(a, w) /\ Len(w) \in Nat
    <3>1. w \in Str
      BY <1>10, <1>13, StrConcat
    <3> QED BY <1>6, <1>10, <1>13, <2>1, <3>1, BeginsMore, StrLen
  <2>3. Len(a) <= Len(w) /\ \A j \in 1..Len(a) : w[j] = a[j]
    BY <1>6, <2>2, BeginsIs
  <2> QED BY <1>6, <2>2, <2>3
<1>15. PyGetMsgKey(b, MSGID) = i
  <2>1. b = << >> \o (<<MSGID>> \o (ei \o w))
    <3>0. k \in Str /\ ei \in Str /\ w \in Str
      BY <1>3, <1>6, <1>14
    <3>1. (k \o ei) \o w = k \o (ei \o w)
      BY <3>0, StrAssoc
    <3>2. ei \o w \in Str
      BY <1>3, <1>14, StrConcat
    <3>3. k \o (ei \o w) \in Str
      BY <1>6, <3>2, StrConcat
    <3>4. << >> \o (k \o (ei \o w)) = k \o (ei \o w)
      BY <3>3, StrEmpty
    <3> QED BY <1>5, <1>9, <1>12, <1>13, <3>1, <3>4
  <2>2. << >> \in Str /\ Lacks(<< >>, MSGID)
    BY StrEmpty DEF Lacks
  <2>3. KeyIn(b, << >>, MSGID, ei, w)
    BY <1>3, <1>14, <2>1, <2>2 DEF KeyIn, Ends
  <2>4. Found(b, MSGID, ei)
    BY <1>3, <1>4, <1>14, <2>2, <2>3, KeyFound
  <2> QED BY <1>3, <2>4 DEF Found
<1>16. PyGetMsgKey(b, MSGPARAM) = p
  <2>1. PICK u : u = e \o a
    OBVIOUS
  <2>2. u \in Str /\ Lacks(u, MSGPARAM)
    <3>1. Lacks(k, MSGPARAM) /\ Lacks(a, MSGPARAM)
      <4>1. \A j \in 1..1 : j = 1
        OBVIOUS
      <4> QED BY <1>4, <1>6, <4>1 DEF Lacks
    <3>2. Lacks(e, MSGPARAM)
      BY <1>3, <1>6, <1>9, <3>1, LacksConcat
    <3>3. Lacks(e \o a, MSGPARAM)
      BY <1>6, <1>10, <3>1, <3>2, LacksConcat
    <3>4. e \o a \in Str
      BY <1>6, <1>10, StrConcat
    <3> QED BY <2>1, <3>3, <3>4
  <2>3. b = u \o (<<MSGPARAM>> \o (ep \o tl))
    <3>1. (a \o q) \o d = a \o (q \o d)
      BY <1>6, <1>10, StrAssoc
    <3>2. PICK f : f = q \o d
      OBVIOUS
    <3>3. e \in Str /\ a \in Str /\ f \in Str
      BY <1>6, <1>10, <3>2, StrConcat
    <3>4. (e \o a) \o f = e \o (a \o f)
      BY <3>3, StrAssoc
    <3>5. ap \o d = a \o f
      BY <1>9, <3>1, <3>2
    <3>6. b = u \o f
      BY <1>12, <2>1, <3>4, <3>5
    <3> QED BY <1>5, <1>9, <3>2, <3>6
  <2>4. KeyIn(b, u, MSGPARAM, ep, tl)
    BY <1>3, <1>8, <2>2, <2>3 DEF KeyIn
  <2>5. Found(b, MSGPARAM, ep)
    BY <1>3, <1>4, <1>8, <2>2, <2>4, KeyFound
  <2> QED BY <1>3, <2>5 DEF Found
<1> QED BY <1>1, <1>9, <1>15, <1>16

LEMMA ContentUnderstood ==
  ASSUME stream \in Streams, stream.from = stream.to, NEW c \in Contents
  PROVE  Understood(c, ContentBytes(stream.from, c))
<1>1. stream.to = "cpp" \/ stream.to = "py"
  BY StreamAssumption
<1>2. CASE stream.to = "cpp"
  <2>1. PICK b : b = GenerateNetMsgContent(c)
    OBVIOUS
  <2>2. GetMsgSender(b) = <<c.sender>> /\ GetMsgId(b) = <<c.msgid>> /\ GetMsgParam(b) = <<c.param>>
    BY <2>1, CppContent
  <2>3. ContentBytes(stream.from, c) = b
    BY <1>2, <2>1 DEF ContentBytes
  <2> QED BY <1>2, <2>2, <2>3 DEF Understood, ContentRead
<1>3. CASE stream.to = "py"
  <2>1. PICK b : b = MakeMsgNetData(c)
    OBVIOUS
  <2>2. PyGetMsgKey(b, MSGID) = c.msgid /\ PyGetMsgKey(b, MSGPARAM) = c.param
    BY <2>1, PyContent
  <2>3. ContentBytes(stream.from, c) = b
    BY <1>3, <2>1 DEF ContentBytes
  <2> QED BY <1>3, <2>2, <2>3 DEF Understood, ContentRead
<1> QED BY <1>1, <1>2, <1>3

(* A receiver reads out of a request the message id, the parameter and, in   *)
(* C++, the sender that were put into it, in either language: the lengths in *)
(* front of the parts, and the escaping of the Python port, let any bytes    *)
(* through.                                                                  *)
THEOREM StreamContentArrives == StreamSpec => []ContentArrives
<1>1. StreamTypeOK => ContentArrives
  <2> SUFFICES ASSUME stream \in Streams, stream.from = stream.to, NEW i, NEW c \in Contents,
                      got[i].m.data = ContentBytes(stream.from, c)
               PROVE  Understood(c, got[i].m.data)
    BY DEF StreamTypeOK, ContentArrives
  <2> QED BY ContentUnderstood
<1> QED BY <1>1, StreamTypes, PTL
=============================================================================
