-------------------------- MODULE MsgRelay_proofs --------------------------
(***************************************************************************)
(* Proofs about MsgRelay, for any number of clients, names and messages: no *)
(* lost wake-up of the process thread, and the refinement of TaskQueue by   *)
(* both queues.                                                             *)
(***************************************************************************)
EXTENDS MsgRelay, SequenceTheorems, FiniteSetTheorems, TLAPS

-----------------------------------------------------------------------------
(* The flag is set before main notifies.                                     *)
NotifyInv == NoLostNotify /\ (main # "sleep" => terminate)

(* The process thread never sleeps on work, nor after main's notification.   *)
THEOREM NoLostNotifyCorrect == Spec => []NoLostNotify
<1>1. Init => NotifyInv
  BY DEF Init, NotifyInv, NoLostNotify
<1>2. NotifyInv /\ [Next]_vars => NotifyInv'
  <2> SUFFICES ASSUME NotifyInv, [Next]_vars
               PROVE  NotifyInv'
    OBVIOUS
  <2> USE DEF NotifyInv, NoLostNotify, queues, ends
  <2>1. CASE ClientsChange
    BY <2>1 DEF ClientsChange
  <2>2. ASSUME NEW d \in Dests, FindDest(d)
        PROVE  NotifyInv'
    BY <2>2 DEF FindDest
  <2>3. ASSUME NEW d \in Dests, QueueMsg(d)
        PROVE  NotifyInv'
    BY <2>3 DEF QueueMsg, Notify
  <2>4. CASE ProcTest
    BY <2>4 DEF ProcTest
  <2>5. CASE ProcWoken \/ ProcSpurious \/ ListDone
    BY <2>5 DEF ProcWoken, ProcSpurious, ListDone
  <2>6. CASE SelectReq \/ SelectBroadcast
    BY <2>6 DEF SelectReq, SelectBroadcast
  <2>7. CASE SendReq \/ SendBroadcast
    BY <2>7 DEF SendReq, SendBroadcast
  <2>8. CASE AcceptStart
    BY <2>8 DEF AcceptStart
  <2>9. ASSUME AcceptRound
        PROVE  NotifyInv'
    BY <2>9 DEF AcceptRound
  <2>10. CASE MainNotify \/ MainJoined
    BY <2>10 DEF MainNotify, MainJoined, Notify
  <2>11. CASE UNCHANGED vars
    BY <2>11 DEF vars
  <2> QED BY <2>1, <2>2, <2>3, <2>4, <2>5, <2>6, <2>7, <2>8, <2>9, <2>10, <2>11 DEF Next, Process
<1>3. NotifyInv => NoLostNotify
  BY DEF NotifyInv
<1> QED BY <1>1, <1>2, <1>3, PTL DEF Spec

-----------------------------------------------------------------------------
(* The queues.                                                              *)

(* Where the process thread is tells which of its lists are done.            *)
InHand ==
  /\ proc \in {"test", "wait", "woken", "exited"} =>
       running_reqs = << >> /\ running_bcasts = << >>
  /\ proc \in {"bcasts", "sendbcast"} => running_reqs = << >>
  /\ proc = "sendreq" => running_reqs # << >>
  /\ proc = "sendbcast" => running_bcasts # << >>

QueueInv == QueueType /\ InHand

(* A step that is none of the five below leaves queues and lists alone and   *)
(* does not end or start a message.                                          *)
LEMMA OtherSteps ==
  ASSUME [Next]_vars,
         ~\E d \in Dests : QueueMsg(d), ~ProcTest, ~SendReq, ~SendBroadcast
  PROVE  /\ UNCHANGED <<queues, lastreq, lastbcast>>
         /\ proc' = "exited" <=> proc = "exited"
<1> USE DEF queues, sending, ends
<1>1. CASE ClientsChange
  BY <1>1 DEF ClientsChange
<1>2. CASE \E d \in Dests : FindDest(d)
  BY <1>2 DEF FindDest
<1>3. CASE ProcWoken \/ ProcSpurious \/ ListDone
  BY <1>3 DEF ProcWoken, ProcSpurious, ListDone
<1>4. CASE SelectReq \/ SelectBroadcast
  BY <1>4 DEF SelectReq, SelectBroadcast
<1>5. CASE AcceptStart \/ AcceptRound
  BY <1>5 DEF AcceptStart, AcceptRound
<1>6. CASE MainNotify \/ MainJoined
  BY <1>6 DEF MainNotify, MainJoined, Notify
<1>7. CASE UNCHANGED vars
  BY <1>7 DEF vars
<1> QED BY <1>1, <1>2, <1>3, <1>4, <1>5, <1>6, <1>7 DEF Next, Process

(* Both queues hold messages at every step.                                  *)
LEMMA QueueTypeStep == QueueInv /\ [Next]_vars => QueueType'
<1> SUFFICES ASSUME QueueInv, [Next]_vars
             PROVE  QueueType'
  OBVIOUS
<1> USE MsgRelayAssumption DEF queues, QueueInv
<1>1. ASSUME NEW d \in Dests, QueueMsg(d)
      PROVE  QueueType'
  <2>1. NewMsg(d) \in Msg /\ queued' \in 0..MaxMsgs
    BY <1>1 DEF QueueMsg, NewMsg, Msg, QueueType
  <2>2. found' \in [Dests -> Nat]
    BY <1>1 DEF QueueMsg, QueueType
  <2>3. reqs' \in Seq(Msg) /\ broadcasts' \in Seq(Msg)
    <3>1. reqs \in Seq(Msg) /\ broadcasts \in Seq(Msg)
      BY DEF QueueType
    <3>2. Append(reqs, NewMsg(d)) \in Seq(Msg) /\ Append(broadcasts, NewMsg(d)) \in Seq(Msg)
      BY <2>1, <3>1
    <3> QED BY <1>1, <3>1, <3>2, Zenon DEF QueueMsg
  <2> QED BY <1>1, <2>1, <2>2, <2>3, Zenon DEF QueueMsg, QueueType
<1>2. ASSUME NEW d \in Dests, FindDest(d)
      PROVE  QueueType'
  BY <1>2 DEF FindDest, QueueType
<1>3. CASE ProcTest
  <2>1. << >> \in Seq(Msg)
    OBVIOUS
  <2> QED BY <1>3, <2>1, Zenon DEF ProcTest, QueueType
<1>4. CASE SendReq
  BY <1>4 DEF SendReq, QueueType, InHand
<1>5. CASE SendBroadcast
  BY <1>5 DEF SendBroadcast, QueueType, InHand
<1>6. CASE UNCHANGED <<queues, found, asked>>
  BY <1>6 DEF QueueType
<1>7. CASE ClientsChange \/ ProcWoken \/ ProcSpurious \/ ListDone
  BY <1>6, <1>7 DEF ClientsChange, ProcWoken, ProcSpurious, ListDone
<1>8. CASE SelectReq \/ SelectBroadcast
  BY <1>6, <1>8 DEF SelectReq, SelectBroadcast
<1>9. CASE AcceptStart \/ AcceptRound
  BY <1>6, <1>9 DEF AcceptStart, AcceptRound
<1>10. CASE MainNotify \/ MainJoined
  BY <1>6, <1>10 DEF MainNotify, MainJoined
<1>11. CASE UNCHANGED vars
  BY <1>6, <1>11 DEF vars
<1> QED BY <1>1, <1>2, <1>3, <1>4, <1>5, <1>7, <1>8, <1>9, <1>10, <1>11 DEF Next, Process

LEMMA InHandStep == QueueInv /\ [Next]_vars => InHand'
<1> SUFFICES ASSUME QueueInv, [Next]_vars
             PROVE  InHand'
  OBVIOUS
<1> USE DEF queues, QueueInv, InHand
<1>1. CASE \E d \in Dests : FindDest(d) \/ QueueMsg(d)
  BY <1>1 DEF FindDest, QueueMsg, Notify
<1>2. CASE ProcTest
  BY <1>2 DEF ProcTest
<1>3. CASE SendReq \/ SendBroadcast
  BY <1>3 DEF SendReq, SendBroadcast
<1>4. CASE ClientsChange \/ ProcWoken \/ ProcSpurious \/ ListDone
  BY <1>4 DEF ClientsChange, ProcWoken, ProcSpurious, ListDone
<1>5. CASE SelectReq \/ SelectBroadcast
  BY <1>5 DEF SelectReq, SelectBroadcast
<1>6. CASE AcceptStart \/ AcceptRound
  BY <1>6 DEF AcceptStart, AcceptRound
<1>7. CASE MainNotify \/ MainJoined
  BY <1>7 DEF MainNotify, MainJoined, Notify
<1>8. CASE UNCHANGED vars
  BY <1>8 DEF vars
<1> QED BY <1>1, <1>2, <1>3, <1>4, <1>5, <1>6, <1>7, <1>8 DEF Next, Process

LEMMA QueueInvCorrect == Spec => []QueueInv
<1>1. Init => QueueInv
  BY MsgRelayAssumption DEF Init, QueueInv, QueueType, InHand
<1>2. QueueInv /\ [Next]_vars => QueueInv'
  BY QueueTypeStep, InHandStep DEF QueueInv
<1> QED BY <1>1, <1>2, PTL DEF Spec

(* Directed messages and broadcasts each run as a TaskQueue.                 *)
THEOREM RelayRefinement == Spec => RelayRefined
<1> USE DEF Reqs!tqvars, Reqs!TQNext, Bcasts!tqvars, Bcasts!TQNext
<1>1. Init => Reqs!TQInit /\ Bcasts!TQInit
  BY DEF Init, Reqs!TQInit, Bcasts!TQInit
<1> DEFINE rq == running_reqs \o reqs
           bq == running_bcasts \o broadcasts
<1>2. QueueInv /\ [Next]_vars => [Reqs!TQNext]_(Reqs!tqvars)
  <2> SUFFICES ASSUME QueueInv, [Next]_vars
               PROVE  Reqs!Put \/ Reqs!Run \/ Reqs!Stop
                      \/ UNCHANGED <<running_reqs \o reqs, lastreq, proc = "exited">>
    BY Zenon
  <2> USE DEF queues, sending
  <2>t. running_reqs \in Seq(Msg) /\ reqs \in Seq(Msg)
    BY DEF QueueInv, QueueType
  <2>1. ASSUME NEW d \in Dests, QueueMsg(d)
        PROVE  Reqs!Put \/ UNCHANGED <<rq, lastreq, proc = "exited">>
    <3>1. NewMsg(d) \in Msg
      BY <2>1, MsgRelayAssumption DEF QueueMsg, NewMsg, Msg, QueueInv, QueueType
    <3>2. running_reqs \o Append(reqs, NewMsg(d)) = Append(rq, NewMsg(d))
      BY <2>t, <3>1
    <3>3. (proc = "exited")' = (proc = "exited")
      BY <2>1 DEF QueueMsg, Notify
    <3> QED BY <2>1, <3>1, <3>2, <3>3 DEF QueueMsg, Reqs!Put
  <2>2. CASE ProcTest
    <3>1. running_reqs = << >>
      BY <2>2 DEF ProcTest, QueueInv, InHand
    <3>2. rq' = rq
      BY <2>2, <2>t, <3>1, ConcatEmptySeq DEF ProcTest
    <3> QED BY <2>2, <3>2 DEF ProcTest, Reqs!Stop
  <2>3. CASE SendReq
    <3>1. /\ rq # << >>
          /\ Head(rq) = Head(running_reqs)
          /\ Tail(rq) = Tail(running_reqs) \o reqs
      BY <2>3, <2>t DEF SendReq, QueueInv, InHand
    <3> QED BY <2>3, <3>1 DEF SendReq, Reqs!Run
  <2>4. CASE SendBroadcast
    BY <2>4 DEF SendBroadcast
  <2>5. CASE UNCHANGED <<queues, lastreq, lastbcast>> /\ (proc' = "exited" <=> proc = "exited")
    BY <2>5
  <2> QED BY <2>1, <2>2, <2>3, <2>4, <2>5, OtherSteps
<1>3. QueueInv /\ [Next]_vars => [Bcasts!TQNext]_(Bcasts!tqvars)
  <2> SUFFICES ASSUME QueueInv, [Next]_vars
               PROVE  Bcasts!Put \/ Bcasts!Run \/ Bcasts!Stop
                      \/ UNCHANGED <<running_bcasts \o broadcasts, lastbcast, proc = "exited">>
    BY Zenon
  <2> USE DEF queues, sending
  <2>t. running_bcasts \in Seq(Msg) /\ broadcasts \in Seq(Msg)
    BY DEF QueueInv, QueueType
  <2>1. ASSUME NEW d \in Dests, QueueMsg(d)
        PROVE  Bcasts!Put \/ UNCHANGED <<bq, lastbcast, proc = "exited">>
    <3>1. NewMsg(d) \in Msg
      BY <2>1, MsgRelayAssumption DEF QueueMsg, NewMsg, Msg, QueueInv, QueueType
    <3>2. running_bcasts \o Append(broadcasts, NewMsg(d)) = Append(bq, NewMsg(d))
      BY <2>t, <3>1
    <3>3. (proc = "exited")' = (proc = "exited")
      BY <2>1 DEF QueueMsg, Notify
    <3> QED BY <2>1, <3>1, <3>2, <3>3 DEF QueueMsg, Bcasts!Put
  <2>2. CASE ProcTest
    <3>1. running_bcasts = << >>
      BY <2>2 DEF ProcTest, QueueInv, InHand
    <3>2. bq' = bq
      BY <2>2, <2>t, <3>1, ConcatEmptySeq DEF ProcTest
    <3> QED BY <2>2, <3>2 DEF ProcTest, Bcasts!Stop
  <2>3. CASE SendBroadcast
    <3>1. /\ bq # << >>
          /\ Head(bq) = Head(running_bcasts)
          /\ Tail(bq) = Tail(running_bcasts) \o broadcasts
      BY <2>3, <2>t DEF SendBroadcast, QueueInv, InHand
    <3> QED BY <2>3, <3>1 DEF SendBroadcast, Bcasts!Run
  <2>4. CASE SendReq
    BY <2>4 DEF SendReq
  <2>5. CASE UNCHANGED <<queues, lastreq, lastbcast>> /\ (proc' = "exited" <=> proc = "exited")
    BY <2>5
  <2> QED BY <2>1, <2>2, <2>3, <2>4, <2>5, OtherSteps
<1> QED BY <1>1, <1>2, <1>3, QueueInvCorrect, PTL
        DEF Spec, RelayRefined, Reqs!TQSpec, Bcasts!TQSpec

-----------------------------------------------------------------------------
(* The order of delivery.                                                   *)

rq == running_reqs \o reqs
bq == running_bcasts \o broadcasts

(* A message is directed or for everybody according to the queue it is in;   *)
(* the directed ones are queued by number.                                   *)
Sorted ==
  /\ \A i \in 1..Len(rq) : rq[i].dest # Broadcast /\ rq[i].seq <= queued
  /\ \A i, j \in 1..Len(rq) : i < j => rq[i].seq < rq[j].seq
  /\ \A i \in 1..Len(bq) : bq[i].dest = Broadcast

(* The receivers chosen are finitely many, and those of a directed message   *)
(* differ in the connection.                                                 *)
Chosen ==
  /\ IsFiniteSet(dests)
  /\ proc = "sendreq" => \A x, y \in dests : x[2] = y[2] => x = y

(* What has been delivered was queued before all that is still to be sent.   *)
Earlier ==
  \A c \in Conns : \A i \in 1..Len(delivered[c]) :
    delivered[c][i].dest # Broadcast =>
      /\ delivered[c][i].seq <= queued
      /\ \A j \in 1..Len(rq) : delivered[c][i].seq < rq[j].seq

DeliveredType == delivered \in [Conns -> Seq(Msg)]

OrderInv == DeliveredType /\ Sorted /\ Chosen /\ Earlier /\ RelayInOrder

(* How the queues and the history move, whatever the step.                   *)
LEMMA QueueMoves ==
  ASSUME QueueInv, [Next]_vars
  PROVE  /\ rq \in Seq(Msg) /\ bq \in Seq(Msg)
         /\ \/ \E m \in Msg : /\ m.seq = queued + 1 /\ queued' = queued + 1
                              /\ \/ m.dest # Broadcast /\ rq' = Append(rq, m) /\ bq' = bq
                                 \/ m.dest = Broadcast /\ bq' = Append(bq, m) /\ rq' = rq
                              /\ UNCHANGED delivered
            \/ /\ SendReq
               /\ rq # << >> /\ Head(rq) = Head(running_reqs) /\ rq' = Tail(rq)
               /\ UNCHANGED <<bq, queued>>
            \/ /\ SendBroadcast
               /\ bq # << >> /\ Head(bq) = Head(running_bcasts) /\ bq' = Tail(bq)
               /\ UNCHANGED <<rq, queued>>
            \/ UNCHANGED <<rq, bq, queued, delivered>>
<1> USE DEF queues, sending
<1>t. /\ running_reqs \in Seq(Msg) /\ reqs \in Seq(Msg)
      /\ running_bcasts \in Seq(Msg) /\ broadcasts \in Seq(Msg)
  BY DEF QueueInv, QueueType
<1>0. rq \in Seq(Msg) /\ bq \in Seq(Msg)
  BY <1>t DEF rq, bq
<1>1. ASSUME NEW d \in Dests, QueueMsg(d)
      PROVE  \E m \in Msg : /\ m.seq = queued + 1 /\ queued' = queued + 1
                            /\ \/ m.dest # Broadcast /\ rq' = Append(rq, m) /\ bq' = bq
                               \/ m.dest = Broadcast /\ bq' = Append(bq, m) /\ rq' = rq
                            /\ UNCHANGED delivered
  <2>1. /\ NewMsg(d) \in Msg
        /\ NewMsg(d).seq = queued + 1 /\ NewMsg(d).dest = d
    BY <1>1, MsgRelayAssumption DEF QueueMsg, NewMsg, Msg, QueueInv, QueueType
  <2>2. /\ running_reqs \o Append(reqs, NewMsg(d)) = Append(rq, NewMsg(d))
        /\ running_bcasts \o Append(broadcasts, NewMsg(d)) = Append(bq, NewMsg(d))
    BY <1>t, <2>1 DEF rq, bq
  <2>3. /\ queued' = queued + 1
        /\ UNCHANGED <<running_reqs, running_bcasts, delivered>>
    BY <1>1 DEF QueueMsg
  <2>4. CASE d = Broadcast
    <3>1. bq' = Append(bq, NewMsg(d)) /\ rq' = rq
      BY <1>1, <2>2, <2>3, <2>4 DEF QueueMsg, rq, bq
    <3> QED BY <2>1, <2>3, <2>4, <3>1
  <2>5. CASE d # Broadcast
    <3>1. rq' = Append(rq, NewMsg(d)) /\ bq' = bq
      BY <1>1, <2>2, <2>3, <2>5 DEF QueueMsg, rq, bq
    <3> QED BY <2>1, <2>3, <2>5, <3>1
  <2> QED BY <2>4, <2>5
<1>2. CASE ProcTest
  <2>1. running_reqs = << >> /\ running_bcasts = << >>
    BY <1>2 DEF ProcTest, QueueInv, InHand
  <2>2. UNCHANGED <<rq, bq, queued, delivered>>
    BY <1>2, <1>t, <2>1, ConcatEmptySeq DEF ProcTest, rq, bq
  <2> QED BY <1>0, <2>2
<1>3. CASE SendReq
  <2>1. running_reqs # << >>
    BY <1>3 DEF SendReq, QueueInv, InHand
  <2>2. rq # << >> /\ Head(rq) = Head(running_reqs) /\ Tail(rq) = Tail(running_reqs) \o reqs
    BY <1>t, <2>1 DEF rq
  <2> QED BY <1>3, <1>0, <2>2 DEF SendReq, rq, bq
<1>4. CASE SendBroadcast
  <2>1. running_bcasts # << >>
    BY <1>4 DEF SendBroadcast, QueueInv, InHand
  <2>2. bq # << >> /\ Head(bq) = Head(running_bcasts)
        /\ Tail(bq) = Tail(running_bcasts) \o broadcasts
    BY <1>t, <2>1 DEF bq
  <2> QED BY <1>4, <1>0, <2>2 DEF SendBroadcast, rq, bq
<1>5. ASSUME UNCHANGED <<queues, delivered>>
      PROVE  UNCHANGED <<rq, bq, queued, delivered>>
  BY <1>5 DEF rq, bq
<1>6. CASE ClientsChange \/ ProcWoken \/ ProcSpurious \/ ListDone
  BY <1>0, <1>5, <1>6 DEF ClientsChange, ProcWoken, ProcSpurious, ListDone
<1>7. CASE SelectReq \/ SelectBroadcast
  BY <1>0, <1>5, <1>7 DEF SelectReq, SelectBroadcast
<1>8. CASE AcceptStart \/ AcceptRound \/ MainNotify \/ MainJoined
  BY <1>0, <1>5, <1>8 DEF AcceptStart, AcceptRound, MainNotify, MainJoined
<1>9. CASE \E d \in Dests : FindDest(d)
  BY <1>0, <1>5, <1>9 DEF FindDest
<1>10. CASE UNCHANGED vars
  BY <1>0, <1>5, <1>10 DEF vars
<1> QED BY <1>0, <1>1, <1>2, <1>3, <1>4, <1>6, <1>7, <1>8, <1>9, <1>10 DEF Next, Process

LEMMA TailOf ==
  ASSUME NEW s \in Seq(Msg), s # << >>
  PROVE  /\ Len(Tail(s)) = Len(s) - 1
         /\ \A i \in 1..Len(Tail(s)) : Tail(s)[i] = s[i + 1] /\ i + 1 \in 1..Len(s)
OBVIOUS

LEMMA Members ==
  ASSUME NEW s \in Seq(Msg)
  PROVE  Len(s) \in Nat /\ \A i \in 1..Len(s) : s[i] \in Msg /\ s[i].seq \in Int
<1>1. \A i \in 1..Len(s) : s[i] \in Msg
  OBVIOUS
<1>2. \A m \in Msg : m.seq \in Int
  BY MsgRelayAssumption DEF Msg
<1> QED BY <1>1, <1>2

LEMMA SortedStep ==
  ASSUME QueueInv, Sorted, [Next]_vars
  PROVE  Sorted'
<1>0. rq \in Seq(Msg) /\ bq \in Seq(Msg) /\ queued \in Nat
  BY QueueMoves DEF QueueInv, QueueType
<1>1. ASSUME NEW m \in Msg, m.seq = queued + 1, queued' = queued + 1,
             m.dest # Broadcast, rq' = Append(rq, m), bq' = bq
      PROVE  Sorted'
  <2>1. /\ Len(rq') = Len(rq) + 1 /\ rq'[Len(rq) + 1] = m
        /\ \A i \in 1..Len(rq) : rq'[i] = rq[i]
    BY <1>0, <1>1
  <2>2. \A i \in 1..Len(rq) : rq[i] \in Msg /\ rq[i].seq \in Int
    BY <1>0, Members
  <2>3. Len(rq) \in Nat
    BY <1>0
  <2> QED BY <1>0, <1>1, <2>1, <2>2, <2>3 DEF Sorted
<1>2. ASSUME NEW m \in Msg, queued' = queued + 1,
             m.dest = Broadcast, bq' = Append(bq, m), rq' = rq
      PROVE  Sorted'
  <2>1. /\ Len(bq') = Len(bq) + 1 /\ bq'[Len(bq) + 1] = m
        /\ \A i \in 1..Len(bq) : bq'[i] = bq[i]
    BY <1>0, <1>2
  <2>2. \A i \in 1..Len(rq) : rq[i] \in Msg /\ rq[i].seq \in Int
    BY <1>0, Members
  <2>3. Len(bq) \in Nat
    BY <1>0
  <2>4. \A i \in 1..Len(bq') : bq'[i].dest = Broadcast
    <3>1. \A i \in 1..Len(bq') : i \in 1..Len(bq) \/ i = Len(bq) + 1
      BY <2>1, <2>3
    <3> QED BY <1>2, <2>1, <3>1 DEF Sorted
  <2>5. ASSUME NEW i \in 1..Len(rq) PROVE rq[i].dest # Broadcast /\ rq[i].seq <= queued + 1
    <3>1. rq[i].dest # Broadcast /\ rq[i].seq <= queued
      BY DEF Sorted
    <3> QED BY <1>0, <2>2, <3>1
  <2>6. \A i, j \in 1..Len(rq) : i < j => rq[i].seq < rq[j].seq
    BY DEF Sorted
  <2>7. /\ \A i \in 1..Len(rq') : rq'[i].dest # Broadcast /\ rq'[i].seq <= queued'
        /\ \A i, j \in 1..Len(rq') : i < j => rq'[i].seq < rq'[j].seq
    BY <1>2, <2>5, <2>6
  <2> QED BY <2>4, <2>7 DEF Sorted
<1>3. ASSUME rq # << >>, rq' = Tail(rq), UNCHANGED <<bq, queued>>
      PROVE  Sorted'
  <2>1. \A i \in 1..Len(rq') : rq'[i] = rq[i + 1] /\ i + 1 \in 1..Len(rq)
    BY <1>0, <1>3, TailOf
  <2>2. Len(rq') \in Int /\ Len(rq) \in Int
    BY <1>0, <1>3
  <2> QED BY <1>0, <1>3, <2>1, <2>2 DEF Sorted
<1>4. ASSUME bq # << >>, bq' = Tail(bq), UNCHANGED <<rq, queued>>
      PROVE  Sorted'
  <2>1. \A i \in 1..Len(bq') : bq'[i] = bq[i + 1] /\ i + 1 \in 1..Len(bq)
    BY <1>0, <1>4, TailOf
  <2>2. Len(bq') \in Int /\ Len(bq) \in Int
    BY <1>0, <1>4
  <2> QED BY <1>0, <1>4, <2>1, <2>2 DEF Sorted
<1>5. ASSUME UNCHANGED <<rq, bq, queued>>
      PROVE  Sorted'
  BY <1>5 DEF Sorted
<1> QED BY <1>1, <1>2, <1>3, <1>4, <1>5, QueueMoves

(* A receiver per service: as many as there are services at most.            *)
LEMMA ChosenFinite ==
  ASSUME NEW S \in SUBSET Names, NEW f
  PROVE  IsFiniteSet({f[n] : n \in S})
<1>1. IsFiniteSet(S)
  BY MsgRelayAssumption, FS_Subset
<1> DEFINE T == {f[n] : n \in S}
           g == [n \in S |-> f[n]]
<1>2. g \in Surjection(S, T)
  BY DEF Surjection
<1> QED BY <1>1, <1>2, FS_Surjection

LEMMA ChosenStep ==
  ASSUME Chosen, [Next]_vars
  PROVE  Chosen'
<1> USE DEF sending
<1>1. CASE SelectReq
  <2> DEFINE d == Head(running_reqs).dest
  <2>1. PICK f \in Selections(Matching(d)) : dests' = {<<d, f[n]>> : n \in Matching(d)}
    BY <1>1 DEF SelectReq
  <2>2. IsFiniteSet({[m \in Names |-> <<d, f[m]>>][n] : n \in Matching(d)})
    BY ChosenFinite DEF Matching
  <2>3. dests' = {[m \in Names |-> <<d, f[m]>>][n] : n \in Matching(d)}
    BY <2>1 DEF Matching
  <2>4. \A x, y \in dests' : x[2] = y[2] => x = y
    BY <2>1
  <2> QED BY <2>2, <2>3, <2>4 DEF Chosen
<1>2. CASE SelectBroadcast
  <2>1. PICK f \in Selections(Matching(Broadcast)) :
               dests' = {<<n, f[n]>> : n \in Matching(Broadcast)}
    BY <1>2 DEF SelectBroadcast
  <2>2. IsFiniteSet({[m \in Names |-> <<m, f[m]>>][n] : n \in Matching(Broadcast)})
    BY ChosenFinite DEF Matching
  <2>3. dests' = {[m \in Names |-> <<m, f[m]>>][n] : n \in Matching(Broadcast)}
    BY <2>1 DEF Matching
  <2>4. proc' # "sendreq"
    BY <1>2 DEF SelectBroadcast
  <2> QED BY <2>2, <2>3, <2>4 DEF Chosen
<1>3. ASSUME UNCHANGED dests, proc' = proc \/ proc' # "sendreq"
      PROVE  Chosen'
  BY <1>3 DEF Chosen
<1>4. CASE ClientsChange \/ ProcWoken \/ ProcSpurious \/ ListDone \/ ProcTest
  BY <1>3, <1>4 DEF ClientsChange, ProcWoken, ProcSpurious, ListDone, ProcTest
<1>5. CASE SendReq \/ SendBroadcast
  BY <1>3, <1>5 DEF SendReq, SendBroadcast
<1>6. CASE AcceptStart \/ AcceptRound \/ MainNotify \/ MainJoined
  BY <1>3, <1>6 DEF AcceptStart, AcceptRound, MainNotify, MainJoined, Notify
<1>7. CASE \E d \in Dests : FindDest(d) \/ QueueMsg(d)
  BY <1>3, <1>7 DEF FindDest, QueueMsg, Notify
<1>8. CASE UNCHANGED vars
  BY <1>3, <1>8 DEF vars
<1> QED BY <1>1, <1>2, <1>4, <1>5, <1>6, <1>7, <1>8 DEF Next, Process

(* What SendData adds to a connection: the message, as often as the          *)
(* connection was chosen.                                                    *)
LEMMA Sends ==
  ASSUME NEW m \in Msg, DeliveredType, IsFiniteSet(dests), SendTo(m)
  PROVE  /\ DeliveredType'
         /\ \A c \in Conns : \E k \in Nat :
              /\ delivered'[c] = delivered[c] \o [i \in 1..k |-> m]
              /\ (\A x, y \in dests : x[2] = y[2] => x = y) => k <= 1
<1> DEFINE at(c) == {x \in dests : x[2] = c}
           copies(k) == [i \in 1..k |-> m]
           apart == \A x, y \in dests : x[2] = y[2] => x = y
<1>1. ASSUME NEW c \in Conns
      PROVE  /\ Cardinality(at(c)) \in Nat
             /\ apart => Cardinality(at(c)) <= 1
  <2>1. IsFiniteSet(at(c)) /\ Cardinality(at(c)) \in Nat
    BY FS_Subset, FS_CardinalityType
  <2>2. ASSUME apart
        PROVE  at(c) = {} \/ \E x : at(c) = {x}
    BY <2>2
  <2>3. Cardinality(at(c)) = 0 \/ Cardinality(at(c)) = 1
        \/ ~apart
    BY <2>1, <2>2, FS_EmptySet, FS_Singleton
  <2> QED BY <2>1, <2>3
<1>2. \A k \in Nat : copies(k) \in Seq(Msg)
  OBVIOUS
<1>3. \A c \in Conns : delivered[c] \in Seq(Msg) /\ delivered[c] \o copies(0) = delivered[c]
  BY ConcatEmptySeq DEF DeliveredType
<1>4. PICK lost \in SUBSET {c \in Conns : \A n \in Names : c \notin active_clients[n]} :
        delivered' = [c \in Conns |->
          IF c \in lost THEN delivered[c]
          ELSE delivered[c] \o copies(Cardinality(at(c)))]
  BY DEF SendTo
<1>5. ASSUME NEW c \in Conns
      PROVE  \E k \in Nat : /\ delivered'[c] = delivered[c] \o copies(k)
                            /\ apart => k <= 1
  <2>1. CASE c \in lost
    <3>1. delivered'[c] = delivered[c] \o copies(0)
      BY <1>3, <1>4, <2>1, Zenon
    <3>2. 0 \in Nat /\ 0 <= 1
      OBVIOUS
    <3> HIDE DEF copies, apart
    <3> QED BY <3>1, <3>2
  <2>2. CASE c \notin lost
    <3>1. delivered'[c] = delivered[c] \o copies(Cardinality(at(c)))
      BY <1>4, <2>2
    <3> HIDE DEF at, copies, apart
    <3> QED BY <1>1, <3>1
  <2> QED BY <2>1, <2>2
<1>6. ASSUME NEW c \in Conns
      PROVE  delivered'[c] \in Seq(Msg)
  <2>1. PICK k \in Nat : delivered'[c] = delivered[c] \o copies(k)
    BY <1>5
  <2>2. copies(k) \in Seq(Msg) /\ delivered[c] \in Seq(Msg)
    BY <1>2, <1>3
  <2> HIDE DEF copies
  <2> QED BY <2>1, <2>2, ConcatProperties
<1>7. DeliveredType'
  BY <1>4, <1>6 DEF DeliveredType
<1> QED BY <1>5, <1>7

(* A connection's messages, s, and a message m after them.                   *)
LEMMA InOrderSend ==
  ASSUME NEW s \in Seq(Msg), NEW m \in Msg, NEW k \in Nat, NEW r \in Seq(Msg),
         r = s \o [i \in 1..k |-> m]
  PROVE  /\ \A i \in 1..Len(r) : (i \in 1..Len(s) /\ r[i] = s[i]) \/ r[i] = m
         /\ k <= 1 => \A i, j \in 1..Len(r) : i < j => i \in 1..Len(s) /\ r[i] = s[i]
<1> DEFINE u == [i \in 1..k |-> m]
<1>1. u \in Seq(Msg) /\ Len(u) = k /\ \A i \in 1..k : u[i] = m
  OBVIOUS
<1>2. Len(s) \in Nat
  OBVIOUS
<1> HIDE DEF u
<1>3. Len(s \o u) = Len(s) + k
  BY <1>1
<1>4. \A i \in 1..Len(s) : (s \o u)[i] = s[i]
  BY <1>1
<1>5. \A i \in Len(s) + 1..Len(s) + k : (s \o u)[i] = m
  BY <1>1, <1>2, ConcatProperties
<1>6. r = s \o u
  BY DEF u
<1>7. \A i \in 1..Len(r) : i \in 1..Len(s) \/ i \in Len(s) + 1..Len(s) + k
  BY <1>2, <1>3, <1>6
<1>8. k <= 1 => \A i, j \in 1..Len(r) : i < j => i \in 1..Len(s)
  BY <1>2, <1>3, <1>6
<1> QED BY <1>4, <1>5, <1>6, <1>7, <1>8

(* What the order of one connection asks, and what remains to be sent.       *)
InOrder(s) ==
  \A i, j \in 1..Len(s) :
    i < j /\ s[i].dest # Broadcast /\ s[j].dest # Broadcast => s[i].seq < s[j].seq

Before(s, q, n) ==
  \A i \in 1..Len(s) : s[i].dest # Broadcast =>
    s[i].seq <= n /\ \A j \in 1..Len(q) : s[i].seq < q[j].seq

LEMMA PerConnection ==
  /\ RelayInOrder <=> \A c \in Conns : InOrder(delivered[c])
  /\ Earlier <=> \A c \in Conns : Before(delivered[c], rq, queued)
<1>1. RelayInOrder <=> \A c \in Conns : InOrder(delivered[c])
  BY Zenon DEF RelayInOrder, InOrder
<1>2. Earlier <=> \A c \in Conns : Before(delivered[c], rq, queued)
  BY Zenon DEF Earlier, Before
<1> QED BY <1>1, <1>2

(* The head of the queue, or a broadcast, is delivered in order.             *)
LEMMA InOrderStep ==
  ASSUME QueueInv, OrderInv, [Next]_vars
  PROVE  DeliveredType' /\ RelayInOrder' /\ Earlier'
<1>0. /\ rq \in Seq(Msg) /\ bq \in Seq(Msg) /\ queued \in Nat
      /\ \A c \in Conns : delivered[c] \in Seq(Msg)
      /\ \A c \in Conns : InOrder(delivered[c]) /\ Before(delivered[c], rq, queued)
  BY QueueMoves, PerConnection DEF QueueInv, QueueType, OrderInv, DeliveredType
<1>1. ASSUME NEW m \in Msg, m.seq = queued + 1, queued' = queued + 1,
             UNCHANGED delivered, rq' = Append(rq, m) \/ rq' = rq
      PROVE  DeliveredType' /\ RelayInOrder' /\ Earlier'
  <2>1. ASSUME NEW s \in Seq(Msg), Before(s, rq, queued)
        PROVE  Before(s, rq', queued')
    <3>1. \A i \in 1..Len(s) : s[i] \in Msg /\ s[i].seq \in Int
      BY Members
    <3>2. CASE rq' = rq
      BY <1>0, <1>1, <2>1, <3>1, <3>2 DEF Before
    <3>3. CASE rq' = Append(rq, m)
      <4>1. \A j \in 1..Len(rq') : rq'[j] = m \/ (j \in 1..Len(rq) /\ rq'[j] = rq[j])
        BY <1>0, <3>3
      <4> QED BY <1>0, <1>1, <2>1, <3>1, <4>1 DEF Before
    <3> QED BY <1>1, <3>2, <3>3
  <2>2. \A c \in Conns : Before(delivered'[c], rq', queued')
    BY <1>0, <1>1, <2>1
  <2>3. DeliveredType' /\ RelayInOrder'
    BY <1>1 DEF OrderInv, DeliveredType, RelayInOrder
  <2> QED BY <2>2, <2>3, Zenon DEF Earlier, Before
<1>2. ASSUME SendReq, rq # << >>, Head(rq) = Head(running_reqs), rq' = Tail(rq), queued' = queued
      PROVE  DeliveredType' /\ RelayInOrder' /\ Earlier'
  <2> DEFINE m == Head(rq)
  <2>1. /\ m \in Msg /\ m = rq[1] /\ 1 \in 1..Len(rq)
        /\ m.seq <= queued /\ m.dest # Broadcast
    BY <1>0, <1>2 DEF OrderInv, Sorted
  <2>2. \A i \in 1..Len(rq') : rq'[i] = rq[i + 1] /\ i + 1 \in 1..Len(rq) /\ 1 < i + 1
    BY <1>0, <1>2, TailOf
  <2>3. \A i \in 1..Len(rq') : m.seq < rq'[i].seq
    BY <2>1, <2>2 DEF OrderInv, Sorted
  <2>4. SendTo(m) /\ IsFiniteSet(dests) /\ \A x, y \in dests : x[2] = y[2] => x = y
    BY <1>2 DEF SendReq, OrderInv, Chosen
  <2>5. /\ DeliveredType'
        /\ \A c \in Conns : \E k \in Nat : /\ delivered'[c] = delivered[c] \o [i \in 1..k |-> m]
                                           /\ k <= 1
    <3> HIDE DEF m
    <3> QED BY <2>1, <2>4, Sends DEF OrderInv
  <2>6. \A i \in 1..Len(rq') : rq'[i].seq \in Int
    BY <1>0, <2>2, Members
  <2>7. ASSUME NEW c \in Conns
        PROVE  InOrder(delivered'[c]) /\ Before(delivered'[c], rq', queued')
    <3> DEFINE s == delivered[c]  r == delivered'[c]
    <3>1. s \in Seq(Msg) /\ r \in Seq(Msg) /\ InOrder(s) /\ Before(s, rq, queued)
      BY <1>0, <2>5, Zenon DEF DeliveredType
    <3>2. /\ \A i \in 1..Len(r) : (i \in 1..Len(s) /\ r[i] = s[i]) \/ r[i] = m
          /\ \A i, j \in 1..Len(r) : i < j => i \in 1..Len(s) /\ r[i] = s[i]
      <4>1. PICK k \in Nat : r = s \o [i \in 1..k |-> m] /\ k <= 1
        BY <2>5
      <4> HIDE DEF m, s, r
      <4> QED BY <2>1, <3>1, <4>1, InOrderSend
    <3>3. /\ \A i \in 1..Len(r) : r[i].seq \in Int
          /\ \A i \in 1..Len(s) : s[i].seq \in Int
          /\ m.seq \in Int
          /\ \A j \in 1..Len(rq) : rq[j].seq \in Int
      <4> HIDE DEF m, s, r
      <4>1. m \in Msg => m.seq \in Int
        BY MsgRelayAssumption DEF Msg
      <4> QED BY <1>0, <2>1, <3>1, <4>1, Members
    <3> HIDE DEF m, s, r
    <3>4. InOrder(r)
      <4> SUFFICES ASSUME NEW i \in 1..Len(r), NEW j \in 1..Len(r), i < j,
                          r[i].dest # Broadcast, r[j].dest # Broadcast
                   PROVE  r[i].seq < r[j].seq
        BY DEF InOrder
      <4>1. i \in 1..Len(s) /\ r[i] = s[i] /\ s[i].seq < m.seq
        BY <2>1, <3>1, <3>2 DEF Before
      <4>2. CASE r[j] = m
        BY <4>1, <4>2
      <4>3. CASE j \in 1..Len(s) /\ r[j] = s[j]
        BY <3>1, <4>1, <4>3 DEF InOrder
      <4> QED BY <3>2, <4>2, <4>3
    <3>5. Before(r, rq', queued')
      <4> SUFFICES ASSUME NEW i \in 1..Len(r), r[i].dest # Broadcast
                   PROVE  r[i].seq <= queued' /\ \A j \in 1..Len(rq') : r[i].seq < rq'[j].seq
        BY DEF Before
      <4>1. CASE r[i] = m
        BY <1>2, <2>1, <2>3, <4>1
      <4>2. CASE i \in 1..Len(s) /\ r[i] = s[i]
        BY <1>2, <2>2, <3>1, <4>2 DEF Before
      <4> QED BY <3>2, <4>1, <4>2
    <3> QED BY <3>4, <3>5 DEF r
  <2> QED BY <2>5, <2>7, Zenon DEF RelayInOrder, Earlier, InOrder, Before
<1>3. ASSUME SendBroadcast, bq # << >>, Head(bq) = Head(running_bcasts),
             rq' = rq, queued' = queued
      PROVE  DeliveredType' /\ RelayInOrder' /\ Earlier'
  <2> DEFINE m == Head(bq)
  <2>1. m \in Msg /\ m.dest = Broadcast
    BY <1>0, <1>3 DEF OrderInv, Sorted
  <2>2. SendTo(m) /\ IsFiniteSet(dests)
    BY <1>3 DEF SendBroadcast, OrderInv, Chosen
  <2>3. /\ DeliveredType'
        /\ \A c \in Conns : \E k \in Nat : delivered'[c] = delivered[c] \o [i \in 1..k |-> m]
    <3> HIDE DEF m
    <3> QED BY <2>1, <2>2, Sends DEF OrderInv
  <2>4. ASSUME NEW c \in Conns
        PROVE  InOrder(delivered'[c]) /\ Before(delivered'[c], rq', queued')
    <3> DEFINE s == delivered[c]  r == delivered'[c]
    <3>1. s \in Seq(Msg) /\ r \in Seq(Msg) /\ InOrder(s) /\ Before(s, rq, queued)
      BY <1>0, <2>3, Zenon DEF DeliveredType
    <3>2. \A i \in 1..Len(r) : (i \in 1..Len(s) /\ r[i] = s[i]) \/ r[i] = m
      <4>1. PICK k \in Nat : r = s \o [i \in 1..k |-> m]
        BY <2>3
      <4> HIDE DEF m, s, r
      <4> QED BY <2>1, <3>1, <4>1, InOrderSend
    <3> HIDE DEF m, s, r
    <3>3. InOrder(r)
      BY <2>1, <3>1, <3>2 DEF InOrder
    <3>4. Before(r, rq', queued')
      BY <1>3, <2>1, <3>1, <3>2 DEF Before
    <3> QED BY <3>3, <3>4 DEF r
  <2> QED BY <2>3, <2>4, Zenon DEF RelayInOrder, Earlier, InOrder, Before
<1>4. ASSUME UNCHANGED <<rq, queued, delivered>>
      PROVE  DeliveredType' /\ RelayInOrder' /\ Earlier'
  BY <1>4 DEF OrderInv, DeliveredType, RelayInOrder, Earlier
<1> QED BY <1>1, <1>2, <1>3, <1>4, QueueMoves

LEMMA OrderInvCorrect == Spec => []OrderInv
<1>1. Init => OrderInv
  <2> SUFFICES ASSUME Init
               PROVE  OrderInv
    OBVIOUS
  <2>1. rq = << >> /\ bq = << >>
    BY DEF Init, rq, bq
  <2>2. IsFiniteSet(dests)
    BY FS_EmptySet DEF Init
  <2>3. DeliveredType /\ \A c \in Conns : delivered[c] = << >>
    BY DEF Init, DeliveredType
  <2> QED BY <2>1, <2>2, <2>3 DEF Init, OrderInv, Sorted, Chosen, Earlier, RelayInOrder
<1>2. QueueInv /\ OrderInv /\ [Next]_vars => OrderInv'
  BY SortedStep, ChosenStep, InOrderStep DEF OrderInv
<1> QED BY <1>1, <1>2, QueueInvCorrect, PTL DEF Spec

(* Directed messages reach a connection in the order queued and once, however *)
(* clients come and go and whichever connections are chosen.                  *)
THEOREM RelayInOrderCorrect == Spec => []RelayInOrder
<1>1. OrderInv => RelayInOrder
  BY DEF OrderInv
<1> QED BY <1>1, OrderInvCorrect, PTL

-----------------------------------------------------------------------------
(* Types.                                                                   *)

(* The server counts no further than the round that ends it.                 *)
RoundsLeft == accept # "exited" => noclient_quit_cnt <= QuitRounds

LEMMA SendTypeStep ==
  ASSUME QueueInv, OrderInv, SendType, [Next]_vars
  PROVE  SendType'
<1> USE DEF sending, queues, ProcStates
<1>0. DeliveredType'
  BY InOrderStep
<1>1. ASSUME active_clients' \in [Names -> SUBSET Conns],
             dests' \subseteq (Names \cup Dests) \X Conns, proc' \in ProcStates,
             lastreq' \in Msg \cup {NoTask}, lastbcast' \in Msg \cup {NoTask}
      PROVE  SendType'
  BY <1>0, <1>1, Zenon DEF SendType, DeliveredType
<1>2. CASE ClientsChange
  <2>1. active_clients' \in [Names -> SUBSET Conns]
    BY <1>2 DEF ClientsChange, AC!ACNext, AC!Join, AC!Leave, SendType
  <2> QED BY <1>1, <1>2, <2>1 DEF ClientsChange, SendType
<1>3. CASE SelectReq
  <2>1. Head(running_reqs).dest \in Dests
    <3>1. Head(running_reqs) \in Msg
      BY <1>3 DEF SelectReq, QueueInv, QueueType
    <3> QED BY <3>1 DEF Msg
  <2>2. dests' \subseteq (Names \cup Dests) \X Conns
    <3>1. PICK f \in Selections(Matching(Head(running_reqs).dest)) :
                 dests' = {<<Head(running_reqs).dest, f[n]>> : n \in Matching(Head(running_reqs).dest)}
      BY <1>3 DEF SelectReq
    <3>2. \A n \in Matching(Head(running_reqs).dest) : f[n] \in Conns
      BY <3>1 DEF Selections
    <3> QED BY <2>1, <3>1, <3>2
  <2> QED BY <1>1, <1>3, <2>2 DEF SelectReq, SendType
<1>4. CASE SelectBroadcast
  <2>1. PICK f \in Selections(Matching(Broadcast)) :
               dests' = {<<n, f[n]>> : n \in Matching(Broadcast)}
    BY <1>4 DEF SelectBroadcast
  <2>2. \A n \in Matching(Broadcast) : f[n] \in Conns /\ n \in Names
    BY <2>1 DEF Selections, Matching
  <2>3. dests' \subseteq (Names \cup Dests) \X Conns
    BY <2>1, <2>2
  <2> QED BY <1>1, <1>4, <2>3 DEF SelectBroadcast, SendType
<1>5. CASE SendReq
  <2>1. Head(running_reqs) \in Msg
    BY <1>5 DEF SendReq, QueueInv, QueueType, InHand
  <2> QED BY <1>1, <1>5, <2>1 DEF SendReq, SendType
<1>6. CASE SendBroadcast
  <2>1. Head(running_bcasts) \in Msg
    BY <1>6 DEF SendBroadcast, QueueInv, QueueType, InHand
  <2> QED BY <1>1, <1>6, <2>1 DEF SendBroadcast, SendType
<1>7. CASE ProcWoken \/ ProcSpurious \/ ListDone \/ ProcTest
  BY <1>1, <1>7 DEF ProcWoken, ProcSpurious, ListDone, ProcTest, SendType
<1>8. CASE AcceptStart \/ AcceptRound \/ MainNotify \/ MainJoined
  BY <1>1, <1>8 DEF AcceptStart, AcceptRound, MainNotify, MainJoined, Notify, SendType
<1>9. CASE \E d \in Dests : FindDest(d) \/ QueueMsg(d)
  BY <1>1, <1>9 DEF FindDest, QueueMsg, Notify, SendType
<1>10. CASE UNCHANGED vars
  BY <1>1, <1>10 DEF vars, SendType
<1> QED BY <1>2, <1>3, <1>4, <1>5, <1>6, <1>7, <1>8, <1>9, <1>10 DEF Next, Process

LEMMA EndTypeStep ==
  ASSUME EndType, RoundsLeft, [Next]_vars
  PROVE  EndType' /\ RoundsLeft'
<1> USE MsgRelayAssumption DEF ends
<1>1. CASE AcceptStart
  BY <1>1 DEF AcceptStart, EndType, RoundsLeft
<1>2. CASE AcceptRound
  <2> DEFINE cnt == IF NoClients THEN noclient_quit_cnt + 1 ELSE 0
  <2>1. cnt \in 0..(QuitRounds + 1)
    BY <1>2 DEF AcceptRound, EndType, RoundsLeft
  <2>2. terminate' \in BOOLEAN
    BY <1>2 DEF AcceptRound, EndType
  <2>3. accept' # "exited" => cnt <= QuitRounds
    <3>1. cnt > QuitRounds => terminate'
      BY <1>2, Zenon DEF AcceptRound
    <3>2. terminate' => accept' = "exited"
      BY <1>2, Zenon DEF AcceptRound
    <3> HIDE DEF cnt
    <3> QED BY <2>1, <3>1, <3>2
  <2>4. noclient_quit_cnt' = cnt /\ accept' \in {"select", "exited"} /\ UNCHANGED main
    BY <1>2 DEF AcceptRound
  <2> HIDE DEF cnt
  <2> QED BY <2>1, <2>2, <2>3, <2>4 DEF EndType, RoundsLeft
<1>3. CASE MainNotify \/ MainJoined
  BY <1>3 DEF MainNotify, MainJoined, EndType, RoundsLeft
<1>4. ASSUME UNCHANGED ends
      PROVE  EndType' /\ RoundsLeft'
  BY <1>4 DEF EndType, RoundsLeft
<1>5. CASE ClientsChange \/ ProcWoken \/ ProcSpurious \/ ListDone \/ ProcTest
  BY <1>4, <1>5 DEF ClientsChange, ProcWoken, ProcSpurious, ListDone, ProcTest
<1>6. CASE SelectReq \/ SelectBroadcast \/ SendReq \/ SendBroadcast
  BY <1>4, <1>6 DEF SelectReq, SelectBroadcast, SendReq, SendBroadcast
<1>7. CASE \E d \in Dests : FindDest(d) \/ QueueMsg(d)
  BY <1>4, <1>7 DEF FindDest, QueueMsg
<1>8. CASE UNCHANGED vars
  BY <1>4, <1>8 DEF vars
<1> QED BY <1>1, <1>2, <1>3, <1>5, <1>6, <1>7, <1>8 DEF Next, Process

(* Every variable of the server's threads keeps its type.                    *)
THEOREM TypeCorrect == Spec => []TypeOK
<1>1. Init => SendType /\ EndType /\ RoundsLeft
  <2> SUFFICES ASSUME Init
               PROVE  SendType /\ EndType /\ RoundsLeft
    OBVIOUS
  <2>1. SendType
    BY DEF Init, SendType, ProcStates
  <2>2. noclient_quit_cnt \in 0..(QuitRounds + 1) /\ noclient_quit_cnt <= QuitRounds
    BY MsgRelayAssumption DEF Init
  <2>3. EndType /\ RoundsLeft
    BY <2>2, Zenon DEF Init, EndType, RoundsLeft
  <2> QED BY <2>1, <2>3
<1>2. OrderInv /\ QueueInv /\ SendType /\ EndType /\ RoundsLeft /\ [Next]_vars
        => SendType' /\ EndType' /\ RoundsLeft'
  BY SendTypeStep, EndTypeStep
<1>3. QueueInv /\ SendType /\ EndType => TypeOK
  BY DEF QueueInv, TypeOK
<1> QED BY <1>1, <1>2, <1>3, QueueInvCorrect, OrderInvCorrect, PTL DEF Spec
=============================================================================
