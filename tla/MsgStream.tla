------------------------------ MODULE MsgStream ------------------------------
(***************************************************************************)
(* One direction of one connection of the bus: messages are packed and     *)
(* pushed into the sender's buffer, the kernel takes and delivers bytes in *)
(* pieces of any size, and the reader's loop cuts whole frames out of its  *)
(* own buffer and decodes them.  A stream is one of                        *)
(*   "up"       client to bus server       "down"    server to client      *)
(*   "request"  client to receiver         "answer"  receiver to client    *)
(* and each end of it is the C++ library or its Python port.               *)
(***************************************************************************)
EXTENDS Wire, FastBuffer, FiniteSetsExt

CONSTANTS Streams,      \* records [kind, from, to]
          Messages(_),  \* the messages that are sent on a stream
          MaxFrames,    \* bound: messages sent on a connection, by kind of stream
          Chunks,       \* bound: how many bytes the kernel takes at once
          BLOCK_SIZE,   \* first size of a read of TcpSock
          PY_RECV       \* size of a recv of the Python port

ASSUME StreamAssumption ==
  /\ \A s \in Streams : /\ s.kind \in {"up", "down", "request", "answer"}
                        /\ {s.from, s.to} \subseteq {"cpp", "py"}
                        /\ s.kind = "up" => s.to = "cpp"
                        /\ s.kind = "down" => s.from = "cpp"
  /\ \A s \in Streams : MaxFrames[s.kind] \in Nat
  /\ {BLOCK_SIZE, PY_RECV} \cup Chunks \subseteq Nat \ {0}

VARIABLES stream, sent, out, pipe, in, block, got

streamVars == <<stream, sent, out, pipe, in, block, got>>
-----------------------------------------------------------------------------
Classes == [cpp |-> {MsgBusRegisterReq, MsgBusRegisterRsp, MsgBusUnRegisterReq,
                     MsgBusConfirmAliveReq, MsgBusConfirmAliveRsp, MsgBusGetClientReq,
                     MsgBusGetClientRsp, MsgBusSendMsgReq, MsgBusSendMsgRsp,
                     MsgBusPackPBType},
            py  |-> {PyRegisterReq, PyRegisterRsp, PyUnRegisterReq, PyConfirmAliveReq,
                     PyConfirmAliveRsp, PyGetClientReq, PyGetClientRsp, PySendMsgReq,
                     PySendMsgRsp, PyPackPBType}]

(* The switch over body_type of the server and the handler tables of the clients. *)
ClassOf(lang, body_type) == CHOOSE c \in Classes[lang] : c.body_type = body_type

DirectFields(lang, kind) ==
  CASE kind = "request" /\ lang = "cpp" -> ReceiverReq
    [] kind = "request" /\ lang = "py"  -> PyReceiverSendMsgReq
    [] kind = "answer"  /\ lang = "cpp" -> ReceiverRsp
    [] kind = "answer"  /\ lang = "py"  -> PyReceiverSendMsgRsp

OnBus == stream.kind \in {"up", "down"}

(* PackData of a class: the head with the size of the body, then the body.  The
   frames between clients are the fields of their one class. *)
PackData(lang, x) ==
  IF OnBus
  THEN LET c == ClassOf(lang, x.body_type)
           head == [cpp |-> PackHead(c.msg_type, x.msg_id, c.body_type, BodySize(c, x.m)),
                    py  |-> PyPackHead(c.msg_type, x.msg_id, c.body_type, BodySize(c, x.m))]
       IN  head[lang] \o PackBody(c, x.m)
  ELSE PackBody([body |-> DirectFields(lang, stream.kind)], x.m)

UnPackFrame(lang, b) ==
  IF OnBus
  THEN LET h == UnPackHead(b)
       IN  [body_type |-> h.body_type, msg_id |-> h.msg_id,
            m |-> UnPackBody(ClassOf(lang, h.body_type),
                             SubSeq(b, HeadSize + 1, Len(b))).m]
  ELSE [m |-> UnPackBody([body |-> DirectFields(lang, stream.kind)], b).m]

(***************************************************************************)
(* The messages programs send: every field of the class and no other, a    *)
(* number in its width, a name shorter than its field (which is asserted   *)
(* of names), a text with room for the zero every sender puts behind it,   *)
(* memory that ends with this zero, and a length that is that of the data. *)
(* Clients send the server no answers.                                     *)
(***************************************************************************)
FieldFits(f, m) ==
  LET v == m[f.name]
  IN  \/ f.kind = "num" /\ Fits(v, f.width)
      \/ f.kind = "name" /\ v \in Seq(Byte \ {0}) /\ Len(v) < f.width
      \/ f.kind = "text" /\ v \in Seq(Byte \ {0}) /\ Len(v) < m[f.len]
      \/ f.kind = "memory" /\ v \in Seq(Byte) /\ Len(v) = m[f.len] /\ v # << >>
                            /\ \A k \in DOMAIN v : v[k] = 0 <=> k = Len(v)
      \/ f.kind = "data" /\ v \in Seq(Byte) /\ Len(v) = m[f.len]

BodyFits(body, m) ==
  /\ m = [y \in {body[i].name : i \in DOMAIN body} |-> m[y]]
  /\ \A i \in DOMAIN body : FieldFits(body[i], m)

ASSUME MessageAssumption ==
  \A s \in Streams : \A x \in Messages(s) :
    IF s.kind \in {"up", "down"}
    THEN /\ x = [body_type |-> x.body_type, msg_id |-> x.msg_id, m |-> x.m]
         /\ Fits(x.msg_id, 4)
         /\ \E c \in Classes[s.from] : /\ c.body_type = x.body_type
                                       /\ s.kind = "up" => c.msg_type = 0
                                       /\ BodyFits(c.body, x.m)
                                       /\ Fits(BodySize(c, x.m), 4)
    ELSE /\ x = [m |-> x.m]
         /\ BodyFits(DirectFields(s.from, s.kind), x.m)
-----------------------------------------------------------------------------
(***************************************************************************)
(* The loop every reader runs over what it has: a head of h bytes whose    *)
(* last four say how long the rest is; the frames that are complete, one   *)
(* after the other.                                                        *)
(***************************************************************************)
FrameSize(h, b) == h + Host(Range1(b, h - 3, 4))
HoldsFrame(h, b) == Len(b) >= h /\ Len(b) >= FrameSize(h, b)

Frames(h, b) ==
  LET Rest(k) == SubSeq(b, k, Len(b))
      from[k \in 1..(Len(b) + 1)] ==
        IF ~HoldsFrame(h, Rest(k)) THEN << >>
        ELSE LET n == FrameSize(h, Rest(k))
             IN  <<SubSeq(b, k, k + n - 1)>> \o from[k + n]
  IN  from[1]

server_onReadOnce(b) == LET f == Frames(HeadSize, b)      \* one frame in a call
                        IN  SubSeq(f, 1, Min({1, Len(f)}))
server_onRead(b) == Frames(HeadSize, b)
ServerRspProcess(b) == Frames(HeadSize, b)
receiver_onRead(b) == Frames(1 + 4 + 4, b)
Req2Receiver_onRead(b) == Frames(4 + 4, b)
PyServerReceivePack(b) == Frames(HeadSize, b)
PyReceiverReceivePack(b) == Frames(1 + 4 + 4, b)
PyReq2ReceiverReceivePack(b) == Frames(4 + 4, b)

OnRead(b) ==
  CASE stream.kind = "up" -> server_onRead(b)
    [] stream.kind = "down" /\ stream.to = "cpp" -> ServerRspProcess(b)
    [] stream.kind = "down" /\ stream.to = "py" -> PyServerReceivePack(b)
    [] stream.kind = "request" /\ stream.to = "cpp" -> receiver_onRead(b)
    [] stream.kind = "request" /\ stream.to = "py" -> PyReceiverReceivePack(b)
    [] stream.kind = "answer" /\ stream.to = "cpp" -> Req2Receiver_onRead(b)
    [] stream.kind = "answer" /\ stream.to = "py" -> PyReq2ReceiverReceivePack(b)

Handle(frames) ==
  got' = got \o [i \in DOMAIN frames |-> UnPackFrame(stream.to, frames[i])]
-----------------------------------------------------------------------------
(* The buffer of a Python end is a string: bytes are appended, and cut off. *)
PyBuffer(s) == [d |-> s, r |-> 0, w |-> Len(s), half |-> 0]

StreamInit ==
  /\ stream \in Streams
  /\ sent = << >> /\ pipe = << >> /\ got = << >>
  /\ out = IF stream.from = "cpp" THEN EmptyBuffer ELSE PyBuffer(<< >>)
  /\ in = IF stream.to = "cpp" THEN EmptyBuffer ELSE PyBuffer(<< >>)
  /\ block = IF stream.to = "cpp" THEN BLOCK_SIZE ELSE PY_RECV

(* A message is packed and put behind the output that is still buffered. *)
Send(x) ==
  /\ Len(sent) < MaxFrames[stream.kind]
  /\ sent' = Append(sent, x)
  /\ LET b == PackData(stream.from, x)
     IN  out' = IF stream.from = "cpp" THEN push_back(out, b) ELSE PyBuffer(data(out) \o b)
  /\ UNCHANGED <<stream, pipe, in, block, got>>

(* DoSend, and handle_write: the kernel takes k bytes of the output. *)
Write(k) ==
  /\ k <= size(out)
  /\ pipe' = pipe \o SubSeq(data(out), 1, k)
  /\ out' = IF stream.from = "cpp" THEN pop_front(out, k)
            ELSE PyBuffer(SubSeq(data(out), k + 1, size(out)))
  /\ UNCHANGED <<stream, sent, in, block, got>>

(* One turn of the read loop of TcpSock::HandleEvent: read into the buffer, which
   is given room first, hand the buffer to onRead, drop what it has used. *)
HandleRead ==
  LET k == Min({block, Len(pipe)})
      b == Fill(ensurewritable(in, block), SubSeq(pipe, 1, k))
      frames == OnRead(data(b))
  IN  /\ stream.to = "cpp"
      /\ pipe # << >>
      /\ pipe' = SubSeq(pipe, k + 1, Len(pipe))
      /\ block' = IF k = block THEN 2 * block ELSE block
      /\ Handle(frames)
      /\ in' = pop_front(b, Len(FlattenSeq(frames)))
      /\ UNCHANGED <<stream, sent, out>>

(* ReceivePack of the Python port; on the bus it drops everything it holds when a
   head has another magic or version. *)
ReceivePack ==
  LET k == Min({block, Len(pipe)})
      b == data(in) \o SubSeq(pipe, 1, k)
      refused == OnBus /\ Len(b) >= HeadSize /\ ~PyHeadAccepted(b)
      frames == IF refused THEN << >> ELSE OnRead(b)
  IN  /\ stream.to = "py"
      /\ pipe # << >>
      /\ pipe' = SubSeq(pipe, k + 1, Len(pipe))
      /\ Handle(frames)
      /\ in' = PyBuffer(IF refused THEN << >>
                        ELSE SubSeq(b, Len(FlattenSeq(frames)) + 1, Len(b)))
      /\ UNCHANGED <<stream, sent, out, block>>

StreamNext ==
  \/ \E x \in Messages(stream) : Send(x)
  \/ \E k \in Chunks \cup {size(out)} : k > 0 /\ Write(k)
  \/ HandleRead
  \/ ReceivePack

StreamSpec == StreamInit /\ [][StreamNext]_streamVars
-----------------------------------------------------------------------------
(* Types of the variables; both buffers keep their positions inside their vector. *)
StreamTypeOK ==
  /\ stream \in Streams
  /\ sent \in Seq(Messages(stream)) /\ Len(sent) <= MaxFrames[stream.kind]
  /\ pipe \in Seq(Byte)
  /\ \A b \in {in, out} : /\ b \in [d : Seq(Byte), r : Nat, w : Nat, half : Nat]
                         /\ WellFormed(b)
  /\ block \in Nat \ {0}

(* What the reader's handlers are given is what the sender packed, field by field
   and in order, wherever the kernel cut the stream and whichever of the two
   languages is at either end.  An error text comes with the zero that ends it, which
   a C++ handler, taking it for a C string, does not see and a Python handler does. *)
DecodedAsSent == IsPrefix(got, sent)

(* The bytes that are buffered at the two ends and under way are exactly the frames
   that were sent and not yet handled: growing, moving and shrinking the buffers
   loses, repeats or reorders none. *)
NoByteLost ==
  LET waiting == SubSeq(sent, Len(got) + 1, Len(sent))
  IN  FlattenSeq([i \in DOMAIN waiting |-> PackData(stream.from, waiting[i])])
        = data(in) \o pipe \o data(out)

(* When the reader has read everything it has handled everything: the loop leaves
   no complete frame in the buffer for an event that may not come. *)
NothingLeftUnhandled == size(out) = 0 /\ pipe = << >> => got = sent

(***************************************************************************)
(* The content of requests, as the receiver of them reads it.              *)
(***************************************************************************)
ContentBytes(lang, c) == IF lang = "cpp" THEN GenerateNetMsgContent(c) ELSE MakeMsgNetData(c)
ContentRead(lang, b) ==
  IF lang = "cpp" THEN [msgid |-> GetMsgId(b), param |-> GetMsgParam(b)]
  ELSE [msgid |-> <<PyGetMsgKey(b, MSGID)>>, param |-> <<PyGetMsgKey(b, MSGPARAM)>>]

Understood(c, b) ==
  /\ ContentRead(stream.to, b) = [msgid |-> <<c.msgid>>, param |-> <<c.param>>]
  /\ stream.to = "cpp" => GetMsgSender(b) = <<c.sender>>

CONSTANT Contents       \* contents of requests: records [msgid, param, sender]

(* Contents whose lengths fit the fields C++ writes them into.  The Python port
   finds the parameter by the first "msgparam=", which it does not encode in the
   message id before it; the parameter may hold anything. *)
ASSUME ContentAssumption ==
  \A c \in Contents :
    /\ {c.msgid, c.param, c.sender} \subseteq Seq(Byte)
    /\ Len(c.msgid) < 256 /\ Len(c.sender) < 256 /\ Fits(Len(c.param), 4)
    /\ \A k \in DOMAIN c.msgid : c.msgid[k] # MSGPARAM

(* A request carries its message id and parameter, and in C++ its sender, to a
   receiver written in the same language, whatever bytes they are made of: lengths
   in the content and escaped separators keep the fields apart. *)
ContentArrives ==
  stream.kind = "request" /\ stream.from = stream.to =>
    \A i \in DOMAIN got : \A c \in Contents :
      got[i].m.data = ContentBytes(stream.from, c) => Understood(c, got[i].m.data)
=============================================================================
