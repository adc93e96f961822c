-------------------------------- MODULE Wire --------------------------------
(***************************************************************************)
(* What the programs of the bus put on a connection, byte by byte: the     *)
(* messages between a client and the bus server (msgbus_def, and its       *)
(* Python port NetMsgBusDataDef), the requests and answers between two     *)
(* clients, and the content of a request.  A message class is a record:    *)
(*   msg_type, body_type   what its constructor puts in the head           *)
(*   body                  the fields PackBody and UnPackBody walk over    *)
(*   Size                  the fixed part of Size(), to which the lengths  *)
(*                         of the variable fields are added                *)
(* A message is a function from the names of its fields to their values.   *)
(***************************************************************************)
EXTENDS Integers, SequencesExt

CONSTANT MAX_SERVICE_NAME      \* bytes of a name on the wire, 64 in the code

ASSUME NameAssumption == MAX_SERVICE_NAME \in Nat \ {0}

Byte == 0..255

(***************************************************************************)
(* htons, htonl, struct '!': a number in w bytes, most significant first;  *)
(* ntohs, ntohl back.                                                      *)
(***************************************************************************)
Shifted(v, n) ==       \* v without its n least significant bytes
  LET q[k \in 0..n] == IF k = 0 THEN v ELSE q[k - 1] \div 256 IN q[n]
Net(v, w) == [k \in 1..w |-> Shifted(v, w - k) % 256]
Host(b) ==
  LET v[k \in 0..Len(b)] == IF k = 0 THEN 0 ELSE 256 * v[k - 1] + b[k] IN v[Len(b)]

(* A number that w bytes hold. *)
Fits(v, w) == v \in Nat /\ Shifted(v, w) = 0

(* strncpy(p, s, w) and struct 'ws': cut, or filled up with zeros. *)
strncpy(s, w) == [k \in 1..w |-> IF k <= Len(s) THEN s[k] ELSE 0]

(* The C string at the start of b: the bytes before the first zero.  Python's
   strip('\0') gives the same for the names and types this code sends. *)
CString(b) == LET z == SelectInSeq(b, LAMBDA x : x = 0)
              IN  IF z = 0 THEN b ELSE SubSeq(b, 1, z - 1)

Range1(b, from, w) == SubSeq(b, from, from + w - 1)
-----------------------------------------------------------------------------
(***************************************************************************)
(* The fields of a body.  "num" is an integer of width bytes, "name" a     *)
(* name of MAX_SERVICE_NAME bytes; the others take the number of bytes     *)
(* another field gives.  "data" is copied with memcpy.  "text" and "memory"*)
(* are copied with strncpy, which stops at a zero and fills up with zeros: *)
(* a "text" is what its users make of it, a string without zeros, and      *)
(* "memory" all the bytes at char*, with the zero behind the text.         *)
(***************************************************************************)
Num(f, w) == [name |-> f, kind |-> "num", width |-> w]
Name(f) == [name |-> f, kind |-> "name", width |-> MAX_SERVICE_NAME]
Text(f, len) == [name |-> f, kind |-> "text", len |-> len]
Memory(f, len) == [name |-> f, kind |-> "memory", len |-> len]
Bytes(f, len) == [name |-> f, kind |-> "data", len |-> len]

Variable(f) == f.kind \in {"text", "memory", "data"}
Width(f, m) == IF Variable(f) THEN m[f.len] ELSE f.width

Put(f, m) == CASE f.kind = "num"  -> Net(m[f.name], f.width)
               [] f.kind = "data" -> m[f.name]
               [] OTHER           -> strncpy(CString(m[f.name]), Width(f, m))

Take(f, b) == CASE f.kind = "num"    -> Host(b)
                [] f.kind = "data"   -> b
                [] f.kind = "memory" -> strncpy(CString(b), Len(b))
                [] OTHER             -> CString(b)

(* ClientHost: address, port and load, already in network order in C++. *)
ClientHost == << Num("ip", 4), Num("port", 2), Num("busy_state", 4) >>

PackBody(c, m) == FlattenSeq([i \in DOMAIN c.body |-> Put(c.body[i], m)])

Assign(m, x, v) == [y \in DOMAIN m \cup {x} |-> IF y = x THEN v ELSE m[y]]

(* The fields read so far and where the next begins; a read past the end of b
   leaves at beyond it, which the callers test for. *)
UnPackBody(c, b) ==
  LET Step(r, f) ==
        LET w == Width(f, r.m)
        IN  IF r.at + w - 1 > Len(b) THEN [at |-> Len(b) + 2, m |-> r.m]
            ELSE [at |-> r.at + w, m |-> Assign(r.m, f.name, Take(f, Range1(b, r.at, w)))]
      read[k \in 0..Len(c.body)] ==
        IF k = 0 THEN [at |-> 1, m |-> << >>] ELSE Step(read[k - 1], c.body[k])
  IN  read[Len(c.body)]

(* Size() without the head, which PackData puts into body_len. *)
BodySize(c, m) ==
  LET n[k \in 0..Len(c.body)] ==
        IF k = 0 THEN c.Size
        ELSE n[k - 1] + (IF Variable(c.body[k]) THEN m[c.body[k].len] ELSE 0)
  IN  n[Len(c.body)]
-----------------------------------------------------------------------------
(***************************************************************************)
(* The head: magic, version, msg_type, msg_id, body_type, body_len.  The   *)
(* structures are packed, so sizeof(MsgBusPackHead) is 16.  C++ takes any  *)
(* head; Python refuses another magic or version.                          *)
(***************************************************************************)
HeadSize == 16
MAGIC == 102
VERSION == 1

PackHead(msg_type, msg_id, body_type, body_len) ==
  Net(MAGIC, 1) \o Net(VERSION, 2) \o Net(msg_type, 1) \o Net(msg_id, 4)
    \o Net(body_type, 4) \o Net(body_len, 4)

UnPackHead(b) ==
  [magic |-> b[1], version |-> Host(Range1(b, 2, 2)), msg_type |-> b[4],
   msg_id |-> Host(Range1(b, 5, 4)), body_type |-> Host(Range1(b, 9, 4)),
   body_len |-> Host(Range1(b, 13, 4))]

(* struct '!BHBIiI' of the Python port. *)
PyPackHead(msg_type, msg_id, body_type, body_len) ==
  Net(MAGIC, 1) \o Net(VERSION, 2) \o Net(msg_type, 1) \o Net(msg_id, 4)
    \o Net(body_type, 4) \o Net(body_len, 4)

PyHeadAccepted(b) == b[1] = MAGIC /\ Host(Range1(b, 2, 2)) = VERSION

Req(body_type, body, size) ==
  [msg_type |-> 0, body_type |-> body_type, body |-> body, Size |-> size]
Rsp(body_type, body, size) ==
  [msg_type |-> 1, body_type |-> body_type, body |-> body, Size |-> size]
-----------------------------------------------------------------------------
(* The message classes of msgbus_def.cpp. *)
MsgBusRegisterReq ==
  Req(65537, <<Name("service_name")>> \o ClientHost, MAX_SERVICE_NAME + 10)
MsgBusRegisterRsp ==
  Rsp(131073, <<Num("ret_code", 2), Name("service_name"), Num("err_msg_len", 2),
                Memory("err_msg", "err_msg_len")>>, 2 + MAX_SERVICE_NAME + 2)
MsgBusUnRegisterReq ==
  Req(65538, <<Name("service_name")>> \o ClientHost, MAX_SERVICE_NAME + 10)
MsgBusConfirmAliveReq == Req(65539, <<Num("alive_flag", 1)>>, 1)
MsgBusConfirmAliveRsp == Rsp(131075, <<Num("ret_code", 2)>>, 2)
MsgBusGetClientReq == Req(65541, <<Name("dest_name")>>, MAX_SERVICE_NAME)
MsgBusGetClientRsp ==
  Rsp(131077, <<Num("ret_code", 2), Name("dest_name")>> \o ClientHost,
      2 + MAX_SERVICE_NAME + 10)
MsgBusSendMsgReqSwapped ==     \* mutant: C++ packs and unpacks the names the other way
  Req(65540, <<Name("from_name"), Name("dest_name"), Num("msg_len", 4),
               Bytes("msg_content", "msg_len")>>, 2 * MAX_SERVICE_NAME + 4)
MsgBusSendMsgReq ==
  Req(65540, <<Name("dest_name"), Name("from_name"), Num("msg_len", 4),
               Bytes("msg_content", "msg_len")>>, 2 * MAX_SERVICE_NAME + 4)
MsgBusSendMsgRsp ==
  Rsp(131076, <<Num("ret_code", 2), Num("err_msg_len", 2),
                Memory("err_msg", "err_msg_len")>>, 2 + 2)
MsgBusPackPBType ==
  Req(196609, <<Num("pbtype_len", 4), Num("pbdata_len", 4),
                Text("pbtype", "pbtype_len"), Bytes("pbdata", "pbdata_len")>>, 4 + 4)

(* The same classes in NetMsgBusDataDef.py, from their struct formats.  Of an error
   text Python strips nothing.  (Its MsgBusRegisterRsp cannot be packed: PackBody and
   BodySize name an unknown err_msg_len.  No client sends an answer to the server.) *)
PyRegisterReq ==
  Req(65537, <<Name("service_name")>> \o ClientHost, MAX_SERVICE_NAME + 10)
PyRegisterRsp ==
  Rsp(131073, <<Num("ret_code", 2), Name("service_name"), Num("err_msg_len", 2),
                Bytes("err_msg", "err_msg_len")>>, MAX_SERVICE_NAME + 4)
PyUnRegisterReq ==
  Req(65538, <<Name("service_name")>> \o ClientHost, MAX_SERVICE_NAME + 10)
PyConfirmAliveReq == Req(65539, <<Num("alive_flag", 1)>>, 1)
PyConfirmAliveRsp == Rsp(131075, <<Num("ret_code", 2)>>, 2)
PyGetClientReq == Req(65541, <<Name("dest_name")>>, MAX_SERVICE_NAME)
PyGetClientRsp ==
  Rsp(131077, <<Num("ret_code", 2), Name("dest_name")>> \o ClientHost,
      MAX_SERVICE_NAME + 12)
PySendMsgReq ==
  Req(65540, <<Name("dest_name"), Name("from_name"), Num("msg_len", 4),
               Bytes("msg_content", "msg_len")>>, 2 * MAX_SERVICE_NAME + 4)
PySendMsgRsp ==
  Rsp(131076, <<Num("ret_code", 2), Num("err_msg_len", 2),
                Bytes("err_msg", "err_msg_len")>>, 4)
PyPackPBType ==
  Req(196609, <<Num("pbtype_len", 4), Num("pbdata_len", 4),
                Text("pbtype", "pbtype_len"), Bytes("pbdata", "pbdata_len")>>, 8)
-----------------------------------------------------------------------------
(***************************************************************************)
(* Requests and answers between two clients have a head of their own,      *)
(* written by WriteTaskDataToReceiver and NetMsgBusRspSendMsg, and by two  *)
(* classes of the Python port.                                             *)
(***************************************************************************)
ReceiverReq == <<Num("is_sync", 1), Num("sync_sid", 4), Num("data_len", 4),
                 Bytes("data", "data_len")>>
ReceiverRsp == <<Num("sync_sid", 4), Num("data_len", 4), Bytes("data", "data_len")>>
PyReceiverSendMsgReq == <<Num("is_sync", 1), Num("sync_sid", 4), Num("data_len", 4),
                          Bytes("data", "data_len")>>
PyReceiverSendMsgRsp == <<Num("sync_sid", 4), Num("data_len", 4),
                          Bytes("data", "data_len")>>

(***************************************************************************)
(* The content of a request.  C++ puts a byte with the length before the   *)
(* sender and before the message id, and four before the parameter: the    *)
(* sizes are cut to the width of their field.                              *)
(***************************************************************************)
GenerateNetMsgContent(c) ==
  LET s == Len(c.sender) % 256
      i == Len(c.msgid) % 256
  IN  Net(s, 1) \o SubSeq(c.sender, 1, s) \o Net(i, 1) \o SubSeq(c.msgid, 1, i)
        \o Net(Len(c.param), 4) \o c.param

(* GetMsgSender, GetMsgId and GetMsgParam: each is found only when the content
   is long enough for what the lengths in it say. *)
GetMsgSender(b) ==
  IF Len(b) >= 1 /\ Len(b) >= 1 + b[1] THEN <<Range1(b, 2, b[1])>> ELSE << >>

GetMsgId(b) ==
  IF Len(b) >= 1 /\ Len(b) >= 2 + b[1] /\ Len(b) >= 2 + b[1] + b[2 + b[1]]
  THEN <<Range1(b, 3 + b[1], b[2 + b[1]])>> ELSE << >>

GetMsgParam(b) ==
  LET at == 2 + b[1] + b[2 + b[1]]
  IN  IF /\ Len(b) >= 1 /\ Len(b) >= 2 + b[1] /\ Len(b) >= at + 4
         /\ Len(b) >= at + 4 + Host(Range1(b, at + 1, 4))
      THEN <<Range1(b, at + 5, Host(Range1(b, at + 1, 4)))>> ELSE << >>

(***************************************************************************)
(* The Python port writes "msgid=..&msgparam=..&msgsender=..\0" instead,   *)
(* '%' and '&' in a value encoded, and looks a key up by its first         *)
(* occurrence in the content.  A key is one symbol here, "key=", and so is *)
(* "&".  An encoded value holds no "&", but it may hold a key.             *)
(***************************************************************************)
MSGID == 109        \* "msgid="
MSGPARAM == 112     \* "msgparam="
MSGSENDER == 115    \* "msgsender="
AND == 38           \* "&"

EncodeAndOnly(v) ==                \* mutant: the escape character is not escaped
  FlattenSeq([k \in DOMAIN v |-> IF v[k] = AND THEN <<37, 50, 54>> ELSE <<v[k]>>])
EncodeMsgKeyValue(v) ==
  FlattenSeq([k \in DOMAIN v |-> IF v[k] = 37 THEN <<37, 50, 53>>
                                 ELSE IF v[k] = AND THEN <<37, 50, 54>> ELSE <<v[k]>>])

(* Python's v.replace(old, new): the occurrences from the left, not overlapping. *)
Replace(v, old, new) ==
  LET from[k \in 1..(Len(v) + 1)] ==
        IF k > Len(v) THEN << >>
        ELSE IF IsPrefix(old, SubSeq(v, k, Len(v))) THEN new \o from[k + Len(old)]
        ELSE <<v[k]>> \o from[k + 1]
  IN  from[1]

DecodeMsgKeyValue(v) ==
  Replace(Replace(v, <<37, 50, 54>>, <<AND>>), <<37, 50, 53>>, <<37>>)

MakeMsgNetData(c) ==
  <<MSGID>> \o EncodeMsgKeyValue(c.msgid) \o <<AND, MSGPARAM>> \o EncodeMsgKeyValue(c.param)
    \o (IF c.sender = << >> THEN << >>
        ELSE <<AND, MSGSENDER>> \o EncodeMsgKeyValue(c.sender) \o <<0>>)

PyGetMsgKey(b, key) ==
  LET at == SelectInSeq(b, LAMBDA x : x = key)
      end == SelectInSubSeq(b, at + 1, Len(b), LAMBDA x : x = AND)
  IN  IF at = 0 THEN << >>
      ELSE DecodeMsgKeyValue(SubSeq(b, at + 1, IF end = 0 THEN Len(b) ELSE end - 1))
=============================================================================
