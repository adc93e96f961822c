----------------------------- MODULE MCMsgStream -----------------------------
(* Streams of two messages between C++ and Python ends for TLC. *)
EXTENDS MsgStream

MCStreams == [kind : {"up"}, from : {"cpp", "py"}, to : {"cpp"}]
        \cup [kind : {"down"}, from : {"cpp"}, to : {"cpp", "py"}]
        \cup [kind : {"request", "answer"}, from : {"cpp", "py"}, to : {"cpp", "py"}]

MCMaxFrames == [up |-> 2, down |-> 2, request |-> 3, answer |-> 3]

(* A message id, a parameter with a zero byte and a key in it and one with the
   bytes the Python port encodes; the empty id and parameter identify the sender. *)
MCContents == {[msgid |-> <<65>>, param |-> <<0, MSGPARAM>>, sender |-> <<80>>],
               [msgid |-> <<65>>, param |-> <<37, 50, 54, 38>>, sender |-> << >>],
               [msgid |-> << >>, param |-> << >>, sender |-> <<80>>]}

Short == <<65>>
Long == [k \in 1..(MAX_SERVICE_NAME - 1) |-> 66]

Host1 == [ip |-> 2130706433, port |-> 9000, busy_state |-> 2]
Err(t) == [err_msg_len |-> Len(t) + 1, err_msg |-> Append(t, 0)]    \* errmsg.push_back('\0')
Body(t, id, m) == [body_type |-> t, msg_id |-> id, m |-> m]

Up == {Body(65537, 1, [service_name |-> Short] @@ Host1),
       Body(65538, 0, [service_name |-> Long] @@ Host1),
       Body(65539, 0, [alive_flag |-> 1]),
       Body(65541, 258, [dest_name |-> Long]),
       Body(196609, 3, [pbtype_len |-> 2, pbdata_len |-> 2, pbtype |-> Short,
                        pbdata |-> <<0, 255>>])}
Relayed == {Body(65540, 300, [dest_name |-> Short, from_name |-> Long, msg_len |-> 3,
                              msg_content |-> <<0, 255, 102>>]),
            Body(65540, 4, [dest_name |-> Long, from_name |-> Short, msg_len |-> 0,
                            msg_content |-> << >>])}
Down == {Body(131073, 1, [ret_code |-> 0, service_name |-> Long] @@ Err(<< >>)),
         Body(131075, 0, [ret_code |-> 258]),
         Body(131077, 258, [ret_code |-> 1, dest_name |-> Short] @@ Host1),
         Body(131076, 300, [ret_code |-> 1] @@ Err(<<69, 70>>)),
         Body(196609, 3, [pbtype_len |-> 2, pbdata_len |-> 0, pbtype |-> Short,
                          pbdata |-> << >>])}

Request(lang, c, sid) ==
  LET d == ContentBytes(lang, c)
  IN  [m |-> [is_sync |-> sid % 2, sync_sid |-> sid, data_len |-> Len(d), data |-> d]]
Answer(sid, d) == [m |-> [sync_sid |-> sid, data_len |-> Len(d), data |-> d]]

MCMessages(s) ==
  CASE s.kind = "up"      -> Up \cup Relayed
    [] s.kind = "down"    -> Down \cup Relayed
    [] s.kind = "request" -> {Request(s.from, c, sid) : c \in MCContents, sid \in {0, 257}}
    [] s.kind = "answer"  -> {Answer(1, << >>), Answer(257, <<0, 1, 255>>)}
=============================================================================
