----------------------------- MODULE MCMsgRelay -----------------------------
(* Small instances of MsgRelay: two services, one name a prefix of the other. *)
EXTENDS MsgRelay, TLC

TwoNames == {<<"a">>, <<"a", "b">>}
AllDests == {<< >>, <<"a">>}

=============================================================================
