-------------------------- MODULE MCDirectRequests --------------------------
(* Instances of DirectRequests.                                               *)
EXTENDS DirectRequests

Pairs == {<<"post", "post">>, <<"sendip", "send">>}
=============================================================================
