---------------------------- MODULE MCThreadPool ----------------------------
(* Instances of ThreadPool: what the callers may call.  Workers are           *)
(* interchangeable.                                                           *)
EXTENDS ThreadPool, TLC

CONSTANTS c1, c2

Everything == (c1 :> {"work", "named"}) @@ (c2 :> {"alone", "endnamed", "timer", "deltimer"})
=============================================================================
