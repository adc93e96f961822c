---------------------------- MODULE MCEventLoop ----------------------------
(* Model-checking instances of EventLoop.  Callers are interchangeable.       *)
EXTENDS EventLoop, TLC

Symmetry == Permutations(Callers) \cup Permutations(Socks)
=============================================================================
