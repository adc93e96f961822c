--------------------------- MODULE MCLocalMsgBus ---------------------------
(* Small instances of LocalMsgBus.  No symmetry: the run checks liveness.     *)
EXTENDS LocalMsgBus
=============================================================================
