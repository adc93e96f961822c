----------------------------- MODULE MCTcpSock -----------------------------
(* Model-checking instances of TcpSock.  The data are interchangeable.        *)
EXTENDS TcpSock

Symmetry == Permutations(Data)
=============================================================================
