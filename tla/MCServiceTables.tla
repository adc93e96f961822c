-------------------------- MODULE MCServiceTables --------------------------
(* Small instances of ServiceTables: machines, ports and names of clients. *)
EXTENDS ServiceTables, TLC

CONSTANTS c1, c2, n1, n2, ip1, ip2

MCRank == (n1 :> 1) @@ (n2 :> 2)
OneRank == n1 :> 1

(* No name is part of another. *)
EqualNames == {<<n, n>> : n \in Names}

(* A host announced by its port alone; the server fills in the address. *)
At(p) == [ip |-> NoIp, port |-> p]

(* Two connections of one client, the old one not closed yet. *)
SameIp == (c1 :> ip1) @@ (c2 :> ip1)
SharedName == (c1 :> {n1}) @@ (c2 :> {n1})
SamePort == (c1 :> {At(7)}) @@ (c2 :> {At(7)})

(* A provider with two names, a client without a port on another machine. *)
TwoIps == (c1 :> ip1) @@ (c2 :> ip2)
TwoNames == (c1 :> {n1, n2}) @@ (c2 :> {n1})
ZeroAndPort == (c1 :> {At(7)}) @@ (c2 :> {At(0)})

(* What a client that reconnects asks, and what two that register do. *)
AllOps == {"register", "unregister", "getclient", "query", "alive"}
TableOps == {"register", "unregister"}

(* Sound where the two connections have the same address, names and hosts. *)
Symmetry == Permutations({c1, c2})
=============================================================================
