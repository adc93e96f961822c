--------------------------- MODULE ActiveClients ---------------------------
(***************************************************************************)
(* What the relay of the bus server may assume about the table             *)
(* active_clients (src/Core/msgbus_server.cpp:69): whatever registrations, *)
(* closes and errors the pool and the loop threads run, one critical       *)
(* section enters or removes one connection under one name.                *)
(***************************************************************************)
CONSTANTS Names, Conns

VARIABLE active_clients

ACInit == active_clients = [n \in Names |-> {}]

Join(n, c) ==
  active_clients' = [active_clients EXCEPT ![n] = @ \cup {c}]

Leave(n, c) ==
  /\ c \in active_clients[n]
  /\ active_clients' = [active_clients EXCEPT ![n] = @ \ {c}]

ACNext == \E n \in Names, c \in Conns : Join(n, c) \/ Leave(n, c)

ACSpec == ACInit /\ [][ACNext]_active_clients
=============================================================================
