---------------------------- MODULE MCServerConn ----------------------------
(* Instances of ServerConn.  One thread owns the client: it starts and stops  *)
(* it, as init_netmsgbus_client and destroy_netmsgbus_client do.              *)
EXTENDS ServerConn, TLC

CONSTANTS p1, p2

OwnerAndUser == (p1 :> {"start", "stop", "unregister", "relay", "query"})
             @@ (p2 :> {"register", "update", "getclient", "lookup"})
=============================================================================
