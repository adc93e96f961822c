--------------------------- MODULE ServiceTables ---------------------------
(***************************************************************************)
(* The registry of the bus server (src/Core/msgbus_server.cpp): the three   *)
(* tables under g_activeclients_locker, the requests of the clients, which  *)
(* server_onRead hands one by one to the thread pool, and the end of a      *)
(* connection, which a loop thread or a write thread runs.                  *)
(*                                                                          *)
(* A step is one critical section of g_activeclients_locker or one access   *)
(* outside it.  A request runs on any of the 32 pool threads: the tasks of  *)
(* one connection overtake each other, and run after it has been closed.    *)
(* The busy state of a host is left out: the server stores it and never     *)
(* reads it.                                                                *)
(***************************************************************************)
EXTENDS Integers

CONSTANTS
  Names,        \* service names
  NameRank,     \* the order in which active_clients iterates over its names
  Conns,        \* TcpSock objects the server accepts
  Ips,          \* addresses of client machines
  IpOf,         \* the peer address of a connection
  Ports,        \* ports a client can announce; 0: it serves none
  NamesOf,      \* the names the client of a connection registers under
  Announce,     \* the hosts it puts into them (ip NoIp: "take my address")
  Ops,          \* the kinds of requests the clients make
  Occurs,       \* pairs of names, the first a substring of the second
  NoIp,         \* the empty address
  NoName,       \* the empty name
  NoEntry,      \* what tcp_services_map has for a key that is absent
  NoFd,         \* what GetFD returns once a connection is closed
  MaxRequests   \* bound: requests read from all connections together

VARIABLES
  available_services,  \* name -> hosts that can be asked directly
  active_clients,      \* name -> connections registered under it
  tcp_services_map,    \* fd -> host its connection registered
  sock,                \* per connection: "new", "open", "closed"
  closer,              \* per connection and thread: progress of server_onClose
  held,                \* its locals service_name and host
  pool,                \* requests handed to the thread pool, not yet done
  requests,            \* number of requests read so far
  told,                \* per connection, names under which it was told that it
                       \* is registered and which it has not given up since
  late,                \* history: connections registered after server_onClose
  unlisted,            \* history: services whose client asked to unregister
  answer               \* history: the last answer to a question, per connection

tables == <<available_services, active_clients, tcp_services_map>>
ending == <<sock, closer, held>>
history == <<told, late, unlisted, answer>>
vars == <<tables, ending, pool, requests, history>>

-----------------------------------------------------------------------------
Host == [ip : Ips \cup {NoIp}, port : Ports]

(* What a default-constructed ClientHost is. *)
NoHost == [ip |-> NoIp, port |-> 0]

(* The threads that can run server_onClose for a connection: the loop thread
   (end of file, read error, timeout) and the write thread (write error). *)
Threads == {"loop", "write"}

Request == [id : 1..MaxRequests, conn : Conns, op : Ops,
            name : Names, host : Host, at : {"queued", "checked"}]

(* The answer to a question: the kind of question, the names and the hosts
   that were found. *)
Answer == [op : {"none", "getclient", "query", "alive"},
           names : SUBSET Names, hosts : SUBSET Host]

NoAnswer == [op |-> "none", names |-> {}, hosts |-> {}]

ASSUME ServiceTablesAssumption ==
  /\ NameRank \in [Names -> Nat]
  /\ \A m, n \in Names : NameRank[m] = NameRank[n] => m = n
  /\ NoName \notin Names
  /\ NoIp \notin Ips
  /\ IpOf \in [Conns -> Ips]
  /\ Ports \subseteq Nat /\ 0 \in Ports
  /\ NamesOf \in [Conns -> SUBSET Names]
  /\ Announce \in [Conns -> SUBSET Host]
  /\ Ops \subseteq {"register", "unregister", "getclient", "query", "alive"}
  /\ Occurs \subseteq Names \X Names
  /\ NoFd \notin Conns
  /\ NoEntry \notin Host
  /\ MaxRequests \in Nat

TableType ==
  /\ available_services \in [Names -> SUBSET Host]
  /\ active_clients \in [Names -> SUBSET Conns]
  /\ tcp_services_map \in [Conns \cup {NoFd} -> Host \cup {NoEntry}]

EndingType ==
  /\ sock \in [Conns -> {"new", "open", "closed"}]
  /\ closer \in [Conns -> [Threads -> {"no", "unregister", "close"}]]
  /\ held \in [Conns -> [Threads -> [name : Names \cup {NoName}, host : Host]]]

RequestType ==
  /\ pool \subseteq Request
  /\ requests \in 0..MaxRequests

HistoryType ==
  /\ told \in [Conns -> SUBSET Names]
  /\ late \subseteq Conns
  /\ unlisted \subseteq Names \X Host
  /\ answer \in [Conns -> Answer]

TypeOK == TableType /\ EndingType /\ RequestType /\ HistoryType

Init ==
  /\ available_services = [n \in Names |-> {}]
  /\ active_clients = [n \in Names |-> {}]
  /\ tcp_services_map = [fd \in Conns \cup {NoFd} |-> NoEntry]
  /\ sock = [c \in Conns |-> "new"]
  /\ closer = [c \in Conns |-> [t \in Threads |-> "no"]]
  /\ held = [c \in Conns |-> [t \in Threads |-> [name |-> NoName, host |-> NoHost]]]
  /\ pool = {} /\ requests = 0
  /\ told = [c \in Conns |-> {}]
  /\ late = {} /\ unlisted = {}
  /\ answer = [c \in Conns |-> NoAnswer]

-----------------------------------------------------------------------------
(* Connections.                                                             *)

GetFD(c) == IF sock[c] = "closed" THEN NoFd ELSE c

(* GetDestHost: Close clears the address. *)
DestIp(c) == IF sock[c] = "closed" THEN NoIp ELSE IpOf[c]

(* The host a request is about: an empty ip means the peer's address. *)
ResolveHost(c, h) ==
  IF h.ip = NoIp THEN [ip |-> DestIp(c), port |-> h.port] ELSE h

(* The accept thread hands a new connection to an event loop. *)
Accept(c) ==
  /\ sock[c] = "new"
  /\ sock' = [sock EXCEPT ![c] = "open"]
  /\ UNCHANGED <<tables, closer, held, pool, requests, history>>

(* A client registers its own names and asks about any. *)
NamesIn(c, op) == IF op \in {"register", "unregister"} THEN NamesOf[c] ELSE Names

(* server_onRead: a complete request becomes a task of the pool.  Asking to
   unregister ends what the client was told about that name. *)
OnRead(c) ==
  /\ sock[c] = "open" /\ closer[c]["loop"] = "no"
  /\ requests < MaxRequests
  /\ requests' = requests + 1
  /\ \E op \in Ops : \E n \in NamesIn(c, op), h \in Announce[c] :
       /\ pool' = pool \cup {[id |-> requests + 1, conn |-> c, op |-> op,
                              name |-> n, host |-> h, at |-> "queued"]}
       /\ told' = IF op = "unregister"
                  THEN [told EXCEPT ![c] = @ \ {n}] ELSE told
  /\ UNCHANGED <<tables, ending, late, unlisted, answer>>

-----------------------------------------------------------------------------
(* Requests.                                                                *)

check_register_client(c) == tcp_services_map[GetFD(c)] # NoEntry

(* process_data_from_client lets an unregistered client only register and
   confirm that it is alive.  The test reads tcp_services_map without the lock while others may change it:
   find() on a map that is being rebalanced can miss the key it looks for. *)
CheckRegister(t) ==
  /\ t.at = "queued" /\ t.op \notin {"register", "alive"}
  /\ \/ /\ check_register_client(t.conn)
        /\ pool' = (pool \ {t}) \cup {[t EXCEPT !.at = "checked"]}
     \/ pool' = pool \ {t}
  /\ UNCHANGED <<tables, ending, requests, history>>

(* Mutant: the connection is remembered, its fd is not. *)
EnterWithoutMap(c, n, h) ==
  /\ active_clients' = [active_clients EXCEPT ![n] = @ \cup {c}]
  /\ UNCHANGED tcp_services_map

(* Mutant: the service's container is overwritten. *)
EnterReplacing(c, n, h) ==
  /\ active_clients' = [active_clients EXCEPT ![n] = {c}]
  /\ tcp_services_map' = [tcp_services_map EXCEPT ![GetFD(c)] = h]

(* The connection becomes an active client of the service. *)
EnterClient(c, n, h) ==
  /\ active_clients' = [active_clients EXCEPT ![n] = @ \cup {c}]
  /\ tcp_services_map' = [tcp_services_map EXCEPT ![GetFD(c)] = h]

(* The answer to a registration; SendData drops it on a closed connection. *)
Answered(c, n) ==
  told' = IF sock[c] = "open" THEN [told EXCEPT ![c] = @ \cup {n}] ELSE told

(* Some thread has begun server_onClose for the connection. *)
Closing(c) == \E th \in Threads : closer[c][th] # "no"

MarkLate(c) == late' = IF Closing(c) THEN late \cup {c} ELSE late

(* A host of a service that is listed: its connection is not entered. *)
RegisterUpdate(c, n, h) ==
  /\ h \in available_services[n]
  /\ Answered(c, n)
  /\ UNCHANGED <<tables, late>>

(* Another host of a service that is listed: it is added, port 0 too. *)
RegisterJoin(c, n, h) ==
  /\ available_services[n] # {} /\ h \notin available_services[n]
  /\ available_services' = [available_services EXCEPT ![n] = @ \cup {h}]
  /\ EnterClient(c, n, h) /\ Answered(c, n) /\ MarkLate(c)

(* The first host of a service. *)
RegisterNew(c, n, h) ==
  /\ available_services[n] = {} /\ h.port # 0
  /\ available_services' = [available_services EXCEPT ![n] = {h}]
  /\ EnterClient(c, n, h) /\ Answered(c, n) /\ MarkLate(c)

(* A client that only sends and receives through the server. *)
RegisterPrivate(c, n, h) ==
  /\ available_services[n] = {} /\ h.port = 0
  /\ active_clients[n] = {}
  /\ EnterClient(c, n, h) /\ Answered(c, n) /\ MarkLate(c)
  /\ UNCHANGED available_services

(* "Register without service port can only be registered once." *)
RegisterRefused(c, n, h) ==
  /\ available_services[n] = {} /\ h.port = 0
  /\ active_clients[n] # {}
  /\ UNCHANGED <<tables, told, late>>

ProcessRegister(t) ==
  LET c == t.conn
      n == t.name
      h == ResolveHost(c, t.host)
  IN /\ t.op = "register"
     /\ \/ RegisterUpdate(c, n, h)
        \/ RegisterJoin(c, n, h)
        \/ RegisterNew(c, n, h)
        \/ RegisterPrivate(c, n, h)
        \/ RegisterRefused(c, n, h)
     /\ pool' = pool \ {t}
     /\ UNCHANGED <<ending, requests, unlisted, answer>>

(* Mutant: the last client to leave takes the whole entry with it. *)
EraseService(n, h) ==
  available_services' =
    IF n \in Names THEN [available_services EXCEPT ![n] = {}] ELSE available_services

(* Mutant: the host is not looked for. *)
EraseNothing(n, h) == UNCHANGED available_services

(* unregister_client_from_service, one critical section of its own. *)
UnregisterFromService(n, h) ==
  available_services' =
    IF n \in Names THEN [available_services EXCEPT ![n] = @ \ {h}] ELSE available_services

(* Only the list loses the host: the connection stays an active client. *)
ProcessUnregister(t) ==
  LET h == ResolveHost(t.conn, t.host)
  IN /\ t.op = "unregister" /\ t.at = "checked"
     /\ UnregisterFromService(t.name, h)
     /\ unlisted' = unlisted \cup {<<t.name, h>>}
     /\ pool' = pool \ {t}
     /\ UNCHANGED <<active_clients, tcp_services_map, ending, requests, told, late, answer>>

(* The answer of a question that changes nothing else; SendData drops it on a
   closed connection. *)
Reply(t, names, hosts) ==
  /\ answer' = IF sock[t.conn] = "open"
               THEN [answer EXCEPT ![t.conn] =
                       [op |-> t.op, names |-> names, hosts |-> hosts]]
               ELSE answer
  /\ pool' = pool \ {t}
  /\ UNCHANGED <<tables, ending, requests, told, late, unlisted>>

(* msgbus_select_best_client: a random host of the list. *)
BestHosts(hosts) == IF hosts = {} THEN {{}} ELSE {{h} : h \in hosts}

(* process_getclient_req: one host of a service, ret_code 1 if it has none. *)
ProcessGetClient(t) ==
  /\ t.op = "getclient" /\ t.at = "checked"
  /\ \E best \in BestHosts(available_services[t.name]) : Reply(t, {t.name}, best)

(* onQueryServicesReq: the listed services whose name contains the text; the
   request is named "prefix", the test finds it anywhere in the name. *)
QueryServices(t) ==
  /\ t.op = "query" /\ t.at = "checked"
  /\ Reply(t, {n \in Names : available_services[n] # {} /\ <<t.name, n>> \in Occurs}, {})

(* process_confirm_alive_req, which an unregistered client may send too. *)
ConfirmAlive(t) == t.op = "alive" /\ Reply(t, {}, {})

-----------------------------------------------------------------------------
(* The end of a connection.                                                 *)

(* The services the connection is found under. *)
ServicesOf(c) == {n \in Names : c \in active_clients[n]}

(* tcp_services_map[fd] default-constructs what it does not have. *)
HostOfFD(fd) ==
  IF tcp_services_map[fd] = NoEntry THEN NoHost ELSE tcp_services_map[fd]

(* Mutant: the connection leaves the table, its fd stays known. *)
OnCloseKeepsFD(c, th) ==
  /\ sock[c] = "open" /\ closer[c][th] = "no"
  /\ \/ /\ ServicesOf(c) = {}
        /\ UNCHANGED <<active_clients, held>>
     \/ \E n \in ServicesOf(c) :
          /\ \A m \in ServicesOf(c) : NameRank[n] <= NameRank[m]
          /\ active_clients' = [active_clients EXCEPT ![n] = @ \ {c}]
          /\ held' = [held EXCEPT ![c][th] =
                        [name |-> n, host |-> HostOfFD(GetFD(c))]]
  /\ closer' = [closer EXCEPT ![c][th] = "unregister"]
  /\ UNCHANGED <<available_services, tcp_services_map, sock, pool, requests, history>>

(* server_onClose, first critical section: out of the first service that has
   the connection; its name and host are kept for the second. *)
OnClose(c, th) ==
  /\ sock[c] = "open" /\ closer[c][th] = "no"
  /\ \/ /\ ServicesOf(c) = {}
        /\ UNCHANGED <<active_clients, tcp_services_map, held>>
     \/ \E n \in ServicesOf(c) :
          /\ \A m \in ServicesOf(c) : NameRank[n] <= NameRank[m]
          /\ active_clients' = [active_clients EXCEPT ![n] = @ \ {c}]
          /\ tcp_services_map' = [tcp_services_map EXCEPT ![GetFD(c)] = NoEntry]
          /\ held' = [held EXCEPT ![c][th] =
                        [name |-> n, host |-> HostOfFD(GetFD(c))]]
  /\ closer' = [closer EXCEPT ![c][th] = "unregister"]
  /\ UNCHANGED <<available_services, sock, pool, requests, history>>

(* Second critical section, after the lock was released. *)
OnCloseUnregister(c, th) ==
  /\ closer[c][th] = "unregister"
  /\ UnregisterFromService(held[c][th].name, held[c][th].host)
  /\ closer' = [closer EXCEPT ![c][th] = "close"]
  /\ UNCHANGED <<active_clients, tcp_services_map, sock, held, pool, requests, history>>

(* TcpSock::Close, on the loop thread (a write thread queues it there). *)
Close(c) ==
  /\ sock[c] = "open"
  /\ \E th \in Threads : closer[c][th] = "close"
  /\ closer[c]["loop"] # "unregister"
  /\ sock' = [sock EXCEPT ![c] = "closed"]
  /\ UNCHANGED <<tables, closer, held, pool, requests, history>>

Next ==
  \/ \E c \in Conns : Accept(c) \/ OnRead(c) \/ Close(c)
  \/ \E t \in pool : \/ CheckRegister(t) \/ ProcessRegister(t)
                     \/ ProcessUnregister(t) \/ ProcessGetClient(t)
                     \/ QueryServices(t) \/ ConfirmAlive(t)
  \/ \E c \in Conns, th \in Threads : OnClose(c, th) \/ OnCloseUnregister(c, th)

Spec == Init /\ [][Next]_vars
-----------------------------------------------------------------------------
(* Properties.                                                              *)

(* The two tables about a connection agree while it is open: exactly the     *)
(* connections found under some service pass check_register_client, however  *)
(* registrations, repeated registrations and closes of others interleave.    *)
KnownIffActive ==
  \A c \in Conns :
    sock[c] = "open" /\ ~Closing(c) =>
      (tcp_services_map[c] # NoEntry <=> ServicesOf(c) # {})

(* Closing cleans up: once closed, a connection whose client used one name   *)
(* and of which no registration was processed after server_onClose is in     *)
(* no table, also when a loop thread and a write thread closed it together.  *)
OneName(c) == \A m, n \in NamesOf[c] : m = n

NoTraceLeft ==
  \A c \in Conns :
    sock[c] = "closed" /\ c \notin late /\ OneName(c) =>
      ServicesOf(c) = {} /\ tcp_services_map[c] = NoEntry

(* A host is only listed as long as somebody is responsible for it: an       *)
(* active client that registered it, a close about to take it off the list,  *)
(* or a client that registered after its close or uses several names or      *)
(* hosts (the server remembers one of each when it closes a connection).     *)
OneHost(c) == \A g, h \in Announce[c] : g = h

ListedHasOwner ==
  \A n \in Names : \A h \in available_services[n] : \E c \in Conns :
    \/ c \in active_clients[n] /\ tcp_services_map[c] = h
    \/ \E th \in Threads : /\ closer[c][th] = "unregister"
                           /\ held[c][th] = [name |-> n, host |-> h]
    \/ /\ c \in late \/ ~OneName(c) \/ ~OneHost(c)
       /\ n \in NamesOf[c]
       /\ \E a \in Announce[c] : a.port = h.port

(* Clients do not take each other off the list: a serving connection that    *)
(* did not ask to be unregistered can be found, under each of its names, if  *)
(* it announces one host and no other connection announces the same.         *)
HostsOf(c) == {[ip |-> IF a.ip = NoIp THEN IpOf[c] ELSE a.ip, port |-> a.port] : a \in Announce[c]}

OwnHost(c) == OneHost(c) /\ \A d \in Conns \ {c} : HostsOf(c) \cap HostsOf(d) = {}

OnlyOwnerUnlists ==
  \A c \in Conns : OwnHost(c) => \A n \in ServicesOf(c) :
    /\ sock[c] = "open" /\ ~Closing(c)
    /\ tcp_services_map[c].port # 0
    /\ <<n, tcp_services_map[c]>> \notin unlisted
    => tcp_services_map[c] \in available_services[n]

(* What the relay assumes about active_clients.                              *)
AC == INSTANCE ActiveClients

ActiveRefined == AC!ACSpec

(* NetMsgBusServerConnMgr.hpp:236: a client that got ret_code 0 is           *)
(* registered, and the server serves its requests; here for a client whose   *)
(* host no other connection announces.                                       *)
RegisteredIsKnown ==
  \A c \in Conns :
    OwnHost(c) /\ sock[c] = "open" /\ ~Closing(c) /\ told[c] # {} =>
      tcp_services_map[c] # NoEntry

=============================================================================
