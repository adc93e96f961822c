------------------------ MODULE ServiceTables_proofs ------------------------
(***************************************************************************)
(* Proofs about ServiceTables, for any number of connections, names, hosts  *)
(* and requests: types, agreement of the tables, what a close leaves        *)
(* behind, and the refinement of ActiveClients.                             *)
(***************************************************************************)
EXTENDS ServiceTables, TLAPS

-----------------------------------------------------------------------------
(* Types.                                                                   *)

(* The host a request is about is a host, before and after the close.        *)
LEMMA ResolveHostType ==
  ASSUME NEW c \in Conns, NEW h \in Host
  PROVE  ResolveHost(c, h) \in Host
BY ServiceTablesAssumption DEF ResolveHost, DestIp, Host

LEMMA NoHostType == NoHost \in Host
BY ServiceTablesAssumption DEF NoHost, Host

LEMMA GetFDType ==
  ASSUME NEW c \in Conns
  PROVE  GetFD(c) \in Conns \cup {NoFd}
BY DEF GetFD

LEMMA HostOfFDType ==
  ASSUME TableType, NEW fd \in Conns \cup {NoFd}
  PROVE  HostOfFD(fd) \in Host
BY NoHostType DEF TableType, HostOfFD

(* Entering a client and answering it keep the tables well-typed.            *)
LEMMA EnterType ==
  ASSUME TableType, NEW c \in Conns, NEW n \in Names, NEW h \in Host,
         EnterClient(c, n, h),
         available_services' \in [Names -> SUBSET Host]
  PROVE  TableType'
BY GetFDType DEF TableType, EnterClient

(* Taking a host off the list keeps the tables well-typed.                   *)
LEMMA UnregisterType ==
  ASSUME TableType, NEW n, NEW h, UnregisterFromService(n, h)
  PROVE  available_services' \in [Names -> SUBSET Host]
BY DEF TableType, UnregisterFromService

(* What a request looks like when it runs.                                   *)
LEMMA RequestParts ==
  ASSUME NEW t \in Request
  PROVE  t.conn \in Conns /\ t.name \in Names /\ t.host \in Host
BY DEF Request

(* A registration keeps the tables and the histories well-typed.             *)
LEMMA RegisterType ==
  ASSUME TypeOK, NEW t \in pool, ProcessRegister(t)
  PROVE  TypeOK'
<1> DEFINE c == t.conn
           n == t.name
           h == ResolveHost(c, t.host)
<1>1. c \in Conns /\ n \in Names /\ h \in Host
  BY RequestParts, ResolveHostType DEF TypeOK, RequestType
<1> HIDE DEF h
<1>2. TableType' /\ told' \in [Conns -> SUBSET Names] /\ late' \subseteq Conns
  <2> USE DEF TypeOK, TableType, HistoryType
  <2>1. CASE RegisterUpdate(c, n, h)
    BY <1>1, <2>1 DEF RegisterUpdate, Answered, tables
  <2>2. CASE RegisterJoin(c, n, h)
    <3>1. available_services' \in [Names -> SUBSET Host]
      BY <1>1, <2>2 DEF RegisterJoin
    <3>2. TableType'
      BY <1>1, <2>2, <3>1, EnterType DEF RegisterJoin
    <3> QED BY <1>1, <2>2, <3>2 DEF RegisterJoin, Answered, MarkLate
  <2>3. CASE RegisterNew(c, n, h)
    <3>1. available_services' \in [Names -> SUBSET Host]
      BY <1>1, <2>3 DEF RegisterNew
    <3>2. TableType'
      BY <1>1, <2>3, <3>1, EnterType DEF RegisterNew
    <3> QED BY <1>1, <2>3, <3>2 DEF RegisterNew, Answered, MarkLate
  <2>4. CASE RegisterPrivate(c, n, h)
    <3>1. available_services' \in [Names -> SUBSET Host]
      BY <1>1, <2>4 DEF RegisterPrivate
    <3>2. TableType'
      BY <1>1, <2>4, <3>1, EnterType DEF RegisterPrivate
    <3> QED BY <1>1, <2>4, <3>2 DEF RegisterPrivate, Answered, MarkLate
  <2>5. CASE RegisterRefused(c, n, h)
    BY <2>5 DEF RegisterRefused, tables
  <2> QED BY <2>1, <2>2, <2>3, <2>4, <2>5 DEF ProcessRegister, h
<1>3. EndingType' /\ RequestType'
  BY DEF TypeOK, ProcessRegister, ending, EndingType, RequestType
<1>4. HistoryType'
  BY <1>2 DEF TypeOK, ProcessRegister, HistoryType
<1> QED BY <1>2, <1>3, <1>4 DEF TypeOK

(* A question takes its task out of the pool and changes the answer alone.   *)
LEMMA QuestionStep ==
  ASSUME NEW t \in pool, ProcessGetClient(t) \/ QueryServices(t) \/ ConfirmAlive(t)
  PROVE  /\ pool' = pool \ {t}
         /\ UNCHANGED <<tables, ending, requests, told, late, unlisted>>
BY DEF ProcessGetClient, QueryServices, ConfirmAlive, Reply

(* An answer names services and hosts.                                       *)
LEMMA QuestionType ==
  ASSUME TypeOK, NEW t \in pool, ProcessGetClient(t) \/ QueryServices(t) \/ ConfirmAlive(t)
  PROVE  TypeOK'
<1>1. t.conn \in Conns /\ t.name \in Names
  BY RequestParts DEF TypeOK, RequestType
<1>2. ASSUME NEW op \in {"getclient", "query", "alive"}, NEW names \in SUBSET Names,
             NEW hosts \in SUBSET Host, t.op = op, Reply(t, names, hosts)
      PROVE  answer' \in [Conns -> Answer]
  BY <1>1, <1>2 DEF Reply, TypeOK, HistoryType, Answer
<1>3. answer' \in [Conns -> Answer]
  <2>1. CASE ProcessGetClient(t)
    <3>1. PICK best \in BestHosts(available_services[t.name]) : Reply(t, {t.name}, best)
      BY <2>1 DEF ProcessGetClient
    <3>2. best \in SUBSET Host
      BY <1>1 DEF BestHosts, TypeOK, TableType
    <3> QED BY <1>1, <1>2, <2>1, <3>1, <3>2 DEF ProcessGetClient
  <2>2. CASE QueryServices(t)
    <3> DEFINE found == {n \in Names : available_services[n] # {} /\ <<t.name, n>> \in Occurs}
    <3>1. t.op = "query" /\ Reply(t, found, {})
      BY <2>2 DEF QueryServices
    <3>2. found \in SUBSET Names /\ {} \in SUBSET Host
      OBVIOUS
    <3> HIDE DEF found
    <3> QED BY <1>2, <3>1, <3>2
  <2>3. CASE ConfirmAlive(t)
    BY <1>2, <2>3 DEF ConfirmAlive
  <2> QED BY <2>1, <2>2, <2>3
<1> QED BY <1>3, QuestionStep DEF TypeOK, TableType, EndingType, RequestType, HistoryType,
                                  tables, ending

(* The first half of server_onClose keeps the types.                         *)
LEMMA OnCloseType ==
  ASSUME TypeOK, NEW c \in Conns, NEW th \in Threads, OnClose(c, th)
  PROVE  TypeOK'
<1>1. closer' \in [Conns -> [Threads -> {"no", "unregister", "close"}]]
  BY DEF TypeOK, EndingType, OnClose
<1>2. TableType' /\ held' \in [Conns -> [Threads -> [name : Names \cup {NoName}, host : Host]]]
  <2>1. CASE ServicesOf(c) = {} /\ UNCHANGED <<active_clients, tcp_services_map, held>>
    BY <2>1 DEF OnClose, TypeOK, TableType, EndingType
  <2>2. CASE ServicesOf(c) # {}
    <3>1. PICK n \in ServicesOf(c) :
            /\ active_clients' = [active_clients EXCEPT ![n] = @ \ {c}]
            /\ tcp_services_map' = [tcp_services_map EXCEPT ![GetFD(c)] = NoEntry]
            /\ held' = [held EXCEPT ![c][th] = [name |-> n, host |-> HostOfFD(GetFD(c))]]
      BY <2>2 DEF OnClose
    <3>2. n \in Names
      BY DEF ServicesOf
    <3>3. HostOfFD(GetFD(c)) \in Host
      BY GetFDType, HostOfFDType DEF TypeOK
    <3>4. TableType'
      BY <3>1, GetFDType DEF OnClose, TypeOK, TableType
    <3> QED BY <3>1, <3>2, <3>3, <3>4 DEF TypeOK, EndingType
  <2> QED BY <2>1, <2>2 DEF OnClose
<1> QED BY <1>1, <1>2 DEF OnClose, TypeOK, EndingType, RequestType, HistoryType, history

(* Every variable of the registry keeps its type, whatever the pool threads, *)
(* loop threads and write threads interleave.                                *)
LEMMA TypeStep == TypeOK /\ [Next]_vars => TypeOK'
<1> SUFFICES ASSUME TypeOK, [Next]_vars
             PROVE  TypeOK'
  OBVIOUS
<1> USE ServiceTablesAssumption
<1>1. ASSUME NEW c \in Conns, Accept(c)
      PROVE  TypeOK'
  BY <1>1 DEF Accept, TypeOK, TableType, EndingType, RequestType, HistoryType, tables, history
<1>2. ASSUME NEW c \in Conns, OnRead(c)
      PROVE  TypeOK'
  <2>1. PICK op \in Ops : \E n \in NamesIn(c, op), h \in Announce[c] :
          /\ pool' = pool \cup {[id |-> requests + 1, conn |-> c, op |-> op,
                                 name |-> n, host |-> h, at |-> "queued"]}
          /\ told' = IF op = "unregister" THEN [told EXCEPT ![c] = @ \ {n}] ELSE told
    BY <1>2 DEF OnRead
  <2>6. PICK n \in NamesIn(c, op), h \in Announce[c] :
          /\ pool' = pool \cup {[id |-> requests + 1, conn |-> c, op |-> op,
                                 name |-> n, host |-> h, at |-> "queued"]}
          /\ told' = IF op = "unregister" THEN [told EXCEPT ![c] = @ \ {n}] ELSE told
    BY <2>1
  <2>2. requests + 1 \in 1..MaxRequests /\ requests' \in 0..MaxRequests
    BY <1>2 DEF OnRead, TypeOK, RequestType
  <2>3. n \in Names /\ h \in Host
    BY DEF NamesIn
  <2>4. RequestType'
    BY <2>6, <2>2, <2>3 DEF TypeOK, RequestType, Request
  <2>5. HistoryType'
    BY <1>2, <2>6, <2>3 DEF OnRead, TypeOK, HistoryType
  <2> QED BY <1>2, <2>4, <2>5 DEF OnRead, TypeOK, TableType, EndingType, tables, ending
<1>3. ASSUME NEW c \in Conns, Close(c)
      PROVE  TypeOK'
  BY <1>3 DEF Close, TypeOK, TableType, EndingType, RequestType, HistoryType, tables, history
<1>4. ASSUME NEW t \in pool, CheckRegister(t)
      PROVE  TypeOK'
  <2>1. [t EXCEPT !.at = "checked"] \in Request
    BY DEF TypeOK, RequestType, Request
  <2> QED BY <1>4, <2>1 DEF CheckRegister, TypeOK, TableType, EndingType, RequestType,
                            HistoryType, tables, ending, history
<1>5. ASSUME NEW t \in pool, ProcessRegister(t)
      PROVE  TypeOK'
  BY <1>5, RegisterType
<1>6. ASSUME NEW t \in pool, ProcessUnregister(t)
      PROVE  TypeOK'
  <2>1. t.name \in Names /\ ResolveHost(t.conn, t.host) \in Host
    BY RequestParts, ResolveHostType DEF TypeOK, RequestType
  <2>2. TableType'
    BY <1>6, UnregisterType DEF ProcessUnregister, TypeOK, TableType
  <2>3. HistoryType'
    BY <1>6, <2>1 DEF ProcessUnregister, TypeOK, HistoryType
  <2> QED BY <1>6, <2>2, <2>3 DEF ProcessUnregister, TypeOK, EndingType, RequestType, ending
<1>7. ASSUME NEW c \in Conns, NEW th \in Threads, OnClose(c, th)
      PROVE  TypeOK'
  BY <1>7, OnCloseType
<1>8. ASSUME NEW c \in Conns, NEW th \in Threads, OnCloseUnregister(c, th)
      PROVE  TypeOK'
  <2>1. TableType'
    BY <1>8, UnregisterType DEF OnCloseUnregister, TypeOK, TableType
  <2> QED BY <1>8, <2>1 DEF OnCloseUnregister, TypeOK, EndingType, RequestType, HistoryType, history
<1>9. ASSUME NEW t \in pool, ProcessGetClient(t) \/ QueryServices(t) \/ ConfirmAlive(t)
      PROVE  TypeOK'
  BY <1>9, QuestionType
<1>10. CASE UNCHANGED vars
  BY <1>10 DEF vars, tables, ending, history, TypeOK, TableType, EndingType, RequestType, HistoryType
<1> QED BY <1>1, <1>2, <1>3, <1>4, <1>5, <1>6, <1>7, <1>8, <1>9, <1>10 DEF Next

(* The type invariant of the registry.                                       *)
THEOREM TypeCorrect == Spec => []TypeOK
<1>1. Init => TypeOK
  BY ServiceTablesAssumption, NoHostType
     DEF Init, TypeOK, TableType, EndingType, RequestType, HistoryType, Answer, NoAnswer
<1> QED BY <1>1, TypeStep, PTL DEF Spec
-----------------------------------------------------------------------------
(* Agreement of the tables and clean closes.                                *)

(* A client only registers the names it uses, and is found under no other.   *)
NamesInv ==
  /\ \A t \in pool : t.op \in {"register", "unregister"} => t.name \in NamesOf[t.conn]
  /\ \A c \in Conns : ServicesOf(c) \subseteq NamesOf[c]

(* Close is the last step of a server_onClose.                               *)
ClosedInv == \A c \in Conns : sock[c] = "closed" => Closing(c)

(* Until then the two tables agree ...                                       *)
KnownInv ==
  \A c \in Conns : ~Closing(c) => (tcp_services_map[c] # NoEntry <=> ServicesOf(c) # {})

(* ... and from then on nothing is left, unless a registration comes late.   *)
CleanInv ==
  \A c \in Conns :
    Closing(c) /\ c \notin late /\ OneName(c) =>
      ServicesOf(c) = {} /\ tcp_services_map[c] = NoEntry

TableInv == TypeOK /\ NamesInv /\ ClosedInv /\ KnownInv /\ CleanInv

(* Entering a client under its own fd keeps the tables in agreement.         *)
LEMMA EnterInv ==
  ASSUME TableInv, NEW c \in Conns, NEW n \in NamesOf[c], NEW h \in Host,
         EnterClient(c, n, h), MarkLate(c), pool' \subseteq pool,
         UNCHANGED <<sock, closer>>
  PROVE  NamesInv' /\ ClosedInv' /\ KnownInv' /\ CleanInv'
<1> USE ServiceTablesAssumption
<1>1. /\ n \in Names
      /\ \A d \in Conns : Closing(d)' <=> Closing(d)
      /\ \A d \in Conns : d # c => ServicesOf(d)' = ServicesOf(d)
      /\ ServicesOf(c)' = ServicesOf(c) \cup {n}
  BY DEF EnterClient, ServicesOf, Closing, TableInv, TypeOK, TableType
<1>2. \A d \in Conns : d # c => tcp_services_map'[d] = tcp_services_map[d]
  BY DEF EnterClient, GetFD, TableInv, TypeOK, TableType
<1>3. NamesInv'
  BY <1>1 DEF NamesInv, TableInv
<1>4. ClosedInv'
  BY <1>1 DEF ClosedInv, TableInv
<1>5. ~Closing(c) => tcp_services_map'[c] = h
  BY DEF EnterClient, GetFD, ClosedInv, TableInv, TypeOK, TableType
<1>6. KnownInv'
  BY <1>1, <1>2, <1>5 DEF KnownInv, TableInv
<1>7. CleanInv'
  BY <1>1, <1>2 DEF CleanInv, TableInv, MarkLate
<1> QED BY <1>3, <1>4, <1>6, <1>7

(* A step that leaves the connections' side of the tables alone keeps the    *)
(* invariant.                                                                *)
LEMMA OtherInv ==
  ASSUME TableInv, pool' \subseteq pool,
         UNCHANGED <<active_clients, tcp_services_map, sock, closer, late>>
  PROVE  NamesInv' /\ ClosedInv' /\ KnownInv' /\ CleanInv'
<1>1. \A d \in Conns : (Closing(d)' <=> Closing(d)) /\ ServicesOf(d)' = ServicesOf(d)
  BY DEF ServicesOf, Closing
<1> QED BY <1>1 DEF TableInv, NamesInv, ClosedInv, KnownInv, CleanInv

(* The first half of server_onClose: with one name there is one service to   *)
(* leave, and the fd is forgotten with it.                                   *)
LEMMA OnCloseInv ==
  ASSUME TableInv, NEW c \in Conns, NEW th \in Threads, OnClose(c, th)
  PROVE  NamesInv' /\ ClosedInv' /\ KnownInv' /\ CleanInv'
<1> USE ServiceTablesAssumption
<1>1. /\ Closing(c)'
      /\ \A d \in Conns : d # c => (Closing(d)' <=> Closing(d))
      /\ Closing(c) => Closing(c)'
  BY DEF OnClose, Closing, TableInv, TypeOK, EndingType
<1>2. /\ \A d \in Conns : d # c => /\ ServicesOf(d)' = ServicesOf(d)
                                  /\ tcp_services_map'[d] = tcp_services_map[d]
      /\ ServicesOf(c)' \subseteq ServicesOf(c)
  BY DEF OnClose, ServicesOf, GetFD, TableInv, TypeOK, TableType
<1>3. NamesInv' /\ ClosedInv'
  BY <1>1, <1>2 DEF OnClose, NamesInv, ClosedInv, TableInv
<1>4. KnownInv'
  BY <1>1, <1>2 DEF KnownInv, TableInv
<1>5. ASSUME c \notin late, OneName(c)
      PROVE  ServicesOf(c)' = {} /\ tcp_services_map'[c] = NoEntry
  <2>1. CASE ServicesOf(c) = {}
    <3>1. tcp_services_map[c] = NoEntry
      BY <1>5, <2>1 DEF KnownInv, CleanInv, TableInv
    <3>2. tcp_services_map' = tcp_services_map /\ active_clients' = active_clients
      BY <2>1 DEF OnClose
    <3> QED BY <2>1, <3>1, <3>2 DEF ServicesOf
  <2>2. CASE ServicesOf(c) # {}
    <3>1. PICK n \in ServicesOf(c) :
            /\ active_clients' = [active_clients EXCEPT ![n] = @ \ {c}]
            /\ tcp_services_map' = [tcp_services_map EXCEPT ![GetFD(c)] = NoEntry]
      BY <2>2 DEF OnClose
    <3>2. ServicesOf(c) = {n}
      BY <1>5 DEF OneName, NamesInv, TableInv
    <3>3. ServicesOf(c)' = {}
      BY <3>1, <3>2 DEF ServicesOf, TableInv, TypeOK, TableType
    <3>4. tcp_services_map'[c] = NoEntry
      BY <3>1 DEF OnClose, GetFD, TableInv, TypeOK, TableType
    <3> QED BY <3>3, <3>4
  <2> QED BY <2>1, <2>2
<1>6. CleanInv'
  BY <1>1, <1>2, <1>5 DEF CleanInv, TableInv, OnClose, history
<1> QED BY <1>3, <1>4, <1>6

(* A registration enters the client or leaves the tables alone.              *)
LEMMA RegisterInv ==
  ASSUME TableInv, NEW t \in pool, ProcessRegister(t)
  PROVE  NamesInv' /\ ClosedInv' /\ KnownInv' /\ CleanInv'
<1> DEFINE c == t.conn
           n == t.name
           h == ResolveHost(c, t.host)
<1>1. c \in Conns /\ n \in NamesOf[c] /\ h \in Host
  BY RequestParts, ResolveHostType DEF ProcessRegister, TableInv, NamesInv, TypeOK, RequestType
<1>2. pool' \subseteq pool /\ UNCHANGED <<sock, closer>>
  BY DEF ProcessRegister, ending
<1> HIDE DEF h
<1>3. \/ EnterClient(c, n, h) /\ MarkLate(c)
      \/ UNCHANGED <<active_clients, tcp_services_map, late>>
  BY DEF ProcessRegister, RegisterUpdate, RegisterJoin, RegisterNew, RegisterPrivate,
         RegisterRefused, tables, h
<1>4. CASE EnterClient(c, n, h) /\ MarkLate(c)
  BY <1>1, <1>2, <1>4, EnterInv
<1>5. CASE UNCHANGED <<active_clients, tcp_services_map, late>>
  BY <1>2, <1>5, OtherInv
<1> QED BY <1>3, <1>4, <1>5

LEMMA TableStep == TableInv /\ [Next]_vars => TableInv'
<1> SUFFICES ASSUME TableInv, [Next]_vars
             PROVE  NamesInv' /\ ClosedInv' /\ KnownInv' /\ CleanInv'
  BY TypeStep DEF TableInv
<1>1. ASSUME NEW c \in Conns, Accept(c) \/ Close(c)
      PROVE  NamesInv' /\ ClosedInv' /\ KnownInv' /\ CleanInv'
  <2>1. \A d \in Conns : (Closing(d)' <=> Closing(d)) /\ ServicesOf(d)' = ServicesOf(d)
    BY <1>1 DEF Accept, Close, Closing, ServicesOf, tables
  <2>2. \A d \in Conns : sock'[d] = "closed" => sock[d] = "closed" \/ Closing(d)
    BY <1>1 DEF Accept, Close, Closing, TableInv, TypeOK, EndingType
  <2>3. ClosedInv'
    BY <2>1, <2>2 DEF ClosedInv, TableInv
  <2> QED BY <1>1, <2>1, <2>3 DEF Accept, Close, NamesInv, KnownInv, CleanInv, TableInv,
                                  tables, history
<1>2. ASSUME NEW c \in Conns, OnRead(c)
      PROVE  NamesInv' /\ ClosedInv' /\ KnownInv' /\ CleanInv'
  <2>1. \A d \in Conns : (Closing(d)' <=> Closing(d)) /\ ServicesOf(d)' = ServicesOf(d)
    BY <1>2 DEF OnRead, Closing, ServicesOf, tables, ending
  <2>2. \A t \in pool' : t \in pool \/ (t.conn = c /\ t.name \in NamesIn(c, t.op))
    BY <1>2 DEF OnRead
  <2>3. NamesInv'
    BY <2>1, <2>2 DEF NamesInv, NamesIn, TableInv
  <2> QED BY <1>2, <2>1, <2>3 DEF OnRead, ClosedInv, KnownInv, CleanInv, TableInv,
                                  tables, ending
<1>3. ASSUME NEW t \in pool, CheckRegister(t)
      PROVE  NamesInv' /\ ClosedInv' /\ KnownInv' /\ CleanInv'
  <2>1. \A d \in Conns : (Closing(d)' <=> Closing(d)) /\ ServicesOf(d)' = ServicesOf(d)
    BY <1>3 DEF CheckRegister, Closing, ServicesOf, tables, ending
  <2>2. \A u \in pool' : u \in pool \/ (u.conn = t.conn /\ u.name = t.name /\ u.op = t.op)
    BY <1>3 DEF CheckRegister, TableInv, TypeOK, RequestType, Request
  <2>3. NamesInv'
    BY <2>1, <2>2 DEF NamesInv, TableInv
  <2> QED BY <1>3, <2>1, <2>3 DEF CheckRegister, ClosedInv, KnownInv, CleanInv, TableInv,
                                  tables, ending, history
<1>4. ASSUME NEW t \in pool, ProcessRegister(t)
      PROVE  NamesInv' /\ ClosedInv' /\ KnownInv' /\ CleanInv'
  BY <1>4, RegisterInv
<1>5. ASSUME NEW t \in pool, ProcessUnregister(t)
      PROVE  NamesInv' /\ ClosedInv' /\ KnownInv' /\ CleanInv'
  BY <1>5, OtherInv DEF ProcessUnregister, tables, ending
<1>6. ASSUME NEW c \in Conns, NEW th \in Threads, OnClose(c, th)
      PROVE  NamesInv' /\ ClosedInv' /\ KnownInv' /\ CleanInv'
  BY <1>6, OnCloseInv
<1>7. ASSUME NEW c \in Conns, NEW th \in Threads, OnCloseUnregister(c, th)
      PROVE  NamesInv' /\ ClosedInv' /\ KnownInv' /\ CleanInv'
  <2>1. \A d \in Conns : (Closing(d)' <=> Closing(d)) /\ ServicesOf(d)' = ServicesOf(d)
    BY <1>7 DEF OnCloseUnregister, Closing, ServicesOf, TableInv, TypeOK, EndingType
  <2> QED BY <1>7, <2>1 DEF OnCloseUnregister, NamesInv, ClosedInv, KnownInv, CleanInv,
                            TableInv, history
<1>8. ASSUME NEW t \in pool, ProcessGetClient(t) \/ QueryServices(t) \/ ConfirmAlive(t)
      PROVE  NamesInv' /\ ClosedInv' /\ KnownInv' /\ CleanInv'
  BY <1>8, QuestionStep, OtherInv DEF tables, ending
<1>9. CASE UNCHANGED vars
  BY <1>9, OtherInv DEF vars, tables, ending, history
<1> QED BY <1>1, <1>2, <1>3, <1>4, <1>5, <1>6, <1>7, <1>8, <1>9 DEF Next

LEMMA TableInvCorrect == Spec => []TableInv
<1>1. Init => TypeOK
  BY ServiceTablesAssumption, NoHostType
     DEF Init, TypeOK, TableType, EndingType, RequestType, HistoryType, Answer, NoAnswer
<1>2. Init => NamesInv /\ ClosedInv /\ KnownInv /\ CleanInv
  BY DEF Init, NamesInv, ClosedInv, KnownInv, CleanInv, ServicesOf, Closing
<1>3. Init => TableInv
  BY <1>1, <1>2 DEF TableInv
<1> QED BY <1>3, TableStep, PTL DEF Spec

(* check_register_client knows exactly the connections that are active       *)
(* under some service, until their close begins.                             *)
THEOREM KnownIffActiveCorrect == Spec => []KnownIffActive
<1>1. TableInv => KnownIffActive
  BY DEF TableInv, KnownInv, KnownIffActive
<1> QED BY <1>1, TableInvCorrect, PTL

(* Once closed, a connection with one name and no late registration is in    *)
(* no table: for any number of threads' interleavings and of connections.    *)
THEOREM NoTraceLeftCorrect == Spec => []NoTraceLeft
<1>1. TableInv => NoTraceLeft
  BY DEF TableInv, ClosedInv, CleanInv, NoTraceLeft
<1> QED BY <1>1, TableInvCorrect, PTL

-----------------------------------------------------------------------------
(* Who is responsible for a listed host.                                    *)

(* The hosts that registrations and closes carry are the client's own; only  *)
(* a registration after the close can have lost the address.                 *)
PoolHosts == \A t \in pool : t.host \in Announce[t.conn]

MapHosts ==
  \A c \in Conns : tcp_services_map[c] # NoEntry => tcp_services_map[c] \in HostsOf(c)

HeldHosts ==
  \A c \in Conns, th \in Threads :
    held[c][th].host.ip # NoIp => held[c][th].host \in HostsOf(c)

(* A listed host with an address belongs to a client the server still knows, *)
(* or whose close has begun.                                                 *)
ListedKnown ==
  \A n \in Names : \A h \in available_services[n] : h.ip # NoIp =>
    \E d \in Conns : /\ h \in HostsOf(d)
                     /\ ~Closing(d) => tcp_services_map[d] # NoEntry

(* RegisteredIsKnown, before the connection is accepted too.                 *)
ToldKnown ==
  \A c \in Conns :
    OwnHost(c) /\ ~Closing(c) /\ told[c] # {} => tcp_services_map[c] # NoEntry

(* OnlyOwnerUnlists, before the connection is accepted too.                  *)
OwnListed ==
  \A c \in Conns : OwnHost(c) => \A n \in ServicesOf(c) :
    /\ ~Closing(c)
    /\ tcp_services_map[c].port # 0
    /\ <<n, tcp_services_map[c]>> \notin unlisted
    => tcp_services_map[c] \in available_services[n]

OwnInv ==
  /\ TableInv
  /\ PoolHosts /\ MapHosts /\ HeldHosts
  /\ ListedKnown /\ ToldKnown /\ OwnListed /\ ListedHasOwner

OwnParts ==
  PoolHosts /\ MapHosts /\ HeldHosts /\ ListedKnown /\ ToldKnown /\ OwnListed /\ ListedHasOwner

(* What a client's host becomes: its own, unless the address is gone.        *)
LEMMA ResolveOwn ==
  ASSUME NEW c \in Conns, NEW a \in Announce[c]
  PROVE  /\ ResolveHost(c, a).port = a.port
         /\ sock[c] # "closed" \/ ResolveHost(c, a).ip # NoIp =>
              ResolveHost(c, a) \in HostsOf(c)
<1>1. a \in Host /\ IpOf[c] \in Ips
  BY ServiceTablesAssumption
<1>2. CASE a.ip = NoIp
  BY <1>1, <1>2 DEF ResolveHost, DestIp, HostsOf, Host
<1>3. CASE a.ip # NoIp
  <2>1. a = [ip |-> a.ip, port |-> a.port]
    BY <1>1 DEF Host
  <2>2. a \in HostsOf(c)
    BY <1>3, <2>1 DEF HostsOf
  <2> QED BY <1>3, <2>2 DEF ResolveHost
<1> QED BY <1>2, <1>3

(* An own host is a host, has an address and a port the client announced.    *)
LEMMA HostsOfParts ==
  ASSUME NEW c \in Conns, NEW h \in HostsOf(c)
  PROVE  /\ h \in Host /\ h.ip # NoIp
         /\ \E a \in Announce[c] : a.port = h.port
         /\ OneHost(c) => HostsOf(c) = {h}
<1>1. PICK a \in Announce[c] :
        h = [ip |-> IF a.ip = NoIp THEN IpOf[c] ELSE a.ip, port |-> a.port]
  BY DEF HostsOf
<1>2. a \in Host /\ IpOf[c] \in Ips
  BY ServiceTablesAssumption
<1>3. h \in Host /\ h.ip # NoIp /\ a.port = h.port
  BY <1>1, <1>2, ServiceTablesAssumption DEF Host
<1>4. OneHost(c) => HostsOf(c) = {h}
  BY <1>1 DEF OneHost, HostsOf
<1> QED BY <1>3, <1>4

(* The list of a service after a host has joined it.                         *)
Lists(n, h) == available_services' = [available_services EXCEPT ![n] = @ \cup {h}]

(* A client that enters is known under a host of its own.                    *)
LEMMA EnterOwn ==
  ASSUME OwnInv, NEW c \in Conns, NEW n \in NamesOf[c], NEW a \in Announce[c],
         EnterClient(c, n, ResolveHost(c, a)), Answered(c, n), MarkLate(c),
         \/ Lists(n, ResolveHost(c, a))
         \/ available_services' = available_services /\ a.port = 0,
         pool' \subseteq pool, UNCHANGED <<ending, unlisted>>
  PROVE  OwnParts'
<1> DEFINE h == ResolveHost(c, a)
<1> USE ServiceTablesAssumption
<1>1. n \in Names /\ h \in Host /\ a \in Host
  BY ResolveHostType
<1>2. h.port = a.port /\ (sock[c] # "closed" \/ h.ip # NoIp => h \in HostsOf(c))
  BY ResolveOwn
<1>3. TableType /\ EndingType /\ HistoryType
  BY DEF OwnInv, TableInv, TypeOK
<1> HIDE DEF h
<1>4. /\ \A d \in Conns : Closing(d)' <=> Closing(d)
      /\ \A d \in Conns : d # c => ServicesOf(d)' = ServicesOf(d)
      /\ ServicesOf(c)' = ServicesOf(c) \cup {n}
      /\ ServicesOf(c)' \subseteq NamesOf[c]
  BY <1>1, <1>3 DEF EnterClient, ServicesOf, Closing, ending, TableType, OwnInv, TableInv, NamesInv
<1>5. \A d \in Conns : d # c => tcp_services_map'[d] = tcp_services_map[d]
  BY <1>3 DEF EnterClient, GetFD, TableType
<1>6. /\ sock[c] # "closed" => tcp_services_map'[c] = h
      /\ sock[c] = "closed" => tcp_services_map'[c] = tcp_services_map[c]
  BY <1>3 DEF EnterClient, GetFD, TableType, h
<1>7. /\ sock[c] = "closed" => Closing(c)
      /\ Closing(c) => c \in late'
      /\ late \subseteq late'
  BY DEF OwnInv, TableInv, ClosedInv, MarkLate
<1>8. \A m \in Names : \A g \in available_services'[m] :
        g \in available_services[m] \/ (m = n /\ g = h)
  BY <1>1, <1>3 DEF Lists, TableType, h
<1>9. h # NoEntry
  BY <1>1
<1>10. PoolHosts'
  BY DEF PoolHosts, OwnInv
<1>11. MapHosts'
  BY <1>2, <1>5, <1>6 DEF MapHosts, HostsOf, OwnInv
<1>12. HeldHosts'
  BY DEF HeldHosts, HostsOf, OwnInv, ending
<1>13. ListedKnown'
  <2> SUFFICES ASSUME NEW m \in Names, NEW g \in available_services'[m], g.ip # NoIp
               PROVE  \E d \in Conns : /\ g \in HostsOf(d)
                                       /\ ~Closing(d)' => tcp_services_map'[d] # NoEntry
    BY DEF ListedKnown, HostsOf
  <2>1. CASE g \in available_services[m]
    <3>1. PICK d \in Conns : g \in HostsOf(d) /\ (~Closing(d) => tcp_services_map[d] # NoEntry)
      BY <2>1 DEF ListedKnown, OwnInv
    <3> QED BY <1>4, <1>5, <1>6, <1>7, <1>9, <3>1
  <2>2. CASE g = h
    BY <1>2, <1>4, <1>6, <1>7, <1>9, <2>2
  <2> QED BY <1>8, <2>1, <2>2
<1>14. ToldKnown'
  BY <1>3, <1>4, <1>5, <1>6, <1>7, <1>9
     DEF ToldKnown, OwnInv, Answered, HistoryType, OwnHost, HostsOf, OneHost
<1>15. OwnListed'
  <2> SUFFICES ASSUME NEW d \in Conns, OwnHost(d), NEW m \in ServicesOf(d)', ~Closing(d)',
                      tcp_services_map'[d].port # 0,
                      <<m, tcp_services_map'[d]>> \notin unlisted
               PROVE  tcp_services_map'[d] \in available_services'[m]
    BY DEF OwnListed, OwnHost, HostsOf, OneHost
  <2>1. m \in Names
    BY DEF ServicesOf
  <2>2. available_services[m] \subseteq available_services'[m]
    BY <1>1, <1>3, <2>1 DEF Lists, TableType
  <2>3. CASE d # c
    BY <1>4, <1>5, <2>2, <2>3 DEF OwnListed, OwnInv
  <2>4. CASE d = c
    <3>1. sock[c] # "closed" /\ tcp_services_map'[c] = h /\ h \in HostsOf(c)
      BY <1>2, <1>4, <1>6, <1>7, <2>4
    <3>2. CASE m = n
      BY <1>1, <1>2, <1>3, <2>4, <3>1, <3>2 DEF Lists, TableType, h
    <3>3. CASE m \in ServicesOf(c)
      <4>1. tcp_services_map[c] # NoEntry
        BY <1>4, <2>4, <3>3 DEF OwnInv, TableInv, KnownInv
      <4>2. tcp_services_map[c] = h
        BY <3>1, <4>1, <2>4, HostsOfParts DEF MapHosts, OwnInv, OwnHost
      <4> QED BY <1>4, <2>2, <2>4, <3>1, <3>3, <4>2 DEF OwnListed, OwnInv
    <3> QED BY <1>4, <2>4, <3>2, <3>3
  <2> QED BY <2>3, <2>4
<1>16. ListedHasOwner'
  <2> SUFFICES ASSUME NEW m \in Names, NEW g \in available_services'[m]
               PROVE  \E d \in Conns :
                        \/ d \in active_clients'[m] /\ tcp_services_map'[d] = g
                        \/ \E th \in Threads : /\ closer[d][th] = "unregister"
                                               /\ held[d][th] = [name |-> m, host |-> g]
                        \/ /\ d \in late' \/ ~OneName(d) \/ ~OneHost(d)
                           /\ m \in NamesOf[d]
                           /\ \E b \in Announce[d] : b.port = g.port
    BY DEF ListedHasOwner, ending, OneName, OneHost
  <2>0. \A k \in Names : active_clients[k] \subseteq active_clients'[k]
    BY <1>1, <1>3 DEF EnterClient, TableType
  <2>1. CASE m = n /\ g = h
    <3>1. c \in active_clients'[n]
      BY <1>1, <1>3 DEF EnterClient, TableType
    <3> QED BY <1>2, <1>6, <1>7, <2>1, <3>1
  <2>2. CASE g \in available_services[m]
    <3>1. PICK d \in Conns :
            \/ d \in active_clients[m] /\ tcp_services_map[d] = g
            \/ \E th \in Threads : /\ closer[d][th] = "unregister"
                                   /\ held[d][th] = [name |-> m, host |-> g]
            \/ /\ d \in late \/ ~OneName(d) \/ ~OneHost(d)
               /\ m \in NamesOf[d]
               /\ \E b \in Announce[d] : b.port = g.port
      BY <2>2 DEF ListedHasOwner, OwnInv
    <3>2. CASE d = c /\ d \in active_clients[m] /\ tcp_services_map[d] = g
      <4>1. g \in HostsOf(c)
        BY <1>3, <2>2, <3>2 DEF MapHosts, OwnInv, TableType
      <4>2. m \in NamesOf[c] /\ \E b \in Announce[c] : b.port = g.port
        BY <3>2, <4>1, HostsOfParts DEF ServicesOf, OwnInv, TableInv, NamesInv
      <4>3. CASE OneHost(c) /\ sock[c] # "closed"
        <5>1. h = g
          BY <1>2, <4>1, <4>3, HostsOfParts
        <5> QED BY <1>6, <2>0, <3>2, <4>3, <5>1
      <4> QED BY <1>6, <1>7, <3>2, <4>2, <4>3
    <3> QED BY <1>5, <1>7, <2>0, <3>1, <3>2
  <2> QED BY <1>8, <2>1, <2>2
<1> QED BY <1>10, <1>11, <1>12, <1>13, <1>14, <1>15, <1>16 DEF OwnParts

(* A step that may only take hosts off the list, and forgets no client.      *)
LEMMA OtherOwn ==
  ASSUME OwnInv, \A t \in pool' : t.host \in Announce[t.conn],
         UNCHANGED <<active_clients, tcp_services_map, closer, held, late>>,
         available_services' \in [Names -> SUBSET Host],
         \A n \in Names : available_services'[n] \subseteq available_services[n],
         \A c \in Conns : told'[c] \subseteq told[c] \/ tcp_services_map[c] # NoEntry \/ ~OwnHost(c) \/ Closing(c),
         unlisted \subseteq unlisted',
         \A n \in Names : \A h \in available_services[n] :
           h \notin available_services'[n] => <<n, h>> \in unlisted'
  PROVE  OwnParts'
<1>1. \A d \in Conns : /\ Closing(d)' <=> Closing(d)
                       /\ ServicesOf(d)' = ServicesOf(d)
                       /\ OwnHost(d)' <=> OwnHost(d)
                       /\ HostsOf(d)' = HostsOf(d)
  BY DEF ServicesOf, Closing, OwnHost, HostsOf, OneHost
<1>2. PoolHosts' /\ MapHosts' /\ HeldHosts'
  BY <1>1 DEF PoolHosts, MapHosts, HeldHosts, OwnInv
<1>3. ListedKnown'
  BY <1>1 DEF ListedKnown, OwnInv
<1>4. ToldKnown'
  BY <1>1 DEF ToldKnown, OwnInv
<1>5. OwnListed'
  BY <1>1 DEF OwnListed, OwnInv, ServicesOf
<1>6. ListedHasOwner'
  BY DEF ListedHasOwner, OwnInv, OneName, OneHost
<1> QED BY <1>2, <1>3, <1>4, <1>5, <1>6 DEF OwnParts

(* A registration: the client enters, or was told what it already was.       *)
LEMMA RegisterOwn ==
  ASSUME OwnInv, NEW t \in pool, ProcessRegister(t)
  PROVE  OwnParts'
<1> DEFINE c == t.conn
           n == t.name
           h == ResolveHost(c, t.host)
<1>1. c \in Conns /\ n \in NamesOf[c] /\ n \in Names /\ t.host \in Announce[c]
  BY RequestParts DEF ProcessRegister, OwnInv, TableInv, NamesInv, PoolHosts, TypeOK, RequestType
<1>2. pool' \subseteq pool /\ UNCHANGED <<ending, unlisted>>
  BY DEF ProcessRegister
<1>3. TableType /\ HistoryType
  BY DEF OwnInv, TableInv, TypeOK
<1>4. h.port = t.host.port
  BY <1>1, ResolveOwn
<1>5. CASE RegisterJoin(c, n, h)
  <2>1. Lists(n, h)
    BY <1>5 DEF RegisterJoin, Lists
  <2> QED BY <1>1, <1>2, <1>5, <2>1, EnterOwn DEF RegisterJoin
<1>6. CASE RegisterNew(c, n, h)
  <2>1. Lists(n, h)
    BY <1>1, <1>3, <1>6 DEF RegisterNew, Lists, TableType
  <2> QED BY <1>1, <1>2, <1>6, <2>1, EnterOwn DEF RegisterNew
<1>7. CASE RegisterPrivate(c, n, h)
  BY <1>1, <1>2, <1>4, <1>7, EnterOwn DEF RegisterPrivate
<1>8. CASE RegisterUpdate(c, n, h)
  <2>1. sock[c] = "open" /\ OwnHost(c) /\ ~Closing(c) => tcp_services_map[c] # NoEntry
    <3> SUFFICES ASSUME sock[c] = "open", OwnHost(c), ~Closing(c)
                 PROVE  tcp_services_map[c] # NoEntry
      OBVIOUS
    <3>1. h \in HostsOf(c)
      BY <1>1, ResolveOwn
    <3>2. PICK d \in Conns : h \in HostsOf(d) /\ (~Closing(d) => tcp_services_map[d] # NoEntry)
      BY <1>1, <1>8, <3>1, HostsOfParts DEF RegisterUpdate, ListedKnown, OwnInv
    <3>3. d = c
      BY <1>1, <3>1, <3>2 DEF OwnHost
    <3> QED BY <3>2, <3>3
  <2>2. \A d \in Conns : told'[d] \subseteq told[d] \/ (d = c /\ sock[c] = "open")
    BY <1>1, <1>3, <1>8 DEF RegisterUpdate, Answered, HistoryType
  <2>3. \A u \in pool' : u.host \in Announce[u.conn]
    BY <1>2 DEF OwnInv, PoolHosts
  <2>4. UNCHANGED <<active_clients, tcp_services_map, closer, held, late, available_services, unlisted>>
    BY <1>2, <1>8 DEF RegisterUpdate, tables, ending
  <2>5. available_services' \in [Names -> SUBSET Host]
    BY <1>3, <2>4 DEF TableType
  <2> HIDE DEF c
  <2>6. \A d \in Conns : told'[d] \subseteq told[d] \/ tcp_services_map[d] # NoEntry
                           \/ ~OwnHost(d) \/ Closing(d)
    BY <2>1, <2>2
  <2> QED BY <2>3, <2>4, <2>5, <2>6, OtherOwn
<1>9. CASE RegisterRefused(c, n, h)
  <2>1. UNCHANGED <<active_clients, tcp_services_map, closer, held, late, available_services, told, unlisted>>
    BY <1>2, <1>9 DEF RegisterRefused, tables, ending
  <2>2. available_services' \in [Names -> SUBSET Host]
    BY <1>3, <2>1 DEF TableType
  <2>3. \A u \in pool' : u.host \in Announce[u.conn]
    BY <1>2 DEF OwnInv, PoolHosts
  <2> QED BY <2>1, <2>2, <2>3, OtherOwn
<1> HIDE DEF c, n, h
<1> QED BY <1>5, <1>6, <1>7, <1>8, <1>9 DEF ProcessRegister, c, n, h

(* The first half of server_onClose hands what it owned to the second half.  *)
LEMMA OnCloseOwn ==
  ASSUME OwnInv, NEW c \in Conns, NEW th \in Threads, OnClose(c, th)
  PROVE  OwnParts'
<1> USE ServiceTablesAssumption
<1>1. TableType /\ EndingType
  BY DEF OwnInv, TableInv, TypeOK
<1>2. /\ Closing(c)'
      /\ \A d \in Conns : d # c => (Closing(d)' <=> Closing(d))
  BY <1>1 DEF OnClose, Closing, EndingType
<1>3. /\ \A d \in Conns : d # c => tcp_services_map'[d] = tcp_services_map[d]
      /\ \A d \in Conns : d # c => ServicesOf(d)' = ServicesOf(d)
      /\ tcp_services_map'[c] = NoEntry \/ tcp_services_map'[c] = tcp_services_map[c]
      /\ UNCHANGED <<available_services, pool, told, late, unlisted>>
  BY <1>1 DEF OnClose, GetFD, TableType, ServicesOf, history
<1>4. /\ \A d \in Conns, s \in Threads : <<d, s>> # <<c, th>> =>
           held'[d][s] = held[d][s] /\ closer'[d][s] = closer[d][s]
      /\ closer'[c][th] = "unregister" /\ closer[c][th] = "no"
  BY <1>1 DEF OnClose, EndingType
<1>5. GetFD(c) = c
  BY DEF OnClose, GetFD
<1>6. \A n \in ServicesOf(c) :
        \/ n \in ServicesOf(c)' /\ \E m \in ServicesOf(c) : m # n
        \/ held'[c][th] = [name |-> n, host |-> HostOfFD(c)]
  <2> SUFFICES ASSUME NEW n \in ServicesOf(c)
               PROVE  \/ n \in ServicesOf(c)' /\ \E m \in ServicesOf(c) : m # n
                      \/ held'[c][th] = [name |-> n, host |-> HostOfFD(c)]
    OBVIOUS
  <2>1. PICK m \in ServicesOf(c) :
          /\ active_clients' = [active_clients EXCEPT ![m] = @ \ {c}]
          /\ held' = [held EXCEPT ![c][th] = [name |-> m, host |-> HostOfFD(c)]]
    BY <1>5 DEF OnClose
  <2>2. m = n => held'[c][th] = [name |-> n, host |-> HostOfFD(c)]
    BY <1>1, <2>1 DEF EndingType
  <2>3. m # n => n \in ServicesOf(c)'
    BY <1>1, <2>1 DEF ServicesOf, TableType
  <2> QED BY <2>2, <2>3
<1>7. held'[c][th] = held[c][th] \/ held'[c][th].host = HostOfFD(c)
  BY <1>1, <1>5 DEF OnClose, EndingType
<1>8. HostOfFD(c).ip # NoIp => HostOfFD(c) = tcp_services_map[c] /\ tcp_services_map[c] # NoEntry
  BY DEF HostOfFD, NoHost
<1>9. PoolHosts'
  BY <1>3 DEF PoolHosts, OwnInv
<1>10. MapHosts'
  BY <1>3 DEF MapHosts, HostsOf, OwnInv
<1>11. HeldHosts'
  <2> SUFFICES ASSUME NEW d \in Conns, NEW s \in Threads, held'[d][s].host.ip # NoIp
               PROVE  held'[d][s].host \in HostsOf(d)
    BY DEF HeldHosts, HostsOf
  <2>1. CASE held'[d][s] = held[d][s]
    BY <2>1 DEF HeldHosts, OwnInv
  <2>2. CASE d = c /\ s = th /\ held'[d][s].host = HostOfFD(c)
    BY <1>8, <2>2 DEF MapHosts, OwnInv
  <2> QED BY <1>4, <1>7, <2>1, <2>2
<1>12. ListedKnown'
  BY <1>2, <1>3 DEF ListedKnown, HostsOf, OwnInv
<1>13. ToldKnown'
  BY <1>2, <1>3 DEF ToldKnown, OwnHost, HostsOf, OneHost, OwnInv
<1>14. OwnListed'
  BY <1>2, <1>3 DEF OwnListed, OwnHost, HostsOf, OneHost, OwnInv
<1>15. ListedHasOwner'
  <2> SUFFICES ASSUME NEW m \in Names, NEW g \in available_services[m]
               PROVE  \E d \in Conns :
                        \/ d \in active_clients'[m] /\ tcp_services_map'[d] = g
                        \/ \E s \in Threads : /\ closer'[d][s] = "unregister"
                                              /\ held'[d][s] = [name |-> m, host |-> g]
                        \/ /\ d \in late \/ ~OneName(d) \/ ~OneHost(d)
                           /\ m \in NamesOf[d]
                           /\ \E b \in Announce[d] : b.port = g.port
    BY <1>3 DEF ListedHasOwner, OneName, OneHost
  <2>1. PICK d \in Conns :
          \/ d \in active_clients[m] /\ tcp_services_map[d] = g
          \/ \E s \in Threads : /\ closer[d][s] = "unregister"
                                /\ held[d][s] = [name |-> m, host |-> g]
          \/ /\ d \in late \/ ~OneName(d) \/ ~OneHost(d)
             /\ m \in NamesOf[d]
             /\ \E b \in Announce[d] : b.port = g.port
    BY DEF ListedHasOwner, OwnInv
  <2>2. CASE d \in active_clients[m] /\ tcp_services_map[d] = g
    <3>1. CASE d # c
      <4>1. m \in ServicesOf(d) /\ ServicesOf(d)' = ServicesOf(d)
        BY <1>3, <2>2, <3>1 DEF ServicesOf
      <4> QED BY <1>3, <2>2, <3>1, <4>1 DEF ServicesOf
    <3>2. CASE d = c
      <4>1. m \in ServicesOf(c) /\ g # NoEntry /\ HostOfFD(c) = g
        BY <1>1, <2>2, <3>2 DEF ServicesOf, TableType, HostOfFD
      <4>2. g \in HostsOf(c)
        BY <2>2, <3>2, <4>1 DEF MapHosts, OwnInv
      <4>3. CASE held'[c][th] = [name |-> m, host |-> g]
        BY <1>4, <4>3
      <4>4. CASE \E k \in ServicesOf(c) : k # m
        <5>1. ~OneName(c) /\ m \in NamesOf[c]
          BY <4>1, <4>4 DEF OneName, OwnInv, TableInv, NamesInv
        <5> QED BY <4>2, <5>1, HostsOfParts
      <4> QED BY <1>6, <4>1, <4>3, <4>4
    <3> QED BY <3>1, <3>2
  <2>3. CASE \E s \in Threads : /\ closer[d][s] = "unregister"
                                /\ held[d][s] = [name |-> m, host |-> g]
    BY <1>4, <2>3
  <2> QED BY <2>1, <2>2, <2>3
<1> QED BY <1>9, <1>10, <1>11, <1>12, <1>13, <1>14, <1>15 DEF OwnParts

(* The second half takes the host off the list: only its own client's.       *)
LEMMA OnCloseUnregisterOwn ==
  ASSUME OwnInv, NEW c \in Conns, NEW th \in Threads, OnCloseUnregister(c, th)
  PROVE  OwnParts'
<1> DEFINE n == held[c][th].name
           h == held[c][th].host
<1>1. TableType /\ EndingType
  BY DEF OwnInv, TableInv, TypeOK
<1>2. \A d \in Conns : (Closing(d)' <=> Closing(d)) /\ ServicesOf(d)' = ServicesOf(d)
  BY <1>1 DEF OnCloseUnregister, Closing, ServicesOf, EndingType
<1>3. /\ \A d \in Conns, s \in Threads : <<d, s>> # <<c, th>> => closer'[d][s] = closer[d][s]
      /\ Closing(c)
      /\ UNCHANGED <<active_clients, tcp_services_map, held, pool, told, late, unlisted>>
  BY <1>1 DEF OnCloseUnregister, EndingType, Closing, history
<1>4. /\ \A m \in Names : available_services'[m] \subseteq available_services[m]
      /\ \A m \in Names : \A g \in available_services[m] :
           g \notin available_services'[m] => m = n /\ g = h
      /\ n \in Names => h \notin available_services'[n]
  BY <1>1 DEF OnCloseUnregister, UnregisterFromService, TableType
<1> HIDE DEF n, h
<1>5. PoolHosts' /\ MapHosts' /\ HeldHosts'
  BY <1>3 DEF PoolHosts, MapHosts, HeldHosts, HostsOf, OwnInv
<1>6. ListedKnown'
  BY <1>2, <1>3, <1>4 DEF ListedKnown, HostsOf, OwnInv
<1>7. ToldKnown'
  BY <1>2, <1>3 DEF ToldKnown, OwnHost, HostsOf, OneHost, OwnInv
<1>8. OwnListed'
  <2> SUFFICES ASSUME NEW d \in Conns, OwnHost(d), NEW m \in ServicesOf(d), ~Closing(d),
                      tcp_services_map[d].port # 0,
                      <<m, tcp_services_map[d]>> \notin unlisted
               PROVE  tcp_services_map[d] \in available_services'[m]
    BY <1>2, <1>3 DEF OwnListed, OwnHost, HostsOf, OneHost
  <2>1. m \in Names /\ tcp_services_map[d] \in available_services[m] /\ d # c
    BY <1>3 DEF OwnListed, OwnInv, ServicesOf
  <2>2. tcp_services_map[d] \in HostsOf(d)
    BY <1>1, <2>1, ServiceTablesAssumption DEF MapHosts, OwnInv, TableType
  <2>3. tcp_services_map[d] # h
    BY <2>1, <2>2, HostsOfParts DEF HeldHosts, OwnInv, OwnHost, h
  <2> QED BY <1>4, <2>1, <2>3
<1>9. ListedHasOwner'
  <2> SUFFICES ASSUME NEW m \in Names, NEW g \in available_services'[m]
               PROVE  \E d \in Conns :
                        \/ d \in active_clients[m] /\ tcp_services_map[d] = g
                        \/ \E s \in Threads : /\ closer'[d][s] = "unregister"
                                              /\ held[d][s] = [name |-> m, host |-> g]
                        \/ /\ d \in late \/ ~OneName(d) \/ ~OneHost(d)
                           /\ m \in NamesOf[d]
                           /\ \E b \in Announce[d] : b.port = g.port
    BY <1>3 DEF ListedHasOwner, OneName, OneHost
  <2>1. held[c][th] # [name |-> m, host |-> g]
    BY <1>4 DEF n, h
  <2> QED BY <1>3, <1>4, <2>1 DEF ListedHasOwner, OwnInv
<1> QED BY <1>5, <1>6, <1>7, <1>8, <1>9 DEF OwnParts

LEMMA OwnStep == OwnInv /\ [Next]_vars => OwnInv'
<1> SUFFICES ASSUME OwnInv, [Next]_vars
             PROVE  OwnParts'
  BY TableStep DEF OwnInv, OwnParts
<1>1. TypeOK /\ TypeOK'
  BY TypeStep DEF OwnInv, TableInv
<1>2. ASSUME NEW c \in Conns, Accept(c) \/ OnRead(c) \/ Close(c)
      PROVE  OwnParts'
  <2>1. \A t \in pool' : t.host \in Announce[t.conn]
    BY <1>2 DEF Accept, OnRead, Close, OwnInv, PoolHosts
  <2>2. \A d \in Conns : told'[d] \subseteq told[d]
    BY <1>1, <1>2 DEF Accept, OnRead, Close, history, TypeOK, HistoryType
  <2>3. UNCHANGED <<active_clients, tcp_services_map, available_services, closer, held, late, unlisted>>
    BY <1>2 DEF Accept, OnRead, Close, tables, ending, history
  <2> QED BY <1>1, <2>1, <2>2, <2>3, OtherOwn DEF TypeOK, TableType
<1>3. ASSUME NEW t \in pool, \/ CheckRegister(t) \/ ProcessGetClient(t)
                             \/ QueryServices(t) \/ ConfirmAlive(t)
      PROVE  OwnParts'
  <2>1. \A u \in pool' : u \in pool \/ (u.conn = t.conn /\ u.host = t.host)
    BY <1>1, <1>3, QuestionStep DEF CheckRegister, TypeOK, RequestType, Request
  <2>2. \A u \in pool' : u.host \in Announce[u.conn]
    BY <2>1 DEF OwnInv, PoolHosts
  <2>3. UNCHANGED <<active_clients, tcp_services_map, available_services, closer, held, late,
                    unlisted, told>>
    BY <1>3, QuestionStep DEF CheckRegister, tables, ending, history
  <2> QED BY <1>1, <2>2, <2>3, OtherOwn DEF TypeOK, TableType
<1>4. ASSUME NEW t \in pool, ProcessUnregister(t)
      PROVE  OwnParts'
  <2>1. \A u \in pool' : u.host \in Announce[u.conn]
    BY <1>4 DEF ProcessUnregister, OwnInv, PoolHosts
  <2>2. /\ \A n \in Names : available_services'[n] \subseteq available_services[n]
        /\ unlisted \subseteq unlisted'
        /\ \A n \in Names : \A h \in available_services[n] :
             h \notin available_services'[n] => <<n, h>> \in unlisted'
    BY <1>1, <1>4 DEF ProcessUnregister, UnregisterFromService, TypeOK, TableType
  <2>3. UNCHANGED <<active_clients, tcp_services_map, closer, held, late, told>>
    BY <1>4 DEF ProcessUnregister, ending
  <2> QED BY <1>1, <2>1, <2>2, <2>3, OtherOwn DEF TypeOK, TableType
<1>5. ASSUME NEW t \in pool, ProcessRegister(t)
      PROVE  OwnParts'
  BY <1>5, RegisterOwn
<1>6. ASSUME NEW c \in Conns, NEW th \in Threads, OnClose(c, th)
      PROVE  OwnParts'
  BY <1>6, OnCloseOwn
<1>7. ASSUME NEW c \in Conns, NEW th \in Threads, OnCloseUnregister(c, th)
      PROVE  OwnParts'
  BY <1>7, OnCloseUnregisterOwn
<1>8. CASE UNCHANGED vars
  <2>1. UNCHANGED <<active_clients, tcp_services_map, available_services, closer, held, late,
                    unlisted, told, pool>>
    BY <1>8 DEF vars, tables, ending, history
  <2> QED BY <1>1, <2>1, OtherOwn DEF TypeOK, TableType, OwnInv, PoolHosts
<1> QED BY <1>2, <1>3, <1>4, <1>5, <1>6, <1>7, <1>8 DEF Next

LEMMA OwnInvCorrect == Spec => []OwnInv
<1>1. Init => PoolHosts /\ MapHosts /\ HeldHosts /\ ListedKnown
  BY ServiceTablesAssumption DEF Init, PoolHosts, MapHosts, HeldHosts, ListedKnown, NoHost
<1>2. Init => ToldKnown /\ OwnListed /\ ListedHasOwner
  BY DEF Init, ToldKnown, OwnListed, ListedHasOwner, ServicesOf
<1>3. Init /\ TableInv => OwnInv
  BY <1>1, <1>2 DEF OwnInv
<1> QED BY <1>3, OwnStep, TableInvCorrect, PTL DEF Spec

(* A host is only listed as long as somebody is responsible for it.          *)
THEOREM ListedHasOwnerCorrect == Spec => []ListedHasOwner
<1>1. OwnInv => ListedHasOwner
  BY DEF OwnInv
<1> QED BY <1>1, OwnInvCorrect, PTL

(* Clients do not take each other off the list, for any number of them.      *)
THEOREM OnlyOwnerUnlistsCorrect == Spec => []OnlyOwnerUnlists
<1>1. OwnInv => OnlyOwnerUnlists
  BY DEF OwnInv, OwnListed, OnlyOwnerUnlists
<1> QED BY <1>1, OwnInvCorrect, PTL

(* A client that was told it is registered is known to the server, if no     *)
(* other connection announces its host.                                      *)
THEOREM RegisteredIsKnownCorrect == Spec => []RegisteredIsKnown
<1>1. OwnInv => RegisteredIsKnown
  BY DEF OwnInv, ToldKnown, RegisteredIsKnown
<1> QED BY <1>1, OwnInvCorrect, PTL

-----------------------------------------------------------------------------
(* Every critical section changes active_clients as ActiveClients says.      *)
THEOREM ActiveRefinement == Spec => ActiveRefined
<1>1. Init => AC!ACInit
  BY DEF Init, AC!ACInit
<1>2. TypeOK /\ [Next]_vars => [AC!ACNext]_active_clients
  <2> SUFFICES ASSUME TypeOK, [Next]_vars, active_clients' # active_clients
               PROVE  AC!ACNext
    OBVIOUS
  <2>1. ASSUME NEW t \in pool, ProcessRegister(t)
        PROVE  AC!Join(t.name, t.conn)
    BY <2>1 DEF ProcessRegister, RegisterUpdate, RegisterJoin, RegisterNew, RegisterPrivate,
                RegisterRefused, EnterClient, tables, AC!Join
  <2>2. ASSUME NEW c \in Conns, NEW th \in Threads, OnClose(c, th)
        PROVE  \E n \in Names : AC!Leave(n, c)
    BY <2>2 DEF OnClose, ServicesOf, AC!Leave
  <2>3. (\E t \in pool : ProcessRegister(t))
        \/ (\E c \in Conns, th \in Threads : OnClose(c, th))
    BY DEF Next, vars, tables, history, Accept, OnRead, Close, CheckRegister,
           ProcessUnregister, OnCloseUnregister, ProcessGetClient, QueryServices,
           ConfirmAlive, Reply
  <2> QED BY <2>1, <2>2, <2>3, RequestParts DEF AC!ACNext, TypeOK, RequestType
<1> QED BY <1>1, <1>2, TypeCorrect, PTL DEF Spec, ActiveRefined, AC!ACSpec
=============================================================================
