----------------------- MODULE DirectRequests_proofs -----------------------
(***************************************************************************)
(* Proofs about DirectRequests, for any number of requests, connections,    *)
(* hosts and moves of the receiver: types, that a request on its way is in  *)
(* exactly one place, that it is handled at most once, that a connection    *)
(* identifies itself before it carries a request, and that the requests     *)
(* implement Calls.                                                         *)
(***************************************************************************)
EXTENDS DirectRequests, SequenceTheorems, FiniteSetTheorems, TLAPS

-----------------------------------------------------------------------------
(* Workers. *)

(* What a worker's place in the code says of the request it has. *)
Sound(pc, i, h, c, n) ==
  /\ pc # "idle" => i \in Id
  /\ pc \in {"get", "count", "connect", "identify", "push", "again", "send"} => h \in Hosts
  /\ pc \in {"identify", "push", "send"} => c \in Conn
  /\ pc \in {"connect", "identify", "push"} => n > 0

(* Named threads carry what was posted, and a caller its own request. *)
Fit(w, pc, i) ==
  pc # "idle" =>
    /\ w \in Named => ~Sync(i) /\ pc \notin {"lookup", "wait"}
    /\ \A j \in Id : w = Caller(j) =>
         i = j /\ Sync(j) /\ pc \notin {"cache", "enqueue", "forget", "ask"}

Assigned ==
  /\ \A w \in Workers :
       /\ Sound(worker[w].at, worker[w].id, worker[w].host, worker[w].conn, worker[w].need)
       /\ Fit(w, worker[w].at, worker[w].id)
  /\ \A i \in retry : ~Sync(i)

-----------------------------------------------------------------------------
(* Where a request is: in one of these lists or in the hands of a worker.    *)

Has(q, x) == \E j \in 1..Len(q) : q[j] = x
NoDup(q) == \A j, k \in 1..Len(q) : q[j] = q[k] => j = k

Slots == {"container", "rtask", "waiting", "answering", "byname", "byip"}
SlotOf(t) == IF t = <<"byname", 0>> THEN "byname" ELSE "byip"
qs == [s \in Slots |-> IF s = "container" THEN container
                       ELSE IF s = "rtask" THEN rtask_list
                       ELSE IF s = "waiting" THEN waiting
                       ELSE IF s = "answering" THEN answering.tasks
                       ELSE IF s = "byname" THEN named[<<"byname", 0>>]
                       ELSE named[<<"byip", 0>>]]
place == [w \in Workers |-> worker[w].at]
held == [w \in Workers |-> IF Carrying(w) THEN worker[w].id ELSE 0]

(* No request is twice in the lists f, and these are the requests in them.   *)
OnceIn(f) ==
  /\ \A s \in Slots : NoDup(f[s])
  /\ \A s, t \in Slots : \A i \in Id : Has(f[s], i) /\ Has(f[t], i) => s = t
Listed(f) == {i \in Id : \E s \in Slots : Has(f[s], i)}

(* With the requests A in lists, H in the hands of workers at P, S sent, T in
   the table and M the last one made: none is in two hands, or in a list and a
   hand; what is on its way has not been sent, unless its caller waits; what is
   in the table is on its way or sent, and not yet there while its host is
   looked up.                                                                *)
Placed(A, H, P, S, T, M) ==
  /\ \A w, v \in Workers : H[w] = H[v] /\ H[w] # 0 => w = v
  /\ \A w \in Workers : H[w] # 0 => H[w] \notin A /\ H[w] <= M /\ (H[w] \in S <=> P[w] = "wait")
  /\ \A w \in Workers : P[w] = "lookup" => H[w] \notin T
  /\ \A i \in A : i \notin S /\ i <= M
  /\ \A i \in S : i <= M
  /\ \A i \in T : i <= M /\ (i \in S \/ i \in A \/ \E w \in Workers : H[w] = i)

(* The lists hold what was posted, and what the loop thread has still to queue. *)
Posted == \A i \in Listed(qs) : ~Sync(i)
AnsweringTasks == /\ answering.at = "requeue" => answering.tasks # << >>
                  /\ answering.at = "idle" => answering.tasks = << >>

PlaceInv ==
  /\ Assigned /\ OnceIn(qs) /\ Posted /\ AnsweringTasks
  /\ Placed(Listed(qs), held, place, sent, table, made)

-----------------------------------------------------------------------------
(* Messages. *)

(* A request on the wire has been sent and is on one connection, once; it has
   not been read, and what was read was read once.                           *)
Single(q) == \A j, k \in 1..Len(q) : q[j] = q[k] /\ q[j] # 0 => j = k
Fresh ==
  /\ \A c \in Conn : Single(out[c])
  /\ \A c \in Conn : \A x \in Id : Has(out[c], x) => x \in sent /\ ~Has(arrived, x)
  /\ \A c, d \in Conn : \A x \in Id : Has(out[c], x) /\ Has(out[d], x) => c = d
  /\ \A x \in Id : Has(arrived, x) => x \in sent
  /\ NoDup(arrived)

-----------------------------------------------------------------------------
(* Calls. *)

(* What has ended was made, and has neither a caller that carries it nor, when
   it was posted, a future in the table.                                     *)
Open ==
  /\ \A i \in Id : outcome[i] # "none" => i <= made
  /\ \A i \in Id : worker[Caller(i)].at # "idle" => i <= made /\ outcome[i] = "none"
  /\ \A i \in table : ~Sync(i) => outcome[i] = "none"

(* An answer on its way, or in a future, was given by a receiver.            *)
Answered ==
  /\ \A c \in Conn : \A x \in Id : Has(back[c], x) => answer[x] = "ok"
  /\ \A i \in ready : answer[i] = "ok"
  /\ \A i \in Id : answer[i] # "bad"

-----------------------------------------------------------------------------
(* Connections. *)

InPool(p, c) == \E k \in Pools, h \in Hosts : Has(p[k][h], c)
Creating(w) == worker[w].at \in {"identify", "push"}
Using(w) == worker[w].at \in {"identify", "push", "send"}

(* A connection that has not been made is nowhere. *)
Unused ==
  \A c \in Conn : link[c] = "none" =>
     /\ peer[c] = "backlog" /\ ~InPool(pool, c) /\ c \notin senders
     /\ \A w \in Workers : Using(w) => worker[w].conn # c

(* Only a connection that is up carries something, and only a receiver that is
   up serves it. *)
OnlyUp == \A c \in Conn : link[c] # "up" => out[c] = << >>
Served == \A c \in Conn : link[c] # "none" /\ peer[c] # "closed" => dest[c] \in up

(* A connection that the receiver does not know yet carries first of all who is
   calling, and does so as soon as anybody may take it from the pool. *)
Unknown(c) == Allowed /\ c \notin senders /\ peer[c] \in {"backlog", "open"} /\ link[c] = "up"
Introduced ==
  \A c \in Conn : Unknown(c) =>
    /\ out[c] # << >> => Head(out[c]) = 0
    /\ InPool(pool, c) \/ (\E w \in Workers : worker[w].at \in {"push", "send"} /\ worker[w].conn = c)
         => out[c] # << >>

(* A connection is in the pool at most once, and not before its maker is done. *)
Distinct(p) == \A k \in Pools, h \in Hosts : NoDup(p[k][h])
OncePooled ==
  /\ Distinct(pool)
  /\ \A w \in Workers : Creating(w) => ~InPool(pool, worker[w].conn)
  /\ \A w, v \in Workers : Creating(w) /\ Creating(v) /\ worker[w].conn = worker[v].conn => w = v

ConnInv == Unused /\ OnlyUp /\ Served /\ Introduced /\ OncePooled

-----------------------------------------------------------------------------
(* Queues.                                                                   *)

LEMMA OfAppend ==
  ASSUME NEW S, NEW q \in Seq(S), NEW e \in S
  PROVE  /\ Append(q, e) \in Seq(S)
         /\ \A x : Has(Append(q, e), x) <=> Has(q, x) \/ x = e
         /\ NoDup(q) /\ ~Has(q, e) => NoDup(Append(q, e))
<1>1. /\ Append(q, e) \in Seq(S) /\ Len(Append(q, e)) = Len(q) + 1 /\ Len(q) \in Nat
      /\ \A i \in 1..Len(q) : Append(q, e)[i] = q[i]
      /\ Append(q, e)[Len(q) + 1] = e
  OBVIOUS
<1>2. \A i \in 1..Len(Append(q, e)) : i \in 1..Len(q) \/ i = Len(q) + 1
  BY <1>1
<1>3. ASSUME NEW x
      PROVE  Has(Append(q, e), x) <=> Has(q, x) \/ x = e
  <2>1. ASSUME Has(q, x) \/ x = e
        PROVE  Has(Append(q, e), x)
    <3>1. CASE x = e
      BY <1>1, <3>1 DEF Has
    <3>2. CASE Has(q, x)
      <4>1. PICK i \in 1..Len(q) : q[i] = x
        BY <3>2 DEF Has
      <4> QED BY <1>1, <4>1 DEF Has
    <3> QED BY <2>1, <3>1, <3>2
  <2>2. ASSUME Has(Append(q, e), x)
        PROVE  Has(q, x) \/ x = e
    BY <1>1, <1>2, <2>2 DEF Has
  <2> QED BY <2>1, <2>2
<1>4. ASSUME NoDup(q), ~Has(q, e)
      PROVE  NoDup(Append(q, e))
  BY <1>1, <1>2, <1>4 DEF NoDup, Has
<1> QED BY <1>1, <1>3, <1>4

LEMMA OfTail ==
  ASSUME NEW S, NEW q \in Seq(S), q # << >>
  PROVE  /\ Head(q) \in S /\ Has(q, Head(q)) /\ Tail(q) \in Seq(S)
         /\ \A x : Has(Tail(q), x) => Has(q, x)
         /\ \A x : Has(q, x) => x = Head(q) \/ Has(Tail(q), x)
         /\ NoDup(q) => NoDup(Tail(q)) /\ ~Has(Tail(q), Head(q))
<1>1. /\ Len(q) \in Nat \ {0} /\ Tail(q) \in Seq(S) /\ Len(Tail(q)) = Len(q) - 1
      /\ \A i \in 1..Len(q) - 1 : Tail(q)[i] = q[i + 1]
      /\ Head(q) = q[1] /\ Head(q) \in S
  OBVIOUS
<1>2. \A i \in 1..Len(q) - 1 : i + 1 \in 1..Len(q) /\ i + 1 # 1
  BY <1>1
<1>3. Has(q, Head(q))
  BY <1>1 DEF Has
<1>4. ASSUME NEW x, Has(Tail(q), x)
      PROVE  Has(q, x)
  <2>1. PICK i \in 1..Len(q) - 1 : Tail(q)[i] = x
    BY <1>1, <1>4 DEF Has
  <2> QED BY <1>1, <1>2, <2>1 DEF Has
<1>5. ASSUME NEW x, Has(q, x), x # Head(q)
      PROVE  Has(Tail(q), x)
  <2>1. PICK i \in 1..Len(q) : q[i] = x
    BY <1>5 DEF Has
  <2>2. i - 1 \in 1..Len(q) - 1 /\ Tail(q)[i - 1] = x
    BY <1>1, <1>5, <2>1
  <2> QED BY <1>1, <2>2 DEF Has
<1>6. ASSUME NoDup(q)
      PROVE  NoDup(Tail(q)) /\ ~Has(Tail(q), Head(q))
  <2>1. NoDup(Tail(q))
    <3> SUFFICES ASSUME NEW j \in 1..Len(q) - 1, NEW k \in 1..Len(q) - 1,
                        Tail(q)[j] = Tail(q)[k]
                 PROVE  j = k
      BY <1>1 DEF NoDup
    <3>1. q[j + 1] = q[k + 1] /\ j + 1 \in 1..Len(q) /\ k + 1 \in 1..Len(q)
      BY <1>1, <1>2
    <3>2. j + 1 = k + 1
      BY <1>6, <3>1 DEF NoDup
    <3> QED BY <3>2
  <2>2. ASSUME NEW j \in 1..Len(q) - 1, Tail(q)[j] = Head(q)
        PROVE  FALSE
    <3>1. q[j + 1] = q[1] /\ j + 1 \in 1..Len(q) /\ 1 \in 1..Len(q)
      BY <1>1, <1>2, <2>2
    <3> QED BY <1>2, <1>6, <3>1 DEF NoDup
  <2> QED BY <1>1, <2>1, <2>2 DEF Has
<1> QED BY <1>1, <1>3, <1>4, <1>5, <1>6

LEMMA OfEmpty == NoDup(<< >>) /\ \A x : ~Has(<< >>, x)
BY DEF NoDup, Has

-----------------------------------------------------------------------------
(* Workers.                                                                  *)

LEMMA WorkerNames ==
  /\ \A t \in Named : t \in Workers
  /\ \A i \in Id : Caller(i) \in Workers /\ Caller(i) \notin Named
  /\ \A i, j \in Id : Caller(i) = Caller(j) => i = j
  /\ \A w \in Workers : w \in Named \/ \E i \in Id : w = Caller(i)
BY DEF Workers, Named, Caller

(* The worker w is at pc now, with this request, host, connection and need.  *)
Now(w, pc, i, h, c, n) ==
  /\ WorkerType'
  /\ worker'[w].at = pc /\ worker'[w].id = i /\ worker'[w].host = h
  /\ worker'[w].conn = c /\ worker'[w].need = n
  /\ \A v \in Workers : v # w => worker'[v] = worker[v]

Zeros == 0 \in 0..MaxConns /\ 0 \in 0..CLIENT_POOL_SIZE

LEMMA ZerosFit == Zeros
BY DirectRequestsAssumption DEF Zeros

LEMMA GotoIs ==
  ASSUME WorkerType, NEW w \in Workers, NEW pc \in At, Goto(w, pc)
  PROVE  Now(w, pc, worker[w].id, worker[w].host, worker[w].conn, worker[w].need)
BY DEF WorkerType, Goto, Now

LEMMA DoneIs ==
  ASSUME WorkerType, NEW w \in Workers, Done(w)
  PROVE  Now(w, "idle", 0, NoHost, 0, 0)
BY ZerosFit DEF Zeros, WorkerType, Done, Free, Task, At, Now

LEMMA BegunIs ==
  ASSUME WorkerType, NEW w \in Workers, NEW pc \in At, NEW h \in Hosts \cup {NoHost}, NEW i \in Id,
         worker' = [worker EXCEPT ![w] = Task(pc, i, h)]
  PROVE  Now(w, pc, i, h, 0, 0)
BY ZerosFit DEF Zeros, WorkerType, Task, Now

LEMMA HostIs ==
  ASSUME WorkerType, NEW w \in Workers, NEW pc \in At, NEW h \in Hosts \cup {NoHost},
         worker' = [worker EXCEPT ![w].at = pc, ![w].host = h]
  PROVE  Now(w, pc, worker[w].id, h, worker[w].conn, worker[w].need)
BY DEF WorkerType, Now

LEMMA ConnIs ==
  ASSUME WorkerType, NEW w \in Workers, NEW pc \in At, NEW c \in Conn,
         worker' = [worker EXCEPT ![w].at = pc, ![w].conn = c]
  PROVE  Now(w, pc, worker[w].id, worker[w].host, c, worker[w].need)
<1>1. c \in 0..MaxConns
  BY DirectRequestsAssumption DEF Conn
<1> QED BY <1>1 DEF WorkerType, Now

LEMMA NeedIs ==
  ASSUME WorkerType, NEW w \in Workers, NEW pc \in At, NEW n \in 0..CLIENT_POOL_SIZE,
         worker' = [worker EXCEPT ![w].at = pc, ![w].need = n]
  PROVE  Now(w, pc, worker[w].id, worker[w].host, worker[w].conn, n)
BY DEF WorkerType, Now

LEMMA FieldTypes ==
  ASSUME WorkerType, NEW w \in Workers
  PROVE  /\ worker[w].at \in At /\ worker[w].id \in {0} \cup Id
         /\ worker[w].host \in Hosts \cup {NoHost}
         /\ worker[w].conn \in 0..MaxConns /\ worker[w].need \in 0..CLIENT_POOL_SIZE
BY DEF WorkerType

LEMMA NowFits ==
  ASSUME Assigned, NEW w \in Workers, NEW pc, NEW i, NEW h, NEW c, NEW n, Now(w, pc, i, h, c, n),
         UNCHANGED OpOf, Sound(pc, i, h, c, n), Fit(w, pc, i), \A j \in retry' : ~Sync(j)
  PROVE  WorkerType' /\ Assigned'
<1>1. \A v \in Workers : v # w => worker'[v] = worker[v]
  BY DEF Now
<1>2. \A j : Sync(j)' = Sync(j)
  BY DEF Sync
<1>3. ASSUME NEW v \in Workers
      PROVE  /\ Sound(worker'[v].at, worker'[v].id, worker'[v].host, worker'[v].conn, worker'[v].need)
             /\ Fit(v, worker'[v].at, worker'[v].id)
  BY <1>1 DEF Assigned, Now
<1>4. ASSUME NEW v, NEW x, NEW y, Fit(v, x, y)
      PROVE  Fit(v, x, y)'
  BY <1>2, <1>4 DEF Fit
<1>5. WorkerType'
  BY DEF Now
<1> QED BY <1>2, <1>3, <1>4, <1>5, Zenon DEF Assigned, Sound, Fit

(* The request is dropped, or its worker has nothing more to do with it.     *)
LEMMA DoneFits ==
  ASSUME WorkerType, Assigned, NEW w \in Workers, Done(w), UNCHANGED <<OpOf, retry>>
  PROVE  WorkerType' /\ Assigned'
<1>1. Now(w, "idle", 0, NoHost, 0, 0)
  BY DoneIs
<1>2. Sound("idle", 0, NoHost, 0, 0) /\ Fit(w, "idle", 0) /\ \A j \in retry' : ~Sync(j)
  BY DEF Sound, Fit, Assigned
<1> QED BY <1>1, <1>2, NowFits, Zenon

(* The worker goes on with the same request.                                 *)
Suits(w, pc, h, c, n) ==
  /\ pc \in {"get", "count", "connect", "identify", "push", "again", "send"} => h \in Hosts
  /\ pc \in {"identify", "push", "send"} => c \in Conn
  /\ pc \in {"connect", "identify", "push"} => n > 0
  /\ pc \in {"lookup", "wait"} => w \notin Named
  /\ pc \in {"cache", "enqueue", "forget", "ask"} => w \in Named

LEMMA OnFits ==
  ASSUME WorkerType, Assigned, NEW w \in Workers, worker[w].at # "idle", NEW pc, NEW h, NEW c, NEW n,
         Now(w, pc, worker[w].id, h, c, n), UNCHANGED <<OpOf, retry>>, Suits(w, pc, h, c, n)
  PROVE  WorkerType' /\ Assigned'
<1> DEFINE i == worker[w].id
<1>1. Sound(pc, i, h, c, n)
  BY DEF Assigned, Sound, Suits
<1>2. Fit(w, pc, i)
  BY WorkerNames DEF Assigned, Fit, Suits
<1>3. \A j \in retry' : ~Sync(j)
  BY DEF Assigned
<1> HIDE DEF i
<1>4. Now(w, pc, i, h, c, n)
  BY DEF i
<1> QED BY <1>1, <1>2, <1>3, <1>4, NowFits, Zenon

(* Who may wait for another host.                                            *)
LEMMA RetryNamed ==
  ASSUME Assigned, NEW w \in Workers, worker[w].at # "idle",
         worker[w].id \in retry \/ worker[w].at \in {"cache", "enqueue", "forget", "ask"}
         \/ ~Sync(worker[w].id)
  PROVE  w \in Named
BY WorkerNames DEF Assigned, Fit

LEMMA CreateFailsFits ==
  ASSUME WorkerType, Assigned, NEW w \in Workers, worker[w].at # "idle", CreateFails(w),
         UNCHANGED <<OpOf, retry>>
  PROVE  WorkerType' /\ Assigned'
<1>1. CASE worker[w].id \in retry
  <2>1. "enqueue" \in At
    BY DEF At
  <2>2. Now(w, "enqueue", worker[w].id, worker[w].host, worker[w].conn, worker[w].need)
    BY <1>1, <2>1, GotoIs DEF CreateFails
  <2>3. w \in Named
    BY <1>1, RetryNamed
  <2>4. Suits(w, "enqueue", worker[w].host, worker[w].conn, worker[w].need)
    BY <2>3 DEF Suits
  <2> QED BY <2>2, <2>4, OnFits, Zenon
<1>2. CASE worker[w].id \notin retry
  BY <1>2, DoneFits DEF CreateFails, GiveUp
<1> QED BY <1>1, <1>2

(* The connections take turns.                                               *)
LEMMA Turn ==
  ASSUME NEW S, NEW q \in Seq(S), q # << >>, NEW n \in Nat
  PROVE  (n % Len(q)) + 1 \in 1..Len(q)
<1>1. Len(q) \in Nat /\ Len(q) > 0
  OBVIOUS
<1>2. n % Len(q) \in 0..(Len(q) - 1)
  BY <1>1
<1> QED BY <1>1, <1>2

LEMMA GetIs ==
  ASSUME TypeOK, Assigned, NEW w \in Workers, worker[w].at \in {"get", "again"}, NEW otherwise,
         GetTcpSock(w, otherwise)
  PROVE  LET all == pool[PoolOf(worker[w].id)][worker[w].host]
         IN  \/ /\ \E c \in Conn : /\ Has(all, c)
                                   /\ Now(w, "send", worker[w].id, worker[w].host, c, worker[w].need)
                /\ UNCHANGED <<table, outcome>>
             \/ all = << >> /\ otherwise
<1> DEFINE k == PoolOf(worker[w].id)  h == worker[w].host  all == pool[k][h]
<1>1. k \in Pools /\ h \in Hosts
  BY DEF PoolOf, Pools, Assigned, Sound
<1>2. all \in Seq(Conn) /\ counter[k][h] \in Nat
  BY <1>1 DEF TypeOK, PoolType
<1>3. ASSUME all # << >>,
             worker' = [worker EXCEPT ![w].at = "send",
                                      ![w].conn = all[(counter[k][h] % Len(all)) + 1]]
      PROVE  \E c \in Conn : /\ Has(all, c)
                             /\ Now(w, "send", worker[w].id, worker[w].host, c, worker[w].need)
  <2> DEFINE j == (counter[k][h] % Len(all)) + 1
  <2> HIDE DEF k, h, all
  <2>1. j \in 1..Len(all)
    BY <1>2, <1>3, Turn
  <2> HIDE DEF j
  <2>2. all[j] \in Conn /\ Has(all, all[j])
    BY <1>2, <2>1 DEF Has
  <2>3. "send" \in At /\ WorkerType
    BY DEF At, TypeOK
  <2>4. worker' = [worker EXCEPT ![w].at = "send", ![w].conn = all[j]]
    BY <1>3 DEF j
  <2>5. Now(w, "send", worker[w].id, worker[w].host, all[j], worker[w].need)
    BY <2>2, <2>3, <2>4, ConnIs
  <2> QED BY <2>2, <2>5
<1> QED BY <1>3 DEF GetTcpSock

LEMMA ListsPut ==
  ASSUME NEW f \in [Slots -> Seq(Id)], OnceIn(f), NEW s \in Slots,
         NEW i \in Id, i \notin Listed(f), NEW g, g = [f EXCEPT ![s] = Append(f[s], i)]
  PROVE  OnceIn(g) /\ Listed(g) = Listed(f) \cup {i}
<1>1. /\ g \in [Slots -> Seq(Id)] /\ g[s] = Append(f[s], i)
      /\ \A r \in Slots : r # s => g[r] = f[r]
  OBVIOUS
<1>2. f[s] \in Seq(Id) /\ NoDup(f[s]) /\ \A r \in Slots : ~Has(f[r], i)
  BY DEF OnceIn, Listed
<1>3. NoDup(g[s]) /\ \A x : Has(g[s], x) <=> Has(f[s], x) \/ x = i
  BY <1>1, <1>2, OfAppend
<1>4. OnceIn(g)
  BY <1>1, <1>2, <1>3 DEF OnceIn
<1>5. Listed(g) = Listed(f) \cup {i}
  BY <1>1, <1>3 DEF Listed
<1> QED BY <1>4, <1>5

LEMMA ListsTake ==
  ASSUME NEW f \in [Slots -> Seq(Id)], OnceIn(f), NEW s \in Slots, f[s] # << >>,
         NEW g, g = [f EXCEPT ![s] = Tail(f[s])]
  PROVE  OnceIn(g) /\ Head(f[s]) \in Listed(f) /\ Listed(g) = Listed(f) \ {Head(f[s])}
<1> DEFINE i == Head(f[s])
<1>1. /\ g[s] = Tail(f[s]) /\ \A r \in Slots : r # s => g[r] = f[r]
      /\ f[s] \in Seq(Id) /\ NoDup(f[s])
  BY DEF OnceIn
<1>2. /\ i \in Id /\ Has(f[s], i) /\ NoDup(g[s]) /\ ~Has(g[s], i)
      /\ \A x : Has(g[s], x) => Has(f[s], x)
      /\ \A x : Has(f[s], x) => x = i \/ Has(g[s], x)
  BY <1>1, OfTail
<1> HIDE DEF i
<1>3. OnceIn(g)
  BY <1>1, <1>2 DEF OnceIn
<1>4. i \in Listed(f) /\ \A r \in Slots : r # s => ~Has(g[r], i)
  BY <1>1, <1>2 DEF OnceIn, Listed
<1>5. Listed(g) = Listed(f) \ {i}
  BY <1>1, <1>2, <1>4 DEF Listed
<1> QED BY <1>3, <1>4, <1>5 DEF i

LEMMA ListsShift ==
  ASSUME NEW f \in [Slots -> Seq(Id)], OnceIn(f), NEW s \in Slots, NEW t \in Slots, s # t, f[s] # << >>,
         NEW g, g = [f EXCEPT ![s] = Tail(f[s]), ![t] = Append(f[t], Head(f[s]))]
  PROVE  OnceIn(g) /\ Listed(g) = Listed(f)
<1> DEFINE i == Head(f[s])
<1>1. /\ g[s] = Tail(f[s]) /\ g[t] = Append(f[t], i)
      /\ \A r \in Slots : r # s /\ r # t => g[r] = f[r]
      /\ f[s] \in Seq(Id) /\ f[t] \in Seq(Id) /\ NoDup(f[s]) /\ NoDup(f[t])
  BY DEF OnceIn
<1>2. /\ i \in Id /\ Has(f[s], i) /\ NoDup(g[s]) /\ ~Has(g[s], i)
      /\ \A x : Has(g[s], x) => Has(f[s], x)
      /\ \A x : Has(f[s], x) => x = i \/ Has(g[s], x)
  BY <1>1, OfTail
<1> HIDE DEF i
<1>3. \A r \in Slots : r # s => ~Has(f[r], i)
  BY <1>2 DEF OnceIn
<1>4. NoDup(g[t]) /\ \A x : Has(g[t], x) <=> Has(f[t], x) \/ x = i
  BY <1>1, <1>2, <1>3, OfAppend
<1>5. OnceIn(g)
  BY <1>1, <1>2, <1>3, <1>4 DEF OnceIn
<1>6. Listed(g) = Listed(f)
  BY <1>1, <1>2, <1>4 DEF Listed
<1> QED BY <1>5, <1>6

LEMMA ListsMoveAll ==
  ASSUME NEW f \in [Slots -> Seq(Id)], OnceIn(f), NEW s \in Slots, NEW t \in Slots, s # t, f[t] = << >>,
         NEW g, g = [f EXCEPT ![s] = << >>, ![t] = f[s]]
  PROVE  OnceIn(g) /\ Listed(g) = Listed(f)
<1>1. g[s] = << >> /\ g[t] = f[s] /\ \A r \in Slots : r # s /\ r # t => g[r] = f[r]
  OBVIOUS
<1>2. /\ NoDup(g[s]) /\ NoDup(g[t]) /\ \A x : ~Has(g[s], x) /\ ~Has(f[t], x)
      /\ \A x : Has(g[t], x) <=> Has(f[s], x)
  BY <1>1, OfEmpty DEF OnceIn
<1>3. OnceIn(g)
  BY <1>1, <1>2 DEF OnceIn
<1>4. Listed(g) = Listed(f)
  BY <1>1, <1>2 DEF Listed
<1> QED BY <1>3, <1>4

LEMMA ListsDrop ==
  ASSUME NEW f \in [Slots -> Seq(Id)], OnceIn(f), NEW s \in Slots, NEW g, g = [f EXCEPT ![s] = << >>]
  PROVE  OnceIn(g) /\ Listed(g) = Listed(f) \ ToSet(f[s])
<1>1. g[s] = << >> /\ \A r \in Slots : r # s => g[r] = f[r]
  OBVIOUS
<1>2. NoDup(g[s]) /\ \A x : ~Has(g[s], x)
  BY <1>1, OfEmpty
<1>3. OnceIn(g)
  BY <1>1, <1>2 DEF OnceIn
<1>4. \A x : x \in ToSet(f[s]) <=> Has(f[s], x)
  BY DEF ToSet, Has
<1>5. Listed(g) = Listed(f) \ ToSet(f[s])
  BY <1>1, <1>2, <1>4 DEF Listed, OnceIn
<1> QED BY <1>3, <1>5

-----------------------------------------------------------------------------
(* What the steps do to the places of the requests.                          *)

LEMMA IdNat == \A i \in Id : i \in Nat /\ i # 0
BY DirectRequestsAssumption DEF Id

(* A worker goes on with what it carries. *)
LEMMA PlacedOn ==
  ASSUME
         NEW A \in SUBSET Id, NEW H \in [Workers -> {0} \cup Id], NEW P \in [Workers -> At],
         NEW S \in SUBSET Id, NEW T \in SUBSET Id, NEW M \in Nat, Placed(A, H, P, S, T, M),
         NEW w \in Workers, H[w] # 0, P[w] # "wait", NEW pc, pc \notin {"wait", "lookup"},
         NEW T2, T2 \subseteq T \cup {H[w]}
  PROVE  Placed(A, H, [P EXCEPT ![w] = pc], S, T2, M)
<1>1. Id \subseteq Nat \ {0}
  BY IdNat
<1> QED BY <1>1 DEF Placed

(* It is rid of it. *)
LEMMA PlacedOff ==
  ASSUME
         NEW A \in SUBSET Id, NEW H \in [Workers -> {0} \cup Id], NEW P \in [Workers -> At],
         NEW S \in SUBSET Id, NEW T \in SUBSET Id, NEW M \in Nat, Placed(A, H, P, S, T, M),
         NEW w \in Workers, H[w] # 0, NEW pc, pc \notin {"wait", "lookup"},
         NEW S2, S2 = S \/ S2 = S \cup {H[w]}, NEW T2, T2 \subseteq T, H[w] \in T2 => H[w] \in S2
  PROVE  Placed(A, [H EXCEPT ![w] = 0], [P EXCEPT ![w] = pc], S2, T2, M)
<1>1. Id \subseteq Nat \ {0}
  BY IdNat
<1> QED BY <1>1 DEF Placed

(* It has written it to a connection and waits. *)
LEMMA PlacedWritten ==
  ASSUME
         NEW A \in SUBSET Id, NEW H \in [Workers -> {0} \cup Id], NEW P \in [Workers -> At],
         NEW S \in SUBSET Id, NEW T \in SUBSET Id, NEW M \in Nat, Placed(A, H, P, S, T, M),
         NEW w \in Workers, H[w] # 0
  PROVE  Placed(A, H, [P EXCEPT ![w] = "wait"], S \cup {H[w]}, T, M)
<1>1. Id \subseteq Nat \ {0}
  BY IdNat
<1> QED BY <1>1 DEF Placed

(* It puts it in a list. *)
LEMMA PlacedAside ==
  ASSUME
         NEW A \in SUBSET Id, NEW H \in [Workers -> {0} \cup Id], NEW P \in [Workers -> At],
         NEW S \in SUBSET Id, NEW T \in SUBSET Id, NEW M \in Nat, Placed(A, H, P, S, T, M),
         NEW w \in Workers, H[w] # 0, P[w] # "wait", NEW pc, pc \notin {"wait", "lookup"}
  PROVE  Placed(A \cup {H[w]}, [H EXCEPT ![w] = 0], [P EXCEPT ![w] = pc], S, T, M)
<1>1. Id \subseteq Nat \ {0}
  BY IdNat
<1> QED BY <1>1 DEF Placed

(* It carries nothing. *)
LEMMA PlacedIdle ==
  ASSUME
         NEW A \in SUBSET Id, NEW H \in [Workers -> {0} \cup Id], NEW P \in [Workers -> At],
         NEW S \in SUBSET Id, NEW T \in SUBSET Id, NEW M \in Nat, Placed(A, H, P, S, T, M),
         NEW w \in Workers, H[w] = 0, NEW pc, pc \notin {"wait", "lookup"}
  PROVE  Placed(A, H, [P EXCEPT ![w] = pc], S, T, M)
<1>1. Id \subseteq Nat \ {0}
  BY IdNat
<1> QED BY <1>1 DEF Placed

(* It takes a request from a list. *)
LEMMA PlacedBegun ==
  ASSUME
         NEW A \in SUBSET Id, NEW H \in [Workers -> {0} \cup Id], NEW P \in [Workers -> At],
         NEW S \in SUBSET Id, NEW T \in SUBSET Id, NEW M \in Nat, Placed(A, H, P, S, T, M),
         NEW w \in Workers, H[w] = 0, NEW i \in A, NEW pc, pc \notin {"wait", "lookup"}
  PROVE  Placed(A \ {i}, [H EXCEPT ![w] = i], [P EXCEPT ![w] = pc], S, T, M)
<1>1. Id \subseteq Nat \ {0}
  BY IdNat
<1> QED BY <1>1 DEF Placed

(* The caller of a new request carries it. *)
LEMMA PlacedSent ==
  ASSUME
         NEW A \in SUBSET Id, NEW H \in [Workers -> {0} \cup Id], NEW P \in [Workers -> At],
         NEW S \in SUBSET Id, NEW T \in SUBSET Id, NEW M \in Nat, Placed(A, H, P, S, T, M),
         NEW w \in Workers, H[w] = 0, NEW i \in Id, i = M + 1, NEW pc, pc # "wait",
         NEW T2, T2 \subseteq T \cup {i}, pc = "lookup" => T2 = T
  PROVE  Placed(A, [H EXCEPT ![w] = i], [P EXCEPT ![w] = pc], S, T2, i)
<1>1. Id \subseteq Nat \ {0}
  BY IdNat
<1>2. ~(i <= M) /\ i <= i /\ \A j \in Id : j <= M => j <= i /\ j # i
  BY <1>1
<1> DEFINE H2 == [H EXCEPT ![w] = i]  P2 == [P EXCEPT ![w] = pc]
<1>3. /\ H2[w] = i /\ P2[w] = pc /\ i # 0 /\ i \notin A /\ i \notin S /\ i \notin T
      /\ \A v \in Workers : v # w => H2[v] = H[v] /\ P2[v] = P[v] /\ H[v] # i
      /\ \A v \in Workers : H[v] \in {0} \cup Id
  BY <1>1, <1>2 DEF Placed
<1> HIDE DEF H2, P2
<1>4. ASSUME NEW v \in Workers, NEW u \in Workers, H2[v] = H2[u], H2[v] # 0
      PROVE  v = u
  BY <1>3, <1>4 DEF Placed
<1>5. ASSUME NEW v \in Workers, H2[v] # 0
      PROVE  H2[v] \notin A /\ H2[v] <= i /\ (H2[v] \in S <=> P2[v] = "wait")
  BY <1>2, <1>3, <1>5 DEF Placed
<1>6. ASSUME NEW v \in Workers, P2[v] = "lookup"
      PROVE  H2[v] \notin T2
  <2>1. CASE v = w
    BY <1>3, <1>6, <2>1
  <2>2. CASE v # w
    <3>1. P[v] = "lookup" /\ H2[v] = H[v] /\ H[v] # i
      BY <1>3, <1>6, <2>2
    <3>2. H[v] \notin T
      BY <3>1, Zenon DEF Placed
    <3> QED BY <3>1, <3>2
  <2> QED BY <2>1, <2>2
<1>7. /\ \A j \in A \cup S \cup T : j \in Id /\ j <= M
      /\ \A j \in A : j \notin S
      /\ \A j \in T : j \in S \/ j \in A \/ \E v \in Workers : H[v] = j
  BY DEF Placed
<1>8. \A j \in A \cup S \cup T \cup {i} : j <= i
  BY <1>2, <1>7
<1>9. ASSUME NEW j \in T2, j \notin S, j \notin A
      PROVE  \E v \in Workers : H2[v] = j
  <2>1. CASE j = i
    BY <1>3, <2>1
  <2>2. CASE j # i
    <3>1. PICK v \in Workers : H[v] = j
      BY <1>7, <1>9, <2>2
    <3>2. v # w
      BY <1>1, <1>7, <1>9, <2>2, <3>1
    <3> QED BY <1>3, <3>1, <3>2
  <2> QED BY <2>1, <2>2
<1>10. \A j \in T2 : j <= i
  BY <1>8
<1> QED BY <1>4, <1>5, <1>6, <1>7, <1>8, <1>9, <1>10 DEF Placed, H2, P2

(* A new request enters a list. *)
LEMMA PlacedPosted ==
  ASSUME
         NEW A \in SUBSET Id, NEW H \in [Workers -> {0} \cup Id], NEW P \in [Workers -> At],
         NEW S \in SUBSET Id, NEW T \in SUBSET Id, NEW M \in Nat, Placed(A, H, P, S, T, M),
         NEW i \in Id, i = M + 1
  PROVE  Placed(A \cup {i}, H, P, S, T \cup {i}, i)
<1>1. Id \subseteq Nat \ {0}
  BY IdNat
<1>2. ~(i <= M) /\ i <= i /\ \A j \in Id : j <= M => j <= i /\ j # i
  BY <1>1
<1> QED BY <1>1, <1>2 DEF Placed

(* A new request is refused. *)
LEMMA PlacedRefused ==
  ASSUME
         NEW A \in SUBSET Id, NEW H \in [Workers -> {0} \cup Id], NEW P \in [Workers -> At],
         NEW S \in SUBSET Id, NEW T \in SUBSET Id, NEW M \in Nat, Placed(A, H, P, S, T, M),
         NEW i \in Id, i = M + 1
  PROVE  Placed(A, H, P, S, T, i)
<1>1. Id \subseteq Nat \ {0}
  BY IdNat
<1>2. ~(i <= M) /\ i <= i /\ \A j \in Id : j <= M => j <= i /\ j # i
  BY <1>1
<1> QED BY <1>1, <1>2 DEF Placed

(* Futures leave the table, and requests the lists. *)
LEMMA PlacedLess ==
  ASSUME
         NEW A \in SUBSET Id, NEW H \in [Workers -> {0} \cup Id], NEW P \in [Workers -> At],
         NEW S \in SUBSET Id, NEW T \in SUBSET Id, NEW M \in Nat, Placed(A, H, P, S, T, M),
         NEW A2, A2 \subseteq A, NEW T2, T2 \subseteq T, \A i \in A \ A2 : i \notin T2
  PROVE  Placed(A2, H, P, S, T2, M)
<1>1. Id \subseteq Nat \ {0}
  BY IdNat
<1> QED BY <1>1 DEF Placed

-----------------------------------------------------------------------------
(* A step of a worker leaves it where the code has it.                       *)

LEMMA GotoFits ==
  ASSUME WorkerType, Assigned, NEW w \in Workers, worker[w].at # "idle", NEW pc \in At, Goto(w, pc),
         UNCHANGED <<OpOf, retry>>, Suits(w, pc, worker[w].host, worker[w].conn, worker[w].need)
  PROVE  WorkerType' /\ Assigned'
<1>1. Now(w, pc, worker[w].id, worker[w].host, worker[w].conn, worker[w].need)
  BY GotoIs
<1> QED BY <1>1, OnFits, Zenon

LEMMA BegunFits ==
  ASSUME WorkerType, Assigned, NEW w \in Workers, NEW pc \in At, NEW h \in Hosts \cup {NoHost},
         NEW i \in Id, worker' = [worker EXCEPT ![w] = Task(pc, i, h)], UNCHANGED <<OpOf, retry>>,
         Sound(pc, i, h, 0, 0), Fit(w, pc, i)
  PROVE  WorkerType' /\ Assigned'
<1>1. Now(w, pc, i, h, 0, 0)
  BY BegunIs
<1>2. \A j \in retry' : ~Sync(j)
  BY DEF Assigned
<1> QED BY <1>1, <1>2, NowFits, Zenon

LEMMA Frame ==
  ASSUME WorkerType, Assigned, UNCHANGED <<worker, OpOf, retry>>
  PROVE  WorkerType' /\ Assigned'
BY DEF WorkerType, Assigned, Sound, Fit, Sync

LEMMA NamedLists ==
  ASSUME QueueType, NEW t \in Named
  PROVE  SlotOf(t) \in Slots /\ qs[SlotOf(t)] = named[t] /\ named[t] \in Seq(Id)
BY DEF QueueType, Named, SlotOf, Slots, qs

LEMMA HeadListed ==
  ASSUME QueueType, NEW t \in Named, named[t] # << >>
  PROVE  Head(named[t]) \in Listed(qs) /\ Head(named[t]) \in Id
<1>1. SlotOf(t) \in Slots /\ qs[SlotOf(t)] = named[t] /\ named[t] \in Seq(Id)
  BY NamedLists
<1>2. Head(named[t]) \in Id /\ Has(named[t], Head(named[t]))
  BY <1>1, OfTail
<1> QED BY <1>1, <1>2 DEF Listed

LEMMA FirstHostIs == FirstHost \in Hosts /\ NoHost \notin Hosts
BY DirectRequestsAssumption

LEMMA AssignedStep ==
  ASSUME TypeOK, PlaceInv, Next \/ UNCHANGED vars
  PROVE  WorkerType' /\ Assigned'
<1>0. WorkerType /\ Assigned
  BY DEF TypeOK, PlaceInv
<1> USE <1>0
<1>f. ASSUME UNCHANGED <<worker, OpOf, retry>>
      PROVE  WorkerType' /\ Assigned'
  BY <1>0, <1>f, Frame
<1>1. ASSUME NEW i \in Id, PostMsgDirectToClient(i)
      PROVE  WorkerType' /\ Assigned'
  <2>1. UNCHANGED <<worker, OpOf>> /\ \A j \in retry' : j \in retry \/ j = i
    BY <1>1 DEF PostMsgDirectToClient, stopvars
  <2>2. ~Sync(i) /\ \A j : Sync(j)' = Sync(j)
    BY <1>1, <2>1 DEF PostMsgDirectToClient, Sync
  <2> QED BY <2>1, <2>2 DEF WorkerType, Assigned, Sound, Fit, Sync
<1>2. ASSUME NEW i \in Id, SendMsgDirectToClient(i)
      PROVE  WorkerType' /\ Assigned'
  <2> DEFINE h == IF ByName(i) THEN safe_get_cached_host_info ELSE FirstHost
  <2>1. h \in Hosts \cup {NoHost} /\ Sync(i)
    BY <1>2, FirstHostIs DEF SendMsgDirectToClient, safe_get_cached_host_info, TypeOK, RequestType
  <2>2. Caller(i) \in Workers /\ UNCHANGED <<OpOf, retry>>
    BY <1>2, WorkerNames DEF SendMsgDirectToClient, stopvars, hostvars
  <2>3. \/ UNCHANGED worker
        \/ h = NoHost /\ worker' = [worker EXCEPT ![Caller(i)] = Task("lookup", i, h)]
        \/ h # NoHost /\ worker' = [worker EXCEPT ![Caller(i)] = Task("get", i, h)]
    BY <1>2 DEF SendMsgDirectToClient
  <2> HIDE DEF h
  <2>4. Sound("lookup", i, h, 0, 0) /\ (h # NoHost => Sound("get", i, h, 0, 0))
    BY <2>1 DEF Sound
  <2>5. Fit(Caller(i), "lookup", i) /\ Fit(Caller(i), "get", i)
    BY <2>1, WorkerNames DEF Fit
  <2>6. "lookup" \in At /\ "get" \in At
    BY DEF At
  <2>7. CASE UNCHANGED worker
    BY <2>2, <2>7, Frame
  <2>8. CASE h = NoHost /\ worker' = [worker EXCEPT ![Caller(i)] = Task("lookup", i, h)]
    BY <2>1, <2>2, <2>4, <2>5, <2>6, <2>8, BegunFits, Zenon
  <2>9. CASE h # NoHost /\ worker' = [worker EXCEPT ![Caller(i)] = Task("get", i, h)]
    BY <2>1, <2>2, <2>4, <2>5, <2>6, <2>9, BegunFits, Zenon
  <2> QED BY <2>3, <2>7, <2>8, <2>9
<1>3. ASSUME NEW i \in Id, SyncLookup(i)
      PROVE  WorkerType' /\ Assigned'
  <2>1. Caller(i) \in Workers /\ Caller(i) \notin Named /\ UNCHANGED <<OpOf, retry>>
    BY <1>3, WorkerNames DEF SyncLookup, stopvars
  <2>2. worker[Caller(i)].at # "idle"
    BY <1>3 DEF SyncLookup
  <2>3. ASSUME NEW h \in known, worker' = [worker EXCEPT ![Caller(i)].at = "get", ![Caller(i)].host = h]
        PROVE  WorkerType' /\ Assigned'
    <3>1. "get" \in At /\ h \in Hosts /\ h \in Hosts \cup {NoHost}
      BY <2>3 DEF At, TypeOK, ReceiverType
    <3>2. Now(Caller(i), "get", worker[Caller(i)].id, h, worker[Caller(i)].conn, worker[Caller(i)].need)
      BY <2>1, <2>3, <3>1, HostIs, Zenon
    <3>3. Suits(Caller(i), "get", h, worker[Caller(i)].conn, worker[Caller(i)].need)
      BY <2>1, <3>1 DEF Suits
    <3> QED BY <2>1, <2>2, <3>2, <3>3, OnFits, Zenon
  <2>4. CASE Done(Caller(i))
    BY <2>1, <2>4, DoneFits
  <2> QED BY <1>3, <2>3, <2>4 DEF SyncLookup
<1>4. ASSUME NEW i \in Id, Join(i)
      PROVE  WorkerType' /\ Assigned'
  <2>1. Caller(i) \in Workers /\ UNCHANGED <<OpOf, retry>> /\ Done(Caller(i))
    BY <1>4, WorkerNames DEF Join, stopvars, hostvars
  <2> QED BY <2>1, DoneFits
<1>5. ASSUME NEW i \in Id, Timeout(i)
      PROVE  WorkerType' /\ Assigned'
  <2>1. Caller(i) \in Workers /\ UNCHANGED <<OpOf, retry>> /\ Done(Caller(i))
    BY <1>5, WorkerNames DEF Timeout, GiveUp, stopvars, hostvars
  <2> QED BY <2>1, DoneFits
<1>6. ASSUME NEW t \in Named, NextTask(t)
      PROVE  WorkerType' /\ Assigned'
  <2> DEFINE i == Head(named[t])
  <2>1. i \in Listed(qs) /\ i \in Id /\ ~Sync(i)
    BY <1>6, HeadListed DEF NextTask, TypeOK, PlaceInv, Posted
  <2> HIDE DEF i
  <2>2. t \in Workers /\ UNCHANGED <<OpOf, retry>>
    BY <1>6, WorkerNames DEF NextTask, stopvars, hostvars
  <2>3. \/ worker' = [worker EXCEPT ![t] = Task("cache", i, NoHost)]
        \/ worker' = [worker EXCEPT ![t] = Task("get", i, FirstHost)]
    BY <1>6 DEF NextTask, i
  <2>4. /\ Sound("cache", i, NoHost, 0, 0) /\ Fit(t, "cache", i)
        /\ Sound("get", i, FirstHost, 0, 0) /\ Fit(t, "get", i)
    BY <2>1, FirstHostIs, WorkerNames DEF Sound, Fit
  <2>5. "cache" \in At /\ "get" \in At /\ NoHost \in Hosts \cup {NoHost} /\ FirstHost \in Hosts \cup {NoHost}
    BY FirstHostIs DEF At
  <2> QED BY <2>1, <2>2, <2>3, <2>4, <2>5, BegunFits, Zenon
<1>7. ASSUME NEW w \in Workers, ReadCache(w)
      PROVE  WorkerType' /\ Assigned'
  <2>0. worker[w].at = "cache" /\ worker[w].at # "idle" /\ UNCHANGED <<OpOf, retry>>
    BY <1>7 DEF ReadCache, stopvars, hostvars
  <2>1. w \in Named
    BY <2>0, RetryNamed
  <2>2. CASE /\ safe_get_cached_host_info # NoHost
             /\ worker' = [worker EXCEPT ![w].at = "get", ![w].host = safe_get_cached_host_info]
    <3> DEFINE h == safe_get_cached_host_info
    <3>1. "get" \in At /\ h \in Hosts /\ h \in Hosts \cup {NoHost}
      BY <2>2 DEF At, TypeOK, RequestType, safe_get_cached_host_info
    <3> HIDE DEF h
    <3>2. Now(w, "get", worker[w].id, h, worker[w].conn, worker[w].need)
      BY <2>2, <3>1, HostIs DEF h
    <3>3. Suits(w, "get", h, worker[w].conn, worker[w].need)
      BY <2>1, <3>1 DEF Suits
    <3> QED BY <2>0, <3>2, <3>3, OnFits, Zenon
  <2>3. CASE Goto(w, "enqueue")
    <3>1. "enqueue" \in At /\ Suits(w, "enqueue", worker[w].host, worker[w].conn, worker[w].need)
      BY <2>1 DEF At, Suits
    <3> QED BY <2>0, <2>3, <3>1, GotoFits, Zenon
  <2>4. CASE Done(w)
    BY <2>0, <2>4, DoneFits
  <2> QED BY <1>7, <2>2, <2>3, <2>4 DEF ReadCache, GiveUp
<1>8. ASSUME NEW w \in Workers, QueueWaiting(w)
      PROVE  WorkerType' /\ Assigned'
  <2>0. worker[w].at = "enqueue" /\ worker[w].at # "idle" /\ UNCHANGED <<OpOf, retry>>
    BY <1>8 DEF QueueWaiting, stopvars, hostvars
  <2>1. w \in Named
    BY <2>0, RetryNamed
  <2>2. CASE Goto(w, "ask")
    <3>1. "ask" \in At /\ Suits(w, "ask", worker[w].host, worker[w].conn, worker[w].need)
      BY <2>1 DEF At, Suits
    <3> QED BY <2>0, <2>2, <3>1, GotoFits, Zenon
  <2>3. CASE Goto(w, "forget")
    <3>1. "forget" \in At /\ Suits(w, "forget", worker[w].host, worker[w].conn, worker[w].need)
      BY <2>1 DEF At, Suits
    <3> QED BY <2>0, <2>3, <3>1, GotoFits, Zenon
  <2> QED BY <1>8, <2>2, <2>3 DEF QueueWaiting
<1>9. ASSUME NEW w \in Workers, Forget(w)
      PROVE  WorkerType' /\ Assigned'
  <2>0. worker[w].at = "forget" /\ worker[w].at # "idle" /\ UNCHANGED <<OpOf, retry>>
    BY <1>9 DEF Forget, stopvars, hostvars
  <2>1. w \in Named
    BY <2>0, RetryNamed
  <2>2. CASE Goto(w, "ask")
    <3>1. "ask" \in At /\ Suits(w, "ask", worker[w].host, worker[w].conn, worker[w].need)
      BY <2>1 DEF At, Suits
    <3> QED BY <2>0, <2>2, <3>1, GotoFits, Zenon
  <2> QED BY <1>9, <2>2 DEF Forget
<1>10. ASSUME NEW w \in Workers, AskServer(w)
      PROVE  WorkerType' /\ Assigned'
  <2>0. worker[w].at = "ask" /\ worker[w].at # "idle" /\ UNCHANGED <<OpOf, retry>>
    BY <1>10 DEF AskServer, stopvars, hostvars
  <2> QED BY <1>10, <2>0, DoneFits DEF AskServer
<1>11. ASSUME NEW w \in Workers, FindConnection(w)
      PROVE  WorkerType' /\ Assigned'
  <2>0. worker[w].at = "get" /\ worker[w].at # "idle" /\ UNCHANGED <<OpOf, retry>>
    BY <1>11 DEF FindConnection, stopvars, hostvars
  <2>1. \A c \in Conn : Suits(w, "send", worker[w].host, c, worker[w].need)
    BY <2>0 DEF Suits, Assigned, Sound
  <2>2. ASSUME NEW c \in Conn, Now(w, "send", worker[w].id, worker[w].host, c, worker[w].need)
        PROVE  WorkerType' /\ Assigned'
    BY <2>0, <2>1, <2>2, OnFits, Zenon
  <2>3. CASE Goto(w, "count")
    <3>1. "count" \in At /\ Suits(w, "count", worker[w].host, worker[w].conn, worker[w].need)
      BY <2>0 DEF At, Suits, Assigned, Sound
    <3> QED BY <2>0, <2>3, <3>1, GotoFits, Zenon
  <2>4. \/ \E c \in Conn : Now(w, "send", worker[w].id, worker[w].host, c, worker[w].need)
        \/ Goto(w, "count")
    BY <1>11, <2>0, GetIs DEF FindConnection
  <2> QED BY <2>2, <2>3, <2>4
<1>12. ASSUME NEW w \in Workers, CountMissing(w)
      PROVE  WorkerType' /\ Assigned'
  <2>0. worker[w].at = "count" /\ worker[w].at # "idle" /\ UNCHANGED <<OpOf, retry>>
    BY <1>12 DEF CountMissing, stopvars, hostvars
  <2>1. worker[w].host \in Hosts /\ PoolOf(worker[w].id) \in Pools
    BY <2>0 DEF Assigned, Sound, PoolOf, Pools
  <2>2. Missing(w) > 0 => Missing(w) \in 0..CLIENT_POOL_SIZE
    BY <2>1, DirectRequestsAssumption DEF Missing, TypeOK, PoolType
  <2> DEFINE m == Missing(w)
  <2> HIDE DEF m
  <2>3. CASE m > 0 /\ worker' = [worker EXCEPT ![w].at = "connect", ![w].need = m]
    <3>1. "connect" \in At /\ m \in 0..CLIENT_POOL_SIZE
      BY <2>2, <2>3 DEF At, m
    <3>2. Now(w, "connect", worker[w].id, worker[w].host, worker[w].conn, m)
      BY <2>3, <3>1, NeedIs, Zenon
    <3>3. Suits(w, "connect", worker[w].host, worker[w].conn, m)
      BY <2>1, <2>3 DEF Suits
    <3> QED BY <2>0, <3>2, <3>3, OnFits, Zenon
  <2>4. CASE Goto(w, "again")
    <3>1. "again" \in At /\ Suits(w, "again", worker[w].host, worker[w].conn, worker[w].need)
      BY <2>1 DEF At, Suits
    <3> QED BY <2>0, <2>4, <3>1, GotoFits, Zenon
  <2> QED BY <1>12, <2>3, <2>4 DEF CountMissing, m
<1>13. ASSUME NEW w \in Workers, Connect(w)
      PROVE  WorkerType' /\ Assigned'
  <2>0. worker[w].at = "connect" /\ worker[w].at # "idle" /\ UNCHANGED <<OpOf, retry>>
    BY <1>13 DEF Connect, stopvars, hostvars
  <2>1. ASSUME NEW c \in Conn, worker' = [worker EXCEPT ![w].at = "identify", ![w].conn = c]
        PROVE  WorkerType' /\ Assigned'
    <3>1. "identify" \in At
      BY DEF At
    <3>2. Now(w, "identify", worker[w].id, worker[w].host, c, worker[w].need)
      BY <2>1, <3>1, ConnIs, Zenon
    <3>3. Suits(w, "identify", worker[w].host, c, worker[w].need)
      BY <2>0 DEF Suits, Assigned, Sound
    <3> QED BY <2>0, <3>2, <3>3, OnFits, Zenon
  <2>2. CASE CreateFails(w)
    BY <2>0, <2>2, CreateFailsFits
  <2> QED BY <1>13, <2>1, <2>2 DEF Connect
<1>14. ASSUME NEW w \in Workers, Identify(w)
      PROVE  WorkerType' /\ Assigned'
  <2>0. worker[w].at = "identify" /\ worker[w].at # "idle" /\ UNCHANGED <<OpOf, retry>>
    BY <1>14 DEF Identify, stopvars, hostvars
  <2>1. CASE Goto(w, "push")
    <3>1. "push" \in At /\ Suits(w, "push", worker[w].host, worker[w].conn, worker[w].need)
      BY <2>0 DEF At, Suits, Assigned, Sound
    <3> QED BY <2>0, <2>1, <3>1, GotoFits, Zenon
  <2>2. CASE CreateFails(w)
    BY <2>0, <2>2, CreateFailsFits
  <2> QED BY <1>14, <2>1, <2>2 DEF Identify
<1>15. ASSUME NEW w \in Workers, Push(w)
      PROVE  WorkerType' /\ Assigned'
  <2>0. worker[w].at = "push" /\ worker[w].at # "idle" /\ UNCHANGED <<OpOf, retry>>
    BY <1>15 DEF Push, stopvars, hostvars
  <2> DEFINE m == worker[w].need - 1
  <2>1. worker[w].need \in 0..CLIENT_POOL_SIZE /\ worker[w].need > 0 /\ CLIENT_POOL_SIZE \in Nat
    BY <2>0, FieldTypes, DirectRequestsAssumption DEF Assigned, Sound
  <2>2. m \in 0..CLIENT_POOL_SIZE /\ (worker[w].need > 1 => m > 0)
    BY <2>1
  <2>3. /\ worker[w].need > 1 => worker' = [worker EXCEPT ![w].at = "connect", ![w].need = m]
        /\ ~(worker[w].need > 1) => worker' = [worker EXCEPT ![w].at = "again", ![w].need = m]
    BY <1>15 DEF Push
  <2> HIDE DEF m
  <2>4. "connect" \in At /\ "again" \in At
    BY DEF At
  <2>5. CASE m > 0 /\ worker' = [worker EXCEPT ![w].at = "connect", ![w].need = m]
    <3>1. Now(w, "connect", worker[w].id, worker[w].host, worker[w].conn, m)
      BY <2>2, <2>4, <2>5, NeedIs, Zenon
    <3>2. Suits(w, "connect", worker[w].host, worker[w].conn, m)
      BY <2>0, <2>5 DEF Suits, Assigned, Sound
    <3> QED BY <2>0, <3>1, <3>2, OnFits, Zenon
  <2>6. CASE worker' = [worker EXCEPT ![w].at = "again", ![w].need = m]
    <3>1. Now(w, "again", worker[w].id, worker[w].host, worker[w].conn, m)
      BY <2>2, <2>4, <2>6, NeedIs, Zenon
    <3>2. Suits(w, "again", worker[w].host, worker[w].conn, m)
      BY <2>0 DEF Suits, Assigned, Sound
    <3> QED BY <2>0, <3>1, <3>2, OnFits, Zenon
  <2> QED BY <2>2, <2>3, <2>5, <2>6
<1>16. ASSUME NEW w \in Workers, FindAgain(w)
      PROVE  WorkerType' /\ Assigned'
  <2>0. worker[w].at = "again" /\ worker[w].at # "idle" /\ UNCHANGED <<OpOf, retry>>
    BY <1>16 DEF FindAgain, stopvars, hostvars
  <2>1. \A c \in Conn : Suits(w, "send", worker[w].host, c, worker[w].need)
    BY <2>0 DEF Suits, Assigned, Sound
  <2>2. ASSUME NEW c \in Conn, Now(w, "send", worker[w].id, worker[w].host, c, worker[w].need)
        PROVE  WorkerType' /\ Assigned'
    BY <2>0, <2>1, <2>2, OnFits, Zenon
  <2>3. CASE Done(w)
    BY <2>0, <2>3, DoneFits
  <2>4. \/ \E c \in Conn : Now(w, "send", worker[w].id, worker[w].host, c, worker[w].need)
        \/ Done(w)
    BY <1>16, <2>0, GetIs DEF FindAgain, GiveUp
  <2> QED BY <2>2, <2>3, <2>4
<1>17. ASSUME NEW w \in Workers, WriteTaskData(w)
      PROVE  WorkerType' /\ Assigned'
  <2>0. worker[w].at = "send" /\ worker[w].at # "idle" /\ UNCHANGED <<OpOf, retry>>
    BY <1>17 DEF WriteTaskData, stopvars, hostvars
  <2>1. CASE Done(w)
    BY <2>0, <2>1, DoneFits
  <2>2. CASE Sync(worker[w].id) /\ Goto(w, "wait")
    <3>0. w \notin Named
      BY <2>0, <2>2 DEF Assigned, Fit
    <3>1. "wait" \in At /\ Suits(w, "wait", worker[w].host, worker[w].conn, worker[w].need)
      BY <3>0 DEF At, Suits
    <3> QED BY <2>0, <2>2, <3>1, GotoFits, Zenon
  <2> QED BY <1>17, <2>1, <2>2 DEF WriteTaskData, GiveUp
<1>18. ASSUME NEW h \in known \cup {NoHost}, HandleRspGetClient(h)
      PROVE  WorkerType' /\ Assigned'
  <2>1. UNCHANGED <<worker, OpOf>> /\ retry' \subseteq retry
    BY <1>18 DEF HandleRspGetClient, stopvars
  <2> QED BY <2>1 DEF WorkerType, Assigned, Sound, Fit, Sync
<1>19. CASE Start \/ Stop \/ TakeAll \/ Dispatch
  BY <1>f, <1>19 DEF stopvars, hostvars, Start, Stop, TakeAll, Dispatch
<1>20. CASE EndDispatcher \/ CacheHost \/ Requeue
  BY <1>f, <1>20 DEF stopvars, hostvars, EndDispatcher, CacheHost, Requeue
<1>21. CASE (\E c \in Conn : Req2Receiver_onRead(c) \/ Req2Receiver_onClose(c) \/ Accept(c) \/ receiver_onRead(c))
          \/ (\E c \in Conn : receiver_onClose(c))
  BY <1>f, <1>21 DEF stopvars, hostvars, Req2Receiver_onRead, Req2Receiver_onClose, Accept,
     receiver_onRead, receiver_onClose
<1>22. CASE (\E c \in Conn, i \in Id : NetMsgBusRspSendMsg(c, i))
          \/ (\E h \in Hosts : Move(h))
  BY <1>f, <1>22 DEF stopvars, hostvars, NetMsgBusRspSendMsg, Move
<1>23. CASE UNCHANGED vars
  BY <1>f, <1>23 DEF stopvars, hostvars, vars
<1> QED BY <1>1, <1>2, <1>3, <1>4, <1>5, <1>6, <1>7, <1>8, <1>9, <1>10, <1>11, <1>12, <1>13,
           <1>14, <1>15, <1>16, <1>17, <1>18, <1>19, <1>20, <1>21, <1>22, <1>23
        DEF Next, WorkerStep, CallerStep, DispatcherStep, LookupAnswered

-----------------------------------------------------------------------------
(* What each step does to the lists.                                         *)

LEMMA ListTypes ==
  ASSUME QueueType
  PROVE  qs \in [Slots -> Seq(Id)] /\ Listed(qs) \in SUBSET Id
<1>1. \A t \in Named : named[t] \in Seq(Id)
  BY DEF QueueType
<1>2. answering.tasks \in Seq(Id)
  BY DEF QueueType
<1>3. <<"byname", 0>> \in Named /\ <<"byip", 0>> \in Named
  BY DEF Named
<1> QED BY <1>1, <1>2, <1>3 DEF QueueType, qs, Listed

LEMMA QueuePut ==
  ASSUME QueueType, OnceIn(qs), NEW i \in Id, i \notin Listed(qs), QueueReqTaskToReceiver(i),
         UNCHANGED <<rtask_list, named, waiting, answering>>
  PROVE  OnceIn(qs') /\ Listed(qs') = Listed(qs) \cup {i}
<1>1. "container" \in Slots /\ qs["container"] = container /\ qs \in [Slots -> Seq(Id)]
  BY ListTypes DEF Slots, qs
<1>2. qs' = [qs EXCEPT !["container"] = Append(qs["container"], i)]
  BY DEF qs, Slots, QueueReqTaskToReceiver
<1> QED BY <1>1, <1>2, ListsPut

LEMMA TakeAllMoves ==
  ASSUME QueueType, OnceIn(qs), TakeAll
  PROVE  OnceIn(qs') /\ Listed(qs') = Listed(qs)
<1>1. /\ "container" \in Slots /\ "rtask" \in Slots /\ "container" # "rtask"
      /\ qs["rtask"] = << >> /\ qs \in [Slots -> Seq(Id)]
  BY ListTypes DEF Slots, qs, TakeAll
<1>2. qs' = [qs EXCEPT !["container"] = << >>, !["rtask"] = qs["container"]]
  BY DEF qs, Slots, TakeAll, hostvars
<1> QED BY <1>1, <1>2, ListsMoveAll

LEMMA DispatchShifts ==
  ASSUME QueueType, OnceIn(qs), Dispatch
  PROVE  OnceIn(qs') /\ Listed(qs') = Listed(qs)
<1> DEFINE i == Head(rtask_list)  t == ThreadOf(i)  s == SlotOf(t)
<1>1. t \in Named
  BY DEF ThreadOf, Named
<1>2. /\ "rtask" \in Slots /\ s \in Slots /\ "rtask" # s /\ qs["rtask"] = rtask_list
      /\ qs[s] = named[t] /\ rtask_list # << >> /\ qs \in [Slots -> Seq(Id)]
  BY <1>1, ListTypes, NamedLists DEF Slots, SlotOf, qs, Dispatch
<1>3. /\ rtask_list' = Tail(rtask_list) /\ named' = [named EXCEPT ![t] = Append(named[t], i)]
      /\ UNCHANGED <<container, waiting, answering>>
  BY DEF Dispatch, hostvars
<1> HIDE DEF i, t, s
<1>4. named \in [Named -> Seq(Id)]
  BY DEF QueueType
<1>5. qs' = [qs EXCEPT !["rtask"] = Tail(rtask_list), ![s] = Append(named[t], i)]
  <2>1. CASE t = <<"byname", 0>>
    <3>1. /\ named'[<<"byname", 0>>] = Append(named[t], i)
          /\ named'[<<"byip", 0>>] = named[<<"byip", 0>>]
      BY <1>3, <1>4, <2>1 DEF Named
    <3> QED BY <1>3, <2>1, <3>1 DEF qs, Slots, SlotOf, s
  <2>2. CASE t = <<"byip", 0>>
    <3>1. /\ named'[<<"byip", 0>>] = Append(named[t], i)
          /\ named'[<<"byname", 0>>] = named[<<"byname", 0>>] /\ t # <<"byname", 0>>
      BY <1>3, <1>4, <2>2 DEF Named
    <3> QED BY <1>3, <2>2, <3>1 DEF qs, Slots, SlotOf, s
  <2> QED BY <1>1, <2>1, <2>2 DEF Named
<1>6. qs' = [qs EXCEPT !["rtask"] = Tail(qs["rtask"]), ![s] = Append(qs[s], Head(qs["rtask"]))]
  BY <1>2, <1>5 DEF i
<1> QED BY <1>2, <1>6, ListsShift

LEMMA NextTaskTakes ==
  ASSUME QueueType, OnceIn(qs), NEW t \in Named, NextTask(t)
  PROVE  OnceIn(qs') /\ Listed(qs') = Listed(qs) \ {Head(named[t])}
<1> DEFINE s == SlotOf(t)
<1>1. s \in Slots /\ qs[s] = named[t] /\ named[t] # << >> /\ qs \in [Slots -> Seq(Id)]
  BY ListTypes, NamedLists DEF NextTask
<1>2. /\ named \in [Named -> Seq(Id)] /\ named' = [named EXCEPT ![t] = Tail(named[t])]
      /\ UNCHANGED <<container, rtask_list, waiting, answering>>
  BY DEF QueueType, NextTask, hostvars
<1>3. qs' = [qs EXCEPT ![s] = Tail(named[t])]
  <2>1. CASE t = <<"byname", 0>>
    <3>1. named'[<<"byname", 0>>] = Tail(named[t]) /\ named'[<<"byip", 0>>] = named[<<"byip", 0>>]
      BY <1>2, <2>1 DEF Named
    <3> QED BY <1>2, <2>1, <3>1 DEF qs, Slots, SlotOf
  <2>2. CASE t = <<"byip", 0>>
    <3>1. /\ named'[<<"byip", 0>>] = Tail(named[t]) /\ t # <<"byname", 0>>
          /\ named'[<<"byname", 0>>] = named[<<"byname", 0>>]
      BY <1>2, <2>2 DEF Named
    <3> QED BY <1>2, <2>2, <3>1 DEF qs, Slots, SlotOf
  <2> QED BY <2>1, <2>2 DEF Named
<1> HIDE DEF s
<1>4. qs' = [qs EXCEPT ![s] = Tail(qs[s])]
  BY <1>1, <1>3
<1>5. qs[s] # << >>
  BY <1>1
<1>6. OnceIn(qs') /\ Listed(qs') = Listed(qs) \ {Head(qs[s])}
  BY <1>1, <1>4, <1>5, ListsTake
<1> QED BY <1>1, <1>6

LEMMA WaitingPut ==
  ASSUME QueueType, OnceIn(qs), NEW w, worker[w].id \in Id, worker[w].id \notin Listed(qs), QueueWaiting(w)
  PROVE  OnceIn(qs') /\ Listed(qs') = Listed(qs) \cup {worker[w].id}
<1>1. "waiting" \in Slots /\ qs["waiting"] = waiting /\ qs \in [Slots -> Seq(Id)]
  BY ListTypes DEF Slots, qs
<1>2. waiting' = Append(waiting, worker[w].id) /\ UNCHANGED <<container, rtask_list, named, answering>>
  BY DEF QueueWaiting, quevars
<1>3. qs' = [qs EXCEPT !["waiting"] = Append(qs["waiting"], worker[w].id)]
  BY <1>2 DEF qs, Slots
<1> QED BY <1>1, <1>3, ListsPut

LEMMA AnswerMoves ==
  ASSUME QueueType, OnceIn(qs), NEW h, HandleRspGetClient(h)
  PROVE  /\ OnceIn(qs')
         /\ IF h = NoHost THEN Listed(qs') = Listed(qs) \ ToSet(waiting) ELSE Listed(qs') = Listed(qs)
<1>1. /\ "waiting" \in Slots /\ "answering" \in Slots /\ "waiting" # "answering"
      /\ qs["waiting"] = waiting /\ qs \in [Slots -> Seq(Id)]
  BY ListTypes DEF Slots, qs
<1>2. waiting' = << >> /\ UNCHANGED <<container, rtask_list, named>>
  BY DEF HandleRspGetClient, quevars
<1>3. CASE h = NoHost
  <2>1. qs' = [qs EXCEPT !["waiting"] = << >>]
    BY <1>2, <1>3 DEF HandleRspGetClient, qs, Slots
  <2> QED BY <1>1, <1>3, <2>1, ListsDrop
<1>4. CASE h # NoHost
  <2>1. answering'.tasks = waiting /\ answering.tasks = << >>
    BY <1>4 DEF HandleRspGetClient, NotAnswering
  <2>2. qs["answering"] = << >> /\ qs' = [qs EXCEPT !["waiting"] = << >>, !["answering"] = qs["waiting"]]
    BY <1>2, <2>1 DEF qs, Slots
  <2> QED BY <1>1, <1>4, <2>2, ListsMoveAll
<1> QED BY <1>3, <1>4

LEMMA CacheHostKeeps ==
  ASSUME QueueType, OnceIn(qs), CacheHost
  PROVE  /\ OnceIn(qs') /\ Listed(qs') = Listed(qs)
         /\ answering'.tasks = answering.tasks /\ answering'.at \in {"idle", "requeue"}
         /\ answering'.at = "requeue" <=> answering.tasks # << >>
<1>1. answering'.tasks = answering.tasks /\ answering'.at = IF answering.tasks = << >> THEN "idle" ELSE "requeue"
  BY DEF CacheHost, QueueType, NotAnswering
<1>2. qs' = qs
  BY <1>1 DEF CacheHost, quevars, qs
<1> QED BY <1>1, <1>2

LEMMA LastTail ==
  ASSUME NEW S, NEW q \in Seq(S), q # << >>
  PROVE  Len(q) = 1 <=> Tail(q) = << >>
<1>1. Len(q) \in Nat \ {0} /\ Tail(q) \in Seq(S) /\ Len(Tail(q)) = Len(q) - 1
  OBVIOUS
<1>2. Tail(q) = << >> <=> Len(Tail(q)) = 0
  BY <1>1, EmptySeq
<1> QED BY <1>1, <1>2

LEMMA RequeueShifts ==
  ASSUME QueueType, OnceIn(qs), AnsweringTasks, Requeue
  PROVE  /\ OnceIn(qs') /\ Listed(qs') = Listed(qs)
         /\ answering'.at = "requeue" => answering'.tasks # << >>
         /\ answering'.at = "idle" => answering'.tasks = << >>
<1> DEFINE a == answering.tasks
<1>1. a \in Seq(Id) /\ a # << >>
  BY DEF QueueType, AnsweringTasks, Requeue
<1>2. answering'.tasks = Tail(a) /\ answering'.at = IF Len(a) = 1 THEN "idle" ELSE "requeue"
  <2>1. CASE Len(a) = 1
    <3>1. Tail(a) = << >>
      BY <1>1, <2>1, LastTail
    <3> QED BY <2>1, <3>1 DEF Requeue, NotAnswering
  <2>2. CASE Len(a) # 1
    BY <1>1, <2>2 DEF Requeue, QueueType
  <2> QED BY <2>1, <2>2
<1>3. Len(a) = 1 <=> Tail(a) = << >>
  BY <1>1, LastTail
<1>4. /\ "answering" \in Slots /\ "container" \in Slots /\ "answering" # "container"
      /\ qs["answering"] = a /\ qs["container"] = container /\ qs \in [Slots -> Seq(Id)]
  BY ListTypes DEF Slots, qs
<1>5. container' = Append(container, Head(a)) /\ UNCHANGED <<rtask_list, named, waiting>>
  BY DEF Requeue, QueueReqTaskToReceiver
<1> HIDE DEF a
<1>6. qs' = [qs EXCEPT !["answering"] = Tail(qs["answering"]),
                       !["container"] = Append(qs["container"], Head(qs["answering"]))]
  BY <1>2, <1>4, <1>5 DEF qs, Slots
<1>7. OnceIn(qs') /\ Listed(qs') = Listed(qs)
  BY <1>1, <1>4, <1>6, ListsShift
<1> QED BY <1>2, <1>3, <1>7

-----------------------------------------------------------------------------
(* The places of the requests after a step.                                  *)

Placing == Placed(Listed(qs), held, place, sent, table, made)

LEMMA HandTypes ==
  ASSUME TypeOK
  PROVE  /\ Listed(qs) \in SUBSET Id /\ held \in [Workers -> {0} \cup Id] /\ place \in [Workers -> At]
         /\ sent \in SUBSET Id /\ table \in SUBSET Id /\ made \in Nat
<1>1. /\ Listed(qs) \in SUBSET Id /\ sent \in SUBSET Id /\ table \in SUBSET Id /\ made \in Nat
  BY ListTypes, DirectRequestsAssumption DEF TypeOK, RequestType, HistoryType
<1>2. \A w \in Workers : worker[w].at \in At /\ worker[w].id \in {0} \cup Id
  BY FieldTypes DEF TypeOK
<1>3. held \in [Workers -> {0} \cup Id] /\ place \in [Workers -> At]
  BY <1>2 DEF held, place
<1> QED BY <1>1, <1>3

LEMMA HandMoves ==
  ASSUME NEW w \in Workers, NEW pc, NEW i, NEW h, NEW c, NEW n, Now(w, pc, i, h, c, n)
  PROVE  /\ place' = [place EXCEPT ![w] = pc]
         /\ held' = [held EXCEPT ![w] = IF pc \notin {"idle", "forget", "ask"} THEN i ELSE 0]
<1>1. worker'[w].at = pc /\ worker'[w].id = i /\ \A v \in Workers : v # w => worker'[v] = worker[v]
  BY DEF Now
<1>2. place' = [place EXCEPT ![w] = pc]
  BY <1>1 DEF place
<1>3. held' = [held EXCEPT ![w] = IF pc \notin {"idle", "forget", "ask"} THEN i ELSE 0]
  BY <1>1 DEF held, Carrying
<1> QED BY <1>2, <1>3

LEMMA Carried ==
  ASSUME TypeOK, Assigned, NEW w \in Workers, worker[w].at \notin {"idle", "forget", "ask"}
  PROVE  held[w] = worker[w].id /\ held[w] # 0 /\ held[w] \in Id /\ place[w] = worker[w].at
<1>1. worker[w].id \in Id
  BY DEF Assigned, Sound
<1> QED BY <1>1, IdNat DEF held, place, Carrying

Quiet == UNCHANGED <<container, rtask_list, named, waiting, answering, made>>

LEMMA QuietLists ==
  ASSUME Quiet
  PROVE  qs' = qs /\ made' = made
BY DEF Quiet, qs

Going == {"cache", "enqueue", "get", "count", "connect", "identify", "push", "again", "send"}

LEMMA StepOn ==
  ASSUME TypeOK, Assigned, Placing, NEW w \in Workers, Quiet, UNCHANGED sent,
         worker[w].at \in Going \cup {"lookup"}, NEW pc \in Going, NEW h, NEW c, NEW n,
         Now(w, pc, worker[w].id, h, c, n), table' \subseteq table \cup {worker[w].id}
  PROVE  Placing'
<1>1. held[w] = worker[w].id /\ held[w] # 0 /\ place[w] # "wait"
  BY Carried DEF Going
<1>2. pc \notin {"idle", "forget", "ask", "wait", "lookup"}
  BY DEF Going
<1>3. place' = [place EXCEPT ![w] = pc] /\ held' = [held EXCEPT ![w] = worker[w].id]
  BY <1>2, HandMoves
<1>4. held' = held
  BY <1>1, <1>3, HandTypes
<1>5. Placed(Listed(qs), held, [place EXCEPT ![w] = pc], sent, table', made)
  BY <1>1, <1>2, HandTypes, PlacedOn DEF Placing
<1> QED BY <1>3, <1>4, <1>5, QuietLists DEF Placing

LEMMA StepOff ==
  ASSUME TypeOK, Assigned, Placing, NEW w \in Workers, Quiet, Done(w),
         worker[w].at \notin {"idle", "forget", "ask"},
         sent' \in {sent, sent \cup {worker[w].id}}, table' \subseteq table,
         worker[w].id \in table' => worker[w].id \in sent'
  PROVE  Placing'
<1>1. held[w] = worker[w].id /\ held[w] # 0
  BY Carried
<1>2. Now(w, "idle", 0, NoHost, 0, 0)
  BY DoneIs DEF TypeOK
<1>3. place' = [place EXCEPT ![w] = "idle"] /\ held' = [held EXCEPT ![w] = 0]
  BY <1>2, HandMoves
<1>4. /\ "idle" \notin {"wait", "lookup"} /\ (sent' = sent \/ sent' = sent \cup {held[w]})
      /\ held[w] \in table' => held[w] \in sent'
  BY <1>1
<1>5. Placed(Listed(qs), [held EXCEPT ![w] = 0], [place EXCEPT ![w] = "idle"], sent', table', made)
  <2>1. Placed(Listed(qs), held, place, sent, table, made)
    BY DEF Placing
  <2> QED BY <1>1, <1>4, <2>1, HandTypes, PlacedOff, Zenon
<1> QED BY <1>3, <1>5, QuietLists DEF Placing

LEMMA StepLess ==
  ASSUME TypeOK, Placing, UNCHANGED <<worker, sent, made>>, Listed(qs') \subseteq Listed(qs),
         table' \subseteq table, \A i \in Listed(qs) \ Listed(qs') : i \notin table'
  PROVE  Placing'
<1>1. place' = place /\ held' = held
  BY DEF place, held, Carrying
<1>2. Placed(Listed(qs'), held, place, sent, table', made)
  BY HandTypes, PlacedLess DEF Placing
<1> QED BY <1>1, <1>2 DEF Placing

LEMMA CreateFailsOff ==
  ASSUME TypeOK, Assigned, Placing, NEW w \in Workers, Quiet, UNCHANGED sent,
         worker[w].at \in Going, CreateFails(w)
  PROVE  Placing'
<1>1. CASE worker[w].id \in retry
  <2>1. "enqueue" \in At /\ "enqueue" \in Going
    BY DEF At, Going
  <2>2. Goto(w, "enqueue") /\ table' \subseteq table \cup {worker[w].id}
    BY <1>1 DEF CreateFails
  <2>3. Now(w, "enqueue", worker[w].id, worker[w].host, worker[w].conn, worker[w].need)
    BY <2>1, <2>2, GotoIs DEF TypeOK
  <2> QED BY <2>1, <2>2, <2>3, StepOn
<1>2. CASE worker[w].id \notin retry
  <2>1. Done(w) /\ table' = table \ {worker[w].id} /\ worker[w].at \notin {"idle", "forget", "ask"}
    BY <1>2 DEF CreateFails, GiveUp, Going
  <2> QED BY <2>1, StepOff
<1> QED BY <1>1, <1>2

LEMMA PlacingStep ==
  ASSUME TypeOK, PlaceInv, WorkerType', Next \/ UNCHANGED vars
  PROVE  Placing'
<1>0. TypeOK /\ WorkerType /\ Assigned /\ Placing /\ AnsweringTasks /\ OnceIn(qs) /\ QueueType
  BY DEF TypeOK, PlaceInv, Placing
<1>f. ASSUME UNCHANGED <<worker, container, rtask_list, named, waiting, answering, sent, table, made>>
      PROVE  Placing'
  <2>1. qs' = qs
    BY <1>f DEF qs
  <2> QED BY <1>0, <1>f, <2>1, StepLess
<1>1. ASSUME Stop
      PROVE  Placing'
  <2>1. UNCHANGED <<worker, sent, made>> /\ table' \subseteq table /\ qs' = qs
    BY <1>1 DEF Stop, quevars, hostvars, futvars, qs, safe_clear_bad_future
  <2> QED BY <1>0, <2>1, StepLess
<1>2. ASSUME TakeAll
      PROVE  Placing'
  <2>1. Listed(qs') = Listed(qs)
    BY <1>2, TakeAllMoves, <1>0
  <2>2. UNCHANGED <<worker, sent, made, table>>
    BY <1>2 DEF TakeAll, futvars
  <2> QED BY <1>0, <2>1, <2>2, StepLess
<1>3. ASSUME Dispatch
      PROVE  Placing'
  <2>1. Listed(qs') = Listed(qs)
    BY <1>3, DispatchShifts, <1>0
  <2>2. UNCHANGED <<worker, sent, made, table>>
    BY <1>3 DEF Dispatch, futvars
  <2> QED BY <1>0, <2>1, <2>2, StepLess
<1>4. ASSUME CacheHost
      PROVE  Placing'
  <2>1. Listed(qs') = Listed(qs)
    BY <1>4, CacheHostKeeps, <1>0
  <2>2. UNCHANGED <<worker, sent, made, table>>
    BY <1>4 DEF CacheHost, futvars
  <2> QED BY <1>0, <2>1, <2>2, StepLess
<1>5. ASSUME Requeue
      PROVE  Placing'
  <2>1. Listed(qs') = Listed(qs)
    BY <1>5, RequeueShifts, <1>0
  <2>2. UNCHANGED <<worker, sent, made, table>>
    BY <1>5 DEF Requeue, futvars
  <2> QED BY <1>0, <2>1, <2>2, StepLess
<1>6. ASSUME NEW i \in Id, PostMsgDirectToClient(i)
      PROVE  Placing'
  <2>1. i = made + 1 /\ made' = i /\ UNCHANGED <<worker, sent>>
    BY <1>6 DEF PostMsgDirectToClient
  <2>2. held' = held /\ place' = place
    BY <2>1 DEF held, place, Carrying
  <2>3. CASE m_req2receiver_running
    <3>1. table' = table \cup {i} /\ QueueReqTaskToReceiver(i) /\ UNCHANGED <<rtask_list, named, waiting, answering>>
      BY <1>6, <2>3 DEF PostMsgDirectToClient
    <3>2. i \notin Listed(qs)
      BY <2>1, HandTypes, <1>0 DEF Placing, Placed
    <3>3. Listed(qs') = Listed(qs) \cup {i}
      BY <3>1, <3>2, QueuePut DEF TypeOK, PlaceInv
    <3>4. Placed(Listed(qs) \cup {i}, held, place, sent, table \cup {i}, i)
      BY <2>1, <1>0, HandTypes, PlacedPosted DEF Placing
    <3> QED BY <2>1, <2>2, <3>1, <3>3, <3>4 DEF Placing
  <2>4. CASE ~m_req2receiver_running
    <3>1. qs' = qs /\ table' = table
      BY <1>6, <2>4 DEF PostMsgDirectToClient, qs
    <3>2. Placed(Listed(qs), held, place, sent, table, i)
      BY <2>1, <1>0, HandTypes, PlacedRefused DEF Placing
    <3> QED BY <2>1, <2>2, <3>1, <3>2 DEF Placing
  <2> QED BY <2>3, <2>4
<1>7. ASSUME NEW i \in Id, SendMsgDirectToClient(i)
      PROVE  Placing'
  <2> DEFINE h == IF ByName(i) THEN safe_get_cached_host_info ELSE FirstHost
             pc == IF h = NoHost THEN "lookup" ELSE "get"
  <2>1. h \in Hosts \cup {NoHost} /\ i = made + 1 /\ made' = i /\ UNCHANGED sent /\ qs' = qs
    BY <1>7, FirstHostIs DEF SendMsgDirectToClient, safe_get_cached_host_info, TypeOK, RequestType,
                            quevars, hostvars, qs
  <2>2. CASE ~m_req2receiver_running
    <3>1. UNCHANGED <<worker, table>>
      BY <1>7, <2>2 DEF SendMsgDirectToClient
    <3>2. held' = held /\ place' = place
      BY <3>1 DEF held, place, Carrying
    <3>3. Placed(Listed(qs), held, place, sent, table, i)
      BY <2>1, <1>0, HandTypes, PlacedRefused DEF Placing
    <3> QED BY <2>1, <3>1, <3>2, <3>3 DEF Placing
  <2>3. CASE m_req2receiver_running
    <3>1. /\ worker' = [worker EXCEPT ![Caller(i)] = Task(pc, i, h)]
          /\ table' = IF h = NoHost THEN table ELSE table \cup {i}
      BY <1>7, <2>3 DEF SendMsgDirectToClient
    <3>2. pc \in At /\ pc # "wait" /\ table' \subseteq table \cup {i} /\ (pc = "lookup" => table' = table)
          /\ pc \notin {"idle", "forget", "ask"}
      BY <3>1 DEF At
    <3> HIDE DEF pc, h
    <3>3. Caller(i) \in Workers
      BY WorkerNames
    <3>4. Now(Caller(i), pc, i, h, 0, 0)
      BY <2>1, <3>1, <3>2, <3>3, <1>0, BegunIs
    <3>5. place' = [place EXCEPT ![Caller(i)] = pc] /\ held' = [held EXCEPT ![Caller(i)] = i]
      BY <3>2, <3>3, <3>4, HandMoves
    <3>6. held[Caller(i)] = 0
      <4>1. ASSUME held[Caller(i)] # 0
            PROVE  FALSE
        <5>1. held[Caller(i)] = i
          BY <3>3, <4>1, <1>0 DEF held, Carrying, Assigned, Fit
        <5> QED BY <2>1, <3>3, <4>1, <5>1, <1>0, HandTypes DEF Placing, Placed
      <4> QED BY <4>1
    <3>7. Placed(Listed(qs), [held EXCEPT ![Caller(i)] = i], [place EXCEPT ![Caller(i)] = pc], sent, table', i)
      BY <2>1, <3>2, <3>3, <3>6, <1>0, HandTypes, PlacedSent DEF Placing
    <3> QED BY <2>1, <3>5, <3>7 DEF Placing
  <2> QED BY <2>2, <2>3
<1>8. ASSUME NEW i \in Id, SyncLookup(i)
      PROVE  Placing'
  <2>1. /\ Caller(i) \in Workers /\ worker[Caller(i)].at = "lookup" /\ worker[Caller(i)].id = i
        /\ Quiet /\ UNCHANGED sent
    BY <1>8, WorkerNames, <1>0 DEF SyncLookup, Quiet, quevars, Assigned, Fit
  <2>2. ASSUME NEW h \in known, worker' = [worker EXCEPT ![Caller(i)].at = "get", ![Caller(i)].host = h],
               table' = table \cup {i}
        PROVE  Placing'
    <3>1. "get" \in At /\ "get" \in Going /\ h \in Hosts \cup {NoHost}
          /\ worker[Caller(i)].at \in Going \cup {"lookup"}
      BY <2>1, <2>2 DEF At, Going, TypeOK, ReceiverType
    <3>2. Now(Caller(i), "get", worker[Caller(i)].id, h, worker[Caller(i)].conn, worker[Caller(i)].need)
      BY <2>1, <2>2, <3>1, <1>0, HostIs, Zenon
    <3>3. table' \subseteq table \cup {worker[Caller(i)].id}
      BY <2>1, <2>2
    <3> QED BY <2>1, <3>1, <3>2, <3>3, <1>0, StepOn, Zenon
  <2>3. CASE Done(Caller(i)) /\ UNCHANGED table
    <3>1. held[Caller(i)] = i /\ place[Caller(i)] = "lookup"
      BY <2>1, <1>0, Carried
    <3>2. i \notin table
      BY <2>1, <3>1, <1>0, Zenon DEF Placing, Placed
    <3> QED BY <2>1, <2>3, <3>2, <1>0, StepOff
  <2> QED BY <1>8, <2>2, <2>3 DEF SyncLookup
<1>9. ASSUME NEW i \in Id, Join(i)
      PROVE  Placing'
  <2>1. /\ Caller(i) \in Workers /\ worker[Caller(i)].at = "wait" /\ worker[Caller(i)].id = i
        /\ Quiet /\ UNCHANGED sent /\ Done(Caller(i))
    BY <1>9, WorkerNames, <1>0 DEF Join, GiveUp, Quiet, quevars, hostvars, Assigned, Fit
  <2>2. held[Caller(i)] = i /\ held[Caller(i)] # 0 /\ place[Caller(i)] = "wait"
    BY <2>1, <1>0, Carried
  <2>3. i \in sent
    BY <2>1, <2>2, <1>0, Zenon DEF Placing, Placed
  <2>4. UNCHANGED table
    BY <1>9 DEF Join, futvars
  <2> QED BY <2>1, <2>3, <2>4, <1>0, StepOff
<1>10. ASSUME NEW i \in Id, Timeout(i)
      PROVE  Placing'
  <2>1. /\ Caller(i) \in Workers /\ worker[Caller(i)].at = "wait" /\ worker[Caller(i)].id = i
        /\ Quiet /\ UNCHANGED sent /\ Done(Caller(i))
    BY <1>10, WorkerNames, <1>0 DEF Timeout, GiveUp, Quiet, quevars, hostvars, Assigned, Fit
  <2>2. table' = table \ {worker[Caller(i)].id}
    BY <1>10 DEF Timeout, GiveUp
  <2> QED BY <2>1, <2>2, <1>0, StepOff
<1>11. ASSUME NEW t \in Named, NextTask(t)
      PROVE  Placing'
  <2> DEFINE i == Head(named[t])
  <2>1. i \in Listed(qs) /\ i \in Id /\ OnceIn(qs) /\ QueueType
    BY <1>11, HeadListed DEF NextTask, TypeOK, PlaceInv
  <2>2. Listed(qs') = Listed(qs) \ {i}
    BY <1>11, <2>1, NextTaskTakes
  <2>3. \/ worker' = [worker EXCEPT ![t] = Task("cache", i, NoHost)]
        \/ worker' = [worker EXCEPT ![t] = Task("get", i, FirstHost)]
    BY <1>11 DEF NextTask
  <2> HIDE DEF i
  <2>4. t \in Workers /\ worker[t].at = "idle" /\ UNCHANGED <<sent, table, made>>
    BY <1>11, WorkerNames DEF NextTask, futvars
  <2>5. "cache" \in At /\ "get" \in At /\ NoHost \in Hosts \cup {NoHost} /\ FirstHost \in Hosts \cup {NoHost}
    BY FirstHostIs DEF At
  <2>6. PICK pc \in {"cache", "get"}, h \in Hosts \cup {NoHost} : Now(t, pc, i, h, 0, 0)
    BY <2>1, <2>3, <2>4, <2>5, <1>0, BegunIs
  <2>7. pc \notin {"wait", "lookup"} /\ pc \notin {"idle", "forget", "ask"} /\ held[t] = 0
    BY <2>4 DEF held, Carrying
  <2>8. place' = [place EXCEPT ![t] = pc] /\ held' = [held EXCEPT ![t] = i]
    BY <2>4, <2>6, <2>7, HandMoves
  <2>9. Placed(Listed(qs) \ {i}, [held EXCEPT ![t] = i], [place EXCEPT ![t] = pc], sent, table, made)
    BY <2>1, <2>4, <2>7, <1>0, HandTypes, PlacedBegun DEF Placing
  <2> QED BY <2>2, <2>4, <2>8, <2>9 DEF Placing
<1>12. ASSUME NEW w \in Workers, ReadCache(w)
      PROVE  Placing'
  <2>0. worker[w].at = "cache" /\ worker[w].at \in Going /\ Quiet /\ UNCHANGED sent
    BY <1>12 DEF ReadCache, Going, Quiet, quevars, hostvars
  <2>1. CASE /\ safe_get_cached_host_info # NoHost /\ UNCHANGED table
             /\ worker' = [worker EXCEPT ![w].at = "get", ![w].host = safe_get_cached_host_info]
    <3> DEFINE h == safe_get_cached_host_info
    <3>1. "get" \in At /\ "get" \in Going /\ h \in Hosts \cup {NoHost}
      BY DEF At, Going, TypeOK, RequestType, safe_get_cached_host_info
    <3> HIDE DEF h
    <3>2. Now(w, "get", worker[w].id, h, worker[w].conn, worker[w].need)
      BY <2>1, <3>1, <1>0, HostIs DEF h
    <3>3. table' \subseteq table \cup {worker[w].id}
      BY <2>1
    <3> QED BY <2>0, <3>1, <3>2, <3>3, <1>0, StepOn, Zenon
  <2>2. CASE Goto(w, "enqueue") /\ UNCHANGED table
    <3>1. "enqueue" \in At /\ "enqueue" \in Going
      BY DEF At, Going
    <3>2. Now(w, "enqueue", worker[w].id, worker[w].host, worker[w].conn, worker[w].need)
      BY <2>2, <3>1, <1>0, GotoIs
    <3>3. table' \subseteq table \cup {worker[w].id}
      BY <2>2
    <3> QED BY <2>0, <3>1, <3>2, <3>3, <1>0, StepOn, Zenon
  <2>3. CASE GiveUp(w)
    <3>1. Done(w) /\ table' = table \ {worker[w].id} /\ worker[w].at \notin {"idle", "forget", "ask"}
      BY <2>0, <2>3 DEF GiveUp, Going
    <3> QED BY <2>0, <3>1, <1>0, StepOff
  <2> QED BY <1>12, <2>1, <2>2, <2>3 DEF ReadCache
<1>13. ASSUME NEW w \in Workers, QueueWaiting(w)
      PROVE  Placing'
  <2>1. worker[w].at = "enqueue" /\ UNCHANGED <<sent, table, made>>
    BY <1>13 DEF QueueWaiting, futvars
  <2>2. held[w] = worker[w].id /\ held[w] # 0 /\ held[w] \in Id /\ place[w] # "wait"
    BY <2>1, <1>0, Carried
  <2>3. held[w] \notin Listed(qs)
    BY <2>2, <1>0, Zenon DEF Placing, Placed
  <2>4. Listed(qs') = Listed(qs) \cup {held[w]}
    BY <1>13, <2>2, <2>3, WaitingPut DEF TypeOK, PlaceInv
  <2>5. PICK pc \in {"ask", "forget"} : Goto(w, pc)
    BY <1>13 DEF QueueWaiting
  <2>6. pc \in At /\ pc \notin {"wait", "lookup"} /\ ~(pc \notin {"idle", "forget", "ask"})
    BY DEF At
  <2>7. Now(w, pc, worker[w].id, worker[w].host, worker[w].conn, worker[w].need)
    BY <2>5, <2>6, <1>0, GotoIs
  <2>8. place' = [place EXCEPT ![w] = pc] /\ held' = [held EXCEPT ![w] = 0]
    BY <2>6, <2>7, HandMoves
  <2>9. Placed(Listed(qs) \cup {held[w]}, [held EXCEPT ![w] = 0], [place EXCEPT ![w] = pc], sent, table, made)
    BY <2>2, <2>6, <1>0, HandTypes, PlacedAside DEF Placing
  <2> QED BY <2>1, <2>4, <2>8, <2>9 DEF Placing
<1>14. ASSUME NEW w \in Workers, Forget(w)
      PROVE  Placing'
  <2>1. worker[w].at = "forget" /\ Quiet /\ UNCHANGED <<sent, table>>
    BY <1>14 DEF Forget, futvars, Quiet, quevars
  <2>2. PICK i : Now(w, "ask", i, worker[w].host, worker[w].conn, worker[w].need)
    <3>1. "ask" \in At /\ Goto(w, "ask")
      BY <1>14 DEF At, Forget
    <3> QED BY <3>1, <1>0, GotoIs
  <2>3. held[w] = 0 /\ "ask" \notin {"wait", "lookup"}
    BY <2>1 DEF held, Carrying
  <2>4. place' = [place EXCEPT ![w] = "ask"] /\ held' = [held EXCEPT ![w] = 0]
    BY <2>2, HandMoves
  <2>5. held' = held
    BY <2>3, <2>4, HandTypes
  <2>6. Placed(Listed(qs), held, [place EXCEPT ![w] = "ask"], sent, table, made)
    BY <2>3, <1>0, HandTypes, PlacedIdle DEF Placing
  <2> QED BY <2>1, <2>4, <2>5, <2>6, QuietLists DEF Placing
<1>15. ASSUME NEW w \in Workers, AskServer(w)
      PROVE  Placing'
  <2>1. worker[w].at = "ask" /\ Quiet /\ UNCHANGED <<sent, table>>
    BY <1>15 DEF AskServer, futvars, Quiet, quevars
  <2>2. PICK i : Now(w, "idle", i, NoHost, 0, 0)
    BY <1>15, <1>0, DoneIs DEF AskServer
  <2>3. held[w] = 0 /\ "idle" \notin {"wait", "lookup"}
    BY <2>1 DEF held, Carrying
  <2>4. place' = [place EXCEPT ![w] = "idle"] /\ held' = [held EXCEPT ![w] = 0]
    BY <2>2, HandMoves
  <2>5. held' = held
    BY <2>3, <2>4, HandTypes
  <2>6. Placed(Listed(qs), held, [place EXCEPT ![w] = "idle"], sent, table, made)
    BY <2>3, <1>0, HandTypes, PlacedIdle DEF Placing
  <2> QED BY <2>1, <2>4, <2>5, <2>6, QuietLists DEF Placing
<1>16. ASSUME NEW w \in Workers, FindConnection(w)
      PROVE  Placing'
  <2>0. worker[w].at = "get" /\ worker[w].at \in Going /\ Quiet /\ UNCHANGED sent
    BY <1>16 DEF FindConnection, Going, Quiet, quevars, hostvars
  <2>1. ASSUME NEW c \in Conn, Now(w, "send", worker[w].id, worker[w].host, c, worker[w].need), UNCHANGED table
        PROVE  Placing'
    <3>1. "send" \in Going /\ table' \subseteq table \cup {worker[w].id}
      BY <2>1 DEF Going
    <3> QED BY <2>0, <2>1, <3>1, <1>0, StepOn, Zenon
  <2>2. CASE Goto(w, "count") /\ UNCHANGED table
    <3>1. "count" \in At /\ "count" \in Going
      BY DEF At, Going
    <3>2. Now(w, "count", worker[w].id, worker[w].host, worker[w].conn, worker[w].need)
      BY <2>2, <3>1, <1>0, GotoIs
    <3>3. table' \subseteq table \cup {worker[w].id}
      BY <2>2
    <3> QED BY <2>0, <3>1, <3>2, <3>3, <1>0, StepOn, Zenon
  <2>3. \/ \E c \in Conn : Now(w, "send", worker[w].id, worker[w].host, c, worker[w].need) /\ UNCHANGED table
        \/ Goto(w, "count") /\ UNCHANGED table
    BY <1>16, <2>0, <1>0, GetIs DEF FindConnection
  <2> QED BY <2>1, <2>2, <2>3
<1>17. ASSUME NEW w \in Workers, CountMissing(w)
      PROVE  Placing'
  <2>0. worker[w].at = "count" /\ worker[w].at \in Going /\ Quiet /\ UNCHANGED sent
    BY <1>17 DEF CountMissing, Going, Quiet, quevars, hostvars
  <2>1. UNCHANGED table
    BY <1>17 DEF CountMissing, futvars
  <2>2. PICK pc \in {"connect", "again"} : worker'[w].at = pc
    BY <1>17, <1>0 DEF CountMissing, Goto, WorkerType
  <2>3. /\ worker'[w].id = worker[w].id /\ worker'[w].host = worker[w].host
        /\ \A v \in Workers : v # w => worker'[v] = worker[v]
    BY <1>17, <1>0 DEF CountMissing, Goto, WorkerType
  <2>4. Now(w, pc, worker[w].id, worker[w].host, worker'[w].conn, worker'[w].need)
    BY <2>2, <2>3, <1>0 DEF Now
  <2>5. pc \in Going /\ table' \subseteq table \cup {worker[w].id}
    BY <2>1 DEF Going
  <2> QED BY <2>0, <2>4, <2>5, <1>0, StepOn, Zenon
<1>18. ASSUME NEW w \in Workers, Connect(w)
      PROVE  Placing'
  <2>0. worker[w].at = "connect" /\ worker[w].at \in Going /\ Quiet /\ UNCHANGED sent
    BY <1>18 DEF Connect, Going, Quiet, quevars, hostvars
  <2>1. ASSUME NEW c \in Conn, worker' = [worker EXCEPT ![w].at = "identify", ![w].conn = c], UNCHANGED table
        PROVE  Placing'
    <3>1. "identify" \in At /\ "identify" \in Going /\ table' \subseteq table \cup {worker[w].id}
      BY <2>1 DEF At, Going
    <3>2. Now(w, "identify", worker[w].id, worker[w].host, c, worker[w].need)
      BY <2>1, <3>1, <1>0, ConnIs, Zenon
    <3> QED BY <2>0, <3>1, <3>2, <1>0, StepOn, Zenon
  <2>2. CASE CreateFails(w)
    BY <2>0, <2>2, <1>0, CreateFailsOff
  <2> QED BY <1>18, <2>1, <2>2 DEF Connect
<1>19. ASSUME NEW w \in Workers, Identify(w)
      PROVE  Placing'
  <2>0. worker[w].at = "identify" /\ worker[w].at \in Going /\ Quiet /\ UNCHANGED sent
    BY <1>19 DEF Identify, Going, Quiet, quevars, hostvars
  <2>1. CASE Goto(w, "push") /\ UNCHANGED table
    <3>1. "push" \in At /\ "push" \in Going
      BY DEF At, Going
    <3>2. Now(w, "push", worker[w].id, worker[w].host, worker[w].conn, worker[w].need)
      BY <2>1, <3>1, <1>0, GotoIs
    <3>3. table' \subseteq table \cup {worker[w].id}
      BY <2>1
    <3> QED BY <2>0, <3>1, <3>2, <3>3, <1>0, StepOn, Zenon
  <2>2. CASE CreateFails(w)
    BY <2>0, <2>2, <1>0, CreateFailsOff
  <2> QED BY <1>19, <2>1, <2>2 DEF Identify
<1>20. ASSUME NEW w \in Workers, Push(w)
      PROVE  Placing'
  <2>0. worker[w].at = "push" /\ worker[w].at \in Going /\ Quiet /\ UNCHANGED sent
    BY <1>20 DEF Push, Going, Quiet, quevars, hostvars
  <2>1. UNCHANGED table
    BY <1>20 DEF Push, futvars
  <2>2. PICK pc \in {"connect", "again"} : worker'[w].at = pc
    BY <1>20, <1>0 DEF Push, WorkerType
  <2>3. /\ worker'[w].id = worker[w].id /\ worker'[w].host = worker[w].host
        /\ \A v \in Workers : v # w => worker'[v] = worker[v]
    BY <1>20, <1>0 DEF Push, WorkerType
  <2>4. Now(w, pc, worker[w].id, worker[w].host, worker'[w].conn, worker'[w].need)
    BY <2>2, <2>3, <1>0 DEF Now
  <2>5. pc \in Going /\ table' \subseteq table \cup {worker[w].id}
    BY <2>1 DEF Going
  <2> QED BY <2>0, <2>4, <2>5, <1>0, StepOn, Zenon
<1>21. ASSUME NEW w \in Workers, FindAgain(w)
      PROVE  Placing'
  <2>0. worker[w].at = "again" /\ worker[w].at \in Going /\ Quiet /\ UNCHANGED sent
    BY <1>21 DEF FindAgain, Going, Quiet, quevars, hostvars
  <2>1. ASSUME NEW c \in Conn, Now(w, "send", worker[w].id, worker[w].host, c, worker[w].need), UNCHANGED table
        PROVE  Placing'
    <3>1. "send" \in Going /\ table' \subseteq table \cup {worker[w].id}
      BY <2>1 DEF Going
    <3> QED BY <2>0, <2>1, <3>1, <1>0, StepOn, Zenon
  <2>2. CASE GiveUp(w)
    <3>1. Done(w) /\ table' = table \ {worker[w].id} /\ worker[w].at \notin {"idle", "forget", "ask"}
      BY <2>0, <2>2 DEF GiveUp, Going
    <3> QED BY <2>0, <3>1, <1>0, StepOff
  <2>3. \/ \E c \in Conn : Now(w, "send", worker[w].id, worker[w].host, c, worker[w].need) /\ UNCHANGED table
        \/ GiveUp(w)
    BY <1>21, <2>0, <1>0, GetIs DEF FindAgain
  <2> QED BY <2>1, <2>2, <2>3
<1>22. ASSUME NEW w \in Workers, WriteTaskData(w)
      PROVE  Placing'
  <2>0. worker[w].at = "send" /\ worker[w].at \in Going /\ Quiet
    BY <1>22 DEF WriteTaskData, Going, Quiet, quevars, hostvars
  <2>1. worker[w].at \notin {"idle", "forget", "ask"}
    BY <2>0
  <2>2. CASE sent' = sent \cup {worker[w].id} /\ Done(w) /\ UNCHANGED table
    BY <2>0, <2>1, <2>2, <1>0, StepOff
  <2>3. CASE sent' \in {sent, sent \cup {worker[w].id}} /\ GiveUp(w)
    BY <2>0, <2>1, <2>3, <1>0, StepOff DEF GiveUp
  <2>4. CASE sent' = sent \cup {worker[w].id} /\ Goto(w, "wait") /\ UNCHANGED table
    <3>1. held[w] = worker[w].id /\ held[w] # 0 /\ "wait" \in At
      BY <2>1, <1>0, Carried DEF At
    <3>2. Now(w, "wait", worker[w].id, worker[w].host, worker[w].conn, worker[w].need)
      BY <2>4, <3>1, <1>0, GotoIs
    <3>3. place' = [place EXCEPT ![w] = "wait"] /\ held' = [held EXCEPT ![w] = worker[w].id]
      BY <3>2, HandMoves
    <3>4. held' = held
      BY <3>1, <3>3, HandTypes
    <3>5. Placed(Listed(qs), held, [place EXCEPT ![w] = "wait"], sent \cup {held[w]}, table, made)
      BY <3>1, <1>0, HandTypes, PlacedWritten DEF Placing
    <3> QED BY <2>0, <2>4, <3>1, <3>3, <3>4, <3>5, QuietLists DEF Placing
  <2> QED BY <1>22, <2>2, <2>3, <2>4 DEF WriteTaskData
<1>23. ASSUME NEW h \in known \cup {NoHost}, HandleRspGetClient(h)
      PROVE  Placing'
  <2>1. UNCHANGED <<worker, sent, made>>
    BY <1>23 DEF HandleRspGetClient
  <2>2. CASE h = NoHost
    <3>1. Listed(qs') = Listed(qs) \ ToSet(waiting) /\ table' = table \ ToSet(waiting)
      BY <1>23, <2>2, AnswerMoves DEF HandleRspGetClient, TypeOK, PlaceInv
    <3> QED BY <1>0, <2>1, <3>1, StepLess
  <2>3. CASE h # NoHost
    <3>1. Listed(qs') = Listed(qs) /\ table' = table
      BY <1>23, <2>3, AnswerMoves DEF HandleRspGetClient, TypeOK, PlaceInv
    <3> QED BY <1>0, <2>1, <3>1, StepLess
  <2> QED BY <2>2, <2>3
<1>24. ASSUME NEW c \in Conn, Req2Receiver_onRead(c)
      PROVE  Placing'
  <2>1. UNCHANGED <<worker, sent, made>> /\ table' \subseteq table /\ qs' = qs
    BY <1>24 DEF Req2Receiver_onRead, quevars, hostvars, futvars, qs
  <2> QED BY <1>0, <2>1, StepLess
<1>25. ASSUME NEW c \in Conn, Req2Receiver_onClose(c)
      PROVE  Placing'
  <2>1. UNCHANGED <<worker, sent, made>> /\ table' \subseteq table /\ qs' = qs
    BY <1>25 DEF Req2Receiver_onClose, quevars, hostvars, futvars, qs, safe_clear_bad_future
  <2> QED BY <1>0, <2>1, StepLess
<1>26. CASE Start \/ EndDispatcher
          \/ (\E c \in Conn : Accept(c) \/ receiver_onRead(c) \/ receiver_onClose(c))
  BY <1>f, <1>26 DEF quevars, hostvars, futvars, Start, EndDispatcher, Accept, receiver_onRead,
     receiver_onClose
<1>27. CASE (\E c \in Conn, i \in Id : NetMsgBusRspSendMsg(c, i))
          \/ (\E h \in Hosts : Move(h))
  BY <1>f, <1>27 DEF quevars, hostvars, futvars, NetMsgBusRspSendMsg, Move
<1>28. CASE UNCHANGED vars
  BY <1>f, <1>28 DEF quevars, hostvars, futvars, vars
<1> QED BY <1>1, <1>2, <1>3, <1>4, <1>5, <1>6, <1>7, <1>8, <1>9, <1>10, <1>11, <1>12, <1>13,
           <1>14, <1>15, <1>16, <1>17, <1>18, <1>19, <1>20, <1>21, <1>22, <1>23, <1>24, <1>25,
           <1>26, <1>27, <1>28
        DEF Next, WorkerStep, CallerStep, DispatcherStep, LookupAnswered

LEMMA PostedStays ==
  ASSUME Posted, UNCHANGED OpOf, \A i \in Listed(qs') : i \in Listed(qs) \/ ~Sync(i)
  PROVE  Posted'
BY DEF Posted, Sync

LEMMA ListsStep ==
  ASSUME TypeOK, PlaceInv, Next \/ UNCHANGED vars
  PROVE  (OnceIn(qs) /\ Posted /\ AnsweringTasks)'
<1>0. /\ TypeOK /\ WorkerType /\ Assigned /\ Placing /\ AnsweringTasks /\ OnceIn(qs) /\ Posted
      /\ QueueType
  BY DEF TypeOK, PlaceInv, Placing
<1>f. ASSUME UNCHANGED <<container, rtask_list, named, waiting, answering, OpOf>>
      PROVE  (OnceIn(qs) /\ Posted /\ AnsweringTasks)'
  <2>1. qs' = qs
    BY <1>f DEF qs
  <2>2. Posted'
    BY <1>0, <1>f, <2>1, PostedStays
  <2> QED BY <1>0, <1>f, <2>1, <2>2 DEF AnsweringTasks
<1>1. ASSUME TakeAll
      PROVE  (OnceIn(qs) /\ Posted /\ AnsweringTasks)'
  <2>1. OnceIn(qs') /\ Listed(qs') = Listed(qs)
    BY <1>1, <1>0, TakeAllMoves
  <2>2. UNCHANGED OpOf
    BY <1>1 DEF TakeAll, stopvars
  <2>3. AnsweringTasks'
    BY <1>1, <1>0 DEF AnsweringTasks, TakeAll, hostvars
  <2>4. Posted'
    BY <1>0, <2>1, <2>2, PostedStays
  <2> QED BY <2>1, <2>3, <2>4
<1>2. ASSUME Dispatch
      PROVE  (OnceIn(qs) /\ Posted /\ AnsweringTasks)'
  <2>1. OnceIn(qs') /\ Listed(qs') = Listed(qs)
    BY <1>2, <1>0, DispatchShifts
  <2>2. UNCHANGED OpOf
    BY <1>2 DEF Dispatch, stopvars
  <2>3. AnsweringTasks'
    BY <1>2, <1>0 DEF AnsweringTasks, Dispatch, hostvars
  <2>4. Posted'
    BY <1>0, <2>1, <2>2, PostedStays
  <2> QED BY <2>1, <2>3, <2>4
<1>3. ASSUME CacheHost
      PROVE  (OnceIn(qs) /\ Posted /\ AnsweringTasks)'
  <2>1. OnceIn(qs') /\ Listed(qs') = Listed(qs)
    BY <1>3, <1>0, CacheHostKeeps
  <2>2. UNCHANGED OpOf
    BY <1>3 DEF CacheHost, stopvars
  <2>3. AnsweringTasks'
    BY <1>3, <1>0, CacheHostKeeps DEF AnsweringTasks
  <2>4. Posted'
    BY <1>0, <2>1, <2>2, PostedStays
  <2> QED BY <2>1, <2>3, <2>4
<1>4. ASSUME Requeue
      PROVE  (OnceIn(qs) /\ Posted /\ AnsweringTasks)'
  <2>1. OnceIn(qs') /\ Listed(qs') = Listed(qs)
    BY <1>4, <1>0, RequeueShifts
  <2>2. UNCHANGED OpOf
    BY <1>4 DEF Requeue, stopvars
  <2>3. AnsweringTasks'
    BY <1>4, <1>0, RequeueShifts DEF AnsweringTasks
  <2>4. Posted'
    BY <1>0, <2>1, <2>2, PostedStays
  <2> QED BY <2>1, <2>3, <2>4
<1>5. ASSUME NEW i \in Id, PostMsgDirectToClient(i)
      PROVE  (OnceIn(qs) /\ Posted /\ AnsweringTasks)'
  <2>1. i = made + 1 /\ ~Sync(i) /\ UNCHANGED <<OpOf, answering>>
    BY <1>5 DEF PostMsgDirectToClient, stopvars
  <2>2. i \notin Listed(qs)
    BY <1>0, <2>1, HandTypes DEF Placing, Placed
  <2>3. OnceIn(qs') /\ Listed(qs') \subseteq Listed(qs) \cup {i}
    <3>1. CASE m_req2receiver_running
      <4>1. QueueReqTaskToReceiver(i) /\ UNCHANGED <<rtask_list, named, waiting, answering>>
        BY <1>5, <3>1 DEF PostMsgDirectToClient
      <4> QED BY <1>0, <2>2, <4>1, QueuePut
    <3>2. CASE ~m_req2receiver_running
      <4>1. qs' = qs
        BY <1>5, <3>2 DEF PostMsgDirectToClient, qs
      <4> QED BY <1>0, <4>1
    <3> QED BY <3>1, <3>2
  <2>4. Posted'
    BY <1>0, <2>1, <2>3, PostedStays
  <2> QED BY <1>0, <2>1, <2>3, <2>4 DEF AnsweringTasks
<1>6. ASSUME NEW t \in Named, NextTask(t)
      PROVE  (OnceIn(qs) /\ Posted /\ AnsweringTasks)'
  <2>1. OnceIn(qs') /\ Listed(qs') \subseteq Listed(qs)
    BY <1>6, <1>0, NextTaskTakes
  <2>2. UNCHANGED OpOf
    BY <1>6 DEF NextTask, stopvars
  <2>3. AnsweringTasks'
    BY <1>6, <1>0 DEF AnsweringTasks, NextTask, hostvars
  <2>4. Posted'
    BY <1>0, <2>1, <2>2, PostedStays
  <2> QED BY <2>1, <2>3, <2>4
<1>7. ASSUME NEW w \in Workers, QueueWaiting(w)
      PROVE  (OnceIn(qs) /\ Posted /\ AnsweringTasks)'
  <2>1. worker[w].at = "enqueue" /\ UNCHANGED <<OpOf, answering>>
    BY <1>7 DEF QueueWaiting, stopvars
  <2>2. held[w] = worker[w].id /\ held[w] # 0 /\ held[w] \in Id
    BY <2>1, <1>0, Carried
  <2>3. held[w] \notin Listed(qs)
    BY <2>2, <1>0, Zenon DEF Placing, Placed
  <2>4. OnceIn(qs') /\ Listed(qs') = Listed(qs) \cup {worker[w].id}
    BY <1>7, <1>0, <2>2, <2>3, WaitingPut
  <2>5. w \in Named
    BY <2>1, <1>0, RetryNamed
  <2>6. ~Sync(worker[w].id)
    BY <2>1, <2>5, <1>0 DEF Assigned, Fit
  <2>7. Posted'
    BY <1>0, <2>1, <2>4, <2>6, PostedStays
  <2> QED BY <1>0, <2>1, <2>4, <2>7 DEF AnsweringTasks
<1>8. ASSUME NEW h \in known \cup {NoHost}, HandleRspGetClient(h)
      PROVE  (OnceIn(qs) /\ Posted /\ AnsweringTasks)'
  <2>1. OnceIn(qs') /\ Listed(qs') \subseteq Listed(qs)
    BY <1>8, <1>0, AnswerMoves
  <2>2. UNCHANGED OpOf
    BY <1>8 DEF HandleRspGetClient, stopvars
  <2>3. Posted'
    BY <1>0, <2>1, <2>2, PostedStays
  <2>4. AnsweringTasks'
    BY <1>8, <1>0 DEF HandleRspGetClient, AnsweringTasks
  <2> QED BY <2>1, <2>3, <2>4
<1>9. CASE Start \/ Stop \/ EndDispatcher
  BY <1>f, <1>9 DEF stopvars, quevars, hostvars, Start, Stop, EndDispatcher
<1>10. CASE (\E i \in Id : SendMsgDirectToClient(i) \/ SyncLookup(i) \/ Join(i) \/ Timeout(i))
  BY <1>f, <1>10 DEF stopvars, quevars, hostvars, SendMsgDirectToClient, SyncLookup, Join, Timeout
<1>11. CASE (\E w \in Workers : ReadCache(w) \/ Forget(w) \/ AskServer(w) \/ FindConnection(w))
  BY <1>f, <1>11 DEF stopvars, quevars, hostvars, ReadCache, Forget, AskServer, FindConnection
<1>12. CASE (\E w \in Workers : CountMissing(w) \/ Connect(w) \/ Identify(w) \/ Push(w))
  BY <1>f, <1>12 DEF stopvars, quevars, hostvars, CountMissing, Connect, Identify, Push
<1>13. CASE (\E w \in Workers : FindAgain(w) \/ WriteTaskData(w))
  BY <1>f, <1>13 DEF stopvars, quevars, hostvars, FindAgain, WriteTaskData
<1>14. CASE (\E c \in Conn : Req2Receiver_onRead(c) \/ Req2Receiver_onClose(c) \/ Accept(c) \/ receiver_onRead(c))
          \/ (\E c \in Conn : receiver_onClose(c))
  BY <1>f, <1>14 DEF stopvars, quevars, hostvars, Req2Receiver_onRead, Req2Receiver_onClose,
     Accept, receiver_onRead, receiver_onClose
<1>15. CASE (\E c \in Conn, i \in Id : NetMsgBusRspSendMsg(c, i))
          \/ (\E h \in Hosts : Move(h))
  BY <1>f, <1>15 DEF stopvars, quevars, hostvars, NetMsgBusRspSendMsg, Move
<1>16. CASE UNCHANGED vars
  BY <1>f, <1>16 DEF stopvars, quevars, hostvars, vars
<1> QED BY <1>1, <1>2, <1>3, <1>4, <1>5, <1>6, <1>7, <1>8, <1>9, <1>10, <1>11, <1>12, <1>13,
           <1>14, <1>15, <1>16
        DEF Next, WorkerStep, CallerStep, DispatcherStep, LookupAnswered

(* Every step keeps each request in its place.                               *)
LEMMA PlaceStep ==
  ASSUME TypeOK, PlaceInv, Next \/ UNCHANGED vars
  PROVE  WorkerType' /\ PlaceInv'
<1>1. WorkerType' /\ Assigned'
  BY AssignedStep
<1>2. Placing'
  BY <1>1, PlacingStep
<1>3. (OnceIn(qs) /\ Posted /\ AnsweringTasks)'
  BY ListsStep
<1> QED BY <1>1, <1>2, <1>3 DEF PlaceInv, Placing

-----------------------------------------------------------------------------
(* The pool.                                                                 *)

LEMMA OfRemove ==
  ASSUME NEW S, NEW q \in Seq(S), NoDup(q), NEW e
  PROVE  /\ RemoveFirst(q, e) \in Seq(S) /\ NoDup(RemoveFirst(q, e))
         /\ \A x : Has(RemoveFirst(q, e), x) => Has(q, x)
<1>1. CASE ~Has(q, e)
  BY <1>1 DEF RemoveFirst, Has
<1>2. CASE Has(q, e)
  <2>1. PICK i \in 1..Len(q) : q[i] = e
    BY <1>2 DEF Has
  <2>2. {j \in 1..Len(q) : q[j] = e} = {i}
    BY <2>1 DEF NoDup
  <2>3. Min({i}) = i
    BY <2>1 DEF Min
  <2> DEFINE r == SubSeq(q, 1, i - 1) \o SubSeq(q, i + 1, Len(q))
  <2>4. RemoveFirst(q, e) = r
    BY <1>2, <2>2, <2>3 DEF RemoveFirst, RemoveAt, SelectInSeq, Has
  <2>5. /\ r \in Seq(S) /\ Len(r) = Len(q) - 1 /\ Len(q) \in Nat
        /\ \A k \in 1..Len(r) : r[k] = IF k < i THEN q[k] ELSE q[k + 1]
    <3> DEFINE a == SubSeq(q, 1, i - 1)  b == SubSeq(q, i + 1, Len(q))
    <3>1. Len(q) \in Nat /\ i - 1 \in 0..Len(q) /\ i + 1 \in 1..Len(q) + 1
      BY <2>1
    <3>2. a \in Seq(S) /\ Len(a) = i - 1 /\ \A k \in 1..i - 1 : a[k] = q[k]
      BY <3>1
    <3>3. b \in Seq(S) /\ Len(b) = Len(q) - i /\ \A k \in 1..Len(q) - i : b[k] = q[i + k]
      BY <3>1
    <3> HIDE DEF a, b
    <3>0. r = a \o b
      BY DEF a, b
    <3> HIDE DEF r
    <3>4. r \in Seq(S) /\ Len(r) = Len(a) + Len(b)
          /\ \A k \in 1..Len(a) + Len(b) : r[k] = IF k <= Len(a) THEN a[k] ELSE b[k - Len(a)]
      BY <3>0, <3>2, <3>3, ConcatProperties
    <3>5. Len(r) = Len(q) - 1
      BY <3>1, <3>2, <3>3, <3>4
    <3>6. ASSUME NEW k \in 1..Len(r)
          PROVE  r[k] = IF k < i THEN q[k] ELSE q[k + 1]
      <4>1. CASE k < i
        BY <3>1, <3>2, <3>3, <3>4, <4>1
      <4>2. CASE ~(k < i)
        <5>1. k - (i - 1) \in 1..Len(q) - i /\ i + (k - (i - 1)) = k + 1
          BY <3>1, <3>5, <4>2
        <5> QED BY <3>1, <3>2, <3>3, <3>4, <4>2, <5>1
      <4> QED BY <4>1, <4>2
    <3> QED BY <3>1, <3>4, <3>5, <3>6
  <2> HIDE DEF r
  <2>6. \A k \in 1..Len(r) : k \in 1..Len(q) /\ k + 1 \in 1..Len(q)
    BY <2>5
  <2>7. \A x : Has(r, x) => Has(q, x)
    BY <2>5, <2>6 DEF Has
  <2>8. NoDup(r)
    <3> SUFFICES ASSUME NEW j \in 1..Len(r), NEW k \in 1..Len(r), r[j] = r[k]
                 PROVE  j = k
      BY DEF NoDup
    <3> DEFINE up2(m) == IF m < i THEN m ELSE m + 1
    <3>1. up2(j) \in 1..Len(q) /\ up2(k) \in 1..Len(q) /\ q[up2(j)] = q[up2(k)]
      BY <2>5, <2>6
    <3>2. up2(j) = up2(k)
      BY <3>1 DEF NoDup
    <3> QED BY <2>1, <2>5, <3>2
  <2> QED BY <2>4, <2>5, <2>7, <2>8
<1> QED BY <1>1, <1>2

PoolsOf(S) == [Pools -> [Hosts -> Seq(S)]]

LEMMA PoolPush ==
  ASSUME NEW p \in PoolsOf(Conn), NEW k \in Pools, NEW h \in Hosts, NEW c \in Conn
  PROVE  [p EXCEPT ![k][h] = Append(p[k][h], c)] \in PoolsOf(Conn)
<1>1. p[k][h] \in Seq(Conn)
  BY DEF PoolsOf
<1>2. Append(p[k][h], c) \in Seq(Conn)
  BY <1>1
<1> QED BY <1>2 DEF PoolsOf

LEMMA Pushed ==
  ASSUME NEW p \in PoolsOf(Conn), NEW k \in Pools, NEW h \in Hosts, NEW c \in Conn,
         NEW q, q[k][h] = Append(p[k][h], c),
         \A l \in Pools, g \in Hosts : l # k \/ g # h => q[l][g] = p[l][g]
  PROVE  /\ \A x : InPool(q, x) <=> InPool(p, x) \/ x = c
         /\ Distinct(p) /\ ~InPool(p, c) => Distinct(q)
<1>1. p[k][h] \in Seq(Conn)
  BY DEF PoolsOf
<1>2. /\ \A x : Has(q[k][h], x) <=> Has(p[k][h], x) \/ x = c
      /\ NoDup(p[k][h]) /\ ~Has(p[k][h], c) => NoDup(q[k][h])
  BY <1>1, OfAppend
<1>3. \A x : InPool(q, x) <=> InPool(p, x) \/ x = c
  BY <1>2 DEF InPool
<1>4. ASSUME Distinct(p), ~InPool(p, c)
      PROVE  Distinct(q)
  BY <1>2, <1>4 DEF Distinct, InPool
<1> QED BY <1>3, <1>4

LEMMA PoolRemove ==
  ASSUME NEW p \in PoolsOf(Conn), Distinct(p), NEW c,
         NEW q, q = [k \in Pools |-> [h \in Hosts |-> RemoveFirst(p[k][h], c)]]
  PROVE  /\ q \in PoolsOf(Conn) /\ Distinct(q)
         /\ \A x : InPool(q, x) => InPool(p, x)
<1>1. ASSUME NEW k \in Pools, NEW h \in Hosts
      PROVE  /\ q[k][h] \in Seq(Conn) /\ NoDup(q[k][h])
             /\ \A x : Has(q[k][h], x) => Has(p[k][h], x)
  <2>1. p[k][h] \in Seq(Conn) /\ NoDup(p[k][h])
    BY DEF PoolsOf, Distinct
  <2> QED BY <2>1, OfRemove
<1>2. q \in PoolsOf(Conn)
  BY <1>1 DEF PoolsOf
<1>3. Distinct(q)
  BY <1>1, Zenon DEF Distinct
<1>4. \A x : InPool(q, x) => InPool(p, x)
  BY <1>1, Zenon DEF InPool
<1> QED BY <1>2, <1>3, <1>4

-----------------------------------------------------------------------------
(* Types.                                                                    *)

LEMMA GiveUpTyped ==
  ASSUME NEW w, GiveUp(w), HistoryType
  PROVE  outcome' \in [Id -> {"none", "true", "false"}]
BY DEF GiveUp, Ends, HistoryType

LEMMA FailsTyped ==
  ASSUME NEW w, CreateFails(w), HistoryType, table \subseteq Id
  PROVE  outcome' \in [Id -> {"none", "true", "false"}] /\ table' \subseteq Id
<1>1. table' \subseteq Id
  BY DEF CreateFails, GiveUp
<1>2. outcome' \in [Id -> {"none", "true", "false"}]
  BY GiveUpTyped DEF CreateFails, HistoryType
<1> QED BY <1>1, <1>2

Answering == [at : {"idle", "cache", "requeue"}, host : Hosts \cup {NoHost}, tasks : Seq(Id)]

LEMMA NotAnsweringTyped == NotAnswering \in Answering
<1>1. << >> \in Seq(Id)
  OBVIOUS
<1> QED BY <1>1 DEF NotAnswering, Answering

LEMMA AppendTyped ==
  ASSUME NEW I, NEW S, NEW f \in [I -> Seq(S)], NEW c \in I, NEW e \in S
  PROVE  [f EXCEPT ![c] = Append(f[c], e)] \in [I -> Seq(S)]
OBVIOUS

LEMMA StopTypeStep ==
  ASSUME TypeOK, Next \/ UNCHANGED vars
  PROVE  StopType'
<1>0. StopType /\ TypeOK
  BY DEF TypeOK
<1>f. ASSUME UNCHANGED <<stopvars>>
      PROVE  StopType'
  BY <1>0, <1>f DEF StopType, stopvars
<1>1. ASSUME Start
      PROVE  StopType'
  BY <1>0, <1>1 DEF StopType, Start
<1>2. ASSUME Stop
      PROVE  StopType'
  BY <1>0, <1>2 DEF StopType, Stop
<1>3. ASSUME EndDispatcher
      PROVE  StopType'
  BY <1>0, <1>3 DEF StopType, EndDispatcher
<1>4. CASE TakeAll \/ Dispatch \/ CacheHost \/ Requeue
  BY <1>f, <1>4 DEF stopvars, TakeAll, Dispatch, CacheHost, Requeue
<1>5. CASE (\E i \in Id : PostMsgDirectToClient(i) \/ SendMsgDirectToClient(i) \/ SyncLookup(i) \/ Join(i))
          \/ (\E i \in Id : Timeout(i))
  BY <1>f, <1>5 DEF stopvars, PostMsgDirectToClient, SendMsgDirectToClient, SyncLookup, Join,
     Timeout
<1>6. CASE (\E t \in Named : NextTask(t))
          \/ (\E w \in Workers : ReadCache(w) \/ QueueWaiting(w) \/ Forget(w) \/ AskServer(w))
  BY <1>f, <1>6 DEF stopvars, NextTask, ReadCache, QueueWaiting, Forget, AskServer
<1>7. CASE (\E w \in Workers : FindConnection(w) \/ CountMissing(w) \/ Connect(w) \/ Identify(w))
  BY <1>f, <1>7 DEF stopvars, FindConnection, CountMissing, Connect, Identify
<1>8. CASE (\E w \in Workers : Push(w) \/ FindAgain(w) \/ WriteTaskData(w))
          \/ (\E h \in known \cup {NoHost} : HandleRspGetClient(h))
  BY <1>f, <1>8 DEF stopvars, Push, FindAgain, WriteTaskData, HandleRspGetClient
<1>9. CASE (\E c \in Conn : Req2Receiver_onRead(c) \/ Req2Receiver_onClose(c) \/ Accept(c) \/ receiver_onRead(c))
          \/ (\E c \in Conn : receiver_onClose(c))
  BY <1>f, <1>9 DEF stopvars, Req2Receiver_onRead, Req2Receiver_onClose, Accept, receiver_onRead,
     receiver_onClose
<1>10. CASE (\E c \in Conn, i \in Id : NetMsgBusRspSendMsg(c, i))
          \/ (\E h \in Hosts : Move(h))
  BY <1>f, <1>10 DEF stopvars, NetMsgBusRspSendMsg, Move
<1>11. CASE UNCHANGED vars
  BY <1>f, <1>11 DEF stopvars, vars
<1> QED BY <1>1, <1>2, <1>3, <1>4, <1>5, <1>6, <1>7, <1>8, <1>9, <1>10, <1>11
        DEF Next, WorkerStep, CallerStep, DispatcherStep, LookupAnswered

LEMMA QueueTypeStep ==
  ASSUME TypeOK, PlaceInv, Next \/ UNCHANGED vars
  PROVE  QueueType'
<1>0. QueueType /\ TypeOK /\ Assigned
  BY DEF TypeOK, PlaceInv
<1>f. ASSUME UNCHANGED <<container, rtask_list, named, waiting, answering>>
      PROVE  QueueType'
  BY <1>0, <1>f DEF QueueType
<1>1. ASSUME TakeAll
      PROVE  QueueType'
  BY <1>0, <1>1 DEF QueueType, TakeAll, hostvars
<1>2. ASSUME Dispatch
      PROVE  QueueType'
  <2>1. rtask_list \in Seq(Id) /\ rtask_list # << >> /\ named \in [Named -> Seq(Id)]
    BY <1>0, <1>2 DEF QueueType, Dispatch
  <2>2. Head(rtask_list) \in Id /\ Tail(rtask_list) \in Seq(Id) /\ ThreadOf(Head(rtask_list)) \in Named
    BY <2>1, OfTail DEF ThreadOf, Named
  <2>3. named' \in [Named -> Seq(Id)] /\ rtask_list' \in Seq(Id) /\ UNCHANGED <<container, waiting, answering>>
    BY <1>2, <2>1, <2>2 DEF Dispatch, hostvars
  <2> QED BY <1>0, <2>3 DEF QueueType
<1>3. ASSUME CacheHost
      PROVE  QueueType'
  <2>1. answering' = NotAnswering \/ answering' = [answering EXCEPT !.at = "requeue"]
    BY <1>3 DEF CacheHost
  <2>2. answering' \in Answering
    <3>1. CASE answering' = NotAnswering
      BY <3>1, NotAnsweringTyped
    <3>2. CASE answering' = [answering EXCEPT !.at = "requeue"]
      BY <1>0, <3>2 DEF QueueType, Answering
    <3> QED BY <2>1, <3>1, <3>2
  <2> QED BY <1>0, <1>3, <2>2 DEF QueueType, CacheHost, quevars, Answering
<1>4. ASSUME Requeue
      PROVE  QueueType'
  <2> DEFINE a == answering.tasks
  <2>1. a \in Seq(Id) /\ a # << >>
    BY <1>0, <1>4 DEF QueueType, PlaceInv, AnsweringTasks, Requeue
  <2>2. Head(a) \in Id /\ Tail(a) \in Seq(Id)
    BY <2>1, OfTail
  <2>3. answering' = NotAnswering \/ answering' = [answering EXCEPT !.tasks = Tail(a)]
    BY <1>4 DEF Requeue
  <2>4. container' = Append(container, Head(a)) /\ UNCHANGED <<rtask_list, named, waiting>>
    BY <1>4 DEF Requeue, QueueReqTaskToReceiver
  <2> HIDE DEF a
  <2>5. answering' \in Answering
    <3>1. CASE answering' = NotAnswering
      BY <3>1, NotAnsweringTyped
    <3>2. CASE answering' = [answering EXCEPT !.tasks = Tail(a)]
      BY <1>0, <2>2, <3>2 DEF QueueType, Answering
    <3> QED BY <2>3, <3>1, <3>2
  <2>6. container' \in Seq(Id)
    BY <1>0, <2>2, <2>4 DEF QueueType
  <2> QED BY <1>0, <2>4, <2>5, <2>6 DEF QueueType, Answering
<1>5. ASSUME NEW i \in Id, PostMsgDirectToClient(i)
      PROVE  QueueType'
  <2>0. container \in Seq(Id) /\ Append(container, i) \in Seq(Id)
    BY <1>0 DEF QueueType
  <2>1. /\ container' = container \/ container' = Append(container, i)
        /\ UNCHANGED <<rtask_list, named, waiting, answering>>
    BY <1>5 DEF PostMsgDirectToClient, QueueReqTaskToReceiver
  <2> QED BY <1>0, <2>0, <2>1 DEF QueueType
<1>6. ASSUME NEW t \in Named, NextTask(t)
      PROVE  QueueType'
  <2>1. named[t] \in Seq(Id) /\ named[t] # << >> /\ named \in [Named -> Seq(Id)]
    BY <1>0, <1>6 DEF QueueType, NextTask
  <2>2. Tail(named[t]) \in Seq(Id)
    BY <2>1, OfTail
  <2>3. named' \in [Named -> Seq(Id)] /\ UNCHANGED <<container, rtask_list, waiting, answering>>
    BY <1>6, <2>1, <2>2 DEF NextTask, hostvars
  <2> QED BY <1>0, <2>3 DEF QueueType
<1>7. ASSUME NEW w \in Workers, QueueWaiting(w)
      PROVE  QueueType'
  <2>1. worker[w].id \in Id
    BY <1>0, <1>7 DEF QueueWaiting, Assigned, Sound
  <2>2. waiting' \in Seq(Id) /\ UNCHANGED <<container, rtask_list, named, answering>>
    BY <1>0, <1>7, <2>1 DEF QueueType, QueueWaiting, quevars
  <2> QED BY <1>0, <2>2 DEF QueueType
<1>8. ASSUME NEW h \in known \cup {NoHost}, HandleRspGetClient(h)
      PROVE  QueueType'
  <2>1. h \in Hosts \cup {NoHost}
    BY <1>0 DEF TypeOK, ReceiverType
  <2>2. answering' = answering \/ answering' = [at |-> "cache", host |-> h, tasks |-> waiting]
    BY <1>8 DEF HandleRspGetClient
  <2>3. waiting' \in Seq(Id) /\ UNCHANGED <<container, rtask_list, named>>
    BY <1>8 DEF HandleRspGetClient, quevars
  <2> QED BY <1>0, <2>1, <2>2, <2>3 DEF QueueType
<1>9. CASE Start \/ Stop \/ EndDispatcher
  BY <1>f, <1>9 DEF quevars, hostvars, Start, Stop, EndDispatcher
<1>10. CASE (\E i \in Id : SendMsgDirectToClient(i) \/ SyncLookup(i) \/ Join(i) \/ Timeout(i))
  BY <1>f, <1>10 DEF quevars, hostvars, SendMsgDirectToClient, SyncLookup, Join, Timeout
<1>11. CASE (\E w \in Workers : ReadCache(w) \/ Forget(w) \/ AskServer(w) \/ FindConnection(w))
  BY <1>f, <1>11 DEF quevars, hostvars, ReadCache, Forget, AskServer, FindConnection
<1>12. CASE (\E w \in Workers : CountMissing(w) \/ Connect(w) \/ Identify(w) \/ Push(w))
  BY <1>f, <1>12 DEF quevars, hostvars, CountMissing, Connect, Identify, Push
<1>13. CASE (\E w \in Workers : FindAgain(w) \/ WriteTaskData(w))
  BY <1>f, <1>13 DEF quevars, hostvars, FindAgain, WriteTaskData
<1>14. CASE (\E c \in Conn : Req2Receiver_onRead(c) \/ Req2Receiver_onClose(c) \/ Accept(c) \/ receiver_onRead(c))
          \/ (\E c \in Conn : receiver_onClose(c))
  BY <1>f, <1>14 DEF quevars, hostvars, Req2Receiver_onRead, Req2Receiver_onClose, Accept,
     receiver_onRead, receiver_onClose
<1>15. CASE (\E c \in Conn, i \in Id : NetMsgBusRspSendMsg(c, i))
          \/ (\E h \in Hosts : Move(h))
  BY <1>f, <1>15 DEF quevars, hostvars, NetMsgBusRspSendMsg, Move
<1>16. CASE UNCHANGED vars
  BY <1>f, <1>16 DEF quevars, hostvars, vars
<1> QED BY <1>1, <1>2, <1>3, <1>4, <1>5, <1>6, <1>7, <1>8, <1>9, <1>10, <1>11, <1>12, <1>13,
           <1>14, <1>15, <1>16
        DEF Next, WorkerStep, CallerStep, DispatcherStep, LookupAnswered

LEMMA RequestTypeStep ==
  ASSUME TypeOK, Next \/ UNCHANGED vars
  PROVE  RequestType'
<1>0. RequestType /\ TypeOK
  BY DEF TypeOK
<1>f. ASSUME UNCHANGED <<retry, cached, lookups, table, ready, made>>
      PROVE  RequestType'
  BY <1>0, <1>f DEF RequestType
<1>1. ASSUME Stop
      PROVE  RequestType'
  BY <1>0, <1>1 DEF RequestType, Stop, safe_clear_bad_future, hostvars
<1>2. ASSUME CacheHost
      PROVE  RequestType'
  BY <1>0, <1>2 DEF RequestType, CacheHost, TypeOK, QueueType, futvars
<1>3. ASSUME NEW i \in Id, PostMsgDirectToClient(i)
      PROVE  RequestType'
  <2>1. made' \in 0..MaxCalls
    BY <1>3, DirectRequestsAssumption DEF PostMsgDirectToClient, Id
  <2>2. table' \subseteq Id /\ retry' \subseteq Id
    BY <1>0, <1>3 DEF RequestType, PostMsgDirectToClient
  <2> QED BY <1>0, <1>3, <2>1, <2>2 DEF RequestType, PostMsgDirectToClient
<1>4. ASSUME NEW i \in Id, SendMsgDirectToClient(i)
      PROVE  RequestType'
  <2>1. made' \in 0..MaxCalls
    BY <1>4, DirectRequestsAssumption DEF SendMsgDirectToClient, Id
  <2>2. table' \subseteq Id
    BY <1>0, <1>4 DEF RequestType, SendMsgDirectToClient
  <2> QED BY <1>0, <1>4, <2>1, <2>2 DEF RequestType, SendMsgDirectToClient, hostvars
<1>5. ASSUME NEW i \in Id, SyncLookup(i)
      PROVE  RequestType'
  BY <1>0, <1>5 DEF RequestType, SyncLookup, TypeOK, ReceiverType
<1>6. ASSUME NEW i \in Id, Timeout(i)
      PROVE  RequestType'
  BY <1>0, <1>6 DEF RequestType, Timeout, hostvars, GiveUp
<1>7. ASSUME NEW w \in Workers, ReadCache(w)
      PROVE  RequestType'
  BY <1>0, <1>7 DEF RequestType, ReadCache, hostvars, GiveUp
<1>8. ASSUME NEW w \in Workers, Forget(w)
      PROVE  RequestType'
  BY <1>0, <1>8 DEF RequestType, Forget, futvars
<1>9. ASSUME NEW w \in Workers, AskServer(w)
      PROVE  RequestType'
  BY <1>0, <1>9 DEF RequestType, AskServer, futvars
<1>10. ASSUME NEW w \in Workers, Connect(w)
      PROVE  RequestType'
  BY <1>0, <1>10 DEF RequestType, Connect, hostvars, CreateFails, GiveUp
<1>11. ASSUME NEW w \in Workers, Identify(w)
      PROVE  RequestType'
  BY <1>0, <1>11 DEF RequestType, Identify, hostvars, CreateFails, GiveUp
<1>12. ASSUME NEW w \in Workers, FindAgain(w)
      PROVE  RequestType'
  BY <1>0, <1>12 DEF RequestType, FindAgain, hostvars, GetTcpSock, GiveUp
<1>13. ASSUME NEW w \in Workers, WriteTaskData(w)
      PROVE  RequestType'
  BY <1>0, <1>13 DEF RequestType, WriteTaskData, hostvars, GiveUp
<1>14. ASSUME NEW h \in known \cup {NoHost}, HandleRspGetClient(h)
      PROVE  RequestType'
  BY <1>0, <1>14 DEF RequestType, HandleRspGetClient
<1>15. ASSUME NEW c \in Conn, Req2Receiver_onRead(c)
      PROVE  RequestType'
  <2>1. back[c] \in Seq(Id) /\ back[c] # << >>
    BY <1>0, <1>15 DEF Req2Receiver_onRead, TypeOK, ConnType
  <2>2. Head(back[c]) \in Id
    BY <2>1, OfTail
  <2> QED BY <1>0, <1>15, <2>2 DEF RequestType, Req2Receiver_onRead, hostvars
<1>16. ASSUME NEW c \in Conn, Req2Receiver_onClose(c)
      PROVE  RequestType'
  BY <1>0, <1>16 DEF RequestType, Req2Receiver_onClose, safe_clear_bad_future, hostvars
<1>17. CASE Start \/ TakeAll \/ Dispatch \/ EndDispatcher
          \/ Requeue
  BY <1>f, <1>17 DEF hostvars, futvars, GetTcpSock, Start, TakeAll, Dispatch, EndDispatcher, Requeue
<1>18. CASE (\E i \in Id : Join(i))
          \/ (\E t \in Named : NextTask(t))
  BY <1>f, <1>18 DEF hostvars, futvars, GetTcpSock, Join, NextTask
<1>19. CASE (\E w \in Workers : QueueWaiting(w) \/ FindConnection(w) \/ CountMissing(w) \/ Push(w))
  BY <1>f, <1>19 DEF hostvars, futvars, GetTcpSock, QueueWaiting, FindConnection, CountMissing, Push
<1>20. CASE (\E c \in Conn : Accept(c) \/ receiver_onRead(c) \/ receiver_onClose(c))
          \/ (\E c \in Conn, i \in Id : NetMsgBusRspSendMsg(c, i))
          \/ (\E h \in Hosts : Move(h))
  BY <1>f, <1>20 DEF hostvars, futvars, GetTcpSock, Accept, receiver_onRead, receiver_onClose,
     NetMsgBusRspSendMsg, Move
<1>21. CASE UNCHANGED vars
  BY <1>f, <1>21 DEF hostvars, futvars, GetTcpSock, vars
<1> QED BY <1>1, <1>2, <1>3, <1>4, <1>5, <1>6, <1>7, <1>8, <1>9, <1>10, <1>11, <1>12, <1>13,
           <1>14, <1>15, <1>16, <1>17, <1>18, <1>19, <1>20, <1>21
        DEF Next, WorkerStep, CallerStep, DispatcherStep, LookupAnswered

LEMMA HistoryTypeStep ==
  ASSUME TypeOK, PlaceInv, Next \/ UNCHANGED vars
  PROVE  HistoryType'
<1>0. HistoryType /\ TypeOK /\ Assigned
  BY DEF TypeOK, PlaceInv
<1>f. ASSUME UNCHANGED <<sent, arrived, answer, outcome>>
      PROVE  HistoryType'
  BY <1>0, <1>f DEF HistoryType
<1>1. ASSUME NEW i \in Id, PostMsgDirectToClient(i)
      PROVE  HistoryType'
  BY <1>0, <1>1 DEF HistoryType, PostMsgDirectToClient, Ends, recvvars
<1>2. ASSUME NEW i \in Id, SendMsgDirectToClient(i)
      PROVE  HistoryType'
  BY <1>0, <1>2 DEF HistoryType, SendMsgDirectToClient, Ends, recvvars
<1>3. ASSUME NEW i \in Id, SyncLookup(i)
      PROVE  HistoryType'
  BY <1>0, <1>3 DEF HistoryType, SyncLookup, Ends, recvvars
<1>4. ASSUME NEW i \in Id, Join(i)
      PROVE  HistoryType'
  BY <1>0, <1>4 DEF HistoryType, Join, Ends, recvvars
<1>5. ASSUME NEW i \in Id, Timeout(i)
      PROVE  HistoryType'
  BY <1>0, <1>5, GiveUpTyped DEF HistoryType, Timeout, recvvars
<1>6. ASSUME NEW w \in Workers, ReadCache(w)
      PROVE  HistoryType'
  BY <1>0, <1>6, GiveUpTyped DEF HistoryType, ReadCache, recvvars
<1>7. ASSUME NEW w \in Workers, Connect(w)
      PROVE  HistoryType'
  BY <1>0, <1>7, FailsTyped DEF HistoryType, Connect, recvvars, TypeOK, RequestType
<1>8. ASSUME NEW w \in Workers, Identify(w)
      PROVE  HistoryType'
  BY <1>0, <1>8, FailsTyped DEF HistoryType, Identify, recvvars, TypeOK, RequestType
<1>9. ASSUME NEW w \in Workers, FindAgain(w)
      PROVE  HistoryType'
  BY <1>0, <1>9, GiveUpTyped DEF HistoryType, FindAgain, GetTcpSock, recvvars
<1>10. ASSUME NEW w \in Workers, WriteTaskData(w)
      PROVE  HistoryType'
  <2>1. worker[w].id \in Id /\ arrived' = arrived /\ answer' = answer
    BY <1>0, <1>10 DEF WriteTaskData, Assigned, Sound, recvvars
  <2>2. sent' \subseteq Id
    BY <1>0, <1>10, <2>1 DEF HistoryType, WriteTaskData
  <2>3. outcome' \in [Id -> {"none", "true", "false"}]
    BY <1>0, <1>10, GiveUpTyped DEF HistoryType, WriteTaskData
  <2> QED BY <1>0, <2>1, <2>2, <2>3 DEF HistoryType
<1>11. ASSUME NEW c \in Conn, Req2Receiver_onRead(c)
      PROVE  HistoryType'
  BY <1>0, <1>11 DEF HistoryType, Req2Receiver_onRead, Ends, recvvars
<1>12. ASSUME NEW c \in Conn, receiver_onRead(c)
      PROVE  HistoryType'
  <2>1. out[c] \in Seq({0} \cup Id) /\ out[c] # << >>
    BY <1>0, <1>12 DEF receiver_onRead, TypeOK, ConnType
  <2>2. Head(out[c]) \in {0} \cup Id
    BY <2>1, OfTail
  <2>3. arrived' \in Seq(Id)
    BY <1>0, <1>12, <2>2 DEF HistoryType, receiver_onRead
  <2> QED BY <1>0, <1>12, <2>3 DEF HistoryType, receiver_onRead
<1>13. ASSUME NEW c \in Conn, NEW i \in Id, NetMsgBusRspSendMsg(c, i)
      PROVE  HistoryType'
  BY <1>0, <1>13 DEF HistoryType, NetMsgBusRspSendMsg
<1>14. CASE Start \/ Stop \/ TakeAll \/ Dispatch
  BY <1>f, <1>14 DEF recvvars, GetTcpSock, Start, Stop, TakeAll, Dispatch
<1>15. CASE EndDispatcher \/ CacheHost \/ Requeue
          \/ (\E t \in Named : NextTask(t))
  BY <1>f, <1>15 DEF recvvars, GetTcpSock, EndDispatcher, CacheHost, Requeue, NextTask
<1>16. CASE (\E w \in Workers : QueueWaiting(w) \/ Forget(w) \/ AskServer(w) \/ FindConnection(w))
  BY <1>f, <1>16 DEF recvvars, GetTcpSock, QueueWaiting, Forget, AskServer, FindConnection
<1>17. CASE (\E w \in Workers : CountMissing(w) \/ Push(w))
          \/ (\E h \in known \cup {NoHost} : HandleRspGetClient(h))
  BY <1>f, <1>17 DEF recvvars, GetTcpSock, CountMissing, Push, HandleRspGetClient
<1>18. CASE (\E c \in Conn : Req2Receiver_onClose(c) \/ Accept(c) \/ receiver_onClose(c))
          \/ (\E h \in Hosts : Move(h))
  BY <1>f, <1>18 DEF recvvars, GetTcpSock, Req2Receiver_onClose, Accept, receiver_onClose, Move
<1>19. CASE UNCHANGED vars
  BY <1>f, <1>19 DEF recvvars, GetTcpSock, vars
<1> QED BY <1>1, <1>2, <1>3, <1>4, <1>5, <1>6, <1>7, <1>8, <1>9, <1>10, <1>11, <1>12, <1>13,
           <1>14, <1>15, <1>16, <1>17, <1>18, <1>19
        DEF Next, WorkerStep, CallerStep, DispatcherStep, LookupAnswered

LEMMA ConnTypeStep ==
  ASSUME TypeOK, PlaceInv, Next \/ UNCHANGED vars
  PROVE  ConnType'
<1>0. ConnType /\ TypeOK /\ Assigned
  BY DEF TypeOK, PlaceInv
<1>f. ASSUME UNCHANGED <<link, dest, peer, out, back>>
      PROVE  ConnType'
  BY <1>0, <1>f DEF ConnType
<1>1. ASSUME NEW w \in Workers, Connect(w)
      PROVE  ConnType'
  <2>1. worker[w].host \in Hosts \cup {NoHost}
    BY <1>0, FieldTypes DEF TypeOK
  <2> QED BY <1>0, <1>1, <2>1 DEF ConnType, Connect, connvars
<1>2. ASSUME NEW w \in Workers, Identify(w)
      PROVE  ConnType'
  <2>1. out' \in [Conn -> Seq({0} \cup Id)]
    <3> DEFINE c == worker[w].conn  o == [out EXCEPT ![c] = Append(out[c], 0)]
    <3>1. c \in Conn /\ 0 \in {0} \cup Id /\ out \in [Conn -> Seq({0} \cup Id)]
      BY <1>0, <1>2 DEF Identify, Assigned, Sound, ConnType
    <3>2. out' = out \/ out' = o
      BY <1>2 DEF Identify
    <3> HIDE DEF c
    <3>3. o \in [Conn -> Seq({0} \cup Id)]
      BY <3>1, AppendTyped
    <3> QED BY <3>1, <3>2, <3>3
  <2> QED BY <1>0, <1>2, <2>1 DEF ConnType, Identify, connvars
<1>3. ASSUME NEW w \in Workers, WriteTaskData(w)
      PROVE  ConnType'
  <2>1. worker[w].id \in {0} \cup Id
    BY <1>0, FieldTypes DEF TypeOK
  <2>2. out' \in [Conn -> Seq({0} \cup Id)]
    <3> DEFINE c == worker[w].conn  i == worker[w].id  o == [out EXCEPT ![c] = Append(out[c], i)]
    <3>1. c \in Conn /\ i \in {0} \cup Id /\ out \in [Conn -> Seq({0} \cup Id)]
      BY <1>0, <2>1, <1>3 DEF WriteTaskData, Assigned, Sound, ConnType
    <3>2. out' = out \/ out' = o
      BY <1>3 DEF WriteTaskData
    <3> HIDE DEF c, i
    <3>3. o \in [Conn -> Seq({0} \cup Id)]
      BY <3>1, AppendTyped
    <3> QED BY <3>1, <3>2, <3>3
  <2> QED BY <1>0, <1>3, <2>2 DEF ConnType, WriteTaskData, connvars
<1>4. ASSUME NEW c \in Conn, Req2Receiver_onRead(c)
      PROVE  ConnType'
  <2>1. back[c] \in Seq(Id) /\ back[c] # << >>
    BY <1>0, <1>4 DEF Req2Receiver_onRead, ConnType
  <2>2. Tail(back[c]) \in Seq(Id)
    BY <2>1, OfTail
  <2> QED BY <1>0, <1>4, <2>2 DEF ConnType, Req2Receiver_onRead, connvars
<1>5. ASSUME NEW c \in Conn, Req2Receiver_onClose(c)
      PROVE  ConnType'
  BY <1>0, <1>5 DEF ConnType, Req2Receiver_onClose
<1>6. ASSUME NEW c \in Conn, Accept(c)
      PROVE  ConnType'
  BY <1>0, <1>6 DEF ConnType, Accept, connvars
<1>7. ASSUME NEW c \in Conn, receiver_onRead(c)
      PROVE  ConnType'
  <2>1. out[c] \in Seq({0} \cup Id) /\ out[c] # << >>
    BY <1>0, <1>7 DEF receiver_onRead, ConnType
  <2>2. Tail(out[c]) \in Seq({0} \cup Id)
    BY <2>1, OfTail
  <2> QED BY <1>0, <1>7, <2>2 DEF ConnType, receiver_onRead, connvars
<1>8. ASSUME NEW c \in Conn, receiver_onClose(c)
      PROVE  ConnType'
  BY <1>0, <1>8 DEF ConnType, receiver_onClose, connvars
<1>9. ASSUME NEW c \in Conn, NEW i \in Id, NetMsgBusRspSendMsg(c, i)
      PROVE  ConnType'
  <2>1. peer' \in [Conn -> {"backlog", "open", "failed", "closed"}]
    BY <1>0, <1>9 DEF ConnType, NetMsgBusRspSendMsg, receiver_onError
  <2>2. back' = back \/ back' = [back EXCEPT ![c] = Append(back[c], i)]
    BY <1>9 DEF NetMsgBusRspSendMsg
  <2>3. [back EXCEPT ![c] = Append(back[c], i)] \in [Conn -> Seq(Id)]
    BY <1>0, AppendTyped DEF ConnType
  <2> QED BY <1>0, <1>9, <2>1, <2>2, <2>3 DEF ConnType, NetMsgBusRspSendMsg, connvars
<1>10. ASSUME NEW h \in Hosts, Move(h)
      PROVE  ConnType'
  BY <1>0, <1>10 DEF ConnType, Move, connvars
<1>11. CASE Start \/ Stop \/ TakeAll \/ Dispatch
  BY <1>f, <1>11 DEF connvars, Start, Stop, TakeAll, Dispatch
<1>12. CASE EndDispatcher \/ CacheHost \/ Requeue
  BY <1>f, <1>12 DEF connvars, EndDispatcher, CacheHost, Requeue
<1>13. CASE (\E i \in Id : PostMsgDirectToClient(i) \/ SendMsgDirectToClient(i) \/ SyncLookup(i) \/ Join(i))
          \/ (\E i \in Id : Timeout(i))
  BY <1>f, <1>13 DEF connvars, PostMsgDirectToClient, SendMsgDirectToClient, SyncLookup, Join,
     Timeout
<1>14. CASE (\E t \in Named : NextTask(t))
          \/ (\E w \in Workers : ReadCache(w) \/ QueueWaiting(w) \/ Forget(w) \/ AskServer(w))
  BY <1>f, <1>14 DEF connvars, NextTask, ReadCache, QueueWaiting, Forget, AskServer
<1>15. CASE (\E w \in Workers : FindConnection(w) \/ CountMissing(w) \/ Push(w) \/ FindAgain(w))
          \/ (\E h \in known \cup {NoHost} : HandleRspGetClient(h))
  BY <1>f, <1>15 DEF connvars, FindConnection, CountMissing, Push, FindAgain, HandleRspGetClient
<1>16. CASE UNCHANGED vars
  BY <1>f, <1>16 DEF connvars, vars
<1> QED BY <1>1, <1>2, <1>3, <1>4, <1>5, <1>6, <1>7, <1>8, <1>9, <1>10, <1>11, <1>12, <1>13,
           <1>14, <1>15, <1>16
        DEF Next, WorkerStep, CallerStep, DispatcherStep, LookupAnswered

LEMMA ReceiverTypeStep ==
  ASSUME TypeOK, Next \/ UNCHANGED vars
  PROVE  ReceiverType'
<1>0. ReceiverType /\ TypeOK
  BY DEF TypeOK
<1>f. ASSUME UNCHANGED <<senders, work, m_sendmsg_clientnum, up, accepting, known, moves>>
      PROVE  ReceiverType'
  BY <1>0, <1>f DEF ReceiverType
<1>1. ASSUME NEW c \in Conn, Accept(c)
      PROVE  ReceiverType'
  <2>1. \A h \in Hosts : m_sendmsg_clientnum[h] + 1 \in Int
    BY <1>0 DEF ReceiverType
  <2> QED BY <1>0, <1>1, <2>1 DEF ReceiverType, Accept, movevars
<1>2. ASSUME NEW c \in Conn, receiver_onRead(c)
      PROVE  ReceiverType'
  <2>1. out[c] \in Seq({0} \cup Id) /\ out[c] # << >>
    BY <1>0, <1>2 DEF receiver_onRead, TypeOK, ConnType
  <2>2. Head(out[c]) \in {0} \cup Id
    BY <2>1, OfTail
  <2>3. work' \subseteq Conn \X Id
    BY <1>0, <1>2, <2>2 DEF ReceiverType, receiver_onRead
  <2>4. senders' \subseteq Conn
    BY <1>0, <1>2 DEF ReceiverType, receiver_onRead
  <2> QED BY <1>0, <1>2, <2>3, <2>4 DEF ReceiverType, receiver_onRead, movevars
<1>3. ASSUME NEW c \in Conn, receiver_onClose(c)
      PROVE  ReceiverType'
  <2>1. \A h \in Hosts : m_sendmsg_clientnum[h] - 1 \in Int
    BY <1>0 DEF ReceiverType
  <2> QED BY <1>0, <1>3, <2>1 DEF ReceiverType, receiver_onClose, movevars
<1>4. ASSUME NEW c \in Conn, NEW i \in Id, NetMsgBusRspSendMsg(c, i)
      PROVE  ReceiverType'
  <2>1. \A h \in Hosts : m_sendmsg_clientnum[h] - 1 \in Int
    BY <1>0 DEF ReceiverType
  <2> QED BY <1>0, <1>4, <2>1 DEF ReceiverType, NetMsgBusRspSendMsg, receiver_onError, movevars
<1>5. ASSUME NEW h \in Hosts, Move(h)
      PROVE  ReceiverType'
  <2>1. moves' \in 0..MaxMoves
    BY <1>0, <1>5, DirectRequestsAssumption DEF ReceiverType, Move
  <2> QED BY <1>0, <1>5, <2>1 DEF ReceiverType, Move, StartReceiver
<1>6. CASE Start \/ Stop \/ TakeAll \/ Dispatch
  BY <1>f, <1>6 DEF recvvars, movevars, Start, Stop, TakeAll, Dispatch
<1>7. CASE EndDispatcher \/ CacheHost \/ Requeue
  BY <1>f, <1>7 DEF recvvars, movevars, EndDispatcher, CacheHost, Requeue
<1>8. CASE (\E i \in Id : PostMsgDirectToClient(i) \/ SendMsgDirectToClient(i) \/ SyncLookup(i) \/ Join(i))
          \/ (\E i \in Id : Timeout(i))
  BY <1>f, <1>8 DEF recvvars, movevars, PostMsgDirectToClient, SendMsgDirectToClient, SyncLookup,
     Join, Timeout
<1>9. CASE (\E t \in Named : NextTask(t))
          \/ (\E w \in Workers : ReadCache(w) \/ QueueWaiting(w) \/ Forget(w) \/ AskServer(w))
  BY <1>f, <1>9 DEF recvvars, movevars, NextTask, ReadCache, QueueWaiting, Forget, AskServer
<1>10. CASE (\E w \in Workers : FindConnection(w) \/ CountMissing(w) \/ Connect(w) \/ Identify(w))
  BY <1>f, <1>10 DEF recvvars, movevars, FindConnection, CountMissing, Connect, Identify
<1>11. CASE (\E w \in Workers : Push(w) \/ FindAgain(w) \/ WriteTaskData(w))
          \/ (\E h \in known \cup {NoHost} : HandleRspGetClient(h))
  BY <1>f, <1>11 DEF recvvars, movevars, Push, FindAgain, WriteTaskData, HandleRspGetClient
<1>12. CASE (\E c \in Conn : Req2Receiver_onRead(c) \/ Req2Receiver_onClose(c))
  BY <1>f, <1>12 DEF recvvars, movevars, Req2Receiver_onRead, Req2Receiver_onClose
<1>13. CASE UNCHANGED vars
  BY <1>f, <1>13 DEF recvvars, movevars, vars
<1> QED BY <1>1, <1>2, <1>3, <1>4, <1>5, <1>6, <1>7, <1>8, <1>9, <1>10, <1>11, <1>12, <1>13
        DEF Next, WorkerStep, CallerStep, DispatcherStep, LookupAnswered

LEMMA PoolTypeStep ==
  ASSUME TypeOK, PlaceInv, ConnInv, Next \/ UNCHANGED vars
  PROVE  PoolType'
<1>0. PoolType /\ TypeOK /\ Assigned
  BY DEF TypeOK, PlaceInv
<1>f. ASSUME UNCHANGED <<pool, counter>>
      PROVE  PoolType'
  BY <1>0, <1>f DEF PoolType
<1>1. ASSUME NEW w \in Workers, FindConnection(w)
      PROVE  PoolType'
  <2>1. counter' \in [Pools -> [Hosts -> Nat]]
    <3> DEFINE k == PoolOf(worker[w].id)  h == worker[w].host
    <3>1. counter' = counter \/ counter' = [counter EXCEPT ![k][h] = @ + 1]
      BY <1>1 DEF FindConnection, GetTcpSock
    <3>2. k \in Pools /\ h \in Hosts
      BY <1>0, <1>1 DEF FindConnection, PoolOf, Pools, Assigned, Sound
    <3> HIDE DEF k, h
    <3>3. counter \in [Pools -> [Hosts -> Nat]] /\ counter[k][h] + 1 \in Nat
      BY <1>0, <3>2 DEF PoolType
    <3> QED BY <3>1, <3>2, <3>3
  <2> QED BY <1>0, <1>1, <2>1 DEF PoolType, FindConnection
<1>2. ASSUME NEW w \in Workers, Push(w)
      PROVE  PoolType'
  <2>1. PoolOf(worker[w].id) \in Pools /\ worker[w].host \in Hosts /\ worker[w].conn \in Conn
    BY <1>0, <1>2 DEF Push, PoolOf, Pools, Assigned, Sound
  <2>2. pool \in PoolsOf(Conn) /\ UNCHANGED counter
    BY <1>0, <1>2 DEF PoolType, PoolsOf, Push
  <2>3. pool' \in PoolsOf(Conn)
    <3> DEFINE k == PoolOf(worker[w].id)  h == worker[w].host  c == worker[w].conn
    <3>1. pool' = [pool EXCEPT ![k][h] = Append(pool[k][h], c)]
      BY <1>2 DEF Push
    <3> HIDE DEF k, h, c
    <3>2. k \in Pools /\ h \in Hosts /\ c \in Conn
      BY <2>1 DEF k, h, c
    <3>3. [pool EXCEPT ![k][h] = Append(pool[k][h], c)] \in PoolsOf(Conn)
      BY <2>2, <3>2, PoolPush
    <3> QED BY <3>1, <3>3
  <2> QED BY <1>0, <2>2, <2>3 DEF PoolType, PoolsOf
<1>3. ASSUME NEW w \in Workers, FindAgain(w)
      PROVE  PoolType'
  <2>1. counter' \in [Pools -> [Hosts -> Nat]]
    <3> DEFINE k == PoolOf(worker[w].id)  h == worker[w].host
    <3>1. counter' = counter \/ counter' = [counter EXCEPT ![k][h] = @ + 1]
      BY <1>3 DEF FindAgain, GetTcpSock
    <3>2. k \in Pools /\ h \in Hosts
      BY <1>0, <1>3 DEF FindAgain, PoolOf, Pools, Assigned, Sound
    <3> HIDE DEF k, h
    <3>3. counter \in [Pools -> [Hosts -> Nat]] /\ counter[k][h] + 1 \in Nat
      BY <1>0, <3>2 DEF PoolType
    <3> QED BY <3>1, <3>2, <3>3
  <2> QED BY <1>0, <1>3, <2>1 DEF PoolType, FindAgain
<1>4. ASSUME NEW c \in Conn, Req2Receiver_onClose(c)
      PROVE  PoolType'
  <2>1. pool \in PoolsOf(Conn) /\ Distinct(pool) /\ UNCHANGED counter
    BY <1>0, <1>4 DEF PoolType, PoolsOf, Req2Receiver_onClose, ConnInv, OncePooled
  <2>2. pool' \in PoolsOf(Conn)
    BY <1>4, <2>1, PoolRemove DEF Req2Receiver_onClose, RemoveTcpSock
  <2> QED BY <1>0, <2>1, <2>2 DEF PoolType, PoolsOf
<1>5. CASE Start \/ Stop \/ TakeAll \/ Dispatch
  BY <1>f, <1>5 DEF poolvars, Start, Stop, TakeAll, Dispatch
<1>6. CASE EndDispatcher \/ CacheHost \/ Requeue
  BY <1>f, <1>6 DEF poolvars, EndDispatcher, CacheHost, Requeue
<1>7. CASE (\E i \in Id : PostMsgDirectToClient(i) \/ SendMsgDirectToClient(i) \/ SyncLookup(i) \/ Join(i))
          \/ (\E i \in Id : Timeout(i))
  BY <1>f, <1>7 DEF poolvars, PostMsgDirectToClient, SendMsgDirectToClient, SyncLookup, Join,
     Timeout
<1>8. CASE (\E t \in Named : NextTask(t))
          \/ (\E w \in Workers : ReadCache(w) \/ QueueWaiting(w) \/ Forget(w) \/ AskServer(w))
  BY <1>f, <1>8 DEF poolvars, NextTask, ReadCache, QueueWaiting, Forget, AskServer
<1>9. CASE (\E w \in Workers : CountMissing(w) \/ Connect(w) \/ Identify(w) \/ WriteTaskData(w))
          \/ (\E h \in known \cup {NoHost} : HandleRspGetClient(h))
  BY <1>f, <1>9 DEF poolvars, CountMissing, Connect, Identify, WriteTaskData, HandleRspGetClient
<1>10. CASE (\E c \in Conn : Req2Receiver_onRead(c) \/ Accept(c) \/ receiver_onRead(c) \/ receiver_onClose(c))
          \/ (\E c \in Conn, i \in Id : NetMsgBusRspSendMsg(c, i))
  BY <1>f, <1>10 DEF poolvars, Req2Receiver_onRead, Accept, receiver_onRead, receiver_onClose,
     NetMsgBusRspSendMsg
<1>11. CASE (\E h \in Hosts : Move(h))
  BY <1>f, <1>11 DEF poolvars, Move
<1>12. CASE UNCHANGED vars
  BY <1>f, <1>12 DEF poolvars, vars
<1> QED BY <1>1, <1>2, <1>3, <1>4, <1>5, <1>6, <1>7, <1>8, <1>9, <1>10, <1>11, <1>12
        DEF Next, WorkerStep, CallerStep, DispatcherStep, LookupAnswered

-----------------------------------------------------------------------------
(* Connections.                                                              *)

(* Workers leave their connections, keep them, or take one from the pool.    *)
LEMMA ConnFrame ==
  ASSUME ConnInv, UNCHANGED <<pool, link, dest, peer, out, senders, up>>,
         \A v \in Workers : \/ worker'[v].at \notin {"identify", "push", "send"}
                            \/ worker'[v].at = worker[v].at /\ worker'[v].conn = worker[v].conn
                            \/ worker'[v].at = "send" /\ InPool(pool, worker'[v].conn)
  PROVE  ConnInv'
<1>1. Unused'
  BY DEF ConnInv, Unused, Using
<1>2. OnlyUp' /\ Served'
  BY DEF ConnInv, OnlyUp, Served
<1>3. ASSUME NEW c \in Conn, Unknown(c)'
      PROVE  /\ out'[c] # << >> => Head(out'[c]) = 0
             /\ InPool(pool', c) \/ (\E w \in Workers : worker'[w].at \in {"push", "send"} /\ worker'[w].conn = c)
                  => out'[c] # << >>
  <2>1. Unknown(c)
    BY <1>3 DEF Unknown
  <2> QED BY <2>1 DEF ConnInv, Introduced
<1>4. OncePooled'
  BY DEF ConnInv, OncePooled, Creating, Distinct
<1> QED BY <1>1, <1>2, <1>3, <1>4 DEF ConnInv, Introduced

LEMMA FreeAt == Free.at = "idle" /\ \A pc, i, h : Task(pc, i, h).at = pc
BY DEF Free, Task

LEMMA ConnNow ==
  ASSUME ConnInv, UNCHANGED <<pool, link, dest, peer, out, senders, up>>, NEW w \in Workers,
         \A v \in Workers : v # w => worker'[v] = worker[v],
         \/ worker'[w].at \notin {"identify", "push", "send"}
         \/ worker'[w].at = "send" /\ InPool(pool, worker'[w].conn)
  PROVE  ConnInv'
BY ConnFrame

LEMMA FailsLeaves ==
  ASSUME WorkerType, NEW w \in Workers, CreateFails(w)
  PROVE  /\ \A v \in Workers : v # w => worker'[v] = worker[v]
         /\ worker'[w].at \notin {"identify", "push", "send"}
BY FreeAt DEF WorkerType, CreateFails, Goto, GiveUp, Done

LEMMA HeadAppend ==
  ASSUME NEW S, NEW q \in Seq(S), NEW e \in S
  PROVE  /\ Append(q, e) # << >>
         /\ q # << >> => Head(Append(q, e)) = Head(q)
         /\ q = << >> => Head(Append(q, e)) = e
<1>1. Append(q, e) \in Seq(S) /\ Len(Append(q, e)) = Len(q) + 1 /\ Len(q) \in Nat
  OBVIOUS
<1>2. Append(q, e) # << >>
  BY <1>1, EmptySeq
<1>3. Head(Append(q, e)) = Append(q, e)[1]
  BY <1>1, <1>2
<1>4. CASE q = << >>
  BY <1>2, <1>3, <1>4
<1>5. CASE q # << >>
  <2>1. 1 \in 1..Len(q) /\ Head(q) = q[1]
    BY <1>5
  <2> QED BY <1>2, <1>3, <1>5, <2>1
<1> QED BY <1>4, <1>5, <1>2

LEMMA ConnStep ==
  ASSUME TypeOK, PlaceInv, ConnInv, Next \/ UNCHANGED vars
  PROVE  ConnInv'
<1>0. TypeOK /\ WorkerType /\ PoolType /\ ConnType /\ Assigned /\ ConnInv
  BY DEF TypeOK, PlaceInv
<1>f. ASSUME UNCHANGED <<worker, pool, link, dest, peer, out, senders, up>>
      PROVE  ConnInv'
  BY <1>0, <1>f, ConnFrame
<1>1. ASSUME NEW i \in Id, SendMsgDirectToClient(i)
      PROVE  ConnInv'
  <2>1. /\ \A v \in Workers : v # Caller(i) => worker'[v] = worker[v]
        /\ worker' = worker \/ worker'[Caller(i)].at \notin {"identify", "push", "send"}
        /\ Caller(i) \in Workers
    BY <1>0, <1>1, FreeAt, WorkerNames DEF WorkerType, SendMsgDirectToClient
  <2>2. UNCHANGED <<pool, link, dest, peer, out, senders, up>>
    BY <1>1 DEF SendMsgDirectToClient, poolvars, connvars, recvvars, movevars
  <2> QED BY <1>0, <2>1, <2>2, ConnFrame
<1>2. ASSUME NEW i \in Id, SyncLookup(i)
      PROVE  ConnInv'
  <2>1. /\ \A v \in Workers : v # Caller(i) => worker'[v] = worker[v]
        /\ worker'[Caller(i)].at \notin {"identify", "push", "send"} /\ Caller(i) \in Workers
    BY <1>0, <1>2, FreeAt, WorkerNames DEF WorkerType, SyncLookup, Done
  <2>2. UNCHANGED <<pool, link, dest, peer, out, senders, up>>
    BY <1>2 DEF SyncLookup, poolvars, connvars, recvvars, movevars
  <2> QED BY <1>0, <2>1, <2>2, ConnNow
<1>3. ASSUME NEW i \in Id, Join(i)
      PROVE  ConnInv'
  <2>1. /\ \A v \in Workers : v # Caller(i) => worker'[v] = worker[v]
        /\ worker'[Caller(i)].at \notin {"identify", "push", "send"} /\ Caller(i) \in Workers
    BY <1>0, <1>3, FreeAt, WorkerNames DEF WorkerType, Join, Done
  <2>2. UNCHANGED <<pool, link, dest, peer, out, senders, up>>
    BY <1>3 DEF Join, poolvars, connvars, recvvars, movevars
  <2> QED BY <1>0, <2>1, <2>2, ConnNow
<1>4. ASSUME NEW i \in Id, Timeout(i)
      PROVE  ConnInv'
  <2>1. /\ \A v \in Workers : v # Caller(i) => worker'[v] = worker[v]
        /\ worker'[Caller(i)].at \notin {"identify", "push", "send"} /\ Caller(i) \in Workers
    BY <1>0, <1>4, FreeAt, WorkerNames DEF WorkerType, Timeout, Done, GiveUp
  <2>2. UNCHANGED <<pool, link, dest, peer, out, senders, up>>
    BY <1>4 DEF Timeout, poolvars, connvars, recvvars, movevars
  <2> QED BY <1>0, <2>1, <2>2, ConnNow
<1>5. ASSUME NEW t \in Named, NextTask(t)
      PROVE  ConnInv'
  <2>1. /\ \A v \in Workers : v # t => worker'[v] = worker[v]
        /\ worker'[t].at \notin {"identify", "push", "send"} /\ t \in Workers
    BY <1>0, <1>5, FreeAt, WorkerNames DEF WorkerType, NextTask
  <2>2. UNCHANGED <<pool, link, dest, peer, out, senders, up>>
    BY <1>5 DEF NextTask, poolvars, connvars, recvvars, movevars
  <2> QED BY <1>0, <2>1, <2>2, ConnNow
<1>6. ASSUME NEW w \in Workers, ReadCache(w)
      PROVE  ConnInv'
  <2>1. /\ \A v \in Workers : v # w => worker'[v] = worker[v]
        /\ worker'[w].at \notin {"identify", "push", "send"} /\ w \in Workers
    BY <1>0, <1>6, FreeAt, WorkerNames DEF WorkerType, ReadCache, Done, GiveUp, Goto
  <2>2. UNCHANGED <<pool, link, dest, peer, out, senders, up>>
    BY <1>6 DEF ReadCache, poolvars, connvars, recvvars, movevars
  <2> QED BY <1>0, <2>1, <2>2, ConnNow
<1>7. ASSUME NEW w \in Workers, QueueWaiting(w)
      PROVE  ConnInv'
  <2>1. /\ \A v \in Workers : v # w => worker'[v] = worker[v]
        /\ worker'[w].at \notin {"identify", "push", "send"} /\ w \in Workers
    BY <1>0, <1>7, FreeAt, WorkerNames DEF WorkerType, QueueWaiting, Goto
  <2>2. UNCHANGED <<pool, link, dest, peer, out, senders, up>>
    BY <1>7 DEF QueueWaiting, poolvars, connvars, recvvars, movevars
  <2> QED BY <1>0, <2>1, <2>2, ConnNow
<1>8. ASSUME NEW w \in Workers, Forget(w)
      PROVE  ConnInv'
  <2>1. /\ \A v \in Workers : v # w => worker'[v] = worker[v]
        /\ worker'[w].at \notin {"identify", "push", "send"} /\ w \in Workers
    BY <1>0, <1>8, FreeAt, WorkerNames DEF WorkerType, Forget, Goto
  <2>2. UNCHANGED <<pool, link, dest, peer, out, senders, up>>
    BY <1>8 DEF Forget, poolvars, connvars, recvvars, movevars
  <2> QED BY <1>0, <2>1, <2>2, ConnNow
<1>9. ASSUME NEW w \in Workers, AskServer(w)
      PROVE  ConnInv'
  <2>1. /\ \A v \in Workers : v # w => worker'[v] = worker[v]
        /\ worker'[w].at \notin {"identify", "push", "send"} /\ w \in Workers
    BY <1>0, <1>9, FreeAt, WorkerNames DEF WorkerType, AskServer, Done
  <2>2. UNCHANGED <<pool, link, dest, peer, out, senders, up>>
    BY <1>9 DEF AskServer, poolvars, connvars, recvvars, movevars
  <2> QED BY <1>0, <2>1, <2>2, ConnNow
<1>10. ASSUME NEW w \in Workers, FindConnection(w)
      PROVE  ConnInv'
  <2>1. worker[w].at \in {"get", "again"} /\ UNCHANGED <<pool, link, dest, peer, out, senders, up>>
    BY <1>10 DEF FindConnection, poolvars, connvars, recvvars, movevars
  <2> DEFINE k == PoolOf(worker[w].id)  h == worker[w].host
  <2>2. k \in Pools /\ h \in Hosts
    BY <1>0, <2>1 DEF PoolOf, Pools, Assigned, Sound
  <2>3. \/ \E c \in Conn : Has(pool[k][h], c) /\ Now(w, "send", worker[w].id, h, c, worker[w].need)
        \/ Goto(w, "count")
    BY <1>0, <1>10, <2>1, GetIs DEF FindConnection
  <2>4. ASSUME NEW c \in Conn, Has(pool[k][h], c), Now(w, "send", worker[w].id, h, c, worker[w].need)
        PROVE  ConnInv'
    <3>1. InPool(pool, c)
      BY <2>2, <2>4 DEF InPool
    <3> QED BY <1>0, <2>1, <2>4, <3>1, ConnNow DEF Now
  <2>5. CASE Goto(w, "count")
    <3>1. /\ \A v \in Workers : v # w => worker'[v] = worker[v]
          /\ worker'[w].at \notin {"identify", "push", "send"}
      BY <1>0, <2>5, FreeAt DEF WorkerType, Goto
    <3> QED BY <1>0, <2>1, <3>1, ConnNow
  <2> QED BY <2>3, <2>4, <2>5
<1>11. ASSUME NEW w \in Workers, CountMissing(w)
      PROVE  ConnInv'
  <2>1. /\ \A v \in Workers : v # w => worker'[v] = worker[v]
        /\ worker'[w].at \notin {"identify", "push", "send"} /\ w \in Workers
    BY <1>0, <1>11, FreeAt, WorkerNames DEF WorkerType, CountMissing, Goto
  <2>2. UNCHANGED <<pool, link, dest, peer, out, senders, up>>
    BY <1>11 DEF CountMissing, poolvars, connvars, recvvars, movevars
  <2> QED BY <1>0, <2>1, <2>2, ConnNow
<1>12. ASSUME NEW w \in Workers, Connect(w)
      PROVE  ConnInv'
  <2>1. ASSUME NEW c \in Conn, worker[w].host \in up, link[c] = "none", link' = [link EXCEPT ![c] = "up"],
               dest' = [dest EXCEPT ![c] = worker[w].host],
               worker' = [worker EXCEPT ![w].at = "identify", ![w].conn = c],
               UNCHANGED <<pool, peer, out, senders, up>>
        PROVE  ConnInv'
    <3>1. /\ worker'[w].at = "identify" /\ worker'[w].conn = c
          /\ \A v \in Workers : v # w => worker'[v] = worker[v]
      BY <1>0, <2>1 DEF WorkerType
    <3>2. /\ link'[c] = "up" /\ dest'[c] \in up
          /\ \A d \in Conn : d # c => link'[d] = link[d] /\ dest'[d] = dest[d]
      BY <1>0, <2>1 DEF ConnType
    <3>3. /\ ~InPool(pool, c) /\ out[c] = << >>
          /\ \A v \in Workers : worker[v].at \in {"identify", "push", "send"} => worker[v].conn # c
      BY <1>0, <2>1 DEF ConnInv, Unused, OnlyUp, Using
    <3>4. Unused' /\ OnlyUp' /\ Served'
      <4>0. UNCHANGED <<pool, peer, out, senders, up>>
        BY <2>1
      <4>1. Unused'
        BY <1>0, <4>0, <3>1, <3>2, <3>3 DEF ConnInv, Unused, Using
      <4>2. OnlyUp'
        BY <1>0, <4>0, <3>2 DEF ConnInv, OnlyUp
      <4>3. Served'
        BY <1>0, <4>0, <3>2 DEF ConnInv, Served
      <4> QED BY <4>1, <4>2, <4>3
    <3>5. Introduced'
      <4>1. ASSUME NEW d \in Conn, Unknown(d)'
            PROVE  /\ out'[d] # << >> => Head(out'[d]) = 0
                   /\ InPool(pool', d) \/ (\E v \in Workers : worker'[v].at \in {"push", "send"} /\ worker'[v].conn = d)
                        => out'[d] # << >>
        <5>1. CASE d = c
          BY <2>1, <3>1, <3>3, <5>1
        <5>2. CASE d # c
          <6>1. Unknown(d)
            BY <2>1, <3>2, <4>1, <5>2 DEF Unknown
          <6> QED BY <1>0, <2>1, <3>1, <6>1 DEF ConnInv, Introduced
        <5> QED BY <5>1, <5>2
      <4> QED BY <4>1 DEF Introduced
    <3>6. OncePooled'
      <4>0. pool' = pool
        BY <2>1
      <4>1. \A v \in Workers : Creating(v)' => v = w \/ (Creating(v) /\ worker[v].conn # c)
        BY <3>1, <3>3 DEF Creating
      <4>2. Distinct(pool') /\ \A v \in Workers : Creating(v)' => ~InPool(pool', worker'[v].conn)
        BY <1>0, <4>0, <4>1, <3>1, <3>3 DEF ConnInv, OncePooled, Distinct
      <4>3. ASSUME NEW u \in Workers, NEW v \in Workers, Creating(u)', Creating(v)', worker'[u].conn = worker'[v].conn
            PROVE  u = v
        BY <1>0, <4>1, <4>3, <3>1 DEF ConnInv, OncePooled
      <4> QED BY <4>2, <4>3 DEF OncePooled
    <3> QED BY <3>4, <3>5, <3>6 DEF ConnInv
  <2>9. CASE CreateFails(w) /\ UNCHANGED <<pool, link, dest, peer, out, senders, up>>
    BY <1>0, <2>9, FailsLeaves, ConnNow
  <2> QED BY <1>12, <2>1, <2>9 DEF Connect, poolvars, connvars, recvvars, movevars
<1>13. ASSUME NEW w \in Workers, Identify(w)
      PROVE  ConnInv'
  <2>1. CASE /\ link[worker[w].conn] = "up" /\ out' = [out EXCEPT ![worker[w].conn] = Append(out[worker[w].conn], 0)]
             /\ Goto(w, "push") /\ UNCHANGED <<pool, link, dest, peer, senders, up>>
    <3> DEFINE c == worker[w].conn
    <3>1. worker[w].at = "identify" /\ c \in Conn
      BY <1>0, <1>13 DEF Identify, Assigned, Sound
    <3>2. /\ worker'[w].at = "push" /\ worker'[w].conn = c /\ worker[w].conn = c
          /\ \A v \in Workers : v # w => worker'[v] = worker[v]
      BY <1>0, <2>1 DEF WorkerType, Goto
    <3> HIDE DEF c
    <3>3. out[c] \in Seq({0} \cup Id) /\ 0 \in {0} \cup Id
      BY <1>0, <3>1 DEF ConnType
    <3>4. Append(out[c], 0) # << >> /\ (out[c] # << >> => Head(Append(out[c], 0)) = Head(out[c]))
          /\ (out[c] = << >> => Head(Append(out[c], 0)) = 0)
      BY <3>3, HeadAppend
    <3>5. out'[c] = Append(out[c], 0) /\ \A d \in Conn : d # c => out'[d] = out[d]
      BY <1>0, <2>1, <3>1 DEF ConnType, c
    <3>6. Unused' /\ OnlyUp' /\ Served'
      BY <1>0, <2>1, <3>1, <3>2, <3>5 DEF ConnInv, Unused, OnlyUp, Served, Using
    <3>7. Introduced'
      <4>1. ASSUME NEW d \in Conn, Unknown(d)'
            PROVE  /\ out'[d] # << >> => Head(out'[d]) = 0
                   /\ InPool(pool', d) \/ (\E v \in Workers : worker'[v].at \in {"push", "send"} /\ worker'[v].conn = d)
                        => out'[d] # << >>
        <5>0. Unknown(d)
          BY <2>1, <4>1 DEF Unknown
        <5>1. CASE d = c
          BY <1>0, <3>4, <3>5, <5>0, <5>1 DEF ConnInv, Introduced
        <5>2. CASE d # c
          BY <1>0, <2>1, <3>2, <3>5, <5>0, <5>2 DEF ConnInv, Introduced
        <5> QED BY <5>1, <5>2
      <4> QED BY <4>1 DEF Introduced
    <3>8. OncePooled'
      BY <1>0, <2>1, <3>1, <3>2 DEF ConnInv, OncePooled, Creating, Distinct
    <3> QED BY <3>6, <3>7, <3>8 DEF ConnInv
  <2>9. CASE CreateFails(w) /\ UNCHANGED <<pool, link, dest, peer, out, senders, up>>
    BY <1>0, <2>9, FailsLeaves, ConnNow
  <2> QED BY <1>13, <2>1, <2>9 DEF Identify, poolvars, connvars, recvvars, movevars
<1>14. ASSUME NEW w \in Workers, Push(w)
      PROVE  ConnInv'
  <2> DEFINE c == worker[w].conn  k == PoolOf(worker[w].id)  h == worker[w].host
  <2>1. worker[w].at = "push" /\ c \in Conn /\ k \in Pools /\ h \in Hosts
    BY <1>0, <1>14 DEF Push, PoolOf, Pools, Assigned, Sound
  <2>2. /\ worker'[w].at \in {"connect", "again"} /\ \A v \in Workers : v # w => worker'[v] = worker[v]
        /\ worker[w].conn = c
    BY <1>0, <1>14 DEF WorkerType, Push
  <2>3. pool' = [pool EXCEPT ![k][h] = Append(pool[k][h], c)] /\ pool \in PoolsOf(Conn)
        /\ UNCHANGED <<link, dest, peer, out, senders, up>>
    BY <1>0, <1>14 DEF Push, PoolType, PoolsOf, connvars, recvvars, movevars
  <2> HIDE DEF c, k, h
  <2>4. /\ \A x : InPool(pool', x) <=> InPool(pool, x) \/ x = c
        /\ Distinct(pool) /\ ~InPool(pool, c) => Distinct(pool')
    <3>1. pool \in PoolsOf(Conn)
      BY <2>3
    <3>2. /\ pool'[k][h] = Append(pool[k][h], c)
          /\ \A l \in Pools, g \in Hosts : l # k \/ g # h => pool'[l][g] = pool[l][g]
      BY <2>1, <2>3 DEF PoolsOf
    <3> QED BY <2>1, <3>1, <3>2, Pushed
  <2>5. ~InPool(pool, c) /\ Distinct(pool) /\ link[c] # "none"
    BY <1>0, <2>1, <2>2 DEF ConnInv, OncePooled, Creating, Unused, Using
  <2>6. Unused' /\ OnlyUp' /\ Served'
    BY <1>0, <2>2, <2>3, <2>4, <2>5 DEF ConnInv, Unused, OnlyUp, Served, Using
  <2>7. Introduced'
    <3>1. ASSUME NEW d \in Conn, Unknown(d)'
          PROVE  /\ out'[d] # << >> => Head(out'[d]) = 0
                 /\ InPool(pool', d) \/ (\E v \in Workers : worker'[v].at \in {"push", "send"} /\ worker'[v].conn = d)
                      => out'[d] # << >>
      <4>1. Unknown(d)
        BY <2>3, <3>1 DEF Unknown
      <4> QED BY <1>0, <2>1, <2>2, <2>3, <2>4, <4>1 DEF ConnInv, Introduced
    <3> QED BY <3>1 DEF Introduced
  <2>8. OncePooled'
    BY <1>0, <2>1, <2>2, <2>3, <2>4, <2>5 DEF ConnInv, OncePooled, Creating
  <2> QED BY <2>6, <2>7, <2>8 DEF ConnInv
<1>15. ASSUME NEW w \in Workers, FindAgain(w)
      PROVE  ConnInv'
  <2>1. worker[w].at \in {"get", "again"} /\ UNCHANGED <<pool, link, dest, peer, out, senders, up>>
    BY <1>15 DEF FindAgain, poolvars, connvars, recvvars, movevars
  <2> DEFINE k == PoolOf(worker[w].id)  h == worker[w].host
  <2>2. k \in Pools /\ h \in Hosts
    BY <1>0, <2>1 DEF PoolOf, Pools, Assigned, Sound
  <2>3. \/ \E c \in Conn : Has(pool[k][h], c) /\ Now(w, "send", worker[w].id, h, c, worker[w].need)
        \/ GiveUp(w)
    BY <1>0, <1>15, <2>1, GetIs DEF FindAgain
  <2>4. ASSUME NEW c \in Conn, Has(pool[k][h], c), Now(w, "send", worker[w].id, h, c, worker[w].need)
        PROVE  ConnInv'
    <3>1. InPool(pool, c)
      BY <2>2, <2>4 DEF InPool
    <3> QED BY <1>0, <2>1, <2>4, <3>1, ConnNow DEF Now
  <2>5. CASE GiveUp(w)
    <3>1. /\ \A v \in Workers : v # w => worker'[v] = worker[v]
          /\ worker'[w].at \notin {"identify", "push", "send"}
      BY <1>0, <2>5, FreeAt DEF WorkerType, GiveUp, Done
    <3> QED BY <1>0, <2>1, <3>1, ConnNow
  <2> QED BY <2>3, <2>4, <2>5
<1>16. ASSUME NEW w \in Workers, WriteTaskData(w)
      PROVE  ConnInv'
  <2> DEFINE c == worker[w].conn  i == worker[w].id
  <2>1. worker[w].at = "send" /\ c \in Conn /\ i \in {0} \cup Id
    BY <1>0, <1>16, FieldTypes DEF WriteTaskData, Assigned, Sound
  <2>2. /\ worker'[w].at \in {"idle", "wait"} /\ \A v \in Workers : v # w => worker'[v] = worker[v]
        /\ worker[w].conn = c
    BY <1>0, <1>16, FreeAt DEF WorkerType, WriteTaskData, Goto, GiveUp, Done
  <2>3. /\ out' = out \/ (link[c] = "up" /\ out' = [out EXCEPT ![c] = Append(out[c], i)])
        /\ UNCHANGED <<pool, link, dest, peer, senders, up>>
    BY <1>16 DEF WriteTaskData, poolvars, connvars, recvvars, movevars
  <2> HIDE DEF c, i
  <2>4. CASE out' = out
    BY <1>0, <2>2, <2>3, <2>4, ConnNow
  <2>5. CASE link[c] = "up" /\ out' = [out EXCEPT ![c] = Append(out[c], i)]
    <3>3. out[c] \in Seq({0} \cup Id)
      BY <1>0, <2>1 DEF ConnType
    <3>4. Append(out[c], i) # << >> /\ (out[c] # << >> => Head(Append(out[c], i)) = Head(out[c]))
      BY <2>1, <3>3, HeadAppend
    <3>5. out'[c] = Append(out[c], i) /\ \A d \in Conn : d # c => out'[d] = out[d]
      BY <1>0, <2>1, <2>5 DEF ConnType
    <3>6. Unused' /\ OnlyUp' /\ Served'
      BY <1>0, <2>1, <2>2, <2>3, <2>5, <3>5 DEF ConnInv, Unused, OnlyUp, Served, Using
    <3>7. Introduced'
      <4>1. ASSUME NEW d \in Conn, Unknown(d)'
            PROVE  /\ out'[d] # << >> => Head(out'[d]) = 0
                   /\ InPool(pool', d) \/ (\E v \in Workers : worker'[v].at \in {"push", "send"} /\ worker'[v].conn = d)
                        => out'[d] # << >>
        <5>0. Unknown(d)
          BY <2>3, <4>1 DEF Unknown
        <5>1. CASE d = c
          <6>1. out[c] # << >> /\ Head(out[c]) = 0
            BY <1>0, <2>1, <2>2, <5>0, <5>1 DEF ConnInv, Introduced
          <6> QED BY <3>4, <3>5, <5>1, <6>1
        <5>2. CASE d # c
          BY <1>0, <2>2, <2>3, <3>5, <5>0, <5>2 DEF ConnInv, Introduced
        <5> QED BY <5>1, <5>2
      <4> QED BY <4>1 DEF Introduced
    <3>8. OncePooled'
      BY <1>0, <2>2, <2>3 DEF ConnInv, OncePooled, Creating, Distinct
    <3> QED BY <3>6, <3>7, <3>8 DEF ConnInv
  <2> QED BY <2>3, <2>4, <2>5
<1>17. ASSUME NEW c \in Conn, Req2Receiver_onClose(c)
      PROVE  ConnInv'
  <2>1. /\ link[c] = "up" /\ link'[c] = "closed" /\ out'[c] = << >>
        /\ \A d \in Conn : d # c => link'[d] = link[d] /\ out'[d] = out[d]
        /\ UNCHANGED <<worker, dest, peer, senders, up>>
    BY <1>0, <1>17 DEF Req2Receiver_onClose, ConnType, recvvars, movevars
  <2>2. Distinct(pool') /\ \A x : InPool(pool', x) => InPool(pool, x)
    <3>1. pool \in PoolsOf(Conn) /\ Distinct(pool)
      BY <1>0 DEF PoolType, PoolsOf, ConnInv, OncePooled
    <3> QED BY <1>17, <3>1, PoolRemove DEF Req2Receiver_onClose, RemoveTcpSock
  <2>3. Unused' /\ OnlyUp' /\ Served'
    BY <1>0, <2>1, <2>2 DEF ConnInv, Unused, OnlyUp, Served, Using
  <2>4. Introduced'
    <3>1. ASSUME NEW d \in Conn, Unknown(d)'
          PROVE  /\ out'[d] # << >> => Head(out'[d]) = 0
                 /\ InPool(pool', d) \/ (\E v \in Workers : worker'[v].at \in {"push", "send"} /\ worker'[v].conn = d)
                      => out'[d] # << >>
      <4>1. Unknown(d) /\ d # c
        BY <2>1, <3>1 DEF Unknown
      <4> QED BY <1>0, <2>1, <2>2, <4>1 DEF ConnInv, Introduced
    <3> QED BY <3>1 DEF Introduced
  <2>5. OncePooled'
    BY <1>0, <2>1, <2>2 DEF ConnInv, OncePooled, Creating
  <2> QED BY <2>3, <2>4, <2>5 DEF ConnInv
<1>18. ASSUME NEW c \in Conn, Accept(c)
      PROVE  ConnInv'
  <2>1. /\ link[c] # "none" /\ peer[c] = "backlog" /\ peer'[c] \in {"open", "closed"}
        /\ \A d \in Conn : d # c => peer'[d] = peer[d]
        /\ UNCHANGED <<worker, pool, link, dest, out, senders, up>>
    BY <1>0, <1>18 DEF Accept, ConnType, poolvars, connvars, movevars
  <2>2. Unused' /\ OnlyUp' /\ Served'
    BY <1>0, <2>1 DEF ConnInv, Unused, OnlyUp, Served, Using
  <2>3. Introduced'
    <3>1. ASSUME NEW d \in Conn, Unknown(d)'
          PROVE  /\ out'[d] # << >> => Head(out'[d]) = 0
                 /\ InPool(pool', d) \/ (\E v \in Workers : worker'[v].at \in {"push", "send"} /\ worker'[v].conn = d)
                      => out'[d] # << >>
      <4>1. Unknown(d)
        BY <2>1, <3>1 DEF Unknown
      <4> QED BY <1>0, <2>1, <4>1 DEF ConnInv, Introduced
    <3> QED BY <3>1 DEF Introduced
  <2>4. OncePooled'
    BY <1>0, <2>1 DEF ConnInv, OncePooled, Creating, Distinct
  <2> QED BY <2>2, <2>3, <2>4 DEF ConnInv
<1>19. ASSUME NEW c \in Conn, receiver_onRead(c)
      PROVE  ConnInv'
  <2>1. /\ link[c] = "up"
        /\ \A d \in Conn : d # c => out'[d] = out[d]
        /\ senders' = IF Allowed THEN senders \cup {c} ELSE senders
        /\ UNCHANGED <<worker, pool, link, dest, peer, up>>
    BY <1>0, <1>19 DEF receiver_onRead, FilterBySender, ConnType, poolvars, connvars, movevars
  <2>2. Unused' /\ OnlyUp' /\ Served'
    BY <1>0, <2>1 DEF ConnInv, Unused, OnlyUp, Served, Using
  <2>3. Introduced'
    <3>1. ASSUME NEW d \in Conn, Unknown(d)'
          PROVE  /\ out'[d] # << >> => Head(out'[d]) = 0
                 /\ InPool(pool', d) \/ (\E v \in Workers : worker'[v].at \in {"push", "send"} /\ worker'[v].conn = d)
                      => out'[d] # << >>
      <4>1. Unknown(d) /\ d # c
        BY <2>1, <3>1 DEF Unknown
      <4> QED BY <1>0, <2>1, <4>1 DEF ConnInv, Introduced
    <3> QED BY <3>1 DEF Introduced
  <2>4. OncePooled'
    BY <1>0, <2>1 DEF ConnInv, OncePooled, Creating, Distinct
  <2> QED BY <2>2, <2>3, <2>4 DEF ConnInv
<1>20. ASSUME NEW c \in Conn, receiver_onClose(c)
      PROVE  ConnInv'
  <2>1. /\ peer[c] \in {"open", "failed"} /\ peer'[c] = "closed"
        /\ \A d \in Conn : d # c => peer'[d] = peer[d]
        /\ senders' \in {senders, senders \ {c}} /\ UNCHANGED <<worker, pool, link, dest, out, up>>
    BY <1>0, <1>20 DEF receiver_onClose, ConnType, poolvars, connvars, movevars
  <2>2. Unused' /\ OnlyUp' /\ Served'
    BY <1>0, <2>1 DEF ConnInv, Unused, OnlyUp, Served, Using
  <2>3. Introduced'
    <3>1. ASSUME NEW d \in Conn, Unknown(d)'
          PROVE  /\ out'[d] # << >> => Head(out'[d]) = 0
                 /\ InPool(pool', d) \/ (\E v \in Workers : worker'[v].at \in {"push", "send"} /\ worker'[v].conn = d)
                      => out'[d] # << >>
      <4>1. Unknown(d) /\ d # c
        BY <2>1, <3>1 DEF Unknown
      <4> QED BY <1>0, <2>1, <4>1 DEF ConnInv, Introduced
    <3> QED BY <3>1 DEF Introduced
  <2>4. OncePooled'
    BY <1>0, <2>1 DEF ConnInv, OncePooled, Creating, Distinct
  <2> QED BY <2>2, <2>3, <2>4 DEF ConnInv
<1>21. ASSUME NEW h \in Hosts, Move(h)
      PROVE  ConnInv'
  <2>1. /\ \A c \in Conn : peer'[c] = IF link[c] # "none" /\ dest[c] \in up THEN "closed" ELSE peer[c]
        /\ senders' = {} /\ UNCHANGED <<worker, pool, link, dest, out>>
    BY <1>21 DEF Move, StartReceiver, poolvars, connvars
  <2>2. \A c \in Conn : link[c] # "none" => peer'[c] = "closed"
    BY <1>0, <2>1 DEF ConnInv, Served
  <2>3. Unused' /\ OnlyUp' /\ Served'
    BY <1>0, <2>1, <2>2 DEF ConnInv, Unused, OnlyUp, Served, Using
  <2>4. Introduced'
    BY <2>1, <2>2 DEF Introduced, Unknown
  <2>5. OncePooled'
    BY <1>0, <2>1 DEF ConnInv, OncePooled, Creating, Distinct
  <2> QED BY <2>3, <2>4, <2>5 DEF ConnInv
<1>22. CASE Start \/ Stop \/ TakeAll \/ Dispatch
  BY <1>f, <1>22 DEF poolvars, connvars, recvvars, movevars, Start, Stop, TakeAll, Dispatch
<1>23. CASE EndDispatcher \/ CacheHost \/ Requeue
          \/ (\E i \in Id : PostMsgDirectToClient(i))
          \/ (\E h \in known \cup {NoHost} : HandleRspGetClient(h))
  BY <1>f, <1>23 DEF poolvars, connvars, recvvars, movevars, EndDispatcher, CacheHost, Requeue,
     PostMsgDirectToClient, HandleRspGetClient
<1>24. CASE (\E c \in Conn : Req2Receiver_onRead(c))
  BY <1>f, <1>24 DEF poolvars, connvars, recvvars, movevars, Req2Receiver_onRead
<1>26. ASSUME NEW c \in Conn, NEW i \in Id, NetMsgBusRspSendMsg(c, i)
      PROVE  ConnInv'
  <2>1. CASE UNCHANGED <<peer, senders>>
    BY <1>f, <1>26, <2>1 DEF NetMsgBusRspSendMsg, poolvars, connvars, movevars
  <2> SUFFICES ASSUME peer[c] \in {"open", "failed"}, receiver_onError(c) PROVE ConnInv'
    BY <1>26, <2>1 DEF NetMsgBusRspSendMsg
  <2>6. /\ peer[c] \in {"open", "failed"} /\ peer'[c] = "failed"
        /\ \A d \in Conn : d # c => peer'[d] = peer[d]
        /\ senders' = senders \ {c} /\ UNCHANGED <<worker, pool, link, dest, out, up>>
    BY <1>0, <1>26 DEF NetMsgBusRspSendMsg, receiver_onError, ConnType, poolvars, connvars, movevars
  <2>2. Unused' /\ OnlyUp' /\ Served'
    BY <1>0, <2>6 DEF ConnInv, Unused, OnlyUp, Served, Using
  <2>3. Introduced'
    <3>1. ASSUME NEW d \in Conn, Unknown(d)'
          PROVE  /\ out'[d] # << >> => Head(out'[d]) = 0
                 /\ InPool(pool', d) \/ (\E v \in Workers : worker'[v].at \in {"push", "send"} /\ worker'[v].conn = d)
                      => out'[d] # << >>
      <4>1. Unknown(d) /\ d # c
        BY <2>6, <3>1 DEF Unknown
      <4> QED BY <1>0, <2>6, <4>1 DEF ConnInv, Introduced
    <3> QED BY <3>1 DEF Introduced
  <2>4. OncePooled'
    BY <1>0, <2>6 DEF ConnInv, OncePooled, Creating, Distinct
  <2> QED BY <2>2, <2>3, <2>4 DEF ConnInv
<1>25. CASE UNCHANGED vars
  BY <1>f, <1>25 DEF poolvars, connvars, recvvars, movevars, vars
<1> QED BY <1>1, <1>2, <1>3, <1>4, <1>5, <1>6, <1>7, <1>8, <1>9, <1>10, <1>11, <1>12, <1>13,
           <1>14, <1>15, <1>16, <1>17, <1>18, <1>19, <1>20, <1>21, <1>22, <1>23, <1>24, <1>25, <1>26
        DEF Next, WorkerStep, CallerStep, DispatcherStep, LookupAnswered

-----------------------------------------------------------------------------
(* Results.                                                                  *)

RouteInv == TypeOK /\ PlaceInv /\ ConnInv

LEMMA InitTyped ==
  ASSUME Init
  PROVE  TypeOK
<1>1. StopType
  BY DirectRequestsAssumption DEF Init, StopType
<1>2. QueueType
  <2>1. << >> \in Seq(Id)
    OBVIOUS
  <2>2. answering \in Answering
    BY NotAnsweringTyped DEF Init
  <2> QED BY <2>1, <2>2 DEF Init, QueueType, Answering
<1>3. WorkerType
  BY ZerosFit DEF Init, Zeros, WorkerType, Free, Task, At
<1>4. RequestType
  BY DirectRequestsAssumption DEF Init, RequestType
<1>5. PoolType
  BY DEF Init, PoolType
<1>6. ConnType
  BY DEF Init, ConnType
<1>7. ReceiverType
  BY DirectRequestsAssumption DEF Init, ReceiverType
<1>8. HistoryType
  BY DEF Init, HistoryType
<1> QED BY <1>1, <1>2, <1>3, <1>4, <1>5, <1>6, <1>7, <1>8 DEF TypeOK

LEMMA InitPlaced ==
  ASSUME Init
  PROVE  PlaceInv
<1>1. \A w \in Workers : worker[w].at = "idle"
  BY FreeAt DEF Init
<1>2. Assigned
  BY <1>1 DEF Init, Assigned, Sound, Fit
<1>3. \A s \in Slots : qs[s] = << >>
  <2>1. answering.tasks = << >>
    BY DEF Init, NotAnswering
  <2>2. named[<<"byname", 0>>] = << >> /\ named[<<"byip", 0>>] = << >>
    BY DEF Init, Named
  <2> QED BY <2>1, <2>2 DEF Init, qs, Slots
<1>4. OnceIn(qs) /\ Listed(qs) = {}
  BY <1>3, OfEmpty DEF OnceIn, Listed
<1>5. Posted /\ AnsweringTasks
  BY <1>4 DEF Init, Posted, AnsweringTasks, NotAnswering
<1>6. \A w \in Workers : held[w] = 0 /\ place[w] = "idle"
  BY <1>1 DEF held, place, Carrying
<1>7. Placed(Listed(qs), held, place, sent, table, made)
  BY <1>4, <1>6 DEF Init, Placed
<1> QED BY <1>2, <1>4, <1>5, <1>7 DEF PlaceInv

LEMMA InitConnected ==
  ASSUME Init
  PROVE  ConnInv
<1>1. \A w \in Workers : worker[w].at = "idle"
  BY FreeAt DEF Init
<1>2. \A k \in Pools, h \in Hosts : pool[k][h] = << >>
  BY DEF Init
<1>3. Distinct(pool) /\ \A c : ~InPool(pool, c)
  BY <1>2, OfEmpty DEF Distinct, InPool
<1>4. Unused /\ OnlyUp /\ Served
  BY <1>1, <1>3 DEF Init, Unused, OnlyUp, Served, Using
<1>5. Introduced /\ OncePooled
  BY <1>1, <1>3 DEF Init, Introduced, Unknown, OncePooled, Creating
<1> QED BY <1>4, <1>5 DEF ConnInv

LEMMA RouteStep ==
  ASSUME RouteInv, Next \/ UNCHANGED vars
  PROVE  RouteInv'
<1>1. TypeOK /\ PlaceInv /\ ConnInv
  BY DEF RouteInv
<1>2. WorkerType' /\ PlaceInv'
  BY <1>1, PlaceStep
<1>3. ConnInv'
  BY <1>1, ConnStep
<1>4. StopType' /\ QueueType' /\ RequestType'
  BY <1>1, StopTypeStep, QueueTypeStep, RequestTypeStep
<1>5. PoolType' /\ ConnType' /\ ReceiverType' /\ HistoryType'
  BY <1>1, PoolTypeStep, ConnTypeStep, ReceiverTypeStep, HistoryTypeStep
<1> QED BY <1>2, <1>3, <1>4, <1>5 DEF RouteInv, TypeOK

LEMMA Routed == Spec => []RouteInv
<1>1. Init => RouteInv
  BY InitTyped, InitPlaced, InitConnected DEF RouteInv
<1>2. RouteInv /\ [Next]_vars => RouteInv'
  BY RouteStep
<1> QED BY <1>1, <1>2, PTL DEF Spec

(* The variables keep their types, for any number of requests, connections,
   hosts and moves: in particular a connection that leaves the pool in
   TcpClientPool::RemoveTcpSock was in it at most once.                      *)
THEOREM TypeCorrect == Spec => []TypeOK
<1>1. RouteInv => TypeOK
  BY DEF RouteInv
<1> QED BY <1>1, Routed, PTL

(* The receiver reads who is calling before any request of a connection,
   whichever threads fill the pool and take from it meanwhile.               *)
THEOREM IdentifiedFirstCorrect == Spec => []IdentifiedFirst
<1>1. RouteInv => IdentifiedFirst
  <2> SUFFICES ASSUME RouteInv, NEW c \in Conn, Allowed, c \notin senders,
                      peer[c] \in {"backlog", "open"}, out[c] # << >>
               PROVE  Head(out[c]) = 0
    BY DEF IdentifiedFirst
  <2>1. link[c] = "up"
    BY DEF RouteInv, ConnInv, OnlyUp
  <2>2. Unknown(c)
    BY <2>1 DEF Unknown
  <2> QED BY <2>2 DEF RouteInv, ConnInv, Introduced
<1> QED BY <1>1, Routed, PTL

-----------------------------------------------------------------------------
(* A request on its way is in one place.                                     *)

LEMMA OfConcat ==
  ASSUME NEW S, NEW p \in Seq(S), NEW q \in Seq(S)
  PROVE  /\ p \o q \in Seq(S)
         /\ \A x : Has(p \o q, x) <=> Has(p, x) \/ Has(q, x)
         /\ NoDup(p) /\ NoDup(q) /\ (\A x \in S : ~(Has(p, x) /\ Has(q, x))) => NoDup(p \o q)
<1> DEFINE r == p \o q
<1>1. /\ r \in Seq(S) /\ Len(r) = Len(p) + Len(q) /\ Len(p) \in Nat /\ Len(q) \in Nat
      /\ \A j \in 1..Len(p) + Len(q) : r[j] = IF j <= Len(p) THEN p[j] ELSE q[j - Len(p)]
  BY ConcatProperties
<1> HIDE DEF r
<1>2. \A j \in 1..Len(p) : j \in 1..Len(r) /\ r[j] = p[j]
  BY <1>1
<1>3. \A j \in 1..Len(q) : j + Len(p) \in 1..Len(r) /\ r[j + Len(p)] = q[j]
  BY <1>1
<1>4. \A j \in 1..Len(r) : \/ j \in 1..Len(p) /\ r[j] = p[j]
                           \/ j - Len(p) \in 1..Len(q) /\ r[j] = q[j - Len(p)]
  BY <1>1
<1>5. ASSUME NEW x
      PROVE  Has(r, x) <=> Has(p, x) \/ Has(q, x)
  BY <1>2, <1>3, <1>4 DEF Has
<1>6. ASSUME NoDup(p), NoDup(q), \A x \in S : ~(Has(p, x) /\ Has(q, x))
      PROVE  NoDup(r)
  <2> SUFFICES ASSUME NEW j \in 1..Len(r), NEW k \in 1..Len(r), r[j] = r[k]
               PROVE  j = k
    BY DEF NoDup
  <2>1. r[j] \in S
    BY <1>1
  <2>2. CASE j \in 1..Len(p) /\ r[j] = p[j] /\ k \in 1..Len(p) /\ r[k] = p[k]
    BY <1>6, <2>2 DEF NoDup
  <2>3. CASE j - Len(p) \in 1..Len(q) /\ r[j] = q[j - Len(p)] /\ k - Len(p) \in 1..Len(q) /\ r[k] = q[k - Len(p)]
    <3>1. j - Len(p) = k - Len(p)
      BY <1>6, <2>3 DEF NoDup
    <3> QED BY <1>1, <3>1
  <2>4. CASE j \in 1..Len(p) /\ r[j] = p[j] /\ k - Len(p) \in 1..Len(q) /\ r[k] = q[k - Len(p)]
    BY <1>6, <2>1, <2>4 DEF Has
  <2>5. CASE j - Len(p) \in 1..Len(q) /\ r[j] = q[j - Len(p)] /\ k \in 1..Len(p) /\ r[k] = p[k]
    BY <1>6, <2>1, <2>5 DEF Has
  <2> QED BY <1>4, <2>2, <2>3, <2>4, <2>5
<1> QED BY <1>1, <1>5, <1>6 DEF r

LEMMA CountOne ==
  ASSUME NEW S, NEW q \in Seq(S), NoDup(q), NEW x
  PROVE  Cardinality({j \in 1..Len(q) : q[j] = x}) = IF Has(q, x) THEN 1 ELSE 0
<1>1. CASE Has(q, x)
  <2>1. PICK i \in 1..Len(q) : q[i] = x
    BY <1>1 DEF Has
  <2>2. {j \in 1..Len(q) : q[j] = x} = {i}
    BY <2>1 DEF NoDup
  <2> QED BY <1>1, <2>2, FS_Singleton
<1>2. CASE ~Has(q, x)
  <2>1. {j \in 1..Len(q) : q[j] = x} = {}
    BY <1>2 DEF Has
  <2> QED BY <1>2, <2>1, FS_EmptySet
<1> QED BY <1>1, <1>2

LEMMA QueuedOnce ==
  ASSUME QueueType, OnceIn(qs)
  PROVE  Queued \in Seq(Id) /\ NoDup(Queued) /\ \A i \in Id : Has(Queued, i) <=> i \in Listed(qs)
<1> DEFINE c == container  r == rtask_list  w == waiting  a == answering.tasks
           n == named[<<"byname", 0>>]  p == named[<<"byip", 0>>]
<1>1. /\ qs["container"] = c /\ qs["rtask"] = r /\ qs["waiting"] = w /\ qs["answering"] = a
      /\ qs["byname"] = n /\ qs["byip"] = p
  BY DEF qs, Slots
<1>2. c \in Seq(Id) /\ r \in Seq(Id) /\ w \in Seq(Id) /\ a \in Seq(Id) /\ n \in Seq(Id) /\ p \in Seq(Id)
  BY <1>1, ListTypes DEF Slots
<1>3. NoDup(c) /\ NoDup(r) /\ NoDup(w) /\ NoDup(a) /\ NoDup(n) /\ NoDup(p)
  BY <1>1 DEF OnceIn, Slots
<1>4. ASSUME NEW x \in Id
      PROVE  /\ Has(c, x) => ~Has(r, x) /\ ~Has(w, x) /\ ~Has(a, x) /\ ~Has(n, x) /\ ~Has(p, x)
             /\ Has(r, x) => ~Has(w, x) /\ ~Has(a, x) /\ ~Has(n, x) /\ ~Has(p, x)
             /\ Has(w, x) => ~Has(a, x) /\ ~Has(n, x) /\ ~Has(p, x)
             /\ Has(a, x) => ~Has(n, x) /\ ~Has(p, x)
             /\ Has(n, x) => ~Has(p, x)
             /\ x \in Listed(qs) <=> Has(c, x) \/ Has(r, x) \/ Has(w, x) \/ Has(a, x) \/ Has(n, x) \/ Has(p, x)
  BY <1>1 DEF OnceIn, Listed, Slots
<1>5. Queued = c \o r \o w \o a \o n \o p
  BY DEF Queued
<1> HIDE DEF c, r, w, a, n, p
<1> DEFINE q2 == c \o r  q3 == q2 \o w  q4 == q3 \o a  q5 == q4 \o n  q6 == q5 \o p
<1>6. q2 \in Seq(Id) /\ NoDup(q2) /\ \A x : Has(q2, x) <=> Has(c, x) \/ Has(r, x)
  BY <1>2, <1>3, <1>4, OfConcat
<1>7. Queued = q6
  BY <1>5
<1> HIDE DEF q2
<1>8. q3 \in Seq(Id) /\ NoDup(q3) /\ \A x : Has(q3, x) <=> Has(q2, x) \/ Has(w, x)
  BY <1>2, <1>3, <1>4, <1>6, OfConcat
<1> HIDE DEF q3
<1>9. q4 \in Seq(Id) /\ NoDup(q4) /\ \A x : Has(q4, x) <=> Has(q3, x) \/ Has(a, x)
  BY <1>2, <1>3, <1>4, <1>6, <1>8, OfConcat
<1> HIDE DEF q4
<1>10. q5 \in Seq(Id) /\ NoDup(q5) /\ \A x : Has(q5, x) <=> Has(q4, x) \/ Has(n, x)
  BY <1>2, <1>3, <1>4, <1>6, <1>8, <1>9, OfConcat
<1> HIDE DEF q5
<1>11. q6 \in Seq(Id) /\ NoDup(q6) /\ \A x : Has(q6, x) <=> Has(q5, x) \/ Has(p, x)
  BY <1>2, <1>3, <1>4, <1>6, <1>8, <1>9, <1>10, OfConcat
<1> HIDE DEF q6
<1> QED BY <1>4, <1>6, <1>7, <1>8, <1>9, <1>10, <1>11

(* As long as its future is in the table and it has not been written to a
   connection, a request is in exactly one list or one worker's hands, through
   the dispatcher, the named threads, the wait for a host and its answer.    *)
THEOREM OnePlaceCorrect == Spec => []OnePlace
<1>1. RouteInv => OnePlace
  <2> SUFFICES ASSUME RouteInv, NEW i \in table \ sent
               PROVE  Cardinality({j \in 1..Len(Queued) : Queued[j] = i})
                        + Cardinality({w \in Workers : Carrying(w) /\ worker[w].id = i}) = 1
    BY DEF OnePlace
  <2>1. TypeOK /\ QueueType /\ OnceIn(qs) /\ Placing /\ Assigned
    BY DEF RouteInv, TypeOK, PlaceInv, Placing
  <2>2. i \in Id /\ i # 0
    BY <2>1, HandTypes, IdNat
  <2>3. /\ Cardinality({j \in 1..Len(Queued) : Queued[j] = i}) = IF Has(Queued, i) THEN 1 ELSE 0
        /\ Has(Queued, i) <=> i \in Listed(qs)
    BY <2>1, <2>2, QueuedOnce, CountOne
  <2> DEFINE W == {w \in Workers : Carrying(w) /\ worker[w].id = i}
  <2>4. \A w \in Workers : w \in W <=> held[w] = i
    BY <2>2 DEF held
  <2>5. i \in Listed(qs) \/ \E w \in Workers : held[w] = i
    BY <2>1 DEF Placing, Placed
  <2>6. CASE i \in Listed(qs)
    <3>1. W = {}
      BY <2>1, <2>2, <2>4, <2>6 DEF Placing, Placed
    <3>2. Cardinality(W) = 0
      BY <3>1, FS_EmptySet
    <3> HIDE DEF W
    <3> QED BY <2>3, <2>6, <3>2 DEF W
  <2>7. CASE i \notin Listed(qs)
    <3>1. PICK w \in Workers : held[w] = i
      BY <2>5, <2>7
    <3>2. \A v \in Workers : held[v] = i => v = w
      BY <2>1, <2>2, <3>1 DEF Placing, Placed
    <3>3. W = {w}
      BY <2>4, <3>1, <3>2
    <3>4. Cardinality(W) = 1
      BY <3>3, FS_Singleton
    <3> QED BY <2>3, <2>7, <3>4
  <2> QED BY <2>6, <2>7
<1> QED BY <1>1, Routed, PTL

-----------------------------------------------------------------------------
(* A request is read once.                                                   *)

LEMMA SingleAppend ==
  ASSUME NEW q \in Seq({0} \cup Id), Single(q), NEW e \in {0} \cup Id, e = 0 \/ ~Has(q, e)
  PROVE  Single(Append(q, e))
<1>1. /\ Len(Append(q, e)) = Len(q) + 1 /\ Len(q) \in Nat
      /\ \A i \in 1..Len(q) : Append(q, e)[i] = q[i]
      /\ Append(q, e)[Len(q) + 1] = e
  OBVIOUS
<1>2. \A i \in 1..Len(Append(q, e)) : i \in 1..Len(q) \/ i = Len(q) + 1
  BY <1>1
<1> QED BY <1>1, <1>2 DEF Single, Has

LEMMA SingleTail ==
  ASSUME NEW q \in Seq({0} \cup Id), Single(q), q # << >>
  PROVE  Single(Tail(q)) /\ (Head(q) # 0 => ~Has(Tail(q), Head(q)))
<1>1. /\ Len(q) \in Nat \ {0} /\ Len(Tail(q)) = Len(q) - 1
      /\ \A i \in 1..Len(q) - 1 : Tail(q)[i] = q[i + 1]
      /\ Head(q) = q[1]
  OBVIOUS
<1>2. \A i \in 1..Len(q) - 1 : i + 1 \in 1..Len(q) /\ i + 1 # 1
  BY <1>1
<1>3. ASSUME NEW j \in 1..Len(q) - 1, NEW k \in 1..Len(q) - 1, Tail(q)[j] = Tail(q)[k], Tail(q)[j] # 0
      PROVE  j = k
  <2>1. q[j + 1] = q[k + 1] /\ q[j + 1] # 0
    BY <1>1, <1>3
  <2>2. j + 1 = k + 1
    BY <1>2, <2>1 DEF Single
  <2> QED BY <2>2
<1>4. ASSUME NEW j \in 1..Len(q) - 1, Tail(q)[j] = Head(q), Head(q) # 0
      PROVE  FALSE
  <2>1. q[j + 1] = q[1] /\ q[1] # 0 /\ 1 \in 1..Len(q)
    BY <1>1, <1>4
  <2> QED BY <1>2, <2>1 DEF Single
<1> QED BY <1>1, <1>3, <1>4 DEF Single, Has

(* A message is written to c: who is calling, or a request never sent before. *)
LEMMA FreshWrite ==
  ASSUME ConnType, HistoryType, Fresh, NEW c \in Conn, NEW e \in {0} \cup Id, e \notin sent,
         out' = [out EXCEPT ![c] = Append(out[c], e)], sent' = sent \cup ({e} \ {0}), UNCHANGED arrived
  PROVE  Fresh'
<1>1. /\ out[c] \in Seq({0} \cup Id) /\ out'[c] = Append(out[c], e)
      /\ \A d \in Conn : d # c => out'[d] = out[d]
  BY DEF ConnType
<1>2. \A x : Has(out'[c], x) <=> Has(out[c], x) \/ x = e
  BY <1>1, OfAppend
<1>3. e = 0 \/ e \in Id
  OBVIOUS
<1>4. \A d \in Conn : e \in Id => ~Has(out[d], e) /\ ~Has(arrived, e)
  BY DEF Fresh
<1>5. Single(out[c])
  BY DEF Fresh
<1>6. Single(out'[c])
  BY <1>1, <1>3, <1>4, <1>5, SingleAppend
<1>7. \A d \in Conn : Single(out'[d])
  BY <1>1, <1>6 DEF Fresh
<1>8. \A x \in Id : x # 0
  BY IdNat
<1>9. \A x \in Id : x \in sent' <=> x \in sent \/ x = e
  BY <1>8
<1>10. ASSUME NEW d \in Conn, NEW x \in Id, Has(out'[d], x)
       PROVE  x \in sent' /\ ~Has(arrived, x) /\ (x # e => Has(out[d], x)) /\ (x = e => d = c)
  <2>1. CASE d = c
    BY <1>2, <1>4, <1>9, <1>10, <2>1 DEF Fresh
  <2>2. CASE d # c
    BY <1>1, <1>4, <1>9, <1>10, <2>2 DEF Fresh
  <2> QED BY <2>1, <2>2
<1>11. \A d, f \in Conn : \A x \in Id : Has(out'[d], x) /\ Has(out'[f], x) => d = f
  BY <1>10 DEF Fresh
<1> QED BY <1>7, <1>9, <1>10, <1>11 DEF Fresh

(* Each connection carries no more than before.                              *)
LEMMA FreshLess ==
  ASSUME Fresh, \A d \in Conn : Single(out'[d]), UNCHANGED <<sent, arrived>>,
         \A d \in Conn : \A x \in Id : Has(out'[d], x) => Has(out[d], x)
  PROVE  Fresh'
<1>1. \A d \in Conn : \A x \in Id : Has(out'[d], x) => x \in sent' /\ ~Has(arrived', x)
  BY DEF Fresh
<1>2. \A d, f \in Conn : \A x \in Id : Has(out'[d], x) /\ Has(out'[f], x) => d = f
  BY DEF Fresh
<1> QED BY <1>1, <1>2 DEF Fresh

LEMMA FreshStep ==
  ASSUME RouteInv, Fresh, Next \/ UNCHANGED vars
  PROVE  Fresh'
<1>0. TypeOK /\ WorkerType /\ ConnType /\ HistoryType /\ Assigned /\ Placing /\ Fresh
  BY DEF RouteInv, TypeOK, PlaceInv, Placing
<1>f. ASSUME UNCHANGED <<out, sent, arrived>>
      PROVE  Fresh'
  BY <1>0, <1>f DEF Fresh
<1>1. ASSUME NEW w \in Workers, Identify(w)
      PROVE  Fresh'
  <2>1. CASE link[worker[w].conn] = "up"
    <3>1. worker[w].at = "identify"
      BY <1>1 DEF Identify
    <3>2. worker[w].conn \in Conn
      BY <1>0, <3>1 DEF Assigned, Sound
    <3>3. out' = [out EXCEPT ![worker[w].conn] = Append(out[worker[w].conn], 0)] /\ UNCHANGED <<sent, arrived>>
      BY <1>1, <2>1 DEF Identify, recvvars
    <3>4. 0 \notin sent /\ sent \cup ({0} \ {0}) = sent
      BY <1>0, IdNat DEF HistoryType
    <3> QED BY <1>0, <3>2, <3>3, <3>4, FreshWrite
  <2>2. CASE link[worker[w].conn] # "up"
    BY <1>1, <1>f, <2>2 DEF Identify, recvvars
  <2> QED BY <2>1, <2>2
<1>2. ASSUME NEW w \in Workers, WriteTaskData(w)
      PROVE  Fresh'
  <2> DEFINE i == worker[w].id  c == worker[w].conn
  <2>1. CASE link[c] = "up"
    <3>1. worker[w].at = "send"
      BY <1>2 DEF WriteTaskData
    <3>2. c \in Conn
      BY <1>0, <3>1 DEF Assigned, Sound
    <3>3. held[w] = i /\ i # 0 /\ i \in Id
      BY <1>0, <3>1, Carried
    <3>4. place[w] # "wait"
      BY <3>1 DEF place
    <3>5. i \notin sent
      BY <1>0, <3>3, <3>4, Zenon DEF Placing, Placed
    <3>6. out' = [out EXCEPT ![c] = Append(out[c], i)] /\ sent' = sent \cup {i} /\ UNCHANGED arrived
      BY <1>2, <2>1 DEF WriteTaskData, recvvars
    <3>7. {i} = {i} \ {0} /\ i \in {0} \cup Id
      BY <3>3
    <3> HIDE DEF i, c
    <3> QED BY <1>0, <3>2, <3>5, <3>6, <3>7, FreshWrite
  <2>2. CASE link[c] # "up"
    BY <1>2, <1>f, <2>2 DEF WriteTaskData, recvvars
  <2> QED BY <2>1, <2>2
<1>3. ASSUME NEW c \in Conn, Req2Receiver_onClose(c)
      PROVE  Fresh'
  <2>1. out' = [out EXCEPT ![c] = << >>] /\ UNCHANGED <<sent, arrived>>
    BY <1>3 DEF Req2Receiver_onClose, recvvars
  <2>2. out'[c] = << >> /\ \A d \in Conn : d # c => out'[d] = out[d]
    BY <1>0, <2>1 DEF ConnType
  <2>3. Single(<< >>) /\ \A x : ~Has(<< >>, x)
    BY DEF Single, Has
  <2>4. \A d \in Conn : Single(out'[d])
    BY <1>0, <2>2, <2>3 DEF Fresh
  <2> QED BY <1>0, <2>1, <2>2, <2>3, <2>4, FreshLess
<1>4. ASSUME NEW c \in Conn, receiver_onRead(c)
      PROVE  Fresh'
  <2> DEFINE e == Head(out[c])
  <2>1. out' = [out EXCEPT ![c] = Tail(out[c])] /\ UNCHANGED sent /\ out[c] # << >>
    BY <1>4 DEF receiver_onRead
  <2>2. /\ out[c] \in Seq({0} \cup Id) /\ out'[c] = Tail(out[c])
        /\ \A d \in Conn : d # c => out'[d] = out[d]
    BY <1>0, <2>1 DEF ConnType
  <2>3. /\ e \in {0} \cup Id /\ Has(out[c], e) /\ (e # 0 => ~Has(out'[c], e))
        /\ \A x : Has(out'[c], x) => Has(out[c], x)
    BY <1>0, <2>1, <2>2, OfTail, SingleTail DEF Fresh
  <2>4. Single(out'[c])
    BY <1>0, <2>1, <2>2, SingleTail DEF Fresh
  <2>5. \A d \in Conn : Single(out'[d])
    BY <1>0, <2>2, <2>4 DEF Fresh
  <2>6. \A d \in Conn : \A x \in Id : Has(out'[d], x) => Has(out[d], x)
    BY <2>2, <2>3
  <2>7. CASE arrived' = arrived
    BY <1>0, <2>1, <2>5, <2>6, <2>7, FreshLess
  <2>8. CASE arrived' = Append(arrived, e) /\ e # 0
    <3>1. e \in Id /\ e \in sent /\ ~Has(arrived, e)
      BY <1>0, <2>3, <2>8 DEF Fresh
    <3>2. arrived \in Seq(Id)
      BY <1>0 DEF HistoryType
    <3>3. NoDup(arrived') /\ \A x : Has(arrived', x) <=> Has(arrived, x) \/ x = e
      BY <1>0, <2>8, <3>1, <3>2, OfAppend DEF Fresh
    <3>4. \A d \in Conn : ~Has(out'[d], e)
      BY <1>0, <2>2, <2>3, <2>8, <3>1 DEF Fresh
    <3>5. \A d \in Conn : \A x \in Id : Has(out'[d], x) => x \in sent' /\ ~Has(arrived', x)
      BY <1>0, <2>1, <2>6, <3>3, <3>4 DEF Fresh
    <3>6. \A d, f \in Conn : \A x \in Id : Has(out'[d], x) /\ Has(out'[f], x) => d = f
      BY <1>0, <2>6 DEF Fresh
    <3>7. \A x \in Id : Has(arrived', x) => x \in sent'
      BY <1>0, <2>1, <3>1, <3>3 DEF Fresh
    <3> QED BY <2>5, <3>3, <3>5, <3>6, <3>7 DEF Fresh
  <2>9. arrived' = arrived \/ (arrived' = Append(arrived, e) /\ e # 0)
    BY <1>4 DEF receiver_onRead
  <2> QED BY <2>7, <2>8, <2>9
<1>5. CASE Start \/ Stop \/ TakeAll \/ Dispatch
  BY <1>f, <1>5 DEF recvvars, Start, Stop, TakeAll, Dispatch
<1>6. CASE EndDispatcher \/ CacheHost \/ Requeue
  BY <1>f, <1>6 DEF recvvars, EndDispatcher, CacheHost, Requeue
<1>7. CASE (\E i \in Id : PostMsgDirectToClient(i) \/ SendMsgDirectToClient(i) \/ SyncLookup(i) \/ Join(i))
          \/ (\E i \in Id : Timeout(i))
  BY <1>f, <1>7 DEF recvvars, PostMsgDirectToClient, SendMsgDirectToClient, SyncLookup, Join,
     Timeout
<1>8. CASE (\E t \in Named : NextTask(t))
          \/ (\E w \in Workers : ReadCache(w) \/ QueueWaiting(w) \/ Forget(w) \/ AskServer(w))
  BY <1>f, <1>8 DEF recvvars, NextTask, ReadCache, QueueWaiting, Forget, AskServer
<1>9. CASE (\E w \in Workers : FindConnection(w) \/ CountMissing(w) \/ Connect(w) \/ Push(w))
          \/ (\E w \in Workers : FindAgain(w))
  BY <1>f, <1>9 DEF recvvars, FindConnection, CountMissing, Connect, Push, FindAgain
<1>10. CASE (\E h \in known \cup {NoHost} : HandleRspGetClient(h))
          \/ (\E c \in Conn : Req2Receiver_onRead(c) \/ Accept(c) \/ receiver_onClose(c))
          \/ (\E c \in Conn, i \in Id : NetMsgBusRspSendMsg(c, i))
  BY <1>f, <1>10 DEF recvvars, HandleRspGetClient, Req2Receiver_onRead, Accept, receiver_onClose,
     NetMsgBusRspSendMsg
<1>11. CASE (\E h \in Hosts : Move(h))
  BY <1>f, <1>11 DEF recvvars, Move
<1>12. CASE UNCHANGED vars
  BY <1>f, <1>12 DEF recvvars, vars
<1> QED BY <1>1, <1>2, <1>3, <1>4, <1>5, <1>6, <1>7, <1>8, <1>9, <1>10, <1>11, <1>12
        DEF Next, WorkerStep, CallerStep, DispatcherStep, LookupAnswered

(* A request is handled by a receiver at most once, however often it was
   queued, put aside and queued again on its way.                            *)
THEOREM HandledOnceCorrect == Spec => []HandledOnce
<1>1. Init => RouteInv /\ Fresh
  <2>1. Init => Fresh
    BY OfEmpty DEF Init, Fresh, Single
  <2> QED BY <2>1, InitTyped, InitPlaced, InitConnected DEF RouteInv
<1>2. RouteInv /\ Fresh /\ [Next]_vars => (RouteInv /\ Fresh)'
  BY RouteStep, FreshStep
<1>3. Fresh => HandledOnce
  BY DEF Fresh, HandledOnce, NoDup
<1> QED BY <1>1, <1>2, <1>3, PTL DEF Spec

-----------------------------------------------------------------------------
(* The requests implement Calls.                                             *)

CallStep == C!CNext \/ UNCHANGED <<answer, outcome>>

LEMMA AnsweredStep ==
  ASSUME TypeOK, Answered, Next \/ UNCHANGED vars
  PROVE  Answered'
<1>0. RequestType /\ ConnType /\ HistoryType /\ Answered
  BY DEF TypeOK
<1>f. ASSUME UNCHANGED <<back, ready, answer>>
      PROVE  Answered'
  BY <1>0, <1>f DEF Answered
<1>1. ASSUME NEW c \in Conn, Req2Receiver_onRead(c)
      PROVE  Answered'
  <2> DEFINE i == Head(back[c])
  <2>1. /\ back' = [back EXCEPT ![c] = Tail(back[c])] /\ back[c] # << >> /\ UNCHANGED answer
        /\ ready' \subseteq ready \cup {i}
    BY <1>1 DEF Req2Receiver_onRead
  <2>2. back[c] \in Seq(Id) /\ back'[c] = Tail(back[c]) /\ \A d \in Conn : d # c => back'[d] = back[d]
    BY <1>0, <2>1 DEF ConnType
  <2>3. i \in Id /\ Has(back[c], i) /\ \A x : Has(back'[c], x) => Has(back[c], x)
    BY <2>1, <2>2, OfTail
  <2>4. answer[i] = "ok"
    BY <1>0, <2>3 DEF Answered
  <2>5. \A d \in Conn : \A x \in Id : Has(back'[d], x) => answer[x] = "ok"
    BY <1>0, <2>2, <2>3 DEF Answered
  <2> HIDE DEF i
  <2> QED BY <1>0, <2>1, <2>4, <2>5 DEF Answered
<1>2. ASSUME NEW c \in Conn, Req2Receiver_onClose(c)
      PROVE  Answered'
  <2>1. back' = [back EXCEPT ![c] = << >>] /\ UNCHANGED <<answer, ready>>
    BY <1>2 DEF Req2Receiver_onClose
  <2>2. back'[c] = << >> /\ \A d \in Conn : d # c => back'[d] = back[d]
    BY <1>0, <2>1 DEF ConnType
  <2> QED BY <1>0, <2>1, <2>2, OfEmpty DEF Answered
<1>3. ASSUME NEW c \in Conn, NEW i \in Id, NetMsgBusRspSendMsg(c, i)
      PROVE  Answered'
  <2>1. UNCHANGED ready
    BY <1>3 DEF NetMsgBusRspSendMsg, futvars
  <2>2. CASE ~FilterByMsgId(i)
    BY <1>3, <1>f, <2>1, <2>2 DEF NetMsgBusRspSendMsg
  <2>3. CASE FilterByMsgId(i)
    <3>1. answer' = [answer EXCEPT ![i] = "ok"]
      BY <1>3, <2>3 DEF NetMsgBusRspSendMsg
    <3>2. answer'[i] = "ok" /\ \A x \in Id : x # i => answer'[x] = answer[x]
      BY <1>0, <3>1 DEF HistoryType
    <3>3. back' = back \/ back' = [back EXCEPT ![c] = Append(back[c], i)]
      BY <1>3 DEF NetMsgBusRspSendMsg
    <3>4. back[c] \in Seq(Id) /\ \A d \in Conn : d # c => back'[d] = back[d]
      BY <1>0, <3>3 DEF ConnType
    <3>5. back'[c] = back[c] \/ back'[c] = Append(back[c], i)
      BY <1>0, <3>3 DEF ConnType
    <3>6. \A x : Has(back'[c], x) => Has(back[c], x) \/ x = i
      <4>1. \A x : Has(Append(back[c], i), x) => Has(back[c], x) \/ x = i
        BY <3>4, OfAppend
      <4> QED BY <3>5, <4>1
    <3>7. \A d \in Conn : \A x \in Id : Has(back'[d], x) => answer'[x] = "ok"
      BY <1>0, <3>2, <3>4, <3>6 DEF Answered
    <3>8. ready \subseteq Id
      BY <1>0 DEF RequestType
    <3> QED BY <1>0, <2>1, <3>2, <3>7, <3>8 DEF Answered
  <2> QED BY <2>2, <2>3
<1>4. CASE Start \/ Stop \/ TakeAll \/ Dispatch
  BY <1>f, <1>4 DEF futvars, Start, Stop, TakeAll, Dispatch
<1>5. CASE EndDispatcher \/ CacheHost \/ Requeue
  BY <1>f, <1>5 DEF futvars, EndDispatcher, CacheHost, Requeue
<1>6. CASE (\E i \in Id : PostMsgDirectToClient(i) \/ SendMsgDirectToClient(i) \/ SyncLookup(i) \/ Join(i))
          \/ (\E i \in Id : Timeout(i))
  BY <1>f, <1>6 DEF futvars, PostMsgDirectToClient, SendMsgDirectToClient, SyncLookup, Join, Timeout
<1>7. CASE (\E t \in Named : NextTask(t))
          \/ (\E w \in Workers : ReadCache(w) \/ QueueWaiting(w) \/ Forget(w) \/ AskServer(w))
  BY <1>f, <1>7 DEF futvars, NextTask, ReadCache, QueueWaiting, Forget, AskServer
<1>8. CASE (\E w \in Workers : FindConnection(w) \/ CountMissing(w) \/ Connect(w) \/ Identify(w))
  BY <1>f, <1>8 DEF futvars, FindConnection, CountMissing, Connect, Identify
<1>9. CASE (\E w \in Workers : Push(w) \/ FindAgain(w) \/ WriteTaskData(w))
          \/ (\E h \in known \cup {NoHost} : HandleRspGetClient(h))
  BY <1>f, <1>9 DEF futvars, Push, FindAgain, WriteTaskData, HandleRspGetClient
<1>10. CASE (\E c \in Conn : Accept(c) \/ receiver_onRead(c) \/ receiver_onClose(c))
          \/ (\E h \in Hosts : Move(h))
  BY <1>f, <1>10 DEF futvars, Accept, receiver_onRead, receiver_onClose, Move
<1>11. CASE UNCHANGED vars
  BY <1>f, <1>11 DEF futvars, vars
<1> QED BY <1>1, <1>2, <1>3, <1>4, <1>5, <1>6, <1>7, <1>8, <1>9, <1>10, <1>11
        DEF Next, WorkerStep, CallerStep, DispatcherStep, LookupAnswered

(* No request ends.                                                          *)
LEMMA OpenKept ==
  ASSUME Open, UNCHANGED <<outcome, answer, OpOf, made>>, table' \subseteq table,
         \A i \in Id : worker'[Caller(i)].at # "idle" => worker[Caller(i)].at # "idle"
  PROVE  Open' /\ CallStep
<1>1. Open'
  BY DEF Open, Sync
<1> QED BY <1>1 DEF CallStep

(* The worker w goes on with its request.                                    *)
LEMMA OpenOn ==
  ASSUME Open, NEW w \in Workers, worker[w].at # "idle", \A v \in Workers : v # w => worker'[v] = worker[v],
         UNCHANGED <<outcome, answer, OpOf, made, table>>
  PROVE  Open' /\ CallStep
<1>1. \A i \in Id : worker'[Caller(i)].at # "idle" => worker[Caller(i)].at # "idle"
  BY WorkerNames
<1> QED BY <1>1, OpenKept

(* The request i ends.                                                       *)
LEMMA OpenEnds ==
  ASSUME Open, HistoryType, RequestType, NEW i \in Id, NEW r, Ends(i, r), i <= made', made <= made', made' \in Nat,
         UNCHANGED OpOf, table' \subseteq table, Sync(i) \/ i \notin table',
         worker'[Caller(i)].at = "idle",
         \A j \in Id : worker'[Caller(j)].at # "idle" => worker[Caller(j)].at # "idle"
  PROVE  Open'
<1>1. \A j \in Id : j # i => outcome'[j] = outcome[j]
  BY DEF Ends, HistoryType
<1>2. \A j \in Id : j \in Nat /\ made \in Nat
  BY IdNat, DirectRequestsAssumption DEF RequestType
<1>3. \A j \in Id : j <= made => j <= made'
  BY <1>2
<1>4. \A j \in Id : outcome'[j] # "none" => j <= made'
  BY <1>1, <1>3 DEF Open
<1>5. \A j \in Id : worker'[Caller(j)].at # "idle" => j <= made' /\ outcome'[j] = "none"
  BY <1>1, <1>3 DEF Open
<1>6. \A j \in table' : ~Sync(j)' => outcome'[j] = "none"
  BY <1>1 DEF Open, Sync, RequestType
<1> QED BY <1>4, <1>5, <1>6 DEF Open

(* A caller's request: its number, and that it has not ended.                *)
LEMMA CallerOpen ==
  ASSUME Open, Assigned, RequestType, NEW i \in Id, worker[Caller(i)].at # "idle"
  PROVE  worker[Caller(i)].id = i /\ Sync(i) /\ i <= made /\ outcome[i] = "none" /\ made \in Nat
<1>1. Caller(i) \in Workers
  BY WorkerNames
<1>2. Fit(Caller(i), worker[Caller(i)].at, worker[Caller(i)].id)
  BY <1>1 DEF Assigned
<1> QED BY <1>2, DirectRequestsAssumption DEF Fit, Open, RequestType

LEMMA OpenFails ==
  ASSUME Open, Assigned, WorkerType, HistoryType, RequestType, NEW i \in Id, worker[Caller(i)].at # "idle",
         Done(Caller(i)), Ends(i, "false"), UNCHANGED <<OpOf, made, answer>>, table' \subseteq table
  PROVE  Open' /\ CallStep
<1>1. Caller(i) \in Workers
  BY WorkerNames
<1>2. Sync(i) /\ i <= made /\ outcome[i] = "none" /\ made \in Nat
  BY CallerOpen
<1>3. worker'[Caller(i)].at = "idle" /\ \A v \in Workers : v # Caller(i) => worker'[v] = worker[v]
  BY <1>1, DoneIs DEF Now
<1>4. \A j \in Id : worker'[Caller(j)].at # "idle" => worker[Caller(j)].at # "idle"
  BY <1>3, WorkerNames
<1>5. made <= made' /\ made' \in Nat /\ i <= made'
  BY <1>2
<1>6. Open'
  BY <1>2, <1>3, <1>4, <1>5, OpenEnds
<1>7. C!Fail(i)
  BY <1>2 DEF Ends, C!Fail
<1> QED BY <1>6, <1>7 DEF CallStep, C!CNext

LEMMA OpenGiveUp ==
  ASSUME Open, Assigned, WorkerType, HistoryType, RequestType, NEW w \in Workers, worker[w].at # "idle",
         GiveUp(w), UNCHANGED <<OpOf, made, answer>>
  PROVE  Open' /\ CallStep
<1>1. table' \subseteq table /\ Done(w)
  BY DEF GiveUp
<1>2. CASE w \in Named
  <2>1. \A v \in Workers : v # w => worker'[v] = worker[v]
    BY <1>1, DoneIs DEF Now
  <2>2. \A i \in Id : worker'[Caller(i)].at # "idle" => worker[Caller(i)].at # "idle"
    BY <1>2, <2>1, WorkerNames
  <2>3. UNCHANGED outcome
    BY <1>2 DEF GiveUp
  <2> QED BY <1>1, <2>2, <2>3, OpenKept
<1>3. CASE w \notin Named
  <2>1. PICK i \in Id : w = Caller(i)
    BY <1>3, WorkerNames
  <2>2. worker[w].id = i
    BY <2>1, CallerOpen
  <2>3. Ends(i, "false")
    BY <1>3, <2>2 DEF GiveUp
  <2> QED BY <1>1, <2>1, <2>3, OpenFails
<1> QED BY <1>2, <1>3

LEMMA OpenCreateFails ==
  ASSUME Open, Assigned, WorkerType, HistoryType, RequestType, NEW w \in Workers, worker[w].at # "idle",
         CreateFails(w), UNCHANGED <<OpOf, made, answer>>
  PROVE  Open' /\ CallStep
<1>1. CASE worker[w].id \in retry
  <2>1. Goto(w, "enqueue") /\ UNCHANGED <<table, outcome>>
    BY <1>1 DEF CreateFails
  <2>2. \A v \in Workers : v # w => worker'[v] = worker[v]
    BY <2>1 DEF Goto, WorkerType
  <2> QED BY <2>1, <2>2, OpenOn
<1>2. CASE worker[w].id \notin retry
  <2>1. GiveUp(w)
    BY <1>2 DEF CreateFails
  <2> QED BY <2>1, OpenGiveUp
<1> QED BY <1>1, <1>2

LEMMA OpenStep ==
  ASSUME RouteInv, Open, Answered, Next \/ UNCHANGED vars
  PROVE  Open' /\ CallStep
<1>0. /\ WorkerType /\ RequestType /\ ConnType /\ HistoryType /\ Assigned /\ Placing
      /\ Open /\ Answered
  BY DEF RouteInv, TypeOK, PlaceInv, Placing
<1>f. ASSUME UNCHANGED <<outcome, answer, OpOf, made, worker, table>>
      PROVE  Open' /\ CallStep
  BY <1>0, <1>f, OpenKept
<1>1. ASSUME Stop
      PROVE  Open' /\ CallStep
  <2>1. UNCHANGED <<outcome, answer, OpOf, made, worker>> /\ table' \subseteq table
    BY <1>1 DEF Stop, stopvars, safe_clear_bad_future
  <2> QED BY <1>0, <2>1, OpenKept
<1>2. ASSUME NEW i \in Id, PostMsgDirectToClient(i)
      PROVE  Open' /\ CallStep
  <2>1. i = made + 1 /\ made' = i /\ ~Sync(i) /\ UNCHANGED <<answer, OpOf, worker>> /\ made \in Nat
    BY <1>2, <1>0, DirectRequestsAssumption DEF PostMsgDirectToClient, stopvars, RequestType
  <2>2. outcome[i] = "none" /\ worker[Caller(i)].at = "idle" /\ i \notin table
    BY <1>0, <2>1 DEF Open, Placing, Placed
  <2>3. i <= made' /\ made <= made' /\ made' \in Nat
    BY <2>1
  <2>4. CASE m_req2receiver_running
    <3>1. table' = table \cup {i} /\ UNCHANGED outcome
      BY <1>2, <2>4 DEF PostMsgDirectToClient
    <3>2. \A j \in Id : j <= made => j <= made'
      BY <2>1, IdNat
    <3>3. Open'
      BY <1>0, <2>1, <2>2, <3>1, <3>2 DEF Open, Sync
    <3> QED BY <2>1, <3>1, <3>3 DEF CallStep
  <2>5. CASE ~m_req2receiver_running
    <3>1. Ends(i, "false") /\ UNCHANGED table
      BY <1>2, <2>5 DEF PostMsgDirectToClient
    <3>2. worker'[Caller(i)].at = "idle" /\ \A j \in Id : worker'[Caller(j)].at # "idle" => worker[Caller(j)].at # "idle"
      BY <2>1, <2>2
    <3>3. table' \subseteq table /\ i \notin table' /\ UNCHANGED OpOf
      BY <2>1, <2>2, <3>1
    <3>4. Open'
      BY <1>0, <2>3, <3>1, <3>2, <3>3, OpenEnds
    <3>5. C!Fail(i)
      BY <2>1, <2>2, <3>1 DEF Ends, C!Fail
    <3> QED BY <3>4, <3>5 DEF CallStep, C!CNext
  <2> QED BY <2>4, <2>5
<1>3. ASSUME NEW i \in Id, SendMsgDirectToClient(i)
      PROVE  Open' /\ CallStep
  <2>1. i = made + 1 /\ made' = i /\ Sync(i) /\ UNCHANGED <<answer, OpOf>> /\ made \in Nat
    BY <1>3, <1>0, DirectRequestsAssumption DEF SendMsgDirectToClient, stopvars, RequestType
  <2>2. outcome[i] = "none" /\ worker[Caller(i)].at = "idle"
    BY <1>0, <2>1 DEF Open
  <2>3. i <= made' /\ made <= made' /\ made' \in Nat
    BY <2>1
  <2>4. CASE m_req2receiver_running
    <3>1. table' \subseteq table \cup {i} /\ UNCHANGED outcome
      BY <1>3, <2>4 DEF SendMsgDirectToClient
    <3>2. \A v \in Workers : v # Caller(i) => worker'[v] = worker[v]
      BY <1>3, <1>0, <2>4 DEF SendMsgDirectToClient, WorkerType
    <3>3. \A j \in Id : worker'[Caller(j)].at # "idle" => worker[Caller(j)].at # "idle" \/ j = i
      BY <3>2, WorkerNames
    <3>4. \A j \in Id : j <= made => j <= made'
      BY <2>1, IdNat
    <3>5. \A j \in Id : outcome'[j] # "none" => j <= made'
      BY <1>0, <3>1, <3>4 DEF Open
    <3>6. \A j \in Id : worker'[Caller(j)].at # "idle" => j <= made' /\ outcome'[j] = "none"
      BY <1>0, <2>2, <2>3, <3>1, <3>3, <3>4 DEF Open
    <3>7. \A j \in table' : ~Sync(j)' => outcome'[j] = "none"
      BY <1>0, <2>1, <3>1 DEF Open, Sync
    <3>8. Open'
      BY <3>5, <3>6, <3>7 DEF Open
    <3> QED BY <2>1, <3>1, <3>8 DEF CallStep
  <2>5. CASE ~m_req2receiver_running
    <3>1. Ends(i, "false") /\ UNCHANGED <<table, worker>>
      BY <1>3, <2>5 DEF SendMsgDirectToClient
    <3>2. worker'[Caller(i)].at = "idle" /\ \A j \in Id : worker'[Caller(j)].at # "idle" => worker[Caller(j)].at # "idle"
      BY <2>2, <3>1
    <3>3. table' \subseteq table /\ UNCHANGED OpOf
      BY <2>1, <3>1
    <3>4. Open'
      BY <1>0, <2>1, <2>3, <3>1, <3>2, <3>3, OpenEnds
    <3>5. C!Fail(i)
      BY <2>1, <2>2, <3>1 DEF Ends, C!Fail
    <3> QED BY <3>4, <3>5 DEF CallStep, C!CNext
  <2> QED BY <2>4, <2>5
<1>4. ASSUME NEW i \in Id, SyncLookup(i)
      PROVE  Open' /\ CallStep
  <2>1. worker[Caller(i)].at # "idle" /\ UNCHANGED <<answer, OpOf, made>>
    BY <1>4 DEF SyncLookup, stopvars
  <2>2. CASE Done(Caller(i)) /\ Ends(i, "false") /\ UNCHANGED table
    BY <1>0, <2>1, <2>2, OpenFails
  <2>3. CASE \E h \in known : /\ worker' = [worker EXCEPT ![Caller(i)].at = "get", ![Caller(i)].host = h]
                              /\ table' = table \cup {i} /\ UNCHANGED outcome
    <3>1. \A v \in Workers : v # Caller(i) => worker'[v] = worker[v]
      BY <1>0, <2>3 DEF WorkerType
    <3>2. \A j \in Id : worker'[Caller(j)].at # "idle" => worker[Caller(j)].at # "idle"
      BY <2>1, <3>1, WorkerNames
    <3>3. Sync(i)
      BY <1>0, <2>1, CallerOpen
    <3>4. Open'
      BY <1>0, <2>1, <2>3, <3>2, <3>3 DEF Open, Sync
    <3> QED BY <2>1, <2>3, <3>4 DEF CallStep
  <2> QED BY <1>4, <2>2, <2>3 DEF SyncLookup
<1>5. ASSUME NEW i \in Id, Join(i)
      PROVE  Open' /\ CallStep
  <2>1. /\ worker[Caller(i)].at # "idle" /\ i \in ready /\ Done(Caller(i)) /\ Ends(i, "true")
        /\ UNCHANGED <<answer, OpOf, made, table>>
    BY <1>5 DEF Join, stopvars, futvars
  <2>2. Sync(i) /\ i <= made /\ outcome[i] = "none" /\ made \in Nat
    BY <1>0, <2>1, CallerOpen
  <2>3. Caller(i) \in Workers
    BY WorkerNames
  <2>4. worker'[Caller(i)].at = "idle" /\ \A v \in Workers : v # Caller(i) => worker'[v] = worker[v]
    BY <1>0, <2>1, <2>3, DoneIs DEF Now
  <2>5. \A j \in Id : worker'[Caller(j)].at # "idle" => worker[Caller(j)].at # "idle"
    BY <2>4, WorkerNames
  <2>6. made <= made' /\ made' \in Nat /\ i <= made'
    BY <2>1, <2>2
  <2>7. Open'
    BY <1>0, <2>1, <2>2, <2>4, <2>5, <2>6, OpenEnds
  <2>8. C!Succeed(i)
    BY <1>0, <2>1, <2>2 DEF Ends, Answered, C!Succeed
  <2> QED BY <2>7, <2>8 DEF CallStep, C!CNext
<1>6. ASSUME NEW i \in Id, Timeout(i)
      PROVE  Open' /\ CallStep
  <2>1. Caller(i) \in Workers
    BY WorkerNames
  <2>2. worker[Caller(i)].at # "idle" /\ GiveUp(Caller(i)) /\ UNCHANGED <<answer, OpOf, made>>
    BY <1>6 DEF Timeout, stopvars
  <2> QED BY <1>0, <2>1, <2>2, OpenGiveUp
<1>7. ASSUME NEW t \in Named, NextTask(t)
      PROVE  Open' /\ CallStep
  <2>1. \A v \in Workers : v # t => worker'[v] = worker[v]
    BY <1>7, <1>0 DEF NextTask, WorkerType
  <2>2. \A i \in Id : worker'[Caller(i)].at # "idle" => worker[Caller(i)].at # "idle"
    BY <2>1, WorkerNames
  <2>3. UNCHANGED <<outcome, answer, OpOf, made, table>>
    BY <1>7 DEF NextTask, stopvars, futvars
  <2> QED BY <1>0, <2>2, <2>3, OpenKept
<1>8. ASSUME NEW w \in Workers, ReadCache(w)
      PROVE  Open' /\ CallStep
  <2>1. worker[w].at # "idle" /\ UNCHANGED <<answer, OpOf, made>>
    BY <1>8 DEF ReadCache, stopvars
  <2>2. CASE GiveUp(w)
    BY <1>0, <2>1, <2>2, OpenGiveUp
  <2>3. CASE ~GiveUp(w)
    <3>1. UNCHANGED <<table, outcome>>
      BY <1>8, <2>3 DEF ReadCache
    <3>2. \A v \in Workers : v # w => worker'[v] = worker[v]
      BY <1>8, <1>0, <2>3 DEF ReadCache, Goto, WorkerType
    <3> QED BY <1>0, <2>1, <3>1, <3>2, OpenOn
  <2> QED BY <2>2, <2>3
<1>9. ASSUME NEW w \in Workers, QueueWaiting(w)
      PROVE  Open' /\ CallStep
  <2>1. worker[w].at # "idle" /\ UNCHANGED <<outcome, answer, OpOf, made, table>>
    BY <1>9 DEF QueueWaiting, Goto, stopvars, futvars
  <2>2. \A v \in Workers : v # w => worker'[v] = worker[v]
    BY <1>9, <1>0 DEF QueueWaiting, Goto, WorkerType
  <2> QED BY <1>0, <2>1, <2>2, OpenOn
<1>10. ASSUME NEW w \in Workers, Forget(w)
      PROVE  Open' /\ CallStep
  <2>1. worker[w].at # "idle" /\ UNCHANGED <<outcome, answer, OpOf, made, table>>
    BY <1>10 DEF Forget, Goto, stopvars, futvars
  <2>2. \A v \in Workers : v # w => worker'[v] = worker[v]
    BY <1>10, <1>0 DEF Forget, Goto, WorkerType
  <2> QED BY <1>0, <2>1, <2>2, OpenOn
<1>11. ASSUME NEW w \in Workers, AskServer(w)
      PROVE  Open' /\ CallStep
  <2>1. worker[w].at # "idle" /\ UNCHANGED <<outcome, answer, OpOf, made, table>>
    BY <1>11 DEF AskServer, Done, stopvars, futvars
  <2>2. \A v \in Workers : v # w => worker'[v] = worker[v]
    BY <1>11, <1>0 DEF AskServer, Done, WorkerType
  <2> QED BY <1>0, <2>1, <2>2, OpenOn
<1>12. ASSUME NEW w \in Workers, FindConnection(w)
      PROVE  Open' /\ CallStep
  <2>1. worker[w].at # "idle" /\ UNCHANGED <<outcome, answer, OpOf, made, table>>
    BY <1>12 DEF FindConnection, GetTcpSock, Goto, stopvars, futvars
  <2>2. \A v \in Workers : v # w => worker'[v] = worker[v]
    BY <1>12, <1>0 DEF FindConnection, GetTcpSock, Goto, WorkerType
  <2> QED BY <1>0, <2>1, <2>2, OpenOn
<1>13. ASSUME NEW w \in Workers, CountMissing(w)
      PROVE  Open' /\ CallStep
  <2>1. worker[w].at # "idle" /\ UNCHANGED <<outcome, answer, OpOf, made, table>>
    BY <1>13 DEF CountMissing, Goto, stopvars, futvars
  <2>2. \A v \in Workers : v # w => worker'[v] = worker[v]
    BY <1>13, <1>0 DEF CountMissing, Goto, WorkerType
  <2> QED BY <1>0, <2>1, <2>2, OpenOn
<1>14. ASSUME NEW w \in Workers, Connect(w)
      PROVE  Open' /\ CallStep
  <2>1. worker[w].at # "idle" /\ UNCHANGED <<answer, OpOf, made>>
    BY <1>14 DEF Connect, stopvars
  <2>2. CASE CreateFails(w)
    BY <1>0, <2>1, <2>2, OpenCreateFails
  <2>3. CASE ~CreateFails(w)
    <3>1. UNCHANGED <<table, outcome>>
      BY <1>14, <2>3 DEF Connect
    <3>2. \A v \in Workers : v # w => worker'[v] = worker[v]
      BY <1>14, <1>0, <2>3 DEF Connect, WorkerType
    <3> QED BY <1>0, <2>1, <3>1, <3>2, OpenOn
  <2> QED BY <2>2, <2>3
<1>15. ASSUME NEW w \in Workers, Identify(w)
      PROVE  Open' /\ CallStep
  <2>1. worker[w].at # "idle" /\ UNCHANGED <<answer, OpOf, made>>
    BY <1>15 DEF Identify, stopvars
  <2>2. CASE CreateFails(w)
    BY <1>0, <2>1, <2>2, OpenCreateFails
  <2>3. CASE ~CreateFails(w)
    <3>1. UNCHANGED <<table, outcome>>
      BY <1>15, <2>3 DEF Identify
    <3>2. \A v \in Workers : v # w => worker'[v] = worker[v]
      BY <1>15, <1>0, <2>3 DEF Identify, Goto, WorkerType
    <3> QED BY <1>0, <2>1, <3>1, <3>2, OpenOn
  <2> QED BY <2>2, <2>3
<1>16. ASSUME NEW w \in Workers, Push(w)
      PROVE  Open' /\ CallStep
  <2>1. worker[w].at # "idle" /\ UNCHANGED <<outcome, answer, OpOf, made, table>>
    BY <1>16 DEF Push, stopvars, futvars
  <2>2. \A v \in Workers : v # w => worker'[v] = worker[v]
    BY <1>16, <1>0 DEF Push, WorkerType
  <2> QED BY <1>0, <2>1, <2>2, OpenOn
<1>17. ASSUME NEW w \in Workers, FindAgain(w)
      PROVE  Open' /\ CallStep
  <2>1. worker[w].at # "idle" /\ UNCHANGED <<answer, OpOf, made>>
    BY <1>17 DEF FindAgain, stopvars
  <2>2. CASE GiveUp(w)
    BY <1>0, <2>1, <2>2, OpenGiveUp
  <2>3. CASE ~GiveUp(w)
    <3>1. UNCHANGED <<table, outcome>>
      BY <1>17, <2>3 DEF FindAgain, GetTcpSock
    <3>2. \A v \in Workers : v # w => worker'[v] = worker[v]
      BY <1>17, <1>0, <2>3 DEF FindAgain, GetTcpSock, WorkerType
    <3> QED BY <1>0, <2>1, <3>1, <3>2, OpenOn
  <2> QED BY <2>2, <2>3
<1>18. ASSUME NEW w \in Workers, WriteTaskData(w)
      PROVE  Open' /\ CallStep
  <2>1. worker[w].at # "idle" /\ UNCHANGED <<answer, OpOf, made>>
    BY <1>18 DEF WriteTaskData, stopvars
  <2>2. CASE GiveUp(w)
    BY <1>0, <2>1, <2>2, OpenGiveUp
  <2>3. CASE ~GiveUp(w)
    <3>1. UNCHANGED <<table, outcome>>
      BY <1>18, <2>3 DEF WriteTaskData
    <3>2. \A v \in Workers : v # w => worker'[v] = worker[v]
      BY <1>18, <1>0, <2>3 DEF WriteTaskData, Goto, Done, WorkerType
    <3> QED BY <1>0, <2>1, <3>1, <3>2, OpenOn
  <2> QED BY <2>2, <2>3
<1>19. ASSUME NEW h \in known \cup {NoHost}, HandleRspGetClient(h)
      PROVE  Open' /\ CallStep
  <2>1. UNCHANGED <<outcome, answer, OpOf, made, worker>> /\ table' \subseteq table
    BY <1>19 DEF HandleRspGetClient, stopvars, safe_clear_bad_future
  <2> QED BY <1>0, <2>1, OpenKept
<1>20. ASSUME NEW c \in Conn, Req2Receiver_onRead(c)
      PROVE  Open' /\ CallStep
  <2> DEFINE i == Head(back[c])
  <2>1. /\ back[c] # << >> /\ table' = table \ {i} /\ UNCHANGED <<answer, OpOf, made, worker>>
        /\ IF i \in table /\ ~Sync(i) THEN Ends(i, "true") ELSE UNCHANGED outcome
    BY <1>20 DEF Req2Receiver_onRead, stopvars
  <2>2. back[c] \in Seq(Id)
    BY <1>0 DEF ConnType
  <2>3. i \in Id /\ Has(back[c], i)
    BY <2>1, <2>2, OfTail
  <2> HIDE DEF i
  <2>4. CASE i \in table /\ ~Sync(i)
    <3>1. outcome[i] = "none" /\ answer[i] = "ok"
      BY <1>0, <2>3, <2>4 DEF Open, Answered
    <3>2. worker[Caller(i)].at = "idle"
      BY <1>0, <2>3, <2>4, CallerOpen
    <3>3. i <= made /\ made \in Nat
      BY <1>0, <2>4, DirectRequestsAssumption DEF Placing, Placed, RequestType
    <3>4. made <= made' /\ made' \in Nat /\ i <= made'
      BY <2>1, <3>3
    <3>5. Ends(i, "true")
      BY <2>1, <2>4
    <3>6. table' \subseteq table /\ i \notin table' /\ UNCHANGED OpOf
      BY <2>1
    <3>7. worker'[Caller(i)].at = "idle" /\ \A j \in Id : worker'[Caller(j)].at # "idle" => worker[Caller(j)].at # "idle"
      BY <2>1, <3>2
    <3>8. Open'
      BY <1>0, <2>3, <3>4, <3>5, <3>6, <3>7, OpenEnds
    <3>9. C!Succeed(i)
      BY <2>1, <3>1, <3>5 DEF Ends, C!Succeed
    <3> QED BY <2>3, <3>8, <3>9 DEF CallStep, C!CNext
  <2>5. CASE ~(i \in table /\ ~Sync(i))
    BY <1>0, <2>1, <2>5, OpenKept
  <2> QED BY <2>4, <2>5
<1>21. ASSUME NEW c \in Conn, Req2Receiver_onClose(c)
      PROVE  Open' /\ CallStep
  <2>1. UNCHANGED <<outcome, answer, OpOf, made, worker>> /\ table' \subseteq table
    BY <1>21 DEF Req2Receiver_onClose, stopvars, safe_clear_bad_future
  <2> QED BY <1>0, <2>1, OpenKept
<1>22. ASSUME NEW c \in Conn, NEW i \in Id, NetMsgBusRspSendMsg(c, i)
      PROVE  Open' /\ CallStep
  <2>1. UNCHANGED <<outcome, OpOf, made, worker, table>>
    BY <1>22 DEF NetMsgBusRspSendMsg, stopvars, futvars
  <2>2. Open'
    BY <1>0, <2>1 DEF Open, Sync
  <2>3. CallStep
    <3>1. answer[i] = "none" \/ answer[i] = "ok"
      BY <1>0 DEF HistoryType, Answered
    <3>2. answer' = answer \/ answer' = [answer EXCEPT ![i] = "ok"]
      BY <1>22 DEF NetMsgBusRspSendMsg
    <3>3. CASE answer[i] = "none" /\ answer' = [answer EXCEPT ![i] = "ok"]
      BY <2>1, <3>3 DEF CallStep, C!CNext, C!Reply
    <3>4. CASE answer[i] = "ok" /\ answer' = [answer EXCEPT ![i] = "ok"]
      BY <1>0, <2>1, <3>4 DEF CallStep, HistoryType
    <3>5. CASE answer' = answer
      BY <2>1, <3>5 DEF CallStep
    <3> QED BY <3>1, <3>2, <3>3, <3>4, <3>5
  <2> QED BY <2>2, <2>3
<1>23. CASE Start \/ TakeAll \/ Dispatch \/ EndDispatcher
  BY <1>f, <1>23 DEF stopvars, futvars, Start, TakeAll, Dispatch, EndDispatcher
<1>24. CASE CacheHost \/ Requeue
          \/ (\E c \in Conn : Accept(c) \/ receiver_onRead(c) \/ receiver_onClose(c))
  BY <1>f, <1>24 DEF stopvars, futvars, CacheHost, Requeue, Accept, receiver_onRead,
     receiver_onClose
<1>25. CASE (\E h \in Hosts : Move(h))
  BY <1>f, <1>25 DEF stopvars, futvars, Move
<1>26. CASE UNCHANGED vars
  BY <1>f, <1>26 DEF stopvars, futvars, vars
<1> QED BY <1>1, <1>2, <1>3, <1>4, <1>5, <1>6, <1>7, <1>8, <1>9, <1>10, <1>11, <1>12, <1>13,
           <1>14, <1>15, <1>16, <1>17, <1>18, <1>19, <1>20, <1>21, <1>22, <1>23, <1>24, <1>25,
           <1>26
        DEF Next, WorkerStep, CallerStep, DispatcherStep, LookupAnswered

(* A request ends at most once, and well only when a receiver has answered this
   very request: whatever times out, is retried or is cleared from the table,
   DirectRequests implements Calls.                                          *)
THEOREM CallsRefinement == Spec => CallsRefined
<1> DEFINE CallInv == RouteInv /\ Open /\ Answered
<1>1. Init => C!CInit /\ CallInv
  <2> SUFFICES ASSUME Init
               PROVE  C!CInit /\ CallInv
    OBVIOUS
  <2>1. RouteInv
    BY InitTyped, InitPlaced, InitConnected DEF RouteInv
  <2>2. \A i \in Id : worker[Caller(i)].at = "idle"
    BY FreeAt, WorkerNames DEF Init
  <2>3. Open
    BY <2>2 DEF Init, Open
  <2>4. Answered
    BY OfEmpty DEF Init, Answered
  <2> QED BY <2>1, <2>3, <2>4 DEF Init, C!CInit
<1>2. CallInv /\ [Next]_vars => CallInv' /\ [C!CNext]_(C!cvars)
  <2> SUFFICES ASSUME CallInv, [Next]_vars
               PROVE  CallInv' /\ [C!CNext]_(C!cvars)
    OBVIOUS
  <2>1. RouteInv'
    BY RouteStep
  <2>2. Answered'
    BY AnsweredStep DEF RouteInv
  <2>3. Open' /\ CallStep
    BY OpenStep
  <2> QED BY <2>1, <2>2, <2>3 DEF CallStep, C!cvars
<1> QED BY <1>1, <1>2, PTL DEF Spec, CallsRefined, C!CSpec
=============================================================================
