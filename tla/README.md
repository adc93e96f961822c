# Verification of the message bus

TLA+ models, TLC runs and TLAPS proofs for the C++ message bus in `src/Core`: a
bus inside one process, a server that registers services and relays messages
between processes, the client that calls the server and other clients, and the
epoll-based network layer and the thread pool all of them stand on.
`PROJECT.json` holds the map from definitions to source lines, the runs, the
mutants, the findings, the hazards and the theorems; this file explains them.

To check a run: `tlc -config <cfg> <module>` in this directory; to check the
proofs of a module: `tlapm <module>`.

## 1. The system

### Parts, state and operations

| Part (sources in `src/Core`) | State | Operations |
|---|---|---|
| Event loop (`EventLoop`, `SockWaiterBase`, `EpollWaiter`) | pending tasks, notify pipe with its flag, watched sockets, `m_terminal`, `m_running` | `QueueTaskToLoop`, `AddTcpSockToLoop`, `TerminateLoop`; the thread in `Loop()` |
| TCP connection (`TcpSock`, `SockEvent`, `SockHandler`) | output and input buffers, cared events, writeable and allow-more flags, last event | `SendData`, `DisAllowSend`, `Close`, `HandleEvent`, on a loop thread and its write thread |
| Bus server, registry (`msgbus_server.cpp`) | `available_services`, `active_clients`, `tcp_services_map` | register, unregister, look up, query, confirm alive; accept, read, close, error |
| Bus server, relay (`msgbus_server.cpp`) | queues of directed messages and broadcasts, terminate flag | `process_sendmsg_req`, `msgbus_process_thread`, `server_accept_thread`, `main` |
| Local bus (`msgbus_interface.cpp`) | two task queues, ready entries per thread, running and terminate flags | `SendMsg`, `PostMsg`, `MsgTaskProcessProc`, `InitMsgBus`, `DestroyMsgBus` |
| Local handlers (`msgbus_interface.cpp`, `msgbus_handlerbase.hpp`, `MsgHandlerMgr`) | handler objects per message, functions per object, weak references | `RegisterMsg`, `UnRegisterMsg`, `AddHandler`, `RemoveHandler`, `~MsgHandler` |
| Futures (`NetMsgBusFuture.hpp`) | one-shot result with an error flag, table by request id | `get`, `set_result`, `set_error`, `join` with a timeout |
| Client to server (`NetMsgBusServerConnMgr.hpp`) | connection, connecting and registered flags, table of futures | start, stop, register, update, unregister, relay, look up, query; answers; end of the connection |
| Client to receiver (`NetMsgBusReq2ReceiverMgr.hpp`) | cached hosts, waiting tasks, request queue, table of futures | post, send, dispatch, look up, retry, answer, stop |
| Receiver (`NetMsgBusReceiverMgr.hpp`, `NetMsgBusFilterMgr`) | accepted connections, their number, identified senders | accept, read, filter, dispatch to the local bus, answer |
| Connection pool (`TcpClientPool`) | connections by destination, turn | choose, create what is missing, remove |
| Thread pool (`threadpool*`, `worker_thread`, `named_worker_thread`) and timers (`timer_thread`, `multitimer`) | task queue, named threads with their queues, threads for long tasks, table of timers | queue, terminate a named thread, set and delete a timer, destroy |
| Wire formats (`msgbus_def`, `NetMsgBusUtility.hpp`, `PyPort/NetMsgBusDataDef.py`) and byte buffer (`FastBuffer`) | bytes, indices and thresholds | pack, unpack, push, pop, the loops that cut frames out of a stream |
| Loop pool, select waiter, client facade, logging, JSON, the rest of the Python port | | |

### How they interact

- Every user of a socket reaches its event loop through one task queue: push
  under a lock, then a byte in a pipe the loop watches. Sockets are
  edge-triggered: a condition that is reported and not acted on is not reported
  again.
- A connection belongs to two threads: the loop thread waits, reads and owns
  the epoll registration; a named thread of the thread pool does all writing.
  They exchange tasks and also share plain fields (`m_sockev`, `m_caredev`,
  `m_evloop`).
- The server turns every received request into a task of a 32-thread pool.
  Requests of one connection overtake each other and may run after its close.
- The relay only reads `active_clients`, which the registry changes under the
  same lock: that table is the interface between the two models
  (`ActiveClients`).
- The local bus has one thread; `SendMsg` waits for it on a condition shared by
  all senders, with a timeout of 15 s, and finds its answer by thread id.
- The client side joins all of these: it sends through the server connection or
  through pooled connections to receivers and hands what it receives to the
  local bus. Requests to receivers use look-ups at the server; `DirectRequests`
  uses of them only what `Calls` promises, which `ServerConn` implements.
- Connections are written by named threads of the thread pool. That the tasks of
  one name run in order, one at a time, is what `TcpSock`, `DirectRequests` and
  the server assume; `ThreadPool` shows it (`OneThreadPerName`, `NamedRefined`).

### What is hard, and what makes each part correct

| Part | Hard | Correct when |
|---|---|---|
| Event loop | flag and byte of the notice change in different steps; termination, timeouts, signals and full event batches race with queueing | no wake-up, input or termination is lost; tasks run in order, once; the loop ends |
| TCP connection | two threads and callers share the buffer, the flags and an edge-triggered registration | output arrives in order without gaps; buffered output is flushed before a shutdown; output never waits while there is room |
| Registry | requests overtake each other and the close; two threads may close one connection; one client may have two connections | the three tables agree; a close leaves nothing behind; nobody is removed by somebody else |
| Relay | two queues swapped out as a whole; the flag that ends the thread is set without the lock | no message is stuck or repeated; both threads end and are joined |
| Local bus | answers race with timeouts; destruction races with waiting | no wake-up or answer is lost; an answer reaches the caller it is for; `DestroyMsgBus` returns |
| Handlers | two registries behind two locks; destructors that take the lock again | a registered function is called, an unregistered one is not; no deadlock |
| Client to server | answers race with timeouts; the connection and three flags are shared without a lock | a success is the server's answer to that call; every call ends |
| Client to receiver | requests wait for a host, are put aside and queued again, leave by several connections made by several threads | a request is in one place, handled at most once, and answered by its own answer; none waits for ever |
| Thread pool | threads start on demand, end and are joined at the same time; the timer thread works without the lock | one thread per name, nothing runs after the end, queues drain, the pool ends |
| Wire formats, buffer | frames arrive in pieces; buffers move, grow and shrink; two languages | what is packed is decoded, no byte is lost, no complete frame is left |

The hazards in `PROJECT.json` give the line of each and the properties that
would catch it.

## 2. Modules

| Module | Models |
|---|---|
| `TaskQueue` | abstract: tasks run one at a time, in order, at most once, none after the end |
| `ActiveClients` | abstract: one critical section adds or removes one connection under one name |
| `Calls` | abstract: a call ends at most once, with success only when it was answered well |
| `EventLoop` | `EventLoop`, `SockWaiterBase`, `EpollWaiter` |
| `TcpSock` | output, shutdown and close of one `TcpSock` |
| `ServiceTables` | the registry of `msgbus_server.cpp` |
| `MsgRelay` | relay, threads and end of `msgbus_server.cpp` |
| `LocalMsgBus` | `msgbus_interface.cpp` without the table of handlers |
| `ServerConn` | `NetMsgBusServerConnMgr.hpp` and the futures |
| `DirectRequests` | `NetMsgBusReq2ReceiverMgr.hpp`, `TcpClientPool`, `NetMsgBusReceiverMgr.hpp`, filters |
| `ThreadPool` | thread pool, named threads, timers |
| `Wire` | the message classes and contents in C++ and Python, as operators on bytes |
| `FastBuffer` | the byte buffer, as operators on a record |
| `MsgStream` | one direction of one connection: `Wire` over two `FastBuffer`s and a stream |
| `MC...` | instances for TLC |
| `..._proofs` | theorems about the module of that name; `TcpSock_proofs` also those about `FastBuffer`, `Wire` and `MsgStream` |

Variables and actions carry the names of the fields and functions they stand
for. A step of a thread is what it does between two points where another thread
can see or change its state: a critical section, a test of an unlocked flag, a
system call, a wait.

**EventLoop.** Any number of callers queue tasks, add and close sockets and call
`TerminateLoop`; peers send, close and fail. `Loop()` is split at every lock and
system call: test of `m_terminal`, `epoll_wait`, clearing the notice, reading its
byte, timeouts, swapping the tasks, running each, dispatching events in batches
of `EPOLL_QUEUE_LEN`. epoll is external: an edge-triggered ready list, where a
registration of something already readable is ready at once. `fin` stands for
every way a peer ends a connection (end of file and `EPOLLERR`). A socket object
has one descriptor in its life, so descriptors are not reused in the model.
`TerminateLoop` is called at most once: `EventLoopPool` takes a loop out of its
table before it terminates it. The loop's exit destroys the waiter: the epoll
descriptor is closed, then the sockets are forgotten.

**TcpSock.** Data are units; the kernel's send buffer holds `SndBuf` of them, so
partial writes and `EAGAIN` arise. Callers run `SendData` (test, then queue),
`DisAllowSend` (flag, then test of the buffer) and `Close`; the write thread
takes its tasks in order and writes piece by piece; the loop thread changes
registrations, dispatches and closes. The kernel is external: tcp_poll's
conditions, the ready list, and a wake-up for writing only after a write found no
room. The release build is modelled (`template.mk` defines `NDEBUG`); in a debug
build the assertion at `EventLoop.cpp:72` would stop the write thread's call of
`UpdateTcpSock`. `mixed` is a history variable: a read was reported together
with a write event, or while a write event was waiting for the write thread.

**ServiceTables.** One action per critical section. A request is a record in a
set, taken in any order, as by the pool. Closing is the three steps of
`server_onClose` (leave `active_clients` and `tcp_services_map`; leave the
service; `Close`), run by the loop thread, the write thread or both. What a
connection may announce (`NamesOf`, `Announce`) is a constant, and so is which
kinds of requests clients make (`Ops`) and which names are found in which others
by a query (`Occurs`). Requests that only read the tables (`getclient`, query,
confirm alive) change nothing but `answer`, which with `told`, `late` and
`unlisted` is history.

**MsgRelay.** Looking for a receiver and queueing are two steps; each of the two
queues is swapped out as a whole; names match as in `is_prefix_matching`. There
are finitely many names, since the map of active clients is walked name by name.
Clients come and go as `ActiveClients` allows, which `ServiceTables` is proved to
implement. The accept thread may accept, end the server because it has no socket, or
return without the flag when its socket cannot be made close-on-exec or nonblocking;
main then sleeps on. Otherwise the server ends by its terminate flag or after more than `QuitRounds` rounds without a client (15 in the code); then main
joins the accept thread, notifies and joins the process thread.

**LocalMsgBus.** Every lock, test and wait of a call and of the bus thread is a
step; waits may wake spuriously, and the timeout of `SendMsg` may fire at any
moment, also together with the answer. Looking up handlers has any outcome. That
the code merges equal posts is not visible to the properties and is left out. One
life of the bus is modelled: a message pushed after the destruction stays in the
queue, as in the code, and what the next `InitMsgBus` does with it is not asked.
The clearing of the queues by `DestroyMsgBus`, which takes no lock, is one step.

**ServerConn.** Application threads call, the loop thread handles answers and
ends of connections. Every access to `m_server_tcp`, `m_server_connecting` and
`m_isreceiver_registered`, which have no lock, is a step; so are the parts of
`set_error` and `set_result` before and under the lock. A use of an empty
`m_server_tcp` sets `crashed`, after which nothing happens. Contents are left
out; of an answer remains whether its `ret_code` is 0. The server is external:
it answers each request at most once, in any order, or not at all. `TcpConnect` is
what a thread sees of `TcpSock::Connect`: the connection can be written and may be
used for sending again, or it is closed. A timeout of
`join` may fire at any moment.

**DirectRequests.** One sender, one name whose receiver may move between hosts.
A posted request passes the queue, the dispatching thread and a named thread, a
sent one is carried by its caller; both find a host (cached, looked up, or
given), a connection of the pool (in turn, or after creating what is missing)
and write. Connections carry requests in order, may be closed by the receiver
(its limit, its filter, its end) and lose what is under way. Look-ups follow
`Calls`, and `Reliable` says whether each is answered. A request's number is the
id of its future. Timeouts are possible at any moment a caller waits. Calls made
before `Start` or after the dispatching thread has ended fail at once.
`RemoveTcpSock` takes the first entry of a connection out of the pool, where the
code erases every equal one: the proofs show that there is at most one
(`OncePooled`). At the receiver a failed write runs `receiver_onError` in the write
thread, which can only queue the close; until that runs the loop thread may read on,
and may itself end the connection and run `receiver_onClose` a second time
(`peer[c] = "failed"`). A new receiver may find no free port, which ends its process,
or listen without accepting, which its client waits for in vain.

**ThreadPool.** Sections under `m_locker`, and under a named thread's lock, are
steps. The timer thread uses the table without the lock, entry by entry:
`TimerElapse`, `TimerReset` and `TimerPush` are steps between which callers and
`destroy_thread_pool` change it. Time is counted in rounds of the timer thread.
A thread for a long task reads its caller's task when it starts, intact or
already gone. Tasks end and do not throw.

**Wire, FastBuffer, MsgStream.** A message class is a sequence of fields, each
with the bytes it becomes and the test under which it is read back; C++ and Python
have their own. Integers keep their width and network order, and lengths are cut
to the width of their field (`% 256` for one byte). Strings of fixed size are
copied and cut as `strncpy` does. An error text is the memory that holds it with its
zero: C++ copies both, and reads the text as a C string; Python takes the bytes as
they are. (The C++ class calls the field memory, the Python class data.) `FastBuffer` keeps the vector's contents, so a
byte that was not written is visible as what was there before; its sizes are
constants. `MsgStream` sends frames through the sender's buffer, a pipe cut
anywhere, reads of `BLOCK_SIZE` (or `recv` in Python) and one of the seven loops
that cut frames out. Its definitions are called `StreamInit`, `StreamNext`,
`StreamSpec` and `StreamTypeOK`, so that it can stand beside `TcpSock` in one
module of proofs. What programs may send is an assumption on the constant
`Messages` (`MessageAssumption`): the fields of the class and no other, numbers in
their width, names shorter than their field, as the assertions on names demand,
texts without zeros and with room for the one behind them, error texts that end
with it, and lengths that are those of the data; and clients send the server no
answers. What a request may
contain is one on `Contents` (`ContentAssumption`): the message id and the sender
are shorter than 256 bytes, which C++ cuts to one byte, the parameter shorter than
2^32, and the message id does not hold "msgparam=", by whose first occurrence the
Python port finds the parameter. The parameter may hold anything.

## 3. Runs

All properties are stated, with the code they are about, above their definitions.

| Run | Checks | Bounds, and why they are enough |
|---|---|---|
| `eventloop_safety` | no lost wake-up or input; closed sockets go; `TaskQueue` is implemented | two callers and two sockets (a notice in every window of the loop's clearing, two ready sockets), batches of one event so that a batch is full, one pending task, one signal |
| `eventloop_liveness` | queued tasks are taken; a terminated loop ends | as above with one socket |
| `tables_reconnect` | tables agree, closes are clean, listed hosts have an owner | two connections of one client, three requests: a registration, an unregistration and one more that overtakes them |
| `tables_two_hosts` | only the owner takes a host off the list; a client told it is registered is known; `ActiveClients` is implemented | a provider with two names and a client without port on another machine |
| `relay` | order, at most once; both queues are `TaskQueue`s; what is queued is taken; the server ends | two messages, so that one is queued while another is sent; names of which one is a prefix of the other, and two connections, one of which may serve both |
| `local_bus` | no lost answer; answers stay with their thread; order; destruction returns | two threads, three messages: a second call after a timeout while another thread waits |
| `tcpsock` | order without gaps; flushed before shutdown; output goes on | a kernel buffer of one, so that writes are partial; three data, so that the buffer holds two and a third arrives meanwhile; one input and one call of `DisAllowSend` |
| `server_conn` | a success is the answer to that call; no answer is taken and thrown away; calls end | the thread that owns the client starts and stops it and also calls, another calls; two futures and two connections, so that a late answer or a late end of the first meets the second |
| `direct` | one place, at most once, identified first, own answer, nothing waits for ever | two requests (two posts, or one sent to a host and one to a name), pools of two connections, a receiver that moves once and takes one connection, a filter that excludes the second request |
| `thread_pool` | one thread per name; nothing after the end; named threads are `TaskQueue`s; queues drain; the pool ends | three calls by two threads, two workers, one name with two threads in turn, one timer, one long task; a named thread is terminated, started again and the pool destroyed |
| `wire` | what is packed is decoded (an error text with its zero), no byte lost, no frame left, contents arrive | two or three frames of every class over every pairing of ends; names of four bytes, buffers and thresholds scaled to a frame or two, so that vectors grow, move and are cut; pieces of eight bytes |
| `tcpsock_output_stalls` | violation, see Findings | as `tcpsock` |

Deadlock is checked in `relay`. The others say `CHECK_DEADLOCK FALSE` because
their systems really come to rest: threads return, callers use up their calls,
connections close, a program that used an empty pointer stops.

Symmetry is used for callers and sockets, for two connections with equal
constants, and for data. No liveness run uses it.

### Fairness

Weak fairness is assumed for the steps of a thread that is not waiting, because
the operating system schedules it; never for what callers, peers, signals,
spurious wake-ups or timeouts may do, with these exceptions. `FairSpec` of
`EventLoop` owes the 1.2 s timeout of `epoll_wait` to a loop that is to end;
without it the property would be false, since a silent peer keeps the
connection open. While the loop is not told to end the timeout is owed nothing,
so `TasksTaken` rests on notices alone. `FairSpec` of `MsgRelay` assumes that
`select` returns, as its timeout makes it do. `FairSpec` of `ServerConn` lets a
call's timeout fire when nothing else ends its wait: a lost connection leaves
nothing else. `FairSpec` of `DirectRequests` assumes that a look-up that reached a
reliable server is answered; without that a request waits for ever, as nothing
but the answer releases it. `FairSpec` of `ThreadPool` assumes tasks end, and
that `destroy_thread_pool` goes on once called, not that it is called. `TcpSock`
needs no fairness: a stall is stated as an invariant of states in which every
thread is at rest.

### Findings

`tcpsock_output_stalls` expects a violation: a write event reported together with
a read, or overtaken by one, is handled by neither thread; output waits though
there is room, against the comment of the code. `OutputGoesOn` therefore holds
while `mixed` is false.

The models also show the following, which limits what the passing properties can
say; each property names its condition.

- `EventLoop.cpp:57`: a caller that has passed `AddTcpSockToLoop`'s unlocked test
  adds its socket after the waiter was destroyed, and is told it succeeded.
- `msgbus_server.cpp:403`: a registration still in the pool when its connection
  closes enters the closed connection, for good. `NoTraceLeft` excludes such late
  registrations.
- `msgbus_server.cpp:579`: a client that reconnects with the host of its old
  connection, before that is closed, is told it is registered and is not known.
  `RegisteredIsKnown` speaks of clients with a host of their own.
- `msgbus_interface.cpp:557`: after a timeout the next `SendMsg` of the same thread
  may return the answer to the earlier message. `AnswerToOwnThread` speaks of a
  thread's own message only before a timeout.
- `NetMsgBusReceiverMgr.hpp:241`: the comment describes a content
  "msgid=...&msgparam=...", which is what the Python port writes and reads; the C++
  code reads lengths and bytes. `ContentArrives` speaks of ends in one language.
- `PyPort/NetMsgBusDataDef.py:133` and `:340`: Python strips the zeros of names and
  types but not of error texts, so that its handlers are given the text with the zero
  C++ sends behind it, where a C++ handler sees the text alone. `DecodedAsSent`
  speaks of the bytes.
- `PyPort/NetMsgBusDataDef.py:122` and `:140`: the Python answer to a registration
  names an unknown `err_msg_len` and cannot be packed; no program packs it.
- `msgbus_server.cpp:299`: an accept thread that cannot prepare its socket returns
  without the terminate flag, and the server sleeps on with no thread to accept.
  `ServerEnds` speaks of a server whose flag is set.
- `NetMsgBusReceiverMgr.hpp:298`: a failed write and the end of the connection each
  lower the number of senders, so the receiver may later accept more than its limit.
- `NetMsgBusServerConnMgr.hpp:141`: the late end of an old connection clears the
  state of the new one, and another is then made beside it, where the comment at
  line 73 expects one. An empty `m_server_tcp` may be used by a thread that has just
  tested it.
- `NetMsgBusReq2ReceiverMgr.hpp:587`: requests posted one after the other to one
  name leave by different connections of the pool and may be read in the other
  order.
- `TcpClientPool.cpp:138`: a connection closed between its entry into the loop and
  its entry into the pool stays in the pool.
- `NetMsgBusReceiverMgr.hpp:180`: the number of senders is raised before the limit
  is tested and not lowered when the connection is refused.
- `timer_thread.hpp:85`: a timer set between the reset of an entry and the copy of
  its task runs at once, in place of the task that was due.
- `threadpool.cpp:58`: the thread for a long task copies it from its caller's stack,
  perhaps after the caller has returned.
- `EventLoop.cpp:173`: a terminating loop waits for its peers to close, as the
  comment says, but only until an `epoll_wait` times out.
- `msgbus_server.cpp:330`: the server counts rounds of `select`, not time, before it
  ends for want of clients; a round that accepts a connection is immediate.

## 4. Proofs

The theorems hold for every value of the constants that satisfies the named
`ASSUME` of the module: naturals for bounds, at least one event per batch and one
unit of kernel buffer, marker values outside the sets they mark, and for
`ServiceTables` a rank that orders the names. Bounds on histories and counters
are constants too, so the theorems do not depend on their being small.

| Module | Theorems | Inductive invariant |
|---|---|---|
| `EventLoop_proofs` | `TypeCorrect`, `NotifyBytesCorrect`, `NoLostWakeupCorrect`, `NoLostTerminateCorrect`, `EventsHaveSocketCorrect`, `NoStrandedInputCorrect`, `ClosedGoesAwayCorrect`, `QueueRefinement` | `IInv`: types; the byte count; an announced byte is on the ready list (`EdgeArmed`); pending tasks are covered by a notice on its way at every point of the loop, not only in `epoll_wait` (`WakeupCovered`), and so is a request to end (`TerminateCovered`); what epoll holds the waiter still has (`SocksKnown`). `InputInv`: events are left over only while a batch is worked off (`BatchDone`), and a closed socket that is still waited for has its notice on the way (`RemovalAnnounced`) |
| `TcpSock_proofs` | `TypeCorrect`, `BufferedIsFlushedCorrect`, `OutputGoesOnCorrect`, `SentInOrderCorrect`; about `FastBuffer`: `BufferAppends`, `BufferPops`; about `MsgStream`: `StreamTypes`, `StreamDecodedAsSent`, `StreamNoByteLost`, `StreamNothingLeft`, `StreamContentArrives` | `FlushInv`: what was promised at `DisAllowSend` is on the wire or in the buffer, and a shutdown under way found the buffer empty; `WakeInv`: output that waits is cared for, registered or about to be, and a wake-up is due from the kernel, in the ready list or in a queue; `OrderInv`: wire and buffer together are the beginning of what was accepted, and until tasks are dropped the queued ones carry on exactly where it ends (`Pending`). `Encloses`: the indices of the buffer lie in the vector and enclose a given sequence. `StreamInv`: types, and what was sent is what was handled followed by waiting messages whose frames are exactly the reader's buffer, the pipe and the sender's buffer, of which the reader does not hold the whole first one (`Waits`) |
| `ServiceTables_proofs` | `TypeCorrect`, `KnownIffActiveCorrect`, `NoTraceLeftCorrect`, `ListedHasOwnerCorrect`, `OnlyOwnerUnlistsCorrect`, `RegisteredIsKnownCorrect`, `ActiveRefinement` | `TableInv`: requests carry the client's own names, `Close` comes after `server_onClose` began, tables agree until then and are clean from then on. `OwnInv`: requests, `tcp_services_map` and what a closing thread holds name hosts of their own client; what is listed or was told is known |
| `MsgRelay_proofs` | `TypeCorrect`, `NoLostNotifyCorrect`, `RelayInOrderCorrect`, `RelayRefinement` | `NotifyInv` (main wakes the thread only after the flag), `QueueInv` (the thread has a message in hand while it sends), `OrderInv` (the queue is sorted by number, a connection is chosen at most once for a message, and what was delivered is older than all that is queued) |
| `LocalMsgBus_proofs` | `TypeCorrect`, `NoLostNotifyCorrect`, `NoLostAnswerCorrect`, `AnswerToOwnThreadCorrect`, `BusRefinement` | `BusInv`: life of the bus, entries belong to their senders, what the bus found is an entry; `FlightInv`: a thread that has not timed out has one message under way, in the queue, in the batch or at the bus, and it is its own |
| `ServerConn_proofs` | `TypeCorrect`, `TakenIsSetCorrect`, `CallsRefinement` | `ConnInv`: types, and `CallInv`: callers have distinct futures, an id is asked for and answered at most once and only after it was given out, the answer in the loop's hand belongs to a request that was made, a ready future without error has a good answer |
| `DirectRequests_proofs` | `TypeCorrect`, `OnePlaceCorrect`, `IdentifiedFirstCorrect`, `HandledOnceCorrect`, `CallsRefinement` | `RouteInv`: types; `PlaceInv`: lists and workers' hands are disjoint and without repetition, a request on its way has not been sent unless its caller waits, one in the table is on its way or sent; `ConnInv`: a connection not yet made is nowhere, one the receiver does not know carries first of all who is calling, and none is in the pool twice. On top of it `Fresh` (a request is on the wire once, and not if it was read) and `Open`, `Answered` (what has ended has neither a caller nor, if posted, a future) |
| `ThreadPool_proofs` | `TypeCorrect`, `OneThreadPerNameCorrect`, `QuietAfterDestroyCorrect`, `NamedRefinement` | `PoolInv`: one living thread per name, a running named thread has its task in hand, and at each stage of `destroy_thread_pool` which threads have ended and which the stage still knows of |

`NoLostWakeup` and `OutputGoesOn` speak of sleeping threads only. Neither is
inductive: the step into sleep preserves them only if the condition already held
in a form for each earlier point, and stating that form is the content of the
invariants. `OnePlace` counts the places of requests in the table that were not
sent; `PlaceInv` says the same of every request, in the table or not, because one
that was cleared from the table goes on through the lists.

The refinements map the taken part followed by the shared part of a queue to the
abstract queue. A swap is then a stutter, a push is `Put`, the start of a task is
`Run`, the return of the thread is `Stop`. `Calls` is implemented by `ServerConn`
and by `DirectRequests` with the same two history variables: a reply of the
receiver or the server is `Reply`, the end of a call `Fail` or `Succeed`, and
everything else stutters.

Type invariants are proved for every module, and are not repeated in the runs.

`TcpSock` and `MsgStream` look at a `FastBuffer` through its unread bytes.
`BufferAppends` and `BufferPops` justify that for every size and threshold: a push
appends, also when it grows, moves or cuts the vector, a read into the buffer does
so too, a pop takes from the front, and no access leaves the vector. They need one
fact about the sizes, that a cut takes at most a sixteenth of what makes a vector
large (`SizeAssumption`, which the code's macros satisfy).

The theorems about `MsgStream` hold for all messages, contents, sizes of buffers and
reads and every way the kernel cuts the stream. Their argument has four layers.

1. *Numbers and fields.* `Net` and `Host` are inverse on numbers that fit, `strncpy`
   and `CString` on names and texts, `strncpy` keeps memory that ends with its only
   zero, hence `Take` undoes `Put` for each kind of field.
2. *Classes.* A body is good when each variable field comes after the one that
   gives its length. All ten classes and the two direct frames are (`GoodBody`),
   `UnPackBody` undoes `PackBody` for every good body, the size in the head is the
   length of the body. Eight Python classes have the fields of the C++ ones; in the
   two answers with an error text Python takes as bytes what C++ copies as memory,
   and for memory that ends with its only zero both put and take the same
   (`BodyAsBytes`, `ReadersClass`). So every frame is decoded to what was packed, in both languages, and the bytes
   of its head say where it ends (`Coding`).
3. *The loop.* For any coding, `Frames` of a beginning of a sequence of frames is the
   frames that lie wholly in it, and what remains does not hold the whole of the
   next one.
4. *The stream.* `StreamInv` is inductive. `NoByteLost` alone is not: nothing in it
   keeps the loop from leaving a whole frame in the buffer or from taking one that
   was not sent. That the reader does not hold the whole first waiting frame is what
   gives `NothingLeftUnhandled`.

`StreamContentArrives` rests on two further facts: in C++ the three lengths lead to the
three parts; in Python an encoded text holds no separator, and decoding, two
replacements one after the other, undoes encoding for every text (`EncodeDecode`).

What recursive functions compute is shown by induction over numbers. The library's
induction theorems take a predicate as a parameter, which the provers cannot
instantiate; the lemma `Induction` says the same of a set of numbers, from the
well-foundedness of `<`, and `UpwardFunction` and `DownwardExists` derive from it that
the functions of `Wire` and `MsgStream` exist and satisfy their equations. The
assumptions used are `StreamAssumption`, `MessageAssumption`, `ContentAssumption`,
`NameAssumption` and `SizeAssumption`, which TLC evaluates in the run `wire`.

The composition is by promises: `MsgRelay` assumes `ActiveClients`, which
`ActiveRefinement` proves of the registry; `DirectRequests` assumes of its look-ups
`Calls`, which `CallsRefinement` proves of `ServerConn`; `TcpSock` and
`DirectRequests` assume of named threads what `OneThreadPerNameCorrect` and
`NamedRefinement` prove.

### Only model-checked

Liveness (`TasksTaken`, `LoopEnds`, `RelayTaken`, `ServerEnds`, `DestroyReturns`,
`CallsReturn`, `WaitingReleased`, `QueuesDrained`, `PoolEnds`), since the prover has
neither fairness nor ENABLED. All invariants, action properties without fairness and
refinements that the passing runs check are theorems.

## 5. Not modelled

- *Registry of local handlers*: `RegisterMsg`, `UnRegisterMsg`, `MsgHandler`,
  `MsgHandlerMgr`. The hazards there are in the lifetime of C++ objects behind weak
  references; `LocalMsgBus` takes any outcome of a look-up.
- *Client facade, EventLoopPool*: create the parts above and forward to them.
- *Within the modelled parts*: per-connection timeouts and `SendData` called from
  `onSend` in `TcpSock` (`Connect` is a step of `ServerConn` and of
  `DirectRequests`); the data race on `m_evloop` and `m_sockcb`
  inside `Close`; several lives of the local bus, of the thread pool and of the
  request manager; the end of the receiver's accept thread other than with its
  process or before it accepts; exceptions thrown by tasks.
- *SelectWaiter*: the alternative for builds without epoll.
- *Python port*: its threads and futures repeat the C++ client; its wire formats
  and loops are in `Wire` and `MsgStream`.
- *Logging, `xparam.hpp`, JSON, test programs*: the bus does not depend on them, or
  they are not the bus.

## 6. Plan

1. `MsgHandlers`, the registry of handlers, composed with `LocalMsgBus` through the
   look-up.
