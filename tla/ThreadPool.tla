----------------------------- MODULE ThreadPool -----------------------------
(***************************************************************************)
(* The thread pool every other part runs on (src/Core/threadpool.cpp,       *)
(* threadpoolimp, worker_thread, named_worker_thread, timer_thread,         *)
(* multitimer): workers over one queue, threads with a name and a queue of  *)
(* their own, a thread of its own for a long task, a timer thread over a    *)
(* table of timers, and destroy_thread_pool, which ends them all.           *)
(*                                                                          *)
(* A task is the number of the call that handed it in.  Sections under      *)
(* m_locker are one step; so are those under a named thread's own lock.     *)
(***************************************************************************)
EXTENDS Naturals, Sequences, FiniteSets

CONSTANTS
  Callers,     \* threads that use the pool
  Ops,         \* caller -> the operations it calls
  Workers,     \* the workers init_thread_pool created
  Names,       \* names of threads
  Slots,       \* size of the timer table, THREAD_POOL_MAX_TIMER
  Delays,      \* delays of timers, in rounds of the timer thread
  MaxNamed,    \* bound: named threads created; creating more fails
  MaxAlone,    \* bound: threads for long tasks created; creating more fails
  MaxBacklog,  \* bound: tasks waiting when a round of the timer thread begins
  MaxCalls     \* bound: calls

VARIABLES
  running,     \* s_threadpool_running
  terminateall,\* m_terminateall                                   (m_locker)
  tasks,       \* m_task_container                                 (m_locker)
  worker,      \* worker -> its program counter
  table,       \* m_named_threads: name -> thread                  (m_locker)
  named,       \* the named threads, in the order of creation
  alone_pids,  \* m_alone_pids: threads for long tasks             (m_locker)
  alone,       \* call -> the thread made for it
  slots,       \* m_timertask_container; destroyed entries stay in memory
  size,        \* its size
  timer,       \* the timer thread
  call,        \* caller -> the call under way
  calls,       \* number of calls
  owner,       \* program counter of destroy_thread_pool
  snapshot,    \* temp_named_threads: threads still to be joined
  joining      \* the named thread being joined

pool    == <<running, terminateall, tasks, worker>>
threads == <<table, named, alone_pids, alone>>
timers  == <<slots, size, timer>>
vars    == <<pool, threads, timers, call, calls, owner, snapshot, joining>>

-----------------------------------------------------------------------------
NoTask == 0
NoThread == 0
Task == 1..MaxCalls
Thread == 1..MaxNamed

OpKinds == {"work", "alone", "named", "endnamed", "timer", "deltimer"}

ASSUME ThreadPoolAssumption ==
  /\ Ops \in [Callers -> SUBSET OpKinds]
  /\ Slots \in Nat \ {0}
  /\ Delays \subseteq Nat
  /\ MaxNamed \in Nat /\ MaxAlone \in Nat /\ MaxBacklog \in Nat /\ MaxCalls \in Nat

Idle == [op |-> "none", task |-> NoTask]

Timer == [task : Task \cup {NoTask}, id : Task \cup {NoTask}, delay : Delays \cup {0},
          elapse : Nat, inuse : BOOLEAN, repeat : BOOLEAN]

UnusedTimer == [task |-> NoTask, id |-> NoTask, delay |-> 0,
                elapse |-> 0, inuse |-> FALSE, repeat |-> FALSE]

(* The timer thread between two rounds. *)
BetweenRounds == [at |-> "wait", i |-> 1]

NamedThread == [name : Names, at : {"top", "asleep", "run", "leave", "ended"},
                terminate : BOOLEAN, tasks : Seq(Task), batch : Seq(Task), lastrun : Task \cup {NoTask}]

TypeOK ==
  /\ running \in BOOLEAN /\ terminateall \in BOOLEAN
  /\ tasks \in Seq(Task \cup {NoTask})
  /\ worker \in [Workers -> {"top", "asleep", "run", "ended"}]
  /\ table \in [Names -> Thread \cup {NoThread}]
  /\ named \in Seq(NamedThread) /\ Len(named) <= MaxNamed
  /\ \A n \in Names : table[n] <= Len(named)
  /\ alone_pids \subseteq Task
  /\ alone \in [Task -> {"none", "start", "run", "erase", "ended"}]
  /\ slots \in [1..Slots -> Timer]
  /\ size \in {0, Slots}
  /\ timer \in [at : {"wait", "slot", "reset", "push", "ended"}, i : 1..Slots]
  /\ call \in [Callers -> [op : OpKinds \cup {"none", "return"}, task : Task \cup {NoTask}]]
  /\ \A c \in Callers : call[c].op # "none" => call[c].task \in Task
  /\ calls \in 0..MaxCalls
  /\ owner \in {"up", "terminateagain", "join", "copy", "named", "joinnamed", "down"}
  /\ snapshot \subseteq Thread
  /\ joining \in Thread \cup {NoThread}

Init ==
  /\ running = TRUE /\ terminateall = FALSE
  /\ tasks = << >>
  /\ worker = [w \in Workers |-> "top"]
  /\ table = [n \in Names |-> NoThread]
  /\ named = << >>
  /\ alone_pids = {}
  /\ alone = [t \in Task |-> "none"]
  /\ slots = [i \in 1..Slots |-> UnusedTimer]
  /\ size = Slots
  /\ timer = BetweenRounds
  /\ call = [c \in Callers |-> Idle]
  /\ calls = 0
  /\ owner = "up"
  /\ snapshot = {}
  /\ joining = NoThread

(* notify_one after a push: one of the sleeping workers wakes up; notifying   *)
(* k times wakes up to k of them.                                             *)
Asleep == {w \in Workers : worker[w] = "asleep"}

Notify(k) ==
  \E woken \in SUBSET Asleep :
    /\ Cardinality(woken) = IF Cardinality(Asleep) < k THEN Cardinality(Asleep) ELSE k
    /\ worker' = [w \in Workers |-> IF w \in woken THEN "top" ELSE worker[w]]

(* A named thread's record after its condition was notified. *)
Woken(th) == [th EXCEPT !.at = IF @ = "asleep" THEN "top" ELSE @]

(* queue_task and terminate_thread of a named thread, on its record. *)
Given(th, t) == Woken([th EXCEPT !.tasks = Append(th.tasks, t)])
Ending(th) == Woken([th EXCEPT !.terminate = TRUE])

-----------------------------------------------------------------------------
(* Calls.  Those that queue a task test s_threadpool_running first, without   *)
(* the lock.                                                                  *)
CallBegin(c) ==
  /\ call[c] = Idle /\ calls < MaxCalls
  /\ \E op \in Ops[c] :
       /\ running \/ op \in {"endnamed", "deltimer"}
       /\ call' = [call EXCEPT ![c] = [op |-> op, task |-> calls + 1]]
  /\ calls' = calls + 1
  /\ UNCHANGED <<pool, threads, timers, owner, snapshot, joining>>

Return(c) == call' = [call EXCEPT ![c] = Idle]

(* Mutant: the task is queued and nobody notified. *)
QueueWorkSilently(c) ==
  /\ call[c].op = "work"
  /\ tasks' = Append(tasks, call[c].task)
  /\ Return(c)
  /\ UNCHANGED <<running, terminateall, worker, threads, timers, calls, owner, snapshot, joining>>

(* queue_work_task with flag 0, accepted even after terminateall. *)
QueueWork(c) ==
  /\ call[c].op = "work"
  /\ tasks' = Append(tasks, call[c].task)
  /\ Notify(1)
  /\ Return(c)
  /\ UNCHANGED <<running, terminateall, threads, timers, calls, owner, snapshot, joining>>

(* queue_work_task with flag 1: the new thread is given the address of the    *)
(* caller's task.  pthread_create may fail.                                   *)
QueueAlone(c) ==
  /\ call[c].op = "alone"
  /\ \/ /\ Cardinality({t \in Task : alone[t] # "none"}) < MaxAlone
        /\ alone' = [alone EXCEPT ![call[c].task] = "start"]
        /\ alone_pids' = IF terminateall THEN alone_pids ELSE alone_pids \cup {call[c].task}
        /\ call' = [call EXCEPT ![c].op = "return"]
     \/ /\ Return(c)
        /\ UNCHANGED <<alone, alone_pids>>
  /\ UNCHANGED <<pool, table, named, timers, calls, owner, snapshot, joining>>

AloneReturn(c) ==
  /\ call[c].op = "return"
  /\ Return(c)
  /\ UNCHANGED <<pool, threads, timers, calls, owner, snapshot, joining>>

(* A named thread starts in its loop with the task it was made for. *)
NewNamedThread(n, t) ==
  [name |-> n, at |-> "top", terminate |-> FALSE, tasks |-> <<t>>, batch |-> << >>,
   lastrun |-> NoTask]

(* Mutant: m_terminateall is not tested. *)
QueueNamedAnyway(c, n) ==
  /\ call[c].op = "named"
  /\ Return(c)
  /\ LET o == table[n]
         t == call[c].task
     IN  \/ /\ o = NoThread
            /\ UNCHANGED <<table, named>>
         \/ /\ o = NoThread /\ Len(named) < MaxNamed
            /\ named' = Append(named, NewNamedThread(n, t))
            /\ table' = [table EXCEPT ![n] = Len(named) + 1]
         \/ /\ o # NoThread
            /\ named' = [named EXCEPT ![o] = Given(named[o], t)]
            /\ UNCHANGED table
  /\ UNCHANGED <<pool, alone_pids, alone, timers, calls, owner, snapshot, joining>>

(* push_task_to_named_thread: into the queue of the thread with that name; a  *)
(* new thread, which may fail to start, if there is none.                     *)
QueueNamed(c, n) ==
  /\ call[c].op = "named"
  /\ Return(c)
  /\ LET o == table[n]
         t == call[c].task
     IN  \/ /\ terminateall \/ o = NoThread
            /\ UNCHANGED <<table, named>>
         \/ /\ ~terminateall /\ o = NoThread /\ Len(named) < MaxNamed
            /\ named' = Append(named, NewNamedThread(n, t))
            /\ table' = [table EXCEPT ![n] = Len(named) + 1]
         \/ /\ ~terminateall /\ o # NoThread
            /\ named' = [named EXCEPT ![o] = Given(named[o], t)]
            /\ UNCHANGED table
  /\ UNCHANGED <<pool, alone_pids, alone, timers, calls, owner, snapshot, joining>>

TerminateThread(o) == named' = [named EXCEPT ![o] = Ending(named[o])]

(* Mutant: the thread is taken out of the table before it has ended. *)
EndNamedErase(c, n) ==
  /\ call[c].op = "endnamed"
  /\ Return(c)
  /\ IF table[n] = NoThread THEN UNCHANGED named ELSE TerminateThread(table[n])
  /\ table' = [table EXCEPT ![n] = NoThread]
  /\ UNCHANGED <<pool, alone_pids, alone, timers, calls, owner, snapshot, joining>>

(* terminate_named_thread *)
EndNamed(c, n) ==
  /\ call[c].op = "endnamed"
  /\ Return(c)
  /\ IF table[n] = NoThread THEN UNCHANGED named ELSE TerminateThread(table[n])
  /\ UNCHANGED <<pool, table, alone_pids, alone, timers, calls, owner, snapshot, joining>>

(* queue_timer_task: the first timer that is not in use. *)
FreeSlots == {i \in 1..size : ~slots[i].inuse}

QueueTimer(c) ==
  /\ call[c].op = "timer"
  /\ Return(c)
  /\ \/ /\ FreeSlots = {}
        /\ UNCHANGED slots
     \/ \E i \in FreeSlots, d \in Delays, r \in BOOLEAN :
          /\ \A j \in FreeSlots : i <= j
          /\ slots' = [slots EXCEPT ![i] = [task |-> call[c].task, id |-> call[c].task, delay |-> d,
                                            elapse |-> 0, inuse |-> TRUE, repeat |-> r]]
  /\ UNCHANGED <<pool, threads, size, timer, calls, owner, snapshot, joining>>

(* deletetimerbyid, also of a timer that is no longer in use. *)
DelTimer(c) ==
  /\ call[c].op = "deltimer"
  /\ Return(c)
  /\ \E id \in Task :
       slots' = [i \in 1..Slots |->
                   IF i <= size /\ slots[i].id = id
                   THEN [slots[i] EXCEPT !.elapse = 0, !.task = NoTask, !.inuse = FALSE]
                   ELSE slots[i]]
  /\ UNCHANGED <<pool, threads, size, timer, calls, owner, snapshot, joining>>

-----------------------------------------------------------------------------
(* The pool's threads. *)

(* worker_thread::execute_task up to the unlock. *)
WorkerTake(w) ==
  /\ worker[w] = "top"
  /\ \/ /\ terminateall
        /\ worker' = [worker EXCEPT ![w] = "ended"]
        /\ UNCHANGED tasks
     \/ /\ ~terminateall /\ tasks = << >>
        /\ worker' = [worker EXCEPT ![w] = "asleep"]
        /\ UNCHANGED tasks
     \/ /\ ~terminateall /\ tasks # << >>
        /\ worker' = [worker EXCEPT ![w] = "run"]
        /\ tasks' = Tail(tasks)
  /\ UNCHANGED <<running, terminateall, threads, timers, call, calls, owner, snapshot, joining>>

(* An empty task (of a deleted timer) is skipped. *)
WorkerRun(w) ==
  /\ worker[w] = "run"
  /\ worker' = [worker EXCEPT ![w] = "top"]
  /\ UNCHANGED <<running, terminateall, tasks, threads, timers, call, calls, owner, snapshot, joining>>

(* A wait on a condition may return without a notification. *)
WorkerWakes(w) ==
  /\ worker[w] = "asleep"
  /\ worker' = [worker EXCEPT ![w] = "top"]
  /\ UNCHANGED <<running, terminateall, tasks, threads, timers, call, calls, owner, snapshot, joining>>

(* Mutant: the tasks are copied instead of swapped out. *)
NamedTakeCopy(o) ==
  /\ named[o].at = "top"
  /\ \/ /\ named[o].terminate
        /\ named' = [named EXCEPT ![o].at = "leave"]
     \/ /\ ~named[o].terminate /\ named[o].tasks = << >>
        /\ named' = [named EXCEPT ![o].at = "asleep"]
     \/ /\ ~named[o].terminate /\ named[o].tasks # << >>
        /\ named' = [named EXCEPT ![o].at = "run", ![o].batch = named[o].tasks]
  /\ UNCHANGED <<pool, table, alone_pids, alone, timers, call, calls, owner, snapshot, joining>>

(* named_worker_thread::execute_task up to the unlock. *)
NamedTake(o) ==
  /\ named[o].at = "top"
  /\ \/ /\ named[o].terminate
        /\ named' = [named EXCEPT ![o].at = "leave"]
     \/ /\ ~named[o].terminate /\ named[o].tasks = << >>
        /\ named' = [named EXCEPT ![o].at = "asleep"]
     \/ /\ ~named[o].terminate /\ named[o].tasks # << >>
        /\ named' = [named EXCEPT ![o].at = "run", ![o].batch = named[o].tasks, ![o].tasks = << >>]
  /\ UNCHANGED <<pool, table, alone_pids, alone, timers, call, calls, owner, snapshot, joining>>

(* One task of the batch; after the last, back to execute_task. *)
NamedRun(o) ==
  /\ named[o].at = "run"
  /\ LET b == named[o].batch
     IN  named' = [named EXCEPT ![o].batch = Tail(b), ![o].lastrun = Head(b),
                                ![o].at = IF Tail(b) = << >> THEN "top" ELSE "run"]
  /\ UNCHANGED <<pool, table, alone_pids, alone, timers, call, calls, owner, snapshot, joining>>

(* remove_self_from_threadpool erases whatever thread has the name. *)
NamedLeave(o) ==
  /\ named[o].at = "leave"
  /\ table' = [table EXCEPT ![named[o].name] = NoThread]
  /\ named' = [named EXCEPT ![o].at = "ended", ![o].terminate = TRUE]
  /\ UNCHANGED <<pool, alone_pids, alone, timers, call, calls, owner, snapshot, joining>>

(* longrunproc copies the task through the address it was given: the caller's *)
(* task may be gone by then, and is found intact or empty.                    *)
AloneStart(t) ==
  /\ alone[t] = "start"
  /\ \E s \in {"run", "erase"} :
       /\ (\E c \in Callers : call[c].task = t) => s = "run"
       /\ alone' = [alone EXCEPT ![t] = s]
  /\ UNCHANGED <<pool, table, named, alone_pids, timers, call, calls, owner, snapshot, joining>>

AloneRun(t) ==
  /\ alone[t] = "run"
  /\ alone' = [alone EXCEPT ![t] = "erase"]
  /\ UNCHANGED <<pool, table, named, alone_pids, timers, call, calls, owner, snapshot, joining>>

(* erase_alonethread does nothing once the pool is being destroyed. *)
AloneErase(t) ==
  /\ alone[t] = "erase"
  /\ alone_pids' = IF terminateall THEN alone_pids ELSE alone_pids \ {t}
  /\ alone' = [alone EXCEPT ![t] = "ended"]
  /\ UNCHANGED <<pool, table, named, timers, call, calls, owner, snapshot, joining>>

-----------------------------------------------------------------------------
(* The timer thread goes through the table once a second, without the lock.   *)
TimerRound ==
  /\ timer.at = "wait"
  /\ terminateall \/ Len(tasks) <= MaxBacklog
  /\ timer' = IF terminateall THEN [timer EXCEPT !.at = "ended"]
                              ELSE [timer EXCEPT !.at = "slot"]
  /\ UNCHANGED <<pool, threads, slots, size, call, calls, owner, snapshot, joining>>

(* The next timer, or the end of the round. *)
NextSlot ==
  IF timer.i < Slots THEN [timer EXCEPT !.at = "slot", !.i = @ + 1] ELSE BetweenRounds

(* add_elapse(1) and isready. *)
TimerElapse ==
  /\ timer.at = "slot"
  /\ LET s  == slots[timer.i]
         e  == IF s.inuse /\ s.elapse <= s.delay THEN s.elapse + 1 ELSE s.elapse
         up == s.inuse /\ e >= s.delay
     IN  /\ slots' = [slots EXCEPT ![timer.i].elapse = e,
                                   ![timer.i].inuse = s.inuse /\ ~(up /\ s.task = NoTask)]
         /\ timer' = IF up /\ s.task # NoTask THEN [timer EXCEPT !.at = "reset"] ELSE NextSlot
  /\ UNCHANGED <<pool, threads, size, call, calls, owner, snapshot, joining>>

(* get_timertask_and_reset returns a reference to the timer's task: *)
TimerReset ==
  /\ timer.at = "reset"
  /\ slots' = [slots EXCEPT ![timer.i].elapse = 0,
                            ![timer.i].inuse = @ /\ slots[timer.i].repeat]
  /\ timer' = [timer EXCEPT !.at = "push"]
  /\ UNCHANGED <<pool, threads, size, call, calls, owner, snapshot, joining>>

(* push_task copies what the reference refers to by now. *)
TimerPush ==
  /\ timer.at = "push"
  /\ tasks' = Append(tasks, slots[timer.i].task)
  /\ Notify(2)
  /\ timer' = NextSlot
  /\ UNCHANGED <<running, terminateall, threads, slots, size, call, calls, owner, snapshot, joining>>

-----------------------------------------------------------------------------
(* destroy_thread_pool. *)

(* Mutant: the workers are not notified. *)
TerminateAllSilently ==
  /\ owner \in {"up", "terminateagain"}
  /\ owner' = IF owner = "up" THEN "terminateagain" ELSE "join"
  /\ terminateall' = TRUE
  /\ tasks' = << >>
  /\ slots' = [i \in 1..Slots |-> [slots[i] EXCEPT !.task = NoTask]]
  /\ size' = 0
  /\ UNCHANGED <<running, worker, threads, timer, call, calls, snapshot, joining>>

(* terminateall, called by destroy_thread_pool and again by waittoterminate.  *)
TerminateAll ==
  /\ owner \in {"up", "terminateagain"}
  /\ owner' = IF owner = "up" THEN "terminateagain" ELSE "join"
  /\ terminateall' = TRUE
  /\ tasks' = << >>
  /\ slots' = [i \in 1..Slots |-> [slots[i] EXCEPT !.task = NoTask]]
  /\ size' = 0
  /\ worker' = [w \in Workers |-> IF worker[w] = "asleep" THEN "top" ELSE worker[w]]
  /\ UNCHANGED <<running, threads, timer, call, calls, snapshot, joining>>

JoinWorkers ==
  /\ owner = "join"
  /\ \A w \in Workers : worker[w] = "ended"
  /\ timer.at = "ended"
  /\ owner' = "copy"
  /\ UNCHANGED <<pool, threads, timers, call, calls, snapshot, joining>>

CopyNamed ==
  /\ owner = "copy"
  /\ snapshot' = {table[n] : n \in Names} \ {NoThread}
  /\ owner' = "named"
  /\ UNCHANGED <<pool, threads, timers, call, calls, joining>>

(* The threads of the copy one after the other: terminated, then joined. *)
EndNamedNext(o) ==
  /\ owner = "named" /\ o \in snapshot
  /\ TerminateThread(o)
  /\ joining' = o
  /\ snapshot' = snapshot \ {o}
  /\ owner' = "joinnamed"
  /\ UNCHANGED <<pool, table, alone_pids, alone, timers, call, calls>>

JoinNamed ==
  /\ owner = "joinnamed"
  /\ named[joining].at = "ended"
  /\ owner' = "named"
  /\ UNCHANGED <<pool, threads, timers, call, calls, snapshot, joining>>

(* The threads for long tasks get a signal; nobody waits for them. *)
DestroyDone ==
  /\ owner = "named" /\ snapshot = {}
  /\ running' = FALSE
  /\ owner' = "down"
  /\ UNCHANGED <<terminateall, tasks, worker, threads, timers, call, calls, snapshot, joining>>

-----------------------------------------------------------------------------
Call(c) ==
  \/ CallBegin(c)
  \/ QueueWork(c) \/ QueueAlone(c) \/ AloneReturn(c)
  \/ \E n \in Names : QueueNamed(c, n) \/ EndNamed(c, n)
  \/ QueueTimer(c) \/ DelTimer(c)

WorkerStep(w) == WorkerTake(w) \/ WorkerRun(w)

NamedStep(o) == NamedTake(o) \/ NamedRun(o) \/ NamedLeave(o)

AloneStep(t) == AloneStart(t) \/ AloneRun(t) \/ AloneErase(t)

TimerStep == TimerRound \/ TimerElapse \/ TimerReset \/ TimerPush

DestroyStep == JoinWorkers \/ CopyNamed \/ (\E o \in Thread : EndNamedNext(o)) \/ JoinNamed \/ DestroyDone

Next ==
  \/ \E c \in Callers : Call(c)
  \/ \E w \in Workers : WorkerStep(w) \/ WorkerWakes(w)
  \/ \E o \in 1..Len(named) : NamedStep(o)
  \/ \E t \in Task : AloneStep(t)
  \/ TimerStep
  \/ TerminateAll \/ DestroyStep

Spec == Init /\ [][Next]_vars

(* Threads that can run do run, tasks end, and destroy_thread_pool goes on    *)
(* once called; nobody has to call it, and no wait ends by itself.            *)
FairSpec ==
  /\ Spec
  /\ \A w \in Workers : WF_vars(WorkerStep(w))
  /\ \A o \in Thread : WF_vars(o <= Len(named) /\ NamedStep(o))
  /\ WF_vars(TimerStep)
  /\ WF_vars(owner # "up" /\ TerminateAll) /\ WF_vars(DestroyStep)

-----------------------------------------------------------------------------
(* The tasks of a name run one after the other: a thread that has lost its    *)
(* name to another, or has been taken out of the table, has run its last      *)
(* task.  What connections rely on, whose events are handled by the write     *)
(* thread of their loop without a lock.                                       *)
OneThreadPerName ==
  \A o \in 1..Len(named) : named[o].at # "ended" => table[named[o].name] = o

(* Each named thread is a TaskQueue: its tasks run in the order in which they *)
(* were accepted, each at most once, none after terminate_named_thread took   *)
(* effect.                                                                    *)
TheThread(o) ==
  IF o \in 1..Len(named) THEN named[o]
  ELSE [at |-> "top", terminate |-> FALSE, tasks |-> << >>, batch |-> << >>, lastrun |-> NoTask]

TQ(o) == INSTANCE TaskQueue WITH
  queue   <- TheThread(o).batch \o TheThread(o).tasks,
  lastrun <- TheThread(o).lastrun,
  stopped <- TheThread(o).at \in {"leave", "ended"}

NamedRefined ==
  /\ \A o \in Thread : TQ(o)!TQInit
  /\ [][\A o \in Thread : TQ(o)!TQNext \/ UNCHANGED TQ(o)!tqvars]_vars

(* When destroy_thread_pool has returned, no thread it waits for is left, and *)
(* none can come up: the static pool is destroyed next.                       *)
QuietAfterDestroy ==
  owner = "down" =>
    /\ \A w \in Workers : worker[w] = "ended"
    /\ timer.at = "ended"
    /\ \A o \in 1..Len(named) : named[o].at = "ended"

(* A task is not left lying while the pool lives: a worker takes what is      *)
(* queued, and a named thread what it was given, unless it is terminated.     *)
QueuesDrained ==
  /\ (tasks # << >>) ~> (tasks = << >> \/ terminateall)
  /\ \A n \in Names :
       (TheThread(table[n]).tasks # << >>)
         ~> (TheThread(table[n]).tasks = << >> \/ TheThread(table[n]).terminate)

(* destroy_thread_pool returns: every thread it joins hears of the end. *)
PoolEnds == (owner = "terminateagain") ~> (owner = "down")

=============================================================================
