------------------------- MODULE ThreadPool_proofs -------------------------
(***************************************************************************)
(* Proofs about ThreadPool, for any number of callers, workers, names,      *)
(* timers and calls: type correctness, one thread per name, nothing left    *)
(* when destroy_thread_pool has returned, and the refinement of TaskQueue   *)
(* by every named thread.                                                   *)
(***************************************************************************)
EXTENDS ThreadPool, SequenceTheorems, TLAPS

-----------------------------------------------------------------------------
(* A named thread has tasks in hand exactly while it runs them.              *)
InHand == \A o \in 1..Len(named) : named[o].at = "run" <=> named[o].batch # << >>

(* How far destroy_thread_pool has come: the flag, the workers and the timer *)
(* thread, and which named threads it has still to wait for.                 *)
Destroying ==
  /\ owner # "up" => terminateall
  /\ owner \in {"copy", "named", "joinnamed", "down"} =>
       (\A w \in Workers : worker[w] = "ended") /\ timer.at = "ended"
  /\ owner \in {"named", "joinnamed", "down"} =>
       \A o \in 1..Len(named) :
         named[o].at # "ended" => o \in snapshot \/ (owner = "joinnamed" /\ o = joining)
  /\ owner = "down" => snapshot = {}
  /\ snapshot \subseteq 1..Len(named)
  /\ owner = "joinnamed" => joining \in 1..Len(named)

PoolInv == TypeOK /\ OneThreadPerName /\ InHand /\ Destroying

-----------------------------------------------------------------------------
(* Operators. *)

LEMMA WokenType ==
  ASSUME NEW th \in NamedThread
  PROVE  /\ Woken(th) \in NamedThread
         /\ Woken(th).name = th.name /\ Woken(th).batch = th.batch
         /\ Woken(th).tasks = th.tasks /\ Woken(th).lastrun = th.lastrun
         /\ Woken(th).at = "ended" <=> th.at = "ended"
         /\ Woken(th).at = "run" <=> th.at = "run"
         /\ Woken(th).at = "leave" <=> th.at = "leave"
BY DEF Woken, NamedThread

LEMMA EndingType ==
  ASSUME NEW th \in NamedThread
  PROVE  /\ Ending(th) \in NamedThread
         /\ Ending(th).name = th.name /\ Ending(th).batch = th.batch
         /\ Ending(th).tasks = th.tasks /\ Ending(th).lastrun = th.lastrun
         /\ Ending(th).at = "ended" <=> th.at = "ended"
         /\ Ending(th).at = "run" <=> th.at = "run"
         /\ Ending(th).at = "leave" <=> th.at = "leave"
<1> DEFINE x == [th EXCEPT !.terminate = TRUE]
<1>1. /\ x \in NamedThread
      /\ x.name = th.name /\ x.batch = th.batch /\ x.tasks = th.tasks
      /\ x.lastrun = th.lastrun /\ x.at = th.at
  BY DEF NamedThread
<1> HIDE DEF x
<1>2. Ending(th) = Woken(x)
  BY DEF Ending, x
<1> QED BY <1>1, <1>2, WokenType

LEMMA GivenType ==
  ASSUME NEW th \in NamedThread, NEW t \in Task
  PROVE  /\ Given(th, t) \in NamedThread
         /\ Given(th, t).name = th.name /\ Given(th, t).batch = th.batch
         /\ Given(th, t).tasks = Append(th.tasks, t) /\ Given(th, t).lastrun = th.lastrun
         /\ Given(th, t).at = "ended" <=> th.at = "ended"
         /\ Given(th, t).at = "run" <=> th.at = "run"
         /\ Given(th, t).at = "leave" <=> th.at = "leave"
<1> DEFINE x == [th EXCEPT !.tasks = Append(th.tasks, t)]
<1>1. /\ x \in NamedThread
      /\ x.name = th.name /\ x.batch = th.batch /\ x.tasks = Append(th.tasks, t)
      /\ x.lastrun = th.lastrun /\ x.at = th.at
  BY DEF NamedThread
<1> HIDE DEF x
<1>2. Given(th, t) = Woken(x)
  BY DEF Given, x
<1> QED BY <1>1, <1>2, WokenType

(* One thread's record changes, or one is added.                             *)
LEMMA ThreadUpdate ==
  ASSUME NEW s \in Seq(NamedThread), NEW o \in 1..Len(s), NEW th \in NamedThread
  PROVE  /\ [s EXCEPT ![o] = th] \in Seq(NamedThread)
         /\ Len([s EXCEPT ![o] = th]) = Len(s)
         /\ [s EXCEPT ![o] = th][o] = th
         /\ \A p \in 1..Len(s) : p # o => [s EXCEPT ![o] = th][p] = s[p]
OBVIOUS

LEMMA ThreadAdded ==
  ASSUME NEW s \in Seq(NamedThread), NEW th \in NamedThread
  PROVE  /\ Append(s, th) \in Seq(NamedThread)
         /\ Len(Append(s, th)) = Len(s) + 1
         /\ Append(s, th)[Len(s) + 1] = th
         /\ \A p \in 1..Len(s) : Append(s, th)[p] = s[p]
OBVIOUS

-----------------------------------------------------------------------------
(* What a step may do to the named threads.                                  *)
SameThreads == UNCHANGED <<table, named>>

AddThread(n, t) ==
  /\ ~terminateall /\ table[n] = NoThread /\ Len(named) < MaxNamed
  /\ named' = Append(named, NewNamedThread(n, t))
  /\ table' = [table EXCEPT ![n] = Len(named) + 1]

PushTask(o, t) ==
  /\ named' = [named EXCEPT ![o] = Given(named[o], t)]
  /\ UNCHANGED table

EndThread(o) ==
  /\ named' = [named EXCEPT ![o] = Ending(named[o])]
  /\ UNCHANGED table

ThreadStep ==
  \/ SameThreads
  \/ \E n \in Names, t \in Task : AddThread(n, t)
  \/ \E o \in 1..Len(named), t \in Task : PushTask(o, t)
  \/ \E o \in 1..Len(named) : EndThread(o) \/ NamedStep(o)

LEMMA TableType ==
  ASSUME TypeOK, NEW n \in Names, table[n] # NoThread
  PROVE  table[n] \in 1..Len(named)
BY ThreadPoolAssumption DEF TypeOK, Thread, NoThread

LEMMA ThreadSteps ==
  ASSUME PoolInv, [Next]_vars
  PROVE  ThreadStep
<1> USE DEF PoolInv, pool, threads, timers
<1>1. ASSUME NEW c \in Callers, NEW n \in Names, QueueNamed(c, n)
      PROVE  ThreadStep
  <2> DEFINE o == table[n]
             t == call[c].task
  <2>1. t \in Task
    BY <1>1 DEF QueueNamed, TypeOK
  <2>2. CASE SameThreads
    BY <2>2 DEF ThreadStep
  <2>3. CASE /\ ~terminateall /\ o = NoThread /\ Len(named) < MaxNamed
             /\ named' = Append(named, NewNamedThread(n, t))
             /\ table' = [table EXCEPT ![n] = Len(named) + 1]
    BY <2>1, <2>3 DEF ThreadStep, AddThread
  <2>4. CASE /\ ~terminateall /\ o # NoThread
             /\ named' = [named EXCEPT ![o] = Given(named[o], t)]
             /\ UNCHANGED table
    <3>1. o \in 1..Len(named)
      BY <2>4, TableType
    <3>2. PushTask(o, t)
      BY <2>4 DEF PushTask
    <3> HIDE DEF o, t
    <3> QED BY <2>1, <3>1, <3>2 DEF ThreadStep
  <2> QED BY <1>1, <2>2, <2>3, <2>4 DEF QueueNamed, SameThreads
<1>2. ASSUME NEW o \in 1..Len(named), TerminateThread(o), UNCHANGED table
      PROVE  ThreadStep
  BY <1>2 DEF TerminateThread, ThreadStep, EndThread
<1>3. ASSUME NEW c \in Callers, NEW n \in Names, EndNamed(c, n)
      PROVE  ThreadStep
  <2>1. CASE table[n] = NoThread
    BY <1>3, <2>1 DEF EndNamed, ThreadStep, SameThreads
  <2>2. CASE table[n] # NoThread
    BY <1>2, <1>3, <2>2, TableType DEF EndNamed
  <2> QED BY <2>1, <2>2
<1>4. ASSUME NEW c \in Callers,
             CallBegin(c) \/ QueueWork(c) \/ QueueAlone(c) \/ AloneReturn(c) \/ QueueTimer(c) \/ DelTimer(c)
      PROVE  SameThreads
  BY <1>4 DEF CallBegin, QueueWork, QueueAlone, AloneReturn, QueueTimer, DelTimer, SameThreads
<1>5. ASSUME NEW w \in Workers, WorkerStep(w) \/ WorkerWakes(w)
      PROVE  SameThreads
  BY <1>5 DEF WorkerStep, WorkerTake, WorkerRun, WorkerWakes, SameThreads
<1>6. ASSUME NEW t \in Task, AloneStep(t)
      PROVE  SameThreads
  BY <1>6 DEF AloneStep, AloneStart, AloneRun, AloneErase, SameThreads
<1>7. CASE TimerStep
  BY <1>7 DEF TimerStep, TimerRound, TimerElapse, TimerReset, TimerPush, SameThreads, ThreadStep
<1>8. CASE TerminateAll \/ JoinWorkers \/ CopyNamed \/ JoinNamed \/ DestroyDone
  BY <1>8 DEF TerminateAll, JoinWorkers, CopyNamed, JoinNamed, DestroyDone, SameThreads, ThreadStep
<1>9. ASSUME NEW o \in Thread, EndNamedNext(o)
      PROVE  ThreadStep
  BY <1>2, <1>9 DEF EndNamedNext, Destroying
<1>10. CASE UNCHANGED vars
  BY <1>10 DEF vars, SameThreads, ThreadStep
<1> QED BY <1>1, <1>3, <1>4, <1>5, <1>6, <1>7, <1>8, <1>9, <1>10
        DEF Next, Call, DestroyStep, ThreadStep

(* A new thread waits at the top of its loop with the task it was made for.  *)
LEMMA NewThreadType ==
  ASSUME NEW n \in Names, NEW t \in Task
  PROVE  /\ NewNamedThread(n, t) \in NamedThread
         /\ NewNamedThread(n, t).name = n /\ NewNamedThread(n, t).at = "top"
         /\ NewNamedThread(n, t).batch = << >> /\ NewNamedThread(n, t).tasks = <<t>>
         /\ NewNamedThread(n, t).lastrun = NoTask
BY DEF NewNamedThread, NamedThread

(* A step of a thread: what its own record becomes.                          *)
Taken(th) ==
  IF th.terminate THEN [th EXCEPT !.at = "leave"]
  ELSE IF th.tasks = << >> THEN [th EXCEPT !.at = "asleep"]
  ELSE [th EXCEPT !.at = "run", !.batch = th.tasks, !.tasks = << >>]

AfterTask(th) ==
  [th EXCEPT !.batch = Tail(@), !.lastrun = Head(th.batch),
             !.at = IF Tail(th.batch) = << >> THEN "top" ELSE "run"]

Gone(th) == [th EXCEPT !.at = "ended", !.terminate = TRUE]

LEMMA OwnSteps ==
  ASSUME named \in Seq(NamedThread), NEW o \in 1..Len(named), NamedStep(o)
  PROVE  \/ /\ named[o].at = "top" /\ UNCHANGED table
            /\ named' = [named EXCEPT ![o] = Taken(named[o])]
         \/ /\ named[o].at = "run" /\ UNCHANGED table
            /\ named' = [named EXCEPT ![o] = AfterTask(named[o])]
         \/ /\ named[o].at = "leave"
            /\ table' = [table EXCEPT ![named[o].name] = NoThread]
            /\ named' = [named EXCEPT ![o] = Gone(named[o])]
<1>0. named[o] \in NamedThread
  OBVIOUS
<1>1. CASE NamedTake(o)
  BY <1>0, <1>1 DEF NamedTake, Taken, NamedThread
<1>2. CASE NamedRun(o)
  BY <1>0, <1>2 DEF NamedRun, AfterTask, NamedThread
<1>3. CASE NamedLeave(o)
  BY <1>0, <1>3 DEF NamedLeave, Gone, NamedThread
<1> QED BY <1>1, <1>2, <1>3 DEF NamedStep

LEMMA OwnTypes ==
  ASSUME NEW th \in NamedThread
  PROVE  /\ Taken(th) \in NamedThread /\ Taken(th).name = th.name
         /\ Taken(th).at \in {"leave", "asleep", "run"}
         /\ Taken(th).lastrun = th.lastrun
         /\ th.batch = << >> =>
              /\ Taken(th).at = "run" <=> Taken(th).batch # << >>
              /\ Taken(th).batch \o Taken(th).tasks = th.batch \o th.tasks
         /\ th.batch # << >> =>
              /\ AfterTask(th) \in NamedThread /\ AfterTask(th).name = th.name
              /\ AfterTask(th).at = "run" <=> AfterTask(th).batch # << >>
              /\ AfterTask(th).at \in {"top", "run"}
              /\ AfterTask(th).batch = Tail(th.batch) /\ AfterTask(th).tasks = th.tasks
              /\ AfterTask(th).lastrun = Head(th.batch)
         /\ Gone(th) \in NamedThread /\ Gone(th).name = th.name /\ Gone(th).at = "ended"
         /\ Gone(th).batch = th.batch /\ Gone(th).tasks = th.tasks /\ Gone(th).lastrun = th.lastrun
<1>0. th.tasks \in Seq(Task) /\ th.batch \in Seq(Task)
  BY DEF NamedThread
<1>1. /\ Taken(th) \in NamedThread /\ Taken(th).name = th.name
      /\ Taken(th).at \in {"leave", "asleep", "run"} /\ Taken(th).lastrun = th.lastrun
      /\ th.batch = << >> => (Taken(th).at = "run" <=> Taken(th).batch # << >>)
  <2> USE DEF NamedThread
  <2>1. CASE th.terminate
    BY <2>1 DEF Taken
  <2>2. CASE ~th.terminate /\ th.tasks = << >>
    BY <2>2 DEF Taken
  <2>3. CASE ~th.terminate /\ th.tasks # << >>
    <3>1. Taken(th) = [name |-> th.name, at |-> "run", terminate |-> th.terminate,
                       tasks |-> << >>, batch |-> th.tasks, lastrun |-> th.lastrun]
      BY <2>3 DEF Taken
    <3>2. << >> \in Seq(Task)
      OBVIOUS
    <3> QED BY <1>0, <2>3, <3>1, <3>2
  <2> QED BY <2>1, <2>2, <2>3
<1>2. ASSUME th.batch = << >>
      PROVE  Taken(th).batch \o Taken(th).tasks = th.batch \o th.tasks
  <2>1. \/ Taken(th).batch = th.batch /\ Taken(th).tasks = th.tasks
        \/ Taken(th).batch = th.tasks /\ Taken(th).tasks = << >>
    BY DEF Taken, NamedThread
  <2> QED BY <1>0, <1>2, <2>1, ConcatEmptySeq
<1>3. ASSUME th.batch # << >>
      PROVE  /\ AfterTask(th) \in NamedThread /\ AfterTask(th).name = th.name
             /\ AfterTask(th).at = "run" <=> AfterTask(th).batch # << >>
             /\ AfterTask(th).at \in {"top", "run"}
             /\ AfterTask(th).batch = Tail(th.batch) /\ AfterTask(th).tasks = th.tasks
             /\ AfterTask(th).lastrun = Head(th.batch)
  <2>1. Tail(th.batch) \in Seq(Task) /\ Head(th.batch) \in Task
    BY <1>0, <1>3
  <2> QED BY <2>1 DEF AfterTask, NamedThread
<1>4. /\ Gone(th) \in NamedThread /\ Gone(th).name = th.name /\ Gone(th).at = "ended"
      /\ Gone(th).batch = th.batch /\ Gone(th).tasks = th.tasks /\ Gone(th).lastrun = th.lastrun
  BY DEF Gone, NamedThread
<1> QED BY <1>1, <1>2, <1>3, <1>4

-----------------------------------------------------------------------------
(* Every name's thread and every thread's record keep their types.           *)
LEMMA NamedTypeStep ==
  ASSUME PoolInv, [Next]_vars
  PROVE  /\ table' \in [Names -> Thread \cup {NoThread}]
         /\ named' \in Seq(NamedThread) /\ Len(named') <= MaxNamed
         /\ Len(named) <= Len(named')
         /\ \A n \in Names : table'[n] <= Len(named')
<1> DEFINE Good == /\ table' \in [Names -> Thread \cup {NoThread}]
                   /\ named' \in Seq(NamedThread) /\ Len(named') <= MaxNamed
                   /\ Len(named) <= Len(named')
                   /\ \A n \in Names : table'[n] <= Len(named')
<1>0. /\ table \in [Names -> Thread \cup {NoThread}]
      /\ named \in Seq(NamedThread) /\ Len(named) <= MaxNamed
      /\ \A n \in Names : table[n] <= Len(named)
      /\ MaxNamed \in Nat /\ Len(named) \in Nat
  BY ThreadPoolAssumption DEF PoolInv, TypeOK
<1>1. CASE SameThreads
  BY <1>0, <1>1 DEF SameThreads
<1>2. ASSUME NEW n \in Names, NEW t \in Task, AddThread(n, t)
      PROVE  Good
  <2>1. named' \in Seq(NamedThread) /\ Len(named') = Len(named) + 1
    BY <1>0, <1>2, NewThreadType, ThreadAdded DEF AddThread
  <2>2. Len(named) + 1 \in Thread
    BY <1>0, <1>2 DEF AddThread, Thread
  <2> QED BY <1>0, <1>2, <2>1, <2>2 DEF AddThread, Thread, NoThread
<1>3. ASSUME NEW o \in 1..Len(named), NEW th \in NamedThread,
             named' = [named EXCEPT ![o] = th],
             UNCHANGED table \/ \E n \in Names : table' = [table EXCEPT ![n] = NoThread]
      PROVE  Good
  <2>1. named' \in Seq(NamedThread) /\ Len(named') = Len(named)
    BY <1>0, <1>3, ThreadUpdate
  <2> QED BY <1>0, <1>3, <2>1 DEF Thread, NoThread
<1>4. ASSUME NEW o \in 1..Len(named), NEW t \in Task, PushTask(o, t)
      PROVE  Good
  <2>1. named[o] \in NamedThread
    BY <1>0
  <2> QED BY <1>3, <1>4, <2>1, GivenType DEF PushTask
<1>5. ASSUME NEW o \in 1..Len(named), EndThread(o)
      PROVE  Good
  <2>1. named[o] \in NamedThread
    BY <1>0
  <2> QED BY <1>3, <1>5, <2>1, EndingType DEF EndThread
<1>6. ASSUME NEW o \in 1..Len(named), NamedStep(o)
      PROVE  Good
  <2>0. named[o] \in NamedThread
    BY <1>0
  <2>1. named[o] \in NamedThread /\ named[o].name \in Names
    BY <2>0 DEF NamedThread
  <2>2. /\ Taken(named[o]) \in NamedThread /\ Gone(named[o]) \in NamedThread
        /\ named[o].at = "run" => AfterTask(named[o]) \in NamedThread
    BY <2>1, OwnTypes DEF PoolInv, InHand
  <2> QED BY <1>0, <1>3, <1>6, <2>1, <2>2, OwnSteps
<1> QED BY <1>1, <1>2, <1>4, <1>5, <1>6, ThreadSteps DEF ThreadStep

(* A thread keeps its name while it lives, and nobody else gets it.          *)
LEMMA OneThreadStep ==
  ASSUME PoolInv, [Next]_vars
  PROVE  OneThreadPerName' /\ InHand'
<1> DEFINE Good == OneThreadPerName' /\ InHand'
<1>a. /\ table \in [Names -> Thread \cup {NoThread}]
      /\ named \in Seq(NamedThread) /\ Len(named) \in Nat
  BY DEF PoolInv, TypeOK
<1>b. \A o \in 1..Len(named) : named[o] \in NamedThread /\ o # NoThread
  BY <1>a DEF NoThread
<1>c. \A th \in NamedThread : th.name \in Names
  BY DEF NamedThread
<1>0. /\ table \in [Names -> Thread \cup {NoThread}]
      /\ named \in Seq(NamedThread) /\ Len(named) \in Nat
      /\ \A o \in 1..Len(named) : named[o] \in NamedThread /\ named[o].name \in Names
      /\ \A o \in 1..Len(named) : o # NoThread
  BY <1>a, <1>b, <1>c
<1>1. CASE SameThreads
  BY <1>1 DEF SameThreads, PoolInv, OneThreadPerName, InHand
<1>2. ASSUME NEW n \in Names, NEW t \in Task, AddThread(n, t)
      PROVE  Good
  <2>1. /\ Len(named') = Len(named) + 1
        /\ named'[Len(named) + 1].name = n /\ named'[Len(named) + 1].at = "top"
        /\ named'[Len(named) + 1].batch = << >>
        /\ \A p \in 1..Len(named) : named'[p] = named[p]
    BY <1>0, <1>2, NewThreadType, ThreadAdded DEF AddThread
  <2>2. \A p \in 1..Len(named) : named[p].at # "ended" => named[p].name # n
    BY <1>0, <1>2 DEF AddThread, PoolInv, OneThreadPerName
  <2>3. table'[n] = Len(named) + 1 /\ \A m \in Names : m # n => table'[m] = table[m]
    BY <1>0, <1>2 DEF AddThread
  <2>4. \A p \in 1..Len(named') : p \in 1..Len(named) \/ p = Len(named) + 1
    BY <1>0, <2>1
  <2>5. OneThreadPerName'
    BY <1>0, <2>1, <2>2, <2>3, <2>4 DEF PoolInv, OneThreadPerName
  <2>6. InHand'
    BY <2>1, <2>4 DEF PoolInv, InHand
  <2> QED BY <2>5, <2>6
<1>3. ASSUME NEW o \in 1..Len(named), NEW th \in NamedThread,
             named' = [named EXCEPT ![o] = th], th.name = named[o].name,
             th.at = "run" <=> th.batch # << >>,
             \/ UNCHANGED table /\ (named[o].at = "ended" => th.at = "ended")
             \/ /\ table' = [table EXCEPT ![named[o].name] = NoThread]
                /\ named[o].at # "ended" /\ th.at = "ended"
      PROVE  Good
  <2>1. /\ Len(named') = Len(named) /\ named'[o] = th
        /\ \A p \in 1..Len(named) : p # o => named'[p] = named[p]
    BY <1>0, <1>3, ThreadUpdate
  <2>2. InHand'
    BY <1>3, <2>1 DEF PoolInv, InHand
  <2>3. CASE UNCHANGED table /\ (named[o].at = "ended" => th.at = "ended")
    BY <1>3, <2>1, <2>2, <2>3 DEF PoolInv, OneThreadPerName
  <2>4. CASE /\ table' = [table EXCEPT ![named[o].name] = NoThread]
             /\ named[o].at # "ended" /\ th.at = "ended"
    <3>1. \A p \in 1..Len(named) : p # o /\ named[p].at # "ended" => named[p].name # named[o].name
      BY <2>4 DEF PoolInv, OneThreadPerName
    <3>2. \A m \in Names : m # named[o].name => table'[m] = table[m]
      BY <1>0, <2>4
    <3> QED BY <1>0, <2>1, <2>2, <2>4, <3>1, <3>2 DEF PoolInv, OneThreadPerName
  <2> QED BY <1>3, <2>3, <2>4
<1>4. ASSUME NEW o \in 1..Len(named), NEW t \in Task, PushTask(o, t)
      PROVE  Good
  <2>1. named[o] \in NamedThread /\ (named[o].at = "run" <=> named[o].batch # << >>)
    BY <1>0 DEF PoolInv, InHand
  <2> DEFINE th == Given(named[o], t)
  <2>2. /\ th \in NamedThread /\ th.name = named[o].name
        /\ th.at = "run" <=> th.batch # << >>
        /\ named[o].at = "ended" => th.at = "ended"
    BY <2>1, GivenType
  <2>3. named' = [named EXCEPT ![o] = th] /\ UNCHANGED table
    BY <1>4 DEF PushTask
  <2> QED BY <1>3, <2>2, <2>3
<1>5. ASSUME NEW o \in 1..Len(named), EndThread(o)
      PROVE  Good
  <2>1. named[o] \in NamedThread /\ (named[o].at = "run" <=> named[o].batch # << >>)
    BY <1>0 DEF PoolInv, InHand
  <2> QED BY <1>3, <1>5, <2>1, EndingType DEF EndThread
<1>6. ASSUME NEW o \in 1..Len(named), NamedStep(o)
      PROVE  Good
  <2>1. named[o] \in NamedThread /\ (named[o].at = "run" <=> named[o].batch # << >>)
    BY <1>0 DEF PoolInv, InHand
  <2>2. CASE named[o].at = "top" /\ UNCHANGED table /\ named' = [named EXCEPT ![o] = Taken(named[o])]
    BY <1>3, <2>1, <2>2, OwnTypes
  <2>3. CASE named[o].at = "run" /\ UNCHANGED table /\ named' = [named EXCEPT ![o] = AfterTask(named[o])]
    BY <1>3, <2>1, <2>3, OwnTypes
  <2>4. CASE /\ named[o].at = "leave" /\ table' = [table EXCEPT ![named[o].name] = NoThread]
             /\ named' = [named EXCEPT ![o] = Gone(named[o])]
    BY <1>3, <2>1, <2>4, OwnTypes
  <2> QED BY <1>0, <1>6, <2>2, <2>3, <2>4, OwnSteps
<1> QED BY <1>1, <1>2, <1>4, <1>5, <1>6, ThreadSteps DEF ThreadStep

-----------------------------------------------------------------------------
(* The workers, the threads for long tasks, the timers and the callers.      *)

LEMMA NotifyType ==
  ASSUME worker \in [Workers -> {"top", "asleep", "run", "ended"}], NEW k, Notify(k)
  PROVE  /\ worker' \in [Workers -> {"top", "asleep", "run", "ended"}]
         /\ \A w \in Workers : worker[w] = "ended" => worker'[w] = "ended"
BY DEF Notify, Asleep

LEMMA NextSlotType ==
  ASSUME timer \in [at : {"wait", "slot", "reset", "push", "ended"}, i : 1..Slots]
  PROVE  NextSlot \in [at : {"wait", "slot", "reset", "push", "ended"}, i : 1..Slots]
<1>1. Slots \in Nat \ {0} /\ timer.i \in 1..Slots
  BY ThreadPoolAssumption
<1>2. CASE timer.i < Slots
  <2>1. timer.i + 1 \in 1..Slots
    BY <1>1, <1>2
  <2>2. NextSlot = [at |-> "slot", i |-> timer.i + 1]
    BY <1>2 DEF NextSlot
  <2> QED BY <2>1, <2>2
<1>3. CASE ~(timer.i < Slots)
  BY <1>1, <1>3 DEF NextSlot, BetweenRounds
<1> QED BY <1>2, <1>3

(* What is left of TypeOK, without the named threads.                        *)
PoolType ==
  /\ running \in BOOLEAN /\ terminateall \in BOOLEAN
  /\ tasks \in Seq(Task \cup {NoTask})
  /\ worker \in [Workers -> {"top", "asleep", "run", "ended"}]

AloneType ==
  /\ alone_pids \subseteq Task
  /\ alone \in [Task -> {"none", "start", "run", "erase", "ended"}]

TimerType ==
  /\ slots \in [1..Slots -> Timer]
  /\ size \in {0, Slots}
  /\ timer \in [at : {"wait", "slot", "reset", "push", "ended"}, i : 1..Slots]

CallType ==
  /\ call \in [Callers -> [op : OpKinds \cup {"none", "return"}, task : Task \cup {NoTask}]]
  /\ \A c \in Callers : call[c].op # "none" => call[c].task \in Task
  /\ calls \in 0..MaxCalls

OwnerType ==
  /\ owner \in {"up", "terminateagain", "join", "copy", "named", "joinnamed", "down"}
  /\ snapshot \subseteq Thread
  /\ joining \in Thread \cup {NoThread}

LEMMA CallTypeStep ==
  ASSUME TypeOK, [Next]_vars
  PROVE  CallType'
<1> USE ThreadPoolAssumption DEF pool, threads, timers
<1>0. CallType
  BY DEF TypeOK, CallType
<1>1. ASSUME UNCHANGED <<call, calls>>
      PROVE  CallType'
  BY <1>0, <1>1 DEF CallType
<1>2. ASSUME NEW c \in Callers, Return(c), UNCHANGED calls
      PROVE  CallType'
  BY <1>0, <1>2 DEF CallType, Return, Idle
<1>3. ASSUME NEW c \in Callers, CallBegin(c)
      PROVE  CallType'
  <2>1. PICK op \in Ops[c] : call' = [call EXCEPT ![c] = [op |-> op, task |-> calls + 1]]
    BY <1>3 DEF CallBegin
  <2>2. op \in OpKinds /\ calls + 1 \in Task /\ calls' \in 0..MaxCalls
    BY <1>0, <1>3 DEF CallBegin, CallType, Task
  <2> QED BY <1>0, <2>1, <2>2 DEF CallType
<1>4. ASSUME NEW c \in Callers, QueueAlone(c)
      PROVE  CallType'
  <2>1. CASE call' = [call EXCEPT ![c].op = "return"]
    BY <1>0, <1>4, <2>1 DEF CallType, QueueAlone
  <2> QED BY <1>2, <1>4, <2>1 DEF QueueAlone
<1>5. ASSUME NEW c \in Callers, Call(c)
      PROVE  CallType'
  BY <1>2, <1>3, <1>4, <1>5
     DEF Call, QueueWork, AloneReturn, QueueNamed, EndNamed, QueueTimer, DelTimer
<1>6. ASSUME NEW w \in Workers, WorkerStep(w) \/ WorkerWakes(w)
      PROVE  CallType'
  BY <1>1, <1>6 DEF WorkerStep, WorkerTake, WorkerRun, WorkerWakes
<1>7. ASSUME NEW o \in 1..Len(named), NamedStep(o)
      PROVE  CallType'
  BY <1>1, <1>7 DEF NamedStep, NamedTake, NamedRun, NamedLeave
<1>8. ASSUME NEW t \in Task, AloneStep(t)
      PROVE  CallType'
  BY <1>1, <1>8 DEF AloneStep, AloneStart, AloneRun, AloneErase
<1>9. CASE TimerStep
  BY <1>1, <1>9 DEF TimerStep, TimerRound, TimerElapse, TimerReset, TimerPush
<1>10. CASE TerminateAll \/ DestroyStep
  BY <1>1, <1>10 DEF TerminateAll, DestroyStep, JoinWorkers, CopyNamed, EndNamedNext, JoinNamed, DestroyDone
<1>11. CASE UNCHANGED vars
  BY <1>1, <1>11 DEF vars
<1> QED BY <1>5, <1>6, <1>7, <1>8, <1>9, <1>10, <1>11 DEF Next

LEMMA PoolTypeStep ==
  ASSUME TypeOK, [Next]_vars
  PROVE  /\ PoolType'
         /\ \A w \in Workers : worker[w] = "ended" => worker'[w] = "ended"
<1> DEFINE Good == /\ PoolType'
                   /\ \A w \in Workers : worker[w] = "ended" => worker'[w] = "ended"
<1> USE DEF threads, timers
<1>0. PoolType
  BY DEF TypeOK, PoolType
<1>1. ASSUME UNCHANGED pool
      PROVE  Good
  BY <1>0, <1>1 DEF PoolType, pool
<1>2. ASSUME NEW c \in Callers, QueueWork(c)
      PROVE  Good
  <2>1. Append(tasks, call[c].task) \in Seq(Task \cup {NoTask})
    <3>1. call[c].task \in Task
      BY <1>2 DEF QueueWork, TypeOK
    <3> QED BY <1>0, <3>1 DEF PoolType
  <2> QED BY <1>0, <1>2, <2>1, NotifyType DEF QueueWork, PoolType
<1>3. ASSUME NEW c \in Callers, Call(c), ~QueueWork(c)
      PROVE  Good
  BY <1>1, <1>3 DEF Call, CallBegin, QueueAlone, AloneReturn, QueueNamed, EndNamed, QueueTimer, DelTimer
<1>4. ASSUME NEW w \in Workers, WorkerStep(w) \/ WorkerWakes(w)
      PROVE  Good
  <2>1. tasks' \in Seq(Task \cup {NoTask})
    BY <1>0, <1>4 DEF WorkerStep, WorkerTake, WorkerRun, WorkerWakes, PoolType
  <2> QED BY <1>0, <1>4, <2>1 DEF WorkerStep, WorkerTake, WorkerRun, WorkerWakes, PoolType
<1>5. ASSUME NEW o \in 1..Len(named), NamedStep(o)
      PROVE  Good
  BY <1>1, <1>5 DEF NamedStep, NamedTake, NamedRun, NamedLeave
<1>6. ASSUME NEW t \in Task, AloneStep(t)
      PROVE  Good
  BY <1>1, <1>6 DEF AloneStep, AloneStart, AloneRun, AloneErase
<1>7. CASE TimerPush
  <2>1. Append(tasks, slots[timer.i].task) \in Seq(Task \cup {NoTask})
    <3>1. timer.i \in 1..Slots /\ slots[timer.i] \in Timer
      BY DEF TypeOK
    <3>2. slots[timer.i].task \in Task \cup {NoTask}
      BY <3>1 DEF Timer
    <3> QED BY <1>0, <3>2 DEF PoolType
  <2> QED BY <1>0, <1>7, <2>1, NotifyType DEF TimerPush, PoolType
<1>8. CASE TimerRound \/ TimerElapse \/ TimerReset
  BY <1>1, <1>8 DEF TimerRound, TimerElapse, TimerReset
<1>9. CASE TerminateAll
  <2>1. << >> \in Seq(Task \cup {NoTask})
    OBVIOUS
  <2> QED BY <1>0, <1>9, <2>1 DEF TerminateAll, PoolType
<1>10. CASE DestroyStep
  BY <1>0, <1>1, <1>10 DEF DestroyStep, JoinWorkers, CopyNamed, EndNamedNext, JoinNamed, DestroyDone, PoolType, pool
<1>11. CASE UNCHANGED vars
  BY <1>1, <1>11 DEF vars
<1> QED BY <1>2, <1>3, <1>4, <1>5, <1>6, <1>7, <1>8, <1>9, <1>10, <1>11 DEF Next, TimerStep

LEMMA AloneTypeStep ==
  ASSUME TypeOK, [Next]_vars
  PROVE  AloneType'
<1> USE DEF pool, threads, timers
<1>0. AloneType
  BY DEF TypeOK, AloneType
<1>1. ASSUME UNCHANGED <<alone_pids, alone>>
      PROVE  AloneType'
  BY <1>0, <1>1 DEF AloneType
<1>2. ASSUME NEW c \in Callers, QueueAlone(c)
      PROVE  AloneType'
  <2>1. call[c].task \in Task
    BY <1>2 DEF QueueAlone, TypeOK
  <2> QED BY <1>0, <1>2, <2>1 DEF QueueAlone, AloneType
<1>3. ASSUME NEW c \in Callers, Call(c), ~QueueAlone(c)
      PROVE  AloneType'
  BY <1>1, <1>3 DEF Call, CallBegin, QueueWork, AloneReturn, QueueNamed, EndNamed, QueueTimer, DelTimer
<1>4. ASSUME NEW w \in Workers, WorkerStep(w) \/ WorkerWakes(w)
      PROVE  AloneType'
  BY <1>1, <1>4 DEF WorkerStep, WorkerTake, WorkerRun, WorkerWakes
<1>5. ASSUME NEW o \in 1..Len(named), NamedStep(o)
      PROVE  AloneType'
  BY <1>1, <1>5 DEF NamedStep, NamedTake, NamedRun, NamedLeave
<1>6. ASSUME NEW t \in Task, AloneStep(t)
      PROVE  AloneType'
  BY <1>0, <1>6 DEF AloneStep, AloneStart, AloneRun, AloneErase, AloneType
<1>7. CASE TimerStep
  BY <1>1, <1>7 DEF TimerStep, TimerRound, TimerElapse, TimerReset, TimerPush
<1>8. CASE TerminateAll \/ DestroyStep
  BY <1>1, <1>8 DEF TerminateAll, DestroyStep, JoinWorkers, CopyNamed, EndNamedNext, JoinNamed, DestroyDone
<1>9. CASE UNCHANGED vars
  BY <1>1, <1>9 DEF vars
<1> QED BY <1>2, <1>3, <1>4, <1>5, <1>6, <1>7, <1>8, <1>9 DEF Next

(* A timer's entry after its time has moved, and after it was deleted.       *)
LEMMA TimerUpdate ==
  ASSUME NEW s \in Timer, NEW e \in Nat, NEW b \in BOOLEAN
  PROVE  /\ [s EXCEPT !.elapse = e, !.inuse = b] \in Timer
         /\ [s EXCEPT !.elapse = 0, !.task = NoTask, !.inuse = FALSE] \in Timer
         /\ s.elapse \in Nat
<1>1. [s EXCEPT !.elapse = e, !.inuse = b] \in Timer
  BY DEF Timer
<1>2. [s EXCEPT !.elapse = 0, !.task = NoTask, !.inuse = FALSE] \in Timer
  BY DEF Timer
<1>3. s.elapse \in Nat
  BY DEF Timer
<1> QED BY <1>1, <1>2, <1>3

LEMMA TimerTypeStep ==
  ASSUME TypeOK, [Next]_vars
  PROVE  TimerType' /\ (timer.at = "ended" => timer'.at = "ended")
<1> DEFINE Good == TimerType' /\ (timer.at = "ended" => timer'.at = "ended")
<1> USE DEF pool, threads
<1>0. TimerType
  BY DEF TypeOK, TimerType
<1>a. timer.i \in 1..Slots /\ slots[timer.i] \in Timer
  BY <1>0 DEF TimerType
<1>1. ASSUME UNCHANGED timers
      PROVE  Good
  BY <1>0, <1>1 DEF TimerType, timers
<1>2. ASSUME NEW c \in Callers, QueueTimer(c)
      PROVE  Good
  <2>1. call[c].task \in Task
    BY <1>2 DEF QueueTimer, TypeOK
  <2>2. CASE UNCHANGED slots
    BY <1>1, <1>2, <2>2 DEF QueueTimer, timers
  <2>3. ASSUME NEW i \in FreeSlots, NEW d \in Delays, NEW r \in BOOLEAN,
               slots' = [slots EXCEPT ![i] = [task |-> call[c].task, id |-> call[c].task, delay |-> d,
                                              elapse |-> 0, inuse |-> TRUE, repeat |-> r]]
        PROVE  Good
    <3>1. [task |-> call[c].task, id |-> call[c].task, delay |-> d,
           elapse |-> 0, inuse |-> TRUE, repeat |-> r] \in Timer
      BY <2>1, <2>3 DEF Timer
    <3> QED BY <1>0, <1>2, <2>3, <3>1 DEF QueueTimer, TimerType
  <2> QED BY <1>2, <2>2, <2>3 DEF QueueTimer
<1>3. ASSUME NEW c \in Callers, DelTimer(c)
      PROVE  Good
  <2>1. \A i \in 1..Slots : [slots[i] EXCEPT !.elapse = 0, !.task = NoTask, !.inuse = FALSE] \in Timer
    <3>1. \A i \in 1..Slots : slots[i] \in Timer
      BY <1>0 DEF TimerType
    <3> QED BY <3>1, TimerUpdate
  <2>2. slots' \in [1..Slots -> Timer]
    BY <1>0, <1>3, <2>1 DEF DelTimer, TimerType
  <2> QED BY <1>0, <1>3, <2>2 DEF DelTimer, TimerType
<1>4. ASSUME NEW c \in Callers, Call(c), ~QueueTimer(c), ~DelTimer(c)
      PROVE  Good
  BY <1>1, <1>4 DEF Call, CallBegin, QueueWork, QueueAlone, AloneReturn, QueueNamed, EndNamed
<1>5. ASSUME NEW w \in Workers, WorkerStep(w) \/ WorkerWakes(w)
      PROVE  Good
  BY <1>1, <1>5 DEF WorkerStep, WorkerTake, WorkerRun, WorkerWakes
<1>6. ASSUME NEW o \in 1..Len(named), NamedStep(o)
      PROVE  Good
  BY <1>1, <1>6 DEF NamedStep, NamedTake, NamedRun, NamedLeave
<1>7. ASSUME NEW t \in Task, AloneStep(t)
      PROVE  Good
  BY <1>1, <1>7 DEF AloneStep, AloneStart, AloneRun, AloneErase
<1>8. CASE TimerRound
  BY <1>0, <1>8 DEF TimerRound, TimerType
<1>9. CASE TimerElapse
  <2> DEFINE s  == slots[timer.i]
             e  == IF s.inuse /\ s.elapse <= s.delay THEN s.elapse + 1 ELSE s.elapse
             up == s.inuse /\ e >= s.delay
  <2>2. slots' = [slots EXCEPT ![timer.i] = [s EXCEPT !.elapse = e,
                                                     !.inuse = s.inuse /\ ~(up /\ s.task = NoTask)]]
    <3>1. /\ slots' = [slots EXCEPT ![timer.i].elapse = e,
                                    ![timer.i].inuse = s.inuse /\ ~(up /\ s.task = NoTask)]
          /\ slots \in [1..Slots -> Timer]
      BY <1>0, <1>9 DEF TimerElapse, TimerType
    <3> DEFINE b == s.inuse /\ ~(up /\ s.task = NoTask)
    <3> HIDE DEF e, b
    <3> QED BY <1>a, <3>1 DEF b
  <2>3. (s.inuse /\ ~(up /\ s.task = NoTask)) \in BOOLEAN
    OBVIOUS
  <2>4. slots' \in [1..Slots -> Timer]
    <3> DEFINE b == s.inuse /\ ~(up /\ s.task = NoTask)
    <3>1. e \in Nat
      <4>1. s.elapse \in Nat
        BY <1>a, TimerUpdate
      <4> QED BY <4>1
    <3>2. [s EXCEPT !.elapse = e, !.inuse = b] \in Timer
      <4> HIDE DEF e, b
      <4>1. b \in BOOLEAN
        BY <2>3 DEF b
      <4> QED BY <1>a, <3>1, <4>1, TimerUpdate
    <3>3. slots \in [1..Slots -> Timer]
      BY <1>0 DEF TimerType
    <3> HIDE DEF s, e, up, b
    <3> QED BY <1>a, <2>2, <3>2, <3>3 DEF b
  <2>5. timer' \in [at : {"wait", "slot", "reset", "push", "ended"}, i : 1..Slots]
    BY <1>0, <1>9, NextSlotType DEF TimerElapse, TimerType
  <2> QED BY <1>0, <1>9, <2>4, <2>5 DEF TimerElapse, TimerType
<1>10. CASE TimerReset
  BY <1>0, <1>a, <1>10 DEF TimerReset, TimerType, Timer
<1>11. CASE TimerPush
  BY <1>0, <1>11, NextSlotType DEF TimerPush, TimerType
<1>12. CASE TerminateAll
  <2>1. \A i \in 1..Slots : [slots[i] EXCEPT !.task = NoTask] \in Timer
    BY <1>0 DEF TimerType, Timer
  <2>2. slots' \in [1..Slots -> Timer]
    BY <1>12, <2>1 DEF TerminateAll
  <2> QED BY <1>0, <1>12, <2>2 DEF TerminateAll, TimerType
<1>13. CASE DestroyStep
  BY <1>1, <1>13 DEF DestroyStep, JoinWorkers, CopyNamed, EndNamedNext, JoinNamed, DestroyDone
<1>14. CASE UNCHANGED vars
  BY <1>1, <1>14 DEF vars
<1> QED BY <1>2, <1>3, <1>4, <1>5, <1>6, <1>7, <1>8, <1>9, <1>10, <1>11, <1>12, <1>13, <1>14
        DEF Next, TimerStep

-----------------------------------------------------------------------------
(* destroy_thread_pool. *)

(* Threads end for good, and once m_terminateall is set there are no more of *)
(* them.                                                                     *)
LEMMA ThreadsEnd ==
  ASSUME PoolInv, [Next]_vars
  PROVE  /\ Len(named) \in Nat /\ Len(named') \in Nat /\ Len(named) <= Len(named')
         /\ \A o \in 1..Len(named) : named[o].at = "ended" => named'[o].at = "ended"
         /\ terminateall => Len(named') = Len(named)
<1>0. named \in Seq(NamedThread) /\ Len(named) \in Nat
  BY DEF PoolInv, TypeOK
<1>1. Len(named') \in Nat /\ Len(named) <= Len(named')
  BY NamedTypeStep
<1> DEFINE Good == /\ \A o \in 1..Len(named) : named[o].at = "ended" => named'[o].at = "ended"
                   /\ terminateall => Len(named') = Len(named)
<1>2. CASE SameThreads
  BY <1>2 DEF SameThreads
<1>3. ASSUME NEW n \in Names, NEW t \in Task, AddThread(n, t)
      PROVE  Good
  BY <1>0, <1>3, NewThreadType, ThreadAdded DEF AddThread
<1>4. ASSUME NEW o \in 1..Len(named), NEW th \in NamedThread,
             named' = [named EXCEPT ![o] = th], named[o].at = "ended" => th.at = "ended"
      PROVE  Good
  BY <1>0, <1>4, ThreadUpdate
<1>5. ASSUME NEW o \in 1..Len(named), NEW t \in Task, PushTask(o, t)
      PROVE  Good
  <2>1. named[o] \in NamedThread
    BY <1>0
  <2> QED BY <1>4, <1>5, <2>1, GivenType DEF PushTask
<1>6. ASSUME NEW o \in 1..Len(named), EndThread(o)
      PROVE  Good
  <2>1. named[o] \in NamedThread
    BY <1>0
  <2> QED BY <1>4, <1>6, <2>1, EndingType DEF EndThread
<1>7. ASSUME NEW o \in 1..Len(named), NamedStep(o)
      PROVE  Good
  <2>1. named[o] \in NamedThread /\ (named[o].at = "run" <=> named[o].batch # << >>)
    BY <1>0 DEF PoolInv, InHand
  <2> QED BY <1>0, <1>4, <1>7, <2>1, OwnTypes, OwnSteps
<1> QED BY <1>0, <1>1, <1>2, <1>3, <1>5, <1>6, <1>7, ThreadSteps DEF ThreadStep

LEMMA DestroyingStep ==
  ASSUME PoolInv, [Next]_vars
  PROVE  OwnerType' /\ Destroying'
<1> USE DEF pool, threads, timers
<1>0. OwnerType /\ Destroying /\ terminateall \in BOOLEAN
  BY DEF PoolInv, TypeOK, OwnerType
<1>a. \A w \in Workers : worker[w] = "ended" => worker'[w] = "ended"
  BY PoolTypeStep DEF PoolInv
<1>b. timer.at = "ended" => timer'.at = "ended"
  BY TimerTypeStep DEF PoolInv
<1>c. /\ Len(named) \in Nat /\ Len(named') \in Nat /\ Len(named) <= Len(named')
      /\ \A o \in 1..Len(named) : named[o].at = "ended" => named'[o].at = "ended"
      /\ terminateall => Len(named') = Len(named)
  BY ThreadsEnd
<1>1. ASSUME UNCHANGED <<owner, snapshot, joining, terminateall>>
      PROVE  OwnerType' /\ Destroying'
  BY <1>0, <1>a, <1>b, <1>c, <1>1 DEF Destroying, OwnerType
<1>2. ASSUME NEW c \in Callers, Call(c)
      PROVE  OwnerType' /\ Destroying'
  BY <1>1, <1>2 DEF Call, CallBegin, QueueWork, QueueAlone, AloneReturn, QueueNamed, EndNamed,
                    QueueTimer, DelTimer
<1>3. ASSUME NEW w \in Workers, WorkerStep(w) \/ WorkerWakes(w)
      PROVE  OwnerType' /\ Destroying'
  BY <1>1, <1>3 DEF WorkerStep, WorkerTake, WorkerRun, WorkerWakes
<1>4. ASSUME NEW o \in 1..Len(named), NamedStep(o)
      PROVE  OwnerType' /\ Destroying'
  BY <1>1, <1>4 DEF NamedStep, NamedTake, NamedRun, NamedLeave
<1>5. ASSUME NEW t \in Task, AloneStep(t)
      PROVE  OwnerType' /\ Destroying'
  BY <1>1, <1>5 DEF AloneStep, AloneStart, AloneRun, AloneErase
<1>6. CASE TimerStep
  BY <1>1, <1>6 DEF TimerStep, TimerRound, TimerElapse, TimerReset, TimerPush
<1>7. CASE TerminateAll
  BY <1>0, <1>c, <1>7 DEF TerminateAll, Destroying, OwnerType
<1>8. CASE JoinWorkers
  BY <1>0, <1>c, <1>8 DEF JoinWorkers, Destroying, OwnerType
<1>9. CASE CopyNamed
  <2>1. \A n \in Names : table[n] # NoThread => table[n] \in 1..Len(named)
    BY TableType DEF PoolInv
  <2>2. snapshot' \subseteq 1..Len(named) /\ snapshot' \subseteq Thread
    BY <1>9, <2>1 DEF CopyNamed, PoolInv, TypeOK
  <2>3. \A o \in 1..Len(named) : named[o].at # "ended" => o \in snapshot'
    <3> SUFFICES ASSUME NEW o \in 1..Len(named), named[o].at # "ended"
                 PROVE  o \in snapshot'
      OBVIOUS
    <3>1. table[named[o].name] = o
      BY DEF PoolInv, OneThreadPerName
    <3>2. named[o] \in NamedThread
      BY DEF PoolInv, TypeOK
    <3>3. named[o].name \in Names
      BY <3>2 DEF NamedThread
    <3> QED BY <1>9, <1>c, <3>1, <3>3 DEF CopyNamed, NoThread
  <2> QED BY <1>0, <1>c, <1>9, <2>2, <2>3 DEF CopyNamed, Destroying, OwnerType
<1>10. ASSUME NEW o \in Thread, EndNamedNext(o)
       PROVE  OwnerType' /\ Destroying'
  BY <1>0, <1>c, <1>10 DEF EndNamedNext, Destroying, OwnerType
<1>11. CASE JoinNamed
  BY <1>0, <1>c, <1>11 DEF JoinNamed, Destroying, OwnerType
<1>12. CASE DestroyDone
  BY <1>0, <1>c, <1>12 DEF DestroyDone, Destroying, OwnerType
<1>13. CASE UNCHANGED vars
  BY <1>1, <1>13 DEF vars
<1> QED BY <1>2, <1>3, <1>4, <1>5, <1>6, <1>7, <1>8, <1>9, <1>10, <1>11, <1>12, <1>13
        DEF Next, DestroyStep

-----------------------------------------------------------------------------
LEMMA PoolInvCorrect == Spec => []PoolInv
<1>1. Init => PoolInv
  <2> SUFFICES ASSUME Init
               PROVE  PoolInv
    OBVIOUS
  <2>1. UnusedTimer \in Timer
    BY DEF UnusedTimer, Timer
  <2>2. Slots \in Nat /\ 1 \in 1..Slots /\ MaxNamed \in Nat /\ MaxCalls \in Nat
    BY ThreadPoolAssumption
  <2>3. named \in Seq(NamedThread) /\ tasks \in Seq(Task \cup {NoTask}) /\ Len(named) = 0
    BY DEF Init
  <2>4. TypeOK
    <3>1. PoolType /\ AloneType /\ OwnerType
      BY <2>3 DEF Init, PoolType, AloneType, OwnerType
    <3>2. TimerType
      BY <2>1, <2>2 DEF Init, TimerType, BetweenRounds
    <3>3. CallType
      BY <2>2 DEF Init, CallType, Idle
    <3>4. table \in [Names -> Thread \cup {NoThread}] /\ \A n \in Names : table[n] <= Len(named)
      BY <2>3 DEF Init, NoThread
    <3> QED BY <2>2, <2>3, <3>1, <3>2, <3>3, <3>4
            DEF TypeOK, CallType, PoolType, AloneType, TimerType, OwnerType
  <2>5. OneThreadPerName /\ InHand /\ Destroying
    BY <2>3 DEF Init, OneThreadPerName, InHand, Destroying
  <2> QED BY <2>4, <2>5 DEF PoolInv
<1>2. PoolInv /\ [Next]_vars => PoolInv'
  <2> SUFFICES ASSUME PoolInv, [Next]_vars
               PROVE  PoolInv'
    OBVIOUS
  <2>1. CallType' /\ PoolType' /\ AloneType' /\ TimerType'
    BY CallTypeStep, PoolTypeStep, AloneTypeStep, TimerTypeStep DEF PoolInv
  <2>2. OwnerType' /\ Destroying'
    BY DestroyingStep
  <2>3. /\ table' \in [Names -> Thread \cup {NoThread}]
        /\ named' \in Seq(NamedThread) /\ Len(named') <= MaxNamed
        /\ \A n \in Names : table'[n] <= Len(named')
    BY NamedTypeStep
  <2>4. TypeOK'
    BY <2>1, <2>2, <2>3 DEF TypeOK, CallType, PoolType, AloneType, TimerType, OwnerType
  <2> QED BY <2>2, <2>4, OneThreadStep DEF PoolInv
<1> QED BY <1>1, <1>2, PTL DEF Spec

(* Every variable keeps its type, for any number of threads and calls.       *)
THEOREM TypeCorrect == Spec => []TypeOK
<1>1. PoolInv => TypeOK
  BY DEF PoolInv
<1> QED BY <1>1, PoolInvCorrect, PTL

(* A name never has two living threads, whatever is pushed and terminated    *)
(* while a thread leaves.                                                    *)
THEOREM OneThreadPerNameCorrect == Spec => []OneThreadPerName
<1>1. PoolInv => OneThreadPerName
  BY DEF PoolInv
<1> QED BY <1>1, PoolInvCorrect, PTL

(* When destroy_thread_pool has returned, every worker, the timer thread and *)
(* every named thread has ended, those created during it included.           *)
THEOREM QuietAfterDestroyCorrect == Spec => []QuietAfterDestroy
<1>1. PoolInv => QuietAfterDestroy
  BY DEF PoolInv, Destroying, QuietAfterDestroy
<1> QED BY <1>1, PoolInvCorrect, PTL

-----------------------------------------------------------------------------
(* The queue of a named thread: what it has taken, then what is waiting.     *)
Queue(th) == th.batch \o th.tasks
Stopped(th) == th.at \in {"leave", "ended"}

(* From one record of a thread to the next, the steps of a TaskQueue.        *)
QueueStep(a, b) ==
  \/ Queue(b) = Queue(a) /\ b.lastrun = a.lastrun /\ Stopped(b) = Stopped(a)
  \/ /\ \E t \in Task : Queue(b) = Append(Queue(a), t)
     /\ b.lastrun = a.lastrun /\ Stopped(b) = Stopped(a)
  \/ /\ ~Stopped(a) /\ Queue(a) # << >>
     /\ b.lastrun = Head(Queue(a)) /\ Queue(b) = Tail(Queue(a)) /\ Stopped(b) = Stopped(a)
  \/ ~Stopped(a) /\ Stopped(b) /\ Queue(b) = Queue(a) /\ b.lastrun = a.lastrun

(* Running the head of the taken part is running the head of the whole.      *)
LEMMA ConcatHeadTail ==
  ASSUME NEW S, NEW s \in Seq(S), NEW t \in Seq(S), s # << >>
  PROVE  /\ s \o t # << >>
         /\ Head(s \o t) = Head(s)
         /\ Tail(s \o t) = Tail(s) \o t
OBVIOUS

LEMMA RecordSteps ==
  ASSUME NEW a \in NamedThread, a.at = "run" <=> a.batch # << >>
  PROVE  /\ QueueStep(a, a)
         /\ \A t \in Task : QueueStep(a, Given(a, t))
         /\ QueueStep(a, Ending(a))
         /\ a.at = "top" => QueueStep(a, Taken(a))
         /\ a.at = "run" => QueueStep(a, AfterTask(a))
         /\ a.at = "leave" => QueueStep(a, Gone(a))
<1>0. a.batch \in Seq(Task) /\ a.tasks \in Seq(Task)
  BY DEF NamedThread
<1>1. QueueStep(a, a)
  BY DEF QueueStep
<1>2. ASSUME NEW t \in Task
      PROVE  QueueStep(a, Given(a, t))
  <2>1. Queue(Given(a, t)) = Append(Queue(a), t)
    <3>1. Given(a, t).batch = a.batch /\ Given(a, t).tasks = Append(a.tasks, t)
      BY GivenType
    <3>2. ASSUME NEW x \in Seq(Task), NEW y \in Seq(Task)
          PROVE  x \o Append(y, t) = Append(x \o y, t)
      OBVIOUS
    <3> QED BY <1>0, <3>1, <3>2, Zenon DEF Queue
  <2>2. Given(a, t).lastrun = a.lastrun /\ Stopped(Given(a, t)) = Stopped(a)
    BY GivenType DEF Stopped
  <2> QED BY <2>1, <2>2 DEF QueueStep
<1>3. QueueStep(a, Ending(a))
  <2>1. Queue(Ending(a)) = Queue(a) /\ Ending(a).lastrun = a.lastrun
    BY EndingType, Zenon DEF Queue
  <2>2. Stopped(Ending(a)) = Stopped(a)
    BY EndingType DEF Stopped
  <2> QED BY <2>1, <2>2 DEF QueueStep
<1>4. ASSUME a.at = "top"
      PROVE  QueueStep(a, Taken(a))
  <2>1. Queue(Taken(a)) = Queue(a) /\ Taken(a).lastrun = a.lastrun
    BY <1>4, OwnTypes DEF Queue
  <2>2. ~Stopped(a) /\ (Stopped(Taken(a)) \/ Stopped(Taken(a)) = Stopped(a))
    BY <1>4, OwnTypes DEF Stopped
  <2> QED BY <2>1, <2>2 DEF QueueStep
<1>5. ASSUME a.at = "run"
      PROVE  QueueStep(a, AfterTask(a))
  <2>1. a.batch # << >>
    BY <1>5
  <2>2. /\ Queue(a) # << >> /\ AfterTask(a).lastrun = Head(Queue(a))
        /\ Queue(AfterTask(a)) = Tail(Queue(a))
    <3>1. /\ AfterTask(a).batch = Tail(a.batch) /\ AfterTask(a).tasks = a.tasks
          /\ AfterTask(a).lastrun = Head(a.batch)
      BY <2>1, OwnTypes
    <3>2. /\ a.batch \o a.tasks # << >> /\ Head(a.batch \o a.tasks) = Head(a.batch)
          /\ Tail(a.batch \o a.tasks) = Tail(a.batch) \o a.tasks
      BY <1>0, <2>1, ConcatHeadTail
    <3> QED BY <3>1, <3>2, Zenon DEF Queue
  <2>3. ~Stopped(a) /\ Stopped(AfterTask(a)) = Stopped(a)
    <3>1. AfterTask(a).at \in {"top", "run"}
      BY <2>1, OwnTypes
    <3> QED BY <1>5, <3>1 DEF Stopped
  <2> QED BY <2>2, <2>3 DEF QueueStep
<1>6. ASSUME a.at = "leave"
      PROVE  QueueStep(a, Gone(a))
  <2>1. Queue(Gone(a)) = Queue(a) /\ Gone(a).lastrun = a.lastrun
    BY OwnTypes, Zenon DEF Queue
  <2>2. Gone(a).at = "ended"
    BY OwnTypes
  <2>3. Stopped(Gone(a)) = Stopped(a)
    BY <1>6, <2>2 DEF Stopped
  <2> QED BY <2>1, <2>3 DEF QueueStep
<1> QED BY <1>1, <1>2, <1>3, <1>4, <1>5, <1>6

(* Each step takes every named thread, those to come included, along its     *)
(* TaskQueue or leaves it alone.                                             *)
LEMMA ThreadQueueStep ==
  ASSUME PoolInv, [Next]_vars, NEW p \in Thread
  PROVE  QueueStep(TheThread(p), TheThread(p)')
<1>0. /\ named \in Seq(NamedThread) /\ Len(named) \in Nat
      /\ \A o \in 1..Len(named) : /\ named[o] \in NamedThread
                                  /\ named[o].at = "run" <=> named[o].batch # << >>
  BY DEF PoolInv, TypeOK, InHand
<1> DEFINE Absent == [at |-> "top", terminate |-> FALSE, tasks |-> << >>, batch |-> << >>, lastrun |-> NoTask]
<1>a. TheThread(p) = IF p \in 1..Len(named) THEN named[p] ELSE Absent
  BY DEF TheThread
<1>b. TheThread(p)' = IF p \in 1..Len(named') THEN named'[p] ELSE Absent
  BY DEF TheThread
<1>c. QueueStep(Absent, Absent)
  BY DEF QueueStep
<1> HIDE DEF Absent
<1>d. ASSUME p \in 1..Len(named), named'[p] = named[p]
      PROVE  QueueStep(named[p], named'[p])
  BY <1>0, <1>d, RecordSteps
<1>1. CASE SameThreads
  BY <1>a, <1>b, <1>c, <1>d, <1>1 DEF SameThreads
<1>2. ASSUME NEW n \in Names, NEW t \in Task, AddThread(n, t)
      PROVE  QueueStep(TheThread(p), TheThread(p)')
  <2>1. /\ Len(named') = Len(named) + 1
        /\ named'[Len(named) + 1] = NewNamedThread(n, t)
        /\ \A o \in 1..Len(named) : named'[o] = named[o]
    BY <1>0, <1>2, NewThreadType, ThreadAdded DEF AddThread
  <2>2. QueueStep(Absent, NewNamedThread(n, t))
    <3>1. Queue(NewNamedThread(n, t)) = Append(Queue(Absent), t)
      <4>1. Queue(NewNamedThread(n, t)) = << >> \o <<t>>
        BY NewThreadType, Zenon DEF Queue
      <4>2. Queue(Absent) = << >> \o << >>
        BY DEF Queue, Absent
      <4> QED BY <4>1, <4>2
    <3>2. /\ NewNamedThread(n, t).lastrun = Absent.lastrun
          /\ Stopped(NewNamedThread(n, t)) = Stopped(Absent)
      BY NewThreadType DEF Stopped, Absent
    <3> QED BY <3>1, <3>2 DEF QueueStep
  <2> QED BY <1>0, <1>a, <1>b, <1>c, <1>d, <2>1, <2>2
<1>3. ASSUME NEW o \in 1..Len(named), NEW th \in NamedThread,
             named' = [named EXCEPT ![o] = th], QueueStep(named[o], th)
      PROVE  QueueStep(TheThread(p), TheThread(p)')
  <2>1. /\ Len(named') = Len(named) /\ named'[o] = th
        /\ \A q \in 1..Len(named) : q # o => named'[q] = named[q]
    BY <1>0, <1>3, ThreadUpdate
  <2> QED BY <1>a, <1>b, <1>c, <1>d, <1>3, <2>1
<1>4. ASSUME NEW o \in 1..Len(named), NEW t \in Task, PushTask(o, t)
      PROVE  QueueStep(TheThread(p), TheThread(p)')
  <2>1. Given(named[o], t) \in NamedThread /\ QueueStep(named[o], Given(named[o], t))
    BY <1>0, GivenType, RecordSteps
  <2> QED BY <1>3, <1>4, <2>1 DEF PushTask
<1>5. ASSUME NEW o \in 1..Len(named), EndThread(o)
      PROVE  QueueStep(TheThread(p), TheThread(p)')
  BY <1>0, <1>3, <1>5, EndingType, RecordSteps DEF EndThread
<1>6. ASSUME NEW o \in 1..Len(named), NamedStep(o)
      PROVE  QueueStep(TheThread(p), TheThread(p)')
  BY <1>0, <1>3, <1>6, OwnTypes, OwnSteps, RecordSteps
<1> QED BY <1>1, <1>2, <1>4, <1>5, <1>6, ThreadSteps DEF ThreadStep

(* Every named thread runs its tasks in the order in which they were pushed, *)
(* each at most once, and none once it has left: it implements TaskQueue.    *)
THEOREM NamedRefinement == Spec => NamedRefined
<1>1. Init => \A o \in Thread : TQ(o)!TQInit
  BY DEF Init, TQ!TQInit, TheThread
<1>2. PoolInv /\ [Next]_vars => [\A o \in Thread : TQ(o)!TQNext \/ UNCHANGED TQ(o)!tqvars]_vars
  <2> SUFFICES ASSUME PoolInv, [Next]_vars, NEW o \in Thread
               PROVE  TQ(o)!TQNext \/ UNCHANGED TQ(o)!tqvars
    OBVIOUS
  <2>1. QueueStep(TheThread(o), TheThread(o)')
    BY ThreadQueueStep
  <2> QED BY <2>1 DEF QueueStep, Queue, Stopped, TQ!TQNext, TQ!Put, TQ!Run, TQ!Stop, TQ!tqvars
<1> QED BY <1>1, <1>2, PoolInvCorrect, PTL DEF Spec, NamedRefined
=============================================================================
