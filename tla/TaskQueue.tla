----------------------------- MODULE TaskQueue -----------------------------
(***************************************************************************)
(* What a queue served by one thread promises to its callers, without       *)
(* locks, notices or batches: tasks handed in by any thread run one at a    *)
(* time, in the order they were handed in, each at most once, until the     *)
(* thread stops; nothing runs after that.  EventLoop, MsgRelay and          *)
(* LocalMsgBus implement it.                                                *)
(***************************************************************************)
EXTENDS Sequences

CONSTANTS Task,     \* what can be queued
          NoTask    \* "nothing has run yet"

VARIABLES queue,    \* tasks handed in and not yet run
          lastrun,  \* the task that ran last
          stopped   \* the loop has ended

tqvars == <<queue, lastrun, stopped>>

TQInit == /\ queue = << >>
          /\ lastrun = NoTask
          /\ stopped = FALSE

(* Any thread hands in a task, also after the loop has ended. *)
Put == /\ \E t \in Task : queue' = Append(queue, t)
       /\ UNCHANGED <<lastrun, stopped>>

(* The oldest task runs. *)
Run == /\ ~stopped
       /\ queue # << >>
       /\ lastrun' = Head(queue)
       /\ queue' = Tail(queue)
       /\ UNCHANGED stopped

(* The loop ends; what is still queued never runs. *)
Stop == /\ ~stopped
        /\ stopped' = TRUE
        /\ UNCHANGED <<queue, lastrun>>

(* What never ran is thrown away. *)
Discard == /\ stopped
           /\ queue' = << >>
           /\ UNCHANGED <<lastrun, stopped>>

TQNext == Put \/ Run \/ Stop \/ Discard

TQSpec == TQInit /\ [][TQNext]_tqvars
=============================================================================
