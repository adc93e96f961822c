------------------------------- MODULE Calls -------------------------------
(***************************************************************************)
(* What a caller of the network side of the bus may rely on, without        *)
(* connections, tables of futures or threads: a call ends at most once, at  *)
(* any time with a failure, but with a success only when the other side     *)
(* has answered this very call and answered it well.  ServerConn (calls to  *)
(* the server) and DirectRequests (calls to a receiver) implement it.       *)
(***************************************************************************)
CONSTANT Id        \* the calls

VARIABLES answer,  \* what the other side answered: "none", "ok" or "bad"
          outcome  \* how the call ended: "none" (not yet), "true" or "false"

cvars == <<answer, outcome>>

CInit == /\ answer = [i \in Id |-> "none"]
         /\ outcome = [i \in Id |-> "none"]

(* The other side answers, at most once. *)
Reply(i) == /\ answer[i] = "none"
            /\ \E a \in {"ok", "bad"} : answer' = [answer EXCEPT ![i] = a]
            /\ UNCHANGED outcome

Fail(i) == /\ outcome[i] = "none"
           /\ outcome' = [outcome EXCEPT ![i] = "false"]
           /\ UNCHANGED answer

Succeed(i) == /\ outcome[i] = "none" /\ answer[i] = "ok"
              /\ outcome' = [outcome EXCEPT ![i] = "true"]
              /\ UNCHANGED answer

CNext == \E i \in Id : Reply(i) \/ Fail(i) \/ Succeed(i)

CSpec == CInit /\ [][CNext]_cvars
=============================================================================
