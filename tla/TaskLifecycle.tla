--------------------------- MODULE TaskLifecycle ---------------------------
(***************************************************************************)
(* What the task queue promises of a task, with no workers, requests or    *)
(* rows: a task waits, runs and is done, and every time it goes back to    *)
(* waiting it gets a new ticket.  Waiting is the only way into running, so *)
(* a ticket is handed out at most once.  A task that is done may come back *)
(* (two reports of one attempt can race), but never with an old ticket.    *)
(***************************************************************************)
EXTENDS Integers

CONSTANT Task

VARIABLES phase, ticket

Init ==
  /\ phase = [t \in Task |-> "absent"]
  /\ ticket = [t \in Task |-> 0]

(* A new task, replacing tasks that still wait. *)
Submit(t, replaced) ==
  /\ phase[t] = "absent"
  /\ \A u \in replaced : phase[u] = "waiting"
  /\ phase' = [u \in Task |-> IF u = t THEN "waiting"
                              ELSE IF u \in replaced THEN "done" ELSE phase[u]]
  /\ ticket' = [ticket EXCEPT ![t] = 1]

Take(t) ==
  /\ phase[t] = "waiting"
  /\ phase' = [phase EXCEPT ![t] = "running"]
  /\ UNCHANGED ticket

Settle(t) ==
  /\ phase[t] \in {"waiting", "running"}
  /\ phase' = [phase EXCEPT ![t] = "done"]
  /\ UNCHANGED ticket

Return(t) ==
  /\ phase[t] # "absent"
  /\ phase' = [phase EXCEPT ![t] = "waiting"]
  /\ ticket' = [ticket EXCEPT ![t] = @ + 1]

Next ==
  \/ \E t \in Task, replaced \in SUBSET Task : Submit(t, replaced)
  \/ \E t \in Task : Take(t) \/ Settle(t) \/ Return(t)

Spec == Init /\ [][Next]_<<phase, ticket>>

=============================================================================
