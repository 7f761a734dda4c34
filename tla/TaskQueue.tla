----------------------------- MODULE TaskQueue ------------------------------
(***************************************************************************)
(* What the scheduler promises to whoever follows a task by its uid: uids  *)
(* are given out in order and never again, a task that left the queue      *)
(* never comes back to it nor changes its status, and a task is canceled   *)
(* or deleted only at the request of a newer task that is itself enqueued. *)
(***************************************************************************)
EXTENDS Naturals

CONSTANT MaxTasks

VARIABLE life   \* the life of each uid

Uids == 0 .. MaxTasks - 1

Init == life = [t \in Uids |-> "Unknown"]

Changed == {t \in Uids : life'[t] # life[t]}

\* The uid given out is the lowest one that was never given out.
Enqueue ==
  \E t \in Uids :
    /\ \A u \in Uids : life[u] = "Unknown" <=> u >= t
    /\ life' = [life EXCEPT ![t] = "Enqueued"]

\* A batch of tasks leaves the queue.
Finish ==
  /\ life' \in [Uids -> {"Unknown", "Enqueued", "Succeeded", "Failed", "Canceled", "Deleted"}]
  /\ \A t \in Changed : life[t] = "Enqueued" /\ life'[t] \in {"Succeeded", "Failed"}

\* A newer task, not finished yet, takes tasks to a new state.
Request(from, to) ==
  /\ life' = [t \in Uids |-> IF t \in Changed THEN to ELSE life[t]]
  /\ \E r \in Uids : /\ life[r] = "Enqueued"
                     /\ \A t \in Changed : t < r /\ life[t] \in from

Cancel == Request({"Enqueued"}, "Canceled")

Delete == Request({"Succeeded", "Failed", "Canceled"}, "Deleted")

Next == Enqueue \/ Finish \/ Cancel \/ Delete

Spec == Init /\ [][Next]_life
=============================================================================
