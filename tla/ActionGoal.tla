----------------------------- MODULE ActionGoal -----------------------------
(***************************************************************************)
(* What an action server of the ROS nodes promises of each goal, whatever  *)
(* it does to serve it: a goal is answered once, with a status that rcl    *)
(* allows, and is reported as canceled only after somebody asked for that. *)
(* ActionServers shows that the three servers implement it.                *)
(***************************************************************************)
CONSTANT Goals

VARIABLE status

Ended == {"rejected", "succeeded", "aborted", "canceled"}

Init == status = [g \in Goals |-> "new"]

Becomes(g, s) == status' = [status EXCEPT ![g] = s]

Respond(g) == status[g] = "new" /\ \E s \in {"executing", "rejected"} : Becomes(g, s)

RequestCancel(g) == status[g] = "executing" /\ Becomes(g, "canceling")

(* A request that comes too late changes nothing: the goal may still       *)
(* succeed or be aborted.                                                  *)
End(g) ==
  \/ status[g] \in {"executing", "canceling"} /\ \E s \in {"succeeded", "aborted"} : Becomes(g, s)
  \/ status[g] = "canceling" /\ Becomes(g, "canceled")

Next == \E g \in Goals : Respond(g) \/ RequestCancel(g) \/ End(g)

Spec == Init /\ [][Next]_status

=============================================================================
