------------------------------ MODULE NodeWait ------------------------------
(***************************************************************************)
(* What the main() of the Switch .nro and the main() of the desktop node   *)
(* have in common: where it is, and the bounded wait for g_node_down at    *)
(* its end, the only thing that keeps it from returning under the service  *)
(* thread of module ZtNode.                                                *)
(***************************************************************************)
EXTENDS Naturals, ZtNode

CONSTANT MaxPolls   \* rounds of the bounded wait for g_node_down: 3000 / 50
ASSUME PollsAssumption == MaxPolls \in Nat \ {0}

VARIABLES
  pc,        \* where main() is
  nodeDown,  \* g_node_down
  polls      \* rounds of the bounded wait so far

Goto(from, to) == pc = from /\ pc' = to

\* One round of the wait.
PollAgain ==
  /\ pc = "wait"
  /\ ~nodeDown /\ polls < MaxPolls
  /\ polls' = polls + 1
  /\ UNCHANGED <<nodeVars, pc, nodeDown>>

WaitIsOver == nodeDown \/ polls >= MaxPolls

\* main() returns with the service thread still running only when the whole
\* bounded wait has passed without ZTS_EVENT_NODE_DOWN.
ReturnAfterNode == pc = "ended" /\ Running => polls = MaxPolls
=============================================================================
