------------------------------- MODULE PcDiag -------------------------------
(***************************************************************************)
(* Life of the desktop diagnostic node, pc-diag/main.cpp main(): start the *)
(* node, wait until it is online, join, wait for an address, run the ping  *)
(* loop, and after Ctrl+C stop the node and wait for it to be gone.        *)
(* Threads: main, libzt's service (module ZtNode) and event threads, and   *)
(* the signal handler on_sigint, which may run at any moment.              *)
(***************************************************************************)
EXTENDS NodeWait

VARIABLES
  shutdown,     \* g_shutdown_requested
  joinSent,     \* zts_net_join reached a running service
  authorized,   \* the network's controller lets the node in
  assigned,     \* zts_addr_is_assigned(network_id) # 0
  sock          \* the tunnel socket of the ping exchange is open

netVars == <<joinSent, authorized, assigned>>
vars == <<nodeVars, pc, shutdown, nodeDown, netVars, sock, polls>>

Init ==
  /\ NodeInit
  /\ pc = "config"
  /\ shutdown = FALSE /\ nodeDown = FALSE
  /\ joinSent = FALSE /\ authorized \in BOOLEAN /\ assigned = FALSE
  /\ sock = FALSE
  /\ polls = 0

-----------------------------------------------------------------------------
\* main() returns early without network_id.txt.  What the zts_init_* calls
\* return is ignored; zts_node_start fails when they did.
ReadConfig ==
  /\ \/ Goto("config", "ended") /\ UNCHANGED nodeVars
     \/ Goto("config", "start") /\ (CreateNode \/ UNCHANGED nodeVars)
  /\ UNCHANGED <<shutdown, nodeDown, netVars, sock, polls>>

StartService ==
  /\ \/ Goto("start", "waitOnline") /\ service = "created" /\ StartNode
     \/ Goto("start", "ended") /\ UNCHANGED nodeVars
  /\ UNCHANGED <<shutdown, nodeDown, netVars, sock, polls>>

\* Both waits poll for ever, whatever else happens.
WaitOnline ==
  /\ Goto("waitOnline", "join")
  /\ service = "online"
  /\ UNCHANGED <<nodeVars, shutdown, nodeDown, netVars, sock, polls>>

\* zts_net_join; its result is printed only.
Join ==
  /\ Goto("join", "waitAddr")
  /\ joinSent' = Running
  /\ UNCHANGED <<nodeVars, shutdown, nodeDown, authorized, assigned, sock, polls>>

WaitAddress ==
  /\ Goto("waitAddr", "open")
  /\ assigned
  /\ UNCHANGED <<nodeVars, shutdown, nodeDown, netVars, sock, polls>>

\* What zts_bsd_bind returns is ignored, and without a socket the loop runs
\* all the same.
OpenSocket ==
  /\ Goto("open", "loop")
  /\ sock' \in BOOLEAN
  /\ UNCHANGED <<nodeVars, shutdown, nodeDown, netVars, polls>>

\* The ping loop notices the request at the top of a round.
LeaveLoop ==
  /\ Goto("loop", "close")
  /\ shutdown
  /\ UNCHANGED <<nodeVars, shutdown, nodeDown, netVars, sock, polls>>

CloseSocket ==
  /\ Goto("close", "stop")
  /\ sock' = FALSE
  /\ UNCHANGED <<nodeVars, shutdown, nodeDown, netVars, polls>>

StopService ==
  /\ Goto("stop", "wait")
  /\ StopNode
  /\ UNCHANGED <<shutdown, nodeDown, netVars, sock, polls>>

PollDown ==
  /\ PollAgain
  /\ UNCHANGED <<shutdown, netVars, sock>>

\* Mutants of ReturnFromMain: no wait at all, and a wait without a bound.
BugNoWait ==
  /\ Goto("wait", "ended")
  /\ UNCHANGED <<nodeVars, shutdown, nodeDown, netVars, sock, polls>>

BugUnboundedWait ==
  /\ nodeDown
  /\ Goto("wait", "ended")
  /\ UNCHANGED <<nodeVars, shutdown, nodeDown, netVars, sock, polls>>

ReturnFromMain ==
  /\ WaitIsOver
  /\ Goto("wait", "ended")
  /\ UNCHANGED <<nodeVars, shutdown, nodeDown, netVars, sock, polls>>

-----------------------------------------------------------------------------
(* Everyone else, while the process lives.                                 *)

Alive == pc # "ended"

\* on_sigint, installed before anything else and only a request.
OnSigint ==
  /\ Alive /\ ~shutdown
  /\ shutdown' = TRUE
  /\ UNCHANGED <<nodeVars, pc, nodeDown, netVars, sock, polls>>

\* on_event, case ZTS_EVENT_NODE_DOWN.
OnEvent ==
  /\ Alive /\ downEvent
  /\ downEvent' = FALSE
  /\ nodeDown' = TRUE
  /\ UNCHANGED <<service, stopFlag, pc, shutdown, netVars, sock, polls>>

ServiceStep ==
  /\ Alive /\ ServiceNext
  /\ UNCHANGED <<pc, shutdown, nodeDown, netVars, sock, polls>>

\* The controller answers the join of an authorized node with an address.
AssignAddress ==
  /\ Alive /\ service = "online" /\ joinSent /\ authorized /\ ~assigned
  /\ assigned' = TRUE
  /\ UNCHANGED <<nodeVars, pc, shutdown, nodeDown, joinSent, authorized, sock, polls>>

Main ==
  \/ ReadConfig \/ StartService \/ WaitOnline \/ Join \/ WaitAddress \/ OpenSocket
  \/ LeaveLoop \/ CloseSocket \/ StopService \/ PollDown \/ ReturnFromMain

Next == Main \/ OnSigint \/ OnEvent \/ ServiceStep \/ AssignAddress

Spec == Init /\ [][Next]_vars

\* Main keeps running.  The service keeps trying to go online and an authorized
\* node gets its address.
FairSpec == Spec /\ WF_vars(Main) /\ WF_vars(AssignAddress)
                 /\ SF_vars(GoOnline /\ ServiceStep)

-----------------------------------------------------------------------------
\* The types of the variables.
TypeOK ==
  /\ NodeTypeOK
  /\ pc \in {"config", "start", "waitOnline", "join", "waitAddr", "open", "loop", "close",
             "stop", "wait", "ended"}
  /\ {shutdown, nodeDown, joinSent, authorized, assigned, sock} \subseteq BOOLEAN
  /\ polls \in 0 .. MaxPolls

\* A shutdown requested in the ping loop ends the process whatever the service
\* thread does with zts_node_stop.
LoopHeedsCtrlC == pc = "loop" /\ shutdown ~> pc = "ended"

\* README.md: Ctrl+C exits cleanly.
CtrlCExits == shutdown ~> pc = "ended"

-----------------------------------------------------------------------------
\* The inductive invariant behind the proofs: NODE_DOWN comes from a node that is
\* gone, and none runs before zts_node_start.
IInv ==
  /\ TypeOK
  /\ ReturnAfterNode
  /\ downEvent \/ nodeDown => service = "gone"
  /\ pc \in {"config", "start"} => service \in {"none", "created"}
=============================================================================
