------------------------------- MODULE ZtNode -------------------------------
(***************************************************************************)
(* libzt's node service as source/main.cpp and pc-diag/main.cpp use it     *)
(* (external: libzt is a submodule).  zts_node_stop only raises a flag for *)
(* the service thread, which nobody joins; the one sign that it is done is *)
(* ZTS_EVENT_NODE_DOWN, queued by Node's destructor for the thread that    *)
(* runs the event handler, and that event may be late or missed.           *)
(***************************************************************************)

VARIABLES
  service,   \* the service thread, and before it the node it will run
  stopFlag,  \* NodeService::terminate() was called
  downEvent  \* ZTS_EVENT_NODE_DOWN is waiting for the event thread

nodeVars == <<service, stopFlag, downEvent>>

Running == service \in {"offline", "online"}

NodeTypeOK ==
  /\ service \in {"none", "created", "offline", "online", "parked", "gone"}
  /\ stopFlag \in BOOLEAN
  /\ downEvent \in BOOLEAN

NodeInit == service = "none" /\ stopFlag = FALSE /\ downEvent = FALSE

-----------------------------------------------------------------------------
(* Calls made by the application.                                          *)

CreateNode == service' = "created" /\ UNCHANGED <<stopFlag, downEvent>>

StartNode ==
  /\ service' = IF service = "created" THEN "offline" ELSE service
  /\ UNCHANGED <<stopFlag, downEvent>>

StopNode == stopFlag' = TRUE /\ UNCHANGED <<service, downEvent>>

-----------------------------------------------------------------------------
(* Steps of the service thread and of the network.                         *)

GoOnline ==
  service = "offline" /\ service' = "online" /\ UNCHANGED <<stopFlag, downEvent>>

GoOffline ==
  service = "online" /\ service' = "offline" /\ UNCHANGED <<stopFlag, downEvent>>

\* The service loop ends, because it was told to or by a fatal error of its
\* own while it was not online, and the Node is destroyed.
DestroyNode ==
  /\ (stopFlag /\ Running) \/ service = "offline"
  /\ service' = "gone"
  /\ downEvent' = TRUE
  /\ UNCHANGED stopFlag

LoseDownEvent == downEvent /\ downEvent' = FALSE /\ UNCHANGED <<service, stopFlag>>

ServiceNext == GoOnline \/ GoOffline \/ DestroyNode \/ LoseDownEvent
=============================================================================
