-------------------------- MODULE LifecycleProofs --------------------------
(***************************************************************************)
(* Proofs about the two applications, SwitchApp and, under the name Pc,    *)
(* PcDiag, for bounded waits of any length.  The variables that both have  *)
(* (the node, pc, nodeDown, polls) are declared once: a behaviour of one   *)
(* says nothing about the other.                                           *)
(***************************************************************************)
EXTENDS SwitchApp, TLAPS

\* What only PcDiag has.
VARIABLES shutdown, joinSent, authorized, assigned, sock

Pc == INSTANCE PcDiag

USE PollsAssumption, IdleAssumption DEF PollsAssumption, IdleAssumption

\* Every step keeps the types; opening and closing the ping socket stays within one.
LEMMA TypeStep ==
  ASSUME IInv, [Next]_vars
  PROVE  TypeOK'
<1> USE DEF IInv, TypeOK, NodeTypeOK, Closes, Goto, Running, Alive, nodeVars, cfgVars, floodVars, recvVars, FloodOthers, Flooding, loopVars, pingVars, exitVars, PingInv
<1>1. CASE InitSockets
  <2>1. held' \subseteq {"console", "sdmc", "sockets"}
    BY <1>1 DEF InitSockets
  <2>2. pc' \in {"holdNet", "flood", "init", "holdId"}
    BY <1>1 DEF InitSockets
  <2>3. UNCHANGED <<nodeVars, cfgVars, handler, loopVars, pingVars, exitVars>>
    BY <1>1, Zenon DEF InitSockets
  <2> QED
    BY <2>1, <2>2, <2>3
<1>2. CASE EarlyReturn
  <2>1. held' \subseteq {"console", "sdmc", "sockets"} /\ pc' = "ended"
    BY <1>2 DEF EarlyReturn
  <2>2. UNCHANGED <<nodeVars, cfgVars, handler, loopVars, pingVars, exitVars>>
    BY <1>2, Zenon DEF EarlyReturn
  <2> QED
    BY <2>1, <2>2
<1>3. CASE InitNode
  BY <1>3 DEF InitNode, CreateNode
<1>4. CASE RegisterHandler
  BY <1>4 DEF RegisterHandler
<1>5. CASE StartService
  BY <1>5 DEF StartService, StartNode
<1>6. CASE FloodOpen
  BY <1>6 DEF FloodOpen
<1>7. CASE FloodSelect
  <2>1. pc' \in {"drain", "count"}
    BY <1>7 DEF FloodSelect
  <2>2. gotData' = FALSE /\ UNCHANGED <<FloodOthers, recvVars, idle>>
    BY <1>7, Zenon DEF FloodSelect
  <2>3. gotData' \in BOOLEAN /\ UNCHANGED <<recvVars, idle>>
    BY <2>2, Zenon
  <2>4. UNCHANGED FloodOthers
    BY <2>2, Zenon
  <2> QED
    BY <2>1, <2>3, <2>4
<1>8. CASE FloodReceive
  <2>1. queue' = "none" /\ UNCHANGED <<FloodOthers, pc, streaming, nonblock, idle>>
    BY <1>8, Zenon DEF FloodReceive
  <2>2. gotData' = (gotData \/ queue = "data")
    BY <1>8, Zenon DEF FloodReceive
  <2>3. gotData' \in BOOLEAN
    BY <2>2, Zenon
  <2>4. UNCHANGED FloodOthers
    BY <2>1, Zenon
  <2> QED
    BY <2>1, <2>3, <2>4
<1>9. CASE FloodDrained
  BY <1>9 DEF FloodDrained
<1>10. CASE FloodCount
  <2>1. idle < MaxIdle
    BY <1>10 DEF FloodCount, BootInv
  <2>2. idle' = IF gotData THEN 0 ELSE idle + 1
    BY <1>10, Zenon DEF FloodCount
  <2>3. idle' \in 0 .. MaxIdle
    BY <2>1, <2>2
  <2>4. pc' \in {"floodEnd", "select"}
    BY <1>10 DEF FloodCount
  <2>5. UNCHANGED <<FloodOthers, recvVars, gotData>>
    BY <1>10, Zenon DEF FloodCount
  <2> QED
    BY <2>3, <2>4, <2>5
<1>11. CASE SenderChanges
  BY <1>11 DEF SenderChanges
<1>12. CASE ReadOnline
  BY <1>12 DEF ReadOnline
<1>13. CASE SendJoin
  <2>2. joinRc' \in {"none", "ok", "error"}
    BY <1>13, Zenon DEF SendJoin
  <2>3. UNCHANGED <<nodeVars, cfgVars, held, handler, online, joined, pingVars, exitVars>>
    BY <1>13, Zenon DEF SendJoin
  <2> QED
    BY <1>13, <2>2, <2>3 DEF SendJoin
<1>14. CASE JoinDone
  BY <1>14 DEF JoinDone
<1>15. CASE SkipJoin
  BY <1>15 DEF SkipJoin
<1>16. CASE OpenPing
  <2>1. ~pingSock => ztSocks = 0
    OBVIOUS
  <2>2. ztSocks' = ztSocks + 1 \/ ztSocks' = ztSocks
    BY <1>16 DEF OpenPing
  <2>3. ztSocks' \in 0 .. 1
    BY <1>16, <2>1, <2>2 DEF OpenPing
  <2>4. pingSock' \in BOOLEAN
    BY <1>16, Zenon DEF OpenPing
  <2> QED
    BY <1>16, <2>3, <2>4 DEF OpenPing
<1>17. CASE SkipPing
  BY <1>17 DEF SkipPing
<1>18. CASE BindPing
  BY <1>18 DEF BindPing
<1>19. CASE BindFails
  <2>1. pc = "bind" /\ pingSock
    BY <1>19 DEF BindFails
  <2>2. ztSocks = 1
    BY <2>1
  <2>3. ztSocks' = ztSocks - 1
    BY <1>19, Zenon DEF BindFails
  <2>4. ztSocks' \in 0 .. 1
    BY <2>2, <2>3
  <2>5. pingSock' \in BOOLEAN
    BY <1>19, Zenon DEF BindFails
  <2> QED
    BY <1>19, <2>4, <2>5 DEF BindFails
<1>20. CASE LeaveLoop
  BY <1>20 DEF LeaveLoop
<1>21. CASE ClosePing
  <2>1. pingSock => ztSocks = 1
    OBVIOUS
  <2>2. ztSocks' = IF pingSock THEN ztSocks - 1 ELSE ztSocks
    BY <1>21, Zenon DEF ClosePing
  <2>3. ztSocks' \in 0 .. 1
    BY <2>1, <2>2
  <2>4. pingSock' \in BOOLEAN /\ answering' \in BOOLEAN
    BY <1>21, Zenon DEF ClosePing
  <2>5. pc' = "beginExit" /\ UNCHANGED <<nodeVars, cfgVars, held, handler, loopVars, exitVars>>
    BY <1>21, Zenon DEF ClosePing, Goto
  <2> QED
    BY <2>3, <2>4, <2>5
<1>22. CASE BeginExit
  BY <1>22 DEF BeginExit
<1>23. CASE LogExit
  BY <1>23 DEF LogExit
<1>24. CASE StopService
  BY <1>24 DEF StopService, StopNode
<1>25. CASE PollDown
  BY <1>25 DEF PollDown, PollAgain
<1>26. CASE StopWaiting
  BY <1>26 DEF StopWaiting, WaitIsOver
<1>27. CASE ExitSockets
  <2>1. held' \subseteq {"console", "sdmc", "sockets"} /\ pc' \in {"exitProcess", "ended"}
    BY <1>27 DEF ExitSockets
  <2>2. UNCHANGED <<nodeVars, cfgVars, handler, loopVars, pingVars, exitVars>>
    BY <1>27, Zenon DEF ExitSockets
  <2> QED
    BY <2>1, <2>2
<1>28. CASE ExitProcess
  <2>1. held' \subseteq {"console", "sdmc", "sockets"} /\ pc' \in {"exitProcess", "ended"}
    BY <1>28 DEF ExitProcess
  <2>2. UNCHANGED <<nodeVars, cfgVars, handler, loopVars, pingVars, exitVars>>
    BY <1>28, Zenon DEF ExitProcess
  <2> QED
    BY <2>1, <2>2
<1>29. CASE ServiceStep
  <2>1. NodeTypeOK'
    BY <1>29 DEF ServiceStep, ServiceNext, GoOnline, GoOffline, DestroyNode, LoseDownEvent
  <2>2. UNCHANGED <<pc, cfgVars, held, handler, loopVars, pingVars, exitVars>>
    BY <1>29, Zenon DEF ServiceStep
  <2> QED
    BY <2>1, <2>2
<1>30. CASE PrintEvent
  <2>1. UNCHANGED <<service, stopFlag>> /\ downEvent' = FALSE
    BY <1>30, Zenon DEF PrintEvent
  <2>2. NodeTypeOK'
    BY <2>1
  <2>3. exiting' \in BOOLEAN /\ nodeDown' \in BOOLEAN /\ polls' \in 0 .. MaxPolls /\ logStuck' \in BOOLEAN
    BY <1>30, Zenon DEF PrintEvent
  <2>4. UNCHANGED <<pc, cfgVars, held, handler, loopVars, pingVars>>
    BY <1>30, Zenon DEF PrintEvent
  <2> QED
    BY <2>2, <2>3, <2>4
<1>31. CASE ServiceFault
  <2>1. service' \in {service, "parked"} /\ pc' \in {pc, "killed"} /\ logStuck' \in BOOLEAN
    BY <1>31 DEF ServiceFault, FaultEnds, FaultIsLogged, FaultHangs
  <2>2. UNCHANGED <<stopFlag, downEvent, cfgVars, held, handler, loopVars, pingVars,
                    exiting, nodeDown, polls>>
    BY <1>31, Zenon DEF ServiceFault
  <2> QED
    BY <2>1, <2>2
<1>32. CASE EventFault
  <2>1. handler' \in BOOLEAN /\ pc' \in {pc, "killed"} /\ logStuck' \in BOOLEAN
    BY <1>32 DEF EventFault, FaultEnds, FaultIsLogged, FaultHangs
  <2>2. UNCHANGED <<nodeVars, cfgVars, held, loopVars, pingVars, exiting, nodeDown, polls>>
    BY <1>32, Zenon DEF EventFault
  <2> QED
    BY <2>1, <2>2
<1>33. CASE MainFault
  <2>1. pc' \in {"killed", "parked"} /\ logStuck' \in BOOLEAN
    BY <1>33 DEF MainFault, FaultEnds, FaultIsLogged, FaultHangs, Silent
  <2>2. UNCHANGED <<nodeVars, cfgVars, held, handler, loopVars, pingVars, exiting, nodeDown, polls>>
    BY <1>33, Zenon DEF MainFault
  <2> QED
    BY <2>1, <2>2
<1>34. CASE FloodError
  BY <1>34 DEF FloodError
<1>35. CASE Arrive
  BY <1>35 DEF Arrive
<1>36. CASE UNCHANGED vars
  BY <1>36 DEF vars
<1> QED
  BY <1>1, <1>2, <1>3, <1>4, <1>5, <1>6, <1>7, <1>8, <1>9, <1>10, <1>11, <1>12,
     <1>13, <1>14, <1>15, <1>16, <1>17, <1>18, <1>19, <1>20, <1>21, <1>22, <1>23, <1>24,
     <1>25, <1>26, <1>27, <1>28, <1>29, <1>30, <1>31, <1>32, <1>33, <1>34, <1>35, <1>36
  DEF Next, Boot, Flood, Loop, Exit

\* No node exists before zts_init_from_storage, and held follows the early returns.
LEMMA BootStep ==
  ASSUME IInv, [Next]_vars
  PROVE  BootInv'
<1> USE DEF IInv, TypeOK, NodeTypeOK, Closes, Goto, Running, Alive, nodeVars, cfgVars, floodVars, recvVars, FloodOthers, Flooding, loopVars, pingVars, exitVars, BootInv, SocketsReleased
<1>1. CASE InitSockets
  BY <1>1 DEF InitSockets
<1>2. CASE EarlyReturn
  BY <1>2 DEF EarlyReturn
<1>3. CASE InitNode
  BY <1>3 DEF InitNode, CreateNode
<1>4. CASE RegisterHandler
  BY <1>4 DEF RegisterHandler
<1>5. CASE StartService
  BY <1>5 DEF StartService, StartNode
<1>6. CASE FloodOpen
  BY <1>6 DEF FloodOpen
<1>7. CASE FloodSelect
  BY <1>7 DEF FloodSelect
<1>8. CASE FloodReceive
  BY <1>8 DEF FloodReceive
<1>9. CASE FloodDrained
  BY <1>9 DEF FloodDrained
<1>10. CASE FloodCount
  BY <1>10 DEF FloodCount
<1>11. CASE SenderChanges
  BY <1>11 DEF SenderChanges
<1>12. CASE ReadOnline
  BY <1>12 DEF ReadOnline
<1>13. CASE SendJoin
  BY <1>13 DEF SendJoin
<1>14. CASE JoinDone
  BY <1>14 DEF JoinDone
<1>15. CASE SkipJoin
  BY <1>15 DEF SkipJoin
<1>16. CASE OpenPing
  BY <1>16 DEF OpenPing
<1>17. CASE SkipPing
  BY <1>17 DEF SkipPing
<1>18. CASE BindPing
  BY <1>18 DEF BindPing
<1>19. CASE BindFails
  BY <1>19 DEF BindFails
<1>20. CASE LeaveLoop
  BY <1>20 DEF LeaveLoop
<1>21. CASE ClosePing
  BY <1>21 DEF ClosePing
<1>22. CASE BeginExit
  BY <1>22 DEF BeginExit
<1>23. CASE LogExit
  BY <1>23 DEF LogExit
<1>24. CASE StopService
  BY <1>24 DEF StopService, StopNode
<1>25. CASE PollDown
  BY <1>25 DEF PollDown, PollAgain
<1>26. CASE StopWaiting
  BY <1>26 DEF StopWaiting, WaitIsOver
<1>27. CASE ExitSockets
  BY <1>27 DEF ExitSockets
<1>28. CASE ExitProcess
  BY <1>28 DEF ExitProcess
<1>29. CASE ServiceStep
  BY <1>29 DEF ServiceStep, ServiceNext, GoOnline, GoOffline, DestroyNode, LoseDownEvent
<1>30. CASE PrintEvent
  BY <1>30 DEF PrintEvent
<1>31. CASE ServiceFault
  BY <1>31 DEF ServiceFault, FaultEnds, FaultIsLogged, FaultHangs
<1>32. CASE EventFault
  BY <1>32 DEF EventFault, FaultEnds, FaultIsLogged, FaultHangs
<1>33. CASE MainFault
  BY <1>33 DEF MainFault, FaultEnds, FaultIsLogged, FaultHangs, Silent
<1>34. CASE FloodError
  BY <1>34 DEF FloodError
<1>35. CASE Arrive
  BY <1>35 DEF Arrive
<1>36. CASE UNCHANGED vars
  BY <1>36 DEF vars
<1> QED
  BY <1>1, <1>2, <1>3, <1>4, <1>5, <1>6, <1>7, <1>8, <1>9, <1>10, <1>11, <1>12,
     <1>13, <1>14, <1>15, <1>16, <1>17, <1>18, <1>19, <1>20, <1>21, <1>22, <1>23, <1>24,
     <1>25, <1>26, <1>27, <1>28, <1>29, <1>30, <1>31, <1>32, <1>33, <1>34, <1>35, <1>36
  DEF Next, Boot, Flood, Loop, Exit

\* NODE_DOWN is only ever queued by a destroyed node, and main leaves the wait on it or at its end.
LEMMA DownStep ==
  ASSUME IInv, [Next]_vars
  PROVE  DownInv'
<1> USE DEF IInv, TypeOK, NodeTypeOK, Closes, Goto, Running, Alive, nodeVars, cfgVars, floodVars, recvVars, FloodOthers, Flooding, loopVars, pingVars, exitVars, DownInv, BootInv
<1>1. CASE InitSockets
  BY <1>1 DEF InitSockets
<1>2. CASE EarlyReturn
  BY <1>2 DEF EarlyReturn
<1>3. CASE InitNode
  BY <1>3 DEF InitNode, CreateNode
<1>4. CASE RegisterHandler
  BY <1>4 DEF RegisterHandler
<1>5. CASE StartService
  BY <1>5 DEF StartService, StartNode
<1>6. CASE FloodOpen
  BY <1>6 DEF FloodOpen
<1>7. CASE FloodSelect
  BY <1>7 DEF FloodSelect
<1>8. CASE FloodReceive
  BY <1>8 DEF FloodReceive
<1>9. CASE FloodDrained
  BY <1>9 DEF FloodDrained
<1>10. CASE FloodCount
  BY <1>10 DEF FloodCount
<1>11. CASE SenderChanges
  BY <1>11 DEF SenderChanges
<1>12. CASE ReadOnline
  BY <1>12 DEF ReadOnline
<1>13. CASE SendJoin
  BY <1>13 DEF SendJoin
<1>14. CASE JoinDone
  BY <1>14 DEF JoinDone
<1>15. CASE SkipJoin
  BY <1>15 DEF SkipJoin
<1>16. CASE OpenPing
  BY <1>16 DEF OpenPing
<1>17. CASE SkipPing
  BY <1>17 DEF SkipPing
<1>18. CASE BindPing
  BY <1>18 DEF BindPing
<1>19. CASE BindFails
  BY <1>19 DEF BindFails
<1>20. CASE LeaveLoop
  BY <1>20 DEF LeaveLoop
<1>21. CASE ClosePing
  BY <1>21 DEF ClosePing
<1>22. CASE BeginExit
  BY <1>22 DEF BeginExit
<1>23. CASE LogExit
  BY <1>23 DEF LogExit
<1>24. CASE StopService
  BY <1>24 DEF StopService, StopNode
<1>25. CASE PollDown
  BY <1>25 DEF PollDown, PollAgain
<1>26. CASE StopWaiting
  BY <1>26 DEF StopWaiting, WaitIsOver
<1>27. CASE ExitSockets
  BY <1>27 DEF ExitSockets
<1>28. CASE ExitProcess
  BY <1>28 DEF ExitProcess
<1>29. CASE ServiceStep
  BY <1>29 DEF ServiceStep, ServiceNext, GoOnline, GoOffline, DestroyNode, LoseDownEvent
<1>30. CASE PrintEvent
  BY <1>30 DEF PrintEvent
<1>31. CASE ServiceFault
  BY <1>31 DEF ServiceFault, FaultEnds, FaultIsLogged, FaultHangs
<1>32. CASE EventFault
  BY <1>32 DEF EventFault, FaultEnds, FaultIsLogged, FaultHangs
<1>33. CASE MainFault
  BY <1>33 DEF MainFault, FaultEnds, FaultIsLogged, FaultHangs, Silent
<1>34. CASE FloodError
  BY <1>34 DEF FloodError
<1>35. CASE Arrive
  BY <1>35 DEF Arrive
<1>36. CASE UNCHANGED vars
  BY <1>36 DEF vars
<1> QED
  BY <1>1, <1>2, <1>3, <1>4, <1>5, <1>6, <1>7, <1>8, <1>9, <1>10, <1>11, <1>12,
     <1>13, <1>14, <1>15, <1>16, <1>17, <1>18, <1>19, <1>20, <1>21, <1>22, <1>23, <1>24,
     <1>25, <1>26, <1>27, <1>28, <1>29, <1>30, <1>31, <1>32, <1>33, <1>34, <1>35, <1>36
  DEF Next, Boot, Flood, Loop, Exit

\* g_ping_sock stands for the one open tunnel socket.
LEMMA PingStep ==
  ASSUME IInv, [Next]_vars
  PROVE  PingInv'
<1> USE DEF IInv, TypeOK, NodeTypeOK, Closes, Goto, Running, Alive, nodeVars, cfgVars, floodVars, recvVars, FloodOthers, Flooding, loopVars, pingVars, exitVars, PingInv, ExitInv
<1>1. CASE InitSockets
  BY <1>1 DEF InitSockets
<1>2. CASE EarlyReturn
  BY <1>2 DEF EarlyReturn
<1>3. CASE InitNode
  BY <1>3 DEF InitNode, CreateNode
<1>4. CASE RegisterHandler
  BY <1>4 DEF RegisterHandler
<1>5. CASE StartService
  BY <1>5 DEF StartService, StartNode
<1>6. CASE FloodOpen
  BY <1>6 DEF FloodOpen
<1>7. CASE FloodSelect
  BY <1>7 DEF FloodSelect
<1>8. CASE FloodReceive
  BY <1>8 DEF FloodReceive
<1>9. CASE FloodDrained
  BY <1>9 DEF FloodDrained
<1>10. CASE FloodCount
  BY <1>10 DEF FloodCount
<1>11. CASE SenderChanges
  BY <1>11 DEF SenderChanges
<1>12. CASE ReadOnline
  BY <1>12 DEF ReadOnline
<1>13. CASE SendJoin
  BY <1>13 DEF SendJoin
<1>14. CASE JoinDone
  BY <1>14 DEF JoinDone
<1>15. CASE SkipJoin
  BY <1>15 DEF SkipJoin
<1>16. CASE OpenPing
  BY <1>16 DEF OpenPing
<1>17. CASE SkipPing
  BY <1>17 DEF SkipPing
<1>18. CASE BindPing
  BY <1>18 DEF BindPing
<1>19. CASE BindFails
  BY <1>19 DEF BindFails
<1>20. CASE LeaveLoop
  BY <1>20 DEF LeaveLoop
<1>21. CASE ClosePing
  BY <1>21 DEF ClosePing
<1>22. CASE BeginExit
  BY <1>22 DEF BeginExit
<1>23. CASE LogExit
  BY <1>23 DEF LogExit
<1>24. CASE StopService
  BY <1>24 DEF StopService, StopNode
<1>25. CASE PollDown
  BY <1>25 DEF PollDown, PollAgain
<1>26. CASE StopWaiting
  BY <1>26 DEF StopWaiting, WaitIsOver
<1>27. CASE ExitSockets
  BY <1>27 DEF ExitSockets
<1>28. CASE ExitProcess
  BY <1>28 DEF ExitProcess
<1>29. CASE ServiceStep
  BY <1>29 DEF ServiceStep, ServiceNext, GoOnline, GoOffline, DestroyNode, LoseDownEvent
<1>30. CASE PrintEvent
  BY <1>30 DEF PrintEvent
<1>31. CASE ServiceFault
  BY <1>31 DEF ServiceFault, FaultEnds, FaultIsLogged, FaultHangs
<1>32. CASE EventFault
  BY <1>32 DEF EventFault, FaultEnds, FaultIsLogged, FaultHangs
<1>33. CASE MainFault
  BY <1>33 DEF MainFault, FaultEnds, FaultIsLogged, FaultHangs, Silent
<1>34. CASE FloodError
  BY <1>34 DEF FloodError
<1>35. CASE Arrive
  BY <1>35 DEF Arrive
<1>36. CASE UNCHANGED vars
  BY <1>36 DEF vars
<1> QED
  BY <1>1, <1>2, <1>3, <1>4, <1>5, <1>6, <1>7, <1>8, <1>9, <1>10, <1>11, <1>12,
     <1>13, <1>14, <1>15, <1>16, <1>17, <1>18, <1>19, <1>20, <1>21, <1>22, <1>23, <1>24,
     <1>25, <1>26, <1>27, <1>28, <1>29, <1>30, <1>31, <1>32, <1>33, <1>34, <1>35, <1>36
  DEF Next, Boot, Flood, Loop, Exit

\* g_exiting is set ahead of the node's terminate flag, and the ping socket is closed by then.
LEMMA ExitStep ==
  ASSUME IInv, [Next]_vars
  PROVE  ExitInv'
<1> USE DEF IInv, TypeOK, NodeTypeOK, Closes, Goto, Running, Alive, nodeVars, cfgVars, floodVars, recvVars, FloodOthers, Flooding, loopVars, pingVars, exitVars, ExitInv, PingInv
<1>1. CASE InitSockets
  BY <1>1 DEF InitSockets
<1>2. CASE EarlyReturn
  BY <1>2 DEF EarlyReturn
<1>3. CASE InitNode
  BY <1>3 DEF InitNode, CreateNode
<1>4. CASE RegisterHandler
  BY <1>4 DEF RegisterHandler
<1>5. CASE StartService
  BY <1>5 DEF StartService, StartNode
<1>6. CASE FloodOpen
  BY <1>6 DEF FloodOpen
<1>7. CASE FloodSelect
  BY <1>7 DEF FloodSelect
<1>8. CASE FloodReceive
  BY <1>8 DEF FloodReceive
<1>9. CASE FloodDrained
  BY <1>9 DEF FloodDrained
<1>10. CASE FloodCount
  BY <1>10 DEF FloodCount
<1>11. CASE SenderChanges
  BY <1>11 DEF SenderChanges
<1>12. CASE ReadOnline
  BY <1>12 DEF ReadOnline
<1>13. CASE SendJoin
  BY <1>13 DEF SendJoin
<1>14. CASE JoinDone
  BY <1>14 DEF JoinDone
<1>15. CASE SkipJoin
  BY <1>15 DEF SkipJoin
<1>16. CASE OpenPing
  BY <1>16 DEF OpenPing
<1>17. CASE SkipPing
  BY <1>17 DEF SkipPing
<1>18. CASE BindPing
  BY <1>18 DEF BindPing
<1>19. CASE BindFails
  BY <1>19 DEF BindFails
<1>20. CASE LeaveLoop
  BY <1>20 DEF LeaveLoop
<1>21. CASE ClosePing
  BY <1>21 DEF ClosePing
<1>22. CASE BeginExit
  BY <1>22 DEF BeginExit
<1>23. CASE LogExit
  BY <1>23 DEF LogExit
<1>24. CASE StopService
  BY <1>24 DEF StopService, StopNode
<1>25. CASE PollDown
  BY <1>25 DEF PollDown, PollAgain
<1>26. CASE StopWaiting
  BY <1>26 DEF StopWaiting, WaitIsOver
<1>27. CASE ExitSockets
  BY <1>27 DEF ExitSockets
<1>28. CASE ExitProcess
  BY <1>28 DEF ExitProcess
<1>29. CASE ServiceStep
  BY <1>29 DEF ServiceStep, ServiceNext, GoOnline, GoOffline, DestroyNode, LoseDownEvent
<1>30. CASE PrintEvent
  BY <1>30 DEF PrintEvent
<1>31. CASE ServiceFault
  BY <1>31 DEF ServiceFault, FaultEnds, FaultIsLogged, FaultHangs
<1>32. CASE EventFault
  BY <1>32 DEF EventFault, FaultEnds, FaultIsLogged, FaultHangs
<1>33. CASE MainFault
  BY <1>33 DEF MainFault, FaultEnds, FaultIsLogged, FaultHangs, Silent
<1>34. CASE FloodError
  BY <1>34 DEF FloodError
<1>35. CASE Arrive
  BY <1>35 DEF Arrive
<1>36. CASE UNCHANGED vars
  BY <1>36 DEF vars
<1> QED
  BY <1>1, <1>2, <1>3, <1>4, <1>5, <1>6, <1>7, <1>8, <1>9, <1>10, <1>11, <1>12,
     <1>13, <1>14, <1>15, <1>16, <1>17, <1>18, <1>19, <1>20, <1>21, <1>22, <1>23, <1>24,
     <1>25, <1>26, <1>27, <1>28, <1>29, <1>30, <1>31, <1>32, <1>33, <1>34, <1>35, <1>36
  DEF Next, Boot, Flood, Loop, Exit

\* main() starts with nothing but the console and the card open.
LEMMA InitInv == Init => IInv
<1> SUFFICES ASSUME Init PROVE IInv
  OBVIOUS
<1> USE DEF Init, NodeInit
<1>1. TypeOK
  <2>1. NodeTypeOK
    BY DEF NodeTypeOK
  <2>2. pc = "boot" /\ held \subseteq {"console", "sdmc", "sockets"}
    OBVIOUS
  <2>3. ztSocks \in 0 .. 1 /\ polls \in 0 .. MaxPolls /\ idle \in 0 .. MaxIdle
    OBVIOUS
  <2> QED
    BY <2>1, <2>2, <2>3 DEF TypeOK
<1>2. BootInv
  BY DEF BootInv, SocketsReleased, Closes
<1>3. DownInv
  BY DEF DownInv
<1>4. PingInv
  BY DEF PingInv
<1>5. ExitInv
  BY DEF ExitInv
<1> QED
  BY <1>1, <1>2, <1>3, <1>4, <1>5 DEF IInv

\* Its IInv holds in every reachable state.
THEOREM Invariance == Spec => []IInv
<1>1. IInv /\ [Next]_vars => IInv'
  BY TypeStep, BootStep, DownStep, PingStep, ExitStep DEF IInv
<1> QED
  BY InitInv, <1>1, PTL DEF Spec

\* Every variable keeps its type, whatever the length of the wait.
THEOREM TypeCorrect == Spec => []TypeOK
<1>1. IInv => TypeOK
  BY DEF IInv
<1> QED
  BY Invariance, <1>1, PTL

\* main() never calls socketExit under a running service thread before the whole
\* wait is over.
THEOREM NodeBeforeSockets == Spec => []SocketsOutliveNode
<1>1. IInv => SocketsOutliveNode
  BY DEF IInv, DownInv, BootInv, SocketsOutliveNode, Running
<1> QED
  BY Invariance, <1>1, PTL

\* Only the return for a missing network ID leaves the socket service open.
THEOREM SocketsGivenBack == Spec => []SocketsReleased
<1>1. IInv => SocketsReleased
  BY DEF IInv, BootInv, SocketsReleased
<1> QED
  BY Invariance, <1>1, PTL

\* The ping socket is accounted for, and closed before zts_node_stop.
THEOREM PingSocketClosed == Spec => []PingSocketAccounted
<1>1. IInv => PingSocketAccounted
  BY DEF IInv, PingInv, ExitInv, PingSocketAccounted
<1> QED
  BY Invariance, <1>1, PTL

\* No service thread is parked by a fault once the node was told to stop, but by
\* the one that takes the log's mutex along.
THEOREM TeardownFaultsEnd == Spec => NoParkingInTeardown
<1>1. IInv /\ [Next]_vars => [stopFlag /\ service' = "parked" => service = "parked" \/ logStuck']_vars
  <2> SUFFICES ASSUME IInv, [Next]_vars, stopFlag, service' = "parked", service # "parked",
                      ~logStuck'
               PROVE  FALSE
    OBVIOUS
  <2>1. exiting
    BY DEF IInv, ExitInv
  <2>2. ~ServiceFault
    BY <2>1 DEF ServiceFault, FaultHangs
  <2>3. ~UNCHANGED service
    OBVIOUS
  <2>4. ~ServiceStep
    BY DEF ServiceStep, ServiceNext, GoOnline, GoOffline, DestroyNode, LoseDownEvent
  <2>5. ~Boot
    BY <2>3 DEF Boot, InitSockets, EarlyReturn, InitNode, RegisterHandler, StartService,
                CreateNode, StartNode, nodeVars
  <2>6. ~Flood /\ ~SenderChanges /\ ~Arrive
    BY <2>3 DEF Flood, FloodOpen, FloodSelect, FloodReceive, FloodDrained, FloodError, FloodCount,
                SenderChanges, Arrive, FloodOthers, nodeVars
  <2>7. ~Loop /\ ~Exit
    BY <2>3 DEF Loop, ReadOnline, SendJoin, JoinDone, SkipJoin, OpenPing, SkipPing, BindPing, BindFails,
                LeaveLoop, Exit, ClosePing, BeginExit, LogExit, StopService, StopNode, PollDown,
                PollAgain, StopWaiting, WaitIsOver, ExitSockets, ExitProcess, nodeVars
  <2> QED
    BY <2>2, <2>3, <2>4, <2>5, <2>6, <2>7 DEF Next, PrintEvent, EventFault, MainFault, vars, nodeVars
<1> QED
  BY Invariance, <1>1, PTL DEF Spec, NoParkingInTeardown

-----------------------------------------------------------------------------
(* The desktop node, PcDiag.                                               *)

\* Every step of main, of the signal handler and of libzt's threads keeps its IInv.
LEMMA PcStep ==
  ASSUME Pc!IInv, [Pc!Next]_Pc!vars
  PROVE  Pc!IInv'
<1> USE DEF Pc!IInv, Pc!TypeOK, Pc!NodeTypeOK, Pc!ReturnAfterNode, Pc!Goto, Pc!Running, Pc!Alive, Pc!nodeVars, Pc!netVars
<1>1. CASE Pc!ReadConfig
  BY <1>1 DEF Pc!ReadConfig, Pc!CreateNode
<1>2. CASE Pc!StartService
  BY <1>2 DEF Pc!StartService, Pc!StartNode
<1>3. CASE Pc!WaitOnline
  BY <1>3 DEF Pc!WaitOnline
<1>4. CASE Pc!Join
  BY <1>4 DEF Pc!Join
<1>5. CASE Pc!WaitAddress
  BY <1>5 DEF Pc!WaitAddress
<1>6. CASE Pc!OpenSocket
  BY <1>6 DEF Pc!OpenSocket
<1>7. CASE Pc!LeaveLoop
  BY <1>7 DEF Pc!LeaveLoop
<1>8. CASE Pc!CloseSocket
  BY <1>8 DEF Pc!CloseSocket
<1>9. CASE Pc!StopService
  BY <1>9 DEF Pc!StopService, Pc!StopNode
<1>10. CASE Pc!PollDown
  BY <1>10 DEF Pc!PollDown, Pc!PollAgain
<1>11. CASE Pc!ReturnFromMain
  BY <1>11 DEF Pc!ReturnFromMain, Pc!WaitIsOver
<1>12. CASE Pc!OnSigint
  BY <1>12 DEF Pc!OnSigint
<1>13. CASE Pc!OnEvent
  <2>1. service = "gone" /\ UNCHANGED <<service, stopFlag>>
    BY <1>13 DEF Pc!OnEvent
  <2>2. downEvent' = FALSE /\ nodeDown' = TRUE
    BY <1>13, Zenon DEF Pc!OnEvent
  <2>3. UNCHANGED <<pc, shutdown, Pc!netVars, sock, polls>>
    BY <1>13, Zenon DEF Pc!OnEvent
  <2> QED
    BY <2>1, <2>2, <2>3
<1>14. CASE Pc!ServiceStep
  <2>1. Pc!NodeTypeOK' /\ (downEvent' \/ nodeDown => service' = "gone")
    <3>1. CASE Pc!GoOnline
      BY <3>1 DEF Pc!GoOnline
    <3>2. CASE Pc!GoOffline
      BY <3>2 DEF Pc!GoOffline
    <3>3. CASE Pc!DestroyNode
      BY <3>3 DEF Pc!DestroyNode
    <3>4. CASE Pc!LoseDownEvent
      <4>1. service = "gone" /\ UNCHANGED <<service, stopFlag>> /\ downEvent' = FALSE
        BY <3>4 DEF Pc!LoseDownEvent
      <4> QED
        BY <4>1
    <3> QED
      BY <1>14, <3>1, <3>2, <3>3, <3>4 DEF Pc!ServiceStep, Pc!ServiceNext
  <2>2. service \in {"none", "created"} => service' = service
    BY <1>14 DEF Pc!ServiceStep, Pc!ServiceNext, Pc!GoOnline, Pc!GoOffline, Pc!DestroyNode, Pc!LoseDownEvent
  <2>3. pc # "ended" /\ UNCHANGED <<pc, shutdown, nodeDown, Pc!netVars, sock, polls>>
    BY <1>14, Zenon DEF Pc!ServiceStep
  <2> QED
    BY <2>1, <2>2, <2>3
<1>15. CASE Pc!AssignAddress
  BY <1>15 DEF Pc!AssignAddress
<1>16. CASE UNCHANGED Pc!vars
  BY <1>16 DEF Pc!vars
<1> QED
  BY <1>1, <1>2, <1>3, <1>4, <1>5, <1>6, <1>7, <1>8, <1>9, <1>10, <1>11, <1>12,
     <1>13, <1>14, <1>15, <1>16
  DEF Pc!Next, Pc!Main

\* Its IInv holds in every reachable state.
THEOREM PcInvariance == Pc!Spec => []Pc!IInv
<1>1. Pc!Init => Pc!IInv
  <2> SUFFICES ASSUME Pc!Init PROVE Pc!IInv
    OBVIOUS
  <2>1. Pc!NodeTypeOK /\ service = "none" /\ ~downEvent /\ ~nodeDown
    BY Zenon DEF Pc!Init, Pc!NodeInit, Pc!NodeTypeOK
  <2>2. pc = "config" /\ polls \in 0 .. MaxPolls
    BY DEF Pc!Init
  <2>3. {shutdown, nodeDown, joinSent, authorized, assigned, sock} \subseteq BOOLEAN
    BY DEF Pc!Init
  <2> QED
    BY <2>1, <2>2, <2>3 DEF Pc!IInv, Pc!TypeOK, Pc!ReturnAfterNode
<1> QED
  BY <1>1, PcStep, PTL DEF Pc!Spec

\* Every variable of the desktop node keeps its type, whatever the length of the
\* wait.
THEOREM PcTypeCorrect == Pc!Spec => []Pc!TypeOK
<1>1. Pc!IInv => Pc!TypeOK
  BY DEF Pc!IInv, Pc!TypeOK
<1> QED
  BY PcInvariance, <1>1, PTL

\* Its main() returns under a running service thread only at the end of the whole wait.
THEOREM NodeBeforeReturn == Pc!Spec => []ReturnAfterNode
<1>1. Pc!IInv => ReturnAfterNode
  BY DEF Pc!IInv, Pc!ReturnAfterNode, Pc!Running, ReturnAfterNode, Running
<1> QED
  BY PcInvariance, <1>1, PTL
=============================================================================
