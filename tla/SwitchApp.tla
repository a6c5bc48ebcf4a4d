----------------------------- MODULE SwitchApp -----------------------------
(***************************************************************************)
(* Life of the Switch .nro, source/main.cpp main(): boot with its early    *)
(* exits, the main loop that joins the network and brings up the ping      *)
(* responder, and the exit that must not take the sockets away from the    *)
(* ZeroTier service thread.  Threads: main, libzt's service thread (module *)
(* ZtNode) and libzt's event thread, which runs print_event.  Any of them  *)
(* may fault (source/posix_compat.cpp's exception handler), also while it  *)
(* holds one of the two mutexes of module DiagConsole: in log_write, where *)
(* the handler that logs too then waits for its own thread, or in the copy *)
(* into g_diag_buf.  Everyone who prints waits for that mutex from then on.*)
(***************************************************************************)
EXTENDS NodeWait

CONSTANT MaxIdle   \* rounds without data that end the flood test: 3000 / 250
ASSUME IdleAssumption == MaxIdle \in Nat \ {0}

VARIABLES
  hasId,     \* network_id.txt holds a network ID
  floodTest, \* the flood_test file exists
  streaming, \* somebody sends datagrams to port 9999
  queue,     \* the next of them in its socket, "none" if there is none
  nonblock,  \* fcntl could make that socket non-blocking
  gotData,   \* probe_udp_flood's got_data
  idle,      \* its idle_ms, in rounds of 250 ms
  held,      \* services main() has open
  handler,   \* print_event is registered, and its thread runs
  online,    \* the loop's local copy of zts_node_is_online()
  joined,    \* the loop's local flag
  joinRc,    \* join_rc, "none" before the call
  pingSock,  \* g_ping_sock >= 0
  answering, \* and it is bound: PINGs that come for it are answered
  ztSocks,   \* zts_bsd_* sockets open
  exiting,   \* g_exiting
  logStuck   \* a thread faulted with g_log_mutex, or g_diag_mutex, locked: it is never
             \* free again, and main waits for it where it prints next

recvVars == <<streaming, queue, nonblock>>
floodVars == <<recvVars, gotData, idle>>
cfgVars  == <<hasId, floodTest, floodVars>>
loopVars == <<online, joined, joinRc>>
pingVars == <<pingSock, answering, ztSocks>>
exitVars == <<exiting, nodeDown, polls, logStuck>>
vars == <<nodeVars, pc, cfgVars, held, handler, loopVars, pingVars, exitVars>>

Init ==
  /\ NodeInit
  /\ pc = "boot"
  /\ hasId \in BOOLEAN /\ floodTest \in BOOLEAN
  /\ streaming = FALSE /\ queue = "none" /\ nonblock = FALSE
  /\ gotData = FALSE /\ idle = 0
  /\ held = {"console", "sdmc"}
  /\ handler = FALSE
  /\ online = FALSE /\ joined = FALSE /\ joinRc = "none"
  /\ pingSock = FALSE /\ answering = FALSE /\ ztSocks = 0
  /\ exiting = FALSE /\ nodeDown = FALSE /\ polls = 0 /\ logStuck = FALSE

-----------------------------------------------------------------------------
(* Boot.  The "hold" states are wait_for_applet_exit().                    *)

InitSockets ==
  /\ \/ Goto("boot", "holdNet") /\ UNCHANGED held
     \/ /\ Goto("boot", IF floodTest THEN "flood" ELSE IF hasId THEN "init" ELSE "holdId")
        /\ held' = held \cup {"sockets"}
  /\ UNCHANGED <<nodeVars, cfgVars, handler, loopVars, pingVars, exitVars>>

\* Mutant of Closes: the return after a failed initialisation forgets socketExit.
BugLeakAfterInit == [holdNet  |-> {"sdmc", "console"},
                     floodEnd |-> {"sockets", "sdmc", "console"},
                     holdId   |-> {"sdmc", "console"},
                     holdInit |-> {"sdmc", "console"}]

\* What each early return of main() closes.
Closes == [holdNet  |-> {"sdmc", "console"},
           floodEnd |-> {"sockets", "sdmc", "console"},
           holdId   |-> {"sdmc", "console"},
           holdInit |-> {"sockets", "sdmc", "console"}]

EarlyReturn ==
  /\ pc \in DOMAIN Closes
  /\ pc' = "ended"
  /\ held' = held \ Closes[pc]
  /\ UNCHANGED <<nodeVars, cfgVars, handler, loopVars, pingVars, exitVars>>

\* init_zerotier_with_diagnostics: the pipe() test, then zts_init_from_storage.
InitNode ==
  /\ \/ Goto("init", "holdInit") /\ UNCHANGED nodeVars
     \/ Goto("init", "register") /\ CreateNode
  /\ UNCHANGED <<cfgVars, held, handler, loopVars, pingVars, exitVars>>

RegisterHandler ==
  /\ Goto("register", "start")
  /\ handler' = TRUE
  /\ UNCHANGED <<nodeVars, cfgVars, held, loopVars, pingVars, exitVars>>

\* A failed zts_node_start is printed and main() carries on.
StartService ==
  /\ Goto("start", "loop")
  /\ StartNode \/ UNCHANGED nodeVars
  /\ UNCHANGED <<cfgVars, held, handler, loopVars, pingVars, exitVars>>

-----------------------------------------------------------------------------
(* probe_udp_flood.  Its socket is closed on every way out.                *)

FloodOthers == <<nodeVars, hasId, floodTest, held, handler, loopVars, pingVars, exitVars>>

\* What fcntl returns is ignored: the socket may go on blocking.
FloodOpen ==
  /\ \/ Goto("flood", "select") /\ nonblock' \in BOOLEAN
     \/ Goto("flood", "floodEnd") /\ UNCHANGED nonblock
  /\ UNCHANGED <<FloodOthers, streaming, queue, gotData, idle>>

\* Mutant of FloodSelect: a socket that is ready counts as data.
BugReadyIsData ==
  /\ \/ Goto("select", "drain") /\ gotData' = TRUE
     \/ Goto("select", "count") /\ gotData' = FALSE
  /\ UNCHANGED <<FloodOthers, recvVars, idle>>

\* Ready, with or without a datagram, or else the timeout or an error.
FloodSelect ==
  /\ Goto("select", "drain") \/ Goto("select", "count")
  /\ gotData' = FALSE
  /\ UNCHANGED <<FloodOthers, recvVars, idle>>

\* recvfrom until it fails.  An empty datagram is no data, and no end either.
FloodReceive ==
  /\ pc = "drain" /\ queue # "none"
  /\ queue' = "none"
  /\ gotData' = (gotData \/ queue = "data")
  /\ UNCHANGED <<FloodOthers, pc, streaming, nonblock, idle>>

\* EWOULDBLOCK; a socket that blocks waits for the next datagram.
FloodDrained ==
  /\ Goto("drain", "count")
  /\ queue = "none" /\ nonblock
  /\ UNCHANGED <<FloodOthers, floodVars>>

FloodError ==
  /\ Goto("drain", "count")
  /\ UNCHANGED <<FloodOthers, floodVars>>

FloodCount ==
  /\ idle' = IF gotData THEN 0 ELSE idle + 1
  /\ Goto("count", IF idle' >= MaxIdle THEN "floodEnd" ELSE "select")
  /\ UNCHANGED <<FloodOthers, recvVars, gotData>>

Flooding == {"flood", "select", "drain", "count"}

SenderChanges ==
  /\ pc \in Flooding
  /\ streaming' = ~streaming
  /\ UNCHANGED <<FloodOthers, pc, queue, nonblock, gotData, idle>>

Arrive ==
  /\ pc \in Flooding \ {"flood"}
  /\ streaming /\ queue = "none"
  /\ queue' \in {"data", "empty"}
  /\ UNCHANGED <<FloodOthers, pc, streaming, nonblock, gotData, idle>>

Flood == FloodOpen \/ FloodSelect \/ FloodReceive \/ FloodDrained \/ FloodError \/ FloodCount

-----------------------------------------------------------------------------
(* One round of the main loop; zts_* calls read a service that runs on.    *)

ReadOnline ==
  /\ Goto("loop", "join")
  /\ online' = (service = "online")
  /\ UNCHANGED <<nodeVars, cfgVars, held, handler, joined, joinRc, pingVars, exitVars>>

\* The service refuses a join once it has stopped, and may refuse it before.
SendJoin ==
  /\ online /\ ~joined
  /\ Goto("join", "joined")
  /\ joinRc' \in IF Running THEN {"ok", "error"} ELSE {"error"}
  /\ UNCHANGED <<nodeVars, cfgVars, held, handler, online, joined, pingVars, exitVars>>

\* What zts_net_join returned is printed, and joined is set whatever it was.
JoinDone ==
  /\ ~logStuck
  /\ Goto("joined", "ping")
  /\ joined' = TRUE
  /\ UNCHANGED <<nodeVars, cfgVars, held, handler, online, joinRc, pingVars, exitVars>>

\* Mutant of SkipJoin: joined is set outside the if.
BugJoinedOffline ==
  /\ ~(online /\ ~joined)
  /\ Goto("join", "ping")
  /\ joined' = TRUE
  /\ UNCHANGED <<nodeVars, cfgVars, held, handler, online, joinRc, pingVars, exitVars>>

SkipJoin ==
  /\ ~(online /\ ~joined)
  /\ Goto("join", "ping")
  /\ UNCHANGED <<nodeVars, cfgVars, held, handler, loopVars, pingVars, exitVars>>

\* ping_responder_init, retried in every round until it succeeds.
OpenPing ==
  /\ online /\ ~pingSock
  /\ \/ Goto("ping", "bind") /\ pingSock' = TRUE /\ ztSocks' = ztSocks + 1
     \/ Goto("ping", "loop") /\ UNCHANGED <<pingSock, ztSocks>>
  /\ UNCHANGED <<nodeVars, cfgVars, held, handler, loopVars, answering, exitVars>>

SkipPing ==
  /\ ~(online /\ ~pingSock)
  /\ Goto("ping", "loop")
  /\ UNCHANGED <<nodeVars, cfgVars, held, handler, loopVars, pingVars, exitVars>>

BindPing ==
  /\ ~logStuck
  /\ Goto("bind", "loop")
  /\ answering' = TRUE
  /\ UNCHANGED <<nodeVars, cfgVars, held, handler, loopVars, pingSock, ztSocks, exitVars>>

\* Mutants of BindFails: the socket is forgotten and not closed, or closed and
\* not forgotten.
BugBindLeak ==
  /\ Goto("bind", "loop")
  /\ pingSock' = FALSE
  /\ UNCHANGED <<nodeVars, cfgVars, held, handler, loopVars, answering, ztSocks, exitVars>>

BugBindKeeps ==
  /\ Goto("bind", "loop")
  /\ ztSocks' = ztSocks - 1
  /\ UNCHANGED <<nodeVars, cfgVars, held, handler, loopVars, pingSock, answering, exitVars>>

BindFails ==
  /\ Goto("bind", "loop")
  /\ pingSock' = FALSE /\ ztSocks' = ztSocks - 1
  /\ UNCHANGED <<nodeVars, cfgVars, held, handler, loopVars, answering, exitVars>>

\* appletMainLoop() is over or + was pressed.
LeaveLoop ==
  /\ Goto("loop", "closePing")
  /\ UNCHANGED <<nodeVars, cfgVars, held, handler, loopVars, pingVars, exitVars>>

-----------------------------------------------------------------------------
(* Exit.  The last that main prints is zt_log after zt_begin_exit.         *)

ClosePing ==
  /\ ~logStuck
  /\ Goto("closePing", "beginExit")
  /\ pingSock' = FALSE /\ answering' = FALSE
  /\ ztSocks' = IF pingSock THEN ztSocks - 1 ELSE ztSocks
  /\ UNCHANGED <<nodeVars, cfgVars, held, handler, loopVars, exitVars>>

\* Mutant of BeginExit: zt_begin_exit is not called ahead of zts_node_stop.
BugNoBeginExit ==
  /\ Goto("beginExit", "logExit")
  /\ UNCHANGED <<nodeVars, cfgVars, held, handler, loopVars, pingVars, exitVars>>

BeginExit ==
  /\ Goto("beginExit", "logExit")
  /\ exiting' = TRUE
  /\ UNCHANGED <<nodeVars, cfgVars, held, handler, loopVars, pingVars, nodeDown, polls, logStuck>>

LogExit ==
  /\ ~logStuck
  /\ Goto("logExit", "stop")
  /\ UNCHANGED <<nodeVars, cfgVars, held, handler, loopVars, pingVars, exitVars>>

StopService ==
  /\ Goto("stop", "wait")
  /\ StopNode
  /\ UNCHANGED <<cfgVars, held, handler, loopVars, pingVars, exitVars>>

PollDown ==
  /\ PollAgain
  /\ UNCHANGED <<cfgVars, held, handler, loopVars, pingVars, exiting, logStuck>>

\* Mutants of StopWaiting: a guessed delay in place of the event, and a wait
\* without a bound.
BugGuessedDelay ==
  /\ Goto("wait", "socketExit")
  /\ UNCHANGED <<nodeVars, cfgVars, held, handler, loopVars, pingVars, exitVars>>

BugUnboundedWait ==
  /\ nodeDown
  /\ Goto("wait", "socketExit")
  /\ UNCHANGED <<nodeVars, cfgVars, held, handler, loopVars, pingVars, exitVars>>

StopWaiting ==
  /\ WaitIsOver
  /\ Goto("wait", "socketExit")
  /\ UNCHANGED <<nodeVars, cfgVars, held, handler, loopVars, pingVars, exitVars>>

\* 100 ms after the wait: socketExit, consoleExit, svcExitProcess.
ExitSockets ==
  /\ Goto("socketExit", "exitProcess")
  /\ held' = held \ {"sockets"}
  /\ UNCHANGED <<nodeVars, cfgVars, handler, loopVars, pingVars, exitVars>>

ExitProcess ==
  /\ Goto("exitProcess", "ended")
  /\ held' = held \ {"console"}
  /\ UNCHANGED <<nodeVars, cfgVars, handler, loopVars, pingVars, exitVars>>

-----------------------------------------------------------------------------
(* The other threads.  They live while the process does.                   *)

Alive == pc \notin {"ended", "killed"}

ServiceStep ==
  /\ Alive /\ ServiceNext
  /\ UNCHANGED <<pc, cfgVars, held, handler, loopVars, pingVars, exitVars>>

\* print_event, case ZTS_EVENT_NODE_DOWN, on the event thread.
PrintEvent ==
  /\ Alive /\ handler /\ downEvent
  /\ downEvent' = FALSE
  /\ nodeDown' = TRUE
  /\ UNCHANGED <<service, stopFlag, pc, cfgVars, held, handler, loopVars, pingVars,
                 exiting, polls, logStuck>>

\* __libnx_exception_handler and, before exit, diag_halt log the fault first.  A
\* thread that faulted in log_write gets no further, nor does any other after it.
FaultIsLogged == logStuck' = logStuck /\ ~logStuck
FaultHangs == logStuck' = TRUE

\* Once g_exiting is set an exception that was logged, or an abort(), which then is
\* not logged, ends the process; before that both park their thread for ever.
FaultEnds == exiting /\ pc' = "killed" /\ UNCHANGED logStuck

ServiceFault ==
  /\ Alive /\ Running
  /\ \/ FaultEnds /\ UNCHANGED service
     \/ FaultIsLogged /\ ~exiting /\ service' = "parked" /\ UNCHANGED pc
     \/ FaultHangs /\ service' = "parked" /\ UNCHANGED pc
  /\ UNCHANGED <<stopFlag, downEvent, cfgVars, held, handler, loopVars, pingVars,
                 exiting, nodeDown, polls>>

EventFault ==
  /\ Alive /\ handler /\ service \notin {"none", "created"}
  /\ \/ FaultEnds /\ UNCHANGED handler
     \/ FaultIsLogged /\ ~exiting /\ handler' = FALSE /\ UNCHANGED pc
     \/ FaultHangs /\ handler' = FALSE /\ UNCHANGED pc
  /\ UNCHANGED <<nodeVars, cfgVars, held, loopVars, pingVars, exiting, nodeDown, polls>>

\* main logs nothing from zts_node_stop on.
Silent == pc \in {"stop", "wait", "socketExit", "exitProcess"}

MainFault ==
  /\ Alive /\ pc # "parked"
  /\ \/ FaultEnds
     \/ FaultIsLogged /\ ~exiting /\ pc' = "parked"
     \/ FaultHangs /\ (Silent => logStuck) /\ pc' = "parked"
  /\ UNCHANGED <<nodeVars, cfgVars, held, handler, loopVars, pingVars, exiting, nodeDown, polls>>

-----------------------------------------------------------------------------
Boot == InitSockets \/ EarlyReturn \/ InitNode \/ RegisterHandler \/ StartService
Loop == ReadOnline \/ SendJoin \/ JoinDone \/ SkipJoin \/ OpenPing \/ SkipPing \/ BindPing
          \/ BindFails \/ LeaveLoop
Exit == ClosePing \/ BeginExit \/ LogExit \/ StopService \/ PollDown \/ StopWaiting
          \/ ExitSockets \/ ExitProcess

Next ==
  Boot \/ Flood \/ SenderChanges \/ Arrive \/ Loop \/ Exit \/ ServiceStep \/ PrintEvent
    \/ ServiceFault \/ EventFault \/ MainFault

Spec == Init /\ [][Next]_vars

\* Main keeps running wherever no input is needed (the hold states and the exit
\* of the loop wait for the user), and recvfrom returns when there is a datagram
\* or it need not wait for one.  That opening and binding the ping socket succeed
\* in some round is assumed; nothing is of the service, the event thread or the
\* network.
Fairness ==
  /\ WF_vars(InitSockets \/ InitNode \/ RegisterHandler \/ StartService)
  /\ WF_vars(FloodOpen \/ FloodSelect \/ FloodCount)
  /\ WF_vars(FloodReceive \/ FloodDrained)
  /\ WF_vars(ReadOnline \/ SendJoin \/ JoinDone \/ SkipJoin \/ SkipPing \/ BindPing)
  /\ SF_vars(OpenPing /\ pc' = "bind")
  /\ SF_vars(BindPing)
  /\ WF_vars(Exit)

FairSpec == Spec /\ Fairness

-----------------------------------------------------------------------------
\* The types of the variables.
TypeOK ==
  /\ NodeTypeOK
  /\ pc \in DOMAIN Closes \cup Flooding \cup
       {"boot", "init", "register", "start", "loop", "join", "joined", "ping", "bind",
        "closePing", "beginExit", "logExit", "stop", "wait", "socketExit", "exitProcess",
        "ended", "killed", "parked"}
  /\ held \subseteq {"console", "sdmc", "sockets"}
  /\ hasId \in BOOLEAN /\ floodTest \in BOOLEAN /\ handler \in BOOLEAN
  /\ online \in BOOLEAN /\ joined \in BOOLEAN /\ joinRc \in {"none", "ok", "error"}
  /\ pingSock \in BOOLEAN /\ answering \in BOOLEAN /\ exiting \in BOOLEAN /\ nodeDown \in BOOLEAN
  /\ logStuck \in BOOLEAN /\ streaming \in BOOLEAN /\ gotData \in BOOLEAN
  /\ queue \in {"none", "data", "empty"} /\ nonblock \in BOOLEAN
  /\ idle \in 0 .. MaxIdle
  /\ ztSocks \in 0 .. 1
  /\ polls \in 0 .. MaxPolls

\* socketExit never pulls the sockets from under a running service thread
\* unless the whole bounded wait has passed without ZTS_EVENT_NODE_DOWN.
SocketsOutliveNode ==
  pc \in {"exitProcess", "ended"} /\ Running => polls = MaxPolls

\* Every return of main() after socketInitialize gives the socket service back,
\* except the one for a missing network ID.
SocketsReleased ==
  pc = "ended" /\ "sockets" \in held => ~hasId /\ ~floodTest

\* g_ping_sock is the only tunnel socket, none is lost when bind fails, and it
\* is closed before the node it belongs to is told to stop.
PingSocketAccounted ==
  /\ ztSocks = IF pingSock THEN 1 ELSE 0
  /\ stopFlag => ztSocks = 0

\* A service thread that faults while the node is torn down ends the process;
\* it is not parked, which would cost the user the full wait, unless the log's
\* mutex is lost.
NoParkingInTeardown ==
  [][stopFlag /\ service' = "parked" => service = "parked" \/ logStuck']_vars

\* Once zt_begin_exit() ran the process ends: neither a missed NODE_DOWN, a
\* parked service thread nor a fault keeps the exit path hanging, only a fault
\* inside log_write does.
ExitEnds == exiting ~> pc \in {"ended", "killed"} \/ logStuck

\* While main() is in its loop and can print.
Looping == pc \in {"loop", "join", "joined", "ping", "bind"} /\ ~logStuck

\* A node that comes online to stay is joined to its network, however often it was
\* seen online and lost before, or the one call of zts_net_join failed: main() never
\* repeats it.
JoinsWhenOnline ==
  <>[](service = "online") => <>[](joinRc # "none" \/ ~Looping)

\* And the ping responder answers, and goes on answering, however often its socket
\* could not be opened or bound.
RespondsWhenOnline ==
  <>[](service = "online") => <>[](answering \/ ~Looping)

\* The flood test ends once no more datagrams come, empty ones included, and with it
\* the process can, although select may report its socket ready, or fail, for ever.
\* Only a socket that fcntl left blocking keeps it, in recvfrom.
FloodEnds ==
  <>[]~streaming => <>[](pc \in Flooding => pc = "drain" /\ ~nonblock)

-----------------------------------------------------------------------------
(* The inductive invariant behind the proofs.                              *)

\* How far boot has got, by what is open.
BootInv ==
  /\ pc \in DOMAIN Closes \cup Flooding \cup {"boot", "init"} => service = "none"
  /\ pc \in Flooding => idle < MaxIdle
  /\ pc = "boot" => idle = 0
  /\ pc \in {"boot", "holdNet", "exitProcess"} => "sockets" \notin held
  /\ pc = "holdId" => ~hasId /\ ~floodTest
  /\ SocketsReleased

\* The event never runs ahead of Node's destructor, nor main ahead of the event
\* or the end of its wait.
DownInv ==
  /\ downEvent \/ nodeDown => service = "gone"
  /\ pc \in {"socketExit", "exitProcess"} => nodeDown \/ polls = MaxPolls
  /\ pc = "ended" => nodeDown \/ polls = MaxPolls \/ service = "none"

PingInv ==
  /\ ztSocks = IF pingSock THEN 1 ELSE 0
  /\ answering => pingSock
  /\ pc = "bind" => pingSock /\ ~answering
  /\ pc \in {"beginExit", "logExit", "stop", "wait", "socketExit", "exitProcess"} => ~pingSock
  /\ exiting => ~pingSock

ExitInv ==
  /\ stopFlag => exiting
  /\ exiting => pc \in {"logExit", "stop", "wait", "socketExit", "exitProcess", "ended",
                        "killed", "parked"}
  /\ pc \in {"logExit", "stop", "wait", "socketExit", "exitProcess"} => exiting

IInv == TypeOK /\ BootInv /\ DownInv /\ PingInv /\ ExitInv
=============================================================================
