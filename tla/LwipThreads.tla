---------------------------- MODULE LwipThreads ----------------------------
(***************************************************************************)
(* How the patched libzt starts its two lwIP threads.  zts_lwip_driver_init*)
(* calls sys_thread_new for the driver thread, and that one, in tcpip_init,*)
(* calls it again for the tcpip thread and waits on a semaphore until that *)
(* one has called back.  sys_thread_new first creates the thread and only  *)
(* then registers it, in a table of the parent's, so a child may well run, *)
(* and create and register a child of its own, while its parent has not    *)
(* registered it yet.  patch-lwip-switch-thread.py replaces the list under *)
(* a mutex by an array and an atomic counter, patch-libzt-switch-bootstrap *)
(* the abort() for a thread that could not be registered by NULL.  What the*)
(* tcpip thread calls back, tcpip_init_done with its argument, is one pair *)
(* of file-scope variables: a second start writes over that of the first.  *)
(***************************************************************************)
EXTENDS Naturals

CONSTANTS
  Starts,  \* bound: calls of zts_lwip_driver_init
  Slots    \* the size of switch_threads (32)

ASSUME StartsAssumption == Starts \in Nat
ASSUME SlotsAssumption == Slots \in Nat

Rounds == 1 .. Starts
Driver(r) == <<r, "driver">>
Tcpip(r) == <<r, "tcpip">>
Threads == Rounds \X {"driver", "tcpip"}
Index == 0 .. Slots - 1

NoThread == <<0, "none">>
NULL == Slots   \* no index of the table

VARIABLES
  table,    \* switch_threads[].pthread
  count,    \* switch_thread_count
  call,     \* where the call of sys_thread_new that creates the thread stands
  slot,     \* the local variable "slot" of that call
  handle,   \* what it has returned: an index of the table, or NULL
  alive,    \* threads created
  driver,   \* where the driver thread stands
  sem,      \* its semaphore
  initArg,  \* tcpip_init_done_arg, as the start whose semaphore it is, or 0
  tcpip,    \* where the tcpip thread stands
  up        \* zts_lwip_is_up()

callVars == <<table, count, call, slot, handle, alive>>
startVars == <<driver, sem, initArg, tcpip, up>>
vars == <<callVars, startVars>>

Init ==
  /\ table = [i \in Index |-> NoThread]
  /\ count = 0
  /\ call = [t \in Threads |-> "not called"]
  /\ slot = [t \in Threads |-> 0]
  /\ handle = [t \in Threads |-> NULL]
  /\ alive = {}
  /\ driver = [r \in Rounds |-> "entry"]
  /\ sem = [r \in Rounds |-> 0]
  /\ initArg = 0
  /\ tcpip = [r \in Rounds |-> "entry"]
  /\ up = FALSE

-----------------------------------------------------------------------------
(* sys_thread_new and introduce_thread                                     *)
GoTo(t, from, to) == call[t] = from /\ call' = [call EXCEPT ![t] = to]

\* pthread_create; the thread may run from here on.
Create(t) ==
  /\ \/ GoTo(t, "create", "introduce") /\ alive' = alive \cup {t}
     \/ GoTo(t, "create", "returned") /\ UNCHANGED alive
  /\ UNCHANGED <<table, count, slot, handle, startVars>>

\* Mutant of ClaimSlot: the counter wraps around, so slots are used again.
ClaimRoundRobin(t) ==
  /\ GoTo(t, "introduce", "store")
  /\ slot' = [slot EXCEPT ![t] = count]
  /\ count' = (count + 1) % Slots
  /\ UNCHANGED <<table, handle, alive, startVars>>

\* Mutant of ClaimSlot: with a full table it waits for a slot, which no thread
\* gives back.
ClaimWaits(t) ==
  /\ GoTo(t, "introduce", "store")
  /\ count < Slots
  /\ slot' = [slot EXCEPT ![t] = count]
  /\ count' = count + 1
  /\ UNCHANGED <<table, handle, alive, startVars>>

\* Mutant of ClaimSlot: the last slot is never given out.
ClaimAllButOne(t) ==
  /\ GoTo(t, "introduce", IF count + 1 < Slots THEN "store" ELSE "returned")
  /\ slot' = [slot EXCEPT ![t] = count]
  /\ count' = count + 1
  /\ UNCHANGED <<table, handle, alive, startVars>>

\* __sync_fetch_and_add; the table is full from 32 on.
ClaimSlot(t) ==
  /\ GoTo(t, "introduce", IF count < Slots THEN "store" ELSE "returned")
  /\ slot' = [slot EXCEPT ![t] = count]
  /\ count' = count + 1
  /\ UNCHANGED <<table, handle, alive, startVars>>

StoreThread(t) ==
  /\ GoTo(t, "store", "returned")
  /\ table' = [table EXCEPT ![slot[t]] = t]
  /\ handle' = [handle EXCEPT ![t] = slot[t]]
  /\ UNCHANGED <<count, slot, alive, startVars>>

-----------------------------------------------------------------------------
(* zts_lwip_driver_init: once the stack is up it returns at once.          *)
InitDriver(r) ==
  /\ ~up
  /\ \A q \in 1 .. r - 1 : call[Driver(q)] = "returned"
  /\ GoTo(Driver(r), "not called", "create")
  /\ UNCHANGED <<table, count, slot, handle, alive, startVars>>

(* zts_main_lwip_driver_loop: sys_sem_new, tcpip_init, sys_sem_wait        *)
SemNew(r) ==
  /\ Driver(r) \in alive
  /\ driver[r] = "entry"
  /\ driver' = [driver EXCEPT ![r] = "tcpip_init"]
  /\ sem' = [sem EXCEPT ![r] = 0]
  /\ UNCHANGED <<callVars, initArg, tcpip, up>>

\* tcpip_init stores the callback and its argument and creates the thread.
TcpipInit(r) ==
  /\ driver[r] = "tcpip_init"
  /\ driver' = [driver EXCEPT ![r] = "wait"]
  /\ initArg' = r
  /\ GoTo(Tcpip(r), "not called", "create")
  /\ UNCHANGED <<table, count, slot, handle, alive, sem, tcpip, up>>

SemWait(r) ==
  /\ driver[r] = "wait"
  /\ call[Tcpip(r)] = "returned"
  /\ sem[r] > 0
  /\ sem' = [sem EXCEPT ![r] = @ - 1]
  /\ driver' = [driver EXCEPT ![r] = "loop"]
  /\ UNCHANGED <<callVars, initArg, tcpip, up>>

\* Mutant of CallBack: only the thread that brings the stack up signals.
CallBackOnce(r) ==
  /\ Tcpip(r) \in alive
  /\ tcpip[r] = "entry"
  /\ tcpip' = [tcpip EXCEPT ![r] = "loop"]
  /\ up' = TRUE
  /\ sem' = IF up THEN sem ELSE [sem EXCEPT ![initArg] = @ + 1]
  /\ UNCHANGED <<callVars, driver, initArg>>

\* tcpip_thread: tcpip_init_done with the argument that was stored last, then
\* messages for ever.
CallBack(r) ==
  /\ Tcpip(r) \in alive
  /\ tcpip[r] = "entry"
  /\ tcpip' = [tcpip EXCEPT ![r] = "loop"]
  /\ up' = TRUE
  /\ sem' = [sem EXCEPT ![initArg] = @ + 1]
  /\ UNCHANGED <<callVars, driver, initArg>>

-----------------------------------------------------------------------------
SysThreadNew(t) == Create(t) \/ ClaimSlot(t) \/ StoreThread(t)
DriverStep(r) == SemNew(r) \/ TcpipInit(r) \/ SemWait(r)

Next ==
  \/ \E t \in Threads : SysThreadNew(t)
  \/ \E r \in Rounds : InitDriver(r) \/ DriverStep(r) \/ CallBack(r)

\* Every thread that runs goes on; nobody has to start the stack.
Fairness ==
  /\ \A t \in Threads : WF_vars(SysThreadNew(t))
  /\ \A r \in Rounds : WF_vars(DriverStep(r)) /\ WF_vars(CallBack(r))

Spec == Init /\ [][Next]_vars /\ Fairness

-----------------------------------------------------------------------------
\* The type invariant of the thread table and of the two startup sequences.
TypeOK ==
  /\ table \in [Index -> Threads \cup {NoThread}]
  /\ count \in Nat
  /\ call \in [Threads -> {"not called", "create", "introduce", "store", "returned"}]
  /\ slot \in [Threads -> Nat]
  /\ handle \in [Threads -> Index \cup {NULL}]
  /\ alive \subseteq Threads
  /\ driver \in [Rounds -> {"entry", "tcpip_init", "wait", "loop"}]
  /\ sem \in [Rounds -> Nat]
  /\ initArg \in {0} \cup Rounds
  /\ tcpip \in [Rounds -> {"entry", "loop"}]
  /\ up \in BOOLEAN

\* Without the list's mutex, with parent and child registering at once, each
\* handle sys_thread_new has returned is the entry of its own thread and stays
\* that: no two calls share a slot, no entry is written over.
HandleIsItsThread ==
  \A t \in Threads : handle[t] # NULL => table[handle[t]] = t

\* sys_thread_new answers NULL only for a thread that does not run, or one for
\* which there was no slot left: that one runs, unregistered.
NullIsExplained ==
  \A t \in Threads :
    call[t] = "returned" /\ handle[t] = NULL => t \notin alive \/ count > Slots

\* The callback of start r has gone to another one: its tcpip thread has called
\* back, but only after a later tcpip_init had stored the argument anew.
Overtaken(r) == tcpip[r] = "loop" /\ sem[r] = 0 /\ initArg # r

\* As sys_thread_new no longer aborts, the driver may wait for a thread that does
\* not exist, and as the callback is shared, its signal may go to a start that
\* overlaps.  These are the only ways to wait in vain: a full table is no reason,
\* and however early the tcpip thread calls back, the start that called
\* tcpip_init last has its signal.
WaitIsAnswered ==
  \A r \in Rounds :
    driver[r] = "wait" /\ call[Tcpip(r)] = "returned" =>
      \/ sem[r] > 0
      \/ Tcpip(r) \in alive /\ tcpip[r] = "entry"
      \/ Tcpip(r) \notin alive
      \/ initArg # r

\* A driver thread that runs gets past sys_sem_wait, full table or not, unless
\* pthread_create has failed for its tcpip thread or a later start has taken
\* the callback.
DriverGetsThrough ==
  \A r \in Rounds :
    Driver(r) \in alive ~>
      \/ driver[r] = "loop"
      \/ call[Tcpip(r)] = "returned" /\ Tcpip(r) \notin alive
      \/ driver[r] = "wait" /\ Overtaken(r)
=============================================================================
