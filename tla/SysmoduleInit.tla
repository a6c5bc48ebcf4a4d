--------------------------- MODULE SysmoduleInit ---------------------------
(***************************************************************************)
(* zt_sysmodule/source/main.cpp: the main thread polls for the enable file *)
(* and starts the ZeroTier service once, on a libnx thread or, if that     *)
(* cannot be created, by itself.  Both threads allocate from a heap whose  *)
(* creation is double-checked with a plain flag: the two stores inside the *)
(* lock may become visible in either order to a thread that does not lock. *)
(***************************************************************************)
EXTENDS Naturals

CONSTANT NodeAllocs   \* bound: allocations of zts_init_from_storage
ASSUME AllocsAssumption == NodeAllocs \in Nat

Main == "main"
Worker == "worker"
Threads == {Main, Worker}
Nobody == "nobody"

VARIABLES
  enable,    \* the enable file exists on the card
  seen,      \* EnableFlagExists() returned true
  started,   \* g_zt_init_started
  done,      \* g_zt_init_done
  rc,        \* g_zt_init_rc
  entries,   \* how often each thread entered ZtInitThreadFunc
  thread,    \* g_zt_thread: none, running, or created and never started
  pc,        \* where each thread is
  ret,       \* where its call of sysb::GetHeapHandle returns to
  left,      \* allocations left to ZtInitThreadFunc
  flag,      \* g_heap_initialized
  handle,    \* g_heap_handle is set
  mutex,     \* holder of g_heap_init_mutex
  made,      \* calls of CreateExpHeap
  nullUsed   \* some thread used the handle before it was set

initVars == <<started, done, rc, entries, thread, left>>
heapVars == <<flag, handle, mutex, made, nullUsed>>
vars == <<enable, seen, initVars, pc, ret, heapVars>>

Goto(t, from, to) == pc[t] = from /\ pc' = [pc EXCEPT ![t] = to]

\* A call of Allocate or Deallocate, which begin with GetHeapHandle().
Heap(t, from, to) ==
  /\ Goto(t, from, "check")
  /\ ret' = [ret EXCEPT ![t] = to]

Init ==
  /\ enable \in BOOLEAN /\ seen = FALSE
  /\ started = FALSE /\ done = FALSE /\ rc = "unset"
  /\ entries = [t \in Threads |-> 0] /\ thread = "none" /\ left = NodeAllocs
  /\ pc = [t \in Threads |-> IF t = Main THEN "boot" ELSE "none"]
  /\ ret = [t \in Threads |-> "none"]
  /\ flag = FALSE /\ handle = FALSE /\ mutex = Nobody /\ made = 0 /\ nullUsed = FALSE

-----------------------------------------------------------------------------
(* sysb::GetHeapHandle                                                     *)

CheckFlag(t) ==
  /\ Goto(t, "check", IF flag THEN "use" ELSE "lock")
  /\ UNCHANGED <<enable, seen, initVars, ret, heapVars>>

LockHeap(t) ==
  /\ Goto(t, "lock", "locked")
  /\ mutex = Nobody /\ mutex' = t
  /\ UNCHANGED <<enable, seen, initVars, ret, flag, handle, made, nullUsed>>

CreateHeap(t) ==
  /\ Goto(t, "locked", IF flag THEN "unlock" ELSE "stores")
  /\ made' = IF flag THEN made ELSE made + 1
  /\ UNCHANGED <<enable, seen, initVars, ret, flag, handle, mutex, nullUsed>>

StoreHandle(t) ==
  /\ ~handle /\ handle' = TRUE
  /\ Goto(t, "stores", IF flag THEN "unlock" ELSE "stores")
  /\ UNCHANGED <<enable, seen, initVars, ret, flag, mutex, made, nullUsed>>

StoreFlag(t) ==
  /\ ~flag /\ flag' = TRUE
  /\ Goto(t, "stores", IF handle THEN "unlock" ELSE "stores")
  /\ UNCHANGED <<enable, seen, initVars, ret, handle, mutex, made, nullUsed>>

UnlockHeap(t) ==
  /\ Goto(t, "unlock", "use")
  /\ mutex' = Nobody
  /\ UNCHANGED <<enable, seen, initVars, ret, flag, handle, made, nullUsed>>

UseHeap(t) ==
  /\ Goto(t, "use", ret[t])
  /\ nullUsed' = (nullUsed \/ ~handle)
  /\ UNCHANGED <<enable, seen, initVars, ret, flag, handle, mutex, made>>

GetHeapHandle(t) ==
  \/ CheckFlag(t) \/ LockHeap(t) \/ CreateHeap(t) \/ StoreHandle(t) \/ StoreFlag(t)
  \/ UnlockHeap(t) \/ UseHeap(t)

-----------------------------------------------------------------------------
(* The main thread.                                                        *)

\* InitializeSystemModule.  Whether mounting the card allocates is not the
\* module's to say.
InitializeSystemModule ==
  /\ \/ Goto(Main, "boot", "poll") /\ UNCHANGED ret
     \/ Heap(Main, "boot", "poll")
  /\ UNCHANGED <<enable, seen, initVars, heapVars>>

\* Someone copies the enable file to the card, or removes it.
ToggleEnable ==
  /\ enable' = ~enable
  /\ UNCHANGED <<seen, initVars, pc, ret, heapVars>>

AlreadyStarted ==
  /\ started
  /\ Goto(Main, "poll", "sleep")
  /\ UNCHANGED <<enable, seen, initVars, ret, heapVars>>

\* Mutants of OpenFlag: the file is not asked for; g_zt_init_started is set before
\* it is.
BugNoEnableCheck ==
  /\ ~started
  /\ Goto(Main, "poll", "start")
  /\ UNCHANGED <<enable, seen, initVars, ret, heapVars>>

BugMarksFirst ==
  /\ ~started
  /\ started' = TRUE
  /\ IF enable THEN Heap(Main, "poll", "close") ELSE Goto(Main, "poll", "sleep") /\ UNCHANGED ret
  /\ seen' = enable
  /\ UNCHANGED <<enable, done, rc, entries, thread, left, heapVars>>

\* EnableFlagExists: an opened file is an object on the heap.
FlagOpens ==
  /\ ~started /\ enable
  /\ Heap(Main, "poll", "close")
  /\ seen' = TRUE
  /\ UNCHANGED <<enable, initVars, heapVars>>

\* OpenFile fails: there is no file, or the card cannot be read just now.
FlagFails ==
  /\ ~started
  /\ \/ Heap(Main, "poll", "sleep")
     \/ Goto(Main, "poll", "sleep") /\ UNCHANGED ret
  /\ seen' = FALSE
  /\ UNCHANGED <<enable, initVars, heapVars>>

OpenFlag == FlagOpens \/ FlagFails

CloseFlag ==
  /\ Heap(Main, "close", "start")
  /\ UNCHANGED <<enable, seen, initVars, heapVars>>

\* Mutant of CreateThread: only a thread that was created counts as a start.
BugRetriesCreate ==
  /\ \/ Goto(Main, "start", "threadStart") /\ started' = TRUE
     \/ Goto(Main, "start", "init") /\ UNCHANGED started
  /\ UNCHANGED <<enable, seen, done, rc, entries, thread, left, ret, heapVars>>

\* If threadCreate fails, main runs ZtInitThreadFunc itself.
CreateThread ==
  /\ Goto(Main, "start", "threadStart") \/ Goto(Main, "start", "init")
  /\ started' = TRUE
  /\ UNCHANGED <<enable, seen, done, rc, entries, thread, left, ret, heapVars>>

\* The result of threadStart is ignored.
StartThread ==
  /\ pc[Main] = "threadStart"
  /\ \/ thread' = "running" /\ pc' = [pc EXCEPT ![Main] = "sleep", ![Worker] = "init"]
     \/ thread' = "created" /\ pc' = [pc EXCEPT ![Main] = "sleep"]
  /\ UNCHANGED <<enable, seen, started, done, rc, entries, left, ret, heapVars>>

Sleep ==
  /\ Goto(Main, "sleep", "poll")
  /\ UNCHANGED <<enable, seen, initVars, ret, heapVars>>

-----------------------------------------------------------------------------
(* ZtInitThreadFunc; zts_init_from_storage is external.                    *)

EnterInit(t) ==
  /\ Goto(t, "init", "storage")
  /\ entries' = [entries EXCEPT ![t] = @ + 1]
  /\ UNCHANGED <<enable, seen, started, done, rc, thread, left, ret, heapVars>>

InitAllocates(t) ==
  /\ left > 0 /\ left' = left - 1
  /\ Heap(t, "storage", "storage")
  /\ UNCHANGED <<enable, seen, started, done, rc, entries, thread, heapVars>>

InitReturns(t) ==
  /\ Goto(t, "storage", IF t = Main THEN "sleep" ELSE "ended")
  /\ rc' \in {"ok", "error"}
  /\ done' = TRUE
  /\ UNCHANGED <<enable, seen, started, entries, thread, left, ret, heapVars>>

MainStep ==
  \/ InitializeSystemModule \/ AlreadyStarted \/ OpenFlag \/ CloseFlag \/ CreateThread
  \/ StartThread \/ Sleep
ThreadStep(t) == GetHeapHandle(t) \/ EnterInit(t) \/ InitAllocates(t) \/ InitReturns(t)

Next == MainStep \/ ToggleEnable \/ \E t \in Threads : ThreadStep(t)

Spec == Init /\ [][Next]_vars

\* Both threads are scheduled, a lock is handed over, and a file that stays on
\* the card can be opened some time.
FairSpec ==
  /\ Spec
  /\ WF_vars(MainStep \/ ThreadStep(Main)) /\ WF_vars(ThreadStep(Worker))
  /\ SF_vars(FlagOpens)

-----------------------------------------------------------------------------
\* The types of the variables.
TypeOK ==
  /\ enable \in BOOLEAN /\ seen \in BOOLEAN
  /\ started \in BOOLEAN /\ done \in BOOLEAN /\ rc \in {"unset", "ok", "error"}
  /\ entries \in [Threads -> 0 .. 1]
  /\ thread \in {"none", "created", "running"}
  /\ left \in 0 .. NodeAllocs
  /\ pc \in [Threads -> {"none", "boot", "poll", "close", "start", "threadStart", "sleep",
                         "init", "storage", "ended", "check", "lock", "locked", "stores",
                         "unlock", "use"}]
  /\ ret \in [Threads -> {"none", "poll", "close", "start", "sleep", "storage"}]
  /\ flag \in BOOLEAN /\ handle \in BOOLEAN /\ nullUsed \in BOOLEAN
  /\ mutex \in Threads \cup {Nobody} /\ made \in 0 .. 1

\* zts_init_from_storage runs once at most, whether the thread could be created,
\* started, or neither, and however the enable file comes and goes; and never
\* before the file was seen, so that the console boots without it.
InitOnce == entries[Main] + entries[Worker] <= IF seen THEN 1 ELSE 0

\* The plain flag of the double-checked heap is safe: by the time a second thread
\* exists, opening the enable file has made main create the heap, so nobody ever
\* races with its creation or allocates from a heap that is not there.
HeapBeforeThreads ==
  /\ pc[Worker] \notin {"lock", "locked", "stores", "unlock"}
  /\ ~nullUsed

\* An enable file that stays gets the service initialised, unless the thread was
\* created and could not be started, which nothing retries.
EnableIsHeeded == <>[]enable => <>(done \/ thread = "created")

-----------------------------------------------------------------------------
(* The inductive invariant behind the proofs.                              *)

InHeap == {"check", "lock", "locked", "stores", "unlock", "use"}

\* Where a thread is, a call of GetHeapHandle counting as the place it returns to.
Where(t) == IF pc[t] \in InHeap THEN ret[t] ELSE pc[t]

\* One start leads to one thread that runs ZtInitThreadFunc.
StartInv ==
  /\ Where(Main) \in {"close", "start"} => seen /\ ~started
  /\ Where(Main) \in {"threadStart", "init", "storage"} => started /\ pc[Worker] = "none"
  /\ Where(Main) \in {"boot", "poll", "close", "start", "threadStart", "init", "storage", "sleep"}
  /\ pc[Worker] \in InHeap => ret[Worker] = "storage"
  /\ Where(Worker) \in {"none", "init", "storage", "ended"}
  /\ started => seen
  /\ ~started => pc[Worker] = "none"

\* Who has entered it.
EntryInv ==
  /\ ~started \/ Where(Main) \in {"threadStart", "init"} \/ Where(Worker) = "init" =>
       entries[Main] = 0 /\ entries[Worker] = 0
  /\ Where(Main) = "storage" => entries[Main] = 1 /\ entries[Worker] = 0
  /\ pc[Worker] # "none" => entries[Main] = 0 /\ thread = "running"
  /\ Where(Worker) \in {"storage", "ended"} => entries[Worker] = 1
  /\ pc[Worker] = "none" => entries[Worker] = 0 /\ thread # "running"

\* Only main creates the heap, before it starts the service.
HeapInv ==
  /\ mutex = IF pc[Main] \in {"locked", "stores", "unlock"} THEN Main ELSE Nobody
  /\ pc[Main] \in {"lock", "locked"} => ~flag /\ ~handle
  /\ pc[Main] = "stores" => made = 1 /\ ~(flag /\ handle)
  /\ pc[Main] \in {"unlock", "use"} => flag /\ handle
  /\ pc[Main] # "stores" => (flag <=> handle) /\ (flag <=> made = 1)
  /\ started \/ pc[Main] = "close" \/ Where(Main) = "start" => flag /\ handle

IInv == TypeOK /\ InitOnce /\ HeapBeforeThreads /\ StartInv /\ EntryInv /\ HeapInv
=============================================================================
