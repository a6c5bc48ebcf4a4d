------------------------ MODULE SysmoduleInitProofs ------------------------
(***************************************************************************)
(* Proofs about SysmoduleInit, for any number of allocations.              *)
(***************************************************************************)
EXTENDS SysmoduleInit, TLAPS

USE AllocsAssumption
USE DEF Threads, Main, Worker, Nobody, Goto, Heap, heapVars, initVars

\* A step of GetHeapHandle, by main or by the service's thread, keeps IInv.
LEMMA HeapStep ==
  ASSUME IInv, NEW t \in Threads, GetHeapHandle(t)
  PROVE  IInv'
<1> USE DEF IInv, TypeOK, InitOnce, HeapBeforeThreads, StartInv, EntryInv, HeapInv, Where, InHeap
<1>1. CASE CheckFlag(t)
  BY <1>1 DEF CheckFlag
<1>2. CASE LockHeap(t)
  BY <1>2 DEF LockHeap
<1>3. CASE CreateHeap(t)
  BY <1>3 DEF CreateHeap
<1>4. CASE StoreHandle(t)
  BY <1>4 DEF StoreHandle
<1>5. CASE StoreFlag(t)
  BY <1>5 DEF StoreFlag
<1>6. CASE UnlockHeap(t)
  BY <1>6 DEF UnlockHeap
<1>7. CASE UseHeap(t)
  <2>1. /\ pc[t] = "use" /\ pc' = [pc EXCEPT ![t] = ret[t]]
        /\ UNCHANGED <<enable, seen, started, done, rc, entries, thread, left, ret>>
        /\ UNCHANGED <<flag, handle, mutex, made>>
    BY <1>7 DEF UseHeap
  <2>2. flag /\ handle /\ mutex = IF t = Main THEN Nobody ELSE mutex
    BY <2>1
  <2>3. nullUsed' = FALSE
    BY <1>7, <2>2 DEF UseHeap
  <2>4. Where(Main)' = Where(Main) /\ Where(Worker)' = Where(Worker)
    BY <2>1
  <2>5. pc'[Worker] = "none" <=> pc[Worker] = "none"
    BY <2>1
  <2>6. TypeOK'
    <3>1. pc'[t] \in {"poll", "close", "start", "sleep", "storage"}
      <4>1. CASE t = Main
        <5>1. Where(Main) = ret[Main]
          BY <2>1, <4>1
        <5>2. ret[Main] \in {"poll", "close", "start", "sleep", "storage"}
          BY <5>1
        <5> QED
          BY <2>1, <4>1, <5>2
      <4>2. CASE t = Worker
        <5>1. ret[Worker] = "storage"
          BY <2>1, <4>2
        <5> QED
          BY <2>1, <4>2, <5>1
      <4> QED
        BY <4>1, <4>2
    <3>2. pc' \in [Threads -> {"none", "boot", "poll", "close", "start", "threadStart", "sleep",
                              "init", "storage", "ended", "check", "lock", "locked", "stores",
                              "unlock", "use"}]
      BY <2>1, <3>1
    <3>3. TypeOK /\ UNCHANGED <<enable, seen, started, done, rc, entries, thread, left, ret>>
      BY <2>1
    <3>4. UNCHANGED <<flag, handle, mutex, made>>
      BY <2>1
    <3> HIDE DEF IInv, InitOnce, HeapBeforeThreads, StartInv, EntryInv, HeapInv, Where, InHeap
    <3> HIDE DEF Threads, Main, Worker
    <3> QED
      BY <2>3, <3>2, <3>3, <3>4
  <2>7. InitOnce' /\ HeapBeforeThreads'
    BY <2>1, <2>3
  <2>8. StartInv'
    BY <2>1, <2>4, <2>5
  <2>9. EntryInv'
    BY <2>1, <2>4, <2>5
  <2>10. HeapInv'
    BY <2>1, <2>2, <2>4
  <2> QED
    BY <2>6, <2>7, <2>8, <2>9, <2>10
<1> QED
  BY <1>1, <1>2, <1>3, <1>4, <1>5, <1>6, <1>7 DEF GetHeapHandle

\* A step of the main thread's own code keeps IInv.
LEMMA MainKeeps ==
  ASSUME IInv, MainStep
  PROVE  IInv'
<1> USE DEF IInv, TypeOK, InitOnce, HeapBeforeThreads, StartInv, EntryInv, HeapInv, Where, InHeap
<1>1. CASE InitializeSystemModule
  BY <1>1 DEF InitializeSystemModule
<1>2. CASE AlreadyStarted
  BY <1>2 DEF AlreadyStarted
<1>3. CASE FlagOpens
  BY <1>3 DEF FlagOpens
<1>8. CASE FlagFails
  <2>1. /\ pc[Main] = "poll" /\ pc'[Main] \in {"check", "sleep"}
        /\ pc'[Worker] = pc[Worker] /\ ret'[Worker] = ret[Worker]
        /\ pc' \in [Threads -> {pc[Worker], "check", "sleep"}]
        /\ ret' \in [Threads -> {ret[Worker], ret[Main], "sleep"}]
        /\ pc'[Main] = "check" => ret'[Main] = "sleep"
    BY <1>8 DEF FlagFails
  <2>2. /\ ~started /\ seen' = FALSE
        /\ UNCHANGED <<enable, started, done, rc, entries, thread, left>>
        /\ UNCHANGED <<flag, handle, nullUsed, mutex, made>>
    BY <1>8 DEF FlagFails
  <2>3. Where(Main)' = "sleep" /\ Where(Worker)' = Where(Worker) /\ Where(Main) = "poll"
    BY <2>1
  <2>4. TypeOK'
    <3>1. pc[Worker] \in {"none", "boot", "poll", "close", "start", "threadStart", "sleep",
                         "init", "storage", "ended", "check", "lock", "locked", "stores",
                         "unlock", "use"}
          /\ ret[Worker] \in {"none", "poll", "close", "start", "sleep", "storage"}
          /\ ret[Main] \in {"none", "poll", "close", "start", "sleep", "storage"}
      OBVIOUS
    <3>2. pc' \in [Threads -> {"none", "boot", "poll", "close", "start", "threadStart", "sleep",
                              "init", "storage", "ended", "check", "lock", "locked", "stores",
                              "unlock", "use"}]
      BY <2>1, <3>1
    <3>3. ret' \in [Threads -> {"none", "poll", "close", "start", "sleep", "storage"}]
      BY <2>1, <3>1
    <3> QED
      BY <2>2, <3>2, <3>3
  <2>5. InitOnce' /\ HeapBeforeThreads'
    BY <2>1, <2>2
  <2>6. StartInv'
    BY <2>1, <2>2, <2>3
  <2>7. EntryInv'
    BY <2>1, <2>2, <2>3
  <2>8. HeapInv'
    BY <2>1, <2>2, <2>3
  <2> QED
    BY <2>4, <2>5, <2>6, <2>7, <2>8
<1>4. CASE CloseFlag
  BY <1>4 DEF CloseFlag
<1>5. CASE CreateThread
  BY <1>5 DEF CreateThread
<1>6. CASE StartThread
  BY <1>6 DEF StartThread
<1>7. CASE Sleep
  BY <1>7 DEF Sleep
<1> QED
  BY <1>1, <1>2, <1>3, <1>4, <1>5, <1>6, <1>7, <1>8 DEF MainStep, OpenFlag

\* Whichever thread runs ZtInitThreadFunc, a step of it keeps IInv.
LEMMA InitKeeps ==
  ASSUME IInv, NEW t \in Threads, EnterInit(t) \/ InitAllocates(t) \/ InitReturns(t)
  PROVE  IInv'
<1> USE DEF IInv, TypeOK, InitOnce, HeapBeforeThreads, StartInv, EntryInv, HeapInv, Where, InHeap
<1>1. CASE EnterInit(t)
  BY <1>1 DEF EnterInit
<1>2. CASE InitAllocates(t)
  BY <1>2 DEF InitAllocates
<1>3. CASE InitReturns(t)
  BY <1>3 DEF InitReturns
<1> QED
  BY <1>1, <1>2, <1>3

\* Every step of the system keeps IInv.
LEMMA Step ==
  ASSUME IInv, [Next]_vars
  PROVE  IInv'
<1>1. CASE ToggleEnable
  BY <1>1 DEF ToggleEnable, IInv, TypeOK, InitOnce, HeapBeforeThreads, StartInv, EntryInv,
              HeapInv, Where, InHeap
<1>2. CASE UNCHANGED vars
  BY <1>2 DEF vars, IInv, TypeOK, InitOnce, HeapBeforeThreads, StartInv, EntryInv,
              HeapInv, Where, InHeap
<1> QED
  BY <1>1, <1>2, HeapStep, MainKeeps, InitKeeps DEF Next, ThreadStep

\* IInv holds in every reachable state.
THEOREM Invariance == Spec => []IInv
<1>1. Init => IInv
  <2> SUFFICES ASSUME Init PROVE IInv
    OBVIOUS
  <2>1. pc["main"] = "boot" /\ pc["worker"] = "none"
        /\ entries["main"] = 0 /\ entries["worker"] = 0
    BY DEF Init
  <2>2. InitOnce /\ HeapBeforeThreads
    BY <2>1 DEF Init, InitOnce, HeapBeforeThreads
  <2>3. StartInv
    BY <2>1 DEF Init, StartInv, Where, InHeap
  <2>4. EntryInv
    BY <2>1 DEF Init, EntryInv, Where, InHeap
  <2>5. HeapInv
    BY <2>1 DEF Init, HeapInv, Where, InHeap
  <2>6. entries \in [Threads -> 0 .. 1] /\ left \in 0 .. NodeAllocs /\ made \in 0 .. 1
    BY DEF Init
  <2>7. TypeOK
    BY <2>6 DEF Init, TypeOK
  <2> QED
    BY <2>2, <2>3, <2>4, <2>5, <2>7 DEF IInv
<1> QED
  BY <1>1, Step, PTL DEF Spec

\* Every variable keeps its type; the heap is created once at most.
THEOREM TypeCorrect == Spec => []TypeOK
<1>1. IInv => TypeOK
  BY DEF IInv
<1> QED
  BY Invariance, <1>1, PTL

\* The service is initialised once at most, and not before the enable file was seen.
THEOREM ServiceStartsOnce == Spec => []InitOnce
<1>1. IInv => InitOnce
  BY DEF IInv
<1> QED
  BY Invariance, <1>1, PTL

\* The double-checked heap is never created twice, raced for or used unset.
THEOREM HeapIsSafe == Spec => []HeapBeforeThreads
<1>1. IInv => HeapBeforeThreads
  BY DEF IInv
<1> QED
  BY Invariance, <1>1, PTL
=============================================================================
