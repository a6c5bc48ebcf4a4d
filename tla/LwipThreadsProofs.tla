------------------------- MODULE LwipThreadsProofs -------------------------
(***************************************************************************)
(* The thread table and the startup of the lwIP threads are correct for    *)
(* every number of slots and of starts.                                    *)
(***************************************************************************)
EXTENDS LwipThreads, TLAPS

\* A call owns its slot from the atomic addition on, if there was one for it.
Owns(t) == call[t] = "store" \/ handle[t] # NULL

\* Slots below the counter have been given out, each to one call, and a handle
\* is the slot its call has filled.
TableInv ==
  /\ \A t \in Threads : call[t] \in {"not called", "create"} => t \notin alive
  /\ \A t \in Threads : Owns(t) => slot[t] \in Index /\ slot[t] < count
  /\ \A t, u \in Threads : Owns(t) /\ Owns(u) /\ slot[t] = slot[u] => t = u
  /\ \A t \in Threads :
       handle[t] # NULL => call[t] = "returned" /\ handle[t] = slot[t] /\ table[slot[t]] = t

\* A tcpip thread has been preceded by a tcpip_init, and the start that called
\* it last has its signal from its callback on until its driver takes it.
StartInv ==
  \A r \in Rounds :
    /\ driver[r] \in {"entry", "tcpip_init"} => call[Tcpip(r)] = "not called"
    /\ call[Tcpip(r)] # "not called" => initArg # 0
    /\ tcpip[r] = "loop" => Tcpip(r) \in alive
    /\ tcpip[r] = "loop" /\ initArg = r => sem[r] > 0 \/ driver[r] = "loop"

IInv == TypeOK /\ TableInv /\ NullIsExplained /\ StartInv

\* The threads of one start are two, and no other start has them.
LEMMA ThreadsDiffer ==
  /\ \A r \in Rounds : Driver(r) \in Threads /\ Tcpip(r) \in Threads
  /\ \A r, q \in Rounds : Driver(r) # Tcpip(q)
  /\ \A r, q \in Rounds : Tcpip(r) = Tcpip(q) => r = q
BY DEF Driver, Tcpip, Threads

\* The initial state satisfies the invariant.
LEMMA InitIInv == Init => IInv
<1> SUFFICES ASSUME Init PROVE IInv
  OBVIOUS
<1> USE SlotsAssumption, ThreadsDiffer DEF Init
<1>1. TypeOK
  BY DEF TypeOK, Index, NULL
<1>2. TableInv
  BY DEF TableInv, Owns
<1>3. NullIsExplained
  BY DEF NullIsExplained
<1>4. StartInv
  BY DEF StartInv
<1>. QED  BY <1>1, <1>2, <1>3, <1>4 DEF IInv

-----------------------------------------------------------------------------
\* pthread_create preserves the invariant, whether it succeeds or fails.
LEMMA CreateStep == ASSUME IInv, NEW t \in Threads, Create(t) PROVE IInv'
<1>0. /\ UNCHANGED <<table, count, slot, handle>> /\ UNCHANGED startVars
      /\ call[t] = "create"
      /\ \A u \in Threads \ {t} : call'[u] = call[u] /\ (u \in alive' <=> u \in alive)
      /\ \/ call'[t] = "introduce"
         \/ call'[t] = "returned" /\ t \notin alive'
  <2>1. /\ UNCHANGED <<table, count, slot, handle>> /\ UNCHANGED startVars
        /\ call[t] = "create"
    BY DEF Create, GoTo
  <2>2. call \in [Threads -> {"not called", "create", "introduce", "store", "returned"}]
    BY DEF IInv, TypeOK
  <2>3. t \notin alive
    BY <2>1 DEF IInv, TableInv
  <2>4. CASE GoTo(t, "create", "introduce") /\ alive' = alive \cup {t}
    BY <2>1, <2>2, <2>4 DEF GoTo
  <2>5. CASE GoTo(t, "create", "returned") /\ UNCHANGED alive
    BY <2>1, <2>2, <2>3, <2>5 DEF GoTo
  <2>. QED  BY <2>1, <2>4, <2>5 DEF Create
<1>1. TypeOK'
  BY DEF IInv, TypeOK, Create, GoTo, startVars
<1>2. TableInv'
  <2>1. \A u \in Threads : Owns(u)' <=> Owns(u)
    BY <1>0 DEF Owns
  <2>. QED  BY <1>0, <2>1 DEF IInv, TableInv
<1>3. NullIsExplained'
  BY <1>0 DEF IInv, NullIsExplained
<1>4. StartInv'
  <2>1. UNCHANGED <<driver, sem, tcpip, initArg>>
    BY <1>0 DEF startVars
  <2>2. \A r \in Rounds : call[Tcpip(r)] = "not called" <=> call'[Tcpip(r)] = "not called"
    BY <1>0, ThreadsDiffer
  <2>3. \A r \in Rounds : Tcpip(r) \in alive => Tcpip(r) \in alive'
    BY DEF Create
  <2>. QED  BY <2>1, <2>2, <2>3 DEF IInv, StartInv
<1>. QED  BY <1>1, <1>2, <1>3, <1>4 DEF IInv

\* The atomic addition preserves the invariant.
LEMMA ClaimSlotStep == ASSUME IInv, NEW t \in Threads, ClaimSlot(t) PROVE IInv'
<1>0. /\ UNCHANGED <<table, handle, alive>> /\ UNCHANGED startVars
      /\ call[t] = "introduce" /\ count \in Nat /\ count' = count + 1
      /\ slot'[t] = count
      /\ \A u \in Threads \ {t} : call'[u] = call[u] /\ slot'[u] = slot[u]
      /\ call'[t] = IF count < Slots THEN "store" ELSE "returned"
  BY DEF IInv, TypeOK, ClaimSlot, GoTo
<1>1. TypeOK'
  <2>0. count' \in Nat
    BY <1>0
  <2>1. slot' = [slot EXCEPT ![t] = count] /\ slot' \in [Threads -> Nat]
    BY DEF IInv, TypeOK, ClaimSlot
  <2>2. call' \in [Threads -> {"not called", "create", "introduce", "store", "returned"}]
    BY DEF IInv, TypeOK, ClaimSlot, GoTo
  <2>. QED  BY <1>0, <2>0, <2>1, <2>2 DEF IInv, TypeOK, startVars
<1>2. TableInv'
  <2>1. handle[t] = NULL
    BY <1>0 DEF IInv, TableInv
  <2>2. \A u \in Threads \ {t} : Owns(u)' <=> Owns(u)
    BY <1>0 DEF Owns
  <2>3. Owns(t)' => count \in Index
    BY <1>0, <2>1, SlotsAssumption DEF Owns, Index
  <2>4. \A u \in Threads : Owns(u) => slot[u] \in Nat /\ slot[u] < count /\ slot[u] \in Index
    BY DEF IInv, TypeOK, TableInv
  <2>5. \A u \in Threads : Owns(u)' => slot'[u] \in Index /\ slot'[u] < count'
    BY <1>0, <2>2, <2>3, <2>4
  <2>6. \A u, v \in Threads : Owns(u)' /\ Owns(v)' /\ slot'[u] = slot'[v] => u = v
    <3> SUFFICES ASSUME NEW u \in Threads, NEW v \in Threads, Owns(u)', Owns(v)',
                        slot'[u] = slot'[v], u # v
                 PROVE FALSE
      OBVIOUS
    <3>1. CASE u = t
      <4>1. slot[v] = count /\ slot[v] < count
        BY <3>1, <1>0, <2>2, <2>4
      <4>. QED  BY <4>1, <1>0
    <3>2. CASE v = t
      <4>1. slot[u] = count /\ slot[u] < count
        BY <3>2, <1>0, <2>2, <2>4
      <4>. QED  BY <4>1, <1>0
    <3>3. CASE u # t /\ v # t
      <4>1. Owns(u) /\ Owns(v) /\ slot[u] = slot[v]
        BY <3>3, <1>0, <2>2
      <4>2. \A w, x \in Threads : Owns(w) /\ Owns(x) /\ slot[w] = slot[x] => w = x
        BY DEF IInv, TableInv
      <4>. QED  BY <4>1, <4>2
    <3>. QED  BY <3>1, <3>2, <3>3
  <2>7. \A u \in Threads : call'[u] \in {"not called", "create"} => u \notin alive'
    BY <1>0 DEF IInv, TableInv
  <2>8. \A u \in Threads :
          handle'[u] # NULL =>
            call'[u] = "returned" /\ handle'[u] = slot'[u] /\ table'[slot'[u]] = u
    BY <1>0, <2>1 DEF IInv, TableInv, NULL
  <2>. QED  BY <2>5, <2>6, <2>7, <2>8 DEF TableInv
<1>3. NullIsExplained'
  <2>1. count > Slots => count' > Slots
    BY <1>0, SlotsAssumption
  <2>2. call'[t] = "returned" => count' > Slots
    BY <1>0, SlotsAssumption
  <2>. QED  BY <1>0, <2>1, <2>2 DEF IInv, NullIsExplained, NULL
<1>4. StartInv'
  BY <1>0, ThreadsDiffer DEF IInv, StartInv, startVars
<1>. QED  BY <1>1, <1>2, <1>3, <1>4 DEF IInv

\* Filling the slot preserves the invariant.
LEMMA StoreThreadStep == ASSUME IInv, NEW t \in Threads, StoreThread(t) PROVE IInv'
<1>0. /\ UNCHANGED <<count, slot, alive>> /\ UNCHANGED startVars
      /\ call[t] = "store" /\ call'[t] = "returned"
      /\ Owns(t) /\ handle[t] = NULL /\ slot[t] \in Index /\ slot[t] # NULL
      /\ handle'[t] = slot[t] /\ table'[slot[t]] = t
      /\ \A u \in Threads \ {t} : call'[u] = call[u] /\ handle'[u] = handle[u]
      /\ \A i \in Index \ {slot[t]} : table'[i] = table[i]
  <2>1. Owns(t) /\ call[t] = "store"
    BY DEF StoreThread, GoTo, Owns
  <2>2. slot[t] \in Index /\ handle[t] = NULL
    BY <2>1 DEF IInv, TableInv
  <2>3. slot[t] # NULL
    BY <2>2, SlotsAssumption DEF Index, NULL
  <2>. QED  BY <2>1, <2>2, <2>3 DEF IInv, TypeOK, StoreThread, GoTo
<1>1. TypeOK'
  BY <1>0 DEF IInv, TypeOK, StoreThread, GoTo, startVars
<1>2. TableInv'
  <2>1. \A u \in Threads : Owns(u)' <=> Owns(u)
    BY <1>0 DEF Owns, NULL
  <2>2. \A u \in Threads :
          handle'[u] # NULL =>
            call'[u] = "returned" /\ handle'[u] = slot'[u] /\ table'[slot'[u]] = u
    <3> SUFFICES ASSUME NEW u \in Threads \ {t}, handle[u] # NULL
                 PROVE  /\ call[u] = "returned" /\ handle[u] = slot[u]
                        /\ table'[slot[u]] = u
      BY <1>0 DEF NULL
    <3>1. Owns(u)
      BY DEF Owns
    <3>2. slot[u] \in Index \ {slot[t]}
      BY <3>1, <1>0 DEF IInv, TableInv
    <3>. QED  BY <3>2, <1>0 DEF IInv, TableInv
  <2>. QED  BY <1>0, <2>1, <2>2 DEF IInv, TableInv
<1>3. NullIsExplained'
  BY <1>0 DEF IInv, NullIsExplained, NULL
<1>4. StartInv'
  BY <1>0, ThreadsDiffer DEF IInv, StartInv, startVars
<1>. QED  BY <1>1, <1>2, <1>3, <1>4 DEF IInv

\* A call of sys_thread_new that has begun, by main or by the driver.
LEMMA CallStep ==
  ASSUME IInv, NEW t \in Threads, GoTo(t, "not called", "create"),
         UNCHANGED <<table, count, slot, handle, alive>>
  PROVE  TableInv' /\ NullIsExplained'
<1>0. /\ call[t] = "not called" /\ call'[t] = "create"
      /\ \A u \in Threads \ {t} : call'[u] = call[u]
  BY DEF IInv, TypeOK, GoTo
<1>1. \A u \in Threads : Owns(u)' <=> Owns(u)
  BY <1>0 DEF Owns, NULL
<1>2. TableInv'
  BY <1>0, <1>1 DEF IInv, TableInv, NULL
<1>3. NullIsExplained'
  BY <1>0 DEF IInv, NullIsExplained, NULL
<1>. QED  BY <1>2, <1>3

\* The start of the driver preserves the invariant.
LEMMA InitDriverStep == ASSUME IInv, NEW r \in Rounds, InitDriver(r) PROVE IInv'
<1>1. TypeOK'
  BY ThreadsDiffer DEF IInv, TypeOK, InitDriver, GoTo, startVars
<1>2. TableInv' /\ NullIsExplained'
  BY ThreadsDiffer, CallStep DEF InitDriver
<1>3. \A q \in Rounds : call'[Tcpip(q)] = call[Tcpip(q)]
  BY ThreadsDiffer DEF IInv, TypeOK, InitDriver, GoTo
<1>4. StartInv'
  BY <1>3 DEF IInv, StartInv, InitDriver, startVars
<1>. QED  BY <1>1, <1>2, <1>4 DEF IInv

\* The driver's steps preserve the invariant.
LEMMA DriverStepStep == ASSUME IInv, NEW r \in Rounds, DriverStep(r) PROVE IInv'
<1>1. CASE SemNew(r)
  <2>1. TypeOK'
    BY <1>1 DEF IInv, TypeOK, SemNew, callVars
  <2>2. TableInv' /\ NullIsExplained'
    <3>1. UNCHANGED callVars
      BY <1>1 DEF SemNew
    <3> QED
      BY <3>1 DEF IInv, TableInv, NullIsExplained, Owns, callVars
  <2>3. tcpip[r] # "loop"
    BY <1>1, ThreadsDiffer DEF IInv, TableInv, StartInv, SemNew
  <2>4. /\ driver[r] = "entry" /\ driver'[r] = "tcpip_init"
        /\ \A q \in Rounds \ {r} : driver'[q] = driver[q] /\ sem'[q] = sem[q]
        /\ UNCHANGED <<call, alive, tcpip, initArg>>
    BY <1>1 DEF IInv, TypeOK, SemNew, callVars
  <2>5. StartInv'
    BY <2>3, <2>4 DEF IInv, StartInv
  <2>. QED  BY <2>1, <2>2, <2>5 DEF IInv
<1>2. CASE TcpipInit(r)
  <2>1. TypeOK'
    BY <1>2, ThreadsDiffer DEF IInv, TypeOK, TcpipInit, GoTo
  <2>2. TableInv' /\ NullIsExplained'
    BY <1>2, ThreadsDiffer, CallStep DEF TcpipInit
  <2>3. \A q \in Rounds \ {r} : call'[Tcpip(q)] = call[Tcpip(q)] /\ driver'[q] = driver[q]
    BY <1>2, ThreadsDiffer DEF IInv, TypeOK, TcpipInit, GoTo
  <2>4. /\ driver[r] = "tcpip_init" /\ driver'[r] = "wait" /\ initArg' = r
        /\ UNCHANGED <<alive, sem, tcpip>>
    BY <1>2 DEF IInv, TypeOK, TcpipInit
  <2>5. initArg' # 0 /\ r # 0
    BY <2>4, StartsAssumption DEF Rounds
  <2>6. tcpip[r] # "loop"
    BY <2>4, ThreadsDiffer DEF IInv, TableInv, StartInv
  <2>7. StartInv'
    BY <2>3, <2>4, <2>5, <2>6 DEF IInv, StartInv
  <2>. QED  BY <2>1, <2>2, <2>7 DEF IInv
<1>3. CASE SemWait(r)
  <2>0. sem[r] \in Nat /\ sem[r] > 0
    BY <1>3 DEF IInv, TypeOK, SemWait
  <2>1. sem[r] - 1 \in Nat
    BY <2>0
  <2>2. TypeOK'
    <3>1. sem' \in [Rounds -> Nat]
      BY <1>3, <2>1 DEF IInv, TypeOK, SemWait
    <3>2. driver' \in [Rounds -> {"entry", "tcpip_init", "wait", "loop"}]
      BY <1>3 DEF IInv, TypeOK, SemWait
    <3>. QED  BY <1>3, <3>1, <3>2 DEF IInv, TypeOK, SemWait, callVars
  <2>3. TableInv' /\ NullIsExplained'
    BY <1>3 DEF IInv, TableInv, NullIsExplained, Owns, SemWait, callVars
  <2>4. /\ driver[r] = "wait" /\ driver'[r] = "loop"
        /\ \A q \in Rounds \ {r} : driver'[q] = driver[q] /\ sem'[q] = sem[q]
    BY <1>3 DEF IInv, TypeOK, SemWait
  <2>5. UNCHANGED <<call, alive, tcpip, initArg>>
    BY <1>3 DEF SemWait, callVars
  <2>6. StartInv'
    BY <1>3, <2>4, <2>5 DEF IInv, StartInv, SemWait
  <2>. QED  BY <2>2, <2>3, <2>6 DEF IInv
<1>. QED  BY <1>1, <1>2, <1>3 DEF DriverStep

\* The callback preserves the invariant: whichever start it signals, the one that
\* called tcpip_init last either had its signal or gets it now.
LEMMA CallBackStep == ASSUME IInv, NEW r \in Rounds, CallBack(r) PROVE IInv'
<1>1. Tcpip(r) \in alive /\ tcpip[r] = "entry"
  BY DEF CallBack
<1>2. initArg \in Rounds
  BY <1>1, ThreadsDiffer DEF IInv, TypeOK, TableInv, StartInv
<1>3. /\ sem[initArg] \in Nat /\ sem'[initArg] = sem[initArg] + 1
      /\ \A q \in Rounds \ {initArg} : sem'[q] = sem[q]
      /\ sem' \in [Rounds -> Nat]
  <2>1. sem \in [Rounds -> Nat] /\ sem' = [sem EXCEPT ![initArg] = @ + 1]
    BY DEF IInv, TypeOK, CallBack
  <2>2. sem[initArg] + 1 \in Nat
    BY <2>1, <1>2
  <2>. QED  BY <2>1, <2>2, <1>2
<1>4. /\ tcpip'[r] = "loop"
      /\ \A q \in Rounds \ {r} : tcpip'[q] = tcpip[q]
      /\ tcpip' \in [Rounds -> {"entry", "loop"}] /\ up' \in BOOLEAN
  BY DEF IInv, TypeOK, CallBack
<1>5. UNCHANGED <<callVars, driver, initArg>> /\ UNCHANGED <<call, alive>>
  BY DEF CallBack, callVars
<1>6. TypeOK'
  <2>1. initArg' \in {0} \cup Rounds
    BY <1>2, <1>5
  <2>2. /\ UNCHANGED <<table, count, call, slot, handle, alive>>
        /\ driver' \in [Rounds -> {"entry", "tcpip_init", "wait", "loop"}]
    BY <1>5 DEF IInv, TypeOK, callVars
  <2>3. /\ sem' \in [Rounds -> Nat]
        /\ tcpip' \in [Rounds -> {"entry", "loop"}] /\ up' \in BOOLEAN
    BY <1>3, <1>4
  <2>. QED  BY <2>1, <2>2, <2>3 DEF IInv, TypeOK
<1>7. TableInv' /\ NullIsExplained'
  <2>1. UNCHANGED <<table, count, call, slot, handle, alive>>
    BY <1>5 DEF callVars
  <2>. QED  BY <2>1 DEF IInv, TableInv, NullIsExplained, Owns
<1>8. sem'[initArg] > 0
  BY <1>3
<1>9. StartInv'
  BY <1>1, <1>3, <1>4, <1>5, <1>8 DEF IInv, StartInv
<1>. QED  BY <1>6, <1>7, <1>9 DEF IInv

-----------------------------------------------------------------------------
\* Every reachable state satisfies the invariant.
THEOREM Inductive == Spec => []IInv
<1>1. IInv /\ [Next]_vars => IInv'
  <2> SUFFICES ASSUME IInv, [Next]_vars PROVE IInv'
    OBVIOUS
  <2>1. CASE UNCHANGED vars
    <3> USE <2>1 DEF vars, callVars, startVars
    <3>1. TypeOK'
      BY DEF IInv, TypeOK
    <3>2. TableInv' /\ NullIsExplained'
      BY DEF IInv, TableInv, NullIsExplained, Owns
    <3>3. StartInv'
      BY DEF IInv, StartInv
    <3>. QED  BY <3>1, <3>2, <3>3 DEF IInv
  <2>2. ASSUME NEW t \in Threads, SysThreadNew(t) PROVE IInv'
    BY <2>2, CreateStep, ClaimSlotStep, StoreThreadStep DEF SysThreadNew
  <2>3. ASSUME NEW r \in Rounds, InitDriver(r) \/ DriverStep(r) \/ CallBack(r) PROVE IInv'
    BY <2>3, InitDriverStep, DriverStepStep, CallBackStep
  <2>. QED  BY <2>1, <2>2, <2>3 DEF Next
<1>. QED  BY <1>1, InitIInv, PTL DEF Spec

\* The state of sys_thread_new and of the startup keeps its type.
THEOREM TypeCorrect == Spec => []TypeOK
<1>1. IInv => TypeOK
  BY DEF IInv
<1>. QED  BY <1>1, Inductive, PTL

\* Handles stay valid and distinct, with any number of calls under way at once
\* and after the table is full.
THEOREM HandlesAreSafe == Spec => []HandleIsItsThread
<1>1. IInv => HandleIsItsThread
  BY DEF IInv, TableInv, HandleIsItsThread
<1>. QED  BY <1>1, Inductive, PTL

\* NULL is for a thread that does not run, or for a full table.
THEOREM NullsAreExplained == Spec => []NullIsExplained
<1>1. IInv => NullIsExplained
  BY DEF IInv
<1>. QED  BY <1>1, Inductive, PTL

\* The driver waits in vain only for a thread that could not be created, or when
\* a later start has taken the callback.
THEOREM NoSignalIsLost == Spec => []WaitIsAnswered
<1>1. IInv => WaitIsAnswered
  BY ThreadsDiffer DEF IInv, TypeOK, StartInv, WaitIsAnswered
<1>. QED  BY <1>1, Inductive, PTL
=============================================================================
