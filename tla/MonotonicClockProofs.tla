------------------------ MODULE MonotonicClockProofs ------------------------
(***************************************************************************)
(* Proofs about MonotonicClock, for any number of threads, any counter     *)
(* rate, and any length of the run.                                        *)
(***************************************************************************)
EXTENDS MonotonicClock, TLAPS

USE RateAssumption, ModulusAssumption, SkewAssumption
    DEF RateAssumption, ModulusAssumption, SkewAssumption

\* Division by the counter rate stays below its dividend, by less than one unit.
LEMMA DivBounds ==
  ASSUME NEW a \in Nat
  PROVE  /\ a \div TicksPerMs \in Nat
         /\ TicksPerMs * (a \div TicksPerMs) <= a
         /\ a < TicksPerMs * (a \div TicksPerMs) + TicksPerMs
OBVIOUS

\* Whole milliseconds grow with the ticks.
LEMMA DivMono ==
  ASSUME NEW a \in Nat, NEW b \in Nat, a <= b
  PROVE  a \div TicksPerMs <= b \div TicksPerMs
<1> DEFINE p == a \div TicksPerMs
           q == b \div TicksPerMs
<1>1. p \in Nat /\ q \in Nat
  BY DivBounds
<1>2. TicksPerMs * p <= a /\ b < TicksPerMs * q + TicksPerMs
  BY DivBounds
<1>3. TicksPerMs * p < TicksPerMs * q + TicksPerMs
  BY <1>1, <1>2
<1> HIDE DEF p, q
<1>4. TicksPerMs * p < TicksPerMs * (q + 1)
  BY <1>1, <1>3
<1>5. p < q + 1
  <2> SUFFICES ASSUME q + 1 <= p PROVE FALSE
    BY <1>1
  <2>1. PICK k \in Nat : p = q + 1 + k
    BY <1>1
  <2>2. TicksPerMs * p = TicksPerMs * (q + 1) + TicksPerMs * k
    BY <1>1, <2>1
  <2>3. TicksPerMs * k \in Nat
    OBVIOUS
  <2> QED
    BY <1>1, <1>4, <2>2, <2>3
<1> QED
  BY <1>1, <1>5 DEF p, q

\* The unsigned subtraction does not wrap when the tick was read after the baseline.
LEMMA NoWrap ==
  ASSUME NEW a \in 0 .. MaxTick, NEW b \in 0 .. MaxTick, b <= a
  PROVE  (a - b) % Modulus = a - b
OBVIOUS

\* now() at a tick that is not before the baseline is a natural number, and grows.
LEMMA AtMono ==
  ASSUME TypeOK, NEW a \in 0 .. MaxTick, NEW b \in 0 .. MaxTick, tickBase <= a, a <= b
  PROVE  At(a) \in Nat /\ At(a) <= At(b)
<1>1. a - tickBase \in Nat /\ b - tickBase \in Nat /\ wallBase \in Nat
      /\ a - tickBase <= b - tickBase
  BY DEF TypeOK
<1>2. (a - tickBase) \div TicksPerMs \in Nat /\ (b - tickBase) \div TicksPerMs \in Nat
  BY <1>1, DivBounds
<1>3. (a - tickBase) \div TicksPerMs <= (b - tickBase) \div TicksPerMs
  BY <1>1, DivMono
<1> QED
  BY <1>1, <1>2, <1>3 DEF At

\* The elapsed time is a natural number, wrapped around or not.
LEMMA ElapsedNat ==
  ASSUME TypeOK, NEW t \in Threads
  PROVE  wallBase + Elapsed(t) \in Nat
<1>1. mono[t] - tickBase \in Int /\ Modulus \in Nat \ {0} /\ wallBase \in Nat
  BY DEF TypeOK
<1>2. (mono[t] - tickBase) % Modulus \in Nat
  BY <1>1
<1>3. Elapsed(t) \in Nat
  BY <1>2, DivBounds DEF Elapsed
<1> QED
  BY <1>1, <1>3

\* What Return remembers of a call that counts.
LEMMA ReturnValue ==
  ASSUME TypeOK, NEW t \in Threads, Return(t), counts[t]
  PROVE  /\ wallBase + Elapsed(t) \in Nat
         /\ last' = [value |-> wallBase + Elapsed(t), mono |-> mono[t]]
         /\ best' = IF wallBase + Elapsed(t) > best THEN wallBase + Elapsed(t) ELSE best
         /\ last'.value = wallBase + Elapsed(t)
         /\ last'.mono = mono[t]
         /\ ~Never'
<1> DEFINE v == wallBase + Elapsed(t)
<1>4. v \in Nat
  BY ElapsedNat
<1>5. last' = [value |-> v, mono |-> mono[t]] /\ best' = IF v > best THEN v ELSE best
  BY DEF Return, Result
<1> HIDE DEF v
<1>6. last'.value = v /\ last'.mono = mono[t]
  BY <1>5
<1>7. Nothing.value = -1
  BY DEF Nothing
<1>8. ~Never'
  BY <1>4, <1>6, <1>7 DEF Never
<1> QED
  BY <1>4, <1>5, <1>6, <1>8 DEF v

\* Every step keeps the types.
LEMMA TypeStep ==
  ASSUME TypeOK, [Next]_vars
  PROVE  TypeOK'
<1> USE DEF TypeOK, Goto, localVars, results
<1>1. CASE Tick
  BY <1>1 DEF Tick
<1>2. CASE TimeSync
  BY <1>2 DEF TimeSync
<1>3. ASSUME NEW t \in Threads, Now(t) PROVE TypeOK'
  <2>1. CASE Call(t)
    <3>1. Captured \in BOOLEAN
      BY DEF Captured
    <3>2. counts' = [counts EXCEPT ![t] = Captured]
      BY <2>1 DEF Call
    <3>3. counts' \in [Threads -> BOOLEAN]
      BY <3>1, <3>2
    <3> QED
      BY <2>1, <3>3 DEF Call
  <2>2. CASE ReadWall(t)
    <3>1. tick \div TicksPerMs \in Nat
      BY DivBounds
    <3>2. wall' \in [Threads -> Nat]
      BY <2>2, <3>1 DEF ReadWall
    <3> QED
      BY <2>2, <3>2 DEF ReadWall
  <2>3. CASE StoreWall(t)
    BY <2>3 DEF StoreWall
  <2>4. CASE StoreTick(t)
    BY <2>4 DEF StoreTick
  <2>5. CASE StoreSwapped(t)
    BY <2>5 DEF StoreSwapped
  <2>6. CASE LateWall(t)
    BY <2>6 DEF LateWall
  <2>7. CASE ReadMono(t)
    BY <2>7 DEF ReadMono
  <2>8. CASE Return(t)
    <3> HIDE DEF TypeOK, results
    <3>1. CASE counts[t]
      <4>1. last' \in [value : Nat, mono : Nat] /\ best' \in Nat \cup {-1}
        BY <2>8, <3>1, ReturnValue DEF TypeOK
      <4> QED
        BY <2>8, <4>1 DEF Return, TypeOK
    <3>2. CASE ~counts[t]
      BY <2>8, <3>2 DEF Return, Result, TypeOK, results
    <3> QED
      BY <3>1, <3>2
  <2> QED
    BY <1>3, <2>1, <2>2, <2>3, <2>4, <2>5, <2>6, <2>7, <2>8 DEF Now
<1>4. CASE UNCHANGED vars
  BY <1>4 DEF vars
<1> QED
  BY <1>1, <1>2, <1>3, <1>4 DEF Next

\* Once the capture is over it stays over: a call that begins then finds the
\* baselines and stores none.
LEMMA CapturedStays ==
  ASSUME TypeOK, Captured, [Next]_vars
  PROVE  Captured' /\ UNCHANGED <<wallBase, tickBase>>
<1> USE DEF TypeOK, Captured, Capturing, Goto, localVars, results
<1>1. CASE Tick
  BY <1>1 DEF Tick
<1>2. CASE TimeSync
  BY <1>2 DEF TimeSync
<1>3. ASSUME NEW t \in Threads, Now(t) PROVE Captured' /\ UNCHANGED <<wallBase, tickBase>>
  <2>1. CASE Call(t)
    BY <2>1 DEF Call
  <2>2. CASE ReadMono(t)
    BY <2>2 DEF ReadMono
  <2>3. CASE Return(t)
    BY <2>3 DEF Return
  <2>4. CASE ReadWall(t) \/ StoreWall(t) \/ StoreTick(t) \/ StoreSwapped(t) \/ LateWall(t)
    BY <2>4 DEF ReadWall, StoreWall, StoreTick, StoreSwapped, LateWall
  <2> QED
    BY <1>3, <2>1, <2>2, <2>3, <2>4 DEF Now
<1>4. CASE UNCHANGED vars
  BY <1>4 DEF vars
<1> QED
  BY <1>1, <1>2, <1>3, <1>4 DEF Next

\* What counts began when the capture was over.
LEMMA CaptureStep ==
  ASSUME TypeOK, CaptureInv, [Next]_vars
  PROVE  CaptureInv'
<1>1. CASE Tick \/ TimeSync \/ UNCHANGED vars
  <2>1. UNCHANGED <<tickBase, pc, counts, floor, best, last>>
    BY <1>1 DEF Tick, TimeSync, vars, localVars, results
  <2> QED
    BY <2>1 DEF CaptureInv, Captured, Never
<1>2. ASSUME NEW t \in Threads, Now(t) PROVE CaptureInv'
  <2>1. Captured => Captured'
    BY <1>2, CapturedStays DEF Next
  <2>2. CASE Call(t)
    <3>1. UNCHANGED results
      BY <2>2 DEF Call
    <3>2. \A u \in Threads : counts'[u] => Captured
      BY <2>2 DEF Call, TypeOK, CaptureInv
    <3>3. Never => \A u \in Threads : floor'[u] = -1
      BY <2>2 DEF Call, TypeOK, CaptureInv
    <3> QED
      BY <2>1, <3>1, <3>2, <3>3 DEF CaptureInv, Never, results
  <2>3. CASE Return(t)
    <3>1. UNCHANGED <<counts, floor>>
      BY <2>3 DEF Return, localVars
    <3>2. CASE counts[t]
      <4>1. ~Never'
        BY <2>3, <3>2, ReturnValue
      <4>2. Captured
        BY <3>2 DEF CaptureInv
      <4> QED
        BY <2>1, <3>1, <4>1, <4>2 DEF CaptureInv
    <3>3. CASE ~counts[t]
      <4>1. UNCHANGED results
        BY <2>3, <3>3 DEF Return, Result
      <4> QED
        BY <2>1, <3>1, <4>1 DEF CaptureInv, Never, results
    <3> QED
      BY <3>2, <3>3
  <2>4. CASE ReadWall(t) \/ StoreWall(t) \/ StoreTick(t) \/ StoreSwapped(t) \/ LateWall(t)
             \/ ReadMono(t)
    <3>1. UNCHANGED <<counts, floor, best, last>>
      BY <2>4 DEF ReadWall, StoreWall, StoreTick, StoreSwapped, LateWall, ReadMono,
                  localVars, results
    <3> QED
      BY <2>1, <3>1 DEF CaptureInv, Never
  <2> QED
    BY <1>2, <2>2, <2>3, <2>4 DEF Now
<1> QED
  BY <1>1, <1>2 DEF Next

\* The baseline and the ticks threads have read never lie in the future.
LEMMA TickStep ==
  ASSUME TypeOK, CaptureInv, TickInv, [Next]_vars
  PROVE  TickInv'
<1> USE DEF TypeOK, CaptureInv, Captured, Capturing, TickInv, Goto, localVars
<1>1. CASE Tick
  BY <1>1 DEF Tick
<1>2. CASE TimeSync
  BY <1>2 DEF TimeSync
<1>3. ASSUME NEW t \in Threads, Now(t) PROVE TickInv'
  <2>1. CASE Call(t)
    BY <2>1 DEF Call
  <2>2. CASE ReadWall(t)
    BY <2>2 DEF ReadWall
  <2>3. CASE StoreWall(t)
    BY <2>3 DEF StoreWall
  <2>4. CASE StoreTick(t)
    BY <2>4 DEF StoreTick
  <2>5. CASE StoreSwapped(t)
    BY <2>5 DEF StoreSwapped
  <2>6. CASE LateWall(t)
    BY <2>6 DEF LateWall
  <2>7. CASE ReadMono(t)
    BY <2>7 DEF ReadMono
  <2>8. CASE Return(t)
    BY <2>8 DEF Return
  <2> QED
    BY <1>3, <2>1, <2>2, <2>3, <2>4, <2>5, <2>6, <2>7, <2>8 DEF Now
<1>4. CASE UNCHANGED vars
  BY <1>4 DEF vars
<1> QED
  BY <1>1, <1>2, <1>3, <1>4 DEF Next

\* Results never run ahead of the clock, and a call is never behind one that was
\* over when it began.
LEMMA ResultStep ==
  ASSUME TypeOK, CaptureInv, TickInv, ResultInv, [Next]_vars
  PROVE  ResultInv'
<1>1. tick \in 0 .. MaxTick /\ tickBase \in 0 .. MaxTick /\ tickBase <= tick
  BY DEF TypeOK, TickInv
<1>2. best \in Int /\ \A u \in Threads : floor[u] \in Int
  BY DEF TypeOK
<1> USE DEF Goto, localVars, results
<1>3. CASE Tick
  <2>1. At(tick) \in Nat /\ At(tick) <= At(tick + 1)
    BY <1>1, <1>3, AtMono DEF Tick
  <2>2. At(tick)' = At(tick + 1)
    BY <1>3 DEF Tick, At
  <2>3. At(tick + 1) \in Int
    BY <2>2, <1>1, <1>3, AtMono DEF Tick
  <2>4. best' <= At(tick)'
    BY <1>2, <1>3, <2>1, <2>2, <2>3 DEF Tick, ResultInv
  <2> QED
    BY <1>3, <2>4 DEF Tick, ResultInv, Never, At
<1>4. CASE TimeSync
  BY <1>4 DEF TimeSync, ResultInv, Never, At
<1>5. CASE UNCHANGED vars
  BY <1>5 DEF vars, ResultInv, Never, At
<1>6. ASSUME NEW t \in Threads, Now(t) PROVE ResultInv'
  <2>1. CASE Call(t)
    BY <1>2, <2>1 DEF Call, TypeOK, ResultInv, Never, At
  <2>2. CASE ReadWall(t)
    BY <2>2 DEF ReadWall, TypeOK, ResultInv, Never, At
  <2>3. CASE StoreWall(t) \/ StoreTick(t) \/ StoreSwapped(t) \/ LateWall(t)
    <3>1. pc[t] \in {"storeWall", "storeTick", "lateWall"}
      BY <2>3 DEF StoreWall, StoreTick, StoreSwapped, LateWall, Goto
    <3>2. ~Captured
      BY <3>1 DEF Captured, Capturing
    <3>3. Never /\ best = -1 /\ \A u \in Threads : floor[u] = -1 /\ ~counts[u]
      BY <3>2 DEF CaptureInv
    <3>4. UNCHANGED <<tick, counts, floor, best, last>>
      BY <2>3 DEF StoreWall, StoreTick, StoreSwapped, LateWall, localVars, results
    <3>6. tick' - tickBase' \in Nat /\ wallBase' \in Nat
      BY TypeStep, TickStep DEF TypeOK, TickInv
    <3>7. At(tick)' \in Nat
      BY <3>6, DivBounds DEF At
    <3> QED
      BY <3>3, <3>4, <3>7 DEF ResultInv, Never
  <2>4. CASE ReadMono(t)
    <3>1. UNCHANGED <<tick, wallBase, tickBase, counts, floor, results>>
      BY <2>4 DEF ReadMono
    <3>2. mono'[t] = tick /\ \A u \in Threads : u # t => mono'[u] = mono[u] /\ pc'[u] = pc[u]
      BY <2>4 DEF ReadMono, TypeOK
    <3>3. At(mono[t])' = At(tick)
      BY <3>1, <3>2 DEF At
    <3>4. At(tick) \in Nat
      BY <1>1, AtMono
    <3>5. floor[t] <= At(tick)
      BY <1>2, <3>4 DEF ResultInv
    <3>6. \A u \in Threads : counts'[u] /\ pc'[u] = "return" => floor'[u] <= At(mono[u])'
      <4> SUFFICES ASSUME NEW u \in Threads, counts'[u], pc'[u] = "return"
                   PROVE  floor'[u] <= At(mono[u])'
        OBVIOUS
      <4>1. CASE u = t
        BY <4>1, <3>1, <3>3, <3>5
      <4>2. CASE u # t
        BY <4>2, <3>1, <3>2 DEF ResultInv, At
      <4> QED
        BY <4>1, <4>2
    <3> QED
      BY <3>1, <3>6 DEF ResultInv, Never, At
  <2>5. CASE Return(t) /\ ~counts[t]
    <3>1. UNCHANGED <<tick, wallBase, tickBase, mono, counts, floor, best, last>>
      BY <2>5 DEF Return, Result
    <3>2. \A u \in Threads : pc'[u] = "return" => pc[u] = "return"
      BY <2>5 DEF Return, TypeOK
    <3> QED
      BY <3>1, <3>2 DEF ResultInv, Never, At
  <2>6. CASE Return(t) /\ counts[t]
    <3>1. UNCHANGED <<tick, wallBase, tickBase, mono, counts, floor>>
      BY <2>6 DEF Return
    <3>2. pc[t] = "return" /\ \A u \in Threads : pc'[u] = "return" => pc[u] = "return"
      BY <2>6 DEF Return, TypeOK
    <3>3. mono[t] \in 0 .. MaxTick /\ tickBase <= mono[t] /\ mono[t] <= tick
      BY <2>6, <3>2 DEF TypeOK, TickInv
    <3>4. wallBase + Elapsed(t) = At(mono[t])
      BY <1>1, <3>3, NoWrap DEF Elapsed, At
    <3>5. At(mono[t]) \in Nat /\ At(mono[t]) <= At(tick) /\ At(tick) \in Nat
      BY <1>1, <3>3, AtMono
    <3>6. /\ best' = IF At(mono[t]) > best THEN At(mono[t]) ELSE best
          /\ last'.value = At(mono[t]) /\ last'.mono = mono[t]
      BY <2>6, <3>4, ReturnValue
    <3>7. best <= At(tick) /\ \A u \in Threads : floor[u] <= best
      BY DEF ResultInv
    <3>8. At(tick)' = At(tick) /\ \A m : At(m)' = At(m)
      BY <3>1 DEF At
    <3>9. best' <= At(tick)'
      BY <1>2, <3>5, <3>6, <3>7, <3>8
    <3>10. \A u \in Threads : floor'[u] <= best'
      BY <1>2, <3>1, <3>5, <3>6, <3>7
    <3>11. \A u \in Threads : counts'[u] /\ pc'[u] = "return" => floor'[u] <= At(mono[u])'
      BY <3>1, <3>2 DEF ResultInv, At
    <3>12. last'.value = At(last.mono)' /\ tickBase' <= last'.mono
      BY <3>1, <3>3, <3>6 DEF At
    <3> QED
      BY <3>9, <3>10, <3>11, <3>12 DEF ResultInv
  <2> QED
    BY <1>6, <2>1, <2>2, <2>3, <2>4, <2>5, <2>6 DEF Now
<1> QED
  BY <1>3, <1>4, <1>5, <1>6 DEF Next

\* Before the first call both baselines are zero and nothing was returned.
LEMMA InitInv == Init => IInv
<1> SUFFICES ASSUME Init PROVE IInv
  OBVIOUS
<1> USE DEF Init
<1>1. TypeOK
  <2>1. tick \in 1 .. MaxTick /\ skew \in 0 .. MaxSkew /\ wallBase \in Nat
        /\ tickBase \in 0 .. MaxTick
    OBVIOUS
  <2>2. wall \in [Threads -> Nat] /\ mono \in [Threads -> 0 .. MaxTick]
        /\ floor \in [Threads -> Nat \cup {-1}]
    OBVIOUS
  <2>3. best \in Nat \cup {-1} /\ last \in {Nothing}
    OBVIOUS
  <2> QED
    BY <2>1, <2>2, <2>3 DEF TypeOK
<1>2. CaptureInv /\ TickInv
  BY DEF CaptureInv, TickInv, Never
<1>3. At(tick) \in Nat
  <2>1. tick \in 0 .. MaxTick /\ tickBase <= tick
    BY <1>1 DEF TypeOK
  <2> QED
    BY <1>1, <2>1, AtMono
<1>4. ResultInv
  BY <1>3 DEF ResultInv, Never
<1> QED
  BY <1>1, <1>2, <1>4 DEF IInv

\* IInv holds in every reachable state.
THEOREM Invariance == Spec => []IInv
<1>1. IInv /\ [Next]_vars => IInv'
  BY TypeStep, CaptureStep, TickStep, ResultStep DEF IInv
<1> QED
  BY InitInv, <1>1, PTL DEF Spec

\* Every variable keeps its type, however first calls overlap.
THEOREM TypeCorrect == Spec => []TypeOK
<1>1. IInv => TypeOK
  BY DEF IInv
<1> QED
  BY Invariance, <1>1, PTL

\* From the end of the capture on, however many threads took part in it, now() never
\* steps back, however the wall clock is corrected and the stores were ordered.
THEOREM ClockNeverBackwards == Spec => NeverBackwards
<1>1. IInv /\ [Next]_vars =>
        [\A t \in Threads : Return(t) /\ counts[t] => last'.value >= floor[t]]_vars
  <2> SUFFICES ASSUME IInv, NEW t \in Threads, Return(t), counts[t]
               PROVE  last'.value >= floor[t]
    OBVIOUS
  <2>1. TypeOK /\ TickInv /\ ResultInv /\ pc[t] = "return"
    BY DEF IInv, Return, Goto
  <2>2. tick \in 0 .. MaxTick /\ tickBase \in 0 .. MaxTick /\ mono[t] \in 0 .. MaxTick
        /\ tickBase <= mono[t] /\ floor[t] \in Int
    BY <2>1 DEF TypeOK, TickInv
  <2>3. last'.value = At(mono[t]) /\ At(mono[t]) \in Nat
    BY <2>1, <2>2, ReturnValue, NoWrap, AtMono DEF Elapsed, At
  <2> QED
    BY <2>1, <2>2, <2>3 DEF ResultInv
<1> QED
  BY Invariance, <1>1, PTL DEF Spec, NeverBackwards

\* Two roundings to whole milliseconds differ from the ticks between them by less
\* than one unit.
LEMMA RoundingDrift ==
  ASSUME NEW a \in Nat, NEW b \in Nat
  PROVE  LET drift == ((b \div TicksPerMs) - (a \div TicksPerMs)) * TicksPerMs - (b - a)
         IN  -TicksPerMs < drift /\ drift < TicksPerMs
<1> DEFINE p == a \div TicksPerMs
           q == b \div TicksPerMs
<1>1. p \in Nat /\ TicksPerMs * p <= a /\ a < TicksPerMs * p + TicksPerMs
  BY DivBounds
<1>2. q \in Nat /\ TicksPerMs * q <= b /\ b < TicksPerMs * q + TicksPerMs
  BY DivBounds
<1> HIDE DEF p, q
<1>3. (q - p) * TicksPerMs = TicksPerMs * q - TicksPerMs * p
  BY <1>1, <1>2
<1>4. TicksPerMs * q \in Nat /\ TicksPerMs * p \in Nat
  BY <1>1, <1>2
<1>5. /\ -TicksPerMs < (q - p) * TicksPerMs - (b - a)
      /\ (q - p) * TicksPerMs - (b - a) < TicksPerMs
  BY <1>1, <1>2, <1>3, <1>4
<1> QED
  BY <1>5 DEF p, q

\* From then on results follow the hardware counter to less than a millisecond: the
\* subtraction does not wrap around, and no time sync shows in now().
THEOREM ClockKeepsHardwareTime == Spec => KeepsHardwareTime
<1> DEFINE Drift == (last'.value - last.value) * TicksPerMs - (last'.mono - last.mono)
<1>1. IInv /\ [Next]_vars =>
        [\A t \in Threads : Return(t) /\ counts[t] /\ ~Never =>
           -TicksPerMs < Drift /\ Drift < TicksPerMs]_vars
  <2> SUFFICES ASSUME IInv, NEW t \in Threads, Return(t), counts[t], ~Never
               PROVE  -TicksPerMs < Drift /\ Drift < TicksPerMs
    OBVIOUS
  <2> DEFINE a == last.mono - tickBase
             b == mono[t] - tickBase
  <2>1. TypeOK /\ TickInv /\ ResultInv /\ pc[t] = "return"
    BY DEF IInv, Return, Goto
  <2>2. last \in [value : Nat, mono : Nat]
    BY <2>1 DEF TypeOK, Never
  <2>3. tickBase \in 0 .. MaxTick /\ mono[t] \in 0 .. MaxTick /\ tickBase <= mono[t]
        /\ last.mono \in Nat /\ tickBase <= last.mono /\ wallBase \in Nat
    BY <2>1, <2>2 DEF TypeOK, TickInv, ResultInv
  <2>4. a \in Nat /\ b \in Nat /\ b - a = mono[t] - last.mono
    BY <2>3
  <2>5. a \div TicksPerMs \in Nat /\ b \div TicksPerMs \in Nat
    BY <2>4, DivBounds
  <2>6. last.value = wallBase + (a \div TicksPerMs)
    BY <2>1 DEF ResultInv, At
  <2>7. last'.value = wallBase + (b \div TicksPerMs) /\ last'.mono = mono[t]
    BY <2>1, <2>3, ReturnValue, NoWrap DEF Elapsed
  <2> HIDE DEF a, b
  <2>8. last'.value - last.value = (b \div TicksPerMs) - (a \div TicksPerMs)
    BY <2>3, <2>5, <2>6, <2>7
  <2>9. Drift = ((b \div TicksPerMs) - (a \div TicksPerMs)) * TicksPerMs - (b - a)
    BY <2>4, <2>7, <2>8
  <2> QED
    BY <2>4, <2>9, RoundingDrift
<1> QED
  BY Invariance, <1>1, PTL DEF Spec, KeepsHardwareTime
=============================================================================
