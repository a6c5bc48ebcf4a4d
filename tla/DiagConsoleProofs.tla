------------------------- MODULE DiagConsoleProofs -------------------------
(***************************************************************************)
(* Proofs about DiagConsole, for any number of workers, messages and bytes *)
(* of buffer.                                                              *)
(***************************************************************************)
EXTENDS DiagConsole, SequenceTheorems, FiniteSetTheorems, TLAPS

USE ThreadsAssumption, SizeAssumption, LensAssumption
  DEF Threads, ThreadsAssumption, SizeAssumption, LensAssumption

\* A message has at least one byte.
LEMMA LenType ==
  ASSUME TypeOK, NEW t \in Threads, Len(wrote[t]) > 0
  PROVE  Current(t).len \in Nat \ {0}
<1>1. wrote[t] \in Seq(Messages)
  BY DEF TypeOK
<1>2. Current(t) \in Messages
  BY <1>1, ElementOfSeq DEF Current
<1>3. Current(t).len \in MsgLens
  BY <1>2 DEF Messages
<1> QED
  BY <1>3

\* A message is a sequence of bytes.
LEMMA RestType ==
  ASSUME TypeOK, NEW t \in Threads, NEW k \in Nat,
         Len(wrote[t]) > 0, k <= Current(t).len
  PROVE  /\ Rest(t, k) \in Seq(Bytes)
         /\ Len(Rest(t, k)) = Current(t).len - k
         /\ \A i \in 1 .. Current(t).len - k : Rest(t, k)[i] = <<t, Len(wrote[t]), k + i>>
<1> DEFINE n == Current(t).len - k
           m == Len(wrote[t])
<1>1. m \in Nat
  BY DEF TypeOK
<1>2. n \in Nat
  BY LenType
<1>3. \A i \in 1 .. n : <<t, m, k + i>> \in Bytes
  BY <1>1, <1>2 DEF Bytes
<1>4. Rest(t, k) = [i \in 1 .. n |-> <<t, m, k + i>>]
  BY DEF Rest
<1>5. Rest(t, k) \in [1 .. n -> Bytes]
  BY <1>3, <1>4
<1> HIDE DEF n, m
<1>6. Rest(t, k) \in Seq(Bytes) /\ Len(Rest(t, k)) = n
  BY <1>2, <1>5, IsASeq, LenProperties
<1>7. \A i \in 1 .. n : Rest(t, k)[i] = <<t, m, k + i>>
  BY <1>4
<1> QED
  BY <1>6, <1>7 DEF n, m

\* The next byte of an unfinished message.
LEMMA RestFirst ==
  ASSUME TypeOK, NEW t \in Threads, NEW k \in Nat,
         Len(wrote[t]) > 0, k < Current(t).len
  PROVE  Head(Rest(t, k)) = <<t, Len(wrote[t]), k + 1>> /\ Head(Rest(t, k)) \in Bytes
<1>2. Current(t).len \in Nat
  BY LenType
<1>3. /\ Rest(t, k) \in Seq(Bytes) /\ Len(Rest(t, k)) > 0
      /\ Rest(t, k)[1] = <<t, Len(wrote[t]), k + 1>>
  BY <1>2, RestType
<1> QED
  BY <1>3

\* What a step of log_write does outside the log.
LEMMA LogFrame ==
  ASSUME NEW t \in Threads, LogSteps(t)
  PROVE  /\ UNCHANGED <<wrote, cursor, diagMutex, diagBuf, diagDropped, drain, drainDropped, console>>
         /\ InLog(t)
         /\ \/ /\ \E s \in {"openLog", "writeLog"} : pc' = [pc EXCEPT ![t] = s]
            \/ t = Main /\ pc' = [pc EXCEPT ![t] = "direct"]
            \/ t # Main /\ pc' = [pc EXCEPT ![t] = "lock"]
            \/ t # Main /\ pc' = [pc EXCEPT ![t] = "idle"] /\ Current(t).trace
<1>1. CASE LockLog(t)
  BY <1>1 DEF LockLog, Goto, InLog, diagVars, drainVars
<1>2. CASE OpenLog(t)
  BY <1>2 DEF OpenLog, LeaveLog, Goto, InLog, OnMainThread, diagVars, drainVars
<1>3. CASE WriteLog(t)
  BY <1>3 DEF WriteLog, LeaveLog, Goto, InLog, OnMainThread, diagVars, drainVars
<1> QED
  BY <1>1, <1>2, <1>3 DEF LogSteps

\* Every step keeps the types; AppendByte's guard keeps g_diag_len in bounds.
LEMMA TypeStep ==
  ASSUME LockInv, [Next]_vars
  PROVE  TypeOK'
<1> USE DEF LockInv, TypeOK, Goto, logVars, diagVars, drainVars
<1>1. ASSUME NEW t \in Threads, Write(t) PROVE TypeOK'
  <2>1. PICK m \in Messages : wrote' = [wrote EXCEPT ![t] = Append(@, m)]
    BY <1>1 DEF Write
  <2>2. wrote' \in [Threads -> Seq(Messages)]
    BY <2>1
  <2> QED
    BY <1>1, <2>2 DEF Write
<1>2. ASSUME NEW t \in Threads, LogSteps(t) PROVE TypeOK'
  <2> DEFINE e == Unlogged(t)
  <2>1. e \in Threads \X Nat
    BY DEF Unlogged
  <2> HIDE DEF e
  <2>2. CASE LockLog(t)
    BY <2>2 DEF LockLog
  <2>3. CASE OpenLog(t)
    <3>1. /\ logFile' \in {logFile, <<>>} /\ refused' \in {refused, refused \cup {e}}
          /\ logOpen' \in {logOpen, TRUE} /\ logMutex' \in {logMutex, NoThread}
      BY <2>3 DEF OpenLog, LeaveLog, e
    <3>2. logFile' \in Seq(Threads \X Nat)
      <4>1. <<>> \in Seq(Threads \X Nat)
        BY EmptySeq
      <4>2. logFile' = logFile \/ logFile' = <<>>
        BY <3>1
      <4> QED
        BY <4>1, <4>2
    <3>3. /\ refused' \subseteq Threads \X Nat
          /\ logOpen' \in BOOLEAN /\ logMutex' \in Threads \cup {NoThread}
      BY <2>1, <3>1
    <3>4. \E s \in {"writeLog", "direct", "idle", "lock"} : pc' = [pc EXCEPT ![t] = s]
      BY <2>3 DEF OpenLog, LeaveLog
    <3> QED
      BY <2>3, <3>2, <3>3, <3>4 DEF OpenLog
  <2>4. CASE WriteLog(t)
    <3>1. /\ logFile' \in {logFile, Append(logFile, e)} /\ refused' \in {refused, refused \cup {e}}
      BY <2>4 DEF WriteLog, e
    <3>2. logFile' \in Seq(Threads \X Nat)
      <4> HIDE DEF Threads
      <4>1. Append(logFile, e) \in Seq(Threads \X Nat)
        BY <2>1, AppendProperties
      <4> QED
        BY <3>1, <4>1
    <3> QED
      BY <2>1, <2>4, <3>1, <3>2 DEF WriteLog, LeaveLog
  <2> QED
    BY <1>2, <2>2, <2>3, <2>4 DEF LogSteps
<1>3. ASSUME NEW t \in Threads, DirectWrite(t) PROVE TypeOK'
  <2>1. Len(wrote[t]) > 0 /\ 0 <= Current(t).len
    BY <1>3, LenType DEF DirectWrite, MessageInv, InLog
  <2>2. Rest(t, 0) \in Seq(Bytes \cup {DropNote})
    BY <2>1, RestType, SeqMonotonic
  <2>3. console' \in Seq(Bytes \cup {DropNote})
    BY <1>3, <2>2, ConcatProperties DEF DirectWrite
  <2> QED
    BY <1>3, <2>3 DEF DirectWrite
<1>4. ASSUME NEW t \in Threads, LockBuffer(t) PROVE TypeOK'
  BY <1>4 DEF LockBuffer
<1>5. ASSUME NEW t \in Threads, AppendByte(t) PROVE TypeOK'
  <2>1. /\ Len(wrote[t]) > 0
        /\ cursor[t] < Current(t).len
    BY <1>5 DEF AppendByte, MessageInv, InLog
  <2>2. Head(Rest(t, cursor[t])) \in Bytes
    BY <2>1, RestFirst
  <2>3. diagBuf' \in Seq(Bytes) /\ Len(diagBuf') <= DIAG_BUF_SIZE
    BY <1>5, <2>2 DEF AppendByte
  <2>4. cursor' \in [Threads -> Nat]
    BY <1>5 DEF AppendByte
  <2> QED
    BY <1>5, <2>3, <2>4 DEF AppendByte
<1>6. ASSUME NEW t \in Threads, Truncate(t) PROVE TypeOK'
  BY <1>6 DEF Truncate
<1>7. ASSUME NEW t \in Threads, UnlockBuffer(t) PROVE TypeOK'
  BY <1>7 DEF UnlockBuffer
<1>8. ASSUME NEW t \in Threads, ConsoleUpdate(t) PROVE TypeOK'
  BY <1>8 DEF ConsoleUpdate
<1>9. ASSUME NEW t \in Threads, Snapshot(t) PROVE TypeOK'
  BY <1>9 DEF Snapshot
<1>10. ASSUME NEW t \in Threads, Reset(t) PROVE TypeOK'
  <2>1. diagBuf' \in Seq(Bytes) /\ Len(diagBuf') = 0
    BY <1>10, EmptySeq DEF Reset
  <2>2. Len(diagBuf') <= DIAG_BUF_SIZE
    BY <2>1
  <2> QED
    BY <1>10, <2>1, <2>2 DEF Reset
<1>11. ASSUME NEW t \in Threads, WriteDrain(t) PROVE TypeOK'
  <2>1. drain \in Seq(Bytes \cup {DropNote})
    BY SeqMonotonic
  <2>2. console' \in Seq(Bytes \cup {DropNote})
    BY <1>11, <2>1, ConcatProperties DEF WriteDrain
  <2> QED
    BY <1>11, <2>2 DEF WriteDrain
<1>12. ASSUME NEW t \in Threads, WriteNote(t) PROVE TypeOK'
  <2>1. console' \in Seq(Bytes \cup {DropNote})
    BY <1>12 DEF WriteNote
  <2> QED
    BY <1>12, <2>1 DEF WriteNote
<1>13. CASE UNCHANGED vars
  BY <1>13 DEF vars, logVars, diagVars, drainVars
<1> QED
  BY <1>1, <1>2, <1>3, <1>4, <1>5, <1>6, <1>7, <1>8, <1>9, <1>10, <1>11, <1>12, <1>13 DEF Next, WriteSteps, DrainSteps

\* A thread stays on its side of on_main_thread().
LEMMA RolesStep ==
  ASSUME LockInv, [Next]_vars
  PROVE  RolesInv'
<1> USE DEF LockInv, TypeOK, Goto, OnMainThread, RolesInv, InLog, logVars, diagVars, drainVars
<1>1. ASSUME NEW t \in Threads, Write(t) PROVE RolesInv'
  BY <1>1 DEF Write
<1>2. ASSUME NEW t \in Threads, LogSteps(t) PROVE RolesInv'
  BY <1>2, LogFrame
<1>3. ASSUME NEW t \in Threads, DirectWrite(t) PROVE RolesInv'
  BY <1>3 DEF DirectWrite
<1>4. ASSUME NEW t \in Threads, LockBuffer(t) PROVE RolesInv'
  BY <1>4 DEF LockBuffer
<1>5. ASSUME NEW t \in Threads, AppendByte(t) PROVE RolesInv'
  BY <1>5 DEF AppendByte
<1>6. ASSUME NEW t \in Threads, Truncate(t) PROVE RolesInv'
  BY <1>6 DEF Truncate
<1>7. ASSUME NEW t \in Threads, UnlockBuffer(t) PROVE RolesInv'
  BY <1>7 DEF UnlockBuffer
<1>8. ASSUME NEW t \in Threads, ConsoleUpdate(t) PROVE RolesInv'
  BY <1>8 DEF ConsoleUpdate
<1>9. ASSUME NEW t \in Threads, Snapshot(t) PROVE RolesInv'
  BY <1>9 DEF Snapshot
<1>10. ASSUME NEW t \in Threads, Reset(t) PROVE RolesInv'
  BY <1>10 DEF Reset
<1>11. ASSUME NEW t \in Threads, WriteDrain(t) PROVE RolesInv'
  BY <1>11 DEF WriteDrain
<1>12. ASSUME NEW t \in Threads, WriteNote(t) PROVE RolesInv'
  BY <1>12 DEF WriteNote
<1>13. CASE UNCHANGED vars
  BY <1>13 DEF vars, logVars, diagVars, drainVars
<1> QED
  BY <1>1, <1>2, <1>3, <1>4, <1>5, <1>6, <1>7, <1>8, <1>9, <1>10, <1>11, <1>12, <1>13 DEF Next, WriteSteps, DrainSteps

\* Every mutexLock waits for the mutex to be free, every mutexUnlock is its holder's.
LEMMA MutexStep ==
  ASSUME LockInv, [Next]_vars
  PROVE  MutexInv'
<1> USE DEF LockInv, TypeOK, Goto, OnMainThread, RolesInv, InLog, logVars, diagVars, drainVars, MutexInv, HoldsMutex
<1>1. ASSUME NEW t \in Threads, Write(t) PROVE MutexInv'
  BY <1>1 DEF Write
<1>2. ASSUME NEW t \in Threads, LogSteps(t) PROVE MutexInv'
  <2>1. /\ diagMutex' = diagMutex /\ ~HoldsMutex(t)
        /\ \E s \in {"openLog", "writeLog", "direct", "lock", "idle"} : pc' = [pc EXCEPT ![t] = s]
    BY <1>2, LogFrame
  <2>2. ~HoldsMutex(t)' /\ \A s \in Threads \ {t} : HoldsMutex(s)' = HoldsMutex(s)
    BY <2>1
  <2> QED
    BY <2>1, <2>2
<1>3. ASSUME NEW t \in Threads, DirectWrite(t) PROVE MutexInv'
  BY <1>3 DEF DirectWrite
<1>4. ASSUME NEW t \in Threads, LockBuffer(t) PROVE MutexInv'
  BY <1>4 DEF LockBuffer
<1>5. ASSUME NEW t \in Threads, AppendByte(t) PROVE MutexInv'
  BY <1>5 DEF AppendByte
<1>6. ASSUME NEW t \in Threads, Truncate(t) PROVE MutexInv'
  BY <1>6 DEF Truncate
<1>7. ASSUME NEW t \in Threads, UnlockBuffer(t) PROVE MutexInv'
  BY <1>7 DEF UnlockBuffer
<1>8. ASSUME NEW t \in Threads, ConsoleUpdate(t) PROVE MutexInv'
  BY <1>8 DEF ConsoleUpdate
<1>9. ASSUME NEW t \in Threads, Snapshot(t) PROVE MutexInv'
  BY <1>9 DEF Snapshot
<1>10. ASSUME NEW t \in Threads, Reset(t) PROVE MutexInv'
  BY <1>10 DEF Reset
<1>11. ASSUME NEW t \in Threads, WriteDrain(t) PROVE MutexInv'
  BY <1>11 DEF WriteDrain
<1>12. ASSUME NEW t \in Threads, WriteNote(t) PROVE MutexInv'
  BY <1>12 DEF WriteNote
<1>13. CASE UNCHANGED vars
  BY <1>13 DEF vars, logVars, diagVars, drainVars
<1> QED
  BY <1>1, <1>2, <1>3, <1>4, <1>5, <1>6, <1>7, <1>8, <1>9, <1>10, <1>11, <1>12, <1>13 DEF Next, WriteSteps, DrainSteps

\* A thread in a write call has a message, and has buffered no more than it.
LEMMA MessageStep ==
  ASSUME LockInv, [Next]_vars
  PROVE  MessageInv'
<1> USE DEF LockInv, TypeOK, Goto, OnMainThread, RolesInv, InLog, logVars, diagVars, drainVars, MessageInv, Current
<1>1. ASSUME NEW t \in Threads, Write(t) PROVE MessageInv'
  BY <1>1 DEF Write
<1>2. ASSUME NEW t \in Threads, LogSteps(t) PROVE MessageInv'
  BY <1>2, LogFrame
<1>3. ASSUME NEW t \in Threads, DirectWrite(t) PROVE MessageInv'
  BY <1>3 DEF DirectWrite
<1>4. ASSUME NEW t \in Threads, LockBuffer(t) PROVE MessageInv'
  BY <1>4, LenType DEF LockBuffer
<1>5. ASSUME NEW t \in Threads, AppendByte(t) PROVE MessageInv'
  <2>1. Len(wrote[t]) > 0 /\ cursor[t] < Current(t).len /\ cursor[t] \in Nat
    BY <1>5 DEF AppendByte
  <2>2. cursor[t] + 1 <= Current(t).len
    BY <2>1, LenType
  <2>3. cursor' = [cursor EXCEPT ![t] = @ + 1] /\ pc' = pc /\ wrote' = wrote
    BY <1>5 DEF AppendByte
  <2>4. cursor'[t] <= Current(t).len
    BY <2>2, <2>3
  <2>5. \A s \in Threads \ {t} : cursor'[s] = cursor[s]
    BY <2>3
  <2> QED
    BY <2>3, <2>4, <2>5
<1>6. ASSUME NEW t \in Threads, Truncate(t) PROVE MessageInv'
  BY <1>6 DEF Truncate
<1>7. ASSUME NEW t \in Threads, UnlockBuffer(t) PROVE MessageInv'
  BY <1>7 DEF UnlockBuffer
<1>8. ASSUME NEW t \in Threads, ConsoleUpdate(t) PROVE MessageInv'
  BY <1>8 DEF ConsoleUpdate
<1>9. ASSUME NEW t \in Threads, Snapshot(t) PROVE MessageInv'
  BY <1>9 DEF Snapshot
<1>10. ASSUME NEW t \in Threads, Reset(t) PROVE MessageInv'
  BY <1>10 DEF Reset
<1>11. ASSUME NEW t \in Threads, WriteDrain(t) PROVE MessageInv'
  BY <1>11 DEF WriteDrain
<1>12. ASSUME NEW t \in Threads, WriteNote(t) PROVE MessageInv'
  BY <1>12 DEF WriteNote
<1>13. CASE UNCHANGED vars
  BY <1>13 DEF vars, logVars, diagVars, drainVars
<1> QED
  BY <1>1, <1>2, <1>3, <1>4, <1>5, <1>6, <1>7, <1>8, <1>9, <1>10, <1>11, <1>12, <1>13 DEF Next, WriteSteps, DrainSteps

\* The mutex keeps workers out while the main thread copies the buffer.
LEMMA DrainStep ==
  ASSUME LockInv, [Next]_vars
  PROVE  DrainInv'
<1> USE DEF LockInv, TypeOK, Goto, OnMainThread, RolesInv, InLog, logVars, diagVars, drainVars, DrainInv, MutexInv, HoldsMutex
<1>1. ASSUME NEW t \in Threads, Write(t) PROVE DrainInv'
  BY <1>1 DEF Write
<1>2. ASSUME NEW t \in Threads, LogSteps(t) PROVE DrainInv'
  BY <1>2, LogFrame
<1>3. ASSUME NEW t \in Threads, DirectWrite(t) PROVE DrainInv'
  BY <1>3 DEF DirectWrite
<1>4. ASSUME NEW t \in Threads, LockBuffer(t) PROVE DrainInv'
  BY <1>4 DEF LockBuffer
<1>5. ASSUME NEW t \in Threads, AppendByte(t) PROVE DrainInv'
  BY <1>5 DEF AppendByte
<1>6. ASSUME NEW t \in Threads, Truncate(t) PROVE DrainInv'
  BY <1>6 DEF Truncate
<1>7. ASSUME NEW t \in Threads, UnlockBuffer(t) PROVE DrainInv'
  BY <1>7 DEF UnlockBuffer
<1>8. ASSUME NEW t \in Threads, ConsoleUpdate(t) PROVE DrainInv'
  BY <1>8 DEF ConsoleUpdate
<1>9. ASSUME NEW t \in Threads, Snapshot(t) PROVE DrainInv'
  BY <1>9 DEF Snapshot
<1>10. ASSUME NEW t \in Threads, Reset(t) PROVE DrainInv'
  BY <1>10 DEF Reset
<1>11. ASSUME NEW t \in Threads, WriteDrain(t) PROVE DrainInv'
  BY <1>11 DEF WriteDrain
<1>12. ASSUME NEW t \in Threads, WriteNote(t) PROVE DrainInv'
  BY <1>12 DEF WriteNote
<1>13. CASE UNCHANGED vars
  BY <1>13 DEF vars, logVars, diagVars, drainVars
<1> QED
  BY <1>1, <1>2, <1>3, <1>4, <1>5, <1>6, <1>7, <1>8, <1>9, <1>10, <1>11, <1>12, <1>13 DEF Next, WriteSteps, DrainSteps

\* A message is cut only at a full buffer.
LEMMA CutStep ==
  ASSUME LockInv, [Next]_vars
  PROVE  CutInv'
<1> USE DEF LockInv, TypeOK, Goto, OnMainThread, RolesInv, InLog, logVars, diagVars, drainVars, CutInv, MutexInv, HoldsMutex
<1>1. ASSUME NEW t \in Threads, Write(t) PROVE CutInv'
  BY <1>1 DEF Write
<1>2. ASSUME NEW t \in Threads, LogSteps(t) PROVE CutInv'
  BY <1>2, LogFrame
<1>3. ASSUME NEW t \in Threads, DirectWrite(t) PROVE CutInv'
  BY <1>3 DEF DirectWrite
<1>4. ASSUME NEW t \in Threads, LockBuffer(t) PROVE CutInv'
  BY <1>4 DEF LockBuffer
<1>5. ASSUME NEW t \in Threads, AppendByte(t) PROVE CutInv'
  BY <1>5 DEF AppendByte
<1>6. ASSUME NEW t \in Threads, Truncate(t) PROVE CutInv'
  BY <1>6 DEF Truncate
<1>7. ASSUME NEW t \in Threads, UnlockBuffer(t) PROVE CutInv'
  BY <1>7 DEF UnlockBuffer
<1>8. ASSUME NEW t \in Threads, ConsoleUpdate(t) PROVE CutInv'
  BY <1>8 DEF ConsoleUpdate
<1>9. ASSUME NEW t \in Threads, Snapshot(t) PROVE CutInv'
  BY <1>9 DEF Snapshot
<1>10. ASSUME NEW t \in Threads, Reset(t) PROVE CutInv'
  BY <1>10 DEF Reset
<1>11. ASSUME NEW t \in Threads, WriteDrain(t) PROVE CutInv'
  BY <1>11 DEF WriteDrain
<1>12. ASSUME NEW t \in Threads, WriteNote(t) PROVE CutInv'
  BY <1>12 DEF WriteNote
<1>13. CASE UNCHANGED vars
  BY <1>13 DEF vars, logVars, diagVars, drainVars
<1> QED
  BY <1>1, <1>2, <1>3, <1>4, <1>5, <1>6, <1>7, <1>8, <1>9, <1>10, <1>11, <1>12, <1>13 DEF Next, WriteSteps, DrainSteps

\* The drop flag goes up only at a full buffer and down with its length.
LEMMA DropStep ==
  ASSUME LockInv, [Next]_vars
  PROVE  DropOnlyWhenFull'
<1> USE DEF LockInv, TypeOK, Goto, OnMainThread, RolesInv, InLog, logVars, diagVars, drainVars, DropOnlyWhenFull
<1>1. ASSUME NEW t \in Threads, Write(t) PROVE DropOnlyWhenFull'
  BY <1>1 DEF Write
<1>2. ASSUME NEW t \in Threads, LogSteps(t) PROVE DropOnlyWhenFull'
  BY <1>2, LogFrame
<1>3. ASSUME NEW t \in Threads, DirectWrite(t) PROVE DropOnlyWhenFull'
  BY <1>3 DEF DirectWrite
<1>4. ASSUME NEW t \in Threads, LockBuffer(t) PROVE DropOnlyWhenFull'
  BY <1>4 DEF LockBuffer
<1>5. ASSUME NEW t \in Threads, AppendByte(t) PROVE DropOnlyWhenFull'
  BY <1>5 DEF AppendByte
<1>6. ASSUME NEW t \in Threads, Truncate(t) PROVE DropOnlyWhenFull'
  BY <1>6 DEF Truncate
<1>7. ASSUME NEW t \in Threads, UnlockBuffer(t) PROVE DropOnlyWhenFull'
  BY <1>7 DEF UnlockBuffer
<1>8. ASSUME NEW t \in Threads, ConsoleUpdate(t) PROVE DropOnlyWhenFull'
  BY <1>8 DEF ConsoleUpdate
<1>9. ASSUME NEW t \in Threads, Snapshot(t) PROVE DropOnlyWhenFull'
  BY <1>9 DEF Snapshot
<1>10. ASSUME NEW t \in Threads, Reset(t) PROVE DropOnlyWhenFull'
  BY <1>10 DEF Reset
<1>11. ASSUME NEW t \in Threads, WriteDrain(t) PROVE DropOnlyWhenFull'
  BY <1>11 DEF WriteDrain
<1>12. ASSUME NEW t \in Threads, WriteNote(t) PROVE DropOnlyWhenFull'
  BY <1>12 DEF WriteNote
<1>13. CASE UNCHANGED vars
  BY <1>13 DEF vars, logVars, diagVars, drainVars
<1> QED
  BY <1>1, <1>2, <1>3, <1>4, <1>5, <1>6, <1>7, <1>8, <1>9, <1>10, <1>11, <1>12, <1>13 DEF Next, WriteSteps, DrainSteps

\* It holds initially.
LEMMA LockInit == Init => LockInv
<1> SUFFICES ASSUME Init PROVE LockInv
  OBVIOUS
<1>1. TypeOK
  <2>1. \A S : <<>> \in Seq(S) /\ Len(<<>>) = 0
    BY EmptySeq
  <2>2. wrote \in [Threads -> Seq(Messages)]
    BY <2>1 DEF Init
  <2>3. diagBuf \in Seq(Bytes) /\ Len(diagBuf) <= DIAG_BUF_SIZE
    BY <2>1 DEF Init
  <2> QED
    BY <2>1, <2>2, <2>3 DEF Init, TypeOK
<1>2. MutexInv /\ RolesInv /\ MessageInv /\ DrainInv /\ CutInv /\ DropOnlyWhenFull
  BY DEF Init, MutexInv, HoldsMutex, RolesInv, MessageInv, DrainInv, CutInv, DropOnlyWhenFull, InLog
<1> QED
  BY <1>1, <1>2 DEF LockInv

\* The locking part of the invariant is inductive on its own.
LEMMA LockStep == LockInv /\ [Next]_vars => LockInv'
BY TypeStep, RolesStep, MutexStep, MessageStep, DrainStep, CutStep, DropStep DEF LockInv

-----------------------------------------------------------------------------
(* The log.                                                                *)

\* g_log_mutex excludes, too: the file is opened once.
LEMMA LogMutexStep ==
  ASSUME LockInv, LogMutexInv, [Next]_vars
  PROVE  LogMutexInv'
<1> HIDE DEF Threads
<1> USE DEF LogMutexInv, Goto, logVars
<1>0. /\ pc \in [Threads -> {"idle", "log", "openLog", "writeLog", "direct", "lock", "append", "unlock",
                            "snap", "reset", "drain", "note"}]
      /\ NoThread \notin Threads
  BY DEF LockInv, TypeOK, Threads
<1>1. ASSUME NEW t \in Threads, LockLog(t) PROVE LogMutexInv'
  BY <1>0, <1>1 DEF LockLog
<1>2. ASSUME NEW t \in Threads, OpenLog(t) PROVE LogMutexInv'
  <2>1. pc[t] = "openLog" /\ logMutex = t /\ \A s \in Threads \ {t} : pc[s] \notin {"openLog", "writeLog"}
    BY <1>0, <1>2 DEF OpenLog, LeaveLog
  <2>2. \/ pc' = [pc EXCEPT ![t] = "writeLog"] /\ logMutex' = logMutex /\ logOpen' = TRUE
        \/ /\ \E x \in {"direct", "idle", "lock"} : pc' = [pc EXCEPT ![t] = x]
           /\ logMutex' = NoThread /\ logOpen' = logOpen
    BY <1>2 DEF OpenLog, LeaveLog
  <2>3. \A s \in Threads \ {t} : pc'[s] = pc[s]
    BY <1>0, <2>2
  <2>4. CASE pc' = [pc EXCEPT ![t] = "writeLog"] /\ logMutex' = logMutex /\ logOpen' = TRUE
    BY <1>0, <2>1, <2>3, <2>4
  <2>5. CASE /\ \E x \in {"direct", "idle", "lock"} : pc' = [pc EXCEPT ![t] = x]
             /\ logMutex' = NoThread /\ logOpen' = logOpen
    BY <1>0, <2>1, <2>3, <2>5
  <2> QED
    BY <2>2, <2>4, <2>5
<1>3. ASSUME NEW t \in Threads, WriteLog(t) PROVE LogMutexInv'
  <2>1. pc[t] = "writeLog" /\ logMutex = t /\ \A s \in Threads \ {t} : pc[s] \notin {"openLog", "writeLog"}
    BY <1>0, <1>3 DEF WriteLog, LeaveLog
  <2>2. /\ \E x \in {"direct", "idle", "lock"} : pc' = [pc EXCEPT ![t] = x]
        /\ logMutex' = NoThread /\ logOpen' = logOpen
    BY <1>3 DEF WriteLog, LeaveLog
  <2> QED
    BY <1>0, <2>1, <2>2
<1>4. ASSUME NEW t \in Threads,
             Write(t) \/ DirectWrite(t) \/ LockBuffer(t) \/ AppendByte(t) \/ Truncate(t) \/ UnlockBuffer(t)
      PROVE  LogMutexInv'
  BY <1>0, <1>4 DEF Write, DirectWrite, LockBuffer, AppendByte, Truncate, UnlockBuffer
<1>5. ASSUME NEW t \in Threads, DrainSteps(t) PROVE LogMutexInv'
  BY <1>0, <1>5 DEF DrainSteps, ConsoleUpdate, Snapshot, Reset, WriteDrain, WriteNote
<1>6. CASE UNCHANGED vars
  BY <1>6 DEF vars
<1> QED
  BY <1>1, <1>2, <1>3, <1>4, <1>5, <1>6 DEF Next, WriteSteps, LogSteps

\* LogIsComplete of one thread: what is in the file or refused, and the order.
Complete(t, n, f, r) == <<t, n>> \in r \/ \E i \in 1 .. Len(f) : f[i] = <<t, n>>
Ordered(t, f, n) ==
  \A j \in 1 .. Len(f) : f[j][1] = t =>
    /\ f[j][2] <= n
    /\ \A i \in 1 .. j - 1 : f[i][1] = t => f[i][2] < f[j][2]

LEMMA LogParts ==
  LogIsComplete <=>
    \A t \in Threads : /\ \A n \in 1 .. Logged(t) : Complete(t, n, logFile, refused)
                       /\ Ordered(t, logFile, Logged(t))
BY DEF LogIsComplete, Complete, Ordered

LEMMA LogPartsNext ==
  LogIsComplete' <=>
    \A t \in Threads : /\ \A n \in 1 .. Logged(t)' : Complete(t, n, logFile', refused')
                       /\ Ordered(t, logFile', Logged(t)')
BY DEF LogIsComplete, Complete, Ordered

\* A message behind all those of its thread keeps the file in order.
LEMMA OrderedAppend ==
  ASSUME NEW f \in Seq(Threads \X Nat), NEW t \in Threads, NEW n \in Nat \ {0}, NEW s \in Threads,
         NEW m \in Nat, Ordered(s, f, m), s = t => n = m + 1
  PROVE  Ordered(s, Append(f, <<t, n>>), IF s = t THEN n ELSE m)
<1> HIDE DEF Threads
<1> DEFINE e == <<t, n>>
           g == Append(f, e)
           k == Len(f) + 1
           l == IF s = t THEN n ELSE m
<1>1. e \in Threads \X Nat /\ e[1] = t /\ e[2] = n
  OBVIOUS
<1> HIDE DEF e
<1>2. /\ Len(f) \in Nat /\ Len(g) = k /\ g[k] = e
      /\ \A i \in 1 .. k - 1 : g[i] = f[i]
  BY <1>1, AppendProperties, LenProperties
<1>3. \A i \in 1 .. k - 1 : f[i] \in Threads \X Nat /\ f[i][2] \in Nat
  BY ElementOfSeq, <1>2
<1> HIDE DEF g
<1>4. ASSUME NEW j \in 1 .. k, g[j][1] = s
      PROVE  g[j][2] <= l /\ \A i \in 1 .. j - 1 : g[i][1] = s => g[i][2] < g[j][2]
  <2>1. CASE j = k
    <3>1. s = t /\ g[j][2] = n /\ l = n
      BY <1>1, <1>2, <1>4, <2>1
    <3>2. ASSUME NEW i \in 1 .. j - 1, g[i][1] = s PROVE g[i][2] < n
      <4>1. i \in 1 .. Len(f) /\ g[i] = f[i] /\ f[i][2] \in Nat
        BY <1>2, <1>3, <2>1
      <4>2. f[i][2] <= m
        BY <3>2, <4>1 DEF Ordered
      <4> QED
        BY <3>1, <4>1, <4>2
    <3> QED
      BY <3>1, <3>2
  <2>2. CASE j # k
    <3>1. j \in 1 .. Len(f) /\ g[j] = f[j] /\ f[j][2] \in Nat
      BY <1>2, <1>3, <2>2
    <3>2. f[j][2] <= m /\ \A i \in 1 .. j - 1 : f[i][1] = s => f[i][2] < f[j][2]
      BY <1>4, <3>1 DEF Ordered
    <3>3. m <= l
      OBVIOUS
    <3>4. \A i \in 1 .. j - 1 : i \in 1 .. k - 1 /\ g[i] = f[i]
      BY <1>2, <3>1
    <3>5. l \in Nat
      OBVIOUS
    <3> HIDE DEF k, l
    <3>6. g[j][2] <= l
      BY <3>1, <3>2, <3>3, <3>5
    <3> QED
      BY <3>1, <3>2, <3>4, <3>6
  <2> QED
    BY <2>1, <2>2
<1>5. Ordered(s, g, l)
  <2> HIDE DEF k, l
  <2>1. Len(g) = k
    BY <1>2
  <2> QED
    BY <1>4, <2>1, Zenon DEF Ordered
<1> QED
  BY <1>5 DEF g, e

\* A call of log_write ends with its message appended, or refused.
LEMMA LogReturn ==
  ASSUME LockInv, LogIsComplete, NEW t \in Threads, InLog(t), ~InLog(t)', wrote' = wrote,
         \A s \in Threads \ {t} : pc'[s] = pc[s],
         \/ logFile' = Append(logFile, Unlogged(t)) /\ refused' = refused
         \/ logFile' = logFile /\ refused' = refused \cup {Unlogged(t)}
  PROVE  LogIsComplete'
<1> HIDE DEF Threads
<1> DEFINE n == Len(wrote[t])
<1>1. /\ wrote \in [Threads -> Seq(Messages)] /\ n \in Nat \ {0}
      /\ logFile \in Seq(Threads \X Nat)
  BY LenProperties DEF LockInv, TypeOK, MessageInv, InLog
<1>2. /\ Logged(t) = n - 1 /\ Logged(t)' = n
      /\ \A s \in Threads \ {t} : Logged(s)' = Logged(s)
  BY DEF Logged, InLog
<1>3. \A s \in Threads : Len(wrote[s]) \in Nat
  BY <1>1, LenProperties
<1>4. \A s \in Threads : Logged(s) \in Nat
  <2>1. \A s \in Threads : InLog(s) => Len(wrote[s]) > 0
    BY DEF LockInv, MessageInv, InLog
  <2> QED
    BY <1>3, <2>1 DEF Logged
<1>5. Unlogged(t) = <<t, n>> /\ Unlogged(t) \in Threads \X Nat
  BY <1>1 DEF Unlogged
<1> HIDE DEF n
<1>6. ASSUME NEW s \in Threads, NEW a \in 1 .. Logged(s)' PROVE Complete(s, a, logFile', refused')
  <2>1. CASE a \in 1 .. Logged(s)
    <3>1. Complete(s, a, logFile, refused)
      BY <2>1, LogParts
    <3>2. CASE logFile' = Append(logFile, Unlogged(t)) /\ refused' = refused
      <4>1. /\ Len(logFile) \in Nat /\ Len(logFile') = Len(logFile) + 1
            /\ \A i \in 1 .. Len(logFile) : logFile'[i] = logFile[i]
        BY <1>1, <1>5, <3>2, AppendProperties, LenProperties
      <4> QED
        BY <3>1, <3>2, <4>1 DEF Complete
    <3>3. CASE logFile' = logFile /\ refused' = refused \cup {Unlogged(t)}
      BY <3>1, <3>3 DEF Complete
    <3> QED
      BY <3>2, <3>3
  <2>2. CASE a \notin 1 .. Logged(s)
    <3>1. s = t /\ a = n
      BY <1>1, <1>2, <1>4, <1>6, <2>2
    <3>2. CASE logFile' = Append(logFile, Unlogged(t))
      <4>1. /\ Len(logFile) \in Nat /\ Len(logFile') = Len(logFile) + 1
            /\ logFile'[Len(logFile) + 1] = Unlogged(t)
        BY <1>1, <1>5, <3>2, AppendProperties, LenProperties
      <4> QED
        BY <1>5, <3>1, <4>1 DEF Complete
    <3>3. CASE refused' = refused \cup {Unlogged(t)}
      BY <1>5, <3>1, <3>3 DEF Complete
    <3> QED
      BY <3>2, <3>3
  <2> QED
    BY <2>1, <2>2
<1>7. ASSUME NEW s \in Threads PROVE Ordered(s, logFile', Logged(s)')
  <2>1. Ordered(s, logFile, Logged(s))
    BY LogParts
  <2>2. Logged(s)' = IF s = t THEN n ELSE Logged(s)
    BY <1>2
  <2>3. s = t => n = Logged(s) + 1
    BY <1>1, <1>2
  <2>4. CASE logFile' = Append(logFile, Unlogged(t))
    <3>1. Ordered(s, Append(logFile, <<t, n>>), IF s = t THEN n ELSE Logged(s))
      BY <1>1, <1>4, <2>1, <2>3, OrderedAppend
    <3> QED
      BY <1>5, <2>2, <2>4, <3>1
  <2>5. CASE logFile' = logFile
    <3>1. Logged(s) <= Logged(s)' /\ Logged(s) \in Nat /\ Logged(s)' \in Nat
      BY <1>1, <1>4, <2>2, <2>3
    <3>2. \A j \in 1 .. Len(logFile) : logFile[j][2] \in Nat
      BY <1>1, ElementOfSeq
    <3> HIDE DEF Logged
    <3> QED
      BY <2>1, <2>5, <3>1, <3>2 DEF Ordered
  <2> QED
    BY <2>4, <2>5
<1> QED
  BY <1>6, <1>7, LogPartsNext

\* log_write appends its caller's current message or has it refused, and nothing
\* else moves the log or the count of the calls that have returned.
LEMMA LogStep ==
  ASSUME LockInv, LogInv, [Next]_vars
  PROVE  LogInv'
<1> HIDE DEF Threads
<1>0. /\ pc \in [Threads -> {"idle", "log", "openLog", "writeLog", "direct", "lock", "append", "unlock",
                            "snap", "reset", "drain", "note"}]
      /\ wrote \in [Threads -> Seq(Messages)]
  BY DEF LockInv, TypeOK
<1>a. LogMutexInv /\ LogOpenInv /\ LogIsComplete
  BY DEF LogInv
<1>b. LogMutexInv'
  BY <1>a, LogMutexStep
<1> SUFFICES LogOpenInv' /\ LogIsComplete'
  BY <1>b DEF LogInv
<1> DEFINE Same == /\ logFile' = logFile /\ logOpen' = logOpen /\ refused' = refused
                   /\ \A s \in Threads : Logged(s)' = Logged(s)
<1>1. ASSUME Same PROVE LogOpenInv' /\ LogIsComplete'
  <2>1. LogIsComplete'
    BY <1>1, <1>a, LogParts, LogPartsNext
  <2> QED
    BY <1>1, <1>a, <2>1 DEF LogOpenInv
<1>2. ASSUME NEW t \in Threads, LockLog(t) PROVE Same
  BY <1>0, <1>2 DEF LockLog, Goto, Logged, InLog
<1>3. ASSUME NEW t \in Threads, OpenLog(t) PROVE LogOpenInv' /\ LogIsComplete'
  <2>1. pc[t] = "openLog" /\ ~logOpen /\ logFile = <<>> /\ wrote' = wrote
    BY <1>a, <1>3 DEF OpenLog, LeaveLog, Goto, LogMutexInv, LogOpenInv
  <2>2. CASE pc' = [pc EXCEPT ![t] = "writeLog"] /\ logFile' = <<>> /\ refused' = refused
    <3>1. \A s \in Threads : Logged(s)' = Logged(s)
      BY <1>0, <2>1, <2>2 DEF Logged, InLog
    <3>2. LogIsComplete'
      BY <1>a, <2>1, <2>2, <3>1, LogParts, LogPartsNext
    <3> QED
      BY <2>2, <3>2 DEF LogOpenInv
  <2>3. CASE /\ \E x \in {"direct", "idle", "lock"} : pc' = [pc EXCEPT ![t] = x]
             /\ refused' = refused \cup {Unlogged(t)}
             /\ UNCHANGED <<logOpen, logFile>>
    <3>1. InLog(t) /\ ~InLog(t)' /\ \A s \in Threads \ {t} : pc'[s] = pc[s]
      BY <1>0, <2>1, <2>3 DEF InLog
    <3>2. LogIsComplete'
      BY <1>a, <2>1, <2>3, <3>1, LogReturn
    <3> QED
      BY <1>a, <2>3, <3>2 DEF LogOpenInv
  <2> QED
    BY <1>3, <2>2, <2>3 DEF OpenLog, LeaveLog, Goto
<1>4. ASSUME NEW t \in Threads, WriteLog(t) PROVE LogOpenInv' /\ LogIsComplete'
  <2>1. /\ pc[t] = "writeLog" /\ wrote' = wrote /\ logOpen' = logOpen
        /\ \E x \in {"direct", "idle", "lock"} : pc' = [pc EXCEPT ![t] = x]
        /\ \/ logFile' = Append(logFile, Unlogged(t)) /\ refused' = refused
           \/ logFile' = logFile /\ refused' = refused \cup {Unlogged(t)}
    BY <1>4 DEF WriteLog, LeaveLog, Goto
  <2>2. InLog(t) /\ ~InLog(t)' /\ \A s \in Threads \ {t} : pc'[s] = pc[s]
    BY <1>0, <2>1 DEF InLog
  <2>3. LogIsComplete'
    BY <1>a, <2>1, <2>2, LogReturn
  <2>4. logOpen
    BY <1>a, <2>1 DEF LogMutexInv, LogOpenInv
  <2> QED
    BY <2>1, <2>3, <2>4 DEF LogOpenInv
<1>5. ASSUME NEW t \in Threads, Write(t) PROVE Same
  <2>1. PICK m \in Messages : wrote' = [wrote EXCEPT ![t] = Append(@, m)]
    BY <1>5 DEF Write
  <2>2. Len(wrote'[t]) = Len(wrote[t]) + 1 /\ \A s \in Threads \ {t} : wrote'[s] = wrote[s]
    BY <1>0, <2>1, AppendProperties
  <2>3. Len(wrote[t]) \in Nat
    BY <1>0, LenProperties
  <2>4. pc[t] = "idle" /\ pc' = [pc EXCEPT ![t] = "log"] /\ UNCHANGED logVars
    BY <1>5 DEF Write, Goto
  <2> QED
    BY <1>0, <2>2, <2>3, <2>4 DEF Logged, InLog, logVars
<1>6. ASSUME NEW t \in Threads,
             DirectWrite(t) \/ LockBuffer(t) \/ AppendByte(t) \/ Truncate(t) \/ UnlockBuffer(t)
      PROVE  Same
  BY <1>0, <1>6 DEF Logged, InLog, logVars, Goto, DirectWrite, LockBuffer, AppendByte, Truncate, UnlockBuffer
<1>7. ASSUME NEW t \in Threads, DrainSteps(t) PROVE Same
  BY <1>0, <1>7 DEF Logged, InLog, logVars, Goto, DrainSteps, ConsoleUpdate, Snapshot, Reset, WriteDrain, WriteNote
<1>8. CASE UNCHANGED vars
  BY <1>1, <1>8 DEF vars, logVars, Logged, InLog
<1> QED
  BY <1>1, <1>2, <1>3, <1>4, <1>5, <1>6, <1>7, <1>8 DEF Next, WriteSteps, LogSteps

-----------------------------------------------------------------------------
(* The bound on the messages.                                              *)

\* Only a call of __wrap__write_r adds a message.
LEMMA WroteStep ==
  ASSUME [Next]_vars
  PROVE  wrote' = wrote \/ \E t \in Threads : Write(t)
BY LogFrame DEF Next, WriteSteps, DrainSteps, vars, DirectWrite, LockBuffer, AppendByte, Truncate,
   UnlockBuffer, ConsoleUpdate, Snapshot, Reset, WriteDrain, WriteNote

\* Every message written is one more, and there are never more than MaxWrites.
LEMMA BoundStep ==
  ASSUME LockInv, BoundInv, [Next]_vars
  PROVE  BoundInv'
<1> HIDE DEF Threads
<1>0. wrote \in [Threads -> Seq(Messages)]
  BY DEF LockInv, TypeOK
<1>1. CASE wrote' = wrote
  BY <1>1 DEF BoundInv, Written
<1>2. ASSUME NEW t \in Threads, Write(t) PROVE BoundInv'
  <2>1. PICK m \in Messages : wrote' = [wrote EXCEPT ![t] = Append(@, m)]
    BY <1>2 DEF Write
  <2> DEFINE n == Len(wrote[t])
  <2>2. /\ n \in Nat /\ DOMAIN wrote[t] = 1 .. n
        /\ DOMAIN wrote'[t] = 1 .. n + 1
        /\ \A s \in Threads \ {t} : wrote'[s] = wrote[s]
    BY <1>0, <2>1, AppendProperties, LenProperties
  <2> HIDE DEF n
  <2>3. DOMAIN wrote'[t] = DOMAIN wrote[t] \cup {n + 1}
    BY <2>2
  <2>4. Written' = Written \cup {<<t, n + 1>>}
    <3>1. \A x : x \in Written <=> \E s \in Threads : x \in {s} \X DOMAIN wrote[s]
      BY Zenon DEF Written
    <3>2. \A x : x \in Written' <=> \E s \in Threads : x \in {s} \X DOMAIN wrote'[s]
      BY Zenon DEF Written
    <3>3. \A x : x \in {t} \X DOMAIN wrote'[t] <=> x \in {t} \X DOMAIN wrote[t] \/ x = <<t, n + 1>>
      BY <2>3
    <3>4. \A x : x \in Written' <=> x \in Written \/ x = <<t, n + 1>>
      BY <2>2, <3>1, <3>2, <3>3, Zenon
    <3> QED
      BY <3>4, Zenon
  <2>5. IsFiniteSet(Written) /\ Cardinality(Written) < MaxWrites /\ Cardinality(Written) \in Nat
    BY <1>2, FS_CardinalityType DEF BoundInv, Write
  <2>6. IsFiniteSet(Written') /\ Cardinality(Written') <= Cardinality(Written) + 1
    <3> DEFINE S == Written
               x == <<t, n + 1>>
    <3>1. IsFiniteSet(S) /\ Cardinality(S) \in Nat
      BY <2>5
    <3> HIDE DEF S, x
    <3>2. IsFiniteSet(S \cup {x})
      BY <3>1, FS_AddElement, Zenon
    <3>3. Cardinality(S \cup {x}) = IF x \in S THEN Cardinality(S) ELSE Cardinality(S) + 1
      BY <3>1, FS_AddElement, Zenon
    <3>4. Cardinality(S \cup {x}) <= Cardinality(S) + 1
      BY <3>1, <3>3
    <3> QED
      BY <2>4, <3>2, <3>4 DEF S, x
  <2>7. Cardinality(Written') \in Nat
    BY <2>6, FS_CardinalityType
  <2> QED
    BY <2>5, <2>6, <2>7, BoundAssumption DEF BoundInv, BoundAssumption
<1> QED
  BY <1>1, <1>2, WroteStep

\* Hence no thread writes more than MaxWrites.
LEMMA MessageCount ==
  ASSUME TypeOK, BoundInv, NEW t \in Threads
  PROVE  Len(wrote[t]) <= MaxWrites
<1> HIDE DEF Threads
<1> DEFINE n == Len(wrote[t])
<1>1. n \in Nat /\ DOMAIN wrote[t] = 1 .. n
  BY LenProperties DEF TypeOK
<1> HIDE DEF n
<1>2. {t} \X (1 .. n) \in SUBSET Written
  BY <1>1 DEF Written
<1>3. IsFiniteSet(1 .. n) /\ Cardinality(1 .. n) = n
  BY <1>1, FS_Interval
<1>4. IsFiniteSet({t}) /\ Cardinality({t}) = 1
  BY FS_Singleton
<1>5. Cardinality({t} \X (1 .. n)) = 1 * n
  <2> DEFINE S == {t}
             T == 1 .. n
  <2>1. IsFiniteSet(S) /\ IsFiniteSet(T)
    BY <1>3, <1>4
  <2> HIDE DEF S, T
  <2>2. Cardinality(S \X T) = Cardinality(S) * Cardinality(T)
    BY <2>1, FS_Product, Zenon
  <2> QED
    BY <1>3, <1>4, <2>2 DEF S, T
<1>6. n <= Cardinality(Written)
  BY <1>1, <1>2, <1>5, FS_Subset DEF BoundInv
<1>7. Cardinality(Written) \in Nat /\ Cardinality(Written) <= MaxWrites
  BY FS_CardinalityType DEF BoundInv
<1> QED
  BY <1>1, <1>6, <1>7, BoundAssumption DEF n, BoundAssumption

-----------------------------------------------------------------------------
(* The output: what each step does to Eventually.                          *)

Item == Bytes \cup {DropNote}

LEMMA NoteType ==
  ASSUME NEW b
  PROVE  NoteIf(b) \in Seq(Item)
BY DEF NoteIf, Item

\* The pieces of Eventually are sequences of bytes and notes.
LEMMA EventuallyType ==
  ASSUME TypeOK
  PROVE  /\ console \in Seq(Item) /\ InHand \in Seq(Item) /\ drain \in Seq(Item)
         /\ diagBuf \in Seq(Item) /\ Eventually \in Seq(Item)
<1>1. Bytes \subseteq Item
  BY DEF Item
<1>2. console \in Seq(Item) /\ drain \in Seq(Item) /\ diagBuf \in Seq(Item)
  BY <1>1, SeqMonotonic DEF TypeOK, Item
<1>3. InHand \in Seq(Item)
  <2>1. CASE pc[Main] = "drain"
    BY <1>2, <2>1, NoteType, ConcatProperties DEF InHand
  <2>2. CASE pc[Main] = "note"
    BY <2>2 DEF InHand, Item
  <2>3. CASE pc[Main] \notin {"drain", "note"}
    BY <2>3 DEF InHand
  <2> QED
    BY <2>1, <2>2, <2>3
<1> HIDE DEF Item
<1>4. console \o InHand \in Seq(Item)
  BY <1>2, <1>3, ConcatProperties
<1>5. console \o InHand \o diagBuf \in Seq(Item)
  BY <1>2, <1>4, ConcatProperties
<1>6. Eventually \in Seq(Item)
  BY <1>5, NoteType, ConcatProperties DEF Eventually, Shown
<1> QED
  BY <1>2, <1>3, <1>6

\* Appending to the second of two sequences appends to both.
LEMMA ConcatAppend ==
  ASSUME NEW S, NEW s \in Seq(S), NEW u \in Seq(S), NEW e \in S
  PROVE  s \o Append(u, e) = Append(s \o u, e)
<1>1. Append(u, e) = u \o <<e>> /\ <<e>> \in Seq(S)
  BY AppendIsConcat
<1>2. s \o (u \o <<e>>) = (s \o u) \o <<e>>
  BY <1>1, ConcatAssociative
<1>3. s \o u \in Seq(S)
  BY ConcatProperties
<1> QED
  BY <1>1, <1>2, <1>3, AppendIsConcat

\* A byte that goes into g_diag_buf goes behind all that is on its way.
LEMMA EventuallyAppend ==
  ASSUME LockInv, NEW t \in Threads, AppendByte(t)
  PROVE  /\ t \in Workers /\ NextByte(t) \in Bytes
         /\ Eventually' = Append(Eventually, NextByte(t))
<1>1. TypeOK /\ RolesInv /\ MessageInv /\ DropOnlyWhenFull
  BY DEF LockInv
<1>2. /\ pc[t] = "append" /\ pc' = pc
      /\ cursor[t] \in Nat /\ cursor[t] < Current(t).len
      /\ Len(diagBuf) < DIAG_BUF_SIZE
      /\ diagBuf' = Append(diagBuf, Head(Rest(t, cursor[t])))
      /\ UNCHANGED <<console, diagDropped, drain, drainDropped>>
  BY <1>1 DEF AppendByte, drainVars, TypeOK
<1>3. t \in Workers /\ Len(wrote[t]) > 0
  BY <1>1, <1>2 DEF RolesInv, MessageInv, InLog
<1>4. NextByte(t) = Head(Rest(t, cursor[t])) /\ NextByte(t) \in Bytes
  BY <1>1, <1>2, <1>3, RestFirst DEF NextByte, InLog
<1>5. ~diagDropped
  BY <1>1, <1>2, LenProperties DEF DropOnlyWhenFull, TypeOK
<1>6. InHand' = InHand
  BY <1>2 DEF InHand, NoteIf
<1> DEFINE s == console \o InHand
           b == NextByte(t)
<1>7. s \in Seq(Item) /\ diagBuf \in Seq(Item) /\ b \in Item
  BY <1>1, <1>4, EventuallyType, ConcatProperties DEF Item
<1>8. Eventually = (s \o diagBuf) \o <<>>
  BY <1>5 DEF Eventually, Shown, NoteIf
<1>9. Eventually' = (s \o Append(diagBuf, b)) \o <<>>
  BY <1>2, <1>4, <1>5, <1>6 DEF Eventually, Shown, NoteIf
<1> HIDE DEF s, b
<1>10. s \o diagBuf \in Seq(Item) /\ Append(diagBuf, b) \in Seq(Item)
  BY <1>7, ConcatProperties, AppendProperties
<1>11. s \o Append(diagBuf, b) \in Seq(Item)
  BY <1>7, <1>10, ConcatProperties
<1>12. Eventually = s \o diagBuf /\ Eventually' = s \o Append(diagBuf, b)
  BY <1>8, <1>9, <1>10, <1>11, ConcatEmptySeq
<1> QED
  BY <1>3, <1>4, <1>7, <1>12, ConcatAppend DEF b

\* A message that is cut puts DropNote behind all that is on its way, if none
\* is there yet.
LEMMA EventuallyTruncate ==
  ASSUME LockInv, NEW t \in Threads, Truncate(t)
  PROVE  /\ t \in Workers
         /\ Eventually' = Eventually \/ Eventually' = Append(Eventually, DropNote)
         /\ Len(Eventually') > 0 /\ Eventually'[Len(Eventually')] = DropNote
<1>1. TypeOK /\ RolesInv
  BY DEF LockInv
<1>2. /\ pc[t] = "append" /\ pc' = [pc EXCEPT ![t] = "unlock"] /\ diagDropped' = TRUE
      /\ UNCHANGED <<console, diagBuf, drain, drainDropped>>
  BY DEF Truncate, Goto, drainVars
<1>3. t \in Workers
  BY <1>1, <1>2 DEF RolesInv, InLog
<1>4. InHand' = InHand
  BY <1>1, <1>2, <1>3 DEF InHand, NoteIf, TypeOK
<1> DEFINE s == console \o InHand \o diagBuf
<1>5. s \in Seq(Item) /\ DropNote \in Item
  BY <1>1, EventuallyType, ConcatProperties DEF Item
<1>6. Eventually = IF diagDropped THEN s \o <<DropNote>> ELSE s \o <<>>
  BY DEF Eventually, Shown, NoteIf
<1>7. Eventually' = s \o <<DropNote>>
  BY <1>2, <1>4 DEF Eventually, Shown, NoteIf
<1> HIDE DEF s
<1>8. s \o <<DropNote>> = Append(s, DropNote) /\ s \o <<>> = s
  BY <1>5, AppendIsConcat, ConcatEmptySeq
<1>9. Len(s) \in Nat /\ Len(Append(s, DropNote)) = Len(s) + 1 /\ Append(s, DropNote)[Len(s) + 1] = DropNote
  BY <1>5, AppendProperties, LenProperties
<1> QED
  BY <1>3, <1>6, <1>7, <1>8, <1>9

\* The main thread's own output goes between the console and the buffer.
LEMMA EventuallyDirect ==
  ASSUME LockInv, NEW t \in Threads, DirectWrite(t)
  PROVE  /\ t = Main /\ diagBuf' = diagBuf
         /\ Eventually = console \o (diagBuf \o NoteIf(diagDropped))
         /\ Eventually' = (console \o Rest(Main, 0)) \o (diagBuf \o NoteIf(diagDropped))
         /\ Rest(Main, 0) \in Seq(Item)
<1>1. TypeOK /\ TypeOK' /\ RolesInv /\ MessageInv
  <2>1. [Next]_vars
    BY DEF Next, WriteSteps
  <2> QED
    BY <2>1, LockStep DEF LockInv
<1>2. /\ pc[t] = "direct" /\ pc' = [pc EXCEPT ![t] = "idle"]
      /\ console' = console \o Rest(t, 0)
      /\ UNCHANGED <<diagBuf, diagDropped>>
  BY DEF DirectWrite, Goto, diagVars
<1>3. t = Main /\ pc'[Main] = "idle"
  BY <1>1, <1>2 DEF RolesInv, TypeOK, InLog
<1>4. InHand = <<>> /\ InHand' = <<>>
  BY <1>2, <1>3 DEF InHand
<1>5. 0 <= Current(Main).len /\ Len(wrote[Main]) > 0
  BY <1>1, <1>2, <1>3, LenType DEF MessageInv, InLog
<1>6. Rest(Main, 0) \in Seq(Bytes)
  BY <1>1, <1>5, RestType
<1>7. Rest(Main, 0) \in Seq(Item)
  BY <1>6, SeqMonotonic DEF Item
<1> DEFINE n == NoteIf(diagDropped)
<1>8. console \in Seq(Item) /\ diagBuf \in Seq(Item) /\ n \in Seq(Item)
  BY <1>1, EventuallyType, NoteType
<1>9. console' \in Seq(Item)
  BY <1>2, <1>3, <1>7, <1>8, ConcatProperties
<1>10. Eventually = console \o <<>> \o diagBuf \o n
  BY <1>4 DEF Eventually, Shown
<1>11. Eventually' = console' \o <<>> \o diagBuf \o n
  BY <1>2, <1>4 DEF Eventually, Shown
<1> HIDE DEF n
<1>12. ASSUME NEW s \in Seq(Item) PROVE s \o <<>> \o diagBuf \o n = s \o (diagBuf \o n)
  <2>1. s \o <<>> = s
    BY ConcatEmptySeq
  <2>2. (s \o diagBuf) \o n = s \o (diagBuf \o n)
    BY <1>8, ConcatAssociative
  <2> QED
    BY <2>1, <2>2
<1>13. Eventually = console \o (diagBuf \o n)
  BY <1>8, <1>10, <1>12
<1>14. Eventually' = console' \o (diagBuf \o n)
  BY <1>11, <1>9, <1>12
<1> QED
  BY <1>2, <1>3, <1>7, <1>13, <1>14 DEF n

\* Draining moves what the main thread has in hand to the console.
LEMMA ShownStep ==
  ASSUME LockInv, [Next]_vars,
         \A t \in Threads : ~DirectWrite(t) /\ ~Reset(t)
  PROVE  Shown' = Shown
<1>1. TypeOK /\ RolesInv
  BY DEF LockInv
<1>2. console \in Seq(Item) /\ drain \in Seq(Item)
  BY <1>1, EventuallyType
<1>3. NoteIf(drainDropped) \in Seq(Item)
  BY NoteType
<1>4. pc \in [Threads -> {"idle", "log", "openLog", "writeLog", "direct", "lock", "append", "unlock",
                          "snap", "reset", "drain", "note"}]
  BY <1>1 DEF TypeOK
<1>5. SUFFICES ASSUME NEW t \in Threads, Write(t) \/ WriteSteps(t) \/ DrainSteps(t)
               PROVE  Shown' = Shown
  BY DEF Next, vars, drainVars, Shown, InHand
<1>6. CASE Write(t) \/ LogSteps(t) \/ LockBuffer(t) \/ Truncate(t) \/ UnlockBuffer(t)
  <2>1. UNCHANGED <<console, drain, drainDropped>>
    BY <1>6, LogFrame DEF Write, LockBuffer, Truncate, UnlockBuffer, drainVars
  <2>2. /\ pc[t] \notin {"drain", "note"}
        /\ \E s \in {"log", "openLog", "writeLog", "direct", "idle", "lock", "append", "unlock"} :
             pc' = [pc EXCEPT ![t] = s]
    BY <1>6, LogFrame DEF Write, LockBuffer, Truncate, UnlockBuffer, Goto, InLog
  <2> QED
    BY <1>4, <2>1, <2>2 DEF Shown, InHand
<1>7. CASE AppendByte(t)
  BY <1>7 DEF AppendByte, drainVars, Shown, InHand
<1>8. CASE ConsoleUpdate(t) \/ Snapshot(t)
  <2>1. console' = console
    BY <1>8 DEF ConsoleUpdate, Snapshot
  <2>2. t = Main /\ pc[Main] \in {"idle", "snap"} /\ pc'[Main] \in {"snap", "reset"}
    BY <1>1, <1>4, <1>8 DEF ConsoleUpdate, Snapshot, Goto, RolesInv, OnMainThread, InLog
  <2> QED
    BY <2>1, <2>2 DEF Shown, InHand
<1>9. CASE WriteDrain(t)
  <2>1. /\ t = Main /\ pc[Main] = "drain" /\ console' = console \o drain
        /\ pc'[Main] = IF drainDropped THEN "note" ELSE "idle"
        /\ UNCHANGED <<drain, drainDropped>>
    BY <1>1, <1>4, <1>9 DEF WriteDrain, Goto, RolesInv, drainVars, InLog
  <2> DEFINE n == NoteIf(drainDropped)
  <2>2. InHand = drain \o n /\ InHand' = n
    BY <2>1 DEF InHand, NoteIf
  <2>3. n \in Seq(Item)
    BY <1>3
  <2> HIDE DEF n
  <2>4. console' \o InHand' = console \o InHand
    <3>1. (console \o drain) \o n = console \o (drain \o n)
      <4>1. console \in Seq(Item) /\ drain \in Seq(Item)
        BY <1>2
      <4> QED
        BY <2>3, <4>1, ConcatAssociative
    <3> QED
      BY <2>1, <2>2, <3>1
  <2> QED
    BY <2>4 DEF Shown
<1>10. CASE WriteNote(t)
  <2>1. /\ t = Main /\ pc[Main] = "note" /\ console' = Append(console, DropNote)
        /\ pc'[Main] = "idle"
    BY <1>1, <1>4, <1>10 DEF WriteNote, Goto, RolesInv, drainVars, InLog
  <2>2. InHand = <<DropNote>> /\ InHand' = <<>>
    BY <2>1 DEF InHand
  <2>3. DropNote \in Item
    BY DEF Item
  <2>4. console' \in Seq(Item) /\ console' = console \o <<DropNote>>
    BY <1>2, <2>1, <2>3, AppendProperties, AppendIsConcat
  <2>5. console' \o InHand' = console \o InHand
    BY <2>2, <2>4, ConcatEmptySeq
  <2> QED
    BY <2>5 DEF Shown
<1> QED
  BY <1>5, <1>6, <1>7, <1>8, <1>9, <1>10 DEF WriteSteps, DrainSteps

\* No step but AppendByte, Truncate and DirectWrite changes what the screen will
\* have shown: the drain moves g_diag_buf and its flag as one.
LEMMA EventuallyOther ==
  ASSUME LockInv, [Next]_vars,
         \A t \in Threads : ~AppendByte(t) /\ ~Truncate(t) /\ ~DirectWrite(t)
  PROVE  Eventually' = Eventually
<1>1. TypeOK /\ RolesInv /\ DrainInv
  BY DEF LockInv
<1>2. console \in Seq(Item) /\ diagBuf \in Seq(Item)
  BY <1>1, EventuallyType
<1>3. NoteIf(diagDropped) \in Seq(Item)
  BY NoteType
<1>4. ASSUME NEW t \in Threads, Reset(t) PROVE Eventually' = Eventually
  <2>1. /\ t = Main /\ pc[Main] = "reset" /\ pc'[Main] = "drain"
        /\ diagBuf' = <<>> /\ diagDropped' = FALSE
        /\ UNCHANGED <<console, drain, drainDropped>>
    BY <1>1, <1>4 DEF Reset, Goto, RolesInv, drainVars, TypeOK, InLog
  <2>2. drain = diagBuf /\ drainDropped = diagDropped
    BY <1>1, <2>1 DEF DrainInv
  <2> DEFINE n == NoteIf(diagDropped)
  <2>3. InHand = <<>> /\ InHand' = diagBuf \o n
    BY <2>1, <2>2 DEF InHand, NoteIf
  <2>4. Eventually = console \o <<>> \o diagBuf \o n
    BY <2>3 DEF Eventually, Shown
  <2>5. Eventually' = console \o (diagBuf \o n) \o <<>> \o <<>>
    BY <2>1, <2>3 DEF Eventually, Shown, NoteIf
  <2>6. n \in Seq(Item)
    BY <1>3
  <2> HIDE DEF n
  <2>7. diagBuf \o n \in Seq(Item) /\ console \o (diagBuf \o n) \in Seq(Item)
    BY <1>2, <2>6, ConcatProperties
  <2>8. Eventually = console \o (diagBuf \o n)
    BY <1>2, <2>4, <2>6, ConcatEmptySeq, ConcatAssociative
  <2>9. Eventually' = console \o (diagBuf \o n)
    BY <2>5, <2>7, ConcatEmptySeq
  <2> QED
    BY <2>8, <2>9
<1>5. CASE \A t \in Threads : ~Reset(t)
  <2>1. Shown' = Shown
    BY <1>5, ShownStep
  <2>2. UNCHANGED <<diagBuf, diagDropped>>
    BY <1>5, LogFrame DEF Next, WriteSteps, DrainSteps, vars, diagVars, Write, LockBuffer, UnlockBuffer,
       ConsoleUpdate, Snapshot, WriteDrain, WriteNote
  <2> QED
    BY <2>1, <2>2 DEF Eventually
<1> QED
  BY <1>4, <1>5

-----------------------------------------------------------------------------
(* The output: what each step does to NextByte.                            *)

LEMMA NextByteType ==
  ASSUME TypeOK, NEW t \in Threads
  PROVE  NextByte(t) \in Bytes /\ NextByte(t)[1] = t
<1>1. Len(wrote[t]) \in Nat /\ cursor[t] \in Nat
  BY LenProperties DEF TypeOK
<1>2. CASE InLog(t) \/ pc[t] \in {"direct", "lock"}
  BY <1>1, <1>2 DEF NextByte, Bytes, InLog
<1>3. CASE pc[t] = "append"
  BY <1>1, <1>3 DEF NextByte, Bytes, InLog
<1>4. CASE ~InLog(t) /\ pc[t] \notin {"direct", "lock", "append"}
  BY <1>1, <1>4 DEF NextByte, Bytes, InLog
<1> QED
  BY <1>2, <1>3, <1>4

LEMMA NextByteAppend ==
  ASSUME TypeOK, NEW t \in Threads, AppendByte(t)
  PROVE  /\ NextByte(t) = <<t, Len(wrote[t]), cursor[t] + 1>>
         /\ NextByte(t)' = <<t, Len(wrote[t]), cursor[t] + 2>>
<1>1. wrote' = wrote /\ pc[t] = "append" /\ pc'[t] = "append"
  BY DEF AppendByte
<1>2. cursor'[t] + 1 = cursor[t] + 2
  BY DEF AppendByte, TypeOK
<1>3. NextByte(t) = <<t, Len(wrote[t]), cursor[t] + 1>>
  BY <1>1 DEF NextByte, InLog
<1>4. NextByte(t)' = <<t, Len(wrote[t]), cursor[t] + 2>>
  BY <1>1, <1>2 DEF NextByte, InLog
<1> QED
  BY <1>3, <1>4

LEMMA NextByteDirect ==
  ASSUME LockInv, NEW t \in Threads, DirectWrite(t)
  PROVE  /\ t = Main /\ wrote' = wrote
         /\ NextByte(t) = <<t, Len(wrote[t]), 1>>
         /\ NextByte(t)' = <<t, Len(wrote[t]) + 1, 1>>
<1>1. /\ wrote' = wrote /\ pc[t] = "direct" /\ pc'[t] = "idle"
  BY DEF DirectWrite, Goto, LockInv, TypeOK
<1>2. t = Main
  BY <1>1 DEF LockInv, RolesInv, InLog
<1> QED
  BY <1>1, <1>2 DEF NextByte, InLog

\* A thread's NextByte stays, or moves on by the byte just buffered, or to the
\* thread's next message: because the message was cut, or was the main
\* thread's, or a trace line, or is buffered whole.
LEMMA NextByteStep ==
  ASSUME LockInv, [Next]_vars, NEW s \in Threads
  PROVE  \/ NextByte(s)' = NextByte(s)
         \/ /\ AppendByte(s)
            /\ NextByte(s) = <<s, Len(wrote[s]), cursor[s] + 1>>
            /\ NextByte(s)' = <<s, Len(wrote[s]), cursor[s] + 2>>
         \/ /\ wrote' = wrote
            /\ NextByte(s)' = <<s, Len(wrote[s]) + 1, 1>>
            /\ NextByte(s)[2] = Len(wrote[s])
            /\ \/ Truncate(s)
               \/ s = Main
               \/ Current(s).trace
               \/ NextByte(s) = <<s, Len(wrote[s]), Current(s).len + 1>>
<1> HIDE DEF Threads
<1>1. /\ pc \in [Threads -> {"idle", "log", "openLog", "writeLog", "direct", "lock", "append", "unlock",
                            "snap", "reset", "drain", "note"}]
      /\ wrote \in [Threads -> Seq(Messages)] /\ cursor \in [Threads -> Nat]
      /\ RolesInv
  BY DEF LockInv, TypeOK
<1>2. CASE UNCHANGED <<pc, wrote, cursor>>
  BY <1>2 DEF NextByte, InLog
<1>3. ASSUME NEW t \in Threads, t # s, Write(t) \/ WriteSteps(t) \/ DrainSteps(t)
      PROVE  NextByte(s)' = NextByte(s)
  <2>1. pc'[s] = pc[s]
    BY <1>1, <1>3, LogFrame DEF Write, WriteSteps, DrainSteps, Goto, DirectWrite, LockBuffer, AppendByte,
       Truncate, UnlockBuffer, ConsoleUpdate, Snapshot, Reset, WriteDrain, WriteNote
  <2>2. wrote'[s] = wrote[s]
    BY <1>1, <1>3, LogFrame DEF Write, WriteSteps, DrainSteps, DirectWrite, LockBuffer, AppendByte,
       Truncate, UnlockBuffer, ConsoleUpdate, Snapshot, Reset, WriteDrain, WriteNote
  <2>3. cursor'[s] = cursor[s]
    BY <1>1, <1>3, LogFrame DEF Write, WriteSteps, DrainSteps, DirectWrite, LockBuffer, AppendByte,
       Truncate, UnlockBuffer, ConsoleUpdate, Snapshot, Reset, WriteDrain, WriteNote
  <2> QED
    BY <2>1, <2>2, <2>3 DEF NextByte, InLog
<1>4. CASE Write(s)
  <2>1. PICK m \in Messages : wrote' = [wrote EXCEPT ![s] = Append(@, m)]
    BY <1>4 DEF Write
  <2>2. pc[s] = "idle" /\ pc'[s] = "log" /\ Len(wrote'[s]) = Len(wrote[s]) + 1
    BY <1>1, <1>4, <2>1, AppendProperties DEF Write, Goto
  <2> QED
    BY <2>2 DEF NextByte, InLog
<1>5. CASE LogSteps(s)
  <2>1. /\ wrote' = wrote /\ InLog(s)
        /\ \/ InLog(s)' \/ pc'[s] \in {"direct", "lock"}
           \/ pc'[s] = "idle" /\ Current(s).trace
    BY <1>1, <1>5, LogFrame DEF InLog
  <2> QED
    BY <2>1 DEF NextByte, InLog
<1>6. CASE DirectWrite(s)
  BY <1>6, NextByteDirect
<1>7. CASE LockBuffer(s)
  <2>1. wrote' = wrote /\ pc[s] = "lock" /\ pc'[s] = "append" /\ cursor'[s] = 0
    BY <1>1, <1>7 DEF LockBuffer, Goto
  <2> QED
    BY <2>1 DEF NextByte, InLog
<1>8. CASE AppendByte(s)
  BY <1>8, NextByteAppend DEF LockInv
<1>9. CASE Truncate(s)
  <2>1. wrote' = wrote /\ pc[s] = "append" /\ pc'[s] = "unlock"
    BY <1>1, <1>9 DEF Truncate, Goto
  <2> QED
    BY <1>9, <2>1 DEF NextByte, InLog
<1>10. CASE UnlockBuffer(s)
  <2>1. wrote' = wrote /\ pc'[s] = "idle"
    BY <1>1, <1>10 DEF UnlockBuffer, Goto
  <2>2. CASE pc[s] = "unlock"
    BY <2>1, <2>2 DEF NextByte, InLog
  <2>3. CASE pc[s] = "append" /\ cursor[s] = Current(s).len
    BY <2>1, <2>3 DEF NextByte, InLog
  <2> QED
    BY <1>10, <2>2, <2>3 DEF UnlockBuffer, Goto
<1>11. CASE DrainSteps(s)
  <2>1. wrote' = wrote
    BY <1>11 DEF DrainSteps, ConsoleUpdate, Snapshot, Reset, WriteDrain, WriteNote
  <2>2. /\ pc[s] \in {"idle", "snap", "reset", "drain", "note"}
        /\ pc'[s] \in {"idle", "snap", "reset", "drain", "note"}
    BY <1>1, <1>11 DEF DrainSteps, Goto, ConsoleUpdate, Snapshot, Reset, WriteDrain, WriteNote
  <2> QED
    BY <2>1, <2>2 DEF NextByte, InLog
<1> QED
  BY <1>2, <1>3, <1>4, <1>5, <1>6, <1>7, <1>8, <1>9, <1>10, <1>11 DEF Next, WriteSteps, vars

\* NextByte never moves back.
LEMMA NextByteGrows ==
  ASSUME LockInv, [Next]_vars, NEW s \in Threads,
         NEW b \in Bytes, Before(b, NextByte(s))
  PROVE  Before(b, NextByte(s)')
<1>1. TypeOK /\ TypeOK'
  BY LockStep DEF LockInv
<1>2. /\ Len(wrote[s]) \in Nat /\ cursor[s] \in Nat
      /\ NextByte(s)[2] \in Nat /\ NextByte(s)[3] \in Nat
      /\ b[2] \in Nat /\ b[3] \in Nat
  BY <1>1, NextByteType, LenProperties DEF TypeOK, Bytes
<1>3. CASE NextByte(s)' = NextByte(s)
  BY <1>3
<1>4. CASE /\ NextByte(s) = <<s, Len(wrote[s]), cursor[s] + 1>>
           /\ NextByte(s)' = <<s, Len(wrote[s]), cursor[s] + 2>>
  BY <1>2, <1>4 DEF Before
<1>5. CASE /\ NextByte(s)' = <<s, Len(wrote[s]) + 1, 1>>
           /\ NextByte(s)[2] = Len(wrote[s])
  BY <1>2, <1>5 DEF Before
<1> QED
  BY <1>3, <1>4, <1>5, NextByteStep

-----------------------------------------------------------------------------
(* The output: the invariants.                                             *)

\* Only a worker's byte goes into g_diag_buf.
LEMMA WorkersOnlyStep ==
  ASSUME LockInv, WorkersOnlyInv, [Next]_vars
  PROVE  WorkersOnlyInv'
<1>1. TypeOK
  BY DEF LockInv
<1>2. CASE diagBuf' = diagBuf
  BY <1>2 DEF WorkersOnlyInv
<1>3. CASE diagBuf' = <<>>
  BY <1>3 DEF WorkersOnlyInv
<1>4. ASSUME NEW t \in Threads, AppendByte(t) PROVE WorkersOnlyInv'
  <2> DEFINE b == Head(Rest(t, cursor[t]))
  <2>1. /\ pc[t] = "append" /\ cursor[t] \in Nat /\ cursor[t] < Current(t).len
        /\ diagBuf' = Append(diagBuf, b)
    BY <1>1, <1>4 DEF AppendByte, TypeOK
  <2>2. t \in Workers /\ Len(wrote[t]) > 0
    BY <2>1 DEF LockInv, RolesInv, MessageInv, InLog
  <2>3. b \in Bytes /\ b[1] = t
    BY <1>1, <2>1, <2>2, RestFirst
  <2> HIDE DEF b
  <2>4. /\ diagBuf \in Seq(Bytes) /\ Len(diagBuf) \in Nat
        /\ Len(diagBuf') = Len(diagBuf) + 1
        /\ \A i \in 1 .. Len(diagBuf) : diagBuf'[i] = diagBuf[i]
        /\ diagBuf'[Len(diagBuf) + 1] = b
    BY <1>1, <2>1, <2>3, AppendProperties, LenProperties DEF TypeOK
  <2> QED
    BY <2>2, <2>3, <2>4 DEF WorkersOnlyInv
<1>5. diagBuf' = diagBuf \/ diagBuf' = <<>> \/ \E t \in Threads : AppendByte(t)
  BY LogFrame DEF Next, WriteSteps, DrainSteps, vars, diagVars, Write, DirectWrite, LockBuffer, Truncate,
     UnlockBuffer, ConsoleUpdate, Snapshot, Reset, WriteDrain, WriteNote
<1> QED
  BY <1>2, <1>3, <1>4, <1>5

\* The main thread's message is inserted as one piece, and nothing behind it is
\* the main thread's.
LEMMA DirectShape ==
  ASSUME LockInv, WorkersOnlyInv, NEW t \in Threads, DirectWrite(t)
  PROVE  \E c, r \in Nat :
           /\ Len(Eventually) \in Nat /\ c <= Len(Eventually)
           /\ Len(Eventually') = Len(Eventually) + r
           /\ \A i \in 1 .. c : Eventually'[i] = Eventually[i]
           /\ \A i \in 1 .. r : Eventually'[c + i] = <<Main, Len(wrote[Main]), i>>
           /\ \A i \in c + 1 .. Len(Eventually) :
                Eventually'[r + i] = Eventually[i] /\ ~ByteOf(Eventually[i], Main)
<1> DEFINE u == diagBuf \o NoteIf(diagDropped)
           m == Rest(Main, 0)
           c == Len(console)
           r == Len(m)
<1>1. TypeOK /\ t = Main /\ Eventually = console \o u /\ Eventually' = (console \o m) \o u
  BY EventuallyDirect DEF LockInv
<1>2. console \in Seq(Item) /\ m \in Seq(Item) /\ diagBuf \in Seq(Item) /\ NoteIf(diagDropped) \in Seq(Item)
  BY <1>1, EventuallyDirect, EventuallyType, NoteType
<1>3. /\ u \in Seq(Item) /\ Len(diagBuf) \in Nat /\ Len(NoteIf(diagDropped)) \in Nat
      /\ Len(u) = Len(diagBuf) + Len(NoteIf(diagDropped))
      /\ \A i \in 1 .. Len(u) : u[i] = IF i <= Len(diagBuf) THEN diagBuf[i]
                                         ELSE NoteIf(diagDropped)[i - Len(diagBuf)]
  BY <1>2, ConcatProperties, LenProperties
<1>4. \A i \in 1 .. Len(NoteIf(diagDropped)) : NoteIf(diagDropped)[i] = DropNote
  BY DEF NoteIf
<1>5. \A i \in 1 .. Len(u) : ~ByteOf(u[i], Main)
  BY <1>3, <1>4 DEF ByteOf, WorkersOnlyInv
<1>6. \A i \in 1 .. r : m[i] = <<Main, Len(wrote[Main]), i>>
  <2>1. Len(wrote[Main]) > 0
    BY <1>1 DEF DirectWrite, Goto, LockInv, MessageInv, InLog
  <2>2. Current(Main).len \in Nat
    BY <1>1, <2>1, LenType
  <2>3. /\ Len(Rest(Main, 0)) = Current(Main).len - 0
        /\ \A i \in 1 .. Current(Main).len - 0 : Rest(Main, 0)[i] = <<Main, Len(wrote[Main]), 0 + i>>
    BY <1>1, <2>1, <2>2, RestType
  <2> QED
    BY <2>2, <2>3
<1> HIDE DEF u, m
<1>7. c \in Nat /\ r \in Nat /\ Len(u) \in Nat
  BY <1>2, <1>3, LenProperties
<1>8. /\ Len(Eventually) = c + Len(u)
      /\ \A i \in 1 .. c + Len(u) : Eventually[i] = IF i <= c THEN console[i] ELSE u[i - c]
  <2>1. console \in Seq(Item) /\ u \in Seq(Item)
    BY <1>2, <1>3
  <2>2. /\ Len(console \o u) = c + Len(u)
        /\ \A i \in 1 .. c + Len(u) :
             (console \o u)[i] = IF i <= c THEN console[i] ELSE u[i - c]
    BY <2>1, ConcatProperties
  <2>3. Eventually = console \o u
    BY <1>1
  <2> QED
    BY <2>2, <2>3
<1>9. /\ console \o m \in Seq(Item) /\ Len(console \o m) = c + r
      /\ \A i \in 1 .. c + r : (console \o m)[i] = IF i <= c THEN console[i] ELSE m[i - c]
  BY <1>2, ConcatProperties
<1>10. /\ Len(Eventually') = c + r + Len(u)
       /\ \A i \in 1 .. c + r + Len(u) :
            Eventually'[i] = IF i <= c + r THEN (console \o m)[i] ELSE u[i - (c + r)]
  <2> DEFINE cm == console \o m
             d == c + r
  <2>1. cm \in Seq(Item) /\ Len(cm) = d /\ Eventually' = cm \o u
    BY <1>1, <1>9
  <2> HIDE DEF cm, d
  <2>2. /\ Len(Eventually') = d + Len(u)
        /\ \A i \in 1 .. d + Len(u) : Eventually'[i] = IF i <= d THEN cm[i] ELSE u[i - d]
    BY <1>3, <2>1, ConcatProperties
  <2> QED
    BY <2>2, Zenon DEF cm, d
<1> HIDE DEF c, r
<1>11. \A i \in 1 .. c : Eventually'[i] = Eventually[i]
  <2> TAKE i \in 1 .. c
  <2>1. i <= c /\ i <= c + r /\ i \in 1 .. c + Len(u) /\ i \in 1 .. c + r /\ i \in 1 .. c + r + Len(u)
    BY <1>7
  <2> QED
    BY <1>8, <1>9, <1>10, <2>1
<1>12. \A i \in 1 .. r : Eventually'[c + i] = m[i]
  <2> TAKE i \in 1 .. r
  <2>1. c + i \in 1 .. c + r /\ ~(c + i <= c) /\ (c + i) - c = i /\ c + i \in 1 .. c + r + Len(u) /\ c + i <= c + r
    BY <1>7
  <2> QED
    BY <1>9, <1>10, <2>1
<1>13. \A i \in c + 1 .. Len(Eventually) : Eventually'[r + i] = Eventually[i] /\ ~ByteOf(Eventually[i], Main)
  <2> TAKE i \in c + 1 .. Len(Eventually)
  <2>1. /\ i \in 1 .. c + Len(u) /\ ~(i <= c) /\ i - c \in 1 .. Len(u)
        /\ r + i \in 1 .. c + r + Len(u) /\ ~(r + i <= c + r) /\ (r + i) - (c + r) = i - c
    BY <1>7, <1>8
  <2> QED
    BY <1>5, <1>8, <1>10, <2>1
<1>14. Len(Eventually) \in Nat /\ c <= Len(Eventually) /\ Len(Eventually') = Len(Eventually) + r
  BY <1>7, <1>8, <1>10
<1>15. \A i \in 1 .. r : Eventually'[c + i] = <<Main, Len(wrote[Main]), i>>
  BY <1>6, <1>12, Zenon
<1>16. c \in Nat /\ r \in Nat
  BY <1>7
<1> QED
  BY <1>11, <1>13, <1>14, <1>15, <1>16, Zenon

\* An entry on its way to the screen is the note or a byte.
LEMMA EventuallyEntry ==
  ASSUME TypeOK
  PROVE  /\ Len(Eventually) \in Nat
         /\ \A i \in 1 .. Len(Eventually) : Eventually[i] = DropNote \/ Eventually[i] \in Bytes
<1>1. Eventually \in Seq(Item)
  BY EventuallyType
<1>2. Len(Eventually) \in Nat
  BY <1>1, LenProperties
<1>3. \A i \in 1 .. Len(Eventually) : Eventually[i] \in Item
  BY <1>1, ElementOfSeq
<1> QED
  BY <1>2, <1>3 DEF Item

\* What is on its way stays behind what its thread has still to send.
LEMMA SentStep ==
  ASSUME LockInv, WorkersOnlyInv, SentInv, [Next]_vars
  PROVE  SentInv'
<1>1. TypeOK /\ TypeOK'
  BY LockStep DEF LockInv
<1>2. /\ Len(Eventually) \in Nat
      /\ \A i \in 1 .. Len(Eventually) : Eventually[i] = DropNote \/ Eventually[i] \in Bytes
  BY <1>1, EventuallyEntry
<1>3. ASSUME NEW s \in Threads, NEW i \in 1 .. Len(Eventually), ByteOf(Eventually[i], s)
      PROVE  Before(Eventually[i], NextByte(s)')
  <2>1. Eventually[i] \in Bytes
    BY <1>2, <1>3 DEF ByteOf
  <2>2. Before(Eventually[i], NextByte(s))
    BY <1>3 DEF SentInv
  <2> QED
    BY <2>1, <2>2, NextByteGrows
<1>4. CASE Eventually' = Eventually
  BY <1>3, <1>4 DEF SentInv
<1>5. ASSUME NEW t \in Threads, AppendByte(t) PROVE SentInv'
  <2> DEFINE b == NextByte(t)
             k == Len(Eventually)
  <2>1. b \in Bytes /\ b[1] = t /\ Eventually' = Append(Eventually, b)
    BY <1>1, <1>5, EventuallyAppend, NextByteType
  <2>2. Eventually \in Seq(Item) /\ b \in Item
    BY <1>1, <2>1, EventuallyType DEF Item
  <2>3. Before(b, b')
    <3>1. /\ b = <<t, Len(wrote[t]), cursor[t] + 1>>
          /\ b' = <<t, Len(wrote[t]), cursor[t] + 2>>
          /\ cursor[t] \in Nat
      BY <1>1, <1>5, NextByteAppend DEF TypeOK
    <3> HIDE DEF b
    <3> QED
      BY <3>1 DEF Before
  <2> HIDE DEF b
  <2>4. /\ Len(Eventually') = k + 1
        /\ \A i \in 1 .. k : Eventually'[i] = Eventually[i]
        /\ Eventually'[k + 1] = b
    BY <2>1, <2>2, AppendProperties
  <2>5. ASSUME NEW s \in Threads, NEW i \in 1 .. k + 1, ByteOf(Eventually'[i], s)
        PROVE  Before(Eventually'[i], NextByte(s)')
    <3>1. CASE i = k + 1
      <4>1. s = t
        BY <2>1, <2>4, <2>5, <3>1 DEF ByteOf
      <4> QED
        BY <2>3, <2>4, <3>1, <4>1 DEF b
    <3>2. CASE i \in 1 .. k
      BY <1>3, <2>4, <2>5, <3>2
    <3> QED
      BY <1>2, <3>1, <3>2
  <2> QED
    BY <2>4, <2>5 DEF SentInv
<1>6. ASSUME NEW t \in Threads, Truncate(t) PROVE SentInv'
  <2>1. CASE Eventually' = Append(Eventually, DropNote)
    <3> DEFINE k == Len(Eventually)
    <3>1. Eventually \in Seq(Item) /\ DropNote \in Item
      BY <1>1, EventuallyType DEF Item
    <3>2. /\ Len(Eventually') = k + 1
          /\ \A i \in 1 .. k : Eventually'[i] = Eventually[i]
          /\ Eventually'[k + 1] = DropNote
      BY <2>1, <3>1, AppendProperties
    <3>3. ASSUME NEW s \in Threads, NEW i \in 1 .. k + 1, ByteOf(Eventually'[i], s)
          PROVE  Before(Eventually'[i], NextByte(s)')
      <4>1. i \in 1 .. k
        BY <1>2, <3>2, <3>3 DEF ByteOf
      <4> QED
        BY <1>3, <3>2, <3>3, <4>1
    <3> QED
      BY <3>2, <3>3 DEF SentInv
  <2> QED
    BY <1>4, <1>6, <2>1, EventuallyTruncate
<1>7. ASSUME NEW t \in Threads, DirectWrite(t) PROVE SentInv'
  <2> DEFINE k == Len(Eventually)
             n == Len(wrote[Main])
  <2>1. PICK c, r \in Nat :
           /\ k \in Nat /\ c <= k
           /\ Len(Eventually') = k + r
           /\ \A i \in 1 .. c : Eventually'[i] = Eventually[i]
           /\ \A i \in 1 .. r : Eventually'[c + i] = <<Main, n, i>>
           /\ \A i \in c + 1 .. k :
                Eventually'[r + i] = Eventually[i] /\ ~ByteOf(Eventually[i], Main)
    BY <1>7, DirectShape, Zenon
  <2>2. n \in Nat /\ NextByte(Main)' = <<Main, n + 1, 1>>
    BY <1>1, <1>7, NextByteDirect, LenProperties DEF TypeOK
  <2> HIDE DEF k, n
  <2>3. ASSUME NEW s \in Threads, NEW i \in 1 .. k + r, ByteOf(Eventually'[i], s)
        PROVE  Before(Eventually'[i], NextByte(s)')
    <3>1. CASE i \in 1 .. c
      <4>1. i \in 1 .. k /\ Eventually'[i] = Eventually[i]
        BY <2>1, <3>1
      <4> QED
        BY <1>3, <2>3, <4>1 DEF k
    <3>2. CASE i \in c + 1 .. c + r
      <4>1. i - c \in 1 .. r /\ c + (i - c) = i
        BY <2>1, <3>2
      <4>2. Eventually'[i] = <<Main, n, i - c>>
        BY <2>1, <4>1
      <4>3. s = Main
        BY <2>3, <4>2 DEF ByteOf
      <4> QED
        BY <2>2, <4>2, <4>3 DEF Before
    <3>3. CASE i \in c + r + 1 .. k + r
      <4>1. i - r \in c + 1 .. k /\ i - r \in 1 .. k /\ r + (i - r) = i
        BY <2>1, <3>3
      <4>2. Eventually'[i] = Eventually[i - r]
        BY <2>1, <4>1
      <4> QED
        BY <1>3, <2>3, <4>1, <4>2 DEF k
    <3> QED
      BY <2>1, <3>1, <3>2, <3>3
  <2> QED
    BY <2>1, <2>3 DEF SentInv, k
<1> QED
  BY <1>4, <1>5, <1>6, <1>7, EventuallyOther

\* What a thread sends goes behind what it has sent.
LEMMA OrderStep ==
  ASSUME LockInv, WorkersOnlyInv, SentInv, InOrderOnce, [Next]_vars
  PROVE  InOrderOnce'
<1>1. TypeOK
  BY DEF LockInv
<1>2. /\ Len(Eventually) \in Nat
      /\ \A i \in 1 .. Len(Eventually) : Eventually[i] = DropNote \/ Eventually[i] \in Bytes
  BY <1>1, EventuallyEntry
<1>3. ASSUME NEW s \in Threads, NEW j \in 1 .. Len(Eventually), NEW i \in 1 .. j - 1,
             ByteOf(Eventually[i], s), ByteOf(Eventually[j], s)
      PROVE  Before(Eventually[i], Eventually[j])
  BY <1>3 DEF InOrderOnce
<1>4. CASE Eventually' = Eventually
  BY <1>3, <1>4 DEF InOrderOnce
<1>5. ASSUME NEW t \in Threads, AppendByte(t) PROVE InOrderOnce'
  <2> DEFINE b == NextByte(t)
             k == Len(Eventually)
  <2>1. b \in Bytes /\ b[1] = t /\ Eventually' = Append(Eventually, b)
    BY <1>1, <1>5, EventuallyAppend, NextByteType
  <2>2. Eventually \in Seq(Item) /\ b \in Item
    BY <1>1, <2>1, EventuallyType DEF Item
  <2>3. /\ Len(Eventually') = k + 1
        /\ \A i \in 1 .. k : Eventually'[i] = Eventually[i]
        /\ Eventually'[k + 1] = b
    <3> HIDE DEF b
    <3> QED
      BY <2>1, <2>2, AppendProperties
  <2>4. ASSUME NEW s \in Threads, NEW j \in 1 .. k + 1, NEW i \in 1 .. j - 1,
               ByteOf(Eventually'[i], s), ByteOf(Eventually'[j], s)
        PROVE  Before(Eventually'[i], Eventually'[j])
    <3>1. i \in 1 .. k /\ Eventually'[i] = Eventually[i]
      BY <1>2, <2>3
    <3>2. CASE j = k + 1
      <4>1. s = t
        BY <2>1, <2>3, <2>4, <3>2 DEF ByteOf
      <4>2. Before(Eventually[i], b)
        BY <2>4, <3>1, <4>1 DEF SentInv
      <4> QED
        BY <2>3, <3>1, <3>2, <4>2
    <3>3. CASE j \in 1 .. k
      <4>1. Eventually'[j] = Eventually[j]
        BY <2>3, <3>3
      <4> QED
        BY <1>3, <2>4, <3>1, <3>3, <4>1
    <3> QED
      BY <1>2, <3>2, <3>3
  <2> QED
    BY <2>3, <2>4 DEF InOrderOnce
<1>6. ASSUME NEW t \in Threads, Truncate(t) PROVE InOrderOnce'
  <2>1. CASE Eventually' = Append(Eventually, DropNote)
    <3> DEFINE k == Len(Eventually)
    <3>1. Eventually \in Seq(Item) /\ DropNote \in Item
      BY <1>1, EventuallyType DEF Item
    <3>2. /\ Len(Eventually') = k + 1
          /\ \A i \in 1 .. k : Eventually'[i] = Eventually[i]
          /\ Eventually'[k + 1] = DropNote
      BY <2>1, <3>1, AppendProperties
    <3>3. ASSUME NEW s \in Threads, NEW j \in 1 .. k + 1, NEW i \in 1 .. j - 1,
                 ByteOf(Eventually'[i], s), ByteOf(Eventually'[j], s)
          PROVE  Before(Eventually'[i], Eventually'[j])
      <4>1. j \in 1 .. k /\ i \in 1 .. k
        BY <1>2, <3>2, <3>3 DEF ByteOf
      <4>2. Eventually'[i] = Eventually[i] /\ Eventually'[j] = Eventually[j]
        BY <3>2, <4>1
      <4> QED
        BY <1>3, <3>3, <4>1, <4>2
    <3> QED
      BY <3>2, <3>3 DEF InOrderOnce
  <2> QED
    BY <1>4, <1>6, <2>1, EventuallyTruncate
<1>7. ASSUME NEW t \in Threads, DirectWrite(t) PROVE InOrderOnce'
  <2> DEFINE k == Len(Eventually)
             n == Len(wrote[Main])
  <2>1. PICK c, r \in Nat :
           /\ k \in Nat /\ c <= k
           /\ Len(Eventually') = k + r
           /\ \A i \in 1 .. c : Eventually'[i] = Eventually[i]
           /\ \A i \in 1 .. r : Eventually'[c + i] = <<Main, n, i>>
           /\ \A i \in c + 1 .. k :
                Eventually'[r + i] = Eventually[i] /\ ~ByteOf(Eventually[i], Main)
    BY <1>7, DirectShape, Zenon
  <2>2. n \in Nat /\ NextByte(Main) = <<Main, n, 1>>
    BY <1>1, <1>7, NextByteDirect, LenProperties DEF TypeOK
  <2> HIDE DEF k, n
  <2>3. \A i \in c + 1 .. c + r : Eventually'[i] = <<Main, n, i - c>>
    <3> TAKE i \in c + 1 .. c + r
    <3>1. i - c \in 1 .. r /\ c + (i - c) = i
      BY <2>1
    <3> QED
      BY <2>1, <3>1
  <2>4. \A i \in c + r + 1 .. k + r :
          /\ i - r \in c + 1 .. k
          /\ Eventually'[i] = Eventually[i - r] /\ ~ByteOf(Eventually[i - r], Main)
    <3> TAKE i \in c + r + 1 .. k + r
    <3>1. i - r \in c + 1 .. k /\ r + (i - r) = i
      BY <2>1
    <3> QED
      BY <2>1, <3>1
  <2>5. ASSUME NEW s \in Threads, NEW j \in 1 .. k + r, NEW i \in 1 .. j - 1,
               ByteOf(Eventually'[i], s), ByteOf(Eventually'[j], s)
        PROVE  Before(Eventually'[i], Eventually'[j])
    <3>1. CASE j \in 1 .. c
      <4>1. /\ i \in 1 .. c /\ j \in 1 .. k
            /\ Eventually'[i] = Eventually[i] /\ Eventually'[j] = Eventually[j]
        BY <2>1, <3>1
      <4> QED
        BY <1>3, <2>5, <4>1 DEF k
    <3>2. CASE j \in c + 1 .. c + r
      <4>1. Eventually'[j] = <<Main, n, j - c>> /\ s = Main /\ j - c >= 1
        BY <2>1, <2>3, <2>5, <3>2 DEF ByteOf
      <4>2. CASE i \in 1 .. c
        <5>1. i \in 1 .. k /\ Eventually'[i] = Eventually[i]
          BY <2>1, <4>2
        <5>2. Before(Eventually[i], <<Main, n, 1>>)
          BY <2>2, <2>5, <4>1, <5>1 DEF SentInv, k
        <5>3. Eventually[i] \in Bytes
          BY <1>2, <2>5, <5>1 DEF ByteOf, k
        <5> QED
          BY <2>2, <4>1, <5>1, <5>2, <5>3 DEF Before, Bytes
      <4>3. CASE i \in c + 1 .. c + r
        BY <2>2, <2>3, <4>1, <4>3 DEF Before
      <4> QED
        BY <2>1, <3>2, <4>2, <4>3
    <3>3. CASE j \in c + r + 1 .. k + r
      <4>1. /\ j - r \in 1 .. k /\ Eventually'[j] = Eventually[j - r]
            /\ s # Main
        BY <2>1, <2>4, <2>5, <3>3
      <4>2. CASE i \in 1 .. c
        <5>1. i \in 1 .. (j - r) - 1 /\ Eventually'[i] = Eventually[i]
          BY <2>1, <3>3, <4>2
        <5> QED
          BY <1>3, <2>5, <4>1, <5>1 DEF k
      <4>3. CASE i \in c + 1 .. c + r
        BY <2>3, <2>5, <4>1, <4>3 DEF ByteOf
      <4>4. CASE i \in c + r + 1 .. k + r
        <5>1. i - r \in 1 .. (j - r) - 1 /\ Eventually'[i] = Eventually[i - r]
          BY <2>1, <2>4, <3>3, <4>4
        <5> QED
          BY <1>3, <2>5, <4>1, <5>1 DEF k
      <4> QED
        BY <2>1, <3>3, <4>2, <4>3, <4>4
    <3> QED
      BY <2>1, <3>1, <3>2, <3>3
  <2> QED
    BY <2>1, <2>5 DEF InOrderOnce, k
<1> QED
  BY <1>4, <1>5, <1>6, <1>7, EventuallyOther

\* Every step leaves what is on its way as it is, but for a run of entries
\* put in: as far as a worker is concerned, its NextByte at the end.
LEMMA EventuallyGrows ==
  ASSUME LockInv, WorkersOnlyInv, [Next]_vars
  PROVE  \E c, r \in Nat :
           /\ Len(Eventually) \in Nat /\ c <= Len(Eventually)
           /\ Len(Eventually') = Len(Eventually) + r
           /\ \A i \in 1 .. c : Eventually'[i] = Eventually[i]
           /\ \A i \in c + 1 .. Len(Eventually) : Eventually'[r + i] = Eventually[i]
           /\ \A i \in c + 1 .. c + r : \A t \in Workers :
                ByteOf(Eventually'[i], t) => Eventually'[i] = NextByte(t) /\ c = Len(Eventually)
<1> DEFINE k == Len(Eventually)
           Grows(c, r) ==
             /\ k \in Nat /\ c <= k
             /\ Len(Eventually') = k + r
             /\ \A i \in 1 .. c : Eventually'[i] = Eventually[i]
             /\ \A i \in c + 1 .. k : Eventually'[r + i] = Eventually[i]
             /\ \A i \in c + 1 .. c + r : \A t \in Workers :
                  ByteOf(Eventually'[i], t) => Eventually'[i] = NextByte(t) /\ c = k
<1>1. TypeOK /\ k \in Nat /\ Eventually \in Seq(Item)
  BY EventuallyType, EventuallyEntry DEF LockInv
<1>2. SUFFICES \E c, r \in Nat : Grows(c, r)
  BY Zenon
<1>3. CASE Eventually' = Eventually
  <2>1. Grows(k, 0)
    BY <1>1, <1>3
  <2> HIDE DEF Grows, k
  <2> QED
    BY <1>1, <2>1
<1>4. ASSUME NEW e \in Item, Eventually' = Append(Eventually, e),
             \A t \in Workers : ByteOf(e, t) => e = NextByte(t)
      PROVE  \E c, r \in Nat : Grows(c, r)
  <2>1. /\ Len(Eventually') = k + 1
        /\ \A i \in 1 .. k : Eventually'[i] = Eventually[i]
        /\ Eventually'[k + 1] = e
    BY <1>1, <1>4, AppendProperties
  <2>2. Grows(k, 1)
    BY <1>1, <1>4, <2>1
  <2> HIDE DEF Grows, k
  <2> QED
    BY <1>1, <2>2
<1>5. ASSUME NEW t \in Threads, AppendByte(t) PROVE \E c, r \in Nat : Grows(c, r)
  <2> DEFINE b == NextByte(t)
  <2>1. b \in Item /\ b[1] = t /\ Eventually' = Append(Eventually, b)
    BY <1>1, <1>5, EventuallyAppend, NextByteType DEF Item
  <2>2. \A s \in Workers : ByteOf(b, s) => b = NextByte(s)
    BY <2>1 DEF ByteOf
  <2> HIDE DEF Grows, b
  <2> QED
    BY <1>4, <2>1, <2>2
<1>6. ASSUME NEW t \in Threads, Truncate(t) PROVE \E c, r \in Nat : Grows(c, r)
  <2> HIDE DEF Grows
  <2>1. DropNote \in Item /\ \A s \in Workers : ~ByteOf(DropNote, s)
    BY DEF Item, ByteOf
  <2> QED
    BY <1>3, <1>4, <1>6, <2>1, EventuallyTruncate
<1>7. ASSUME NEW t \in Threads, DirectWrite(t) PROVE \E c, r \in Nat : Grows(c, r)
  <2> DEFINE n == Len(wrote[Main])
  <2>1. PICK c, r \in Nat :
           /\ k \in Nat /\ c <= k
           /\ Len(Eventually') = k + r
           /\ \A i \in 1 .. c : Eventually'[i] = Eventually[i]
           /\ \A i \in 1 .. r : Eventually'[c + i] = <<Main, n, i>>
           /\ \A i \in c + 1 .. k :
                Eventually'[r + i] = Eventually[i] /\ ~ByteOf(Eventually[i], Main)
    BY <1>7, DirectShape, Zenon
  <2> HIDE DEF k, n
  <2>2. ASSUME NEW i \in c + 1 .. c + r, NEW s \in Workers PROVE ~ByteOf(Eventually'[i], s)
    <3>1. i - c \in 1 .. r /\ c + (i - c) = i
      BY <2>1
    <3>2. Eventually'[i] = <<Main, n, i - c>>
      BY <2>1, <3>1
    <3> QED
      BY <3>2 DEF ByteOf
  <2>3. Grows(c, r)
    BY <2>1, <2>2
  <2> HIDE DEF Grows
  <2> QED
    BY <2>3
<1> QED
  <2> HIDE DEF Grows
  <2> QED
    BY <1>3, <1>5, <1>6, <1>7, EventuallyOther

\* A byte on its way stays on its way, and a note for a missing byte in its place.
LEMMA SentStays ==
  ASSUME LockInv, WorkersOnlyInv, [Next]_vars, NEW b, Sent(b)
  PROVE  Sent(b)'
<1> DEFINE k == Len(Eventually)
<1>1. PICK i \in 1 .. k : Eventually[i] = b
  BY DEF Sent
<1>2. PICK c, r \in Nat :
        /\ k \in Nat /\ c <= k /\ Len(Eventually') = k + r
        /\ \A j \in 1 .. c : Eventually'[j] = Eventually[j]
        /\ \A j \in c + 1 .. k : Eventually'[r + j] = Eventually[j]
  BY EventuallyGrows
<1> HIDE DEF k
<1>3. CASE i <= c
  <2>1. i \in 1 .. k + r /\ Eventually'[i] = b
    BY <1>1, <1>2, <1>3
  <2> QED
    BY <1>2, <2>1 DEF Sent
<1>4. CASE i > c
  <2>1. i \in c + 1 .. k /\ r + i \in 1 .. k + r
    BY <1>2, <1>4
  <2>2. Eventually'[r + i] = b
    BY <1>1, <1>2, <2>1
  <2> QED
    BY <1>2, <2>1, <2>2 DEF Sent
<1> QED
  BY <1>2, <1>3, <1>4

LEMMA NoteStays ==
  ASSUME LockInv, WorkersOnlyInv, [Next]_vars,
         NEW t \in Workers, NEW b, Before(b, NextByte(t)), LossNoted(t, b)
  PROVE  LossNoted(t, b)'
<1> DEFINE k == Len(Eventually)
           Placed(e, before) == IF before THEN Before(e, b) ELSE Before(b, e)
<1>1. PICK p \in 1 .. k :
        /\ Eventually[p] = DropNote
        /\ \A i \in 1 .. k : ByteOf(Eventually[i], t) => Placed(Eventually[i], i < p)
  BY Zenon DEF LossNoted
<1>2. PICK c, r \in Nat :
        /\ k \in Nat /\ c <= k /\ Len(Eventually') = k + r
        /\ \A i \in 1 .. c : Eventually'[i] = Eventually[i]
        /\ \A i \in c + 1 .. k : Eventually'[r + i] = Eventually[i]
        /\ \A i \in c + 1 .. c + r :
             ByteOf(Eventually'[i], t) => Eventually'[i] = NextByte(t) /\ c = k
  BY EventuallyGrows, Zenon
<1> DEFINE q == IF p <= c THEN p ELSE p + r
<1> HIDE DEF k
<1>3. q \in 1 .. k + r /\ Eventually'[q] = DropNote
  <2>1. CASE p <= c
    BY <1>1, <1>2, <2>1
  <2>2. CASE p > c
    <3>1. p \in c + 1 .. k /\ q = r + p
      BY <1>2, <2>2
    <3> QED
      BY <1>1, <1>2, <3>1
  <2> QED
    BY <1>2, <2>1, <2>2
<1>4. ASSUME NEW i \in 1 .. k + r, ByteOf(Eventually'[i], t)
      PROVE  Placed(Eventually'[i], i < q)
  <2>1. CASE i \in 1 .. c
    <3>1. i \in 1 .. k /\ Eventually'[i] = Eventually[i] /\ (i < q <=> i < p)
      BY <1>2, <2>1
    <3> HIDE DEF q
    <3> QED
      BY <1>1, <1>4, <3>1
  <2>2. CASE i \in c + 1 .. c + r
    <3>1. Eventually'[i] = NextByte(t) /\ c = k
      BY <1>2, <1>4, <2>2
    <3>2. ~(i < q)
      BY <1>2, <2>2, <3>1
    <3> QED
      BY <3>1, <3>2
  <2>3. CASE i \in c + r + 1 .. k + r
    <3>1. i - r \in c + 1 .. k /\ r + (i - r) = i /\ (i < q <=> i - r < p)
      BY <1>2, <2>3
    <3>2. Eventually'[i] = Eventually[i - r] /\ i - r \in 1 .. k
      BY <1>2, <3>1
    <3> HIDE DEF q
    <3> QED
      BY <1>1, <1>4, <3>1, <3>2
  <2> QED
    BY <1>2, <2>1, <2>2, <2>3
<1> HIDE DEF q
<1>5. Len(Eventually') = k + r
  BY <1>2
<1> QED
  BY <1>3, <1>4, <1>5, Zenon DEF LossNoted

\* Each byte a worker gets past is on its way or noted.
LEMMA NotedStep ==
  ASSUME LockInv, WorkersOnlyInv, SentInv, NotedInv, [Next]_vars
  PROVE  NotedInv'
<1> SUFFICES ASSUME NEW t \in Workers, NEW m \in 1 .. Len(wrote'[t]),
                    NEW p \in 1 .. wrote'[t][m].len,
                    ~wrote'[t][m].trace, Before(<<t, m, p>>, NextByte(t)')
             PROVE  Sent(<<t, m, p>>)' \/ LossNoted(t, <<t, m, p>>)'
  BY DEF NotedInv
<1> DEFINE b == <<t, m, p>>
           n == Len(wrote[t])
<1>1. TypeOK /\ TypeOK' /\ n \in Nat /\ Len(wrote'[t]) \in Nat
  BY LockStep, LenProperties DEF LockInv, TypeOK
<1>2. t \in Threads /\ t # Main
  OBVIOUS
<1>3. b \in Bytes
  BY <1>1 DEF Bytes
<1>4. m <= n /\ wrote'[t][m] = wrote[t][m]
  <2>1. CASE wrote' = wrote
    BY <1>1, <2>1
  <2>2. ASSUME NEW s \in Threads, Write(s) PROVE m <= n /\ wrote'[t][m] = wrote[t][m]
    <3>1. PICK x \in Messages : wrote' = [wrote EXCEPT ![s] = Append(@, x)]
      BY <2>2 DEF Write
    <3>2. CASE s # t
      BY <1>1, <3>1, <3>2 DEF TypeOK
    <3>3. CASE s = t
      <4>1. /\ Len(wrote'[t]) = n + 1
            /\ \A i \in 1 .. n : wrote'[t][i] = wrote[t][i]
        BY <1>1, <3>1, <3>3, AppendProperties DEF TypeOK
      <4>2. pc'[t] = "log"
        BY <1>1, <2>2, <3>3 DEF Write, Goto, TypeOK
      <4>3. NextByte(t)' = <<t, n + 1, 1>>
        BY <4>1, <4>2 DEF NextByte, InLog
      <4>4. m # n + 1
        BY <1>1, <4>3 DEF Before
      <4> QED
        BY <1>1, <4>1, <4>4
    <3> QED
      BY <3>2, <3>3
  <2> QED
    BY <2>1, <2>2, WroteStep
<1>5. CASE Before(b, NextByte(t))
  <2>1. Sent(b) \/ LossNoted(t, b)
    BY <1>1, <1>4, <1>5 DEF NotedInv
  <2> HIDE DEF b
  <2>2. Sent(b)' \/ LossNoted(t, b)'
    BY <1>5, <2>1, SentStays, NoteStays
  <2> QED
    BY <2>2 DEF b
<1>6. CASE ~Before(b, NextByte(t))
  <2>1. NextByte(t)' # NextByte(t)
    BY <1>6
  <2>2. cursor[t] \in Nat
    BY <1>1, <1>2 DEF TypeOK
  <2>3. CASE /\ AppendByte(t)
             /\ NextByte(t) = <<t, n, cursor[t] + 1>>
             /\ NextByte(t)' = <<t, n, cursor[t] + 2>>
    <3>1. b = NextByte(t)
      BY <1>1, <1>6, <2>2, <2>3 DEF Before
    <3>2. Eventually \in Seq(Item) /\ b \in Item
      BY <1>1, <1>3, EventuallyType DEF Item
    <3>3. Eventually' = Append(Eventually, b)
      BY <1>2, <2>3, <3>1, EventuallyAppend
    <3> HIDE DEF b
    <3>4. Len(Eventually') \in Nat \ {0} /\ Eventually'[Len(Eventually')] = b
      BY <3>2, <3>3, AppendProperties, LenProperties
    <3>5. Sent(b)'
      BY <3>4 DEF Sent
    <3> QED
      BY <3>5 DEF b
  <2>4. CASE /\ NextByte(t)' = <<t, n + 1, 1>>
             /\ NextByte(t)[2] = n
             /\ \/ Truncate(t)
                \/ Current(t).trace
                \/ NextByte(t) = <<t, n, Current(t).len + 1>>
    <3>1. m = n
      BY <1>1, <1>4, <1>6, <2>4 DEF Before
    <3>2. wrote[t][m] = Current(t)
      BY <3>1 DEF Current
    <3>3. Current(t).len \in Nat
      BY <1>1, <1>2, <3>1, LenType
    <3>4. ~Current(t).trace
      BY <1>4, <3>2
    <3>5. NextByte(t) # <<t, n, Current(t).len + 1>>
      BY <1>4, <1>6, <3>1, <3>2, <3>3 DEF Before
    <3>6. Truncate(t)
      BY <2>4, <3>4, <3>5
    <3> DEFINE k == Len(Eventually')
    <3>7. /\ Eventually' = Eventually \/ Eventually' = Append(Eventually, DropNote)
          /\ k > 0 /\ Eventually'[k] = DropNote
      BY <1>2, <3>6, EventuallyTruncate
    <3>8. /\ Eventually \in Seq(Item) /\ DropNote \in Item /\ Len(Eventually) \in Nat
          /\ \A i \in 1 .. Len(Eventually) : Eventually[i] = DropNote \/ Eventually[i] \in Bytes
      BY <1>1, EventuallyType, EventuallyEntry DEF Item
    <3>9. k \in Nat /\ \A i \in 1 .. k - 1 : i \in 1 .. Len(Eventually) /\ Eventually'[i] = Eventually[i]
      <4>1. CASE Eventually' = Eventually
        BY <3>8, <4>1
      <4>2. CASE Eventually' = Append(Eventually, DropNote)
        BY <3>8, <4>2, AppendProperties
      <4> QED
        BY <3>7, <4>1, <4>2
    <3>10. ASSUME NEW i \in 1 .. k, ByteOf(Eventually'[i], t)
           PROVE  i < k /\ Before(Eventually'[i], b)
      <4>1. i \in 1 .. k - 1
        BY <3>7, <3>9, <3>10 DEF ByteOf
      <4>2. /\ i \in 1 .. Len(Eventually) /\ Eventually'[i] = Eventually[i]
            /\ Eventually[i] \in Bytes /\ ByteOf(Eventually[i], t)
        BY <3>8, <3>9, <3>10, <4>1 DEF ByteOf
      <4>3. Before(Eventually[i], NextByte(t))
        BY <1>2, <4>2 DEF SentInv
      <4>4. NextByte(t) \in Bytes
        BY <1>1, <1>2, NextByteType
      <4>5. \A x, y, z \in Bytes : Before(x, y) /\ ~Before(z, y) => Before(x, z)
        BY DEF Before, Bytes
      <4>6. Before(Eventually[i], b)
        <5> HIDE DEF b
        <5> QED
          BY <1>3, <1>6, <4>2, <4>3, <4>4, <4>5
      <4> QED
        BY <3>9, <4>1, <4>2, <4>6
    <3>11. LossNoted(t, b)'
      <4>1. k \in 1 .. k
        BY <3>7, <3>9
      <4> HIDE DEF b
      <4> QED
        BY <3>7, <3>10, <4>1, Zenon DEF LossNoted
    <3> QED
      BY <3>11
  <2> QED
    <3>1. \/ /\ AppendByte(t)
             /\ NextByte(t) = <<t, n, cursor[t] + 1>>
             /\ NextByte(t)' = <<t, n, cursor[t] + 2>>
          \/ /\ NextByte(t)' = <<t, n + 1, 1>>
             /\ NextByte(t)[2] = n
             /\ \/ Truncate(t)
                \/ Current(t).trace
                \/ NextByte(t) = <<t, n, Current(t).len + 1>>
      BY <1>2, <2>1, NextByteStep
    <3> QED
      BY <2>3, <2>4, <3>1
<1> QED
  BY <1>5, <1>6

-----------------------------------------------------------------------------
(* The theorems.                                                           *)

\* The invariant holds initially: nothing was written, logged or buffered.
LEMMA InitInv == Init => IInv
<1> SUFFICES ASSUME Init PROVE IInv
  OBVIOUS
<1>1. LockInv
  BY LockInit
<1>2. Len(<<>>) = 0
  BY EmptySeq
<1>3. LogInv
  BY <1>2 DEF Init, LogInv, LogMutexInv, LogOpenInv, LogIsComplete, Logged, InLog
<1>4. BoundInv
  <2>1. \A t \in Threads : DOMAIN wrote[t] = {}
    BY <1>2 DEF Init
  <2>2. Written = {}
    BY <2>1 DEF Written
  <2>3. IsFiniteSet(Written) /\ Cardinality(Written) = 0
    BY <2>2, FS_EmptySet
  <2> QED
    BY <2>3, BoundAssumption DEF BoundInv, BoundAssumption
<1>5. Len(Eventually) = 0
  <2>1. InHand = <<>> /\ NoteIf(diagDropped) = <<>>
    BY DEF Init, InHand, NoteIf
  <2>2. Eventually = <<>> \o <<>> \o <<>> \o <<>>
    BY <2>1 DEF Init, Eventually, Shown
  <2>3. <<>> \o <<>> = <<>>
    BY ConcatEmptySeq, EmptySeq
  <2> QED
    BY <1>2, <2>2, <2>3
<1>6. WorkersOnlyInv
  BY <1>2 DEF Init, WorkersOnlyInv
<1>7. SentInv /\ InOrderOnce
  BY <1>5 DEF SentInv, InOrderOnce
<1>8. NotedInv
  BY <1>2 DEF Init, NotedInv
<1> QED
  BY <1>1, <1>3, <1>4, <1>6, <1>7, <1>8 DEF IInv, OutputInv

\* IInv holds in every reachable state.
THEOREM Invariance == Spec => []IInv
<1>1. IInv /\ [Next]_vars => IInv'
  BY LockStep, WorkersOnlyStep, SentStep, OrderStep, NotedStep, LogStep, BoundStep DEF IInv, OutputInv
<1> QED
  BY InitInv, <1>1, PTL DEF Spec

\* g_diag_len never passes DIAG_BUF_SIZE, and every variable keeps its type.
THEOREM TypeCorrect == Spec => []TypeOK
<1>1. IInv => TypeOK
  BY DEF IInv, LockInv
<1> QED
  BY Invariance, <1>1, PTL

\* __wrap_consoleUpdate prints the dropped note only behind a full buffer.
THEOREM NoStaleDropNote == Spec => []DropOnlyWhenFull
<1>1. IInv => DropOnlyWhenFull
  BY DEF IInv, LockInv
<1> QED
  BY Invariance, <1>1, PTL

\* g_diag_mutex excludes: its holder alone is between lock and unlock, so the
\* buffer the main thread resets is still the one it copied.
THEOREM Exclusion == Spec => [](MutexInv /\ DrainInv)
<1>1. IInv => MutexInv /\ DrainInv
  BY DEF IInv, LockInv
<1> QED
  BY Invariance, <1>1, PTL

\* Each thread's output reaches the screen in the order it was written, no byte
\* twice, whatever the buffer, the direct writes and the drains do to it.
THEOREM OutputInOrder == Spec => []InOrderOnce
<1>1. IInv => InOrderOnce
  BY DEF IInv, OutputInv
<1> QED
  BY Invariance, <1>1, PTL

\* What __wrap__write_r cuts off is announced by the note at the place of the
\* missing bytes.
THEOREM NoSilentLoss == Spec => []LossIsAnnounced
<1>1. IInv => LossIsAnnounced
  <2> SUFFICES ASSUME IInv,
                      NEW t \in Workers, NEW m \in 1 .. Len(wrote[t]), NEW p \in 1 .. wrote[t][m].len,
                      ~wrote[t][m].trace, m < Len(wrote[t]) \/ pc[t] = "idle"
               PROVE  Sent(<<t, m, p>>) \/ LossNoted(t, <<t, m, p>>)
    BY DEF LossIsAnnounced
  <2>1. NotedInv /\ Len(wrote[t]) \in Nat
    BY LenProperties DEF IInv, LockInv, OutputInv, TypeOK
  <2>2. CASE m < Len(wrote[t])
    <3>1. NextByte(t)[2] >= Len(wrote[t])
      BY <2>1 DEF NextByte, InLog
    <3>2. NextByte(t)[2] \in Nat
      BY NextByteType DEF IInv, LockInv, Bytes
    <3>3. Before(<<t, m, p>>, NextByte(t))
      BY <2>1, <2>2, <3>1, <3>2 DEF Before
    <3> QED
      BY <2>1, <3>3 DEF NotedInv
  <2>3. CASE pc[t] = "idle"
    <3>1. NextByte(t) = <<t, Len(wrote[t]) + 1, 1>>
      BY <2>3 DEF NextByte, InLog
    <3>2. Before(<<t, m, p>>, NextByte(t))
      BY <2>1, <3>1 DEF Before
    <3> QED
      BY <2>1, <3>2 DEF NotedInv
  <2> QED
    BY <2>2, <2>3
<1> QED
  BY Invariance, <1>1, PTL

\* Every message handed to log_write is in the log once, in its thread's order,
\* unless the SD card refused it.
THEOREM LogComplete == Spec => []LogIsComplete
<1>1. IInv => LogIsComplete
  BY DEF IInv, LogInv
<1> QED
  BY Invariance, <1>1, PTL

-----------------------------------------------------------------------------
(* The refinement: DiagConsole implements DiagStream.                      *)

\* While a worker copies its message, the rest of it is accepted, too.
LEMMA AcceptedWhileCopying ==
  ASSUME LockInv, NEW t \in Threads, pc[t] = "append"
  PROVE  Accepted = diagBuf \o Rest(t, cursor[t])
<1>1. t \in Workers /\ diagMutex = t /\ \A s \in Workers : pc[s] = "append" => s = t
  BY DEF LockInv, RolesInv, MutexInv, HoldsMutex, InLog
<1>2. Writer = {t}
  BY <1>1 DEF Writer
<1>3. ToCome = Rest(t, cursor[t])
  BY <1>2 DEF ToCome
<1> QED
  BY <1>3 DEF Accepted

\* Otherwise what is accepted is what is in g_diag_buf.
LEMMA AcceptedOtherwise ==
  ASSUME TypeOK, \A t \in Workers : pc[t] # "append"
  PROVE  Accepted = diagBuf /\ Pending = diagBuf /\ Lossy = diagDropped
<1>1. Writer = {}
  BY DEF Writer
<1>2. ToCome = <<>>
  BY <1>1 DEF ToCome
<1>3. diagBuf \in Seq(Bytes) /\ Len(diagBuf) \in Nat /\ Len(diagBuf) <= DIAG_BUF_SIZE
  BY LenProperties DEF TypeOK
<1>4. Accepted = diagBuf
  BY <1>2, <1>3, ConcatEmptySeq DEF Accepted
<1>5. Pending = SubSeq(diagBuf, 1, Len(diagBuf))
  BY <1>3, <1>4 DEF Pending
<1>6. Pending = diagBuf
  BY <1>3, <1>5, SubSeqFull
<1>7. Lossy = diagDropped
  BY <1>3, <1>4 DEF Lossy, TypeOK
<1> QED
  BY <1>4, <1>6, <1>7

\* Both hold in the next state, too.
LEMMA AcceptedNext ==
  /\ \A t \in Threads : LockInv' /\ pc'[t] = "append" =>
       Accepted' = diagBuf' \o Rest(t, cursor[t])'
  /\ TypeOK' /\ (\A t \in Workers : pc'[t] # "append") =>
       Accepted' = diagBuf' /\ Pending' = diagBuf' /\ Lossy' = diagDropped'
<1>1. ASSUME NEW t \in Threads
      PROVE  LockInv' /\ pc'[t] = "append" => Accepted' = diagBuf' \o Rest(t, cursor[t])'
  <2>1. LockInv /\ pc[t] = "append" => Accepted = diagBuf \o Rest(t, cursor[t])
    BY AcceptedWhileCopying
  <2>2. (LockInv /\ pc[t] = "append" => Accepted = diagBuf \o Rest(t, cursor[t]))'
    BY <2>1, PTL
  <2> QED
    BY <2>2
<1>2. TypeOK' /\ (\A t \in Workers : pc'[t] # "append") =>
        Accepted' = diagBuf' /\ Pending' = diagBuf' /\ Lossy' = diagDropped'
  <2>1. TypeOK /\ (\A t \in Workers : pc[t] # "append") =>
          Accepted = diagBuf /\ Pending = diagBuf /\ Lossy = diagDropped
    BY AcceptedOtherwise
  <2>2. (TypeOK /\ (\A t \in Workers : pc[t] # "append") =>
           Accepted = diagBuf /\ Pending = diagBuf /\ Lossy = diagDropped)'
    BY <2>1, PTL
  <2> QED
    BY <2>2
<1> QED
  BY <1>1, <1>2

\* A step that leaves the buffer and the message being copied alone.
LEMMA AcceptedSame ==
  ASSUME LockInv, LockInv', diagBuf' = diagBuf,
         \A s \in Workers : pc'[s] = "append" <=> pc[s] = "append",
         \A s \in Workers : pc[s] = "append" => wrote'[s] = wrote[s] /\ cursor'[s] = cursor[s]
  PROVE  Accepted' = Accepted
<1>1. CASE \A s \in Workers : pc[s] # "append"
  <2>1. \A s \in Workers : pc'[s] # "append"
    BY <1>1
  <2>2. TypeOK /\ TypeOK'
    BY DEF LockInv
  <2>3. Accepted = diagBuf
    BY <1>1, <2>2, AcceptedOtherwise
  <2>4. Accepted' = diagBuf'
    BY <2>1, <2>2, AcceptedNext
  <2> QED
    BY <2>3, <2>4
<1>2. ASSUME NEW s \in Workers, pc[s] = "append" PROVE Accepted' = Accepted
  <2>1. s \in Threads /\ pc'[s] = "append" /\ wrote'[s] = wrote[s] /\ cursor'[s] = cursor[s]
    BY <1>2
  <2>2. Rest(s, cursor[s])' = Rest(s, cursor[s])
    BY <2>1 DEF Rest, Current
  <2>3. Accepted = diagBuf \o Rest(s, cursor[s])
    BY <1>2, <2>1, AcceptedWhileCopying
  <2>4. Accepted' = diagBuf' \o Rest(s, cursor[s])'
    BY <2>1, AcceptedNext
  <2> QED
    BY <2>2, <2>3, <2>4
<1> QED
  BY <1>1, <1>2

\* The message a thread is writing is one of the abstract messages.
LEMMA CurrentIsMessage ==
  ASSUME TypeOK, BoundInv, NEW t \in Threads, Len(wrote[t]) > 0
  PROVE  Rest(t, 0) \in MessageBytes
<1> DEFINE m == Len(wrote[t])
           l == Current(t).len
<1>1. m \in 1 .. MaxWrites
  BY MessageCount, BoundAssumption, LenProperties DEF TypeOK, BoundAssumption
<1>2. l \in MsgLens /\ l \in Nat
  <2>1. wrote[t] \in Seq(Messages) /\ m \in 1 .. Len(wrote[t])
    BY <1>1 DEF TypeOK
  <2>2. Current(t) \in Messages
    BY <2>1, ElementOfSeq DEF Current
  <2> QED
    BY <2>2 DEF Messages
<1>3. Rest(t, 0) = [i \in 1 .. l - 0 |-> <<t, m, 0 + i>>]
  BY DEF Rest
<1> HIDE DEF m, l
<1>4. [i \in 1 .. l - 0 |-> <<t, m, 0 + i>>] = [i \in 1 .. l |-> <<t, m, i>>]
  BY <1>2
<1> QED
  BY <1>1, <1>2, <1>3, <1>4 DEF MessageBytes

\* Copying one byte: the byte moves from the rest of the message to the buffer.
LEMMA AcceptedAppend ==
  ASSUME LockInv, LockInv', NEW t \in Threads, AppendByte(t)
  PROVE  Accepted' = Accepted
<1> DEFINE k == cursor[t]
           l == Current(t).len
           m == Len(wrote[t])
           r == Rest(t, k)
           q == Rest(t, k + 1)
           b == Head(r)
<1>1. /\ pc[t] = "append" /\ pc' = pc /\ wrote' = wrote
      /\ k \in Nat /\ k < l /\ cursor'[t] = k + 1
      /\ diagBuf' = Append(diagBuf, b) /\ diagBuf \in Seq(Bytes)
  BY DEF AppendByte, LockInv, TypeOK
<1>2. m > 0 /\ l \in Nat
  BY <1>1, LenType DEF LockInv, MessageInv, InLog
<1>3. /\ r \in Seq(Bytes) /\ Len(r) = l - k
      /\ \A i \in 1 .. l - k : r[i] = <<t, m, k + i>>
  <2>1. k <= l
    BY <1>1, <1>2
  <2> QED
    BY <1>1, <1>2, <2>1, RestType DEF LockInv
<1>4. /\ q \in Seq(Bytes) /\ Len(q) = l - (k + 1)
      /\ \A i \in 1 .. l - (k + 1) : q[i] = <<t, m, (k + 1) + i>>
  <2>1. k + 1 <= l /\ k + 1 \in Nat
    BY <1>1, <1>2
  <2> QED
    BY <1>2, <2>1, RestType DEF LockInv
<1>5. b = <<t, m, k + 1>> /\ b \in Bytes
  BY <1>1, <1>2, RestFirst DEF LockInv
<1>6. Accepted = diagBuf \o r
  BY <1>1, AcceptedWhileCopying
<1>7. Rest(t, cursor[t])' = q
  BY <1>1 DEF Rest, Current
<1>8. Accepted' = diagBuf' \o q
  <2>1. pc'[t] = "append" /\ t \in Threads
    BY <1>1
  <2>2. Accepted' = diagBuf' \o Rest(t, cursor[t])'
    BY <2>1, AcceptedNext
  <2> QED
    BY <1>7, <2>2
<1> HIDE DEF q, r, b, k, l, m
<1>9. <<b>> \o q = r
  <2>1. /\ <<b>> \in Seq(Bytes) /\ Len(<<b>>) = 1 /\ <<b>>[1] = b
    BY <1>5
  <2> DEFINE u == <<b>>
  <2> HIDE DEF u
  <2>2. /\ u \o q \in Seq(Bytes)
        /\ Len(u \o q) = 1 + Len(q)
        /\ \A i \in 1 .. 1 + Len(q) : (u \o q)[i] = IF i <= 1 THEN u[i] ELSE q[i - 1]
    BY <1>4, <2>1, ConcatProperties DEF u
  <2>3. Len(u \o q) = Len(r)
    BY <1>1, <1>2, <1>3, <1>4, <2>2
  <2>4. ASSUME NEW i \in 1 .. Len(u \o q) PROVE (u \o q)[i] = r[i]
    <3>1. CASE i = 1
      BY <1>1, <1>2, <1>3, <1>5, <2>1, <2>2, <2>3, <3>1 DEF u
    <3>2. CASE i # 1
      <4>1. i - 1 \in 1 .. l - (k + 1) /\ (k + 1) + (i - 1) = k + i /\ i \in 1 .. l - k
        BY <1>1, <1>2, <1>3, <2>3, <3>2
      <4>2. (u \o q)[i] = q[i - 1]
        BY <1>4, <2>2, <3>2
      <4> QED
        BY <1>3, <1>4, <4>1, <4>2
    <3> QED
      BY <3>1, <3>2
  <2>5. u \o q = r
    BY <1>3, <2>2, <2>3, <2>4, SeqEqual
  <2> QED
    BY <2>5 DEF u
<1>10. diagBuf' = diagBuf \o <<b>> /\ <<b>> \in Seq(Bytes)
  <2>1. <<b>> \in Seq(Bytes)
    BY <1>5
  <2> QED
    BY <1>1, <1>5, <2>1, AppendIsConcat
<1>11. (diagBuf \o <<b>>) \o q = diagBuf \o (<<b>> \o q)
  <2>1. diagBuf \in Seq(Bytes) /\ <<b>> \in Seq(Bytes) /\ q \in Seq(Bytes)
    BY <1>1, <1>4, <1>10
  <2> QED
    BY <2>1, ConcatAssociative
<1> QED
  BY <1>6, <1>8, <1>9, <1>10, <1>11

\* What leaves the buffer, the message being copied, the flag and the screen
\* alone is a stuttering step of the abstract pipe.
LEMMA StreamStutter ==
  ASSUME Accepted' = Accepted, diagDropped' = diagDropped, Shown' = Shown
  PROVE  UNCHANGED Stream!vars
BY DEF Stream!vars, Pending, Lossy

\* Only a worker's own step takes it into or out of the copying loop, and what
\* it copies stays as it is meanwhile.
LEMMA CopyingStays ==
  ASSUME LockInv, NEW t \in Threads,
         Write(t) \/ LogSteps(t) \/ DirectWrite(t) \/ ConsoleUpdate(t) \/ Snapshot(t)
           \/ WriteDrain(t) \/ WriteNote(t)
  PROVE  /\ diagBuf' = diagBuf /\ diagDropped' = diagDropped
         /\ Accepted' = Accepted
<1>1. [Next]_vars
  BY DEF Next, WriteSteps, DrainSteps
<1>2. LockInv'
  BY <1>1, LockStep
<1>3. /\ pc[t] # "append" /\ pc'[t] # "append"
      /\ \A s \in Threads \ {t} : pc'[s] = pc[s]
  BY LogFrame DEF LockInv, TypeOK, Goto, InLog, Write, DirectWrite, ConsoleUpdate, Snapshot, WriteDrain, WriteNote
<1>4. UNCHANGED <<cursor, diagBuf, diagDropped>>
  BY LogFrame DEF Write, DirectWrite, ConsoleUpdate, Snapshot, WriteDrain, WriteNote, diagVars
<1>5. \A s \in Threads \ {t} : wrote'[s] = wrote[s]
  BY LogFrame DEF LockInv, TypeOK, Write, DirectWrite, ConsoleUpdate, Snapshot, WriteDrain, WriteNote
<1>6. Accepted' = Accepted
  BY <1>2, <1>3, <1>4, <1>5, AcceptedSame
<1> QED
  BY <1>4, <1>6

\* A worker that takes g_diag_mutex offers its message.
LEMMA StreamOffer ==
  ASSUME IInv, NEW t \in Threads, LockBuffer(t)
  PROVE  Stream!Next
<1> DEFINE m == Rest(t, 0)
<1>1. [Next]_vars
  BY DEF Next, WriteSteps
<1>2. LockInv /\ LockInv' /\ TypeOK
  BY <1>1, LockStep DEF IInv, LockInv
<1>3. /\ pc[t] = "lock" /\ diagMutex = NoThread
      /\ pc'[t] = "append" /\ cursor'[t] = 0
      /\ UNCHANGED <<wrote, diagBuf, diagDropped>>
  BY <1>2 DEF LockBuffer, Goto, TypeOK
<1>4. Len(wrote[t]) > 0 /\ \A s \in Workers : pc[s] # "append"
  BY <1>2, <1>3 DEF LockInv, MessageInv, MutexInv, HoldsMutex, InLog
<1>5. /\ diagBuf \in Seq(Bytes) /\ Len(diagBuf) \in Nat /\ Len(diagBuf) <= DIAG_BUF_SIZE
      /\ diagDropped \in BOOLEAN
  BY <1>2, LenProperties DEF TypeOK
<1>6. m \in Seq(Bytes) /\ Len(m) \in Nat
  <2>1. 0 <= Current(t).len
    BY <1>2, <1>4, LenType
  <2> QED
    BY <1>2, <1>4, <2>1, RestType, LenProperties
<1>7. m \in MessageBytes
  BY <1>2, <1>4, CurrentIsMessage DEF IInv
<1>8. Pending = diagBuf /\ Lossy = diagDropped
  BY <1>2, <1>4, AcceptedOtherwise
<1>9. Rest(t, cursor[t])' = m
  BY <1>3 DEF Rest, Current
<1>10. Accepted' = diagBuf \o m
  BY <1>2, <1>3, <1>9, AcceptedNext
<1> HIDE DEF m
<1>11. Len(Accepted') = Len(diagBuf) + Len(m)
  BY <1>5, <1>6, <1>10, ConcatProperties
<1>12. Pending' = Stream!FitsIn(Pending \o m, DIAG_BUF_SIZE)
  BY <1>8, <1>10 DEF Pending, Stream!FitsIn
<1>13. Lossy' = (Lossy \/ Len(Pending) + Len(m) > DIAG_BUF_SIZE)
  BY <1>3, <1>8, <1>11 DEF Lossy
<1>14. \A s \in Threads : ~DirectWrite(s) /\ ~Reset(s)
  BY <1>2, <1>3 DEF DirectWrite, Reset, Goto, LockBuffer, TypeOK
<1>15. Shown' = Shown
  BY <1>1, <1>2, <1>14, ShownStep
<1>16. Stream!Offer(m)
  BY <1>12, <1>13, <1>15 DEF Stream!Offer
<1> QED
  BY <1>7, <1>16 DEF Stream!Next

\* The main thread's message is shown directly.
LEMMA StreamDirect ==
  ASSUME IInv, NEW t \in Threads, DirectWrite(t)
  PROVE  Stream!Next
<1> DEFINE m == Rest(t, 0)
<1>1. LockInv /\ TypeOK
  BY DEF IInv, LockInv
<1>2. /\ pc[t] = "direct" /\ pc'[t] = "idle" /\ console' = console \o m
  BY <1>1 DEF DirectWrite, Goto, TypeOK
<1>3. t = Main /\ Len(wrote[t]) > 0
  BY <1>1, <1>2 DEF LockInv, RolesInv, MessageInv, InLog
<1>4. m \in MessageBytes
  BY <1>1, <1>3, CurrentIsMessage DEF IInv
<1>5. console \in Seq(Item) /\ m \in Seq(Item)
  BY <1>1, <1>3, EventuallyType, EventuallyDirect
<1> HIDE DEF m
<1>6. InHand = <<>> /\ InHand' = <<>>
  BY <1>2, <1>3 DEF InHand
<1>7. console \o m \in Seq(Item)
  BY <1>5, ConcatProperties
<1>8. Shown = console /\ Shown' = console \o m
  BY <1>2, <1>5, <1>6, <1>7, ConcatEmptySeq DEF Shown
<1>9. Pending' = Pending /\ Lossy' = Lossy
  BY <1>1, CopyingStays DEF Pending, Lossy
<1>10. Stream!Direct(m)
  BY <1>8, <1>9 DEF Stream!Direct
<1> QED
  BY <1>4, <1>10 DEF Stream!Next

\* The main thread drains the pipe when it resets the buffer.
LEMMA StreamDrain ==
  ASSUME IInv, NEW t \in Threads, Reset(t)
  PROVE  Stream!Next
<1>1. LockInv /\ TypeOK
  BY DEF IInv, LockInv
<1>2. LockInv' /\ TypeOK'
  <2>1. [Next]_vars
    BY DEF Next, DrainSteps
  <2> QED
    BY <1>1, <2>1, LockStep DEF LockInv
<1>3. /\ pc[t] = "reset" /\ pc'[t] = "drain" /\ \A s \in Threads \ {t} : pc'[s] = pc[s]
      /\ diagBuf' = <<>> /\ diagDropped' = FALSE
      /\ UNCHANGED <<console, drain, drainDropped>>
  BY <1>1 DEF Reset, Goto, drainVars, TypeOK
<1>4. t = Main /\ drain = diagBuf /\ drainDropped = diagDropped
  BY <1>1, <1>3 DEF LockInv, RolesInv, DrainInv, InLog
<1>5. \A s \in Workers : pc[s] # "append" /\ pc'[s] # "append"
  BY <1>1, <1>3, <1>4 DEF LockInv, MutexInv, HoldsMutex, InLog
<1>6. Pending = diagBuf /\ Lossy = diagDropped
  BY <1>1, <1>5, AcceptedOtherwise
<1>7. Pending' = <<>> /\ Lossy' = FALSE
  BY <1>2, <1>3, <1>5, AcceptedNext
<1> DEFINE n == NoteIf(diagDropped)
<1>8. InHand = <<>> /\ InHand' = diagBuf \o n
  BY <1>3, <1>4 DEF InHand, NoteIf
<1>9. console \in Seq(Item) /\ diagBuf \in Seq(Item) /\ n \in Seq(Item)
  BY <1>1, EventuallyType, NoteType
<1>10. n = IF Lossy THEN <<DropNote>> ELSE <<>>
  BY <1>6 DEF NoteIf
<1> HIDE DEF n
<1>11. Shown = console /\ Shown' = console \o (diagBuf \o n)
  BY <1>3, <1>8, <1>9, ConcatEmptySeq DEF Shown
<1>12. Shown' = (Shown \o Pending) \o n
  BY <1>6, <1>9, <1>11, ConcatAssociative
<1>13. Stream!Drain
  BY <1>7, <1>10, <1>12 DEF Stream!Drain
<1> QED
  BY <1>13 DEF Stream!Next

\* Cutting a message only settles what was already cut off when it was offered.
LEMMA StreamTruncate ==
  ASSUME IInv, [Next]_vars, NEW t \in Threads, Truncate(t)
  PROVE  Pending' = Pending /\ Lossy' = Lossy
<1> DEFINE r == Rest(t, cursor[t])
           k == DIAG_BUF_SIZE
<1>1. LockInv /\ TypeOK /\ LockInv' /\ TypeOK'
  BY LockStep DEF IInv, LockInv
<1>2. /\ pc[t] = "append" /\ pc'[t] = "unlock" /\ \A s \in Threads \ {t} : pc'[s] = pc[s]
      /\ cursor[t] \in Nat /\ cursor[t] < Current(t).len /\ Len(diagBuf) >= k
      /\ diagDropped' = TRUE /\ diagBuf' = diagBuf
  BY <1>1 DEF Truncate, Goto, TypeOK
<1>3. diagBuf \in Seq(Bytes) /\ Len(diagBuf) = k /\ k \in Nat
  BY <1>1, <1>2, LenProperties DEF TypeOK
<1>4. r \in Seq(Bytes) /\ Len(r) \in Nat /\ Len(r) > 0
  <2>1. Len(wrote[t]) > 0
    BY <1>1, <1>2 DEF LockInv, MessageInv, InLog
  <2>2. Current(t).len \in Nat
    BY <1>1, <2>1, LenType
  <2> QED
    BY <1>1, <1>2, <2>1, <2>2, RestType
<1>5. \A s \in Workers : pc'[s] # "append"
  BY <1>1, <1>2 DEF LockInv, MutexInv, HoldsMutex, InLog
<1>6. Pending' = diagBuf /\ Lossy' = TRUE
  BY <1>1, <1>2, <1>5, AcceptedNext
<1>7. Accepted = diagBuf \o r
  BY <1>1, <1>2, AcceptedWhileCopying
<1> HIDE DEF r
<1>8. /\ Accepted \in Seq(Bytes) /\ Len(Accepted) = k + Len(r)
      /\ \A i \in 1 .. k + Len(r) : Accepted[i] = IF i <= k THEN diagBuf[i] ELSE r[i - k]
  <2>1. diagBuf \in Seq(Bytes) /\ r \in Seq(Bytes) /\ Len(diagBuf) = k
    BY <1>3, <1>4
  <2>2. /\ diagBuf \o r \in Seq(Bytes) /\ Len(diagBuf \o r) = Len(diagBuf) + Len(r)
        /\ \A i \in 1 .. Len(diagBuf) + Len(r) :
             (diagBuf \o r)[i] = IF i <= Len(diagBuf) THEN diagBuf[i] ELSE r[i - Len(diagBuf)]
    BY <2>1, ConcatProperties
  <2> QED
    BY <1>7, <2>1, <2>2
<1>9. Lossy = TRUE /\ Pending = SubSeq(Accepted, 1, k)
  BY <1>3, <1>4, <1>8 DEF Lossy, Pending
<1>10. \A i \in 1 .. k : Accepted[i] = diagBuf[i] /\ Accepted[i] \in Bytes
  <2> TAKE i \in 1 .. k
  <2>1. i \in 1 .. k + Len(r) /\ i <= k /\ i \in 1 .. Len(diagBuf)
    BY <1>3, <1>4
  <2>2. diagBuf[i] \in Bytes
    BY <1>3, <2>1, ElementOfSeq
  <2> QED
    BY <1>8, <2>1, <2>2
<1> DEFINE p == SubSeq(Accepted, 1, k)
<1>11. /\ p \in Seq(Bytes) /\ Len(p) = k
       /\ \A i \in 1 .. k : p[i] = Accepted[i]
  <2>1. /\ p \in Seq(Bytes) /\ Len(p) = IF 1 <= k THEN k - 1 + 1 ELSE 0
        /\ \A i \in 1 .. k - 1 + 1 : p[i] = Accepted[1 + i - 1]
    BY <1>3, <1>10, SubSeqProperties
  <2> HIDE DEF p
  <2> QED
    BY <1>3, <2>1
<1> HIDE DEF p
<1>12. p = diagBuf
  BY <1>3, <1>10, <1>11, SeqEqual
<1> QED
  BY <1>6, <1>9, <1>12 DEF p

\* Giving the mutex back settles a message that was copied whole.
LEMMA StreamUnlock ==
  ASSUME IInv, [Next]_vars, NEW t \in Threads, UnlockBuffer(t)
  PROVE  Accepted' = Accepted /\ diagDropped' = diagDropped
<1>1. LockInv /\ TypeOK /\ LockInv' /\ TypeOK'
  BY LockStep DEF IInv, LockInv
<1>2. /\ pc[t] = "unlock" \/ (pc[t] = "append" /\ cursor[t] = Current(t).len)
      /\ pc'[t] = "idle" /\ \A s \in Threads \ {t} : pc'[s] = pc[s]
      /\ diagBuf' = diagBuf /\ diagDropped' = diagDropped
  <2>1. /\ pc[t] = "unlock" \/ (pc[t] = "append" /\ cursor[t] = Current(t).len)
        /\ pc' = [pc EXCEPT ![t] = "idle"]
    BY DEF UnlockBuffer, Goto
  <2>2. diagBuf' = diagBuf /\ diagDropped' = diagDropped
    BY DEF UnlockBuffer
  <2>3. pc'[t] = "idle" /\ \A s \in Threads \ {t} : pc'[s] = pc[s]
    BY <1>1, <2>1 DEF TypeOK
  <2> QED
    BY <2>1, <2>2, <2>3
<1>3. \A s \in Workers \ {t} : pc[s] # "append"
  BY <1>1, <1>2 DEF LockInv, MutexInv, HoldsMutex, InLog
<1>4. Accepted' = diagBuf
  BY <1>1, <1>2, <1>3, AcceptedNext
<1>5. CASE pc[t] = "unlock"
  <2>1. \A s \in Workers : pc[s] # "append"
    BY <1>3, <1>5
  <2> QED
    BY <1>1, <1>2, <1>4, <2>1, AcceptedOtherwise
<1>6. CASE pc[t] = "append" /\ cursor[t] = Current(t).len
  <2>1. Len(wrote[t]) > 0 /\ cursor[t] \in Nat
    BY <1>1, <1>6 DEF LockInv, MessageInv, TypeOK, InLog
  <2>2. Rest(t, cursor[t]) \in Seq(Bytes) /\ Len(Rest(t, cursor[t])) = 0
    BY <1>1, <1>6, <2>1, RestType, LenType
  <2>3. Rest(t, cursor[t]) = <<>>
    BY <2>2, EmptySeq
  <2>4. Accepted = diagBuf \o <<>>
    BY <1>1, <1>6, <2>3, AcceptedWhileCopying
  <2>5. diagBuf \in Seq(Bytes)
    BY <1>1 DEF TypeOK
  <2> QED
    BY <1>2, <1>4, <2>4, <2>5, ConcatEmptySeq
<1> QED
  BY <1>2, <1>5, <1>6

\* Every step of the code is a step of the abstract pipe or a stutter.
LEMMA StreamStep ==
  ASSUME IInv, [Next]_vars
  PROVE  [Stream!Next]_(Stream!vars)
<1>1. LockInv /\ LockInv'
  BY LockStep DEF IInv
<1>2. CASE UNCHANGED vars
  <2>1. UNCHANGED <<pc, wrote, cursor, diagMutex, diagBuf, diagDropped, drain, drainDropped, console>>
    BY <1>2 DEF vars, diagVars, drainVars
  <2>2. Accepted' = Accepted
    BY <1>1, <2>1, AcceptedSame
  <2>3. Shown' = Shown
    BY <2>1 DEF Shown, InHand
  <2> QED
    BY <2>1, <2>2, <2>3, StreamStutter
<1>3. ASSUME NEW t \in Threads, LockBuffer(t) PROVE Stream!Next
  BY <1>3, StreamOffer
<1>4. ASSUME NEW t \in Threads, DirectWrite(t) PROVE Stream!Next
  BY <1>4, StreamDirect
<1>5. ASSUME NEW t \in Threads, Reset(t) PROVE Stream!Next
  BY <1>5, StreamDrain
<1>6. ASSUME \A t \in Threads : ~DirectWrite(t) /\ ~Reset(t),
             NEW t \in Threads,
             Write(t) \/ LogSteps(t) \/ ConsoleUpdate(t) \/ Snapshot(t) \/ WriteDrain(t) \/ WriteNote(t)
      PROVE  UNCHANGED Stream!vars
  BY <1>1, <1>6, CopyingStays, ShownStep, StreamStutter
<1>7. ASSUME \A t \in Threads : ~DirectWrite(t) /\ ~Reset(t), NEW t \in Threads, AppendByte(t)
      PROVE  UNCHANGED Stream!vars
  <2>1. diagDropped' = diagDropped
    BY <1>7 DEF AppendByte
  <2> QED
    BY <1>1, <1>7, <2>1, AcceptedAppend, ShownStep, StreamStutter
<1>8. ASSUME \A t \in Threads : ~DirectWrite(t) /\ ~Reset(t), NEW t \in Threads, Truncate(t)
      PROVE  UNCHANGED Stream!vars
  BY <1>1, <1>8, StreamTruncate, ShownStep DEF Stream!vars
<1>9. ASSUME \A t \in Threads : ~DirectWrite(t) /\ ~Reset(t), NEW t \in Threads, UnlockBuffer(t)
      PROVE  UNCHANGED Stream!vars
  BY <1>1, <1>9, StreamUnlock, ShownStep, StreamStutter
<1> QED
  BY <1>2, <1>3, <1>4, <1>5, <1>6, <1>7, <1>8, <1>9 DEF Next, WriteSteps, DrainSteps

\* __wrap__write_r and __wrap_consoleUpdate implement the abstract lossy pipe.
THEOREM ConsoleIsLossyPipe == Spec => ImplementsStream
<1>1. Init => Stream!Init
  <2> SUFFICES ASSUME Init PROVE Stream!Init
    OBVIOUS
  <2>1. TypeOK /\ \A t \in Workers : pc[t] # "append"
    BY InitInv DEF Init, IInv, LockInv
  <2>2. Pending = <<>> /\ Lossy = FALSE
    BY <2>1, AcceptedOtherwise DEF Init
  <2>3. InHand = <<>> /\ console = <<>>
    BY DEF Init, InHand
  <2>4. Shown = <<>>
    BY <2>3, ConcatEmptySeq, EmptySeq DEF Shown
  <2> QED
    BY <2>2, <2>4 DEF Stream!Init
<1>2. IInv /\ [Next]_vars => [Stream!Next]_(Stream!vars)
  BY StreamStep
<1> QED
  BY Invariance, <1>1, <1>2, PTL DEF Spec, ImplementsStream, Stream!Spec
=============================================================================
