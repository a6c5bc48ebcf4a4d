---------------------------- MODULE DiagConsole ----------------------------
(***************************************************************************)
(* Console and log output of source/posix_compat.cpp.  Every write to      *)
(* stdout or stderr goes through __wrap__write_r: it is logged to the SD   *)
(* card (log_write), then shown at once when the main thread wrote it, or  *)
(* put in g_diag_buf for the main thread's next consoleUpdate when a       *)
(* worker did.  A byte is <<thread, message number, position>>.            *)
(***************************************************************************)
EXTENDS Naturals, Sequences, FiniteSets

CONSTANTS
  Main,           \* the thread libnx calls the main thread
  Workers,        \* libzt and lwIP threads
  NoThread,       \* owner of a free mutex
  DropNote,       \* "[diag buffer full - output dropped]"
  DIAG_BUF_SIZE,  \* capacity of g_diag_buf
  MsgLens,        \* lengths of the messages written
  MaxWrites       \* bound: messages written in all

Threads == Workers \cup {Main}

ASSUME ThreadsAssumption == Main \notin Workers /\ NoThread \notin Threads
ASSUME SizeAssumption == DIAG_BUF_SIZE \in Nat
ASSUME LensAssumption == MsgLens \subseteq Nat \ {0}
ASSUME BoundAssumption == MaxWrites \in Nat

VARIABLES
  pc,           \* where each thread is in its call, "idle" outside
  wrote,        \* the messages each thread has handed to write, in order
  cursor,       \* bytes of its message a worker has buffered so far
  logMutex,     \* owner of g_log_mutex
  logOpen,      \* g_log # nullptr
  logFile,      \* messages in zerotier-switch.log, as <<thread, number>>
  refused,      \* messages the SD card did not take, or not to the end
  diagMutex,    \* owner of g_diag_mutex
  diagBuf,      \* g_diag_buf[0 .. g_diag_len)
  diagDropped,  \* g_diag_dropped
  drain,        \* the static drain buffer of consoleUpdate
  drainDropped, \* its local copy of g_diag_dropped
  console       \* everything given to the real _write_r

logVars == <<logMutex, logOpen, logFile, refused>>
diagVars == <<diagMutex, diagBuf, diagDropped>>
drainVars == <<drain, drainDropped>>
vars == <<pc, wrote, cursor, logVars, diagVars, drainVars, console>>

Messages == [len : MsgLens, trace : BOOLEAN]
Bytes == Threads \X Nat \X Nat

OnMainThread(t) == t = Main

Current(t) == wrote[t][Len(wrote[t])]

\* The bytes of t's current message behind the first k.
Rest(t, k) ==
  [i \in 1 .. Current(t).len - k |-> <<t, Len(wrote[t]), k + i>>]

\* The messages written so far, as <<thread, number>>.
Written == UNION {{t} \X DOMAIN wrote[t] : t \in Threads}

Goto(t, from, to) == pc[t] = from /\ pc' = [pc EXCEPT ![t] = to]

Init ==
  /\ pc = [t \in Threads |-> "idle"]
  /\ wrote = [t \in Threads |-> <<>>]
  /\ cursor = [t \in Threads |-> 0]
  /\ logMutex = NoThread
  /\ logOpen = FALSE
  /\ logFile = <<>>
  /\ refused = {}
  /\ diagMutex = NoThread
  /\ diagBuf = <<>>
  /\ diagDropped = FALSE
  /\ drain = <<>>
  /\ drainDropped = FALSE
  /\ console = <<>>

-----------------------------------------------------------------------------
(* __wrap__write_r: a thread writes a message, possibly a [SWITCH-DIAG]    *)
(* trace line.                                                             *)
Write(t) ==
  /\ Goto(t, "idle", "log")
  /\ Cardinality(Written) < MaxWrites
  /\ \E m \in Messages : wrote' = [wrote EXCEPT ![t] = Append(@, m)]
  /\ UNCHANGED <<cursor, logVars, diagVars, drainVars, console>>

\* Mutant of LockLog: mutexLock forgotten, two first calls may both open.
BugNoLogLock(t) ==
  /\ Goto(t, "log", IF logOpen THEN "writeLog" ELSE "openLog")
  /\ logMutex' = t
  /\ UNCHANGED <<wrote, cursor, logOpen, logFile, refused, diagVars, drainVars, console>>

\* log_write: if (!g_log), under g_log_mutex.
LockLog(t) ==
  /\ Goto(t, "log", IF logOpen THEN "writeLog" ELSE "openLog")
  /\ logMutex = NoThread
  /\ logMutex' = t
  /\ UNCHANGED <<wrote, cursor, logOpen, logFile, refused, diagVars, drainVars, console>>

Unlogged(t) == <<t, Len(wrote[t])>>

\* mutexUnlock(&g_log_mutex), and the call returns.
LeaveLog(t, from) ==
  /\ Goto(t, from, IF OnMainThread(t) THEN "direct"
                   ELSE IF Current(t).trace THEN "idle" ELSE "lock")
  /\ logMutex' = NoThread

\* fopen with "w" empties the file.  A call that cannot open it logs nothing and
\* leaves it to the next one.
OpenLog(t) ==
  /\ \/ /\ Goto(t, "openLog", "writeLog")
        /\ logOpen' = TRUE
        /\ logFile' = <<>>
        /\ UNCHANGED <<logMutex, refused>>
     \/ /\ LeaveLog(t, "openLog")
        /\ refused' = refused \cup {Unlogged(t)}
        /\ UNCHANGED <<logOpen, logFile>>
  /\ UNCHANGED <<wrote, cursor, diagVars, drainVars, console>>

\* fwrite and fflush; that the card may take the message in part, or not at all,
\* is ignored.
WriteLog(t) ==
  /\ LeaveLog(t, "writeLog")
  /\ \/ logFile' = Append(logFile, Unlogged(t)) /\ UNCHANGED refused
     \/ refused' = refused \cup {Unlogged(t)} /\ UNCHANGED logFile
  /\ UNCHANGED <<wrote, cursor, logOpen, diagVars, drainVars, console>>

\* The main thread writes straight to the console.
DirectWrite(t) ==
  /\ Goto(t, "direct", "idle")
  /\ console' = console \o Rest(t, 0)
  /\ UNCHANGED <<wrote, cursor, logVars, diagVars, drainVars>>

\* Mutant of LockBuffer: mutexLock forgotten.
BugNoLock(t) ==
  /\ Goto(t, "lock", "append")
  /\ diagMutex' = t
  /\ cursor' = [cursor EXCEPT ![t] = 0]
  /\ UNCHANGED <<wrote, logVars, diagBuf, diagDropped, drainVars, console>>

LockBuffer(t) ==
  /\ Goto(t, "lock", "append")
  /\ diagMutex = NoThread
  /\ diagMutex' = t
  /\ cursor' = [cursor EXCEPT ![t] = 0]
  /\ UNCHANGED <<wrote, logVars, diagBuf, diagDropped, drainVars, console>>

\* Mutant of AppendByte: the bound is off by one.
BugOverrun(t) ==
  /\ pc[t] = "append"
  /\ cursor[t] < Current(t).len
  /\ Len(diagBuf) <= DIAG_BUF_SIZE
  /\ diagBuf' = Append(diagBuf, Head(Rest(t, cursor[t])))
  /\ cursor' = [cursor EXCEPT ![t] = @ + 1]
  /\ UNCHANGED <<pc, wrote, logVars, diagMutex, diagDropped, drainVars, console>>

AppendByte(t) ==
  /\ pc[t] = "append"
  /\ cursor[t] < Current(t).len
  /\ Len(diagBuf) < DIAG_BUF_SIZE
  /\ diagBuf' = Append(diagBuf, Head(Rest(t, cursor[t])))
  /\ cursor' = [cursor EXCEPT ![t] = @ + 1]
  /\ UNCHANGED <<pc, wrote, logVars, diagMutex, diagDropped, drainVars, console>>

Truncate(t) ==
  /\ Goto(t, "append", "unlock")
  /\ cursor[t] < Current(t).len
  /\ Len(diagBuf) >= DIAG_BUF_SIZE
  /\ diagDropped' = TRUE
  /\ UNCHANGED <<wrote, cursor, logVars, diagMutex, diagBuf, drainVars, console>>

\* Mutant of UnlockBuffer: the early break leaves the mutex locked.
BugBreakKeepsLock(t) ==
  /\ \/ Goto(t, "unlock", "idle") /\ UNCHANGED diagMutex
     \/ /\ Goto(t, "append", "idle") /\ cursor[t] = Current(t).len
        /\ diagMutex' = NoThread
  /\ UNCHANGED <<wrote, cursor, logVars, diagBuf, diagDropped, drainVars, console>>

UnlockBuffer(t) ==
  /\ \/ Goto(t, "unlock", "idle")
     \/ Goto(t, "append", "idle") /\ cursor[t] = Current(t).len
  /\ diagMutex' = NoThread
  /\ UNCHANGED <<wrote, cursor, logVars, diagBuf, diagDropped, drainVars, console>>

-----------------------------------------------------------------------------
(* __wrap_consoleUpdate: a no-op off the main thread.                      *)
ConsoleUpdate(t) ==
  /\ OnMainThread(t)
  /\ Goto(t, "idle", "snap")
  /\ diagMutex = NoThread
  /\ diagMutex' = t
  /\ UNCHANGED <<wrote, cursor, logVars, diagBuf, diagDropped, drainVars, console>>

\* Mutant of Snapshot: the mutex is released before the buffer is reset.
BugEarlyUnlock(t) ==
  /\ Goto(t, "snap", "reset")
  /\ drain' = diagBuf
  /\ drainDropped' = diagDropped
  /\ diagMutex' = NoThread
  /\ UNCHANGED <<wrote, cursor, logVars, diagBuf, diagDropped, console>>

Snapshot(t) ==
  /\ Goto(t, "snap", "reset")
  /\ drain' = diagBuf
  /\ drainDropped' = diagDropped
  /\ UNCHANGED <<wrote, cursor, logVars, diagVars, console>>

\* Mutants of Reset: one of the two resets is forgotten.
BugStaleLength(t) ==
  /\ Goto(t, "reset", "drain")
  /\ diagDropped' = FALSE
  /\ diagMutex' = NoThread
  /\ UNCHANGED <<wrote, cursor, logVars, diagBuf, drainVars, console>>

BugStaleFlag(t) ==
  /\ Goto(t, "reset", "drain")
  /\ diagBuf' = <<>>
  /\ diagMutex' = NoThread
  /\ UNCHANGED <<wrote, cursor, logVars, diagDropped, drainVars, console>>

Reset(t) ==
  /\ Goto(t, "reset", "drain")
  /\ diagBuf' = <<>>
  /\ diagDropped' = FALSE
  /\ diagMutex' = NoThread
  /\ UNCHANGED <<wrote, cursor, logVars, drainVars, console>>

WriteDrain(t) ==
  /\ Goto(t, "drain", IF drainDropped THEN "note" ELSE "idle")
  /\ console' = console \o drain
  /\ UNCHANGED <<wrote, cursor, logVars, diagVars, drainVars>>

WriteNote(t) ==
  /\ Goto(t, "note", "idle")
  /\ console' = Append(console, DropNote)
  /\ UNCHANGED <<wrote, cursor, logVars, diagVars, drainVars>>

-----------------------------------------------------------------------------
LogSteps(t) == LockLog(t) \/ OpenLog(t) \/ WriteLog(t)

WriteSteps(t) ==
  \/ LogSteps(t) \/ DirectWrite(t)
  \/ LockBuffer(t) \/ AppendByte(t) \/ Truncate(t) \/ UnlockBuffer(t)

DrainSteps(t) ==
  ConsoleUpdate(t) \/ Snapshot(t) \/ Reset(t) \/ WriteDrain(t) \/ WriteNote(t)

Next == \E t \in Threads : Write(t) \/ WriteSteps(t) \/ DrainSteps(t)

Spec == Init /\ [][Next]_vars

\* A thread inside a call keeps running.  The main loop calls consoleUpdate
\* again and again, and the kernel hands a contended libnx mutex to a waiting
\* thread, so no one waits for g_diag_mutex or g_log_mutex for ever.
Fairness ==
  \A t \in Threads :
    /\ WF_vars(OpenLog(t) \/ WriteLog(t) \/ DirectWrite(t))
    /\ WF_vars(AppendByte(t) \/ Truncate(t) \/ UnlockBuffer(t))
    /\ SF_vars(LockLog(t))
    /\ SF_vars(LockBuffer(t))
    /\ SF_vars(ConsoleUpdate(t))
    /\ WF_vars(Snapshot(t) \/ Reset(t) \/ WriteDrain(t) \/ WriteNote(t))

FairSpec == Spec /\ Fairness

-----------------------------------------------------------------------------
\* The types of the variables; g_diag_len never passes DIAG_BUF_SIZE.
TypeOK ==
  /\ pc \in [Threads -> {"idle", "log", "openLog", "writeLog", "direct", "lock",
                         "append", "unlock", "snap", "reset", "drain", "note"}]
  /\ wrote \in [Threads -> Seq(Messages)]
  /\ cursor \in [Threads -> Nat]
  /\ logMutex \in Threads \cup {NoThread}
  /\ logOpen \in BOOLEAN
  /\ logFile \in Seq(Threads \X Nat)
  /\ refused \subseteq Threads \X Nat
  /\ diagMutex \in Threads \cup {NoThread}
  /\ diagBuf \in Seq(Bytes) /\ Len(diagBuf) <= DIAG_BUF_SIZE
  /\ diagDropped \in BOOLEAN
  /\ drain \in Seq(Bytes)
  /\ drainDropped \in BOOLEAN
  /\ console \in Seq(Bytes \cup {DropNote})

\* Output is declared dropped only when the buffer was full: g_diag_dropped and
\* g_diag_len are snapshot and reset together, so a stale flag can never
\* announce a loss that the drained output did not have.
DropOnlyWhenFull ==
  /\ diagDropped => Len(diagBuf) = DIAG_BUF_SIZE
  /\ drainDropped => Len(drain) = DIAG_BUF_SIZE

\* What the screen will have shown: when the drain under way is over (Shown),
\* and once everything buffered is drained (Eventually).
NoteIf(b) == IF b THEN <<DropNote>> ELSE <<>>
InHand == CASE pc[Main] = "drain" -> drain \o NoteIf(drainDropped)
            [] pc[Main] = "note"  -> <<DropNote>>
            [] OTHER              -> <<>>
Shown == console \o InHand
Eventually == Shown \o diagBuf \o NoteIf(diagDropped)

ByteOf(b, t) == b # DropNote /\ b[1] = t
Before(b, c) == b[2] < c[2] \/ (b[2] = c[2] /\ b[3] < c[3])

\* Each thread's output reaches the screen in the order it was written, no
\* byte twice, however writes and drains interleave.
InOrderOnce ==
  \A t \in Threads : \A j \in 1 .. Len(Eventually) : \A i \in 1 .. j - 1 :
    ByteOf(Eventually[i], t) /\ ByteOf(Eventually[j], t) =>
      Before(Eventually[i], Eventually[j])

\* A byte that is on its way to the screen, and one whose place DropNote takes:
\* behind everything its thread wrote before it, ahead of everything after it.
Sent(b) == \E i \in 1 .. Len(Eventually) : Eventually[i] = b
LossNoted(t, b) ==
  \E k \in 1 .. Len(Eventually) :
    /\ Eventually[k] = DropNote
    /\ \A i \in 1 .. Len(Eventually) : ByteOf(Eventually[i], t) =>
         IF i < k THEN Before(Eventually[i], b) ELSE Before(b, Eventually[i])

\* No silent loss: a finished byte of a worker is on its way to the screen, or
\* DropNote stands exactly where it is missing.
LossIsAnnounced ==
  \A t \in Workers : \A m \in 1 .. Len(wrote[t]) : \A p \in 1 .. wrote[t][m].len :
    ~wrote[t][m].trace /\ (m < Len(wrote[t]) \/ pc[t] = "idle") =>
      Sent(<<t, m, p>>) \/ LossNoted(t, <<t, m, p>>)

\* t is inside log_write, and how many of its calls have returned.
InLog(t) == pc[t] \in {"log", "openLog", "writeLog"}
Logged(t) == IF InLog(t) THEN Len(wrote[t]) - 1 ELSE Len(wrote[t])

\* Only the card loses log output: each message whose log_write has returned is
\* in the file, dropped and trace ones included, or was refused when it was
\* written.  The file has each thread's messages in order and none twice,
\* however the first calls of log_write and its opening of the file interleave.
LogIsComplete ==
  \A t \in Threads :
    /\ \A n \in 1 .. Logged(t) :
         <<t, n>> \in refused \/ \E i \in 1 .. Len(logFile) : logFile[i] = <<t, n>>
    /\ \A j \in 1 .. Len(logFile) : logFile[j][1] = t =>
         /\ logFile[j][2] <= Logged(t)
         /\ \A i \in 1 .. j - 1 : logFile[i][1] = t => logFile[i][2] < logFile[j][2]

\* A byte in g_diag_buf reaches the screen as long as the main thread goes on
\* calling consoleUpdate: no order of writers and drains starves it.
BufferedIsShown ==
  \A t \in Workers, m \in 1 .. MaxWrites, p \in UNION {1 .. l : l \in MsgLens} :
    (\E i \in 1 .. Len(diagBuf) : diagBuf[i] = <<t, m, p>>)
      ~> (\E i \in 1 .. Len(console) : console[i] = <<t, m, p>>)

-----------------------------------------------------------------------------
(* The inductive invariant behind the proofs.                              *)

\* Only its holder is between mutexLock and mutexUnlock of g_diag_mutex.
HoldsMutex(t) == pc[t] \in {"append", "unlock", "snap", "reset"}
MutexInv == \A t \in Threads : HoldsMutex(t) <=> diagMutex = t

\* Workers never drain and the main thread never buffers.
RolesInv ==
  /\ \A t \in Workers :
       InLog(t) \/ pc[t] \in {"idle", "lock", "append", "unlock"}
  /\ InLog(Main) \/ pc[Main] \in {"idle", "direct", "snap", "reset", "drain", "note"}

\* A thread inside __wrap__write_r has a message, and has buffered at most it.
MessageInv ==
  \A t \in Threads :
    /\ InLog(t) \/ pc[t] \in {"direct", "lock", "append", "unlock"} => Len(wrote[t]) > 0
    /\ pc[t] = "append" => cursor[t] <= Current(t).len

\* Nothing gets into the buffer between the snapshot and the reset, and only a
\* full buffer is abandoned half way through a message.
DrainInv == pc[Main] = "reset" => drain = diagBuf /\ drainDropped = diagDropped
CutInv ==
  \A t \in Workers :
    pc[t] = "unlock" => diagDropped /\ Len(diagBuf) = DIAG_BUF_SIZE

\* The file is opened once, under g_log_mutex, and is empty before.
LogMutexInv ==
  \A t \in Threads :
    /\ pc[t] \in {"openLog", "writeLog"} <=> logMutex = t
    /\ pc[t] = "openLog" => ~logOpen
    /\ pc[t] = "writeLog" => logOpen
LogOpenInv == ~logOpen => logFile = <<>>

\* The first byte t has neither put on its way to the screen nor given up.
NextByte(t) ==
  CASE InLog(t) \/ pc[t] \in {"direct", "lock"} -> <<t, Len(wrote[t]), 1>>
    [] pc[t] = "append" -> <<t, Len(wrote[t]), cursor[t] + 1>>
    [] OTHER -> <<t, Len(wrote[t]) + 1, 1>>

\* The bytes that pass through g_diag_buf are the workers', and what is on its
\* way to the screen is behind what its thread has still to send.
WorkersOnlyInv == \A i \in 1 .. Len(diagBuf) : diagBuf[i][1] \in Workers
SentInv ==
  \A t \in Threads : \A i \in 1 .. Len(Eventually) :
    ByteOf(Eventually[i], t) => Before(Eventually[i], NextByte(t))

\* LossIsAnnounced byte by byte: it holds in the middle of a message, too.
NotedInv ==
  \A t \in Workers : \A m \in 1 .. Len(wrote[t]) : \A p \in 1 .. wrote[t][m].len :
    ~wrote[t][m].trace /\ Before(<<t, m, p>>, NextByte(t)) =>
      Sent(<<t, m, p>>) \/ LossNoted(t, <<t, m, p>>)

\* The number of messages written is bounded by MaxWrites.
BoundInv == IsFiniteSet(Written) /\ Cardinality(Written) <= MaxWrites

LockInv ==
  TypeOK /\ MutexInv /\ RolesInv /\ MessageInv /\ DrainInv /\ CutInv /\ DropOnlyWhenFull
OutputInv == WorkersOnlyInv /\ SentInv /\ InOrderOnce /\ NotedInv
LogInv == LogMutexInv /\ LogOpenInv /\ LogIsComplete

IInv == LockInv /\ OutputInv /\ LogInv /\ BoundInv

-----------------------------------------------------------------------------
(* Refinement: a worker's message is offered when it takes g_diag_mutex    *)
(* and drained when the main thread resets the buffer.                     *)
Writer == {t \in Workers : diagMutex = t /\ pc[t] = "append"}
ToCome == IF Writer = {} THEN <<>>
          ELSE LET t == CHOOSE t \in Writer : TRUE IN Rest(t, cursor[t])
Accepted == diagBuf \o ToCome
Pending == SubSeq(Accepted, 1, IF Len(Accepted) < DIAG_BUF_SIZE
                               THEN Len(Accepted) ELSE DIAG_BUF_SIZE)
Lossy == diagDropped \/ Len(Accepted) > DIAG_BUF_SIZE

\* The messages the threads can write, as sequences of bytes.
MessageBytes ==
  {[i \in 1 .. l |-> <<t, m, i>>] :
     t \in Threads, m \in 1 .. MaxWrites, l \in MsgLens}

Stream == INSTANCE DiagStream WITH
  Capacity <- DIAG_BUF_SIZE,
  Messages <- MessageBytes,
  pending  <- Pending,
  lossy    <- Lossy,
  shown    <- Shown

\* __wrap__write_r and __wrap_consoleUpdate, with their mutex and their byte by
\* byte copy, behave like the abstract lossy pipe: a message is cut at one place
\* only, and the note follows exactly the output that fitted.
ImplementsStream == Stream!Spec
=============================================================================
