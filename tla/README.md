# Verification of switch-ldn-zt

TLA+ models, TLC runs and TLAPS proofs about this repository: a ZeroTier node
for the Nintendo Switch (`source/`), its desktop counterpart (`pc-diag/`), a
system module (`zt_sysmodule/`) and the scripts that port libzt (`scripts/`).
Most of what can go wrong here is concurrent: libzt runs a service thread, an
event thread and lwIP threads that nobody joins, next to a main thread that owns
the console, the sockets and the exit.

## Inventory

| Part | State | Operations | Talks to | Hard parts | What makes it correct |
|---|---|---|---|---|---|
| Diagnostic console and log, `posix_compat.cpp` 23-104 | `g_diag_buf`, `g_diag_len`, `g_diag_dropped`, `g_diag_mutex`; `g_log`, `g_log_mutex` | `__wrap__write_r`, `__wrap_consoleUpdate`, `log_write` | every thread that prints; the main loop drains | interleaving of appends and drains, a full buffer, an SD card that takes nothing | no byte lost silently, doubled or reordered; only the SD card loses what is logged |
| Switch application, `main.cpp` 365-581 | sockets, console, `g_ping_sock`, `g_node_down`, `joined`, `g_exiting` | boot with four early returns, main loop, exit | libzt service, `print_event` on the event thread, the exception handler | order of teardown, missed event, faults of any thread | sockets outlive the node; every exit path ends and cleans up |
| libzt node service (external) | running, online, terminate flag | start, stop, NODE_* events | both applications | stop is asynchronous | - |
| PC diagnostic node, `pc-diag/main.cpp` | `g_shutdown_requested`, `g_node_down`, socket | start, wait online, join, wait for address, ping loop, stop | libzt, SIGINT | signal at any time | Ctrl+C ends it, after the node |
| Monotonic clock, `patch-lwip-switch-thread.py` 292-358 | two static baselines | `now()` | all ZeroTier threads, time sync | unsynchronised first call, unsigned difference | never backwards, blind to time syncs |
| Network shim, `posix_compat.cpp` 183-519 | counters, `errno`, pipe sockets | `socket`, `bind`, `sendto`, `recvfrom`, `select`, `pipe`... | libzt, the heartbeat | torn snapshots, partial failure, errno | descriptors balanced, counters exact |
| Fault handling, `posix_compat.cpp` 142-169, 521-559 | `g_exiting`, `g_log_mutex`, one exception stack | exception handler, `abort`/`exit` wraps | all threads | self-deadlock in `log_write` | teardown faults end the process |
| Peer table and heartbeat, `main.cpp` 88-106, 512-546 | `g_peer_ids`, `g_peer_count` | `remember_peer`, heartbeat | event thread writes, main reads | no lock | no entry read before it is written |
| Ping exchange, `main.cpp` 66-84, `pc-diag` 232-257 | sequence number, last ping | PING, PONG | each other through the tunnel | loss, reordering | a PONG answers a PING |
| Flood test, `main.cpp` 296-363 | idle and total time | receive loop | LAN | early returns of select | ends after the stream has stopped |
| Sysmodule, `zt_sysmodule/source/main.cpp` | `g_zt_init_*`, heap, genmem | poll for the enable file, init thread, heap | SD card, libzt | once-only start, double-checked locking | initialised once, never by two threads |
| lwIP threads, `patch-lwip-switch-thread.py`, `patch-libzt-switch-bootstrap.py` | 32-slot registry, semaphores | `introduce_thread`, startup | lwIP | parent and child register at once, slots never freed, NULL thread | a handle is its thread's; startup waits in vain only for a thread that does not exist, or when a later start has taken the one callback |
| Root keepalive, `patch-zt-upstream-keepalive.py` | three constants | text edits | libzt's timers | lost probes against the timeout | the constants belong together |
| Patch scripts, `scripts/*.py` | only the source texts | anchored text edits | each other, through shared files; the build | missing anchor half-way, kill, also inside a write, second run, any order | success means patched; may be repeated |
| LDN bridge, `zt_bridge.cpp` | `gStarted` | init | LDN | partial failure | retried |
| Build and CI | - | one `sed` step over the LDN sources | patch scripts | - | does not spoil the anchors |

`PROJECT.json` lists every part with its status and every hazard with its line
and the properties that cover it, or why none does.

## Modules

* `DiagStream` - what the console promises: a bounded, lossy pipe. `Offer`
  takes a message and cuts off what does not fit, `Drain` shows what was taken
  and announces a loss, `Direct` is the main thread's own output.
* `DiagConsole` - `__wrap__write_r`, `__wrap_consoleUpdate` and `log_write`, one
  action per step another thread can see: lock, one byte, break, unlock;
  snapshot, reset, the two writes of the drain; in `log_write` lock, open (which
  empties the file, or fails), write. The SD card may take a message or not
  (`refused`); one it takes in part counts as refused. A byte is `<<thread, message,
  position>>`, so that order and loss are visible and no text is. It implements
  `DiagStream` (`ImplementsStream`): a message is offered when its writer takes
  the mutex, and drained when the main thread resets the buffer.
* `DiagConsoleProofs`, `MonotonicClockProofs`, `HeartbeatProofs`, `SysmoduleInitProofs`,
  `SocketPipeProofs`, `LwipThreadsProofs`, `PatchScriptsProofs` - proofs about the module
  each is named after; `LifecycleProofs` - proofs about `SwitchApp` and `PcDiag`.
* `MCDiagConsole` - symmetry of the workers for TLC.
* `ZtNode` - libzt's service as both applications see it. External: libzt is a
  submodule and not part of the repository; the module says what `src/` relies
  on (zts_node_stop is only a flag, NODE_DOWN comes from Node's destructor) and
  lets everything else happen: the service dies by itself while it is not
  online, the event is late or lost.
* `NodeWait` - what both `main()`s share: the bounded wait for `g_node_down` before they
  return, and what it is for (`ReturnAfterNode`).
* `SwitchApp` - `main()` of the .nro with `print_event`, `ping_responder_init`
  and the fault handlers. `pc` names the line main is at; `held` is what it has
  open; each `zts_*` call that reads the service is a step of its own, since the
  service goes on meanwhile. `hasId` and `floodTest` are the files on the SD card.
  A fault takes the exception handler's way (`FaultIsLogged`, then `FaultEnds`);
  one that hits inside `log_write` waits for its own mutex for ever, and so does
  everyone who prints after it (`FaultHangs`, `logStuck`). A fault with
  `g_diag_mutex` held stops main at its next drain in the same way and is the same
  case. `probe_udp_flood` is there with its inner loop, which empty datagrams keep
  turning (`queue`), a socket that fcntl may have left blocking (`nonblock`) and its
  count of idle rounds of select (`idle`, `MaxIdle`). `joinRc` is what the one call
  of `zts_net_join` returned, an error also from a running service; `pingSock` is
  `g_ping_sock`, `answering` that it was bound. `DestroyNode` of `ZtNode` ends the
  service thread and queues its event in one step, so the 100 ms that main sleeps
  after the wait (`main.cpp` 577) have nothing to do in the model.
* `PcDiag` - `main()` of the desktop node with `on_sigint` and `on_event`.
* `MonotonicClock` - `OSUtils::now()` as the script writes it, one action per
  load or store of the shared baselines, the second store possibly visible
  before the first. Ticks are unsigned (`Modulus`). First calls may overlap in any
  way; `Captured` says that the baselines are there and nobody is left who found them
  missing, and `counts` marks the calls that begin then.
* `Heartbeat` - the peer table that `remember_peer` fills on the event thread, and
  the heartbeat of the main loop that reads it without a lock: the three stores
  of an append reach main in any order (`StoreVisible`), and main reads the id of an
  entry twice (`QueryPath`, `PrintPath`). The address is asked for twice as well
  (`CheckAddress`, `GetAddress`) while it comes and goes.
* `SysmoduleInit` - the sysmodule: `TryStartZtInit` every two seconds, the init
  thread, and `sysb::GetHeapHandle` with its double-checked flag, one action per
  load, store and lock of it. `seen`, `entries`, `made` and `nullUsed` record
  what happened for the properties.
* `PipePairs` - what `pipe()` promises, as one step: `Get` hands out two fresh
  sockets connected to each other, a call that fails does nothing at all, and `End`
  gives the pair up.
* `SocketPipe` - `pipe()`, one action per socket call, each of which may fail,
  over a table of descriptors and ports that other threads use too. It implements
  `PipePairs` (`ImplementsPairs`): a pipe exists from the last `connect` until its
  caller begins to close it.
* `LwipThreads` - `introduce_thread`, `sys_thread_new` and the startup of the driver
  and tcpip threads as two scripts rewrite them: a child runs, and registers a child
  of its own, before its parent has registered it; creating a thread may fail; slots
  are handed out by an atomic counter and never returned. The callback with which the
  tcpip thread reports back has one argument for all starts (`initArg`), and a second
  `tcpip_init` writes over it.
* `PatchText` - what one edit, and one section of a script (read, edit, write), does
  to a file. A file is the bag of the passages the scripts look for or write, so that
  a second copy of a passage is visible. An edit has what it needs, takes and puts
  in, and the tests the script makes around it.
* `LibztPatches`, `LdnPatches` - the scripts, edit by edit: `Upstream` and
  `LdnUpstream` are the passages the checkouts hold, as the scripts quote them.
  Where `patch-ldn-zt.py` quotes more text than `anchor_check_defender.py`, there is a
  passage for the part and one for the whole.
* `PatchScripts` - the scripts run over one checkout in any order, several times,
  killed between two files (`Kill`) or inside a write (`CutWrite`), or stopped by a
  passage that reads differently upstream (`lost`). `write_text` empties a file before
  it writes, so a write cut short leaves nothing of it, half of a longer passage
  (`Within`), or all that a script looks for (`Rests`). A script knows what was run
  before only from the text.

The definitions under a comment "Mutant of", most of them named `Bug...`, are one
plausible slip each, next to the
action it spoils, and used by no specification. `PROJECT.json` says which
property each of them breaks; they show that the property depends on the code.

## Runs

| Run | Instance | Shows |
|---|---|---|
| `diag_console` | 2 workers and main, 3 messages of 1 or 2 bytes, buffer of 2 | all safety properties and the refinement |
| `diag_console_live` | the same with 2 messages of 2 bytes | every buffered byte is shown |
| `switch_app` | the code's 60 polls and 12 idle rounds | teardown order, release on every return, ping socket, no parking in teardown; the flood test ends once the datagrams do, and the exit does, unless a fault holds the log; a node that stays online is joined, or its one join failed, and answers |
| `pc_diag` | 60 polls | main returns after the node or the whole wait; Ctrl+C in the loop works |
| `pc_diag_ctrl_c` | the same | **violated**: Ctrl+C before the node has an address does nothing |
| `clock` | 2 threads, 6 ticks of half a millisecond, time syncs of up to 2 ms | never backwards, blind to time syncs, once the capture is over, racing first calls included |
| `clock_race` | the same | **violated**: the baseline is captured twice |
| `heartbeat` | 3 peers of 2 roles, a table of 2, one address | only the entry being added is torn; every peer with a slot is reported; a lasting address is shown |
| `sysmodule` | 2 allocations by zts_init_from_storage | initialised once, only when enabled, no race for the heap |
| `socket_pipe` | 2 callers, 4 descriptors, 4 ports | no socket leaks; the ends of a pipe meet, and only they; the refinement |
| `patch_scripts` | 8 groups of up to 3 scripts that share files, one passage lost or one write cut short, 4 starts | what success of all scripts means, passage for passage; which lost passages and emptied files go unreported; what may be run again; the traces compile; libraries linked once; what the anchor check is worth |
| `lwip_threads` | 3 starts, 4 slots | a handle is its thread's; why NULL; the driver gets past its wait unless its tcpip thread does not exist or a later start has taken its callback |

Bounds. Three messages let one worker be cut off, drained and write again, or two
workers and the main thread compete; a buffer of two bytes is full after one message,
overflows in the middle of the second, and holds a whole one after a drain. `SwitchApp`
and `PcDiag` need no bound: 60 polls and 12 idle rounds are the code's own. In
`MonotonicClock` `MaxTick` and `MaxSkew` stop the clocks; six ticks span both first and
later calls of both threads, and `Modulus` is far above them, so a wrapped difference is
larger than any true one. In `Heartbeat` a third peer meets a full table, and a table of
two has an old entry and a new one; more addresses only rename the one that is lost and
comes back. `SocketPipe` has room for two whole pipes, or for one and a half with a
stranger in between, so that every call also fails for want of a descriptor or a port.
In `LwipThreads` three starts need six slots and there are four, so the table fills up
between a parent and its child; the code's 32 slots fill up after 16 starts in the same
way. In `PatchScripts` a workspace is a group of scripts that meet in some file; scripts
that share none cannot disturb each other. Two of the groups are there for what is
missing from them: the stub step with its anchor check but without `patch-ldn-zt.py`,
which is what `build-ldn.yml` runs, and libzt and lwip without bootstrap. `MaxStarts` is
4: three scripts and one of them again, or one script killed, another one, and both
repeated. `MaxMishaps` is 1: one passage lost upstream or one write cut short. A write
is cut short only while a script can still be started, as nothing could notice it
otherwise.

CHECK_DEADLOCK is off where the program ends (`SwitchApp`, `PcDiag`) or where
the bound on messages, ticks or starts stops the model (`LwipThreads`,
`PatchScripts` as well).

### Fairness

* `DiagConsole`: a thread inside a call goes on; the main loop keeps calling
  consoleUpdate (`main.cpp` 483-549); a contended libnx mutex is handed to a
  waiter, hence strong fairness for the two lock steps.
* `SwitchApp`: main runs where it needs no input. That opening the ping socket and
  binding it succeed in some round, if tried again and again, is an assumption and no
  promise of lwIP; `RespondsWhenOnline` shows that main gets to try again after every
  failure. Nothing is assumed of the service, the event thread or the network, so
  `ExitEnds` holds with all of them dead; only a fault that holds the log's mutex is
  excepted. `recvfrom` returns when there is a datagram, or when there is none and it
  need not wait: main may receive empty datagrams for as long as they come, and
  `FloodEnds` speaks of a sender that stops.
* `LwipThreads`: every thread that runs goes on. Nobody has to start the stack, and
  creating a thread may fail for ever.
* `Heartbeat`: the main loop goes on, and a store becomes visible some time.
  Nothing is assumed of events or of the address.
* `SysmoduleInit`: both threads are scheduled; nobody has to write the enable file.
* `PcDiag`: main runs, the service keeps trying to come online, and an authorized
  node gets its address. Whether the node is authorized is left open.

## Findings

1. `pc-diag/README.md:93`, "Ctrl+C exits cleanly". The waits at
   `pc-diag/main.cpp:177` and `:185` never look at `g_shutdown_requested`: a node
   that is not authorized in ZeroTier Central cannot be ended with Ctrl+C.
2. `patch-lwip-switch-thread.py:307`, "capture a wall-clock baseline once". Two
   threads whose first calls overlap both capture it, and what a call returns while
   that goes on may be wrong. The run `clock` shows that the clock is right for every
   call that begins after the last capture, whichever baselines it left.

Met in reading, and checked by no run: `pc-diag/README.md:93-94` has NODE_DOWN
awaited "before tearing down sockets", while the tunnel socket is closed at line
272, before `zts_node_stop`; `zt_sysmodule/source/main.cpp:7` promises "a 128 KiB
libnx thread" for zts_init_from_storage, which line 83 calls on the main thread when
`threadCreate` fails. It is not called at all when `threadStart` fails, whose result is
ignored: `EnableIsHeeded` has that exception.

What the models show of the code besides, each an exception in a property:

* A fault inside `log_write` hangs that thread and then everyone who prints, the exit
  path included (`ExitEnds`, `NoParkingInTeardown`).
* The return for a missing network ID (`main.cpp:423-429`) does not call
  `socketExit`; all others do (`SocketsReleased`).
* A banner of the heartbeat may show "none" as the address, if it is lost between the
  two calls (`AddressIsShown` says that this heals), and the first `[PATH]` line of a
  new peer may show id 0 or the leaf role.
* The double-checked heap of the sysmodule is safe only because opening the enable
  file allocates on the main thread before another one exists (`HeapBeforeThreads`).
* The flood test counts idle time in rounds of select, 250 ms each, however early
  select returns: "3 s after the stream stops" is twelve rounds. Empty datagrams keep
  the inner loop turning as long as they come, though they count as no data, and a
  socket that fcntl left blocking holds the test for ever (`FloodEnds`).
* `zts_net_join` is called once; when a running service refuses it, the node is never
  joined (`JoinsWhenOnline`).
* A message that the SD card does not take is missing from the log, and later ones
  follow (`LogIsComplete`).
* A tcpip thread that cannot be created leaves the driver thread waiting for ever,
  since `sys_thread_new` no longer aborts (`WaitIsAnswered`). A full table does not: the
  thread runs without a handle (`NullIsExplained`). Two starts that overlap share the
  callback: the later one may get both signals and the earlier one none.
* `Unnoticed` lists the passages whose change upstream no script reports, among them
  two of the three keepalive constants; `Unverified` those that `patch-ldn-zt.py` needs and
  `anchor_check_defender.py` does not look for, among them the longer statements of
  which the check quotes a part (`anchor_check_defender.py:15`, `patch-ldn-zt.py:99`).
* Two more losses go unnoticed unless a further script is run on the same checkout
  (`ReportedElsewhere`): the stub step of `build-ldn.yml` skips its include where
  `<arpa/inet.h>` is missing, which only `patch-ldn-zt.py` insists on, and
  `patch-lwip-switch-thread.py` its own where `<pthread.h>` is missing, which only
  bootstrap makes up for.
* `Stacking` lists the edits that a second run applies again. Most repeat a guard
  around an include, or a block of `CMakeLists.txt`; the step of `build-ldn.yml`
  inserts its include and its call of `ztbridge::init()` a second time.
* A file that a write cut short has left empty is found out or written anew, but for
  `main.cpp` and `Constants.hpp`, which `patch-lwip-switch-thread.py` passes over when
  it finds nothing there to do (`Overlooked`, `EmptiedIsNoticed`).
* `patch-libzt-switch-bootstrap.py` cannot be run twice: the second run looks for the
  block in `Phy.hpp` that the first has rewritten. `patch-libzt-switch.py`, which it
  runs in between, cannot be run by itself (`Completing`): its removal of
  `PortMapper.cpp` spoils the CMake passage it looks for next.
  `patch-lwip-switch-thread.py` run before bootstrap takes an anchor away from it. The
  scripts of `Rerunnable` may be repeated (`RepeatIsHarmless`).

## Proofs

Each proof module has an inductive invariant, `IInv` at the end of the module it is
about (in the proof module itself for `LwipThreads`; one per theorem for `PatchScripts`),
checked by TLC first, and lemmas with a step per action; what is stated below follows
from it.
Assumptions: the named ones on the constants, and nothing else unless said. Where no
run checks `TypeOK`, it is because the theorem says more.

`DiagConsoleProofs`, for every set of workers, every set of message lengths, every
buffer size and any number of messages:

* `TypeCorrect` (`TypeOK`), which includes that `g_diag_len` stays within
  `DIAG_BUF_SIZE`; `NoStaleDropNote` (`DropOnlyWhenFull`); `Exclusion`: the mutex
  excludes, and the buffer main resets is the one it copied;
* `OutputInOrder` (`InOrderOnce`), `NoSilentLoss` (`LossIsAnnounced`) and `LogComplete`
  (`LogIsComplete`: only messages that the SD card refused are missing from the log);
* `ConsoleIsLossyPipe`: `Spec => ImplementsStream`.

The invariant has four parts. `LockInv` is inductive on its own: `TypeOK` alone is not,
because the byte a worker appends exists only as long as its position is below the length
of its message (`MessageInv`); `DropOnlyWhenFull` is kept by `Snapshot` because flag and
buffer are read together and by `Reset` because they are cleared together. `OutputInv`
speaks of `Eventually`, the whole way from the console to the buffer, and of `NextByte`,
the first byte a thread has still to deal with. `EventuallyOther` says that the drain,
which moves bytes between four variables, never changes `Eventually`; what the three
other steps do to it is a lemma each (`EventuallyAppend`, `EventuallyTruncate`,
`EventuallyDirect`). Order then needs that all a thread has on its way is before its
`NextByte` (`SentInv`) and that none of main's bytes are behind the place where a direct
write goes in (`WorkersOnlyInv`); loss needs `NotedInv`, which holds in the middle of a
message, when `LossIsAnnounced` says nothing. `LogInv` adds that only the holder
of `g_log_mutex` opens or writes the log, and only one that was not opened before is
opened, which is empty; `BoundInv` bounds the messages for the refinement.

In the refinement a message is offered to the pipe when its worker gets the mutex:
`Pending` is the buffer with the rest of the message being copied, cut to the size of
the buffer. `LockBuffer` is `Offer` (`StreamOffer`), `Reset` is `Drain` (`StreamDrain`),
`DirectWrite` is `Direct` (`StreamDirect`), and every other step leaves the mapped state
alone: `AcceptedAppend` for the copied byte, `StreamTruncate` and `StreamUnlock` for the
two ends of the copy, `CopyingStays` and `ShownStep` for the rest.

`LifecycleProofs`, for a bounded wait of any length (the code's is 60 rounds) and any
number of idle rounds that ends the flood test:

* of the Switch application: `TypeCorrect`, `NodeBeforeSockets` (`SocketsOutliveNode`),
  `SocketsGivenBack` (`SocketsReleased`), `PingSocketClosed` (`PingSocketAccounted`) and,
  for steps, `TeardownFaultsEnd` (`NoParkingInTeardown`);
* of the desktop node: `PcTypeCorrect` and `NodeBeforeReturn` (`ReturnAfterNode`).

`SocketsOutliveNode` and `ReturnAfterNode` speak of the end of `main()`; what keeps them
is a chain through the whole exit: NODE_DOWN is queued only by a destroyed node and
`g_node_down` is set only from that event (`DownInv`, in the .nro), and no node exists on
the early returns (`BootInv`). `PingSocketAccounted` needs that `zt_begin_exit()` has
run, and so that the ping socket is closed, whenever the node has been told to
stop (`ExitInv`, `PingInv`). `TeardownFaultsEnd` excepts the fault that takes the
mutex of the log along.

`HeartbeatProofs`, for a table of any size and any peers, roles and addresses:
`TypeCorrect`, `PeersAreDistinct` (`NoPeerTwice`) and, for steps, `OnlyNewestIsTorn`
(`TornOnlyNewest`). `NewestInv` says that the entry being added goes into one slot
whichever of its stores are visible, and to a peer that has none; `TableInv` that the
entries before it (`Settled`) are as the event told them and those behind it empty;
`ReportInv` that what main read of a settled entry is still there when it prints.

`SysmoduleInitProofs`, for any number of allocations: `TypeCorrect`,
`ServiceStartsOnce` (`InitOnce`) and `HeapIsSafe` (`HeapBeforeThreads`). `Where` takes a
thread out of `GetHeapHandle` to the place the call returns to; `StartInv` and
`EntryInv` follow one start to the one thread that runs the init function, and `HeapInv`
says that the heap was created before `started`.

`SocketPipeProofs`, for any callers, descriptors and ports: `TypeCorrect`,
`SocketsAreOwned` (`NoSocketLeaks`), `EndsAreConnected` (`EndsMeet`) and `PipeIsAtomic`
(`ImplementsPairs`, the refinement of `PipePairs`). `OwnInv`
gives every open descriptor one owner, `PortInv` no port to two sockets, and `StageInv`
says what a caller has got so far; `OwnTake`, `OwnGive` and `StageFrame` say how a step
of one caller leaves the others alone. For the refinement, `Touched` says that a call
touches its own two sockets only, so the pipes of the others stand (`OtherPipes`,
`AllPipes`); `ConnectBGets` is the step at which the pair appears, fresh because
`PortInv` and `OwnInv` give its ports and descriptors no second owner, `EndPipeEnds`
the one at which it goes, and every other step stutters (`QuietStep`).

`LwipThreadsProofs`, for a table of any size and any number of starts: `TypeCorrect`,
`HandlesAreSafe` (`HandleIsItsThread`), `NullsAreExplained` (`NullIsExplained`) and
`NoSignalIsLost` (`WaitIsAnswered`). A slot claimed and not yet stored belongs to one
call, and lies below the counter (`TableInv`); whatever tcpip threads call back, the start
that stored the argument last has its signal once its own has (`StartInv`).

`MonotonicClockProofs`, for any set of threads, any counter rate and any length
of the run:

* `TypeCorrect`;
* `ClockNeverBackwards` (`NeverBackwards`) and `ClockKeepsHardwareTime`
  (`KeepsHardwareTime`), with no assumption on how the first calls overlap. Both speak
  of the calls that begin when the capture is over: while it is under way the code
  promises nothing (finding 2).

The invariant says that the capture stays over once a call that counts has begun
(`CaptureInv`), that no baseline is ahead of the present, and none ahead of the tick
that such a call reads (`TickInv`), so that the unsigned subtraction does not wrap
(`NoWrap`), and that no result is ahead of the present (`ResultInv`). `DivBounds`,
`DivMono` and `RoundingDrift` are the facts about division by the counter rate.

`PatchScriptsProofs`, for every group of scripts that share a checkout, any number of
starts and any number of writes cut short: `LinkedAtMostOnce` (`LinkedOnce`, whatever a
cut write leaves of the Makefile), `TraceIncludes` (`TracesCompile`) and
`LossesAreReported` (`LossIsReported`) for the files of which no write was cut short,
`ScriptsAreRepeatable` (`RepeatIsHarmless`) for the scripts none of whose files was, and
`VerifiedAnchorsSuffice` (`AnchorCheckSuffices`), where a cut file counts by what is
missing in it. The lemma `TypedInvariant` keeps `TypeOK`. The run has eight groups; the
theorems have all of them, so nothing rests on the choice. Checking the module takes
more than ten minutes.

A script is data here, so each argument begins with what its sections do to a text, one
lemma per section or kind of section, and goes from one edit to a section (`DraftSteps`)
and from sections to a run by induction over their number (`UpTo`, from the
well-foundedness of Nat). `Kept` are passages that only `patch-ldn-zt.py` takes out,
from its 6th section on, `Rare` those that hardly any section puts in. `Links` says that
the libraries are in the Makefile only when the anchor of that 6th section is gone, so
that no second run gets as far as the Makefile. `Includes` says that a trace of
bootstrap comes with its include, and that the passages bootstrap finds its files by
never go away. `Anchors` says that no anchor is ever written, and that all the checkout
had is still there, but for files cut short, as long as the 6th section has not been
reached; so an anchor that `anchor_check_defender.py` saw speaks for those it does not
look at, and `Ready` follows a whole run of `patch-ldn-zt.py` over such a text.

`ScriptsAreRepeatable` (`RepeatIsHarmless`) has `Mended`: on the usual checkout every
file that was not cut short stays `Usual` (what the scripts of `Rerunnable` look for is
there, or what replaced it), and the sections such a script has behind it are `Resting`:
each of their edits finds its own result, or what it would take out is gone for good.
That the other scripts do not disturb this is `Tame`, shown for each of the 91 sections
of all twelve scripts; that a section goes through, rests afterwards and then changes
nothing is `Repeats`, shown for the 19 sections of `Rerunnable`. Most follow from their
edits one by one (`Fine`); the section of `patch-lwip-switch-thread.py` for
`sys_arch.c`, which takes its own code out and writes it anew each time, is followed
edit by edit (`RenewDrafts`).

`LossesAreReported` (`LossIsReported`) compares the checkout with what one undisturbed
pass (`Patched`) leaves, for every group of scripts and every passage upstream may have
lost but the unnoticed ones, and needs both sides. What a section `Delivers` is in its
file when the section is through and stays there (`Lasts`): an edit puts it in whatever
it finds, or insists on an anchor that is there, or swaps it for what is there
otherwise. `Reported` is inductive: each text not cut short is `Sound`, that is, lacks
nothing whose lack no script notices, and all is there that the sections behind, and the
scripts that are done, deliver. That no section spoils this is `Honest`, shown for each
section of all twelve scripts. On the other side `Fit` is followed from script to script
of the pass: every passage in it was upstream, makes no difference, or is `Owed` to a
section that delivers it. The exceptions (`Unpaid`) are passages that another section
delivers as well, or that the order of the pass keeps out or removes: bootstrap includes
`switch.h` before lwip looks for it, and the stub that ldn removes is gone at the end.

Only model-checked: `Converges` and `EmptiedIsNoticed` of `PatchScripts`, which say that
every order of starts ends in what the pass leaves, passage for passage, and so would
need the pass computed for every group of scripts, where `LossIsReported` needs a bound
on it; and all liveness (fairness and ENABLED are beyond the prover).

## Not modelled

* The ping exchange (`main.cpp` 66-84, `pc-diag/main.cpp` 232-257). A PONG is the
  answer to the datagram just read and nothing is kept of it; the sequence number is
  printed and never compared, so loss and reordering have nothing to break.
* The wrappers of `posix_compat.cpp` that forward a call, count it and log it. Each
  counter is incremented atomically and only printed; errno after a call is read by
  libzt, outside this repository.
* The one exception stack that all threads share (`posix_compat.cpp:142`): what a
  second fault does to the frames of the first is undefined.
* `zt_genmem_acquire` of the sysmodule, which nothing calls.
* What the keepalive constants do: the timers are upstream's. The edits are modelled.
* The LDN bridge and its stubs: a function per entry that returns an error, and an
  init of two calls whose callers are in another repository.
* Build files and CI but for the step that edits the LDN sources: no run-time
  behaviour. Wording, printed probes, counters that are only printed, and the text the
  scripts insert, but for `OSUtils::now()`, the thread table and the startup of lwIP,
  which run.
