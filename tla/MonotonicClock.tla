--------------------------- MODULE MonotonicClock ---------------------------
(***************************************************************************)
(* OSUtils::now() as scripts/patch-lwip-switch-thread.py writes it into    *)
(* ZeroTier for the Switch: a wall-clock baseline and a tick baseline are  *)
(* captured by the first call, later calls add elapsed hardware ticks.     *)
(* Both baselines are plain static variables shared by all threads, with   *)
(* nothing that orders their loads and stores, so calls that overlap while *)
(* the first ones capture may see them move, or not yet there.             *)
(***************************************************************************)
EXTENDS Integers

CONSTANTS
  Threads,      \* threads of the ZeroTier core
  TicksPerMs,   \* rate of the hardware counter
  Modulus,      \* 2^64: ticks are unsigned
  MaxTick,      \* bound: where TLC stops the hardware counter
  MaxSkew       \* bound: how far a time sync moves the wall clock, in ms

ASSUME RateAssumption == TicksPerMs \in Nat \ {0}
ASSUME ModulusAssumption == Modulus \in Nat /\ MaxTick \in Nat \ {0} /\ MaxTick < Modulus
ASSUME SkewAssumption == MaxSkew \in Nat

VARIABLES
  tick,      \* armGetSystemTick(); not 0 once the system is up
  skew,      \* wall clock minus hardware clock, moved by time syncs
  wallBase,  \* switch_wallclock_baseline_ms
  tickBase,  \* switch_tick_baseline
  pc,        \* where each thread is in now(), "idle" outside
  wall,      \* the wall-clock time a thread is about to store
  mono,      \* its switch_monotonic_now
  counts,    \* did its call begin with the capture over?  The results that follow
             \* are those of such calls
  floor,     \* the greatest result returned before its call began
  best,      \* the greatest result returned so far
  last       \* the call that returned last: its result, and the tick it read

localVars == <<wall, mono, counts, floor>>
results == <<best, last>>
vars == <<tick, skew, wallBase, tickBase, pc, localVars, results>>

Nothing == [value |-> -1, mono |-> -1]
Never == last = Nothing

\* The capture is over: the baselines are there, and no thread is left that found
\* them missing and has still to store its own.
Capturing == {"wall", "storeWall", "storeTick", "lateWall"}
Captured == tickBase # 0 /\ \A t \in Threads : pc[t] \notin Capturing

Goto(t, from, to) == pc[t] = from /\ pc' = [pc EXCEPT ![t] = to]

Init ==
  /\ tick = 1
  /\ skew = 0
  /\ wallBase = 0 /\ tickBase = 0
  /\ pc = [t \in Threads |-> "idle"]
  /\ wall = [t \in Threads |-> 0]
  /\ mono = [t \in Threads |-> 0]
  /\ counts = [t \in Threads |-> FALSE]
  /\ floor = [t \in Threads |-> -1]
  /\ best = -1
  /\ last = Nothing

-----------------------------------------------------------------------------
(* The clocks.                                                             *)

Tick ==
  /\ tick < MaxTick
  /\ tick' = tick + 1
  /\ UNCHANGED <<skew, wallBase, tickBase, pc, localVars, results>>

\* The background time sync corrects the wall clock, either way.
TimeSync ==
  /\ skew' \in 0 .. MaxSkew
  /\ UNCHANGED <<tick, wallBase, tickBase, pc, localVars, results>>

-----------------------------------------------------------------------------
(* now()                                                                   *)

\* Mutant of Call: the baseline is captured again by every call.
BugRecapture(t) ==
  /\ Goto(t, "idle", "wall")
  /\ counts' = [counts EXCEPT ![t] = Captured]
  /\ floor' = [floor EXCEPT ![t] = best]
  /\ UNCHANGED <<tick, skew, wallBase, tickBase, wall, mono, results>>

\* if (switch_tick_baseline == 0)
Call(t) ==
  /\ Goto(t, "idle", IF tickBase = 0 THEN "wall" ELSE "mono")
  /\ counts' = [counts EXCEPT ![t] = Captured]
  /\ floor' = [floor EXCEPT ![t] = best]
  /\ UNCHANGED <<tick, skew, wallBase, tickBase, wall, mono, results>>

\* gettimeofday
ReadWall(t) ==
  /\ Goto(t, "wall", "storeWall")
  /\ wall' = [wall EXCEPT ![t] = (tick \div TicksPerMs) + skew]
  /\ UNCHANGED <<tick, skew, wallBase, tickBase, mono, counts, floor, results>>

StoreWall(t) ==
  /\ Goto(t, "storeWall", "storeTick")
  /\ wallBase' = wall[t]
  /\ UNCHANGED <<tick, skew, tickBase, localVars, results>>

StoreTick(t) ==
  /\ Goto(t, "storeTick", "mono")
  /\ tickBase' = tick
  /\ UNCHANGED <<tick, skew, wallBase, localVars, results>>

\* Built code may also let the second store become visible first.
StoreSwapped(t) ==
  /\ Goto(t, "storeWall", "lateWall")
  /\ tickBase' = tick
  /\ UNCHANGED <<tick, skew, wallBase, localVars, results>>

LateWall(t) ==
  /\ Goto(t, "lateWall", "mono")
  /\ wallBase' = wall[t]
  /\ UNCHANGED <<tick, skew, tickBase, localVars, results>>

ReadMono(t) ==
  /\ Goto(t, "mono", "return")
  /\ mono' = [mono EXCEPT ![t] = tick]
  /\ UNCHANGED <<tick, skew, wallBase, tickBase, wall, counts, floor, results>>

\* armTicksToNs(now - switch_tick_baseline) / 1000000ULL: the subtraction is
\* unsigned, the division drops the part of a millisecond.
Elapsed(t) == ((mono[t] - tickBase) % Modulus) \div TicksPerMs

\* A result, remembered if it counts.
Result(t, value) ==
  IF counts[t]
  THEN /\ last' = [value |-> value, mono |-> mono[t]]
       /\ best' = IF value > best THEN value ELSE best
  ELSE UNCHANGED results

\* Mutant of Return: gettimeofday, the upstream now().
BugWallClock(t) ==
  /\ Goto(t, "return", "idle")
  /\ Result(t, (mono[t] \div TicksPerMs) + skew)
  /\ UNCHANGED <<tick, skew, wallBase, tickBase, localVars>>

Return(t) ==
  /\ Goto(t, "return", "idle")
  /\ Result(t, wallBase + Elapsed(t))
  /\ UNCHANGED <<tick, skew, wallBase, tickBase, localVars>>

Now(t) ==
  \/ Call(t) \/ ReadWall(t) \/ StoreWall(t) \/ StoreTick(t) \/ StoreSwapped(t)
  \/ LateWall(t) \/ ReadMono(t) \/ Return(t)

Next == Tick \/ TimeSync \/ \E t \in Threads : Now(t)

Spec == Init /\ [][Next]_vars

-----------------------------------------------------------------------------
\* The types of the variables.
TypeOK ==
  /\ tick \in 1 .. MaxTick
  /\ skew \in 0 .. MaxSkew
  /\ wallBase \in Nat /\ tickBase \in 0 .. MaxTick
  /\ pc \in [Threads -> {"idle", "wall", "storeWall", "storeTick", "lateWall", "mono",
                         "return"}]
  /\ wall \in [Threads -> Nat]
  /\ mono \in [Threads -> 0 .. MaxTick]
  /\ counts \in [Threads -> BOOLEAN]
  /\ floor \in [Threads -> Nat \cup {-1}]
  /\ best \in Nat \cup {-1}
  /\ last \in [value : Nat, mono : Nat] \cup {Nothing}

\* Time as ZeroTier's scheduler sees it never steps back: from the end of the
\* capture on, however many first calls took part in it and whichever baselines
\* it left, a call returns no less than any call that was over when it began,
\* whatever the time sync does.
NeverBackwards ==
  [][\A t \in Threads : Return(t) /\ counts[t] => last'.value >= floor[t]]_vars

\* Between any two of these results lies the time the hardware counter measured,
\* to less than a millisecond: a time sync after the capture cannot be seen in
\* now(), and a capture that raced leaves no baseline ahead of a later tick.
KeepsHardwareTime ==
  [][\A t \in Threads : Return(t) /\ counts[t] /\ ~Never =>
       LET drift == (last'.value - last.value) * TicksPerMs - (last'.mono - last.mono)
       IN  -TicksPerMs < drift /\ drift < TicksPerMs]_vars

\* patch-lwip-switch-thread.py:307: "capture a wall-clock baseline once".
BaselineOnce == [][tickBase # 0 => tickBase' = tickBase]_vars

-----------------------------------------------------------------------------
(* The inductive invariant behind the proofs.                              *)

\* From the first call that counts on, the baselines stand.
CaptureInv ==
  /\ ~Never => Captured
  /\ \A t \in Threads : counts[t] => Captured
  /\ Never => best = -1 /\ \A t \in Threads : floor[t] = -1

\* No baseline and no tick that was read is ahead of the present, and a call that
\* counts reads its tick after the baseline.
TickInv ==
  /\ tickBase <= tick
  /\ \A t \in Threads : mono[t] <= tick
  /\ \A t \in Threads : counts[t] /\ pc[t] = "return" => tickBase <= mono[t]

\* now() at tick m, by the baselines.
At(m) == wallBase + ((m - tickBase) \div TicksPerMs)

\* No result lies ahead of the present, and a call under way read its tick after
\* every result it must not fall behind.
ResultInv ==
  /\ best <= At(tick)
  /\ \A t \in Threads : floor[t] <= best
  /\ \A t \in Threads : counts[t] /\ pc[t] = "return" => floor[t] <= At(mono[t])
  /\ ~Never => last.value = At(last.mono) /\ tickBase <= last.mono

IInv == TypeOK /\ CaptureInv /\ TickInv /\ ResultInv
=============================================================================
