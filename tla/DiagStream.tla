----------------------------- MODULE DiagStream -----------------------------
(***************************************************************************)
(* What the diagnostic console of source/posix_compat.cpp promises, with   *)
(* no locks and no loops: a bounded, lossy pipe from the worker threads to *)
(* the screen.  A worker's message is offered whole, what does not fit is  *)
(* cut off, and the loss is announced by DropNote right behind the output  *)
(* that fitted.  Module DiagConsole implements this specification.         *)
(***************************************************************************)
EXTENDS Naturals, Sequences

CONSTANTS
  Capacity,   \* bytes the pipe holds between two drains
  Messages,   \* the messages (sequences of bytes) threads write
  DropNote    \* the "output dropped" line

VARIABLES
  pending,    \* bytes accepted and not yet drained
  lossy,      \* has output been cut off since the last drain?
  shown       \* everything written to the screen

vars == <<pending, lossy, shown>>

FitsIn(s, n) == SubSeq(s, 1, IF Len(s) < n THEN Len(s) ELSE n)

Init == pending = <<>> /\ lossy = FALSE /\ shown = <<>>

Offer(s) ==
  /\ pending' = FitsIn(pending \o s, Capacity)
  /\ lossy' = (lossy \/ Len(pending) + Len(s) > Capacity)
  /\ UNCHANGED shown

Direct(s) ==
  /\ shown' = shown \o s
  /\ UNCHANGED <<pending, lossy>>

Drain ==
  /\ shown' = shown \o pending \o (IF lossy THEN <<DropNote>> ELSE <<>>)
  /\ pending' = <<>>
  /\ lossy' = FALSE

Next == Drain \/ \E s \in Messages : Offer(s) \/ Direct(s)

Spec == Init /\ [][Next]_vars
=============================================================================
