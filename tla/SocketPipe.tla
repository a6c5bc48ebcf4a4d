----------------------------- MODULE SocketPipe -----------------------------
(***************************************************************************)
(* pipe() of source/posix_compat.cpp: two UDP sockets bound to loopback    *)
(* ports and connected to each other, since the Switch has no pipes.  Any  *)
(* of its calls may fail while other threads take and return sockets and   *)
(* ports.  The socket service is external: a table of descriptors.         *)
(***************************************************************************)
CONSTANTS
  Callers,  \* threads that call pipe(): main's test, libzt's service
  Fds,      \* descriptors of the socket service
  Ports,    \* ephemeral ports
  None      \* -1: no descriptor; 0: no port

ASSUME NoneAssumption == None \notin Fds /\ None \notin Ports

VARIABLES
  open,   \* descriptors in use
  port,   \* the port each is bound to
  peer,   \* the port each is connected to
  other,  \* descriptors of threads that use sockets for other things
  pc,     \* where each caller is; "piped" once pipe() returned 0
  a, b,   \* the two descriptors of pipe()
  aa, bb  \* the addresses getsockname gave

sockVars == <<open, port, peer>>
vars == <<sockVars, other, pc, a, b, aa, bb>>

Goto(t, from, to) == pc[t] = from /\ pc' = [pc EXCEPT ![t] = to]

Init ==
  /\ open = {} /\ other = {}
  /\ port = [fd \in Fds |-> None] /\ peer = [fd \in Fds |-> None]
  /\ pc = [t \in Callers |-> "idle"]
  /\ a = [t \in Callers |-> None] /\ b = [t \in Callers |-> None]
  /\ aa = [t \in Callers |-> None] /\ bb = [t \in Callers |-> None]

-----------------------------------------------------------------------------
(* The socket service.                                                     *)

RealSocket(fd) ==
  /\ fd \in Fds \ open
  /\ open' = open \cup {fd}
  /\ UNCHANGED <<port, peer>>

RealBind(fd) ==
  /\ \E p \in Ports \ {port[f] : f \in open} : port' = [port EXCEPT ![fd] = p]
  /\ UNCHANGED <<open, peer>>

RealConnect(fd, p) ==
  /\ peer' = [peer EXCEPT ![fd] = p]
  /\ UNCHANGED <<open, port>>

RealClose(fd) ==
  /\ open' = open \ {fd}
  /\ port' = [port EXCEPT ![fd] = None]
  /\ peer' = [peer EXCEPT ![fd] = None]

\* Other threads open a socket, bind it and close it.
OtherSocket ==
  /\ \E fd \in Fds : RealSocket(fd) /\ other' = other \cup {fd}
  /\ UNCHANGED <<pc, a, b, aa, bb>>

OtherBind ==
  /\ \E fd \in other : port[fd] = None /\ RealBind(fd)
  /\ UNCHANGED <<other, pc, a, b, aa, bb>>

OtherClose ==
  /\ \E fd \in other : RealClose(fd) /\ other' = other \ {fd}
  /\ UNCHANGED <<pc, a, b, aa, bb>>

-----------------------------------------------------------------------------
(* pipe(fds)                                                               *)

FirstSocket(t) ==
  /\ Goto(t, "idle", "second")
  /\ \E fd \in Fds : RealSocket(fd) /\ a' = [a EXCEPT ![t] = fd]
  /\ UNCHANGED <<other, b, aa, bb>>

SecondSocket(t) ==
  /\ Goto(t, "second", "bindA")
  /\ \E fd \in Fds : RealSocket(fd) /\ b' = [b EXCEPT ![t] = fd]
  /\ UNCHANGED <<other, a, aa, bb>>

\* Mutant of SecondFails: the first socket is not closed.
BugSecondLeaks(t) ==
  /\ Goto(t, "second", "idle")
  /\ a' = [a EXCEPT ![t] = None]
  /\ UNCHANGED <<sockVars, other, b, aa, bb>>

SecondFails(t) ==
  /\ Goto(t, "second", "idle")
  /\ RealClose(a[t])
  /\ a' = [a EXCEPT ![t] = None]
  /\ UNCHANGED <<other, b, aa, bb>>

BindA(t) ==
  /\ Goto(t, "bindA", "bindB")
  /\ RealBind(a[t])
  /\ UNCHANGED <<other, a, b, aa, bb>>

BindB(t) ==
  /\ Goto(t, "bindB", "name")
  /\ RealBind(b[t])
  /\ UNCHANGED <<other, a, b, aa, bb>>

\* Mutant of GetNames: bb = aa, as it was before the bind.
BugStaleName(t) ==
  /\ Goto(t, "name", "connectA")
  /\ aa' = [aa EXCEPT ![t] = port[a[t]]]
  /\ bb' = [bb EXCEPT ![t] = port[a[t]]]
  /\ UNCHANGED <<sockVars, other, a, b>>

GetNames(t) ==
  /\ Goto(t, "name", "connectA")
  /\ aa' = [aa EXCEPT ![t] = port[a[t]]]
  /\ bb' = [bb EXCEPT ![t] = port[b[t]]]
  /\ UNCHANGED <<sockVars, other, a, b>>

ConnectA(t) ==
  /\ Goto(t, "connectA", "connectB")
  /\ RealConnect(a[t], bb[t])
  /\ UNCHANGED <<other, a, b, aa, bb>>

ConnectB(t) ==
  /\ Goto(t, "connectB", "piped")
  /\ RealConnect(b[t], aa[t])
  /\ UNCHANGED <<other, a, b, aa, bb>>

\* Any call after the second socket may fail: if (!ok).
CallFails(t) ==
  /\ pc[t] \in {"bindA", "bindB", "name", "connectA", "connectB"}
  /\ pc' = [pc EXCEPT ![t] = "closeA"]
  /\ UNCHANGED <<sockVars, other, a, b, aa, bb>>

\* The caller is done with a pipe it got.
EndPipe(t) ==
  /\ Goto(t, "piped", "closeA")
  /\ UNCHANGED <<sockVars, other, a, b, aa, bb>>

CloseA(t) ==
  /\ Goto(t, "closeA", "closeB")
  /\ RealClose(a[t])
  /\ UNCHANGED <<other, a, b, aa, bb>>

\* The locals of pipe() are gone when it returns.
Forget(t) ==
  /\ a' = [a EXCEPT ![t] = None] /\ b' = [b EXCEPT ![t] = None]
  /\ aa' = [aa EXCEPT ![t] = None] /\ bb' = [bb EXCEPT ![t] = None]

\* Mutant of CloseB: closes the first socket again, by now perhaps another's.
BugClosesTwice(t) ==
  /\ Goto(t, "closeB", "idle")
  /\ RealClose(a[t])
  /\ Forget(t)
  /\ UNCHANGED other

CloseB(t) ==
  /\ Goto(t, "closeB", "idle")
  /\ RealClose(b[t])
  /\ Forget(t)
  /\ UNCHANGED other

Pipe(t) ==
  \/ FirstSocket(t) \/ SecondSocket(t) \/ SecondFails(t) \/ BindA(t) \/ BindB(t)
  \/ GetNames(t) \/ ConnectA(t) \/ ConnectB(t) \/ CallFails(t)
  \/ EndPipe(t) \/ CloseA(t) \/ CloseB(t)

Next == OtherSocket \/ OtherBind \/ OtherClose \/ \E t \in Callers : Pipe(t)

Spec == Init /\ [][Next]_vars

-----------------------------------------------------------------------------
\* The types of the variables.
TypeOK ==
  /\ open \subseteq Fds /\ other \subseteq open
  /\ port \in [Fds -> Ports \cup {None}] /\ peer \in [Fds -> Ports \cup {None}]
  /\ pc \in [Callers -> {"idle", "second", "bindA", "bindB", "name", "connectA", "connectB",
                         "piped", "closeA", "closeB"}]
  /\ a \in [Callers -> Fds \cup {None}] /\ b \in [Callers -> Fds \cup {None}]
  /\ aa \in [Callers -> Ports \cup {None}] /\ bb \in [Callers -> Ports \cup {None}]

\* Descriptors a call under way or a pipe in use has not closed yet.
Held(t) == IF pc[t] = "closeB" THEN {b[t]} ELSE {a[t], b[t]} \ {None}

\* Wherever pipe() fails, nothing of it is left: every open socket belongs to a
\* call under way, to a pipe that is still in use, or to somebody else, and to
\* one of them only.
NoSocketLeaks ==
  /\ open = other \cup UNION {Held(t) : t \in Callers}
  /\ \A t \in Callers : Held(t) \cap other = {} /\ (pc[t] = "idle" => Held(t) = {})
  /\ \A t, u \in Callers : t # u => Held(t) \cap Held(u) = {}

\* A pipe is one: each end sends to the other, and no other pipe's end sends to
\* either, however ports are returned and handed out again meanwhile.
EndsMeet ==
  \A t \in Callers : pc[t] = "piped" =>
    /\ port[a[t]] # None /\ port[b[t]] # None
    /\ peer[a[t]] = port[b[t]] /\ peer[b[t]] = port[a[t]]
    /\ \A u \in Callers \ {t} : pc[u] = "piped" =>
         {peer[a[u]], peer[b[u]]} \cap {port[a[t]], port[b[t]]} = {}

-----------------------------------------------------------------------------
(* pipe() as one step (module PipePairs).                                  *)

PipeOf(t) ==
  IF pc[t] = "piped"
    THEN {<<a[t], port[a[t]], peer[a[t]]>>, <<b[t], port[b[t]], peer[b[t]]>>}
    ELSE {}

Pairs == INSTANCE PipePairs WITH pipe <- [t \in Callers |-> PipeOf(t)]

\* Seven socket calls, any of which may fail, among those of other callers and
\* threads, look like one step that hands out two fresh sockets connected to each
\* other or does nothing; and while a pipe is in use no step touches its ends.
ImplementsPairs == Pairs!Spec

-----------------------------------------------------------------------------
(* The inductive invariant behind the proofs.                              *)

\* Who owns a descriptor.
OwnInv ==
  /\ \A f \in Fds : f \in open <=> f \in other \/ \E t \in Callers : f \in Held(t)
  /\ \A t \in Callers : \A f \in Held(t) : f \notin other
  /\ \A t, u \in Callers : \A f \in Held(t) : t # u => f \notin Held(u)

\* Sockets in use have different ports, the others none.
PortInv ==
  /\ \A f, g \in open : f # g /\ port[f] = port[g] => port[f] = None
  /\ \A f \in Fds \ open : port[f] = None

\* What each caller has got so far.
StageInv(t) ==
  /\ pc[t] = "idle" => a[t] = None /\ b[t] = None
  /\ pc[t] = "second" => a[t] # None /\ b[t] = None
  /\ pc[t] \notin {"idle", "second", "closeB"} => a[t] # None /\ b[t] # None /\ a[t] # b[t]
  /\ pc[t] = "closeB" => b[t] # None
  /\ pc[t] \in {"bindB", "name", "connectA", "connectB", "piped"} => port[a[t]] # None
  /\ pc[t] \in {"name", "connectA", "connectB", "piped"} => port[b[t]] # None
  /\ pc[t] \in {"connectA", "connectB", "piped"} => aa[t] = port[a[t]] /\ bb[t] = port[b[t]]
  /\ pc[t] \in {"connectB", "piped"} => peer[a[t]] = port[b[t]]
  /\ pc[t] = "piped" => peer[b[t]] = port[a[t]]

IInv == TypeOK /\ OwnInv /\ PortInv /\ \A t \in Callers : StageInv(t)
=============================================================================
