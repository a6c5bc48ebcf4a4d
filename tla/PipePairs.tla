------------------------------ MODULE PipePairs ------------------------------
(***************************************************************************)
(* What pipe() of source/posix_compat.cpp promises, without the socket     *)
(* calls it is made of: a call either hands out, in one step, two sockets  *)
(* connected to each other, or it changes nothing.  Until its caller is    *)
(* done with the pipe its sockets and their ports are nobody else's.       *)
(* Module SocketPipe implements this specification.                        *)
(***************************************************************************)
CONSTANTS
  Callers,  \* threads that call pipe()
  Fds,      \* descriptors
  Ports     \* ephemeral ports

\* The pipe each caller has: <<descriptor, its port, the port it sends to>> for
\* both ends, or nothing.
VARIABLE pipe

Ends == UNION {pipe[t] : t \in Callers}
FdsInUse == {e[1] : e \in Ends}
PortsInUse == {e[2] : e \in Ends}

Init == pipe = [t \in Callers |-> {}]

Get(t) ==
  /\ pipe[t] = {} /\ pipe'[t] # {}
  /\ \E f, g \in Fds \ FdsInUse, p, q \in Ports \ PortsInUse :
       /\ f # g /\ p # q
       /\ pipe' = [pipe EXCEPT ![t] = {<<f, p, q>>, <<g, q, p>>}]

End(t) ==
  /\ pipe[t] # {}
  /\ pipe' = [pipe EXCEPT ![t] = {}]

Next == \E t \in Callers : Get(t) \/ End(t)

Spec == Init /\ [][Next]_pipe
=============================================================================
