-------------------------- MODULE SocketPipeProofs --------------------------
(***************************************************************************)
(* Proofs about SocketPipe, for any callers, descriptors and ports.        *)
(***************************************************************************)
EXTENDS SocketPipe, TLAPS

USE NoneAssumption DEF NoneAssumption

-----------------------------------------------------------------------------
(* Who owns what, after a step that takes a descriptor, gives one back, or *)
(* does neither.                                                           *)

\* Neither.
LEMMA OwnSame ==
  ASSUME OwnInv, open' = open, other' = other,
         \A u \in Callers : Held(u)' = Held(u)
  PROVE  OwnInv'
BY DEF OwnInv

\* A descriptor nobody had.
LEMMA OwnTake ==
  ASSUME OwnInv, NEW t \in Callers, NEW fd \in Fds \ open,
         open' = open \cup {fd}, other' = other, Held(t)' = Held(t) \cup {fd},
         \A u \in Callers \ {t} : Held(u)' = Held(u),
         other \subseteq open, \A u \in Callers : Held(u) \subseteq Fds
  PROVE  OwnInv'
<1>1. \A u \in Callers : fd \notin Held(u)
  BY DEF OwnInv
<1>2. fd \notin other
  OBVIOUS
<1>3. \A f \in Fds : f \in open' <=> f \in other' \/ \E u \in Callers : f \in Held(u)'
  <2> TAKE f \in Fds
  <2>1. CASE f = fd
    BY <2>1
  <2>2. CASE f # fd
    <3>1. \A u \in Callers : f \in Held(u)' <=> f \in Held(u)
      BY <2>2
    <3> QED
      BY <2>2, <3>1 DEF OwnInv
  <2> QED
    BY <2>1, <2>2
<1>4. \A u \in Callers : \A f \in Held(u)' : f \notin other'
  BY <1>2 DEF OwnInv
<1>5. \A u, v \in Callers : \A f \in Held(u)' : u # v => f \notin Held(v)'
  BY <1>1 DEF OwnInv
<1> QED
  BY <1>3, <1>4, <1>5 DEF OwnInv

\* A descriptor its caller held.
LEMMA OwnGive ==
  ASSUME OwnInv, NEW t \in Callers, NEW fd \in Held(t),
         open' = open \ {fd}, other' = other, Held(t)' = Held(t) \ {fd},
         \A u \in Callers \ {t} : Held(u)' = Held(u)
  PROVE  OwnInv'
<1>1. \A u \in Callers \ {t} : fd \notin Held(u)
  BY DEF OwnInv
<1>2. fd \notin other
  BY DEF OwnInv
<1>3. \A f \in Fds : f \in open' <=> f \in other' \/ \E u \in Callers : f \in Held(u)'
  <2> TAKE f \in Fds
  <2>1. CASE f = fd
    BY <1>1, <1>2, <2>1
  <2>2. CASE f # fd
    <3>1. \A u \in Callers : f \in Held(u)' <=> f \in Held(u)
      BY <2>2
    <3> QED
      BY <2>2, <3>1 DEF OwnInv
  <2> QED
    BY <2>1, <2>2
<1>4. \A u \in Callers : \A f \in Held(u)' : f \notin other'
  BY DEF OwnInv
<1>5. \A u, v \in Callers : \A f \in Held(u)' : u # v => f \notin Held(v)'
  BY DEF OwnInv
<1> QED
  BY <1>3, <1>4, <1>5 DEF OwnInv

\* What a caller holds is a descriptor in use, and never None.
LEMMA HeldIsOpen ==
  ASSUME IInv, NEW t \in Callers
  PROVE  Held(t) \subseteq Fds /\ Held(t) \subseteq open
<1>1. Held(t) \subseteq Fds
  BY DEF IInv, TypeOK, StageInv, Held
<1> QED
  BY <1>1 DEF IInv, OwnInv

\* A caller that takes no part in a step keeps what it has got.
LEMMA StageFrame ==
  ASSUME NEW u \in Callers, StageInv(u), pc'[u] = pc[u], a'[u] = a[u], b'[u] = b[u],
         aa'[u] = aa[u], bb'[u] = bb[u],
         \A f \in Held(u) : port'[f] = port[f] /\ peer'[f] = peer[f]
  PROVE  StageInv(u)' /\ Held(u)' = Held(u)
<1>1. Held(u)' = Held(u)
  BY DEF Held
<1>2. pc[u] \in {"bindB", "name", "connectA", "connectB", "piped"} =>
        a[u] \in Held(u) /\ b[u] \in Held(u)
  BY DEF Held, StageInv
<1>3. StageInv(u)'
  BY <1>2 DEF StageInv
<1> QED
  BY <1>1, <1>3

-----------------------------------------------------------------------------
(* One lemma per kind of step.                                             *)

\* The locals of all callers but t.
Kept(t) ==
  \A u \in Callers \ {t} : /\ pc'[u] = pc[u] /\ a'[u] = a[u] /\ b'[u] = b[u]
                           /\ aa'[u] = aa[u] /\ bb'[u] = bb[u]

\* The other callers, if t's own sockets are the only ones touched.
LEMMA Others ==
  ASSUME IInv, NEW t \in Callers, NEW S \in SUBSET Fds, Kept(t),
         S \subseteq Held(t) \/ S \cap open = {},
         \A f \in Fds \ S : port'[f] = port[f] /\ peer'[f] = peer[f]
  PROVE  \A u \in Callers \ {t} : StageInv(u)' /\ Held(u)' = Held(u)
<1> TAKE u \in Callers \ {t}
<1>1. \A f \in Held(u) : f \in Fds \ S
  BY HeldIsOpen DEF IInv, OwnInv
<1>2. StageInv(u)
  BY DEF IInv
<1> QED
  BY <1>1, <1>2, StageFrame DEF Kept

\* The same for a step that touches no socket.
LEMMA AllOthers ==
  ASSUME IInv, NEW t \in Callers, Kept(t), UNCHANGED <<port, peer>>
  PROVE  \A u \in Callers \ {t} : StageInv(u)' /\ Held(u)' = Held(u)
<1> DEFINE S == {}
<1>1. S \in SUBSET Fds /\ S \subseteq Held(t)
  OBVIOUS
<1>2. \A f \in Fds \ S : port'[f] = port[f] /\ peer'[f] = peer[f]
  OBVIOUS
<1> HIDE DEF S
<1> QED
  BY <1>1, <1>2, Others

\* A new descriptor is nobody else's.
LEMMA FirstSocketStep == ASSUME IInv, NEW t \in Callers, FirstSocket(t) PROVE IInv'
<1>1. PICK fd \in Fds : RealSocket(fd) /\ a' = [a EXCEPT ![t] = fd]
  BY DEF FirstSocket
<1>2. /\ pc[t] = "idle" /\ pc' = [pc EXCEPT ![t] = "second"]
      /\ fd \in Fds \ open /\ open' = open \cup {fd}
      /\ UNCHANGED <<port, peer, other, b, aa, bb>>
  BY <1>1 DEF FirstSocket, Goto, RealSocket
<1>3. TypeOK'
  BY <1>1, <1>2 DEF IInv, TypeOK
<1>4. pc'[t] = "second" /\ a'[t] = fd /\ b'[t] = None
  BY <1>1, <1>2 DEF IInv, TypeOK, StageInv
<1>5. Held(t) = {} /\ Held(t)' = {fd}
  BY <1>2, <1>4 DEF Held, IInv, StageInv
<1>6. \A u \in Callers \ {t} : StageInv(u)' /\ Held(u)' = Held(u)
  <2>1. Kept(t)
    BY <1>1, <1>2 DEF IInv, TypeOK, Kept
  <2> QED
    BY <1>2, <2>1, AllOthers
<1>7. OwnInv'
  BY <1>2, <1>5, <1>6, HeldIsOpen, OwnTake DEF IInv, TypeOK
<1>8. PortInv'
  BY <1>2 DEF IInv, PortInv
<1>9. StageInv(t)'
  BY <1>4 DEF StageInv
<1> QED
  BY <1>3, <1>6, <1>7, <1>8, <1>9 DEF IInv

\* Nor is the second one, and it differs from the first.
LEMMA SecondSocketStep == ASSUME IInv, NEW t \in Callers, SecondSocket(t) PROVE IInv'
<1>1. PICK fd \in Fds : RealSocket(fd) /\ b' = [b EXCEPT ![t] = fd]
  BY DEF SecondSocket
<1>2. /\ pc[t] = "second" /\ pc' = [pc EXCEPT ![t] = "bindA"]
      /\ fd \in Fds \ open /\ open' = open \cup {fd}
      /\ UNCHANGED <<port, peer, other, a, aa, bb>>
  BY <1>1 DEF SecondSocket, Goto, RealSocket
<1>3. TypeOK'
  BY <1>1, <1>2 DEF IInv, TypeOK
<1>4. pc'[t] = "bindA" /\ a'[t] = a[t] /\ a[t] # None /\ b'[t] = fd
  BY <1>1, <1>2 DEF IInv, TypeOK, StageInv
<1>5. Held(t) = {a[t]} /\ Held(t)' = {a[t], fd}
  BY <1>2, <1>4 DEF Held, IInv, StageInv
<1>6. \A u \in Callers \ {t} : StageInv(u)' /\ Held(u)' = Held(u)
  <2>1. Kept(t)
    BY <1>1, <1>2 DEF IInv, TypeOK, Kept
  <2> QED
    BY <1>2, <2>1, AllOthers
<1>7. OwnInv'
  BY <1>2, <1>5, <1>6, HeldIsOpen, OwnTake DEF IInv, TypeOK
<1>8. PortInv'
  BY <1>2 DEF IInv, PortInv
<1>9. StageInv(t)'
  <2>1. a[t] # fd
    BY <1>2, <1>5, HeldIsOpen
  <2> QED
    BY <1>4, <2>1 DEF StageInv
<1> QED
  BY <1>3, <1>6, <1>7, <1>8, <1>9 DEF IInv

\* The first socket goes back.
LEMMA SecondFailsStep == ASSUME IInv, NEW t \in Callers, SecondFails(t) PROVE IInv'
<1>1. /\ pc[t] = "second" /\ pc' = [pc EXCEPT ![t] = "idle"]
      /\ open' = open \ {a[t]} /\ a' = [a EXCEPT ![t] = None]
      /\ port' = [port EXCEPT ![a[t]] = None] /\ peer' = [peer EXCEPT ![a[t]] = None]
      /\ UNCHANGED <<other, b, aa, bb>>
  BY DEF SecondFails, Goto, RealClose
<1>2. a[t] \in Fds /\ Held(t) = {a[t]} /\ b[t] = None
  BY <1>1 DEF IInv, TypeOK, StageInv, Held
<1>3. other' \subseteq open'
  BY <1>1, <1>2 DEF IInv, TypeOK, OwnInv
<1>4. TypeOK'
  BY <1>1, <1>2, <1>3 DEF IInv, TypeOK
<1>5. pc'[t] = "idle" /\ a'[t] = None /\ b'[t] = None
  BY <1>1, <1>2 DEF IInv, TypeOK
<1>6. Held(t)' = {}
  BY <1>5 DEF Held
<1>7. \A u \in Callers \ {t} : StageInv(u)' /\ Held(u)' = Held(u)
  <2>1. Kept(t)
    BY <1>1 DEF IInv, TypeOK, Kept
  <2>2. \A f \in Fds \ {a[t]} : port'[f] = port[f] /\ peer'[f] = peer[f]
    BY <1>1 DEF IInv, TypeOK
  <2> QED
    BY <1>2, <2>1, <2>2, Others
<1>8. OwnInv'
  BY <1>1, <1>2, <1>6, <1>7, OwnGive DEF IInv
<1>9. PortInv'
  BY <1>1, <1>2 DEF IInv, PortInv, TypeOK
<1>10. StageInv(t)'
  BY <1>5 DEF StageInv
<1> QED
  BY <1>4, <1>7, <1>8, <1>9, <1>10 DEF IInv

\* A bound port is no other socket's.
LEMMA BindAStep == ASSUME IInv, NEW t \in Callers, BindA(t) PROVE IInv'
<1>1. PICK p \in Ports \ {port[f] : f \in open} : port' = [port EXCEPT ![a[t]] = p]
  BY DEF BindA, RealBind
<1>2. /\ pc[t] = "bindA" /\ pc' = [pc EXCEPT ![t] = "bindB"]
      /\ UNCHANGED <<open, peer, other, a, b, aa, bb>>
  BY DEF BindA, Goto, RealBind
<1>3. a[t] \in Fds /\ b[t] \in Fds /\ a[t] # b[t] /\ Held(t) = {a[t], b[t]}
  BY <1>2 DEF IInv, TypeOK, StageInv, Held
<1>4. TypeOK'
  BY <1>1, <1>2 DEF IInv, TypeOK
<1>5. pc'[t] = "bindB" /\ port'[a[t]] = p
  BY <1>1, <1>2, <1>3 DEF IInv, TypeOK
<1>6. \A f \in Fds \ {a[t]} : port'[f] = port[f] /\ peer'[f] = peer[f]
  BY <1>1, <1>2 DEF IInv, TypeOK
<1>7. \A u \in Callers \ {t} : StageInv(u)' /\ Held(u)' = Held(u)
  <2>1. Kept(t)
    BY <1>2 DEF IInv, TypeOK, Kept
  <2> QED
    BY <1>3, <1>6, <2>1, Others
<1>8. Held(t)' = Held(t)
  BY <1>2, <1>3, <1>5 DEF Held
<1>9. OwnInv'
  BY <1>2, <1>7, <1>8, OwnSame DEF IInv
<1>10. PortInv'
  <2>1. a[t] \in open
    BY <1>3, HeldIsOpen
  <2>2. \A f \in open : p # port[f]
    BY <1>1
  <2>3. open \subseteq Fds
    BY DEF IInv, TypeOK
  <2> QED
    BY <1>2, <1>5, <1>6, <2>1, <2>2, <2>3 DEF IInv, PortInv
<1>11. StageInv(t)'
  BY <1>2, <1>3, <1>5, <1>6 DEF IInv, StageInv
<1> QED
  BY <1>4, <1>7, <1>9, <1>10, <1>11 DEF IInv

\* The same for the other end.
LEMMA BindBStep == ASSUME IInv, NEW t \in Callers, BindB(t) PROVE IInv'
<1>1. PICK p \in Ports \ {port[f] : f \in open} : port' = [port EXCEPT ![b[t]] = p]
  BY DEF BindB, RealBind
<1>2. /\ pc[t] = "bindB" /\ pc' = [pc EXCEPT ![t] = "name"]
      /\ UNCHANGED <<open, peer, other, a, b, aa, bb>>
  BY DEF BindB, Goto, RealBind
<1>3. a[t] \in Fds /\ b[t] \in Fds /\ a[t] # b[t] /\ Held(t) = {a[t], b[t]}
  BY <1>2 DEF IInv, TypeOK, StageInv, Held
<1>4. TypeOK'
  BY <1>1, <1>2 DEF IInv, TypeOK
<1>5. pc'[t] = "name" /\ port'[b[t]] = p
  BY <1>1, <1>2, <1>3 DEF IInv, TypeOK
<1>6. \A f \in Fds \ {b[t]} : port'[f] = port[f] /\ peer'[f] = peer[f]
  BY <1>1, <1>2 DEF IInv, TypeOK
<1>7. \A u \in Callers \ {t} : StageInv(u)' /\ Held(u)' = Held(u)
  <2>1. Kept(t)
    BY <1>2 DEF IInv, TypeOK, Kept
  <2> QED
    BY <1>3, <1>6, <2>1, Others
<1>8. Held(t)' = Held(t)
  BY <1>2, <1>3, <1>5 DEF Held
<1>9. OwnInv'
  BY <1>2, <1>7, <1>8, OwnSame DEF IInv
<1>10. PortInv'
  <2>1. b[t] \in open
    BY <1>3, HeldIsOpen
  <2>2. \A f \in open : p # port[f]
    BY <1>1
  <2>3. open \subseteq Fds
    BY DEF IInv, TypeOK
  <2> QED
    BY <1>2, <1>5, <1>6, <2>1, <2>2, <2>3 DEF IInv, PortInv
<1>11. StageInv(t)'
  BY <1>2, <1>3, <1>5, <1>6 DEF IInv, StageInv
<1> QED
  BY <1>4, <1>7, <1>9, <1>10, <1>11 DEF IInv

\* The names are those of the two ports.
LEMMA GetNamesStep == ASSUME IInv, NEW t \in Callers, GetNames(t) PROVE IInv'
<1>1. /\ pc[t] = "name" /\ pc' = [pc EXCEPT ![t] = "connectA"]
      /\ aa' = [aa EXCEPT ![t] = port[a[t]]] /\ bb' = [bb EXCEPT ![t] = port[b[t]]]
      /\ UNCHANGED <<sockVars, other, a, b>>
  BY DEF GetNames, Goto
<1>2. a[t] \in Fds /\ b[t] \in Fds /\ Held(t) = {a[t], b[t]}
  BY <1>1 DEF IInv, TypeOK, StageInv, Held
<1>3. TypeOK'
  BY <1>1, <1>2 DEF IInv, TypeOK, sockVars
<1>4. pc'[t] = "connectA" /\ aa'[t] = port[a[t]] /\ bb'[t] = port[b[t]]
  BY <1>1 DEF IInv, TypeOK
<1>5. \A u \in Callers \ {t} : StageInv(u)' /\ Held(u)' = Held(u)
  <2>1. Kept(t)
    BY <1>1 DEF IInv, TypeOK, Kept
  <2> QED
    BY <1>1, <2>1, AllOthers DEF sockVars
<1>6. Held(t)' = Held(t)
  BY <1>1, <1>2, <1>4 DEF Held
<1>7. OwnInv'
  BY <1>1, <1>5, <1>6, OwnSame DEF IInv, sockVars
<1>8. PortInv'
  BY <1>1 DEF IInv, PortInv, sockVars
<1>9. StageInv(t)'
  BY <1>1, <1>4 DEF IInv, StageInv, sockVars
<1> QED
  BY <1>3, <1>5, <1>7, <1>8, <1>9 DEF IInv

\* One end sends to the other,
LEMMA ConnectAStep == ASSUME IInv, NEW t \in Callers, ConnectA(t) PROVE IInv'
<1>1. /\ pc[t] = "connectA" /\ pc' = [pc EXCEPT ![t] = "connectB"]
      /\ peer' = [peer EXCEPT ![a[t]] = bb[t]]
      /\ UNCHANGED <<open, port, other, a, b, aa, bb>>
  BY DEF ConnectA, Goto, RealConnect
<1>2. a[t] \in Fds /\ b[t] \in Fds /\ a[t] # b[t] /\ Held(t) = {a[t], b[t]}
  BY <1>1 DEF IInv, TypeOK, StageInv, Held
<1>3. TypeOK'
  BY <1>1 DEF IInv, TypeOK
<1>4. pc'[t] = "connectB" /\ peer'[a[t]] = bb[t]
  BY <1>1, <1>2 DEF IInv, TypeOK
<1>5. \A f \in Fds \ {a[t]} : port'[f] = port[f] /\ peer'[f] = peer[f]
  BY <1>1 DEF IInv, TypeOK
<1>6. \A u \in Callers \ {t} : StageInv(u)' /\ Held(u)' = Held(u)
  <2>1. Kept(t)
    BY <1>1 DEF IInv, TypeOK, Kept
  <2> QED
    BY <1>2, <1>5, <2>1, Others
<1>7. Held(t)' = Held(t)
  BY <1>1, <1>2, <1>4 DEF Held
<1>8. OwnInv'
  BY <1>1, <1>6, <1>7, OwnSame DEF IInv
<1>9. PortInv'
  BY <1>1 DEF IInv, PortInv
<1>10. StageInv(t)'
  BY <1>1, <1>2, <1>4, <1>5 DEF IInv, StageInv
<1> QED
  BY <1>3, <1>6, <1>8, <1>9, <1>10 DEF IInv

\* and the other way round.
LEMMA ConnectBStep == ASSUME IInv, NEW t \in Callers, ConnectB(t) PROVE IInv'
<1>1. /\ pc[t] = "connectB" /\ pc' = [pc EXCEPT ![t] = "piped"]
      /\ peer' = [peer EXCEPT ![b[t]] = aa[t]]
      /\ UNCHANGED <<open, port, other, a, b, aa, bb>>
  BY DEF ConnectB, Goto, RealConnect
<1>2. a[t] \in Fds /\ b[t] \in Fds /\ a[t] # b[t] /\ Held(t) = {a[t], b[t]}
  BY <1>1 DEF IInv, TypeOK, StageInv, Held
<1>3. TypeOK'
  BY <1>1 DEF IInv, TypeOK
<1>4. pc'[t] = "piped" /\ peer'[b[t]] = aa[t]
  BY <1>1, <1>2 DEF IInv, TypeOK
<1>5. \A f \in Fds \ {b[t]} : port'[f] = port[f] /\ peer'[f] = peer[f]
  BY <1>1 DEF IInv, TypeOK
<1>6. \A u \in Callers \ {t} : StageInv(u)' /\ Held(u)' = Held(u)
  <2>1. Kept(t)
    BY <1>1 DEF IInv, TypeOK, Kept
  <2> QED
    BY <1>2, <1>5, <2>1, Others
<1>7. Held(t)' = Held(t)
  BY <1>1, <1>2, <1>4 DEF Held
<1>8. OwnInv'
  BY <1>1, <1>6, <1>7, OwnSame DEF IInv
<1>9. PortInv'
  BY <1>1 DEF IInv, PortInv
<1>10. StageInv(t)'
  BY <1>1, <1>2, <1>4, <1>5 DEF IInv, StageInv
<1> QED
  BY <1>3, <1>6, <1>8, <1>9, <1>10 DEF IInv

\* Failure, or the end of the pipe: both sockets are still held.
LEMMA ToCloseStep ==
  ASSUME IInv, NEW t \in Callers, CallFails(t) \/ EndPipe(t)
  PROVE  IInv'
<1>1. /\ pc[t] \in {"bindA", "bindB", "name", "connectA", "connectB", "piped"}
      /\ pc' = [pc EXCEPT ![t] = "closeA"]
      /\ UNCHANGED <<sockVars, other, a, b, aa, bb>>
  BY DEF CallFails, EndPipe, Goto
<1>2. TypeOK'
  BY <1>1 DEF IInv, TypeOK, sockVars
<1>3. pc'[t] = "closeA"
  BY <1>1 DEF IInv, TypeOK
<1>4. \A u \in Callers \ {t} : StageInv(u)' /\ Held(u)' = Held(u)
  <2>1. Kept(t)
    BY <1>1 DEF IInv, TypeOK, Kept
  <2> QED
    BY <1>1, <2>1, AllOthers DEF sockVars
<1>5. Held(t)' = Held(t)
  BY <1>1, <1>3 DEF Held
<1>6. OwnInv'
  BY <1>1, <1>4, <1>5, OwnSame DEF IInv, sockVars
<1>7. PortInv'
  BY <1>1 DEF IInv, PortInv, sockVars
<1>8. StageInv(t)'
  BY <1>1, <1>3 DEF IInv, StageInv
<1> QED
  BY <1>2, <1>4, <1>6, <1>7, <1>8 DEF IInv

\* The first socket is given back and held no longer,
LEMMA CloseAStep == ASSUME IInv, NEW t \in Callers, CloseA(t) PROVE IInv'
<1>1. /\ pc[t] = "closeA" /\ pc' = [pc EXCEPT ![t] = "closeB"]
      /\ open' = open \ {a[t]}
      /\ port' = [port EXCEPT ![a[t]] = None] /\ peer' = [peer EXCEPT ![a[t]] = None]
      /\ UNCHANGED <<other, a, b, aa, bb>>
  BY DEF CloseA, Goto, RealClose
<1>2. a[t] \in Fds /\ b[t] \in Fds /\ a[t] # b[t] /\ Held(t) = {a[t], b[t]}
  BY <1>1 DEF IInv, TypeOK, StageInv, Held
<1>3. other' \subseteq open'
  BY <1>1, <1>2 DEF IInv, TypeOK, OwnInv
<1>4. TypeOK'
  BY <1>1, <1>3 DEF IInv, TypeOK
<1>5. pc'[t] = "closeB"
  BY <1>1 DEF IInv, TypeOK
<1>6. Held(t)' = {b[t]}
  BY <1>1, <1>5 DEF Held
<1>7. \A u \in Callers \ {t} : StageInv(u)' /\ Held(u)' = Held(u)
  <2>1. Kept(t)
    BY <1>1 DEF IInv, TypeOK, Kept
  <2>2. \A f \in Fds \ {a[t]} : port'[f] = port[f] /\ peer'[f] = peer[f]
    BY <1>1 DEF IInv, TypeOK
  <2> QED
    BY <1>2, <2>1, <2>2, Others
<1>8. OwnInv'
  BY <1>1, <1>2, <1>6, <1>7, OwnGive DEF IInv
<1>9. PortInv'
  BY <1>1, <1>2 DEF IInv, PortInv, TypeOK
<1>10. StageInv(t)'
  BY <1>1, <1>2, <1>5 DEF StageInv
<1> QED
  BY <1>4, <1>7, <1>8, <1>9, <1>10 DEF IInv

\* and so is the second.
LEMMA CloseBStep == ASSUME IInv, NEW t \in Callers, CloseB(t) PROVE IInv'
<1>1. /\ pc[t] = "closeB" /\ pc' = [pc EXCEPT ![t] = "idle"]
      /\ open' = open \ {b[t]}
      /\ port' = [port EXCEPT ![b[t]] = None] /\ peer' = [peer EXCEPT ![b[t]] = None]
      /\ a' = [a EXCEPT ![t] = None] /\ b' = [b EXCEPT ![t] = None]
      /\ aa' = [aa EXCEPT ![t] = None] /\ bb' = [bb EXCEPT ![t] = None]
      /\ UNCHANGED other
  BY DEF CloseB, Goto, RealClose, Forget
<1>2. b[t] \in Fds /\ Held(t) = {b[t]}
  BY <1>1 DEF IInv, TypeOK, StageInv, Held
<1>3. other' \subseteq open'
  BY <1>1, <1>2 DEF IInv, TypeOK, OwnInv
<1>4. TypeOK'
  BY <1>1, <1>3 DEF IInv, TypeOK
<1>5. pc'[t] = "idle" /\ a'[t] = None /\ b'[t] = None
  BY <1>1 DEF IInv, TypeOK
<1>6. Held(t)' = {}
  BY <1>5 DEF Held
<1>7. \A u \in Callers \ {t} : StageInv(u)' /\ Held(u)' = Held(u)
  <2>1. Kept(t)
    BY <1>1 DEF IInv, TypeOK, Kept
  <2>2. \A f \in Fds \ {b[t]} : port'[f] = port[f] /\ peer'[f] = peer[f]
    BY <1>1 DEF IInv, TypeOK
  <2> QED
    BY <1>2, <2>1, <2>2, Others
<1>8. OwnInv'
  BY <1>1, <1>2, <1>6, <1>7, OwnGive DEF IInv
<1>9. PortInv'
  BY <1>1, <1>2 DEF IInv, PortInv, TypeOK
<1>10. StageInv(t)'
  BY <1>5 DEF StageInv
<1> QED
  BY <1>4, <1>7, <1>8, <1>9, <1>10 DEF IInv

\* Sockets of threads that use them for other things.
LEMMA OthersStep == ASSUME IInv, OtherSocket \/ OtherBind \/ OtherClose PROVE IInv'
<1>0. UNCHANGED <<pc, a, b, aa, bb>>
  BY DEF OtherSocket, OtherBind, OtherClose
<1>1. PICK fd \in Fds :
        \/ RealSocket(fd) /\ other' = other \cup {fd}
        \/ fd \in other /\ RealBind(fd) /\ UNCHANGED other
        \/ fd \in other /\ RealClose(fd) /\ other' = other \ {fd}
  BY DEF OtherSocket, OtherBind, OtherClose, IInv, TypeOK
<1>2. \A u \in Callers : fd \notin Held(u)
  BY <1>1, HeldIsOpen DEF RealSocket, IInv, OwnInv
<1>3. \A f \in Fds \ {fd} : port'[f] = port[f] /\ peer'[f] = peer[f]
  BY <1>1 DEF RealSocket, RealBind, RealClose, IInv, TypeOK
<1>4. \A u \in Callers : StageInv(u)' /\ Held(u)' = Held(u)
  <2> TAKE u \in Callers
  <2>1. \A f \in Held(u) : f \in Fds \ {fd}
    BY <1>2, HeldIsOpen
  <2>2. StageInv(u)
    BY DEF IInv
  <2> QED
    BY <1>0, <1>3, <2>1, <2>2, StageFrame
<1>5. CASE RealSocket(fd) /\ other' = other \cup {fd}
  <2>1. fd \in Fds \ open /\ open' = open \cup {fd} /\ UNCHANGED <<port, peer>>
    BY <1>5 DEF RealSocket
  <2>2. TypeOK'
    BY <1>0, <1>5, <2>1 DEF IInv, TypeOK
  <2>3. OwnInv'
    BY <1>2, <1>4, <1>5, <2>1 DEF IInv, OwnInv
  <2>4. PortInv'
    BY <2>1 DEF IInv, PortInv
  <2> QED
    BY <1>4, <2>2, <2>3, <2>4 DEF IInv
<1>6. CASE fd \in other /\ RealBind(fd) /\ UNCHANGED other
  <2>1. PICK p \in Ports \ {port[f] : f \in open} : port' = [port EXCEPT ![fd] = p]
    BY <1>6 DEF RealBind
  <2>2. UNCHANGED <<open, peer, other>> /\ fd \in open
    BY <1>6 DEF RealBind, IInv, TypeOK
  <2>3. TypeOK'
    BY <1>0, <2>1, <2>2 DEF IInv, TypeOK
  <2>4. OwnInv'
    BY <1>4, <2>2, OwnSame DEF IInv
  <2>5. PortInv'
    <3>1. \A f \in open : p # port[f]
      BY <2>1
    <3>2. port'[fd] = p /\ open \subseteq Fds
      BY <2>1 DEF IInv, TypeOK
    <3> QED
      BY <1>3, <2>2, <3>1, <3>2 DEF IInv, PortInv
  <2> QED
    BY <1>4, <2>3, <2>4, <2>5 DEF IInv
<1>7. CASE fd \in other /\ RealClose(fd) /\ other' = other \ {fd}
  <2>1. /\ open' = open \ {fd}
        /\ port' = [port EXCEPT ![fd] = None] /\ peer' = [peer EXCEPT ![fd] = None]
    BY <1>7 DEF RealClose
  <2>2. TypeOK'
    BY <1>0, <1>7, <2>1 DEF IInv, TypeOK
  <2>3. OwnInv'
    BY <1>2, <1>4, <1>7, <2>1 DEF IInv, OwnInv
  <2>4. PortInv'
    BY <2>1 DEF IInv, PortInv, TypeOK
  <2> QED
    BY <1>4, <2>2, <2>3, <2>4 DEF IInv
<1> QED
  BY <1>1, <1>5, <1>6, <1>7

-----------------------------------------------------------------------------
\* At first no socket is in use.
LEMMA InitInv == Init => IInv
BY DEF Init, IInv, TypeOK, OwnInv, PortInv, StageInv, Held

\* IInv holds in every reachable state.
THEOREM Invariance == Spec => []IInv
<1>1. IInv /\ [Next]_vars => IInv'
  <2> SUFFICES ASSUME IInv, [Next]_vars PROVE IInv'
    OBVIOUS
  <2>1. CASE UNCHANGED vars
    <3>1. UNCHANGED <<open, port, peer, other, pc, a, b, aa, bb>>
      BY <2>1 DEF vars, sockVars
    <3>2. \A u \in Callers : StageInv(u)' /\ Held(u)' = Held(u)
      BY <3>1 DEF IInv, StageInv, Held
    <3>3. OwnInv'
      BY <3>1, <3>2, OwnSame DEF IInv
    <3> QED
      BY <3>1, <3>2, <3>3 DEF IInv, TypeOK, PortInv
  <2>2. CASE OtherSocket \/ OtherBind \/ OtherClose
    BY <2>2, OthersStep
  <2>3. ASSUME NEW t \in Callers, Pipe(t) PROVE IInv'
    BY <2>3, FirstSocketStep, SecondSocketStep, SecondFailsStep, BindAStep, BindBStep,
       GetNamesStep, ConnectAStep, ConnectBStep, ToCloseStep, CloseAStep, CloseBStep
    DEF Pipe
  <2> QED
    BY <2>1, <2>2, <2>3 DEF Next
<1> QED
  BY InitInv, <1>1, PTL DEF Spec

\* Every variable keeps its type, and nobody else's socket is a closed one.
THEOREM TypeCorrect == Spec => []TypeOK
<1>1. IInv => TypeOK
  BY DEF IInv
<1> QED
  BY Invariance, <1>1, PTL

\* However pipe() fails, every open socket still has exactly one owner.
THEOREM SocketsAreOwned == Spec => []NoSocketLeaks
<1>1. IInv => NoSocketLeaks
  <2> SUFFICES ASSUME IInv PROVE NoSocketLeaks
    OBVIOUS
  <2>1. open = other \cup UNION {Held(t) : t \in Callers}
    <3>1. \A t \in Callers : Held(t) \subseteq Fds
      BY HeldIsOpen
    <3>2. open \subseteq Fds /\ other \subseteq Fds
      BY DEF IInv, TypeOK
    <3> QED
      BY <3>1, <3>2 DEF IInv, OwnInv
  <2>2. \A t \in Callers : Held(t) \cap other = {} /\ (pc[t] = "idle" => Held(t) = {})
    <3> TAKE t \in Callers
    <3>1. pc[t] = "idle" => Held(t) = {}
      BY DEF IInv, StageInv, Held
    <3>2. Held(t) \cap other = {}
      BY DEF IInv, OwnInv
    <3> QED
      BY <3>1, <3>2
  <2>3. \A t, u \in Callers : t # u => Held(t) \cap Held(u) = {}
    BY DEF IInv, OwnInv
  <2> QED
    BY <2>1, <2>2, <2>3 DEF NoSocketLeaks
<1> QED
  BY Invariance, <1>1, PTL

\* The two ends of a pipe are connected to each other, and no other pipe to them.
THEOREM EndsAreConnected == Spec => []EndsMeet
<1>1. IInv => EndsMeet
  <2> SUFFICES ASSUME IInv, NEW t \in Callers, pc[t] = "piped"
               PROVE  /\ port[a[t]] # None /\ port[b[t]] # None
                      /\ peer[a[t]] = port[b[t]] /\ peer[b[t]] = port[a[t]]
                      /\ \A u \in Callers \ {t} : pc[u] = "piped" =>
                           {peer[a[u]], peer[b[u]]} \cap {port[a[t]], port[b[t]]} = {}
    BY DEF EndsMeet
  <2>1. \A u \in Callers : pc[u] = "piped" =>
          /\ a[u] \in Held(u) /\ b[u] \in Held(u)
          /\ port[a[u]] # None /\ port[b[u]] # None
          /\ peer[a[u]] = port[b[u]] /\ peer[b[u]] = port[a[u]]
    BY DEF IInv, StageInv, Held
  <2>2. ASSUME NEW u \in Callers \ {t}, pc[u] = "piped"
        PROVE  \A f \in {a[u], b[u]}, g \in {a[t], b[t]} : port[f] # port[g]
    <3>1. \A f \in Held(u), g \in Held(t) : f \in open /\ g \in open /\ f # g
      BY HeldIsOpen DEF IInv, OwnInv
    <3> QED
      BY <2>1, <2>2, <3>1 DEF IInv, PortInv
  <2> QED
    BY <2>1, <2>2
<1> QED
  BY Invariance, <1>1, PTL

-----------------------------------------------------------------------------
(* pipe() as one step.                                                     *)

\* A call touches its own two sockets and its own locals only.
LEMMA Touched ==
  ASSUME IInv, NEW t \in Callers, Pipe(t)
  PROVE  Kept(t) /\ \A f \in Fds \ Held(t) : port'[f] = port[f] /\ peer'[f] = peer[f]
<1> USE DEF Goto, Kept
<1>1. TypeOK /\ StageInv(t)
  BY DEF IInv
<1>2. CASE FirstSocket(t)
  BY <1>1, <1>2 DEF FirstSocket, RealSocket, TypeOK
<1>3. CASE SecondSocket(t)
  BY <1>1, <1>3 DEF SecondSocket, RealSocket, TypeOK
<1>4. CASE SecondFails(t)
  <2>1. a[t] \in Held(t)
    BY <1>1, <1>4 DEF SecondFails, StageInv, Held
  <2> QED
    BY <1>1, <1>4, <2>1 DEF SecondFails, RealClose, TypeOK
<1>5. CASE BindA(t) \/ ConnectA(t) \/ CloseA(t)
  <2>1. a[t] \in Held(t)
    BY <1>1, <1>5 DEF BindA, ConnectA, CloseA, StageInv, Held
  <2> QED
    BY <1>1, <1>5, <2>1
    DEF BindA, ConnectA, CloseA, RealBind, RealConnect, RealClose, TypeOK
<1>6. CASE BindB(t) \/ ConnectB(t)
  <2>1. b[t] \in Held(t)
    BY <1>1, <1>6 DEF BindB, ConnectB, StageInv, Held
  <2> QED
    BY <1>1, <1>6, <2>1 DEF BindB, ConnectB, RealBind, RealConnect, TypeOK
<1>7. CASE CloseB(t)
  <2>1. b[t] \in Held(t)
    BY <1>1, <1>7 DEF CloseB, Held
  <2> QED
    BY <1>1, <1>7, <2>1 DEF CloseB, RealClose, Forget, TypeOK
<1>8. CASE GetNames(t) \/ CallFails(t) \/ EndPipe(t)
  BY <1>1, <1>8 DEF GetNames, CallFails, EndPipe, sockVars, TypeOK
<1> QED
  BY <1>2, <1>3, <1>4, <1>5, <1>6, <1>7, <1>8 DEF Pipe

\* A pipe stays what it is while its ends and the locals of its caller do.
LEMMA PipeFrame ==
  ASSUME NEW u \in Callers, StageInv(u), pc'[u] = pc[u], a'[u] = a[u], b'[u] = b[u],
         \A f \in Held(u) : port'[f] = port[f] /\ peer'[f] = peer[f]
  PROVE  PipeOf(u)' = PipeOf(u)
<1>1. pc[u] = "piped" => a[u] \in Held(u) /\ b[u] \in Held(u)
  BY DEF Held, StageInv
<1> QED
  BY <1>1 DEF PipeOf

\* A call leaves the pipes of the other callers alone.
LEMMA OtherPipes ==
  ASSUME IInv, NEW t \in Callers, Pipe(t)
  PROVE  \A u \in Callers \ {t} : PipeOf(u)' = PipeOf(u)
<1> TAKE u \in Callers \ {t}
<1>1. \A f \in Held(u) : f \in Fds \ Held(t)
  BY HeldIsOpen DEF IInv, OwnInv
<1>2. StageInv(u)
  BY DEF IInv
<1>3. Kept(t) /\ \A f \in Fds \ Held(t) : port'[f] = port[f] /\ peer'[f] = peer[f]
  BY Touched
<1> QED
  BY <1>1, <1>2, <1>3, PipeFrame DEF Kept

\* So do the threads that use sockets for other things.
LEMMA AllPipes ==
  ASSUME IInv, OtherSocket \/ OtherBind \/ OtherClose
  PROVE  \A u \in Callers : PipeOf(u)' = PipeOf(u)
<1> TAKE u \in Callers
<1>1. StageInv(u)
  BY DEF IInv
<1>2. \A f \in Fds \ other : port'[f] = port[f] /\ peer'[f] = peer[f]
  BY DEF OtherSocket, OtherBind, OtherClose, RealSocket, RealBind, RealClose, IInv, TypeOK
<1>3. \A f \in Held(u) : f \in Fds \ other
  BY HeldIsOpen DEF IInv, OwnInv
<1>4. UNCHANGED <<pc, a, b>>
  BY DEF OtherSocket, OtherBind, OtherClose
<1> QED
  BY <1>1, <1>2, <1>3, <1>4, PipeFrame

\* What a pipe in use is made of.
LEMMA PipeEnds ==
  ASSUME IInv, NEW u \in Callers, NEW e \in PipeOf(u)
  PROVE  e[1] \in Held(u) /\ e[2] = port[e[1]]
BY DEF IInv, StageInv, PipeOf, Held

\* The last connect hands out a pair nobody else has any part of.
LEMMA ConnectBGets ==
  ASSUME IInv, NEW t \in Callers, ConnectB(t)
  PROVE  Pairs!Get(t)
<1> DEFINE f == a[t]
           g == b[t]
           p == port[a[t]]
           q == port[b[t]]
<1>1. /\ pc[t] = "connectB" /\ pc' = [pc EXCEPT ![t] = "piped"]
      /\ peer' = [peer EXCEPT ![b[t]] = aa[t]]
      /\ UNCHANGED <<open, port, other, a, b, aa, bb>>
  BY DEF ConnectB, Goto, RealConnect
<1>2. TypeOK /\ StageInv(t) /\ PortInv
  BY DEF IInv
<1>3. f \in Fds /\ g \in Fds /\ f # g /\ Held(t) = {f, g} /\ f \in open /\ g \in open
  <2>1. f \in Fds /\ g \in Fds /\ f # g /\ Held(t) = {f, g}
    BY <1>1, <1>2 DEF TypeOK, StageInv, Held
  <2> QED
    BY <2>1, HeldIsOpen
<1>4. p \in Ports /\ q \in Ports /\ p # q
  BY <1>1, <1>2, <1>3 DEF TypeOK, StageInv, PortInv
<1>5. PipeOf(t) = {} /\ PipeOf(t)' = {<<f, p, q>>, <<g, q, p>>}
  <2>1. pc'[t] = "piped" /\ peer'[f] = q /\ peer'[g] = p
    BY <1>1, <1>2, <1>3 DEF TypeOK, StageInv
  <2>2. a'[t] = f /\ b'[t] = g /\ port'[f] = p /\ port'[g] = q
    BY <1>1
  <2> QED
    BY <1>1, <2>1, <2>2 DEF PipeOf
<1>6. ASSUME NEW u \in Callers, NEW e \in PipeOf(u)
      PROVE  e[1] \notin {f, g} /\ e[2] \notin {p, q}
  <2>1. u # t
    BY <1>5, <1>6
  <2>2. e[1] \in Held(u) /\ e[2] = port[e[1]]
    BY <1>6, PipeEnds
  <2>3. e[1] \notin Held(t) /\ e[1] \in open
    BY <2>1, <2>2, HeldIsOpen DEF IInv, OwnInv
  <2> QED
    BY <1>2, <1>3, <1>4, <2>2, <2>3 DEF PortInv
<1>7. \A u \in Callers \ {t} : PipeOf(u)' = PipeOf(u)
  BY OtherPipes DEF Pipe
<1> HIDE DEF f, g, p, q
<1>8. f \in Fds \ Pairs!FdsInUse /\ g \in Fds \ Pairs!FdsInUse
  BY <1>3, <1>6 DEF Pairs!FdsInUse, Pairs!Ends
<1>9. p \in Ports \ Pairs!PortsInUse /\ q \in Ports \ Pairs!PortsInUse
  BY <1>4, <1>6 DEF Pairs!PortsInUse, Pairs!Ends
<1>10. [u \in Callers |-> PipeOf(u)'] =
         [[u \in Callers |-> PipeOf(u)] EXCEPT ![t] = {<<f, p, q>>, <<g, q, p>>}]
  BY <1>5, <1>7
<1> QED
  BY <1>3, <1>4, <1>5, <1>8, <1>9, <1>10 DEF Pairs!Get

\* A caller that is done with its pipe gives it up at once.
LEMMA EndPipeEnds ==
  ASSUME IInv, NEW t \in Callers, EndPipe(t)
  PROVE  Pairs!End(t)
<1>1. PipeOf(t) # {} /\ PipeOf(t)' = {}
  BY DEF EndPipe, Goto, PipeOf, IInv, TypeOK
<1>2. \A u \in Callers \ {t} : PipeOf(u)' = PipeOf(u)
  BY OtherPipes DEF Pipe
<1>3. [u \in Callers |-> PipeOf(u)'] = [[u \in Callers |-> PipeOf(u)] EXCEPT ![t] = {}]
  BY <1>1, <1>2
<1> QED
  BY <1>1, <1>3 DEF Pairs!End

\* No other step of a call hands out a pipe or takes one away.
LEMMA QuietStep ==
  ASSUME IInv, NEW t \in Callers, Pipe(t), ~ConnectB(t), ~EndPipe(t)
  PROVE  \A u \in Callers : PipeOf(u)' = PipeOf(u)
<1>1. pc[t] # "piped" /\ pc'[t] # "piped"
  BY DEF Pipe, FirstSocket, SecondSocket, SecondFails, BindA, BindB, GetNames, ConnectA,
         CallFails, CloseA, CloseB, Goto, IInv, TypeOK
<1>2. PipeOf(t)' = PipeOf(t)
  BY <1>1 DEF PipeOf
<1> QED
  BY <1>2, OtherPipes

\* However its socket calls interleave with everybody else's and fail, pipe()
\* hands out a fresh connected pair in one step or does nothing at all, and a pipe
\* in use is touched by nobody.
THEOREM PipeIsAtomic == Spec => ImplementsPairs
<1> DEFINE pairs == [t \in Callers |-> PipeOf(t)]
<1>1. Init => Pairs!Init
  BY DEF Init, Pairs!Init, PipeOf
<1>2. IInv /\ [Next]_vars => [Pairs!Next]_pairs
  <2> SUFFICES ASSUME IInv, [Next]_vars PROVE Pairs!Next \/ UNCHANGED pairs
    OBVIOUS
  <2>1. CASE UNCHANGED vars
    BY <2>1 DEF vars, sockVars, PipeOf
  <2>2. CASE OtherSocket \/ OtherBind \/ OtherClose
    BY <2>2, AllPipes
  <2>3. ASSUME NEW t \in Callers, Pipe(t) PROVE Pairs!Next \/ UNCHANGED pairs
    <3>1. CASE ConnectB(t)
      BY <3>1, ConnectBGets DEF Pairs!Next
    <3>2. CASE EndPipe(t)
      BY <3>2, EndPipeEnds DEF Pairs!Next
    <3>3. CASE ~ConnectB(t) /\ ~EndPipe(t)
      BY <2>3, <3>3, QuietStep
    <3> QED
      BY <3>1, <3>2, <3>3
  <2> QED
    BY <2>1, <2>2, <2>3 DEF Next
<1> QED
  BY Invariance, <1>1, <1>2, PTL DEF Spec, ImplementsPairs, Pairs!Spec
=============================================================================
