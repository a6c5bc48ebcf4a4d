--------------------------- MODULE HeartbeatProofs ---------------------------
(***************************************************************************)
(* Proofs about Heartbeat, for a table of any size and any set of peers,   *)
(* roles and addresses.                                                    *)
(***************************************************************************)
EXTENDS Heartbeat, TLAPS

USE PeersAssumption, RolesAssumption, SlotsAssumption, AddrsAssumption

\* A step that leaves the table alone keeps what IInv says about it.
LEMMA TableKept ==
  ASSUME IInv, UNCHANGED tableVars
  PROVE  NoPeerTwice' /\ TableInv' /\ Settled' = Settled
<1>1. UNCHANGED <<ids, roles, count, pending, newest, told>>
  BY DEF tableVars
<1>2. Target' = Target /\ Settled' = Settled
  BY <1>1 DEF Target, Settled
<1>3. NoPeerTwice'
  BY <1>1 DEF IInv, NoPeerTwice, Index
<1>4. NewestInv' <=> NewestInv
  BY <1>1, <1>2 DEF NewestInv, Index
<1>5. TableInv'
  BY <1>1, <1>2, <1>4 DEF IInv, TableInv
<1> QED
  BY <1>2, <1>3, <1>5

\* A new peer takes the slot behind the last entry; nothing of it is visible yet.
LEMMA AppendKeeps ==
  ASSUME IInv, NEW p \in Peers, NEW r \in Roles, RememberPeer(p, r)
  PROVE  IInv'
<1> USE DEF Index
<1>1. pending = {} /\ count \in Nat /\ count < Slots /\ count \in Index /\ Settled = count
  BY DEF RememberPeer, IInv, TypeOK, Settled
<1>2. pending' = {"id", "role", "count"} /\ newest' = [id |-> p, role |-> r]
      /\ told' = told \cup {<<p, r>>}
      /\ UNCHANGED <<ids, roles, count, addr, pc, ipVars, pathVars>>
  BY DEF RememberPeer
<1>3. Target' = count /\ Settled' = count
  BY <1>1, <1>2 DEF Target, Settled
<1>4. \A s \in Index : ids[s] # p
  BY <1>1 DEF RememberPeer, Known, IInv, TableInv
<1>5. TypeOK'
  BY <1>1, <1>2 DEF IInv, TypeOK, ipVars, pathVars
<1>6. NoPeerTwice'
  BY <1>2 DEF IInv, NoPeerTwice
<1>7. NewestInv'
  <2>1. newest'.id = p /\ newest'.role = r /\ ids[count] = 0
    BY <1>1, <1>2 DEF IInv, TableInv
  <2> QED
    BY <1>1, <1>2, <1>3, <1>4, <2>1 DEF NewestInv
<1>8. TableInv'
  BY <1>1, <1>2, <1>3, <1>7 DEF IInv, TableInv
<1>9. ReportInv'
  BY <1>1, <1>2, <1>3 DEF IInv, ReportInv, ipVars, pathVars
<1> QED
  BY <1>5, <1>6, <1>8, <1>9 DEF IInv

\* The slot of the new entry stays the same while its stores become visible in
\* any order, and only the last of them makes the entry a settled one.
LEMMA StoreKeeps ==
  ASSUME IInv, StoreVisible
  PROVE  IInv'
<1> USE DEF Index
<1>1. PICK st \in pending :
        /\ pending' = pending \ {st}
        /\ ids' = IF st = "id" THEN [ids EXCEPT ![Target] = newest.id] ELSE ids
        /\ roles' = IF st = "role" THEN [roles EXCEPT ![Target] = newest.role] ELSE roles
        /\ count' = IF st = "count" THEN count + 1 ELSE count
  BY DEF StoreVisible
<1>2. UNCHANGED <<newest, told, addr, pc, ipVars, pathVars>>
  BY DEF StoreVisible
<1>3. NewestInv /\ Settled = Target /\ Target \in Index
  BY DEF IInv, TableInv, NewestInv, Settled
<1>4. st \in {"id", "role", "count"} /\ pending \subseteq {"id", "role", "count"}
      /\ count \in 0 .. Slots /\ ids \in [Index -> Peers \cup {0}] /\ roles \in [Index -> Roles]
      /\ newest.id \in Peers /\ newest.role \in Roles
  BY <1>1, <1>3 DEF IInv, TypeOK, NewestInv
<1>5. Target' = Target
  BY <1>1, <1>4 DEF Target
<1>6. count' \in 0 .. Slots /\ ("count" \in pending' => count' < Slots)
  BY <1>1, <1>3, <1>4 DEF Target
<1>7. \A s \in Index : s # Target => ids'[s] = ids[s] /\ roles'[s] = roles[s]
  BY <1>1, <1>4
<1>8. ids'[Target] = IF "id" \in pending' THEN 0 ELSE newest.id
  BY <1>1, <1>3, <1>4 DEF NewestInv
<1>9. "role" \in pending' \/ roles'[Target] = newest.role
  BY <1>1, <1>3, <1>4 DEF NewestInv
<1>10. Settled' = IF pending' = {} THEN Target + 1 ELSE Target
  BY <1>1, <1>3, <1>4, <1>5 DEF Settled, Target
<1>11. TypeOK'
  <2>1. ids' \in [Index -> Peers \cup {0}] /\ roles' \in [Index -> Roles]
    BY <1>1, <1>3, <1>4
  <2>2. pending' \subseteq {"id", "role", "count"}
    BY <1>1, <1>4
  <2> QED
    BY <1>2, <1>6, <2>1, <2>2 DEF IInv, TypeOK, ipVars, pathVars
<1>12. NoPeerTwice'
  <2> SUFFICES ASSUME NEW s \in Index, NEW u \in Index, s < u, ids'[s] # 0
               PROVE  ids'[s] # ids'[u]
    BY DEF NoPeerTwice
  <2>1. CASE s = Target
    BY <1>3, <1>4, <1>7, <1>8, <2>1 DEF NewestInv
  <2>2. CASE u = Target
    BY <1>3, <1>4, <1>7, <1>8, <2>2 DEF NewestInv
  <2>3. CASE s # Target /\ u # Target
    BY <1>7, <2>3 DEF IInv, NoPeerTwice
  <2> QED
    BY <2>1, <2>2, <2>3
<1>13. TableInv'
  <2>1. NewestInv'
    BY <1>2, <1>3, <1>4, <1>5, <1>7, <1>8, <1>9 DEF NewestInv
  <2>2. ASSUME NEW s \in Index, s < Settled'
        PROVE  <<ids'[s], roles'[s]>> \in told'
    <3>1. CASE s = Target
      BY <1>2, <1>3, <1>8, <1>9, <1>10, <2>2, <3>1 DEF NewestInv
    <3>2. CASE s # Target
      BY <1>2, <1>3, <1>7, <1>10, <2>2, <3>2 DEF IInv, TableInv
    <3> QED
      BY <3>1, <3>2
  <2>3. ASSUME NEW s \in Index, s > Settled' \/ (s = Settled' /\ pending' = {})
        PROVE  ids'[s] = 0
    BY <1>3, <1>7, <1>10, <2>3 DEF IInv, TableInv
  <2> QED
    BY <2>1, <2>2, <2>3 DEF TableInv
<1>14. ReportInv'
  <2>1. count' >= count /\ Settled' >= Settled
    BY <1>1, <1>3, <1>4, <1>10
  <2>2. i \in Nat /\ whole \in Nat /\ count \in Nat /\ Settled \in Nat
        /\ count' \in Nat /\ Settled' \in Nat
    BY <1>1, <1>3, <1>4, <1>10 DEF IInv, TypeOK
  <2>3. UNCHANGED <<pc, i, whole, counted, queried>>
    BY <1>2 DEF pathVars
  <2>4. pc \in {"path", "print"} /\ i < whole => i \in Index /\ i # Target
    BY <1>3, <2>2 DEF IInv, ReportInv
  <2> QED
    BY <1>7, <2>1, <2>2, <2>3, <2>4 DEF IInv, ReportInv
<1> QED
  BY <1>11, <1>12, <1>13, <1>14 DEF IInv

\* Every step of main, of the event thread and of the service keeps IInv.
LEMMA Step ==
  ASSUME IInv, [Next]_vars
  PROVE  IInv'
<1>1. ASSUME NEW p \in Peers, NEW r \in Roles, RememberPeer(p, r)
      PROVE  IInv'
  BY <1>1, AppendKeeps
<1>2. CASE StoreVisible
  BY <1>2, StoreKeeps
<1>3. ASSUME UNCHANGED tableVars, TypeOK', ReportInv'
      PROVE  IInv'
  BY <1>3, TableKept DEF IInv
<1>4. count \in 0 .. Slots /\ Settled \in 0 .. count
  BY DEF IInv, TypeOK, TableInv, NewestInv, Settled, Target, Index
<1> USE DEF IInv, TypeOK, ReportInv, Goto, tableVars, ipVars, pathVars
<1>5. CASE ChangeAddress
  <2>1. UNCHANGED tableVars /\ Settled' = Settled
    BY <1>5, TableKept DEF ChangeAddress
  <2> QED
    BY <1>3, <1>5, <2>1 DEF ChangeAddress
<1>6. CASE CheckAddress
  <2>1. UNCHANGED tableVars /\ Settled' = Settled
    BY <1>6, TableKept DEF CheckAddress
  <2>2. whole' = Settled
    BY <1>6 DEF CheckAddress, Settled, Target
  <2> QED
    BY <1>3, <1>4, <1>6, <2>1, <2>2 DEF CheckAddress
<1>7. CASE GetAddress
  <2>1. UNCHANGED tableVars /\ Settled' = Settled
    BY <1>7, TableKept DEF GetAddress
  <2> QED
    BY <1>3, <1>7, <2>1 DEF GetAddress
<1>8. CASE Banner
  <2>1. UNCHANGED tableVars /\ Settled' = Settled
    BY <1>8, TableKept DEF Banner
  <2> QED
    BY <1>3, <1>8, <2>1 DEF Banner
<1>9. CASE CountPaths
  <2>1. UNCHANGED tableVars /\ Settled' = Settled
    BY <1>9, TableKept DEF CountPaths
  <2>2. i \in Index /\ counted' = ids[i]
    BY <1>4, <1>9 DEF CountPaths, Index
  <2> QED
    BY <1>3, <1>9, <2>1, <2>2 DEF CountPaths
<1>13. CASE QueryPath
  <2>1. UNCHANGED tableVars /\ Settled' = Settled
    BY <1>13, TableKept DEF QueryPath
  <2>2. i \in Index /\ ids[i] \in Peers \cup {0}
    BY <1>4, <1>13 DEF QueryPath, Index
  <2> QED
    BY <1>3, <1>13, <2>1, <2>2 DEF QueryPath
<1>10. CASE PrintPath
  <2>1. UNCHANGED tableVars /\ Settled' = Settled
    BY <1>10, TableKept DEF PrintPath
  <2>2. i \in Index /\ ids[i] \in Peers \cup {0} /\ roles[i] \in Roles
    BY <1>4, <1>10 DEF PrintPath, Index
  <2> QED
    BY <1>3, <1>10, <2>1, <2>2 DEF PrintPath, Index
<1>11. CASE EndHeartbeat
  <2>1. UNCHANGED tableVars /\ Settled' = Settled
    BY <1>11, TableKept DEF EndHeartbeat
  <2>2. i' = 0 /\ counted' = 0 /\ queried' = 0 /\ pc' = "idle" /\ UNCHANGED <<addr, lastIp, line, whole>>
    BY <1>11, Zenon DEF EndHeartbeat
  <2>3. haveIp' = FALSE /\ ip' = "none"
    BY <1>11, Zenon DEF EndHeartbeat
  <2>4. TypeOK' /\ ReportInv'
    <3>1. ReportInv'
      BY <2>2
    <3>2. 0 \in 0 .. Slots /\ whole' \in 0 .. Slots
      BY <2>2
    <3>3. line' \in [slot : 0 .. Slots, counted : Peers \cup {0}, queried : Peers \cup {0}, id : Peers \cup {0}, role : Roles]
      BY <2>2
    <3>4. lastIp' \in Addrs \cup {"none", "empty"} /\ addr' \in Addrs \cup {"none"}
      BY <2>2
    <3>5. pc' \in {"idle", "str", "banner", "query", "path", "print"}
      BY <2>2
    <3>6. TypeOK'
      BY <2>1, <2>2, <2>3, <3>2, <3>3, <3>4, <3>5
    <3> QED
      BY <3>1, <3>6
  <2> QED
    BY <1>3, <2>1, <2>4
<1>12. CASE UNCHANGED vars
  <2>1. UNCHANGED tableVars /\ Settled' = Settled
    BY <1>12, TableKept DEF vars
  <2> QED
    BY <1>3, <1>12, <2>1 DEF vars
<1> QED
  BY <1>1, <1>2, <1>5, <1>6, <1>7, <1>8, <1>9, <1>10, <1>11, <1>12, <1>13
  DEF Next, Heartbeat

\* IInv holds in every reachable state.
THEOREM Invariance == Spec => []IInv
<1>1. Init => IInv
  <2> SUFFICES ASSUME Init PROVE IInv
    OBVIOUS
  <2>1. Settled = 0
    BY DEF Init, Settled
  <2>2. NoPeerTwice /\ TableInv /\ ReportInv
    BY <2>1 DEF Init, NoPeerTwice, TableInv, ReportInv, Index
  <2>3. ids \in [Index -> Peers \cup {0}] /\ roles \in [Index -> Roles]
    BY DEF Init
  <2>4. line \in [slot : 0 .. Slots, counted : Peers \cup {0}, queried : Peers \cup {0}, id : Peers \cup {0}, role : Roles]
    BY DEF Init, NoLine
  <2>5. newest \in [id : Peers \cup {0}, role : Roles]
    BY DEF Init
  <2>6. count \in 0 .. Slots /\ i \in 0 .. Slots /\ whole \in 0 .. Slots
        /\ ("count" \in pending => count < Slots)
    BY DEF Init
  <2>7. haveIp \in BOOLEAN /\ ip \in Addrs \cup {"none"} /\ lastIp \in Addrs \cup {"none", "empty"}
    BY DEF Init
  <2>8. TypeOK
    BY <2>3, <2>4, <2>5, <2>6, <2>7 DEF Init, TypeOK
  <2> QED
    BY <2>2, <2>8 DEF IInv
<1> QED
  BY <1>1, Step, PTL DEF Spec

\* Every variable keeps its type and the table is never overrun, whatever its size.
THEOREM TypeCorrect == Spec => []TypeOK
<1>1. IInv => TypeOK
  BY DEF IInv
<1> QED
  BY Invariance, <1>1, PTL

\* No peer is in two slots, in whatever order the stores of an append are seen.
THEOREM PeersAreDistinct == Spec => []NoPeerTwice
<1>1. IInv => NoPeerTwice
  BY DEF IInv
<1> QED
  BY Invariance, <1>1, PTL

\* A line about an entry that was complete when the heartbeat began is not torn.
THEOREM OnlyNewestIsTorn == Spec => TornOnlyNewest
<1>1. IInv /\ [Next]_vars =>
        [PrintPath /\ i < whole =>
           /\ line'.counted = line'.id /\ line'.queried = line'.id
           /\ <<line'.id, line'.role>> \in told]_vars
  <2> SUFFICES ASSUME IInv, PrintPath, i < whole
               PROVE  /\ line'.counted = line'.id /\ line'.queried = line'.id
                      /\ <<line'.id, line'.role>> \in told
    OBVIOUS
  <2>1. i \in Index /\ i < Settled /\ counted = ids[i] /\ queried = ids[i]
    BY DEF PrintPath, Goto, IInv, TypeOK, ReportInv, Settled, Target, Index
  <2>2. line' = [slot |-> i, counted |-> counted, queried |-> queried, id |-> ids[i], role |-> roles[i]]
    BY DEF PrintPath
  <2> QED
    BY <2>1, <2>2 DEF IInv, TableInv
<1> QED
  BY Invariance, <1>1, PTL DEF Spec, TornOnlyNewest
=============================================================================
