----------------------------- MODULE Heartbeat -----------------------------
(***************************************************************************)
(* The five-second heartbeat of source/main.cpp's main loop and the peer   *)
(* table it reads.  libzt's event thread fills the table in remember_peer  *)
(* without a lock, so main sees the three stores of an append in any order.*)
(* zt_log, which locks and unlocks a mutex, ends each event: all stores of *)
(* one event are visible before those of the next.                         *)
(***************************************************************************)
EXTENDS Naturals

CONSTANTS
  Peers,  \* identities of peers, never 0
  Roles,  \* roles of peers; 0, what a fresh slot holds, is the leaf role
  Slots,  \* sizeof(g_peer_ids) / sizeof(g_peer_ids[0])
  Addrs   \* addresses the controller may assign

ASSUME PeersAssumption == 0 \notin Peers
ASSUME RolesAssumption == 0 \in Roles
ASSUME SlotsAssumption == Slots \in Nat \ {0}
ASSUME AddrsAssumption == {"none", "empty"} \cap Addrs = {}

VARIABLES
  ids, roles, count,  \* g_peer_ids, g_peer_roles, g_peer_count as main sees them
  pending,            \* stores of remember_peer that are not visible yet
  newest,             \* the entry they belong to
  told,               \* pairs <<peer, role>> of the entries appended so far
  addr,               \* the address libzt has for the network, or "none"
  pc,                 \* where main is in the heartbeat, "idle" outside
  haveIp, ip, lastIp, \* have_ip, ip, g_last_ip
  i,                  \* loop index
  counted, queried,   \* the ids whose paths were counted and asked for
  line,               \* the [PATH] line printed last
  whole               \* entries that were complete when this heartbeat began

tableVars == <<ids, roles, count, pending, newest, told>>
ipVars    == <<haveIp, ip, lastIp>>
pathVars  == <<i, counted, queried, line, whole>>
vars == <<tableVars, addr, pc, ipVars, pathVars>>

Index == 0 .. Slots - 1
NoLine == [slot |-> Slots, counted |-> 0, queried |-> 0, id |-> 0, role |-> 0]

Init ==
  /\ ids = [s \in Index |-> 0] /\ roles = [s \in Index |-> 0] /\ count = 0
  /\ pending = {} /\ newest = [id |-> 0, role |-> 0] /\ told = {}
  /\ addr = "none"
  /\ pc = "idle"
  /\ haveIp = FALSE /\ ip = "none" /\ lastIp = "empty"
  /\ i = 0 /\ counted = 0 /\ queried = 0 /\ line = NoLine /\ whole = 0

-----------------------------------------------------------------------------
(* The event thread.                                                       *)

Known(p) == \E s \in Index : s < count /\ ids[s] = p

\* Mutants of RememberPeer: the search for the peer is forgotten, a full table
\* starts over.
BugNoSearch(p, r) ==
  /\ pending = {} /\ count < Slots
  /\ pending' = {"id", "role", "count"}
  /\ newest' = [id |-> p, role |-> r]
  /\ told' = told \cup {<<p, r>>}
  /\ UNCHANGED <<ids, roles, count, addr, pc, ipVars, pathVars>>

BugStartsOver(p, r) ==
  /\ pending = {} /\ ~Known(p)
  /\ pending' = {"id", "role", "count"}
  /\ newest' = [id |-> p, role |-> r]
  /\ told' = told \cup {<<p, r>>}
  /\ count' = count % Slots
  /\ UNCHANGED <<ids, roles, addr, pc, ipVars, pathVars>>

\* Any PEER_ event.  A known peer keeps the role it was first seen with, and a
\* full table takes nobody.
RememberPeer(p, r) ==
  /\ pending = {} /\ ~Known(p) /\ count < Slots
  /\ pending' = {"id", "role", "count"}
  /\ newest' = [id |-> p, role |-> r]
  /\ told' = told \cup {<<p, r>>}
  /\ UNCHANGED <<ids, roles, count, addr, pc, ipVars, pathVars>>

\* One of the three stores becomes visible.  The slot is the one after the last
\* entry, whether or not the new count is visible.
Target == IF "count" \in pending THEN count ELSE count - 1

StoreVisible ==
  /\ \E st \in pending :
       /\ pending' = pending \ {st}
       /\ ids' = IF st = "id" THEN [ids EXCEPT ![Target] = newest.id] ELSE ids
       /\ roles' = IF st = "role" THEN [roles EXCEPT ![Target] = newest.role] ELSE roles
       /\ count' = IF st = "count" THEN count + 1 ELSE count
  /\ UNCHANGED <<newest, told, addr, pc, ipVars, pathVars>>

-----------------------------------------------------------------------------
(* The service: addresses come and go while main runs.                     *)

ChangeAddress ==
  /\ addr' \in (Addrs \cup {"none"}) \ {addr}
  /\ UNCHANGED <<tableVars, pc, ipVars, pathVars>>

-----------------------------------------------------------------------------
(* main(), every 500 rounds of its loop.                                   *)

Goto(from, to) == pc = from /\ pc' = to

CheckAddress ==
  /\ Goto("idle", "str")
  /\ haveIp' = (addr # "none")
  /\ whole' = IF pending = {} THEN count ELSE IF "count" \in pending THEN count ELSE count - 1
  /\ UNCHANGED <<tableVars, addr, ip, lastIp, i, counted, queried, line>>

GetAddress ==
  /\ Goto("str", "banner")
  /\ ip' = addr
  /\ UNCHANGED <<tableVars, addr, haveIp, lastIp, pathVars>>

\* Mutant of Banner: only the first address is announced.
BugBannerOnce ==
  /\ Goto("banner", "query")
  /\ lastIp' = IF haveIp /\ lastIp = "empty" THEN ip ELSE lastIp
  /\ i' = 0
  /\ UNCHANGED <<tableVars, addr, haveIp, ip, counted, queried, line, whole>>

\* g_last_ip is what the last banner showed.
Banner ==
  /\ Goto("banner", "query")
  /\ lastIp' = IF haveIp /\ ip # lastIp THEN ip ELSE lastIp
  /\ i' = 0
  /\ UNCHANGED <<tableVars, addr, haveIp, ip, counted, queried, line, whole>>

\* Mutant of CountPaths: the last entry is left out.
BugSkipsLast ==
  /\ i + 1 < count
  /\ Goto("query", "path")
  /\ counted' = ids[i]
  /\ UNCHANGED <<tableVars, addr, ipVars, i, queried, line, whole>>

CountPaths ==
  /\ i < count
  /\ Goto("query", "path")
  /\ counted' = ids[i]
  /\ UNCHANGED <<tableVars, addr, ipVars, i, queried, line, whole>>

\* The first path is asked for if there is one; the id is read again.
QueryPath ==
  /\ Goto("path", "print")
  /\ queried' \in {ids[i], counted}
  /\ UNCHANGED <<tableVars, addr, ipVars, i, counted, line, whole>>

\* The printf reads the table a third time.
PrintPath ==
  /\ Goto("print", "query")
  /\ line' = [slot |-> i, counted |-> counted, queried |-> queried,
              id |-> ids[i], role |-> roles[i]]
  /\ i' = i + 1
  /\ UNCHANGED <<tableVars, addr, ipVars, counted, queried, whole>>

\* The locals of the round are gone.
EndHeartbeat ==
  /\ i >= count
  /\ Goto("query", "idle")
  /\ haveIp' = FALSE /\ ip' = "none" /\ i' = 0 /\ counted' = 0 /\ queried' = 0
  /\ UNCHANGED <<tableVars, addr, lastIp, line, whole>>

Heartbeat ==
  \/ CheckAddress \/ GetAddress \/ Banner
  \/ CountPaths \/ QueryPath \/ PrintPath \/ EndHeartbeat

Next ==
  \/ \E p \in Peers, r \in Roles : RememberPeer(p, r)
  \/ StoreVisible
  \/ ChangeAddress
  \/ Heartbeat

Spec == Init /\ [][Next]_vars

\* The main loop goes on, and stores do become visible.
FairSpec == Spec /\ WF_vars(Heartbeat) /\ WF_vars(StoreVisible)

-----------------------------------------------------------------------------
\* The types of the variables; the table is never overrun.
TypeOK ==
  /\ ids \in [Index -> Peers \cup {0}] /\ roles \in [Index -> Roles]
  /\ count \in 0 .. Slots /\ ("count" \in pending => count < Slots)
  /\ pending \subseteq {"id", "role", "count"}
  /\ newest \in [id : Peers \cup {0}, role : Roles]
  /\ told \subseteq Peers \X Roles
  /\ addr \in Addrs \cup {"none"}
  /\ pc \in {"idle", "str", "banner", "query", "path", "print"}
  /\ haveIp \in BOOLEAN /\ ip \in Addrs \cup {"none"} /\ lastIp \in Addrs \cup {"none", "empty"}
  /\ i \in 0 .. Slots /\ whole \in 0 .. Slots
  /\ counted \in Peers \cup {0} /\ queried \in Peers \cup {0}
  /\ line \in [slot : 0 .. Slots, counted : Peers \cup {0}, queried : Peers \cup {0}, id : Peers \cup {0}, role : Roles]

\* No peer takes two of the slots, so none is reported twice in one heartbeat,
\* whatever main has seen of the entry being added.
NoPeerTwice ==
  \A s, u \in Index : s < u /\ ids[s] # 0 => ids[s] # ids[u]

\* A peer whose entry was complete when the heartbeat began is reported as the
\* event told it, and its paths are those of the peer the line names: the race
\* with remember_peer can only tear the entry that is being added.
TornOnlyNewest ==
  [][PrintPath /\ i < whole =>
       /\ line'.counted = line'.id /\ line'.queried = line'.id
       /\ <<line'.id, line'.role>> \in told]_vars

\* Every peer that got a slot is reported in the end, by id and role, although
\* its first line may have been torn.
PeerIsReported ==
  \A p \in Peers, r \in Roles :
    <<p, r>> \in told ~>
      line.counted = p /\ line.queried = p /\ line.id = p /\ line.role = r

\* An address that stays is the one the last banner shows, also when an earlier
\* one was lost between the two calls and a banner said "none".
AddressIsShown ==
  \A a \in Addrs : <>[](addr = a) => <>[](lastIp = a)

-----------------------------------------------------------------------------
(* The inductive invariant behind the proofs.                              *)

\* Entries all of whose stores are visible.
Settled == IF pending = {} THEN count ELSE Target

\* The entry being added goes behind the settled ones, to a peer that has none.
NewestInv ==
  /\ Target \in Index
  /\ newest.id \in Peers /\ <<newest.id, newest.role>> \in told
  /\ ids[Target] = IF "id" \in pending THEN 0 ELSE newest.id
  /\ "role" \in pending \/ roles[Target] = newest.role
  /\ \A s \in Index : s # Target => ids[s] # newest.id

TableInv ==
  /\ \A s \in Index : s < Settled => <<ids[s], roles[s]>> \in told
  /\ \A s \in Index : s > Settled \/ (s = Settled /\ pending = {}) => ids[s] = 0
  /\ pending # {} => NewestInv

\* What main read of a settled entry is what is still there.
ReportInv ==
  /\ pc \in {"path", "print"} => i < count
  /\ pc # "idle" => whole <= Settled
  /\ pc \in {"path", "print"} /\ i < whole => counted = ids[i]
  /\ pc = "print" /\ i < whole => queried = ids[i]

IInv == TypeOK /\ NoPeerTwice /\ TableInv /\ ReportInv
=============================================================================
