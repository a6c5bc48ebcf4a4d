---------------------------- MODULE PatchScripts ----------------------------
(***************************************************************************)
(* Running the patch scripts of scripts/ over one checkout, in any order,  *)
(* again and again.  A script that misses an anchor exits and leaves what  *)
(* it has written so far; it can also be killed, between two files or in   *)
(* the middle of writing one, which cuts that file short.  Nobody records  *)
(* what has been run: each script has only the text to go by.              *)
(***************************************************************************)
EXTENDS LibztPatches, LdnPatches, FiniteSets

CONSTANTS
  Workspaces,  \* the sets of scripts that share a checkout
  MaxStarts,   \* bound: scripts started
  MaxMishaps   \* bound: passages lost upstream and files cut short, together

Script == [bootstrap |-> PatchBootstrap, libzt |-> PatchLibzt, lwip |-> PatchLwip,
           phy |-> PatchPhy, restore |-> RestoreChecksum, peerinfo |-> PatchPeerInfo,
           keepalive |-> PatchKeepalive, auth |-> PatchAuthTrace, hotpath |-> PatchHotPath,
           ldn |-> PatchLdn, check |-> AnchorCheck, stubs |-> StubStep]
Scripts == DOMAIN Script

ASSUME WorkspaceAssumption == Workspaces \subseteq SUBSET Scripts
ASSUME StartsAssumption == MaxStarts \in Nat
ASSUME MishapsAssumption == MaxMishaps \in Nat

\* The files of both, those of "one" where both have one.
Both(one, other) ==
  [f \in DOMAIN one \cup DOMAIN other |-> IF f \in DOMAIN one THEN one[f] ELSE other[f]]

Sources == Both(Upstream, LdnUpstream)
Files == DOMAIN Sources
Idle == "no-script"
Nothing == << >>
Older == <<"older-application">>

\* Passages that are part of longer ones, as <<part, whole>>: without the part
\* the whole is gone too.
Within == [
  Constants     |-> {"ZT_INLINE"} \X {"ZT_INLINE-block"} \cup
                    {"ZT_PEER_PING_PERIOD"} \X {"ping-60-s", "expiration-4-pings", "trial-10-pings"},
  Phy           |-> {<<"UNIX_LISTEN", "unlink-block">>, <<"recvfrom(", "recvfrom-statement">>},
  CMake         |-> {"GLOB", "globbed-PortMapper"} \X {"upstream-glob"} \cup
                    {"GLOB"} \X {"globbed-PortMapper"},
  VirtualTap    |-> {<<"driver_init", "driver_init-start">>, <<"driver_loop", "driver_loop-begin">>,
                     <<"sys_thread_new(", "plain-sys_thread_new">>},
  sys_arch      |-> {"sys_thread_new("} \X {"sys_thread_new-begin", "function-start"} \cup
                    {"pthread_create", "pthread_create(&tmp", "if-0==code"} \X {"plain-create"} \cup
                    {<<"sys_thread_new-begin", "function-start">>,
                     <<"pthread_create", "pthread_create(&tmp">>},
  tcpip         |-> {<<"tcpip_thread", "tcpip_thread-begin">>, <<"tcpip_init", "tcpip_init-begin">>},
  lan_protocol  |-> {"pfds[nfds]", "rc=poll"} \X {"poll-loop"} \cup
                    {<<"addr_len", "recvfrom-addr">>, <<"::close", "::close-line">>,
                     <<"recvfrom", "recvfrom-line">>, <<"sendto", "sendto-line">>,
                     <<"sendto-addr", "sendto-addr-line">>},
  lan_discovery |-> {<<"accept", "accept-block">>, <<"local-ip", "local-ip-block">>,
                     <<"mac-ip", "mac-ip-block">>, <<"getBroadcast", "getBroadcast-def">>,
                     <<"setSocketOpts", "setSocketOpts-def">>, <<"tcp-socket", "tcp-socket-line">>,
                     <<"bind-1", "bind-1-line">>, <<"bind-2", "bind-2-line">>,
                     <<"listen", "listen-line">>, <<"udp-socket", "udp-socket-line">>,
                     <<"connect", "connect-line">>},
  ldn_icommunication |-> {<<"lanDiscovery.initialize", "lanDiscovery.initialize-line">>,
                          <<"GetIpv4Address", "GetIpv4Address-def">>},
  ldnmitm_main  |-> {"log::Initialize", "main"} \X {"log-main-block"} \cup
                    {"RegisterMitmServer", "registered"} \X {"register-block"}]

LostWith(f, p) ==
  {p} \cup {whole \in Sources[f] : f \in DOMAIN Within /\ <<p, whole>> \in Within[f]}

\* The checkout: as the scripts expect it, with the application from before its
\* own fixes, or with one passage that reads differently.
Text(sources) == [f \in Files |-> SetToBag(sources[f])]

Checkout(l) ==
  CASE l = Nothing -> Text(Sources)
    [] l = Older -> Text(Both(OlderApp, Sources))
    [] OTHER -> Text([Sources EXCEPT ![l[1]] = @ \ LostWith(l[1], l[2])])

VARIABLES
  work,     \* the scripts used on this checkout
  lost,     \* what differs in it: <<file, passage>>, the application, or Nothing
  tree,     \* the text of each file
  cut,      \* the files of which a write was once cut short
  emptied,  \* those of them that were left empty
  running,  \* the script under way, or Idle
  step,     \* its next section
  outcome,  \* how the latest run of each script ended
  starts    \* scripts started so far

vars == <<work, lost, tree, cut, emptied, running, step, outcome, starts>>

TouchedBy(s) == {Script[s][i].file : i \in DOMAIN Script[s]}
Pairs(r) == UNION {{<<f, p>> : p \in r[f]} : f \in DOMAIN r}
Losses(w) == Pairs([f \in UNION {TouchedBy(s) : s \in w} |-> Sources[f]])

Init ==
  /\ work \in Workspaces
  /\ lost \in {Nothing, Older} \cup Losses(work)
  /\ tree = Checkout(lost)
  /\ cut = {}
  /\ emptied = {}
  /\ running = Idle
  /\ step = 1
  /\ outcome = [s \in Scripts |-> "never-run"]
  /\ starts = 0

-----------------------------------------------------------------------------
Start(s) ==
  /\ running = Idle
  /\ starts < MaxStarts
  /\ running' = s
  /\ step' = 1
  /\ starts' = starts + 1
  /\ UNCHANGED <<work, lost, tree, cut, emptied, outcome>>

Now == Script[running][step]

Editing == running # Idle /\ step <= Len(Script[running])

\* read_text, the edits, write_text.
RunSection ==
  /\ Editing
  /\ ~Aborts(tree[Now.file], Now)
  /\ tree' = [tree EXCEPT ![Now.file] = Rewritten(@, Now)]
  /\ step' = step + 1
  /\ UNCHANGED <<work, lost, cut, emptied, running, outcome, starts>>

End(how) ==
  /\ running' = Idle
  /\ step' = 1
  /\ outcome' = [outcome EXCEPT ![running] = how]
  /\ UNCHANGED <<work, lost, starts>>

\* raise SystemExit: what the section would have written is dropped.
SystemExit ==
  /\ Editing
  /\ Aborts(tree[Now.file], Now)
  /\ End("cut-short")
  /\ UNCHANGED <<tree, cut, emptied>>

\* The end of the script.
Finish ==
  /\ running # Idle
  /\ step > Len(Script[running])
  /\ End("done")
  /\ UNCHANGED <<tree, cut, emptied>>

\* Ctrl-C, or a full disk, between two files.
Kill ==
  /\ running # Idle
  /\ step \in 2 .. Len(Script[running])
  /\ End("cut-short")
  /\ UNCHANGED <<tree, cut, emptied>>

\* The sections that write their file whatever they have done to its text, and
\* those that write it when they have changed it.  patch-ldn-zt.py only removes
\* the stubs.
AlwaysWrites ==
  {UtilsStok, BinderNoInterfaces, PhyNoUnixSockets, UtilsNoProbes, CMakeNoMapper, CcWrapper,
   BootstrapCMake, LwipTimings, LwipSysArch, LwipDriver, LwipTcpip, PhyHandoff, AuthIncoming,
   AuthPeer, LdnMakefile[1]} \cup {Copy(f) : f \in DOMAIN LdnUpstream}

Writes(text, k) ==
  /\ \E i \in DOMAIN k.edits : k.edits[i].puts # {}
  /\ k \in AlwaysWrites \/ Rewritten(text, k) # text

\* write_text empties the file before it writes: where it stops, the rest of the
\* text is missing, which is all of it, half of a longer passage, or nothing that
\* a script looks for.  The file itself is there.
Itself(f) == IF f = "stubs" THEN {"copy"} ELSE {"exists"}
Wholes(f) == {whole \in Sources[f] : f \in DOMAIN Within /\ \E p \in Sources[f] : <<p, whole>> \in Within[f]}
Rests(f, text) ==
  {{}, Passages(text) \ Itself(f)} \cup {LostWith(f, p) : p \in Wholes(f) \cap Passages(text)}
Without(text, gone) == [p \in Passages(text) \ gone |-> text[p]]

Mishaps == Cardinality(cut) + IF lost \in {Nothing, Older} THEN 0 ELSE 1

\* Ctrl-C, or a full disk, inside write_text.
CutWrite ==
  /\ Editing
  /\ ~Aborts(tree[Now.file], Now)
  /\ Writes(tree[Now.file], Now)
  /\ Mishaps < MaxMishaps
  /\ starts < MaxStarts    \* bound: something can still be run after it
  /\ LET text == Rewritten(tree[Now.file], Now)
     IN  \E gone \in Rests(Now.file, text) :
           /\ tree' = [tree EXCEPT ![Now.file] = Without(text, gone)]
           /\ emptied' = IF Passages(text) \subseteq gone \cup Itself(Now.file)
                         THEN emptied \cup {Now.file} ELSE emptied
  /\ cut' = cut \cup {Now.file}
  /\ End("cut-short")

Next == (\E s \in work : Start(s)) \/ RunSection \/ SystemExit \/ Finish \/ Kill \/ CutWrite

Spec == Init /\ [][Next]_vars

-----------------------------------------------------------------------------
(* A whole run of a script over the given files, as a function.            *)
RunOver(s, texts) ==
  LET after[i \in 0 .. Len(Script[s])] ==
        IF i = 0 THEN [ok |-> TRUE, files |-> texts]
        ELSE LET t == after[i - 1]
                 k == Script[s][i]
             IN  IF ~t.ok \/ Aborts(t.files[k.file], k) THEN [t EXCEPT !.ok = FALSE]
                 ELSE [t EXCEPT !.files[k.file] = Rewritten(@, k)]
  IN  after[Len(Script[s])]

\* The scripts in an order that completes them all, and what they then leave.
PatchOrder ==
  <<"hotpath", "bootstrap", "lwip", "phy", "restore", "peerinfo", "keepalive", "auth",
    "stubs", "ldn">>

Patched(w, texts) ==
  LET after[i \in 0 .. Len(PatchOrder)] ==
        IF i = 0 THEN texts
        ELSE IF PatchOrder[i] \in w THEN RunOver(PatchOrder[i], after[i - 1]).files
        ELSE after[i - 1]
  IN  after[Len(PatchOrder)]

-----------------------------------------------------------------------------
TypeOK ==
  /\ work \in Workspaces
  /\ \A f \in Files : IsABag(tree[f])
  /\ emptied \subseteq cut /\ cut \subseteq Files
  /\ running \in work \cup {Idle}
  /\ step \in 1 .. (IF running = Idle THEN 1 ELSE Len(Script[running]) + 1)
  /\ outcome \in [Scripts -> {"never-run", "done", "cut-short"}]
  /\ starts \in 0 .. MaxStarts

\* phy and restore undo each other's noCheck, the last one decides; a file that
\* is not globbed may or may not be listed for removal.
Indifferent == {"noCheck-true", "noCheck-false", "listed-PortMapper"}
Result(texts, f) == Passages(texts[f]) \ Indifferent
Copies(texts, f) == [p \in Result(texts, f) |-> CountIn(p, texts[f])]

\* The edits that do not look for their own result add another copy when they are
\* run again: guards around an include that has one already, and the two of the
\* stub step, which leave the include and the call of ztbridge::init() twice.
Stacking == Pairs([
  CMake     |-> {"REMOVE_ITEM", "not-on-Switch"},
  Phy       |-> {"un.h-guarded"},
  UtilsCpp  |-> {"uio.h-guarded"},
  ldn_icommunication |-> {"zt_bridge.hpp", "ztbridge::init"}])

SameText(f, texts, others) ==
  /\ Result(texts, f) = Result(others, f)
  /\ \A p \in Result(texts, f) : <<f, p>> \in Stacking \/ CountIn(p, texts[f]) = CountIn(p, others[f])

\* bootstrap runs libzt itself; without bootstrap, libzt never completes.
Completing == IF "bootstrap" \in work THEN work \ {"libzt"} ELSE work
AllWell == running = Idle /\ \A s \in Completing : outcome[s] = "done"

\* Whatever the order the scripts were run in, however often, and wherever they
\* were killed or missed an anchor in between: once the latest run of each has
\* ended well, the sources are those of one undisturbed pass over the checkout,
\* with each passage as often, but for the edits named above and the files of
\* which a write was cut short.
Converges ==
  AllWell => LET patched == Patched(work, Checkout(lost))
             IN  \A f \in Files \ cut : SameText(f, tree, patched)

\* A file left empty by a write cut short is found out, because some script does
\* not get past it any more, or it is written anew: all but the two files whose
\* edits lwip passes over where it finds nothing to do.  (So would be the three
\* that libzt takes as they are, but libzt never gets as far as them again.)
Overlooked == {"main", "Constants"}
EmptiedIsNoticed ==
  (AllWell /\ lost \in {Nothing, Older} /\ \A s \in work : outcome[s] # "cut-short") =>
     LET patched == Patched(work, Checkout(lost))
     IN  \A f \in emptied \ Overlooked : SameText(f, tree, patched)

\* Passages whose loss upstream no script reports: it skips what it would have
\* done there and ends with success.
Unnoticed == Pairs([
  CMake       |-> {"MINIUPNPC-flag"},
  Constants   |-> {"ZT_INLINE", "expiration-4-pings", "trial-10-pings"},
  OSUtils     |-> {"exists"},
  Phy         |-> {"UNIX_LISTEN"},
  NodeService |-> {"stdlib.h"},
  VirtualTap  |-> {"driver_init", "sys_thread_new("},
  sys_arch    |-> {"pthread_create", "sys_thread_new("},   \* but lwip reports these
  tcpip       |-> {"opt.h"}])

\* Passages whose loss a script skips over and another one, which may not be among
\* those used, reports.
ReportedElsewhere ==
  (IF "bootstrap" \in work THEN {} ELSE {<<"sys_arch", "pthread.h">>}) \cup
  (IF "ldn" \in work THEN {} ELSE {<<"ldn_icommunication", "arpa/inet.h">>})

\* When all scripts report success, all that they add is there, whichever passage
\* upstream has changed, but for those that none of them insists on.
LossIsReported ==
  AllWell => LET patched == Patched(work, Text(Sources))
             IN  \/ lost \in Unnoticed \cup ReportedElsewhere
                 \/ \A f \in Files \ cut :
                      Result(patched, f) \ Sources[f] \subseteq Passages(tree[f])

\* A script whose edits all look for their own result first.
Rerunnable == {"lwip", "phy", "restore", "peerinfo", "keepalive", "auth", "hotpath"}

\* On the usual checkout such a script can be run again after a kill, and
\* after success, whatever other scripts have done to its files meanwhile; a
\* second success changes nothing but what phy and restore fight over.
RepeatIsHarmless ==
  (running = Idle /\ lost = Nothing) =>
     \A s \in work \cap Rerunnable :
       outcome[s] # "never-run" /\ TouchedBy(s) \cap cut = {} =>
         LET again == RunOver(s, tree)
         IN  /\ again.ok
             /\ outcome[s] = "done" => \A f \in Files : Copies(again.files, f) = Copies(tree, f)

\* Code that calls consoleUpdate needs <switch.h>.  lwip writes such code into
\* VirtualTap.cpp and leaves the include to bootstrap.
Traces == {"driver_init-entered", "DRIVER:ENTER", "entering", "STN:ENTER", "child-thread-alive"}
TracesCompile ==
  (outcome["bootstrap"] = "done" /\ outcome["lwip"] = "done" /\ lost \notin Unnoticed) =>
     \A f \in {"VirtualTap", "sys_arch"} \ cut :
       Traces \cap Passages(tree[f]) # {} =>
         {"switch.h", "stdio.h+switch.h"} \cap Passages(tree[f]) # {}

\* The libraries are appended to the LDN Makefile by the one edit that does not
\* look for its own result; that no run gets that far twice is due to the very
\* first edit, whose anchor is gone after it.
LinkedOnce == CountIn("-lzt", tree["Makefile"]) <= 1

\* The passages patch-ldn-zt.py needs and anchor_check_defender.py does not check.
Unverified == Pairs([
  checkout      |-> LdnUpstream.checkout,
  ldnmitm_main  |-> {"log-main-block", "register-block", "128_KB-heap"},
  lan_protocol  |-> {"stratosphere.hpp", "poll-loop", "pfd=pfds[i]", "POLLERR", "POLLIN",
                     "::close-line", "recvfrom-line", "sendto-line", "recvfrom-addr",
                     "sendto-addr-line"},
  lan_discovery |-> {"ipinfo.hpp", "accept-block", "close(new_fd)-1", "close(new_fd)-2",
                     "getBroadcast-def", "setSocketOpts-def", "tcp-socket-line", "bind-1-line",
                     "bind-2-line", "listen-line", "udp-socket-line", "connect-line",
                     "local-ip-block", "mac-ip-block"},
  ldn_icommunication |-> {"arpa/inet.h", "lanDiscovery.initialize-line", "GetIpv4Address-def"},
  Makefile      |-> {"VERSION_DEFINES"}])

\* Where the anchors were verified, patch-ldn-zt.py goes through, however the
\* checkout was treated before, but for the passages the check does not know:
\* one that upstream has changed, or one behind which a write was cut short.
AnchorCheckSuffices ==
  (running = Idle /\ "ldn" \in work /\ RunOver("check", tree).ok) =>
     \/ RunOver("ldn", tree).ok
     \/ lost \in Unverified
     \/ \E f \in cut : \E p \in Sources[f] : <<f, p>> \in Unverified /\ p \notin Passages(tree[f])
=============================================================================
