------------------------- MODULE PatchScriptsProofs -------------------------
(***************************************************************************)
(* Proofs about PatchScripts, for every choice of the scripts that share a *)
(* checkout and any number of starts.                                      *)
(***************************************************************************)
EXTENDS PatchScripts, TLAPS, WellFoundedInduction

-----------------------------------------------------------------------------
(* Induction.  A set of numbers without a least element is empty.          *)

\* Every set of numbers that is not empty has a least element.
LEMMA LeastNumber ==
  ASSUME NEW T \in SUBSET Nat, T # {}
  PROVE  \E n \in T : \A m \in T : n <= m
<1>1. PICK n \in T : \A m \in T : <<m, n>> \notin OpToRel(<, Nat)
  BY NatLessThanWellFounded, WFMin, Zenon
<1>2. \A m \in T : ~ (m < n)
  BY <1>1, Zenon DEF OpToRel
<1> QED
  BY <1>2

\* What holds at 0, and at every number up to n when it holds at the one before,
\* holds up to n.
LEMMA UpTo ==
  ASSUME NEW n \in Nat, NEW S, 0 \in S, \A i \in 1 .. n : i - 1 \in S => i \in S
  PROVE  \A i \in 0 .. n : i \in S
<1> DEFINE T == {i \in 0 .. n : i \notin S}
<1>1. SUFFICES ASSUME T # {} PROVE FALSE
  OBVIOUS
<1>2. T \in SUBSET Nat
  OBVIOUS
<1> HIDE DEF T
<1>3. PICK i \in T : \A m \in T : i <= m
  BY <1>1, <1>2, LeastNumber
<1> USE DEF T
<1>4. i \in 1 .. n /\ i - 1 \in 0 .. n /\ i - 1 \notin T
  BY <1>3
<1> QED
  BY <1>3, <1>4

-----------------------------------------------------------------------------
\* d is what Drafts defines, as far as the k-th edit.
IsDrafts(d, text, s, k) ==
  d = [i \in 0 .. k |-> IF i = 0 THEN text ELSE Edited(d[i - 1], s.edits[i])]

\* There is such a function: it can be extended edit by edit.
LEMMA DraftsExist ==
  ASSUME NEW text, NEW s, NEW n \in Nat
  PROVE  \E d : IsDrafts(d, text, s, n)
<1> DEFINE S == {k \in 0 .. n : \E d : IsDrafts(d, text, s, k)}
<1>1. 0 \in S
  <2>1. IsDrafts([i \in 0 .. 0 |-> text], text, s, 0)
    BY DEF IsDrafts
  <2> QED
    BY <2>1
<1>2. ASSUME NEW k \in 1 .. n, k - 1 \in S PROVE k \in S
  <2>1. PICK d : IsDrafts(d, text, s, k - 1)
    BY <1>2
  <2> DEFINE e == [i \in 0 .. k |-> IF i = k THEN Edited(d[k - 1], s.edits[k]) ELSE d[i]]
  <2>2. \A i \in 0 .. k - 1 : e[i] = d[i]
    OBVIOUS
  <2>3. \A i \in 0 .. k : e[i] = IF i = 0 THEN text ELSE Edited(e[i - 1], s.edits[i])
    BY <2>1, <2>2 DEF IsDrafts
  <2>4. IsDrafts(e, text, s, k)
    BY <2>3 DEF IsDrafts
  <2> QED
    BY <2>4
<1> HIDE DEF S
<1>3. \A i \in 0 .. n : i \in S
  BY <1>1, <1>2, UpTo
<1>4. n \in S
  BY <1>3
<1> USE DEF S
<1> QED
  BY <1>4

\* The text before the first edit, and what each edit makes of it.
LEMMA DraftSteps ==
  ASSUME NEW text, NEW s, Len(s.edits) \in Nat
  PROVE  /\ Drafts(text, s)[0] = text
         /\ \A i \in 1 .. Len(s.edits) :
              Drafts(text, s)[i] = Edited(Drafts(text, s)[i - 1], s.edits[i])
<1> DEFINE n == Len(s.edits)
           D == Drafts(text, s)
<1>1. D = CHOOSE d : IsDrafts(d, text, s, n)
  BY Zenon DEF Drafts, IsDrafts
<1> HIDE DEF D, n
<1>2. n \in Nat
  BY DEF n
<1>3. IsDrafts(D, text, s, n)
  BY <1>1, <1>2, DraftsExist, Zenon
<1>4. D[0] = text /\ \A i \in 1 .. n : D[i] = Edited(D[i - 1], s.edits[i])
  BY <1>2, <1>3 DEF IsDrafts
<1> QED
  BY <1>4 DEF n, D

-----------------------------------------------------------------------------
(* What an edit does to the passages of a text.                            *)

\* An edit that is not skipped takes out one copy and puts one in.
LEMMA EditedCopies ==
  ASSUME NEW text, IsABag(text), NEW e, NEW p
  PROVE  /\ IsABag(Edited(text, e))
         /\ Skipped(text, e) => Edited(text, e) = text
         /\ CountIn(p, text) \in Nat
         /\ p \in Passages(text) <=> CountIn(p, text) > 0
         /\ p \notin e.puts => CountIn(p, Edited(text, e)) <= CountIn(p, text)
         /\ p \notin e.takes => CountIn(p, Edited(text, e)) >= CountIn(p, text)
         /\ (~Skipped(text, e) /\ p \in e.puts) => p \in Passages(Edited(text, e))
         /\ (~Skipped(text, e) /\ p \in e.takes /\ p \notin e.puts /\ CountIn(p, text) <= 1)
              => p \notin Passages(Edited(text, e))
         /\ (p \in e.takes \/ p \notin Passages(text))
              => CountIn(p, Edited(text, e)) <= IF CountIn(p, text) = 0 THEN 1 ELSE CountIn(p, text)
<1> DEFINE taken == text (-) SetToBag(e.takes)
           left == taken (+) SetToBag(e.puts)
<1>1. /\ \A q \in DOMAIN text : text[q] \in Nat /\ text[q] > 0
      /\ text = [q \in DOMAIN text |-> text[q]]
  BY DEF IsABag
<1>2. /\ DOMAIN taken = {q \in DOMAIN text : q \notin e.takes \/ text[q] > 1}
      /\ \A q \in DOMAIN taken : taken[q] = IF q \in e.takes THEN text[q] - 1 ELSE text[q]
  BY <1>1 DEF (-), SetToBag
<1> HIDE DEF taken
<1>3. /\ DOMAIN left = DOMAIN taken \cup e.puts
      /\ \A q \in DOMAIN left : left[q] = (IF q \in DOMAIN taken THEN taken[q] ELSE 0)
                                          + (IF q \in e.puts THEN 1 ELSE 0)
      /\ left = [q \in DOMAIN left |-> left[q]]
  BY DEF (+), SetToBag
<1> HIDE DEF left
<1>4. IsABag(left)
  BY <1>1, <1>2, <1>3 DEF IsABag
<1>5. Edited(text, e) = IF Skipped(text, e) THEN text ELSE left
  BY DEF Edited, left, taken
<1> QED
  BY <1>1, <1>2, <1>3, <1>4, <1>5 DEF CountIn, BagToSet, Passages

-----------------------------------------------------------------------------
(* What a section does to the passages of its file.                        *)

\* Every draft is a bag.
LEMMA DraftBags ==
  ASSUME NEW text, IsABag(text), NEW s, Len(s.edits) \in Nat
  PROVE  \A i \in 0 .. Len(s.edits) : IsABag(Drafts(text, s)[i])
<1> DEFINE n == Len(s.edits)
           D == Drafts(text, s)
           S == {i \in 0 .. n : IsABag(D[i])}
<1>1. /\ D[0] = text
      /\ \A i \in 1 .. n : D[i] = Edited(D[i - 1], s.edits[i])
  BY DraftSteps
<1> HIDE DEF D
<1>2. 0 \in S
  BY <1>1
<1>3. ASSUME NEW i \in 1 .. n, i - 1 \in S PROVE i \in S
  <2>1. IsABag(Edited(D[i - 1], s.edits[i]))
    BY <1>3, EditedCopies
  <2> QED
    BY <1>1, <2>1
<1> HIDE DEF S
<1>4. \A i \in 0 .. n : i \in S
  BY <1>2, <1>3, UpTo
<1> QED
  BY <1>4 DEF S, D

\* A passage that no edit takes out stays from draft to draft.
LEMMA DraftsKeep ==
  ASSUME NEW text, IsABag(text), NEW s, Len(s.edits) \in Nat, NEW p,
         \A i \in 1 .. Len(s.edits) : p \notin s.edits[i].takes,
         NEW j \in 0 .. Len(s.edits)
  PROVE  \A i \in j .. Len(s.edits) :
           CountIn(p, Drafts(text, s)[i]) >= CountIn(p, Drafts(text, s)[j])
<1> DEFINE n == Len(s.edits)
           D == Drafts(text, s)
           S == {i \in 0 .. n : i >= j => CountIn(p, D[i]) >= CountIn(p, D[j])}
<1>1. \A i \in 1 .. n : D[i] = Edited(D[i - 1], s.edits[i])
  BY DraftSteps
<1>2. \A i \in 0 .. n : IsABag(D[i])
  BY DraftBags
<1> HIDE DEF D
<1>3. \A i \in 0 .. n : CountIn(p, D[i]) \in Nat
  BY <1>2, EditedCopies
<1>4. 0 \in S
  BY <1>3
<1>5. ASSUME NEW i \in 1 .. n, i - 1 \in S PROVE i \in S
  <2>1. p \notin s.edits[i].takes /\ IsABag(D[i - 1])
    BY <1>2
  <2>2. CountIn(p, Edited(D[i - 1], s.edits[i])) >= CountIn(p, D[i - 1])
    BY <2>1, EditedCopies
  <2>3. CountIn(p, D[i]) >= CountIn(p, D[i - 1])
    BY <1>1, <2>2
  <2>4. CASE i = j
    BY <1>3, <2>4
  <2>5. CASE i # j
    BY <1>3, <1>5, <2>3, <2>5
  <2> QED
    BY <2>4, <2>5
<1> HIDE DEF S
<1>6. \A i \in 0 .. n : i \in S
  BY <1>4, <1>5, UpTo
<1> USE DEF S
<1> QED
  BY <1>6 DEF D

\* A passage that no edit puts in does not become more frequent.
LEMMA DraftsDoNotAdd ==
  ASSUME NEW text, IsABag(text), NEW s, Len(s.edits) \in Nat, NEW p,
         \A i \in 1 .. Len(s.edits) : p \notin s.edits[i].puts
  PROVE  \A i \in 0 .. Len(s.edits) : CountIn(p, Drafts(text, s)[i]) <= CountIn(p, text)
<1> DEFINE n == Len(s.edits)
           D == Drafts(text, s)
           S == {i \in 0 .. n : CountIn(p, D[i]) <= CountIn(p, text)}
<1>1. /\ D[0] = text
      /\ \A i \in 1 .. n : D[i] = Edited(D[i - 1], s.edits[i])
  BY DraftSteps
<1>2. \A i \in 0 .. n : IsABag(D[i])
  BY DraftBags
<1> HIDE DEF D
<1>3. CountIn(p, text) \in Nat /\ \A i \in 0 .. n : CountIn(p, D[i]) \in Nat
  BY <1>2, EditedCopies
<1>4. 0 \in S
  BY <1>1, <1>3
<1>5. ASSUME NEW i \in 1 .. n, i - 1 \in S PROVE i \in S
  <2>1. p \notin s.edits[i].puts /\ IsABag(D[i - 1])
    BY <1>2
  <2>2. CountIn(p, Edited(D[i - 1], s.edits[i])) <= CountIn(p, D[i - 1])
    BY <2>1, EditedCopies
  <2>3. CountIn(p, D[i]) <= CountIn(p, D[i - 1])
    BY <1>1, <2>2
  <2> QED
    BY <1>3, <1>5, <2>3
<1> HIDE DEF S
<1>6. \A i \in 0 .. n : i \in S
  BY <1>4, <1>5, UpTo
<1> USE DEF S
<1> QED
  BY <1>6 DEF D

\* The same of a section as a whole.
LEMMA RewrittenCopies ==
  ASSUME NEW text, IsABag(text), NEW s, Len(s.edits) \in Nat, NEW p
  PROVE  /\ IsABag(Rewritten(text, s))
         /\ CountIn(p, text) \in Nat
         /\ CountIn(p, Rewritten(text, s)) \in Nat
         /\ (\A i \in 1 .. Len(s.edits) : p \notin s.edits[i].takes)
              => CountIn(p, Rewritten(text, s)) >= CountIn(p, text)
         /\ (\A i \in 1 .. Len(s.edits) : p \notin s.edits[i].puts)
              => CountIn(p, Rewritten(text, s)) <= CountIn(p, text)
<1> DEFINE n == Len(s.edits)
           D == Drafts(text, s)
           R == Rewritten(text, s)
<1>1. R = IF LeftAlone(text, s) THEN text ELSE D[n]
  BY DEF Rewritten
<1>2. D[0] = text /\ IsABag(D[n]) /\ n \in 0 .. n /\ 0 \in 0 .. n
  BY DraftSteps, DraftBags
<1>3. (\A i \in 1 .. n : p \notin s.edits[i].takes) => CountIn(p, D[n]) >= CountIn(p, D[0])
  BY <1>2, DraftsKeep
<1>4. (\A i \in 1 .. n : p \notin s.edits[i].puts) => CountIn(p, D[n]) <= CountIn(p, text)
  BY <1>2, DraftsDoNotAdd
<1> HIDE DEF D, R
<1>5. CountIn(p, text) \in Nat /\ CountIn(p, D[n]) \in Nat
  BY <1>2, EditedCopies
<1>6. CASE LeftAlone(text, s)
  <2>1. R = text
    BY <1>1, <1>6
  <2> QED
    BY <1>5, <2>1 DEF R
<1>7. CASE ~LeftAlone(text, s)
  <2>1. R = D[n]
    BY <1>1, <1>7
  <2> QED
    BY <1>2, <1>3, <1>4, <1>5, <2>1 DEF R
<1> QED
  BY <1>6, <1>7

\* The files of ldn_mitm that patch-ldn-zt.py reads or edits in place.
LdnFiles == {"checkout", "ldnmitm_main", "lan_protocol", "lan_discovery", "ldn_icommunication",
             "Makefile"}

\* Passages that no section takes out of file f, but for those that TakesOut names.
Kept(f) ==
  IF f = "VirtualTap" THEN {"driver_init", "sys_thread_new(", "switch.h"}
  ELSE IF f = "sys_arch" THEN {"sys_thread_new(", "pthread_create", "switch.h"}
  ELSE IF f \in LdnFiles THEN LdnUpstream[f]
  ELSE {}

\* Passages that no section puts into file f, but for those that PutsIn names.
Rare(f) ==
  IF f = "VirtualTap" THEN {"driver_init-entered"}
  ELSE IF f = "sys_arch" THEN {"entering"}
  ELSE IF f = "Makefile" THEN {"-lzt"}
  ELSE IF f = "stubs" THEN {"copy"}
  ELSE IF f \in DOMAIN ANCHORS THEN ANCHORS[f] \cup {"log-main-block"}
  ELSE {}

\* The sections that take kept passages out: patch-ldn-zt.py from its 6th on.
TakesOut(s, i) == s = "ldn" /\ i >= 6
\* The sections that put rare passages in: the traces, the link and the stubs.
PutsIn(s, i) ==
  (s = "bootstrap" /\ i \in {12, 13}) \/ (s = "ldn" /\ i = 34) \/ (s = "stubs" /\ i = 7)

\* Sections that are well formed, take no kept passage out, put no rare passage in.
Formed(k) == k.file \in Files /\ Len(k.edits) \in Nat
\* Section k takes no kept passage out,
TakesNone(k) == \A i \in 1 .. Len(k.edits) : k.edits[i].takes \cap Kept(k.file) = {}
\* and puts no rare passage in.
PutsNone(k) == \A i \in 1 .. Len(k.edits) : k.edits[i].puts \cap Rare(k.file) = {}

\* Script s is under way and has section i behind it.
Past(s, i) == running = s /\ step > i

\* What keeps the libraries from being linked twice: the Makefile is linked only after the
\* log-main-block, which nothing writes back, is gone from main.
Links ==
  /\ LinkedOnce
  /\ CountIn("log-main-block", tree["ldnmitm_main"]) <= 1
  /\ "-lzt" \in Passages(tree["Makefile"]) => "log-main-block" \notin Passages(tree["ldnmitm_main"])
  /\ Past("ldn", 6) => "log-main-block" \notin Passages(tree["ldnmitm_main"])
  /\ Past("ldn", 6) /\ ~Past("ldn", 34) => "-lzt" \notin Passages(tree["Makefile"])

\* What lets the traces compile, in a file that was written as a whole: a trace of
\* bootstrap comes with its include, and the passages that bootstrap finds the file by
\* never go away.
Included(f, trace, found, i) ==
  /\ trace \in Passages(tree[f]) => "switch.h" \in Passages(tree[f])
  /\ lost \notin Unnoticed =>
       /\ found \subseteq Passages(tree[f])
       /\ Past("bootstrap", i) \/ outcome["bootstrap"] = "done" =>
            "switch.h" \in Passages(tree[f])

Includes ==
  /\ "VirtualTap" \notin cut =>
       Included("VirtualTap", "driver_init-entered", {"driver_init", "sys_thread_new("}, 12)
  /\ "sys_arch" \notin cut =>
       Included("sys_arch", "entering", {"sys_thread_new(", "pthread_create"}, 13)

\* What makes an anchor that is there say something about the others: no anchor is ever
\* written, and as long as the first edit of patch-ldn-zt.py has not been made, all that
\* the checkout had is still there, but where a write was cut short.
Anchors ==
  /\ \A f \in DOMAIN ANCHORS : \A p \in ANCHORS[f] \cup {"log-main-block"} :
       CountIn(p, tree[f]) <= CountIn(p, Checkout(lost)[f])
  /\ "main" \in Passages(tree["ldnmitm_main"]) =>
       \A f \in LdnFiles \ cut : Passages(Checkout(lost)[f]) \subseteq Passages(tree[f])
  /\ Past("ldn", 6) => "main" \notin Passages(tree["ldnmitm_main"])
  /\ CountIn("copy", tree["stubs"]) <= 1

-----------------------------------------------------------------------------
\* A section that neither takes a kept passage out nor puts a rare one in.
Good(k) == Formed(k) /\ TakesNone(k) /\ PutsNone(k)

\* The files that the scripts know.
LEMMA FilesAre ==
  Files = {"main", "posix", "Constants", "UtilsH", "Binder", "Phy", "UtilsCpp", "CMake", "cc",
           "ccWrapper", "family", "registry", "VirtualTap", "sys_arch", "tcpip", "OSUtils",
           "NodeService", "Node", "Incoming", "Peer", "checkout", "bridgeHpp", "bridgeCpp",
           "errnoCompat", "stubs", "ldnmitm_main", "lan_protocol", "lan_discovery",
           "ldn_icommunication", "Makefile"}
BY DEF Files, Sources, Both, Upstream, LdnUpstream

\* Kept and Rare, file by file.
LEMMA KeptIn ==
  /\ Kept("VirtualTap") = {"driver_init", "sys_thread_new(", "switch.h"}
  /\ Rare("VirtualTap") = {"driver_init-entered"}
  /\ Kept("sys_arch") = {"sys_thread_new(", "pthread_create", "switch.h"}
  /\ Rare("sys_arch") = {"entering"}
  /\ Kept("stubs") = {}
  /\ Rare("stubs") = {"copy"}
  /\ Rare("Makefile") = {"-lzt"}
  /\ \A f : f \notin {"VirtualTap", "sys_arch", "stubs"} \cup LdnFiles =>
           Kept(f) = {} /\ Rare(f) = {}
BY DEF Kept, Rare, LdnFiles, ANCHORS

\* patch-libzt-switch.py takes nothing out that the invariants rely on.
LEMMA LibztSections ==
  /\ Good(ConstantsUnixLike)
  /\ Good(UtilsStok)
  /\ Good(BinderNoInterfaces)
  /\ Good(PhyNoUnixSockets)
  /\ Good(UtilsNoProbes)
  /\ Good(CMakeNoMapper)
  /\ Good(PortCc)
  /\ Good(CcWrapper)
  /\ Good(Stdexcept("family"))
  /\ Good(Stdexcept("registry"))
<1> USE FilesAre, KeptIn
   DEF Good, Formed, TakesNone, PutsNone, LdnFiles, Section, IfFound, Replace, Edit, Finding,
       Insert, Need, Unless, Wrap, OrDone, OnlyIf, MayLack, Marked
<1>1. Good(ConstantsUnixLike)
  BY DEF ConstantsUnixLike
<1>2. Good(UtilsStok)
  BY DEF UtilsStok
<1>3. Good(BinderNoInterfaces)
  BY DEF BinderNoInterfaces
<1>4. Good(PhyNoUnixSockets)
  BY DEF PhyNoUnixSockets
<1>5. Good(UtilsNoProbes)
  BY DEF UtilsNoProbes
<1>6. Good(CMakeNoMapper)
  BY DEF CMakeNoMapper
<1>7. Good(PortCc)
  BY DEF PortCc
<1>8. Good(CcWrapper)
  BY DEF CcWrapper
<1>9. Good(Stdexcept("family"))
  BY DEF Stdexcept
<1>10. Good(Stdexcept("registry"))
  BY DEF Stdexcept
<1> HIDE DEF Good
<1> QED
  BY <1>1, <1>2, <1>3, <1>4, <1>5, <1>6, <1>7, <1>8, <1>9, <1>10

\* Nor does patch-lwip-switch-thread.py,
LEMMA LwipSections ==
  /\ Good(LwipTimings)
  /\ Good(LwipDriver)
  /\ Good(LwipTcpip)
  /\ Good(LwipProbe)
  /\ Good(LwipClock)
  /\ Good(LwipByteOrder)
<1> USE FilesAre, KeptIn
   DEF Good, Formed, TakesNone, PutsNone, LdnFiles, Section, IfFound, Replace, Edit, Finding,
       Insert, Need, Unless, MayLack, Marked, Trace, wrap_first_call, Switch_h
<1>1. Good(LwipTimings)
  BY DEF LwipTimings
<1>2. Good(LwipDriver)
  BY DEF LwipDriver
<1>3. Good(LwipTcpip)
  BY DEF LwipTcpip
<1>4. Good(LwipProbe)
  BY DEF LwipProbe
<1>5. Good(LwipClock)
  BY DEF LwipClock
<1>6. Good(LwipByteOrder)
  BY DEF LwipByteOrder
<1> HIDE DEF Good
<1> QED
  BY <1>1, <1>2, <1>3, <1>4, <1>5, <1>6

\* Nor do the shorter scripts.
LEMMA OtherSections ==
  /\ Good(PhyHandoff)
  /\ Good(PhyReceive)
  /\ Good(KeepaliveScale)
  /\ Good(KeepalivePeriods)
  /\ Good(AuthIncoming)
  /\ Good(AuthPeer)
  /\ Good(HotPathLogs)
  /\ Good(HotPathSessions)
  /\ Good(BootstrapCMake)
  /\ Good(RestoreChecksum[1])
  /\ Good(PatchPeerInfo[1])
  /\ Good(AuthFilesExist[1])
  /\ Good(AuthFilesExist[2])
<1> USE FilesAre, KeptIn
   DEF Good, Formed, TakesNone, PutsNone, LdnFiles, Section, IfFound, Replace, Edit, Finding,
       Insert, Need, Unless, OrDone, MayLack, Marked, add_stdio
<1>1. Good(PhyHandoff)
  BY DEF PhyHandoff
<1>2. Good(PhyReceive)
  BY DEF PhyReceive
<1>3. Good(KeepaliveScale)
  BY DEF KeepaliveScale
<1>4. Good(KeepalivePeriods)
  BY DEF KeepalivePeriods
<1>5. Good(AuthIncoming)
  BY DEF AuthIncoming
<1>6. Good(AuthPeer)
  BY DEF AuthPeer
<1>7. Good(HotPathLogs)
  BY DEF HotPathLogs
<1>8. Good(HotPathSessions)
  BY DEF HotPathSessions
<1>9. Good(BootstrapCMake)
  BY DEF BootstrapCMake
<1>10. Good(RestoreChecksum[1])
  BY DEF RestoreChecksum
<1>11. Good(PatchPeerInfo[1])
  BY DEF PatchPeerInfo
<1>12. Good(AuthFilesExist[1])
  BY DEF AuthFilesExist
<1>13. Good(AuthFilesExist[2])
  BY DEF AuthFilesExist
<1> HIDE DEF Good
<1> QED
  BY <1>1, <1>2, <1>3, <1>4, <1>5, <1>6, <1>7, <1>8, <1>9, <1>10, <1>11, <1>12, <1>13

\* not even its longest section.
LEMMA LwipSysArchSection == Good(LwipSysArch)
<1> DEFINE es == LwipSysArch.edits
           Light(e) ==
             /\ e.takes \subseteq {"function-start", "plain-create", "INTRO:ENTER", "32-slots"}
             /\ "entering" \notin e.puts
<1>1. LwipSysArch.file = "sys_arch" /\ Len(es) = 9
  BY DEF LwipSysArch, Section, Finding
<1>2. /\ es[1] = Edit({"introduce_thread"}, {"INTRO:ENTER", "32-slots"}, {"32-slots"})
      /\ es[2] = Switch_h("pthread.h")
      /\ es[3] = Need("sys_thread_new-begin")
      /\ es[4] = Unless("STN:ENTER", Edit({}, {"function-start"}, {"STN:ENTER"}))
      /\ es[5] = Need("pthread_create(&tmp")
      /\ es[6] = Unless("256-KB-stack", Edit({}, {"plain-create"}, {"256-KB-stack"}))
      /\ es[7] = Trace("STN:AFTER_PTHREAD_CREATE")
      /\ es[8] = Unless("STN:BEFORE_INTRODUCE",
                        Edit({"if-0==code", "st=introduce_thread"}, {}, {"STN:BEFORE_INTRODUCE"}))
      /\ es[9] = Unless("INTRO:ENTER", Insert("32-slots", "INTRO:ENTER"))
  BY DEF LwipSysArch, Section, Finding
<1> HIDE DEF es
<1>3. Light(es[1]) /\ Light(es[2]) /\ Light(es[3])
  BY <1>2 DEF Replace, Edit, Insert, Need, Unless, IfFound, Trace, Switch_h
<1>4. Light(es[4]) /\ Light(es[5]) /\ Light(es[6])
  BY <1>2 DEF Replace, Edit, Insert, Need, Unless, IfFound, Trace, Switch_h
<1>5. Light(es[7]) /\ Light(es[8]) /\ Light(es[9])
  BY <1>2 DEF Replace, Edit, Insert, Need, Unless, IfFound, Trace, Switch_h
<1>6. \A i \in 1 .. 9 : Light(es[i])
  BY <1>3, <1>4, <1>5
<1> QED
  BY <1>1, <1>6, FilesAre, KeptIn DEF Good, Formed, TakesNone, PutsNone, es

-----------------------------------------------------------------------------
\* Sequences of whatever elements, and how they are put together.
IsSeq(x) == \E S : x \in Seq(S)

\* x is m elements of a and then n of b.
Split(x, a, m, b, n) ==
  /\ IsSeq(x) /\ Len(x) = m + n
  /\ \A i \in 1 .. m : x[i] = a[i]
  /\ \A i \in m + 1 .. m + n : x[i] = b[i - m]

\* What Split says is true of two sequences put together.
LEMMA Joined ==
  ASSUME NEW a, NEW b, NEW m \in Nat, NEW n \in Nat,
         IsSeq(a), Len(a) = m, IsSeq(b), Len(b) = n
  PROVE  Split(a \o b, a, m, b, n)
<1>1. PICK A : a \in Seq(A)
  BY DEF IsSeq
<1>2. PICK B : b \in Seq(B)
  BY DEF IsSeq
<1>3. ASSUME NEW S, NEW T, NEW s \in Seq(S), S \subseteq T PROVE s \in Seq(T)
  <2>1. Len(s) \in Nat /\ s \in [1 .. Len(s) -> S]
    OBVIOUS
  <2>2. s \in [1 .. Len(s) -> T]
    BY <1>3, <2>1
  <2> QED
    BY <2>1, <2>2
<1> DEFINE S == A \cup B
<1>4. a \in Seq(S) /\ b \in Seq(S)
  BY <1>1, <1>2, <1>3
<1> HIDE DEF S
<1>5. a \o b \in Seq(S)
  BY <1>4
<1>6. IsSeq(a \o b)
  BY <1>5 DEF IsSeq
<1>7. Len(a \o b) = m + n
  BY <1>4
<1>8. \A i \in 1 .. m : (a \o b)[i] = a[i]
  BY <1>4
<1>9. \A i \in m + 1 .. m + n : (a \o b)[i] = b[i - m]
  BY <1>4
<1> QED
  BY <1>6, <1>7, <1>8, <1>9 DEF Split

\* The section of patch-ldn-zt.py that works at passage p of file f; 40 when none does.
Turn(f, p) ==
  IF f = "ldnmitm_main" THEN
    IF p \in {"log-main-block", "main"} THEN 6 ELSE IF p \in {"register-block", "registered"} THEN 7
    ELSE IF p = "128_KB-heap" THEN 8 ELSE 40
  ELSE IF f = "lan_protocol" THEN
    IF p = "stratosphere.hpp" THEN 9 ELSE IF p \in {"poll-loop", "pfds[nfds]", "rc=poll"} THEN 10
    ELSE IF p = "pfd=pfds[i]" THEN 11 ELSE IF p = "POLLERR" THEN 12 ELSE IF p = "POLLIN" THEN 13
    ELSE IF p = "::close-line" THEN 14 ELSE IF p \in {"recvfrom-line", "recvfrom"} THEN 15
    ELSE IF p \in {"sendto-line", "sendto"} THEN 16
    ELSE IF p \in {"recvfrom-addr", "addr_len"} THEN 17
    ELSE IF p \in {"sendto-addr-line", "sendto-addr"} THEN 18 ELSE 40
  ELSE IF f = "lan_discovery" THEN
    IF p = "ipinfo.hpp" THEN 19 ELSE IF p \in {"accept-block", "accept"} THEN 20
    ELSE IF p \in {"close(new_fd)-1", "close(new_fd)-2"} THEN 21
    ELSE IF p \in {"getBroadcast-def", "ip-config", "ip-config-call"} THEN 22
    ELSE IF p = "setSocketOpts-def" THEN 23
    ELSE IF p \in {"tcp-socket-line", "tcp-socket"} THEN 24
    ELSE IF p \in {"bind-1-line", "bind-2-line", "bind-1", "bind-2"} THEN 25
    ELSE IF p \in {"listen-line", "listen"} THEN 26
    ELSE IF p \in {"udp-socket-line", "udp-socket"} THEN 27
    ELSE IF p \in {"connect-line", "connect"} THEN 28
    ELSE IF p \in {"local-ip-block", "local-ip"} THEN 29
    ELSE IF p \in {"mac-ip-block", "mac-ip"} THEN 30 ELSE 40
  ELSE IF f = "ldn_icommunication" THEN
    IF p = "arpa/inet.h" THEN 31 ELSE IF p = "lanDiscovery.initialize-line" THEN 32
    ELSE IF p \in {"GetIpv4Address-def", "ip-config-info"} THEN 33 ELSE 40
  ELSE 40

\* An edit that is due in section i: it needs what upstream has and no section before
\* has worked at.
Due(f, e, i) ==
  /\ e.when = {} /\ e.unless = {} /\ e.excuse = {}
  /\ \A p \in e.needs : p \in LdnUpstream[f] /\ Turn(f, p) >= i
  /\ \A p \in e.takes : p \in LdnUpstream[f] => Turn(f, p) <= i

\* n sections of one edit each, the first of them section "after" + 1 of its script.
AllDue(x, f, after, n) ==
  \A i \in 1 .. n : \E e : x[i] = Section(f, <<e>>) /\ Due(f, e, after + i)

\* n sections that put no rare passage into f.
WrittenTo(x, f, n) ==
  /\ IsSeq(x) /\ Len(x) = n
  /\ \A i \in 1 .. n : x[i].file = f /\ Formed(x[i]) /\ PutsNone(x[i])

\* It is so of a file that is written back after each edit.
LEMMA Written ==
  ASSUME NEW f \in Files, NEW es, NEW n \in Nat, NEW after \in Nat, DOMAIN es = 1 .. n,
         \A i \in 1 .. n : es[i].puts \cap Rare(f) = {},
         \A i \in 1 .. n : Due(f, es[i], after + i)
  PROVE  WrittenTo(EachWritten(f, es), f, n) /\ AllDue(EachWritten(f, es), f, after, n)
<1> DEFINE S == {Section(f, <<es[i]>>) : i \in 1 .. n}
           w == EachWritten(f, es)
<1>1. w = [i \in 1 .. n |-> Section(f, <<es[i]>>)]
  BY DEF EachWritten
<1> HIDE DEF w
<1>2. w \in [1 .. n -> S]
  BY <1>1
<1> HIDE DEF S
<1>3. w \in Seq(S) /\ Len(w) = n
  BY <1>2
<1>4. IsSeq(w)
  BY <1>3 DEF IsSeq
<1>5. ASSUME NEW i \in 1 .. n
      PROVE  w[i].file = f /\ Formed(w[i]) /\ PutsNone(w[i])
  <2>1. w[i].file = f /\ w[i].edits = <<es[i]>>
    BY <1>1 DEF Section
  <2> QED
    BY <2>1 DEF Formed, PutsNone
<1>6. \A i \in 1 .. n : w[i] = Section(f, <<es[i]>>)
  BY <1>1
<1> QED
  BY <1>3, <1>4, <1>5, <1>6 DEF w, WrittenTo, AllDue

\* The two sections of bootstrap that put rare passages in take no kept one out.
LEMMA BootstrapSections ==
  /\ Formed(BootstrapDriver) /\ TakesNone(BootstrapDriver)
  /\ Formed(BootstrapSysArch) /\ TakesNone(BootstrapSysArch)
<1>1. Formed(BootstrapDriver) /\ TakesNone(BootstrapDriver)
  BY FilesAre, KeptIn DEF Formed, TakesNone, BootstrapDriver, MayLack, Marked, Finding, Unless,
     Section, Edit, Insert, Need, Replace, IfFound, Refuse, OnlyIf
<1>2. Formed(BootstrapSysArch) /\ TakesNone(BootstrapSysArch)
  BY FilesAre, KeptIn DEF Formed, TakesNone, BootstrapSysArch, MayLack, Marked, Finding,
     Unless, Section, Edit, Insert, Need, Replace, IfFound, Refuse, OnlyIf
<1> QED
  BY <1>1, <1>2

\* The sections of patch-ldn-zt.py for the sources of ldn_mitm.
LEMMA LdnWritten ==
  /\ WrittenTo(LdnMain, "ldnmitm_main", 3) /\ AllDue(LdnMain, "ldnmitm_main", 5, 3)
  /\ WrittenTo(LdnProtocol, "lan_protocol", 10) /\ AllDue(LdnProtocol, "lan_protocol", 8, 10)
  /\ WrittenTo(LdnDiscovery, "lan_discovery", 12) /\ AllDue(LdnDiscovery, "lan_discovery", 18, 12)
  /\ WrittenTo(LdnService, "ldn_icommunication", 3)
  /\ AllDue(LdnService, "ldn_icommunication", 30, 3)
<1>1. /\ Rare("ldnmitm_main") = {"log::Initialize", "main", "RegisterMitmServer", "registered",
                                 "log-main-block"}
      /\ Rare("lan_protocol") = {"Pollable::Poll", "pfds[nfds]", "rc=poll", "LanSocket::close",
                                 "::close", "recvfrom", "sendto", "addr_len", "sendto-addr",
                                 "log-main-block"}
      /\ Rare("lan_discovery") = {"onRead", "accept", "getBroadcast", "setSocketOpts", "tcp-socket",
                                  "bind-1", "bind-2", "listen", "udp-socket", "connect",
                                  "local-ip", "mac-ip", "ip-config", "ip-config-call",
                                  "log-main-block"}
      /\ Rare("ldn_icommunication") = {"Initialize", "lanDiscovery.initialize", "GetIpv4Address",
                                       "ip-config-info", "log-main-block"}
  BY DEF Rare, ANCHORS
<1>2. /\ "ldnmitm_main" \in Files /\ "lan_protocol" \in Files /\ "lan_discovery" \in Files
      /\ "ldn_icommunication" \in Files
  BY FilesAre
<1>3. WrittenTo(LdnMain, "ldnmitm_main", 3) /\ AllDue(LdnMain, "ldnmitm_main", 5, 3)
  <2> DEFINE es == <<Edit({"log-main-block"}, {"log-main-block", "main"}, {"LDN-ZT:Main-entered"}),
                     Edit({"register-block"}, {"register-block", "registered"},
                          {"LDN-ZT:mitm-registered"}),
                     replace("128_KB-heap", "1_MB-heap")>>
  <2>1. DOMAIN es = 1 .. 3 /\ \A i \in 1 .. 3 : es[i].puts \cap Rare("ldnmitm_main") = {}
    BY <1>1 DEF replace, replace_line, Section, Edit, Insert, Need, Replace, IfFound, Refuse, OnlyIf
  <2>2. LdnMain = EachWritten("ldnmitm_main", es)
    BY DEF LdnMain
  <2>3. \A i \in 1 .. 3 : Due("ldnmitm_main", es[i], 5 + i)
    BY DEF Due, Turn, LdnUpstream, replace, replace_line, replace_all, replace_function, Edit, Insert, Replace
  <2> HIDE DEF es
  <2> QED
    BY <1>2, <2>1, <2>2, <2>3, Written
<1>4. WrittenTo(LdnProtocol, "lan_protocol", 10) /\ AllDue(LdnProtocol, "lan_protocol", 8, 10)
  <2> DEFINE es == <<Insert("stratosphere.hpp", "zt_bridge.hpp"),
                     Edit({"poll-loop"}, {"poll-loop", "pfds[nfds]", "rc=poll"},
                          {"ztbridge::poll"}),
                     replace("pfd=pfds[i]", "ztbridge::PollFd"),
                     replace("POLLERR", "ZT_POLLERR"),
                     replace("POLLIN", "ZT_POLLIN"),
                     replace("::close-line", "ztbridge::close"),
                     replace_line("recvfrom-line", "recvfrom", "ztbridge::recv"),
                     replace_line("sendto-line", "sendto", "ztbridge::send"),
                     Edit({"recvfrom-addr"}, {"recvfrom-addr", "addr_len"}, {"ztbridge::recv"}),
                     replace_line("sendto-addr-line", "sendto-addr", "ztbridge::sendto")>>
  <2>1. DOMAIN es = 1 .. 10 /\ \A i \in 1 .. 10 : es[i].puts \cap Rare("lan_protocol") = {}
    BY <1>1 DEF replace, replace_line, Section, Edit, Insert, Need, Replace, IfFound, Refuse, OnlyIf
  <2>2. LdnProtocol = EachWritten("lan_protocol", es)
    BY DEF LdnProtocol
  <2>3. \A i \in 1 .. 10 : Due("lan_protocol", es[i], 8 + i)
    BY DEF Due, Turn, LdnUpstream, replace, replace_line, replace_all, replace_function, Edit, Insert, Replace
  <2> HIDE DEF es
  <2> QED
    BY <1>2, <2>1, <2>2, <2>3, Written
<1>5. WrittenTo(LdnDiscovery, "lan_discovery", 12) /\ AllDue(LdnDiscovery, "lan_discovery", 18, 12)
  <2> DEFINE es == <<Insert("ipinfo.hpp", "zt_bridge.hpp"),
      Edit({"accept-block"}, {"accept-block", "accept"}, {"ztbridge::accept"}),
      replace_all({"close(new_fd)-1", "close(new_fd)-2"}, {}, "ztbridge::close"),
      replace_function("getBroadcast-def", {"ip-config", "ip-config-call"}, "peer_ip_host_order"),
      replace_function("setSocketOpts-def", {}, "no-options"),
      replace_line("tcp-socket-line", "tcp-socket", "ztbridge::socket"),
      replace_all({"bind-1-line", "bind-2-line"}, {"bind-1", "bind-2"}, "ztbridge::bind"),
      replace_line("listen-line", "listen", "ztbridge::listen"),
      replace_line("udp-socket-line", "udp-socket", "ztbridge::socket"),
      replace_line("connect-line", "connect", "ztbridge::connect"),
      Edit({"local-ip-block"}, {"local-ip-block", "local-ip"}, {"local_ip_host_order"}),
      Edit({"mac-ip-block"}, {"mac-ip-block", "mac-ip"}, {"local_ip_host_order"})>>
  <2>1. DOMAIN es = 1 .. 12 /\ \A i \in 1 .. 12 : es[i].puts \cap Rare("lan_discovery") = {}
    BY <1>1 DEF replace, replace_line, replace_all, replace_function, Section, Edit, Insert, Need, Replace,
       IfFound, Refuse, OnlyIf
  <2>2. LdnDiscovery = EachWritten("lan_discovery", es)
    BY DEF LdnDiscovery
  <2>3. \A i \in 1 .. 12 : Due("lan_discovery", es[i], 18 + i)
    BY DEF Due, Turn, LdnUpstream, replace, replace_line, replace_all, replace_function, Edit, Insert, Replace
  <2> HIDE DEF es
  <2> QED
    BY <1>2, <2>1, <2>2, <2>3, Written
<1>6. /\ WrittenTo(LdnService, "ldn_icommunication", 3)
      /\ AllDue(LdnService, "ldn_icommunication", 30, 3)
  <2> DEFINE es == <<Insert("arpa/inet.h", "zt_bridge.hpp"),
      Insert("lanDiscovery.initialize-line", "ztbridge::init"),
      replace_function("GetIpv4Address-def", {"ip-config-info"}, "local_ip_host_order")>>
  <2>1. DOMAIN es = 1 .. 3 /\ \A i \in 1 .. 3 : es[i].puts \cap Rare("ldn_icommunication") = {}
    BY <1>1 DEF replace_function, Section, Edit, Insert, Need, Replace, IfFound, Refuse, OnlyIf
  <2>2. LdnService = EachWritten("ldn_icommunication", es)
    BY DEF LdnService
  <2>3. \A i \in 1 .. 3 : Due("ldn_icommunication", es[i], 30 + i)
    BY DEF Due, Turn, LdnUpstream, replace, replace_line, replace_all, replace_function, Edit, Insert, Replace
  <2> HIDE DEF es
  <2> QED
    BY <1>2, <2>1, <2>2, <2>3, Written
<1> QED
  BY <1>3, <1>4, <1>5, <1>6

-----------------------------------------------------------------------------
\* A script of n such sections.
AllGood(x, n) == IsSeq(x) /\ Len(x) = n /\ \A i \in 1 .. n : Good(x[i])

\* How to see that it is one.
LEMMA Tuple ==
  ASSUME NEW x, NEW S, x \in Seq(S), NEW n \in Nat, Len(x) = n, \A i \in 1 .. n : Good(x[i])
  PROVE  AllGood(x, n)
BY DEF AllGood, IsSeq

\* The scripts that are written down as one tuple.
LEMMA ShortScripts ==
  /\ AllGood(PatchLibzt, 10)
  /\ AllGood(PatchLwip, 7)
  /\ AllGood(PatchPhy, 2)
  /\ AllGood(RestoreChecksum, 1)
  /\ AllGood(PatchPeerInfo, 1)
  /\ AllGood(PatchKeepalive, 2)
  /\ AllGood(PatchHotPath, 2)
<1>1. AllGood(PatchLibzt, 10)
  <2>1. PatchLibzt \in Seq({PatchLibzt[i] : i \in 1 .. 10}) /\ Len(PatchLibzt) = 10
    BY DEF PatchLibzt
  <2>2. \A i \in 1 .. 10 : Good(PatchLibzt[i])
    BY LibztSections DEF PatchLibzt
  <2> QED
    BY <2>1, <2>2, Tuple
<1>2. AllGood(PatchLwip, 7)
  <2>1. PatchLwip \in Seq({PatchLwip[i] : i \in 1 .. 7}) /\ Len(PatchLwip) = 7
    BY DEF PatchLwip
  <2>2. \A i \in 1 .. 7 : Good(PatchLwip[i])
    BY LwipSections, LwipSysArchSection DEF PatchLwip
  <2> QED
    BY <2>1, <2>2, Tuple
<1>3. AllGood(PatchPhy, 2)
  <2>1. PatchPhy \in Seq({PatchPhy[i] : i \in 1 .. 2}) /\ Len(PatchPhy) = 2
    BY DEF PatchPhy
  <2>2. \A i \in 1 .. 2 : Good(PatchPhy[i])
    BY OtherSections DEF PatchPhy
  <2> QED
    BY <2>1, <2>2, Tuple
<1>4. AllGood(RestoreChecksum, 1)
  <2>1. RestoreChecksum \in Seq({RestoreChecksum[i] : i \in 1 .. 1}) /\ Len(RestoreChecksum) = 1
    BY DEF RestoreChecksum
  <2>2. \A i \in 1 .. 1 : Good(RestoreChecksum[i])
    BY OtherSections
  <2> QED
    BY <2>1, <2>2, Tuple
<1>5. AllGood(PatchPeerInfo, 1)
  <2>1. PatchPeerInfo \in Seq({PatchPeerInfo[i] : i \in 1 .. 1}) /\ Len(PatchPeerInfo) = 1
    BY DEF PatchPeerInfo
  <2>2. \A i \in 1 .. 1 : Good(PatchPeerInfo[i])
    BY OtherSections
  <2> QED
    BY <2>1, <2>2, Tuple
<1>6. AllGood(PatchKeepalive, 2)
  <2>1. PatchKeepalive \in Seq({PatchKeepalive[i] : i \in 1 .. 2}) /\ Len(PatchKeepalive) = 2
    BY DEF PatchKeepalive
  <2>2. \A i \in 1 .. 2 : Good(PatchKeepalive[i])
    BY OtherSections DEF PatchKeepalive
  <2> QED
    BY <2>1, <2>2, Tuple
<1>7. AllGood(PatchHotPath, 2)
  <2>1. PatchHotPath \in Seq({PatchHotPath[i] : i \in 1 .. 2}) /\ Len(PatchHotPath) = 2
    BY DEF PatchHotPath
  <2>2. \A i \in 1 .. 2 : Good(PatchHotPath[i])
    BY OtherSections DEF PatchHotPath
  <2> QED
    BY <2>1, <2>2, Tuple
<1> QED
  BY <1>1, <1>2, <1>3, <1>4, <1>5, <1>6, <1>7

\* Two scripts in a row.
LEMMA Appended ==
  ASSUME NEW a, NEW b, NEW m \in Nat, NEW n \in Nat, AllGood(a, m), AllGood(b, n)
  PROVE  AllGood(a \o b, m + n)
<1>1. /\ IsSeq(a) /\ Len(a) = m /\ \A i \in 1 .. m : Good(a[i])
      /\ IsSeq(b) /\ Len(b) = n /\ \A i \in 1 .. n : Good(b[i])
  BY DEF AllGood
<1>2. /\ IsSeq(a \o b) /\ Len(a \o b) = m + n
      /\ \A i \in 1 .. m : (a \o b)[i] = a[i]
      /\ \A i \in m + 1 .. m + n : (a \o b)[i] = b[i - m]
  BY <1>1, Joined DEF Split
<1>3. ASSUME NEW i \in 1 .. m + n PROVE Good((a \o b)[i])
  <2>1. CASE i <= m
    BY <1>1, <1>2, <2>1
  <2>2. CASE ~(i <= m)
    <3>1. i - m \in 1 .. n
      BY <2>2
    <3> QED
      BY <1>1, <1>2, <2>2, <3>1
  <2> QED
    BY <2>1, <2>2, Zenon
<1> QED
  BY <1>2, <1>3 DEF AllGood

\* patch-incoming-auth-trace.py first checks that both its files exist.
LEMMA AuthScript == AllGood(PatchAuthTrace, 4)
<1>1. AllGood(AuthFilesExist, 2)
  <2>1. AuthFilesExist \in Seq({AuthFilesExist[i] : i \in 1 .. 2}) /\ Len(AuthFilesExist) = 2
    BY DEF AuthFilesExist
  <2>2. \A i \in 1 .. 2 : Good(AuthFilesExist[i])
    BY OtherSections
  <2> QED
    BY <2>1, <2>2, Tuple
<1> DEFINE b == <<AuthIncoming, AuthPeer>>
<1>2. AllGood(b, 2)
  <2>1. b \in Seq({b[i] : i \in 1 .. 2}) /\ Len(b) = 2
    OBVIOUS
  <2>2. \A i \in 1 .. 2 : Good(b[i])
    BY OtherSections
  <2> QED
    BY <2>1, <2>2, Tuple
<1>3. PatchAuthTrace = AuthFilesExist \o b
  BY DEF PatchAuthTrace
<1> HIDE DEF b
<1>4. AllGood(AuthFilesExist \o b, 2 + 2)
  BY <1>1, <1>2, Appended
<1> QED
  BY <1>3, <1>4

\* The anchor check, and the step that installs the stubs.
LEMMA CheckScript == AllGood(AnchorCheck, 4)
<1>1. ASSUME NEW f \in {"lan_protocol", "lan_discovery", "ldn_icommunication", "ldnmitm_main"}
      PROVE  Good(AllOf(f))
  <2>1. f \in Files
    BY FilesAre
  <2> QED
    BY <2>1 DEF AllOf, Good, Formed, TakesNone, PutsNone, Section, Edit
<1>2. AnchorCheck \in Seq({AnchorCheck[i] : i \in 1 .. 4}) /\ Len(AnchorCheck) = 4
  BY DEF AnchorCheck
<1>3. \A i \in 1 .. 4 : Good(AnchorCheck[i])
  BY <1>1 DEF AnchorCheck
<1> QED
  BY <1>2, <1>3, Tuple

\* The step that installs the stubs puts in one rare passage, the copy.
LEMMA StubScript ==
  /\ IsSeq(StubStep) /\ Len(StubStep) = 9
  /\ StubStep[7] = Copy("stubs")
  /\ \A i \in 1 .. 9 : /\ Formed(StubStep[i]) /\ TakesNone(StubStep[i])
                       /\ i # 7 => PutsNone(StubStep[i])
<1> DEFINE a == <<Section("checkout", <<Need("ldn_mitm-pin"), Need("Atmosphere-pin")>>)>>
           c == <<Copy("bridgeHpp"), Copy("stubs"),
                  Section("ldn_icommunication",
                    <<IfFound(Insert("arpa/inet.h", "zt_bridge.hpp")),
                      Insert("lanDiscovery.initialize-line", "ztbridge::init")>>),
                  Section("Makefile", <<Refuse("-lzt")>>)>>
<1>1. AllGood(a, 1)
  <2>1. a \in Seq({a[1]}) /\ Len(a) = 1
    OBVIOUS
  <2>2. Good(a[1])
    BY FilesAre DEF Good, Formed, TakesNone, PutsNone, Section, Need, Edit
  <2> HIDE DEF a
  <2>3. \A i \in 1 .. 1 : Good(a[i])
    BY <2>2
  <2> QED
    BY <2>1, <2>3, Tuple
<1>2. AllGood(a \o AnchorCheck, 5)
  <2> HIDE DEF a
  <2> QED
    BY <1>1, CheckScript, Appended
<1>3. IsSeq(c) /\ Len(c) = 4 /\ c[2] = Copy("stubs")
  <2>1. c \in Seq({c[i] : i \in 1 .. 4}) /\ Len(c) = 4
    OBVIOUS
  <2> QED
    BY <2>1 DEF IsSeq
<1>4. Good(c[1])
  BY FilesAre, KeptIn DEF Copy, Good, Formed, TakesNone, PutsNone, Section, Edit, LdnFiles
<1>5. Formed(c[2]) /\ TakesNone(c[2])
  BY FilesAre, KeptIn DEF Copy, Formed, TakesNone, Section, Edit
<1>6. Good(c[3])
  <2>1. /\ "zt_bridge.hpp" \notin Rare("ldn_icommunication")
        /\ "ztbridge::init" \notin Rare("ldn_icommunication")
    BY DEF Rare, ANCHORS
  <2> QED
    BY FilesAre, <2>1 DEF Good, Formed, TakesNone, PutsNone, Section, IfFound, Insert, Edit
<1>7. Good(c[4])
  BY FilesAre DEF Good, Formed, TakesNone, PutsNone, Section, Refuse, OnlyIf, Need, Edit
<1>8. StubStep = (a \o AnchorCheck) \o c
  BY DEF StubStep
<1> DEFINE b == a \o AnchorCheck
<1> HIDE DEF c, b
<1>9. IsSeq(b) /\ Len(b) = 5 /\ \A i \in 1 .. 5 : Good(b[i])
  BY <1>2 DEF AllGood, b
<1>10. /\ IsSeq(StubStep) /\ Len(StubStep) = 9
       /\ \A i \in 1 .. 9 : StubStep[i] = IF i <= 5 THEN b[i] ELSE c[i - 5]
  <2>1. StubStep = b \o c
    BY <1>8 DEF b
  <2>2. Split(b \o c, b, 5, c, 4)
    BY <1>3, <1>9, Joined
  <2>3. Split(StubStep, b, 5, c, 4)
    BY <2>1, <2>2, Zenon
  <2> QED
    BY <2>3 DEF Split
<1>11. \A i \in 1 .. 4 : Formed(c[i]) /\ TakesNone(c[i]) /\ (i # 2 => PutsNone(c[i]))
  BY <1>4, <1>5, <1>6, <1>7 DEF Good
<1> QED
  BY <1>3, <1>9, <1>10, <1>11 DEF Good

\* libzt runs inside bootstrap.
LEMMA BootstrapScript ==
  /\ IsSeq(PatchBootstrap) /\ Len(PatchBootstrap) = 13
  /\ PatchBootstrap[12] = BootstrapDriver
  /\ PatchBootstrap[13] = BootstrapSysArch
  /\ \A i \in 1 .. 13 : /\ Formed(PatchBootstrap[i]) /\ TakesNone(PatchBootstrap[i])
                        /\ i \notin {12, 13} => PutsNone(PatchBootstrap[i])
<1> DEFINE a == <<BootstrapCMake>>
           b == a \o PatchLibzt
           c == <<BootstrapDriver, BootstrapSysArch>>
<1>1. AllGood(a, 1)
  <2>1. a \in Seq({a[1]}) /\ Len(a) = 1
    OBVIOUS
  <2>2. Good(a[1])
    BY OtherSections
  <2> HIDE DEF a
  <2>3. \A i \in 1 .. 1 : Good(a[i])
    BY <2>2
  <2> QED
    BY <2>1, <2>3, Tuple
<1>2. AllGood(b, 11)
  <2> HIDE DEF a
  <2> QED
    BY <1>1, ShortScripts, Appended
<1>3. /\ IsSeq(c) /\ Len(c) = 2 /\ c[1] = BootstrapDriver /\ c[2] = BootstrapSysArch
  <2>1. c \in Seq({c[i] : i \in 1 .. 2}) /\ Len(c) = 2
    OBVIOUS
  <2> QED
    BY <2>1 DEF IsSeq
<1>4. PatchBootstrap = b \o c
  BY DEF PatchBootstrap
<1> HIDE DEF b, c
<1>5. IsSeq(b) /\ Len(b) = 11 /\ \A i \in 1 .. 11 : Good(b[i])
  BY <1>2 DEF AllGood
<1>6. /\ IsSeq(PatchBootstrap) /\ Len(PatchBootstrap) = 13
      /\ \A i \in 1 .. 13 : PatchBootstrap[i] = IF i <= 11 THEN b[i] ELSE c[i - 11]
  <2>1. Split(b \o c, b, 11, c, 2)
    BY <1>3, <1>5, Joined
  <2>2. Split(PatchBootstrap, b, 11, c, 2)
    BY <1>4, <2>1, Zenon
  <2> QED
    BY <2>2 DEF Split
<1> QED
  BY <1>3, <1>5, <1>6, BootstrapSections DEF Good

\* The first and the last sections of patch-ldn-zt.py.
LEMMA LdnEnds ==
  /\ AllGood(LdnPreconditions, 1)
  /\ AllGood(LdnCopies, 4)
  /\ IsSeq(LdnMakefile) /\ Len(LdnMakefile) = 3
  /\ Formed(LdnMakefile[1]) /\ Good(LdnMakefile[2]) /\ Good(LdnMakefile[3])
<1>1. AllGood(LdnPreconditions, 1)
  <2>1. LdnPreconditions \in Seq({LdnPreconditions[i] : i \in 1 .. 1}) /\ Len(LdnPreconditions) = 1
    BY DEF LdnPreconditions
  <2>2. Good(LdnPreconditions[1])
    BY FilesAre DEF LdnPreconditions, Good, Formed, TakesNone, PutsNone, Section, Need, Edit
  <2>3. \A i \in 1 .. 1 : Good(LdnPreconditions[i])
    BY <2>2
  <2> QED
    BY <2>1, <2>3, Tuple
<1>2. AllGood(LdnCopies, 4)
  <2>1. LdnCopies \in Seq({LdnCopies[i] : i \in 1 .. 4}) /\ Len(LdnCopies) = 4
    BY DEF LdnCopies
  <2>2. Good(Copy("bridgeHpp")) /\ Good(Copy("bridgeCpp")) /\ Good(Copy("errnoCompat"))
    BY FilesAre, KeptIn DEF Copy, Good, Formed, TakesNone, PutsNone, Section, Edit, LdnFiles
  <2>3. Good(Section("stubs", <<Edit({}, {"copy"}, {})>>))
    BY FilesAre, KeptIn DEF Good, Formed, TakesNone, PutsNone, Section, Edit
  <2>4. \A i \in 1 .. 4 : Good(LdnCopies[i])
    BY <2>2, <2>3 DEF LdnCopies
  <2> QED
    BY <2>1, <2>4, Tuple
<1>3. IsSeq(LdnMakefile) /\ Len(LdnMakefile) = 3
  <2>1. LdnMakefile \in Seq({LdnMakefile[i] : i \in 1 .. 3}) /\ Len(LdnMakefile) = 3
    BY DEF LdnMakefile
  <2> QED
    BY <2>1 DEF IsSeq
<1>4. Formed(LdnMakefile[1])
  BY FilesAre DEF LdnMakefile, Formed, Section
<1>5. Good(LdnMakefile[2]) /\ Good(LdnMakefile[3])
  BY FilesAre DEF LdnMakefile, Good, Formed, TakesNone, PutsNone, Section, Need, Edit, Refuse,
     OnlyIf
<1> QED
  BY <1>1, <1>2, <1>3, <1>4, <1>5

\* The 36 sections of patch-ldn-zt.py, by their number.
LEMMA LdnParts ==
  /\ IsSeq(PatchLdn) /\ Len(PatchLdn) = 36
  /\ \A i \in 1 .. 36 : PatchLdn[i] =
       IF i <= 1 THEN LdnPreconditions[i] ELSE IF i <= 5 THEN LdnCopies[i - 1]
       ELSE IF i <= 8 THEN LdnMain[i - 5] ELSE IF i <= 18 THEN LdnProtocol[i - 8]
       ELSE IF i <= 30 THEN LdnDiscovery[i - 18] ELSE IF i <= 33 THEN LdnService[i - 30]
       ELSE LdnMakefile[i - 33]
<1> DEFINE b == LdnPreconditions \o LdnCopies
           c == b \o LdnMain
           d == c \o LdnProtocol
           e == d \o LdnDiscovery
           f == e \o LdnService
<1>0. /\ IsSeq(LdnPreconditions) /\ Len(LdnPreconditions) = 1
      /\ IsSeq(LdnCopies) /\ Len(LdnCopies) = 4
      /\ IsSeq(LdnMain) /\ Len(LdnMain) = 3
      /\ IsSeq(LdnProtocol) /\ Len(LdnProtocol) = 10
      /\ IsSeq(LdnDiscovery) /\ Len(LdnDiscovery) = 12
      /\ IsSeq(LdnService) /\ Len(LdnService) = 3
      /\ IsSeq(LdnMakefile) /\ Len(LdnMakefile) = 3
  BY LdnEnds, LdnWritten DEF AllGood, WrittenTo
<1>1. IsSeq(b) /\ Len(b) = 5 /\ Split(b, LdnPreconditions, 1, LdnCopies, 4)
  <2>1. b = LdnPreconditions \o LdnCopies
    OBVIOUS
  <2> HIDE DEF b
  <2>2. Split(LdnPreconditions \o LdnCopies, LdnPreconditions, 1, LdnCopies, 4)
    BY <1>0, Joined
  <2>3. Split(b, LdnPreconditions, 1, LdnCopies, 4)
    BY <2>1, <2>2, Zenon
  <2> QED
    BY <2>3 DEF Split
<1>2. IsSeq(c) /\ Len(c) = 8 /\ Split(c, b, 5, LdnMain, 3)
  <2>1. c = b \o LdnMain
    OBVIOUS
  <2> HIDE DEF b, c
  <2>2. Split(b \o LdnMain, b, 5, LdnMain, 3)
    BY <1>0, <1>1, Joined
  <2>3. Split(c, b, 5, LdnMain, 3)
    BY <2>1, <2>2, Zenon
  <2> QED
    BY <2>3 DEF Split
<1>3. IsSeq(d) /\ Len(d) = 18 /\ Split(d, c, 8, LdnProtocol, 10)
  <2>1. d = c \o LdnProtocol
    OBVIOUS
  <2> HIDE DEF b, c, d
  <2>2. Split(c \o LdnProtocol, c, 8, LdnProtocol, 10)
    BY <1>0, <1>2, Joined
  <2>3. Split(d, c, 8, LdnProtocol, 10)
    BY <2>1, <2>2, Zenon
  <2> QED
    BY <2>3 DEF Split
<1>4. IsSeq(e) /\ Len(e) = 30 /\ Split(e, d, 18, LdnDiscovery, 12)
  <2>1. e = d \o LdnDiscovery
    OBVIOUS
  <2> HIDE DEF b, c, d, e
  <2>2. Split(d \o LdnDiscovery, d, 18, LdnDiscovery, 12)
    BY <1>0, <1>3, Joined
  <2>3. Split(e, d, 18, LdnDiscovery, 12)
    BY <2>1, <2>2, Zenon
  <2> QED
    BY <2>3 DEF Split
<1>5. IsSeq(f) /\ Len(f) = 33 /\ Split(f, e, 30, LdnService, 3)
  <2>1. f = e \o LdnService
    OBVIOUS
  <2> HIDE DEF b, c, d, e, f
  <2>2. Split(e \o LdnService, e, 30, LdnService, 3)
    BY <1>0, <1>4, Joined
  <2>3. Split(f, e, 30, LdnService, 3)
    BY <2>1, <2>2, Zenon
  <2> QED
    BY <2>3 DEF Split
<1>6. IsSeq(PatchLdn) /\ Len(PatchLdn) = 36 /\ Split(PatchLdn, f, 33, LdnMakefile, 3)
  <2>1. PatchLdn = f \o LdnMakefile
    BY DEF PatchLdn
  <2> HIDE DEF b, c, d, e, f
  <2>2. Split(f \o LdnMakefile, f, 33, LdnMakefile, 3)
    BY <1>0, <1>5, Joined
  <2>3. Split(PatchLdn, f, 33, LdnMakefile, 3)
    BY <2>1, <2>2, Zenon
  <2> QED
    BY <2>3 DEF Split
<1> HIDE DEF b, c, d, e, f
<1> QED
  BY <1>1, <1>2, <1>3, <1>4, <1>5, <1>6 DEF Split

\* From its 6th section on it takes out what it replaces; only the 34th puts a rare
\* passage in.
LEMMA LdnScript ==
  /\ PatchLdn[6] = LdnMain[1]
  /\ PatchLdn[34] = LdnMakefile[1]
  /\ \A i \in 1 .. 36 : /\ Formed(PatchLdn[i])
                        /\ i < 6 => TakesNone(PatchLdn[i])
                        /\ i # 34 => PutsNone(PatchLdn[i])
<1>1. PatchLdn[6] = LdnMain[1] /\ PatchLdn[34] = LdnMakefile[1]
  BY LdnParts
<1>2. /\ Good(LdnPreconditions[1])
      /\ \A i \in 1 .. 4 : Good(LdnCopies[i])
      /\ \A i \in 1 .. 3 : Formed(LdnMain[i]) /\ PutsNone(LdnMain[i])
      /\ \A i \in 1 .. 10 : Formed(LdnProtocol[i]) /\ PutsNone(LdnProtocol[i])
      /\ \A i \in 1 .. 12 : Formed(LdnDiscovery[i]) /\ PutsNone(LdnDiscovery[i])
      /\ \A i \in 1 .. 3 : Formed(LdnService[i]) /\ PutsNone(LdnService[i])
  BY LdnEnds, LdnWritten DEF AllGood, WrittenTo
<1>3. ASSUME NEW i \in 1 .. 36
      PROVE  /\ Formed(PatchLdn[i])
             /\ i < 6 => TakesNone(PatchLdn[i])
             /\ i # 34 => PutsNone(PatchLdn[i])
  <2>1. CASE i = 1
    BY <1>2, <2>1, LdnParts DEF Good
  <2>2. CASE i \in 2 .. 5
    BY <1>2, <2>2, LdnParts DEF Good
  <2>3. CASE i \in 6 .. 8
    BY <1>2, <2>3, LdnParts
  <2>4. CASE i \in 9 .. 18
    BY <1>2, <2>4, LdnParts
  <2>5. CASE i \in 19 .. 30
    BY <1>2, <2>5, LdnParts
  <2>6. CASE i \in 31 .. 33
    BY <1>2, <2>6, LdnParts
  <2>7. CASE i \in 34 .. 36
    BY <2>7, LdnEnds, LdnParts DEF Good
  <2> QED
    BY <2>1, <2>2, <2>3, <2>4, <2>5, <2>6, <2>7
<1> QED
  BY <1>1, <1>3

\* Every section of every script.
Facts(s, x) ==
  /\ Len(x) \in Nat
  /\ \A i \in 1 .. Len(x) : /\ Formed(x[i])
                            /\ ~TakesOut(s, i) => TakesNone(x[i])
                            /\ ~PutsIn(s, i) => PutsNone(x[i])

\* So it is for all the scripts.
LEMMA SectionFacts == \A s \in Scripts : Facts(s, Script[s])
<1>1. Scripts = {"bootstrap", "libzt", "lwip", "phy", "restore", "peerinfo", "keepalive", "auth",
                 "hotpath", "ldn", "check", "stubs"}
  BY DEF Scripts, Script
<1>2. /\ Script["bootstrap"] = PatchBootstrap /\ Script["libzt"] = PatchLibzt
      /\ Script["lwip"] = PatchLwip /\ Script["phy"] = PatchPhy
      /\ Script["restore"] = RestoreChecksum /\ Script["peerinfo"] = PatchPeerInfo
      /\ Script["keepalive"] = PatchKeepalive /\ Script["auth"] = PatchAuthTrace
      /\ Script["hotpath"] = PatchHotPath /\ Script["ldn"] = PatchLdn
      /\ Script["check"] = AnchorCheck /\ Script["stubs"] = StubStep
  BY DEF Script
<1>3. ASSUME NEW s, NEW x, NEW n \in Nat, AllGood(x, n)
      PROVE  Facts(s, x)
  BY <1>3 DEF Facts, AllGood, Good
<1>4. Facts("bootstrap", PatchBootstrap)
  <2>1. Len(PatchBootstrap) = 13
    BY BootstrapScript
  <2>2. \A i \in 1 .. 13 : ~PutsIn("bootstrap", i) => i \notin {12, 13}
    BY DEF PutsIn
  <2> QED
    BY <2>1, <2>2, BootstrapScript DEF Facts
<1>5. Facts("ldn", PatchLdn)
  <2>1. Len(PatchLdn) = 36
    BY LdnParts
  <2>2. \A i \in 1 .. 36 : (~TakesOut("ldn", i) => i < 6) /\ (~PutsIn("ldn", i) => i # 34)
    BY DEF PutsIn, TakesOut
  <2> QED
    BY <2>1, <2>2, LdnScript DEF Facts
<1>6. Facts("stubs", StubStep)
  <2>1. Len(StubStep) = 9
    BY StubScript
  <2>2. \A i \in 1 .. 9 : ~PutsIn("stubs", i) => i # 7
    BY DEF PutsIn
  <2> QED
    BY <2>1, <2>2, StubScript DEF Facts
<1>7. \A s : /\ Facts(s, PatchLibzt) /\ Facts(s, PatchLwip) /\ Facts(s, PatchPhy)
             /\ Facts(s, RestoreChecksum) /\ Facts(s, PatchPeerInfo) /\ Facts(s, PatchKeepalive)
             /\ Facts(s, PatchAuthTrace) /\ Facts(s, PatchHotPath) /\ Facts(s, AnchorCheck)
  BY <1>3, ShortScripts, AuthScript, CheckScript
<1> QED
  BY <1>1, <1>2, <1>4, <1>5, <1>6, <1>7

\* A set as a bag.
LEMMA SetBag ==
  ASSUME NEW S
  PROVE  /\ IsABag(SetToBag(S))
         /\ Passages(SetToBag(S)) = S
         /\ \A p : CountIn(p, SetToBag(S)) = IF p \in S THEN 1 ELSE 0
BY DEF IsABag, SetToBag, Passages, BagToSet, CountIn

\* What is left of a file in a checkout.
LEMMA CheckoutIs ==
  ASSUME NEW w, NEW l \in {Nothing, Older} \cup Losses(w)
  PROVE  /\ Checkout(l) = [f \in Files |-> Checkout(l)[f]]
         /\ \A f \in Files : \E S :
              /\ Checkout(l)[f] = SetToBag(S)
              /\ f \notin {"main", "posix"} =>
                   /\ S \subseteq Sources[f]
                   /\ \A p \in Sources[f] \ S : \E q : l = <<f, q>> /\ p \in LostWith(f, q)
<1>1. CASE l = Nothing
  <2>1. Checkout(l) = Text(Sources)
    <3>1. Nothing # Older
      BY DEF Nothing, Older
    <3> QED
      BY <1>1, <3>1 DEF Checkout
  <2>2. ASSUME NEW f \in Files
        PROVE  \E S : /\ Checkout(l)[f] = SetToBag(S)
                      /\ S \subseteq Sources[f] /\ Sources[f] \ S = {}
    BY <2>1 DEF Text
  <2> QED
    BY <2>1, <2>2 DEF Text
<1>2. CASE l # Nothing /\ l = Older
  <2>1. Checkout(l) = [f \in Files |-> SetToBag(Both(OlderApp, Sources)[f])]
    BY <1>2 DEF Checkout, Text
  <2>2. \A f \in Files : f \notin {"main", "posix"} => Both(OlderApp, Sources)[f] = Sources[f]
    BY DEF Both, OlderApp, Files
  <2> QED
    BY <2>1, <2>2
<1>3. CASE l # Nothing /\ l # Older
  <2>1. PICK f0, p0 : l = <<f0, p0>>
    BY <1>3 DEF Losses, Pairs
  <2> DEFINE R == [Sources EXCEPT ![l[1]] = @ \ LostWith(l[1], l[2])]
  <2>2. Checkout(l) = [f \in Files |-> SetToBag(R[f])]
    BY <1>3 DEF Checkout, Text
  <2>3. Sources = [f \in Files |-> Sources[f]]
    BY DEF Files, Sources, Both
  <2>4. \A f \in Files : R[f] = IF f = f0 THEN Sources[f] \ LostWith(f0, p0) ELSE Sources[f]
    BY <2>1, <2>3
  <2> HIDE DEF R
  <2>5. ASSUME NEW f \in Files
        PROVE  /\ R[f] \subseteq Sources[f]
               /\ \A p \in Sources[f] \ R[f] : \E q : l = <<f, q>> /\ p \in LostWith(f, q)
    BY <2>1, <2>4
  <2> QED
    BY <2>2, <2>5
<1> QED
  BY <1>1, <1>2, <1>3

\* The same in terms of passages.
LEMMA CheckoutText ==
  ASSUME NEW w, NEW l \in {Nothing, Older} \cup Losses(w), NEW f \in Files \ {"main", "posix"}
  PROVE  /\ Passages(Checkout(l)[f]) \subseteq Sources[f]
         /\ \A p \in Sources[f] : p \notin Passages(Checkout(l)[f]) =>
              \E q : l = <<f, q>> /\ p \in LostWith(f, q)
         /\ \A p : CountIn(p, Checkout(l)[f]) = IF p \in Passages(Checkout(l)[f]) THEN 1 ELSE 0
<1>1. PICK S : /\ Checkout(l)[f] = SetToBag(S)
               /\ S \subseteq Sources[f]
               /\ \A p \in Sources[f] \ S : \E q : l = <<f, q>> /\ p \in LostWith(f, q)
  <2>1. \A g \in Files : \E S :
              /\ Checkout(l)[g] = SetToBag(S)
              /\ g \notin {"main", "posix"} =>
                   /\ S \subseteq Sources[g]
                   /\ \A p \in Sources[g] \ S : \E q : l = <<g, q>> /\ p \in LostWith(g, q)
    BY CheckoutIs
  <2> QED
    BY <2>1
<1> QED
  BY <1>1, SetBag

\* A function of the files, each of them a bag.
TreeOK == tree = [f \in Files |-> tree[f]] /\ \A f \in Files : IsABag(tree[f])

\* What differs in the checkout is something that these scripts look for.
LostOK == lost \in {Nothing, Older} \cup Losses(work)

\* The types, as far as the proofs need them.
Typed == TypeOK /\ TreeOK /\ LostOK

\* The section that runs is one of those.
LEMMA Lookup ==
  ASSUME Typed, running # Idle, step <= Len(Script[running])
  PROVE  /\ running \in Scripts /\ step \in 1 .. Len(Script[running])
         /\ Facts(running, Script[running])
         /\ Formed(Now)
         /\ ~TakesOut(running, step) => TakesNone(Now)
         /\ ~PutsIn(running, step) => PutsNone(Now)
<1>1. running \in Scripts
  BY WorkspaceAssumption DEF Typed, TypeOK
<1>2. Facts(running, Script[running])
  BY <1>1, SectionFacts
<1>3. step \in 1 .. Len(Script[running])
  BY <1>2 DEF Typed, TypeOK, Facts
<1> QED
  BY <1>1, <1>2, <1>3 DEF Facts, Now

\* What a section does to the files.
LEMMA SectionStep ==
  ASSUME Typed, RunSection
  PROVE  /\ running \in Scripts /\ step \in 1 .. Len(Script[running])
         /\ Formed(Now)
         /\ TreeOK'
         /\ \A f \in Files : f # Now.file => tree'[f] = tree[f]
         /\ tree'[Now.file] = Rewritten(tree[Now.file], Now)
         /\ \A f \in Files : \A p : CountIn(p, tree[f]) \in Nat /\ CountIn(p, tree'[f]) \in Nat
         /\ ~TakesOut(running, step) =>
              \A f \in Files : \A p \in Kept(f) : CountIn(p, tree'[f]) >= CountIn(p, tree[f])
         /\ ~PutsIn(running, step) =>
              \A f \in Files : \A p \in Rare(f) : CountIn(p, tree'[f]) <= CountIn(p, tree[f])
<1>1. /\ running # Idle /\ step <= Len(Script[running])
      /\ tree' = [tree EXCEPT ![Now.file] = Rewritten(tree[Now.file], Now)]
  BY DEF RunSection, Editing
<1>2. /\ running \in Scripts /\ step \in 1 .. Len(Script[running])
      /\ Now.file \in Files /\ Len(Now.edits) \in Nat
      /\ ~TakesOut(running, step) => TakesNone(Now)
      /\ ~PutsIn(running, step) => PutsNone(Now)
  BY <1>1, Lookup DEF Formed
<1>3. /\ tree = [f \in Files |-> tree[f]]
      /\ \A f \in Files : IsABag(tree[f])
  BY DEF Typed, TreeOK
<1> DEFINE F == Now.file
           k == Now
<1> HIDE DEF F, k
<1>4. /\ tree' = [f \in Files |-> tree'[f]]
      /\ \A f \in Files : f # F => tree'[f] = tree[f]
      /\ tree'[F] = Rewritten(tree[F], k)
  BY <1>1, <1>2, <1>3 DEF F, k
<1>5. ASSUME NEW p
      PROVE  /\ IsABag(tree'[F])
             /\ CountIn(p, tree[F]) \in Nat
             /\ CountIn(p, tree'[F]) \in Nat
             /\ (\A i \in 1 .. Len(k.edits) : p \notin k.edits[i].takes)
                  => CountIn(p, tree'[F]) >= CountIn(p, tree[F])
             /\ (\A i \in 1 .. Len(k.edits) : p \notin k.edits[i].puts)
                  => CountIn(p, tree'[F]) <= CountIn(p, tree[F])
  <2>1. IsABag(tree[F]) /\ Len(k.edits) \in Nat
    BY <1>2, <1>3 DEF F, k
  <2> QED
    BY <1>4, <2>1, RewrittenCopies
<1>6. \A f \in Files : IsABag(tree'[f])
  BY <1>3, <1>4, <1>5
<1>7. \A f \in Files : \A p : CountIn(p, tree[f]) \in Nat /\ CountIn(p, tree'[f]) \in Nat
  BY <1>3, <1>6, EditedCopies
<1>8. ASSUME ~TakesOut(running, step), NEW f \in Files, NEW p \in Kept(f)
      PROVE  CountIn(p, tree'[f]) >= CountIn(p, tree[f])
  <2>1. CASE f = F
    <3>1. \A i \in 1 .. Len(k.edits) : p \notin k.edits[i].takes
      BY <1>2, <1>8, <2>1 DEF TakesNone, F, k
    <3> QED
      BY <1>5, <2>1, <3>1
  <2>2. CASE f # F
    BY <1>4, <1>7, <2>2
  <2> QED
    BY <2>1, <2>2
<1>9. ASSUME ~PutsIn(running, step), NEW f \in Files, NEW p \in Rare(f)
      PROVE  CountIn(p, tree'[f]) <= CountIn(p, tree[f])
  <2>1. CASE f = F
    <3>1. \A i \in 1 .. Len(k.edits) : p \notin k.edits[i].puts
      BY <1>2, <1>9, <2>1 DEF PutsNone, F, k
    <3> QED
      BY <1>5, <2>1, <3>1
  <2>2. CASE f # F
    BY <1>4, <1>7, <2>2
  <2> QED
    BY <2>1, <2>2
<1> QED
  BY <1>2, <1>4, <1>6, <1>7, <1>8, <1>9 DEF F, k, TreeOK, Formed

\* What is left of a file when a write is cut short.
LEMMA WithoutCopies ==
  ASSUME NEW text, IsABag(text), NEW gone
  PROVE  /\ IsABag(Without(text, gone))
         /\ \A p : CountIn(p, Without(text, gone)) \in Nat
         /\ \A p : CountIn(p, Without(text, gone)) <= CountIn(p, text)
         /\ \A p : p \in Passages(Without(text, gone)) => p \in Passages(text)
<1> DEFINE left == Without(text, gone)
<1>1. /\ \A q \in DOMAIN text : text[q] \in Nat /\ text[q] > 0
      /\ text = [q \in DOMAIN text |-> text[q]]
  BY DEF IsABag
<1>2. /\ DOMAIN left = DOMAIN text \ gone
      /\ \A q \in DOMAIN left : left[q] = text[q]
      /\ left = [q \in DOMAIN left |-> left[q]]
  BY DEF Without, Passages, BagToSet
<1> HIDE DEF left
<1>3. IsABag(left)
  BY <1>1, <1>2 DEF IsABag
<1>4. \A p : /\ CountIn(p, left) \in Nat
             /\ CountIn(p, left) <= CountIn(p, text)
             /\ p \in Passages(left) => p \in Passages(text)
  BY <1>1, <1>2 DEF CountIn, Passages, BagToSet
<1> QED
  BY <1>3, <1>4 DEF left

\* What a write cut short does to the files.
LEMMA CutStep ==
  ASSUME Typed, CutWrite
  PROVE  /\ running # Idle
         /\ running \in Scripts /\ step \in 1 .. Len(Script[running])
         /\ Formed(Now)
         /\ TreeOK'
         /\ \A f \in Files : f # Now.file => tree'[f] = tree[f]
         /\ \A p : CountIn(p, tree'[Now.file]) <= CountIn(p, Rewritten(tree[Now.file], Now))
         /\ \A f \in Files : \A p : CountIn(p, tree[f]) \in Nat /\ CountIn(p, tree'[f]) \in Nat
         /\ ~PutsIn(running, step) =>
              \A f \in Files : \A p \in Rare(f) : CountIn(p, tree'[f]) <= CountIn(p, tree[f])
         /\ cut' = cut \cup {Now.file}
         /\ emptied' \subseteq emptied \cup {Now.file}
         /\ End("cut-short")
<1> DEFINE text == Rewritten(tree[Now.file], Now)
<1>1. /\ running # Idle /\ step <= Len(Script[running])
      /\ \E gone : tree' = [tree EXCEPT ![Now.file] = Without(text, gone)]
      /\ emptied' = emptied \cup {Now.file} \/ emptied' = emptied
      /\ cut' = cut \cup {Now.file}
      /\ End("cut-short")
  BY DEF CutWrite, Editing
<1>2. /\ running \in Scripts /\ step \in 1 .. Len(Script[running])
      /\ Now.file \in Files /\ Len(Now.edits) \in Nat /\ Formed(Now)
      /\ ~PutsIn(running, step) => PutsNone(Now)
  BY <1>1, Lookup DEF Formed
<1>3. /\ tree = [f \in Files |-> tree[f]]
      /\ \A f \in Files : IsABag(tree[f])
  BY DEF Typed, TreeOK
<1> DEFINE F == Now.file
           k == Now
<1>4. PICK gone : tree' = [tree EXCEPT ![F] = Without(text, gone)]
  BY <1>1
<1> HIDE DEF F, k, text
<1>5. /\ tree' = [f \in Files |-> tree'[f]]
      /\ \A f \in Files : f # F => tree'[f] = tree[f]
      /\ tree'[F] = Without(text, gone)
  BY <1>2, <1>3, <1>4 DEF F
<1>6. ASSUME NEW p
      PROVE  /\ IsABag(text)
             /\ CountIn(p, tree[F]) \in Nat
             /\ CountIn(p, text) \in Nat
             /\ (\A i \in 1 .. Len(k.edits) : p \notin k.edits[i].puts)
                  => CountIn(p, text) <= CountIn(p, tree[F])
  <2>1. IsABag(tree[F]) /\ Len(k.edits) \in Nat
    BY <1>2, <1>3 DEF F, k
  <2> QED
    BY <2>1, RewrittenCopies DEF text, F, k
<1>7. /\ IsABag(tree'[F])
      /\ \A p : CountIn(p, tree'[F]) \in Nat /\ CountIn(p, tree'[F]) <= CountIn(p, text)
  BY <1>5, <1>6, WithoutCopies
<1>8. \A f \in Files : IsABag(tree'[f])
  BY <1>3, <1>5, <1>7
<1>9. \A f \in Files : \A p : CountIn(p, tree[f]) \in Nat /\ CountIn(p, tree'[f]) \in Nat
  BY <1>3, <1>8, EditedCopies
<1>10. ASSUME ~PutsIn(running, step), NEW f \in Files, NEW p \in Rare(f)
       PROVE  CountIn(p, tree'[f]) <= CountIn(p, tree[f])
  <2>1. CASE f = F
    <3>1. \A i \in 1 .. Len(k.edits) : p \notin k.edits[i].puts
      BY <1>2, <1>10, <2>1 DEF PutsNone, F, k
    <3> QED
      BY <1>6, <1>7, <2>1, <3>1
  <2>2. CASE f # F
    BY <1>5, <1>9, <2>2
  <2> QED
    BY <2>1, <2>2
<1> QED
  BY <1>1, <1>2, <1>5, <1>7, <1>8, <1>9, <1>10 DEF F, text, TreeOK, Formed

-----------------------------------------------------------------------------
\* The types hold in every checkout,
LEMMA InitTyped == Init => Typed
<1> SUFFICES ASSUME Init PROVE Typed
  OBVIOUS
<1>1. TreeOK
  <2>1. /\ tree = [f \in Files |-> Checkout(lost)[f]]
        /\ \A f \in Files : \E S : Checkout(lost)[f] = SetToBag(S)
    BY CheckoutIs DEF Init
  <2>2. \A f \in Files : IsABag(Checkout(lost)[f])
    BY <2>1, SetBag
  <2> QED
    BY <2>1, <2>2 DEF TreeOK
<1>2. TypeOK
  BY <1>1, StartsAssumption DEF Init, TypeOK, TreeOK
<1> QED
  BY <1>1, <1>2 DEF Init, Typed, LostOK

\* and every step of a script, its start and its end keep them.
LEMMA TypedStep == Typed /\ [Next]_vars => Typed'
<1> SUFFICES ASSUME Typed, [Next]_vars PROVE Typed'
  OBVIOUS
<1>1. Idle \notin Scripts
  BY DEF Idle, Scripts, Script
<1>2. ASSUME NEW s \in work, Start(s) PROVE Typed'
  <2>1. s \in Scripts
    BY WorkspaceAssumption DEF Typed, TypeOK
  <2>2. Len(Script[s]) \in Nat
    BY <2>1, SectionFacts DEF Facts
  <2>3. TypeOK'
    BY <1>1, <1>2, <2>1, <2>2, StartsAssumption DEF Typed, TypeOK, Start
  <2> QED
    BY <1>2, <2>3 DEF Typed, TreeOK, LostOK, Start
<1>3. ASSUME NEW how \in {"done", "cut-short"}, End(how), running # Idle,
             UNCHANGED <<tree, cut, emptied>>
      PROVE  Typed'
  <2>1. running \in Scripts
    BY <1>3, WorkspaceAssumption DEF Typed, TypeOK
  <2>2. outcome' \in [Scripts -> {"never-run", "done", "cut-short"}]
    BY <1>3, <2>1 DEF Typed, TypeOK, End
  <2>3. TypeOK'
    BY <1>3, <2>2 DEF Typed, TypeOK, End
  <2> QED
    BY <1>3, <2>3 DEF Typed, TreeOK, LostOK, End
<1>4. CASE RunSection
  <2>1. /\ TreeOK' /\ running \in Scripts /\ step \in 1 .. Len(Script[running])
    BY <1>4, SectionStep
  <2>2. /\ running # Idle /\ step' = step + 1
        /\ UNCHANGED <<work, lost, cut, emptied, running, outcome, starts>>
    BY <1>4 DEF RunSection, Editing
  <2>3. Len(Script[running]) \in Nat
    BY <2>1, SectionFacts DEF Facts
  <2>4. step' \in 1 .. Len(Script[running]) + 1
    BY <2>1, <2>2, <2>3
  <2>5. TypeOK'
    BY <2>1, <2>2, <2>4 DEF Typed, TypeOK, TreeOK
  <2> QED
    BY <2>1, <2>2, <2>5 DEF Typed, LostOK
<1>5. CASE SystemExit
  BY <1>3, <1>5 DEF SystemExit, Editing
<1>6. CASE Finish
  BY <1>3, <1>6 DEF Finish
<1>7. CASE Kill
  BY <1>3, <1>7 DEF Kill
<1>8. CASE CutWrite
  <2>1. /\ TreeOK' /\ running \in Scripts /\ running # Idle /\ Now.file \in Files
        /\ cut' = cut \cup {Now.file} /\ emptied' \subseteq emptied \cup {Now.file}
        /\ End("cut-short")
    BY <1>8, CutStep DEF Formed
  <2>2. outcome' \in [Scripts -> {"never-run", "done", "cut-short"}]
    BY <2>1 DEF Typed, TypeOK, End
  <2>3. TypeOK'
    BY <2>1, <2>2 DEF Typed, TypeOK, TreeOK, End
  <2> QED
    BY <2>1, <2>3 DEF Typed, LostOK, End
<1>9. CASE UNCHANGED vars
  BY <1>9 DEF vars, Typed, TypeOK, TreeOK, LostOK
<1> QED
  BY <1>2, <1>4, <1>5, <1>6, <1>7, <1>8, <1>9 DEF Next

-----------------------------------------------------------------------------
(* The sections that take a kept passage out or put a rare one in.         *)

\* Which they are,
LEMMA NowIs ==
  /\ running = "ldn" /\ step = 6 => Now = LdnMain[1]
  /\ running = "ldn" /\ step = 34 => Now = LdnMakefile[1]
  /\ running = "bootstrap" /\ step = 12 => Now = BootstrapDriver
  /\ running = "bootstrap" /\ step = 13 => Now = BootstrapSysArch
  /\ running = "stubs" /\ step = 7 => Now = Copy("stubs")
<1>1. /\ Script["bootstrap"] = PatchBootstrap /\ Script["ldn"] = PatchLdn
      /\ Script["stubs"] = StubStep
  BY DEF Script
<1> QED
  BY <1>1, LdnScript, BootstrapScript, StubScript DEF Now

\* and whose files they edit.
LEMMA FilesOfPuts ==
  /\ LdnMakefile[1].file = "Makefile"
  /\ BootstrapDriver.file = "VirtualTap"
  /\ BootstrapSysArch.file = "sys_arch"
  /\ Copy("stubs").file = "stubs"
BY DEF LdnMakefile, BootstrapDriver, BootstrapSysArch, Copy, MayLack, Finding, Marked, Section

\* A section of one edit.
LEMMA OneEdit ==
  ASSUME NEW text, NEW f, NEW e, ~Aborts(text, Section(f, <<e>>))
  PROVE  Rewritten(text, Section(f, <<e>>)) = Edited(text, e) /\ ~Exits(text, e)
<1> DEFINE k == Section(f, <<e>>)
           D == Drafts(text, k)
<1>1. k.edits = <<e>> /\ k.find = {} /\ k.marker = {}
  BY DEF Section
<1> HIDE DEF k
<1>2. ~LeftAlone(text, k)
  BY <1>1 DEF LeftAlone, Found
<1>3. Len(k.edits) = 1 /\ k.edits[1] = e
  BY <1>1
<1>4. D[0] = text /\ D[1] = Edited(D[0], e)
  BY <1>3, DraftSteps
<1>5. Rewritten(text, k) = D[1]
  BY <1>2, <1>3 DEF Rewritten
<1>6. ~ \E i \in 1 .. Len(k.edits) : Exits(D[i - 1], k.edits[i])
  BY <1>2 DEF Aborts, k
<1> HIDE DEF D
<1>7. ~Exits(D[0], e)
  BY <1>3, <1>6
<1> QED
  BY <1>4, <1>5, <1>7 DEF k

\* The edit of the log block happens only once to a file.
LEMMA LdnFirstEdit ==
  ASSUME Typed, RunSection \/ CutWrite, running = "ldn", step = 6
  PROVE  /\ "log-main-block" \in Passages(tree["ldnmitm_main"])
         /\ \A p \in {"log-main-block", "main"} :
              CountIn(p, tree["ldnmitm_main"]) <= 1 => p \notin Passages(tree'["ldnmitm_main"])
<1> DEFINE e == Edit({"log-main-block"}, {"log-main-block", "main"}, {"LDN-ZT:Main-entered"})
           text == tree["ldnmitm_main"]
<1>1. Now = Section("ldnmitm_main", <<e>>)
  <2>1. LdnMain[1] = Section("ldnmitm_main", <<e>>)
    BY DEF LdnMain, EachWritten
  <2> QED
    BY <2>1, NowIs
<1>2. /\ e.when = {} /\ e.unless = {} /\ e.excuse = {} /\ e.needs = {"log-main-block"}
      /\ e.takes = {"log-main-block", "main"} /\ e.puts = {"LDN-ZT:Main-entered"}
  BY DEF Edit
<1> HIDE DEF e
<1>3. Now.file = "ldnmitm_main"
  BY <1>1 DEF Section
<1>4. ~Aborts(text, Section("ldnmitm_main", <<e>>))
  BY <1>1, <1>3 DEF RunSection, CutWrite
<1>5. /\ ~Exits(text, e) /\ Rewritten(text, Now) = Edited(text, e)
      /\ RunSection => tree'["ldnmitm_main"] = Edited(text, e)
  <2>1. RunSection => tree'["ldnmitm_main"] = Rewritten(text, Now)
    BY <1>3, SectionStep
  <2> QED
    BY <1>1, <1>4, <2>1, OneEdit
<1>6. ~Skipped(text, e)
  BY <1>2 DEF Skipped
<1>7. IsABag(text)
  BY FilesAre DEF Typed, TreeOK
<1>8. "log-main-block" \in Passages(text)
  BY <1>2, <1>5, <1>6 DEF Exits
<1>9. ASSUME NEW p \in {"log-main-block", "main"}, CountIn(p, text) <= 1
      PROVE  p \notin Passages(Edited(text, e))
  BY <1>2, <1>6, <1>7, <1>9, EditedCopies
<1>10. ASSUME CutWrite, NEW p \in {"log-main-block", "main"}, CountIn(p, text) <= 1
       PROVE  p \notin Passages(tree'["ldnmitm_main"])
  <2>1. /\ IsABag(Edited(text, e)) /\ CountIn(p, Edited(text, e)) = 0
    BY <1>7, <1>9, <1>10, EditedCopies
  <2>2. /\ IsABag(tree'["ldnmitm_main"])
        /\ CountIn(p, tree'["ldnmitm_main"]) <= CountIn(p, Edited(text, e))
    BY <1>3, <1>5, <1>10, FilesAre, CutStep DEF TreeOK
  <2>3. /\ CountIn(p, tree'["ldnmitm_main"]) \in Nat
        /\ p \in Passages(tree'["ldnmitm_main"]) => CountIn(p, tree'["ldnmitm_main"]) > 0
    BY <2>2, EditedCopies
  <2> QED
    BY <2>1, <2>2, <2>3
<1> QED
  BY <1>5, <1>8, <1>9, <1>10

\* Once linked, the Makefile names the library once.
LEMMA LdnLink ==
  ASSUME Typed, RunSection \/ CutWrite, running = "ldn", step = 34,
         "-lzt" \notin Passages(tree["Makefile"])
  PROVE  CountIn("-lzt", tree'["Makefile"]) <= 1
<1> DEFINE e == IfFound(Insert("VERSION_DEFINES", "-lzt"))
           text == tree["Makefile"]
<1>1. Now = Section("Makefile", <<e>>)
  <2>1. LdnMakefile[1] = Section("Makefile", <<e>>)
    BY DEF LdnMakefile
  <2> QED
    BY <2>1, NowIs
<1> HIDE DEF e
<1>2. Now.file = "Makefile"
  BY <1>1 DEF Section
<1>3. ~Aborts(text, Section("Makefile", <<e>>))
  BY <1>1, <1>2 DEF RunSection, CutWrite
<1>4. /\ Rewritten(text, Now) = Edited(text, e)
      /\ RunSection => tree'["Makefile"] = Edited(text, e)
  <2>1. RunSection => tree'["Makefile"] = Rewritten(text, Now)
    BY <1>2, SectionStep
  <2> QED
    BY <1>1, <1>3, <2>1, OneEdit
<1>5. IsABag(text)
  BY FilesAre DEF Typed, TreeOK
<1>6. CountIn("-lzt", text) = 0
  BY <1>5, EditedCopies
<1>7. CountIn("-lzt", Edited(text, e))
        <= IF CountIn("-lzt", text) = 0 THEN 1 ELSE CountIn("-lzt", text)
  BY <1>5, EditedCopies
<1>8. CountIn("-lzt", Edited(text, e)) \in Nat
  BY <1>5, EditedCopies
<1>9. ASSUME CutWrite PROVE CountIn("-lzt", tree'["Makefile"]) <= 1
  <2>1. /\ CountIn("-lzt", tree'["Makefile"]) \in Nat
        /\ CountIn("-lzt", tree'["Makefile"]) <= CountIn("-lzt", Edited(text, e))
    BY <1>2, <1>4, <1>9, FilesAre, CutStep
  <2> QED
    BY <1>6, <1>7, <1>8, <2>1
<1> QED
  BY <1>4, <1>6, <1>7, <1>9

-----------------------------------------------------------------------------
\* The types hold all the time.
LEMMA TypedInvariant == Spec => []Typed
<1>1. Init => Typed
  BY InitTyped
<1>2. Typed /\ [Next]_vars => Typed'
  BY TypedStep
<1> QED
  BY <1>1, <1>2, PTL DEF Spec

\* How many copies of the passages of "Links" the checkout has.
LEMMA LinksInitially == Init => Links
<1> SUFFICES ASSUME Init PROVE Links
  OBVIOUS
<1>1. /\ lost \in {Nothing, Older} \cup Losses(work) /\ tree = Checkout(lost)
      /\ "Makefile" \in Files \ {"main", "posix"} /\ "ldnmitm_main" \in Files \ {"main", "posix"}
  BY FilesAre DEF Init
<1>2. "-lzt" \notin Sources["Makefile"]
  BY DEF Sources, Both, Upstream, LdnUpstream
<1>3. "-lzt" \notin Passages(tree["Makefile"]) /\ CountIn("-lzt", tree["Makefile"]) = 0
  <2>1. /\ "-lzt" \notin Passages(Checkout(lost)["Makefile"])
        /\ CountIn("-lzt", Checkout(lost)["Makefile"]) = 0
    BY <1>1, <1>2, CheckoutText
  <2> QED
    BY <1>1, <2>1
<1>4. CountIn("log-main-block", tree["ldnmitm_main"]) <= 1
  <2>1. CountIn("log-main-block", Checkout(lost)["ldnmitm_main"]) \in {0, 1}
    BY <1>1, CheckoutText
  <2> QED
    BY <1>1, <2>1
<1>5. running # "ldn"
  BY DEF Init, Idle
<1> QED
  BY <1>3, <1>4, <1>5 DEF Links, LinkedOnce, Past

\* Every step keeps Links: the 34th section of patch-ldn-zt.py is reached only past the
\* 6th, and the 6th never passes twice.
LEMMA LinksStep == Typed /\ Links /\ [Next]_vars => Links'
<1> SUFFICES ASSUME Typed, Links, [Next]_vars PROVE Links'
  OBVIOUS
<1>1. CASE RunSection
  <2> DEFINE zt(t) == CountIn("-lzt", t["Makefile"])
             lb(t) == CountIn("log-main-block", t["ldnmitm_main"])
  <2>1. /\ "Makefile" \in Files /\ "ldnmitm_main" \in Files
        /\ "-lzt" \in Rare("Makefile") /\ "log-main-block" \in Rare("ldnmitm_main")
    BY FilesAre DEF Rare, ANCHORS
  <2>2. /\ running \in Scripts /\ step \in Nat /\ running' = running /\ step' = step + 1
    BY <1>1, SectionStep DEF RunSection
  <2>3. /\ zt(tree) \in Nat /\ zt(tree') \in Nat /\ lb(tree) \in Nat /\ lb(tree') \in Nat
        /\ ~PutsIn(running, step) => zt(tree') <= zt(tree) /\ lb(tree') <= lb(tree)
        /\ \A f \in Files : f # Now.file => tree'[f] = tree[f]
    BY <1>1, <2>1, SectionStep
  <2>4. /\ "-lzt" \in Passages(tree["Makefile"]) <=> zt(tree) > 0
        /\ "-lzt" \in Passages(tree'["Makefile"]) <=> zt(tree') > 0
        /\ "log-main-block" \in Passages(tree["ldnmitm_main"]) <=> lb(tree) > 0
        /\ "log-main-block" \in Passages(tree'["ldnmitm_main"]) <=> lb(tree') > 0
    <3>1. /\ IsABag(tree["Makefile"]) /\ IsABag(tree["ldnmitm_main"])
          /\ IsABag(tree'["Makefile"]) /\ IsABag(tree'["ldnmitm_main"])
      BY <1>1, <2>1, SectionStep DEF Typed, TreeOK
    <3> QED
      BY <3>1, EditedCopies
  <2>5. /\ PutsIn(running, step) => lb(tree') = lb(tree)
        /\ PutsIn(running, step) /\ ~(running = "ldn" /\ step = 34) => zt(tree') = zt(tree)
    <3>1. PutsIn(running, step) => Now.file \in {"Makefile", "VirtualTap", "sys_arch", "stubs"}
      BY NowIs, FilesOfPuts DEF PutsIn
    <3>2. PutsIn(running, step) /\ ~(running = "ldn" /\ step = 34) => Now.file # "Makefile"
      BY NowIs, FilesOfPuts DEF PutsIn
    <3> QED
      BY <2>1, <2>3, <3>1, <3>2
  <2>6. lb(tree') <= lb(tree)
    BY <2>3, <2>5
  <2>7. ~(running = "ldn" /\ step = 34) => zt(tree') <= zt(tree)
    BY <2>3, <2>5
  <2>8. /\ zt(tree) <= 1 /\ lb(tree) <= 1
        /\ zt(tree) > 0 => lb(tree) = 0
        /\ running = "ldn" /\ step > 6 => lb(tree) = 0
        /\ running = "ldn" /\ step > 6 /\ ~(step > 34) => zt(tree) = 0
    BY <2>3, <2>4 DEF Links, LinkedOnce, Past
  <2>9. running = "ldn" /\ step = 6 => lb(tree) > 0 /\ lb(tree') = 0
    BY <1>1, <2>3, <2>4, <2>8, LdnFirstEdit
  <2>10. running = "ldn" /\ step = 34 => zt(tree') <= 1
    BY <1>1, <2>3, <2>4, <2>8, LdnLink
  <2> HIDE DEF zt, lb
  <2>11. zt(tree') <= 1 /\ lb(tree') <= 1
    BY <2>3, <2>6, <2>7, <2>8, <2>10
  <2>12. zt(tree') > 0 => lb(tree') = 0
    BY <2>2, <2>3, <2>6, <2>7, <2>8
  <2>13. running = "ldn" /\ step + 1 > 6 => lb(tree') = 0
    BY <2>2, <2>3, <2>6, <2>8, <2>9
  <2>14. running = "ldn" /\ step + 1 > 6 /\ ~(step + 1 > 34) => zt(tree') = 0
    BY <2>2, <2>3, <2>7, <2>8, <2>9
  <2>15. /\ CountIn("-lzt", tree'["Makefile"]) <= 1
         /\ CountIn("log-main-block", tree'["ldnmitm_main"]) <= 1
    BY <2>11 DEF zt, lb
  <2> QED
    BY <2>2, <2>4, <2>12, <2>13, <2>14, <2>15 DEF Links, LinkedOnce, Past
<1>2. ASSUME NEW s \in work, Start(s) PROVE Links'
  BY <1>2 DEF Links, LinkedOnce, Past, Start
<1>3. ASSUME NEW how, End(how), UNCHANGED tree PROVE Links'
  BY <1>3 DEF Links, LinkedOnce, Past, End, Idle
<1>4. CASE UNCHANGED vars
  BY <1>4 DEF Links, LinkedOnce, Past, vars
<1>5. CASE CutWrite
  <2> DEFINE zt(t) == CountIn("-lzt", t["Makefile"])
             lb(t) == CountIn("log-main-block", t["ldnmitm_main"])
  <2>1. /\ "Makefile" \in Files /\ "ldnmitm_main" \in Files
        /\ "-lzt" \in Rare("Makefile") /\ "log-main-block" \in Rare("ldnmitm_main")
    BY FilesAre DEF Rare, ANCHORS
  <2>2. running' = Idle
    BY <1>5, CutStep DEF End
  <2>3. /\ zt(tree) \in Nat /\ zt(tree') \in Nat /\ lb(tree) \in Nat /\ lb(tree') \in Nat
        /\ ~PutsIn(running, step) => zt(tree') <= zt(tree) /\ lb(tree') <= lb(tree)
        /\ \A f \in Files : f # Now.file => tree'[f] = tree[f]
    BY <1>5, <2>1, CutStep
  <2>4. /\ "-lzt" \in Passages(tree["Makefile"]) <=> zt(tree) > 0
        /\ "-lzt" \in Passages(tree'["Makefile"]) <=> zt(tree') > 0
        /\ "log-main-block" \in Passages(tree["ldnmitm_main"]) <=> lb(tree) > 0
        /\ "log-main-block" \in Passages(tree'["ldnmitm_main"]) <=> lb(tree') > 0
    <3>1. /\ IsABag(tree["Makefile"]) /\ IsABag(tree["ldnmitm_main"])
          /\ IsABag(tree'["Makefile"]) /\ IsABag(tree'["ldnmitm_main"])
      BY <1>5, <2>1, CutStep DEF Typed, TreeOK
    <3> QED
      BY <3>1, EditedCopies
  <2>5. /\ PutsIn(running, step) => lb(tree') = lb(tree)
        /\ PutsIn(running, step) /\ ~(running = "ldn" /\ step = 34) => zt(tree') = zt(tree)
    <3>1. PutsIn(running, step) => Now.file \in {"Makefile", "VirtualTap", "sys_arch", "stubs"}
      BY NowIs, FilesOfPuts DEF PutsIn
    <3>2. PutsIn(running, step) /\ ~(running = "ldn" /\ step = 34) => Now.file # "Makefile"
      BY NowIs, FilesOfPuts DEF PutsIn
    <3> QED
      BY <2>1, <2>3, <3>1, <3>2
  <2>6. /\ zt(tree) <= 1 /\ lb(tree) <= 1
        /\ zt(tree) > 0 => lb(tree) = 0
        /\ running = "ldn" /\ step = 34 => lb(tree) = 0 /\ zt(tree) = 0
    BY <2>3, <2>4 DEF Links, LinkedOnce, Past
  <2>7. running = "ldn" /\ step = 34 => zt(tree') <= 1
    BY <1>5, <2>3, <2>4, <2>6, LdnLink
  <2> HIDE DEF zt, lb
  <2>8. /\ zt(tree') <= 1 /\ lb(tree') <= 1 /\ (zt(tree') > 0 => lb(tree') = 0)
    BY <2>3, <2>5, <2>6, <2>7
  <2>9. /\ CountIn("-lzt", tree'["Makefile"]) <= 1
        /\ CountIn("log-main-block", tree'["ldnmitm_main"]) <= 1
    BY <2>8 DEF zt, lb
  <2> QED
    BY <2>2, <2>4, <2>8, <2>9 DEF Links, LinkedOnce, Past, Idle
<1> QED
  BY <1>1, <1>2, <1>3, <1>4, <1>5 DEF Next, SystemExit, Finish, Kill

\* The libraries are never appended to the LDN Makefile a second time, whatever scripts
\* share the checkout, in whatever order they run and wherever they are killed.
THEOREM LinkedAtMostOnce == Spec => []LinkedOnce
<1>1. Init => Links
  BY LinksInitially
<1>2. Typed /\ Typed' /\ Links /\ [Next]_vars => Links'
  BY LinksStep
<1>3. Links => LinkedOnce
  BY DEF Links
<1> QED
  BY <1>1, <1>2, <1>3, TypedInvariant, PTL DEF Spec

-----------------------------------------------------------------------------
(* The includes.                                                           *)

\* A section that first sees to an include writes a text that has it.
LEMMA IncludedFirst ==
  ASSUME NEW text, IsABag(text), NEW k, Len(k.edits) \in Nat, 1 <= Len(k.edits),
         NEW q, NEW at, k.edits[1] = Unless(q, Insert(at, q)),
         ~Aborts(text, k), ~LeftAlone(text, k),
         \A i \in 1 .. Len(k.edits) : q \notin k.edits[i].takes
  PROVE  q \in Passages(Rewritten(text, k))
<1> DEFINE e == k.edits[1]
           n == Len(k.edits)
           D == Drafts(text, k)
<1>1. e.when = {} /\ e.unless = {q} /\ e.excuse = {} /\ e.needs = {at} /\ e.puts = {q}
  BY DEF Unless, Insert, Edit
<1>2. D[0] = text /\ D[1] = Edited(D[0], k.edits[1])
  BY DraftSteps
<1>3. \A i \in 0 .. n : IsABag(D[i])
  BY DraftBags
<1>4. \A i \in 1 .. n : CountIn(q, D[i]) >= CountIn(q, D[1])
  <2>1. 1 \in 0 .. n
    OBVIOUS
  <2> QED
    BY <2>1, DraftsKeep
<1>5. ~ \E i \in 1 .. n : Exits(D[i - 1], k.edits[i])
  BY DEF Aborts
<1>6. Rewritten(text, k) = D[n]
  BY DEF Rewritten
<1> HIDE DEF D, e
<1>7. ~Exits(text, e)
  <2>1. ~Exits(D[1 - 1], k.edits[1])
    BY <1>5
  <2> QED
    BY <1>2, <2>1 DEF e
<1>8. q \in Passages(Edited(text, e))
  <2>1. CASE q \in Passages(text)
    <3>1. Skipped(text, e)
      BY <1>1, <2>1 DEF Skipped
    <3> QED
      BY <2>1, <3>1, EditedCopies
  <2>2. CASE q \notin Passages(text)
    <3>1. ~Skipped(text, e)
      BY <1>1, <2>2 DEF Skipped
    <3> QED
      BY <1>1, <3>1, EditedCopies
  <2> QED
    BY <2>1, <2>2
<1>9. CountIn(q, D[1]) > 0
  <2>1. IsABag(D[1]) /\ q \in Passages(D[1])
    BY <1>2, <1>3, <1>8 DEF e
  <2> QED
    BY <2>1, EditedCopies
<1>10. CountIn(q, D[n]) > 0 /\ IsABag(D[n])
  <2>1. n \in 1 .. n /\ n \in 0 .. n /\ 1 \in 0 .. n
    OBVIOUS
  <2>2. CountIn(q, D[n]) \in Nat /\ CountIn(q, D[1]) \in Nat
    BY <1>3, <2>1, EditedCopies
  <2> QED
    BY <1>3, <1>4, <1>9, <2>1, <2>2
<1> QED
  BY <1>6, <1>10, EditedCopies

\* The two sections of bootstrap that add traces: where they find their file,
\* or have been before, the include is there afterwards.
LEMMA DriverIncluded ==
  ASSUME NEW text, IsABag(text), NEW k \in {BootstrapDriver, BootstrapSysArch},
         ~Aborts(text, k),
         k.marker \cap Passages(text) # {} => "switch.h" \in Passages(text)
  PROVE  /\ k.marker \cap Passages(Rewritten(text, k)) # {} =>
              "switch.h" \in Passages(Rewritten(text, k))
         /\ k.find \subseteq Passages(text) => "switch.h" \in Passages(Rewritten(text, k))
<1>1. /\ \A i \in 1 .. Len(k.edits) : "switch.h" \notin k.edits[i].takes
      /\ Len(k.edits) \in Nat
  BY BootstrapSections, FilesOfPuts, KeptIn DEF TakesNone, Formed
<1>2. /\ 1 <= Len(BootstrapDriver.edits)
      /\ BootstrapDriver.edits[1] = Unless("switch.h", Insert("VirtualTap.hpp", "switch.h"))
      /\ 1 <= Len(BootstrapSysArch.edits)
      /\ BootstrapSysArch.edits[1] = Unless("switch.h", Insert("errno.h", "switch.h"))
  BY DEF BootstrapDriver, BootstrapSysArch, MayLack, Finding, Marked, Section
<1>3. PICK at : 1 <= Len(k.edits) /\ k.edits[1] = Unless("switch.h", Insert(at, "switch.h"))
  BY <1>2
<1>4. CASE LeftAlone(text, k)
  <2>1. Rewritten(text, k) = text
    BY <1>4 DEF Rewritten
  <2> QED
    BY <1>4, <2>1 DEF LeftAlone, Found
<1>5. CASE ~LeftAlone(text, k)
  BY <1>1, <1>3, <1>5, IncludedFirst
<1> QED
  BY <1>4, <1>5

\* patch-ldn-zt.py works on files of its own.
LEMMA LdnElsewhere ==
  \A i \in 6 .. 36 : PatchLdn[i].file \notin {"VirtualTap", "sys_arch"}
<1>1. /\ \A i \in 1 .. 3 : LdnMain[i].file = "ldnmitm_main"
      /\ \A i \in 1 .. 10 : LdnProtocol[i].file = "lan_protocol"
      /\ \A i \in 1 .. 12 : LdnDiscovery[i].file = "lan_discovery"
      /\ \A i \in 1 .. 3 : LdnService[i].file = "ldn_icommunication"
  BY LdnWritten DEF WrittenTo
<1>2. \A i \in 1 .. 3 : LdnMakefile[i].file \in {"Makefile", "stubs"}
  BY DEF LdnMakefile, Section
<1> SUFFICES ASSUME NEW i \in 6 .. 36
             PROVE  PatchLdn[i].file \notin {"VirtualTap", "sys_arch"}
  OBVIOUS
<1>3. CASE i \in 6 .. 8
  BY <1>1, <1>3, LdnParts
<1>4. CASE i \in 9 .. 18
  BY <1>1, <1>4, LdnParts
<1>5. CASE i \in 19 .. 30
  BY <1>1, <1>5, LdnParts
<1>6. CASE i \in 31 .. 33
  BY <1>1, <1>6, LdnParts
<1>7. CASE i \in 34 .. 36
  BY <1>2, <1>7, LdnParts
<1> QED
  BY <1>3, <1>4, <1>5, <1>6, <1>7

\* No checkout has a trace, so none lacks its include; and one that has not lost what
\* bootstrap searches for has it.
LEMMA IncludesInitially == Init => Includes
<1> SUFFICES ASSUME Init PROVE Includes
  OBVIOUS
<1>1. /\ lost \in {Nothing, Older} \cup Losses(work) /\ tree = Checkout(lost)
      /\ "VirtualTap" \in Files \ {"main", "posix"} /\ "sys_arch" \in Files \ {"main", "posix"}
  BY FilesAre DEF Init
<1>2. /\ "driver_init-entered" \notin Sources["VirtualTap"]
      /\ "driver_init" \in Sources["VirtualTap"] /\ "sys_thread_new(" \in Sources["VirtualTap"]
      /\ "entering" \notin Sources["sys_arch"]
      /\ "sys_thread_new(" \in Sources["sys_arch"] /\ "pthread_create" \in Sources["sys_arch"]
  BY DEF Sources, Both, Upstream, LdnUpstream
<1>3. /\ "driver_init-entered" \notin Passages(tree["VirtualTap"])
      /\ "entering" \notin Passages(tree["sys_arch"])
  BY <1>1, <1>2, CheckoutText
<1>4. /\ <<"VirtualTap", "driver_init">> \in Unnoticed
      /\ <<"VirtualTap", "sys_thread_new(">> \in Unnoticed
      /\ <<"sys_arch", "pthread_create">> \in Unnoticed
      /\ <<"sys_arch", "sys_thread_new(">> \in Unnoticed
  BY DEF Unnoticed, Pairs
<1>5. /\ \A q : "driver_init" \in LostWith("VirtualTap", q) => q = "driver_init"
      /\ \A q : "sys_thread_new(" \in LostWith("VirtualTap", q) => q = "sys_thread_new("
      /\ \A q : "sys_thread_new(" \in LostWith("sys_arch", q) => q = "sys_thread_new("
      /\ \A q : "pthread_create" \in LostWith("sys_arch", q) => q = "pthread_create"
  BY DEF LostWith, Within
<1>6. ASSUME lost \notin Unnoticed
      PROVE  /\ {"driver_init", "sys_thread_new("} \subseteq Passages(tree["VirtualTap"])
             /\ {"sys_thread_new(", "pthread_create"} \subseteq Passages(tree["sys_arch"])
  <2>1. ASSUME NEW f \in {"VirtualTap", "sys_arch"}, NEW p \in Sources[f],
               \A q : p \in LostWith(f, q) => q = p, <<f, p>> \in Unnoticed
        PROVE  p \in Passages(tree[f])
    <3> SUFFICES ASSUME p \notin Passages(tree[f]) PROVE FALSE
      OBVIOUS
    <3>1. f \in Files \ {"main", "posix"} /\ p \in Sources[f]
      BY <1>1
    <3>2. tree[f] = Checkout(lost)[f]
      BY <1>1
    <3>3. p \notin Passages(Checkout(lost)[f])
      BY <3>2
    <3>4. \E q : lost = <<f, q>> /\ p \in LostWith(f, q)
      <4>1. /\ \A g \in Files \ {"main", "posix"} : \A r \in Sources[g] :
                 r \notin Passages(Checkout(lost)[g]) =>
                   \E q : lost = <<g, q>> /\ r \in LostWith(g, q)
        BY <1>1, CheckoutText
      <4> QED
        BY <4>1, <3>1, <3>3
    <3>5. lost = <<f, p>>
      BY <2>1, <3>4
    <3> QED
      BY <1>6, <2>1, <3>5
  <2>2. "driver_init" \in Passages(tree["VirtualTap"])
    BY <1>2, <1>4, <1>5, <2>1
  <2>3. "sys_thread_new(" \in Passages(tree["VirtualTap"])
    BY <1>2, <1>4, <1>5, <2>1
  <2>4. "sys_thread_new(" \in Passages(tree["sys_arch"])
    BY <1>2, <1>4, <1>5, <2>1
  <2>5. "pthread_create" \in Passages(tree["sys_arch"])
    BY <1>2, <1>4, <1>5, <2>1
  <2> QED
    BY <2>2, <2>3, <2>4, <2>5
<1>7. running # "bootstrap" /\ outcome["bootstrap"] # "done"
  BY DEF Init, Idle, Scripts, Script
<1> QED
  BY <1>3, <1>6, <1>7 DEF Includes, Included, Past

\* Every step keeps Includes: bootstrap adds the include with its trace, or finds the
\* file and adds it all the same.
LEMMA IncludesStep == Typed /\ Includes /\ [Next]_vars => Includes'
<1> SUFFICES ASSUME Typed, Includes, [Next]_vars PROVE Includes'
  OBVIOUS
<1>1. CASE RunSection
  <2> DEFINE has(t, f, p) == p \in Passages(t[f])
  <2>1. /\ "VirtualTap" \in Files /\ "sys_arch" \in Files
        /\ Kept("VirtualTap") = {"driver_init", "sys_thread_new(", "switch.h"}
        /\ Kept("sys_arch") = {"sys_thread_new(", "pthread_create", "switch.h"}
        /\ Rare("VirtualTap") = {"driver_init-entered"}
        /\ Rare("sys_arch") = {"entering"}
    BY FilesAre, KeptIn
  <2>2. /\ running \in Scripts /\ step \in Nat /\ step <= Len(Script[running])
        /\ running' = running /\ step' = step + 1
        /\ lost' = lost /\ outcome' = outcome /\ cut' = cut
    BY <1>1, SectionStep DEF RunSection
  <2>3. ASSUME NEW f \in {"VirtualTap", "sys_arch"}, NEW p
        PROVE  /\ IsABag(tree[f]) /\ IsABag(tree'[f])
               /\ has(tree, f, p) <=> CountIn(p, tree[f]) > 0
               /\ has(tree', f, p) <=> CountIn(p, tree'[f]) > 0
               /\ CountIn(p, tree[f]) \in Nat /\ CountIn(p, tree'[f]) \in Nat
    <3>1. IsABag(tree[f]) /\ IsABag(tree'[f])
      BY <1>1, <2>1, SectionStep DEF Typed, TreeOK
    <3> QED
      BY <3>1, EditedCopies
  <2>4. ASSUME NEW f \in {"VirtualTap", "sys_arch"}, NEW p \in Kept(f), has(tree, f, p)
        PROVE  has(tree', f, p)
    <3>1. CASE ~TakesOut(running, step)
      <4>1. CountIn(p, tree'[f]) >= CountIn(p, tree[f])
        BY <1>1, <2>1, <3>1, SectionStep
      <4> QED
        BY <2>3, <2>4, <4>1
    <3>2. CASE TakesOut(running, step)
      <4>1. running = "ldn" /\ step \in 6 .. 36 /\ Now = PatchLdn[step]
        <5>1. Script["ldn"] = PatchLdn /\ Len(PatchLdn) = 36
          BY LdnParts DEF Script
        <5> QED
          BY <2>2, <3>2, <5>1 DEF TakesOut, Now
      <4>2. Now.file # f
        BY <4>1, LdnElsewhere
      <4> QED
        BY <1>1, <2>1, <2>4, <4>2, SectionStep
    <3> QED
      BY <3>1, <3>2
  <2>5. ASSUME NEW f \in {"VirtualTap", "sys_arch"}, NEW p \in Rare(f), has(tree', f, p),
               ~has(tree, f, p)
        PROVE  PutsIn(running, step) /\ Now.file = f
    <3>1. CASE ~PutsIn(running, step)
      <4>1. CountIn(p, tree'[f]) <= CountIn(p, tree[f])
        BY <1>1, <2>1, <3>1, SectionStep
      <4> QED
        BY <2>3, <2>5, <4>1
    <3>2. CASE PutsIn(running, step) /\ Now.file # f
      BY <1>1, <2>1, <2>5, <3>2, SectionStep
    <3> QED
      BY <3>1, <3>2
  <2>6. ASSUME PutsIn(running, step)
        PROVE  /\ Now.file = "VirtualTap" => running = "bootstrap" /\ step = 12
               /\ Now.file = "sys_arch" => running = "bootstrap" /\ step = 13
    BY <2>6, NowIs, FilesOfPuts DEF PutsIn
  <2>7. ASSUME running = "bootstrap", step = 12, "VirtualTap" \notin cut
        PROVE  /\ has(tree', "VirtualTap", "driver_init-entered") =>
                      has(tree', "VirtualTap", "switch.h")
               /\ has(tree, "VirtualTap", "driver_init")
                  /\ has(tree, "VirtualTap", "sys_thread_new(") =>
                    has(tree', "VirtualTap", "switch.h")
    <3>1. Now = BootstrapDriver /\ Now.file = "VirtualTap"
      BY <2>7, NowIs, FilesOfPuts
    <3>2. Now.marker = {"driver_init-entered"} /\ Now.find = {"driver_init", "sys_thread_new("}
      BY <3>1 DEF BootstrapDriver, MayLack, Finding, Marked, Section
    <3>3. ~Aborts(tree["VirtualTap"], Now)
      BY <1>1, <3>1 DEF RunSection
    <3>4. tree'["VirtualTap"] = Rewritten(tree["VirtualTap"], Now)
      BY <1>1, <3>1, SectionStep
    <3>5. Now.marker \cap Passages(tree["VirtualTap"]) # {} =>
              "switch.h" \in Passages(tree["VirtualTap"])
      BY <2>7, <3>2 DEF Includes, Included
    <3>6. IsABag(tree["VirtualTap"])
      BY <2>3
    <3>7. /\ Now.marker \cap Passages(tree'["VirtualTap"]) # {} =>
                 has(tree', "VirtualTap", "switch.h")
          /\ Now.find \subseteq Passages(tree["VirtualTap"]) =>
                 has(tree', "VirtualTap", "switch.h")
      BY <3>1, <3>3, <3>4, <3>5, <3>6, DriverIncluded
    <3> QED
      BY <3>2, <3>7
  <2>8. ASSUME running = "bootstrap", step = 13, "sys_arch" \notin cut
        PROVE  /\ has(tree', "sys_arch", "entering") => has(tree', "sys_arch", "switch.h")
               /\ has(tree, "sys_arch", "sys_thread_new(")
                  /\ has(tree, "sys_arch", "pthread_create") =>
                    has(tree', "sys_arch", "switch.h")
    <3>1. Now = BootstrapSysArch /\ Now.file = "sys_arch"
      BY <2>8, NowIs, FilesOfPuts
    <3>2. Now.marker = {"entering"} /\ Now.find = {"sys_thread_new(", "pthread_create"}
      BY <3>1 DEF BootstrapSysArch, MayLack, Finding, Marked, Section
    <3>3. ~Aborts(tree["sys_arch"], Now)
      BY <1>1, <3>1 DEF RunSection
    <3>4. tree'["sys_arch"] = Rewritten(tree["sys_arch"], Now)
      BY <1>1, <3>1, SectionStep
    <3>5. Now.marker \cap Passages(tree["sys_arch"]) # {} =>
              "switch.h" \in Passages(tree["sys_arch"])
      BY <2>8, <3>2 DEF Includes, Included
    <3>6. IsABag(tree["sys_arch"])
      BY <2>3
    <3>7. /\ Now.marker \cap Passages(tree'["sys_arch"]) # {} =>
                 has(tree', "sys_arch", "switch.h")
          /\ Now.find \subseteq Passages(tree["sys_arch"]) => has(tree', "sys_arch", "switch.h")
      BY <3>1, <3>3, <3>4, <3>5, <3>6, DriverIncluded
    <3> QED
      BY <3>2, <3>7
  <2>9. /\ "VirtualTap" \notin cut =>
             /\ has(tree, "VirtualTap", "driver_init-entered") =>
                  has(tree, "VirtualTap", "switch.h")
             /\ lost \notin Unnoticed =>
                  /\ has(tree, "VirtualTap", "driver_init")
                  /\ has(tree, "VirtualTap", "sys_thread_new(")
                  /\ running = "bootstrap" /\ step > 12 => has(tree, "VirtualTap", "switch.h")
                  /\ outcome["bootstrap"] = "done" => has(tree, "VirtualTap", "switch.h")
        /\ "sys_arch" \notin cut =>
             /\ has(tree, "sys_arch", "entering") => has(tree, "sys_arch", "switch.h")
             /\ lost \notin Unnoticed =>
                  /\ has(tree, "sys_arch", "sys_thread_new(")
                  /\ has(tree, "sys_arch", "pthread_create")
                  /\ running = "bootstrap" /\ step > 13 => has(tree, "sys_arch", "switch.h")
                  /\ outcome["bootstrap"] = "done" => has(tree, "sys_arch", "switch.h")
    BY DEF Includes, Included, Past
  <2>10. /\ \A p \in {"driver_init", "sys_thread_new(", "switch.h"} :
              has(tree, "VirtualTap", p) => has(tree', "VirtualTap", p)
         /\ \A p \in {"sys_thread_new(", "pthread_create", "switch.h"} :
              has(tree, "sys_arch", p) => has(tree', "sys_arch", p)
    BY <2>1, <2>4
  <2>11. /\ has(tree', "VirtualTap", "driver_init-entered")
            /\ ~has(tree, "VirtualTap", "driver_init-entered")
              => running = "bootstrap" /\ step = 12
         /\ has(tree', "sys_arch", "entering") /\ ~has(tree, "sys_arch", "entering")
              => running = "bootstrap" /\ step = 13
    BY <2>1, <2>5, <2>6
  <2> HIDE DEF has
  <2>12. /\ step + 1 > 12 => step > 12 \/ step = 12
         /\ step + 1 > 13 => step > 13 \/ step = 13
    BY <2>2
  <2>13. ASSUME "VirtualTap" \notin cut
         PROVE  /\ has(tree', "VirtualTap", "driver_init-entered") =>
                      has(tree', "VirtualTap", "switch.h")
                /\ lost \notin Unnoticed =>
                     /\ has(tree', "VirtualTap", "driver_init")
                     /\ has(tree', "VirtualTap", "sys_thread_new(")
                     /\ running = "bootstrap" /\ step + 1 > 12 =>
                          has(tree', "VirtualTap", "switch.h")
                     /\ outcome["bootstrap"] = "done" => has(tree', "VirtualTap", "switch.h")
    BY <2>7, <2>9, <2>10, <2>11, <2>12, <2>13
  <2>14. ASSUME "sys_arch" \notin cut
         PROVE  /\ has(tree', "sys_arch", "entering") => has(tree', "sys_arch", "switch.h")
                /\ lost \notin Unnoticed =>
                     /\ has(tree', "sys_arch", "sys_thread_new(")
                     /\ has(tree', "sys_arch", "pthread_create")
                     /\ running = "bootstrap" /\ step + 1 > 13 =>
                          has(tree', "sys_arch", "switch.h")
                     /\ outcome["bootstrap"] = "done" => has(tree', "sys_arch", "switch.h")
    BY <2>8, <2>9, <2>10, <2>11, <2>12, <2>14
  <2> QED
    BY <2>2, <2>13, <2>14 DEF Includes, Included, Past, has
<1>2. ASSUME NEW s \in work, Start(s) PROVE Includes'
  BY <1>2 DEF Includes, Included, Past, Start
<1>3. ASSUME End("cut-short"), running # Idle,
             \A f \in {"VirtualTap", "sys_arch"} \ cut' : f \notin cut /\ tree'[f] = tree[f]
      PROVE  Includes'
  BY <1>3 DEF Includes, Included, Past, End, Idle, Typed, TypeOK
<1>4. CASE Finish
  <2>1. /\ running \in Scripts /\ step > Len(Script[running]) /\ step \in Nat
        /\ outcome \in [Scripts -> {"never-run", "done", "cut-short"}]
    BY <1>4, WorkspaceAssumption DEF Finish, Typed, TypeOK
  <2>2. running = "bootstrap" => step > 13
    <3>1. Script["bootstrap"] = PatchBootstrap
      BY DEF Script
    <3> QED
      BY <2>1, <3>1, BootstrapScript
  <2>3. running = "bootstrap" => Past("bootstrap", 12) /\ Past("bootstrap", 13)
    BY <2>1, <2>2 DEF Past
  <2>4. /\ running' = Idle /\ lost' = lost /\ tree' = tree /\ cut' = cut
        /\ running # "bootstrap" => outcome'["bootstrap"] = outcome["bootstrap"]
    BY <1>4, <2>1 DEF Finish, End
  <2>5. ~Past("bootstrap", 12)' /\ ~Past("bootstrap", 13)'
    BY <2>4 DEF Past, Idle
  <2> QED
    BY <2>3, <2>4, <2>5 DEF Includes, Included
<1>5. CASE UNCHANGED vars
  BY <1>5 DEF Includes, Included, Past, vars
<1>6. CASE CutWrite
  <2>1. /\ "VirtualTap" \in Files /\ "sys_arch" \in Files
    BY FilesAre
  <2>2. /\ End("cut-short") /\ running # Idle /\ cut' = cut \cup {Now.file}
        /\ \A f \in Files : f # Now.file => tree'[f] = tree[f]
    BY <1>6, CutStep
  <2> QED
    BY <1>3, <2>1, <2>2
<1>7. CASE SystemExit \/ Kill
  <2>1. End("cut-short") /\ running # Idle /\ UNCHANGED <<tree, cut>>
    BY <1>7 DEF SystemExit, Kill, Editing
  <2> QED
    BY <1>3, <2>1
<1> QED
  BY <1>1, <1>2, <1>4, <1>5, <1>6, <1>7 DEF Next

\* Once bootstrap and lwip have both succeeded, in whichever order and however often,
\* each file with a trace in it includes <switch.h>, unless the passage that was lost
\* is one that no script insists on.
THEOREM TraceIncludes == Spec => []TracesCompile
<1>1. Init => Includes
  BY IncludesInitially
<1>2. Typed /\ Includes /\ [Next]_vars => Includes'
  BY IncludesStep
<1>3. Includes => TracesCompile
  BY DEF Includes, Included, TracesCompile
<1> QED
  BY <1>1, <1>2, <1>3, TypedInvariant, PTL DEF Spec

-----------------------------------------------------------------------------
(* The anchors.                                                            *)

\* The files of ldn_mitm as upstream has them.
LEMMA LdnFilesAre ==
  /\ LdnFiles \subseteq Files \ {"main", "posix", "stubs", "VirtualTap", "sys_arch"}
  /\ DOMAIN ANCHORS \subseteq LdnFiles
  /\ DOMAIN ANCHORS = {"lan_protocol", "lan_discovery", "ldn_icommunication", "ldnmitm_main"}
  /\ \A f \in LdnFiles : Kept(f) = LdnUpstream[f]
  /\ \A f \in DOMAIN ANCHORS : Rare(f) = ANCHORS[f] \cup {"log-main-block"}
<1>1. DOMAIN ANCHORS = {"lan_protocol", "lan_discovery", "ldn_icommunication", "ldnmitm_main"}
  BY DEF ANCHORS
<1>2. \A f \in LdnFiles :
       f \in Files /\ f \notin {"main", "posix", "stubs", "VirtualTap", "sys_arch"}
  BY FilesAre DEF LdnFiles
<1>3. \A f \in LdnFiles : Kept(f) = LdnUpstream[f]
  BY <1>2 DEF Kept
<1>4. ASSUME NEW f \in DOMAIN ANCHORS
      PROVE  f \in LdnFiles /\ f \notin {"Makefile", "VirtualTap", "sys_arch", "stubs"}
  BY <1>1 DEF LdnFiles
<1>5. \A f \in DOMAIN ANCHORS : Rare(f) = ANCHORS[f] \cup {"log-main-block"}
  BY <1>4, Zenon DEF Rare
<1> QED
  BY <1>1, <1>2, <1>3, <1>4, <1>5

\* The two checkouts have no file in common.
LEMMA LdnSourcesAre == \A f \in LdnFiles : Sources[f] = LdnUpstream[f]
<1>1. /\ LdnFiles \subseteq DOMAIN LdnUpstream
      /\ LdnFiles \cap DOMAIN Upstream = {}
  BY DEF LdnFiles, LdnUpstream, Upstream
<1> QED
  BY <1>1 DEF Sources, Both

\* What a checkout has of a file of ldn_mitm.
LEMMA LdnCheckout ==
  ASSUME LostOK, NEW f \in LdnFiles
  PROVE  /\ Passages(Checkout(lost)[f]) \subseteq Kept(f)
         /\ IsABag(Checkout(lost)[f])
         /\ \A p : CountIn(p, Checkout(lost)[f]) \in {0, 1}
<1>1. f \in Files \ {"main", "posix"}
  BY LdnFilesAre
<1>2. /\ Passages(Checkout(lost)[f]) \subseteq Sources[f]
      /\ \A p : CountIn(p, Checkout(lost)[f]) = IF p \in Passages(Checkout(lost)[f]) THEN 1 ELSE 0
  BY <1>1, CheckoutText DEF LostOK
<1>3. PICK S : Checkout(lost)[f] = SetToBag(S)
  <2>1. \A g \in Files : \E S : Checkout(lost)[g] = SetToBag(S)
    BY CheckoutIs DEF LostOK
  <2> QED
    BY <1>1, <2>1
<1> QED
  BY <1>2, <1>3, SetBag, LdnFilesAre, LdnSourcesAre

\* Anchors holds in every checkout,
LEMMA AnchorsInitially == Init => Anchors
<1> SUFFICES ASSUME Init PROVE Anchors
  OBVIOUS
<1>1. LostOK /\ tree = Checkout(lost) /\ running # "ldn"
  BY DEF Init, LostOK, Idle
<1>2. \A f \in DOMAIN ANCHORS : \A p : CountIn(p, tree[f]) <= CountIn(p, Checkout(lost)[f])
  <2>1. \A f \in DOMAIN ANCHORS : \A p : CountIn(p, Checkout(lost)[f]) \in {0, 1}
    BY <1>1, LdnFilesAre, LdnCheckout
  <2>2. ASSUME NEW f \in DOMAIN ANCHORS, NEW p
        PROVE  CountIn(p, Checkout(lost)[f]) <= CountIn(p, Checkout(lost)[f])
    BY <2>1
  <2> QED
    BY <1>1, <2>2
<1>3. CountIn("copy", tree["stubs"]) <= 1
  <2>1. "stubs" \in Files \ {"main", "posix"}
    BY FilesAre
  <2>2. CountIn("copy", Checkout(lost)["stubs"]) \in {0, 1}
    BY <1>1, <2>1, CheckoutText DEF LostOK
  <2> QED
    BY <1>1, <2>2
<1> QED
  BY <1>1, <1>2, <1>3 DEF Anchors, Past

\* Stubs that are installed again replace the old ones.
LEMMA CopiedOnce ==
  ASSUME NEW text, IsABag(text), CountIn("copy", text) <= 1, ~Aborts(text, Copy("stubs"))
  PROVE  CountIn("copy", Rewritten(text, Copy("stubs"))) <= 1
<1> DEFINE e == Edit({}, {"copy"}, {"copy"})
<1>1. Copy("stubs") = Section("stubs", <<e>>) /\ "copy" \in e.takes
  BY DEF Copy, Edit
<1> HIDE DEF e
<1>2. Rewritten(text, Copy("stubs")) = Edited(text, e)
  BY <1>1, OneEdit
<1>3. /\ CountIn("copy", text) \in Nat
      /\ CountIn("copy", Edited(text, e))
           <= IF CountIn("copy", text) = 0 THEN 1 ELSE CountIn("copy", text)
  BY <1>1, EditedCopies
<1>4. CountIn("copy", Edited(text, e)) <= 1
  BY <1>3
<1> QED
  BY <1>2, <1>4

\* and every step of a script, its start and its end keep it.
LEMMA AnchorsStep == Typed /\ Anchors /\ [Next]_vars => Anchors'
<1> SUFFICES ASSUME Typed, Anchors, [Next]_vars PROVE Anchors'
  OBVIOUS
<1>1. CASE RunSection
  <2>1. /\ running \in Scripts /\ step \in Nat /\ running' = running /\ step' = step + 1
        /\ lost' = lost /\ work' = work /\ cut' = cut
    BY <1>1, SectionStep DEF RunSection
  <2>2. LostOK
    BY DEF Typed
  <2>3. PutsIn(running, step) => Now.file \in {"Makefile", "VirtualTap", "sys_arch", "stubs"}
    BY NowIs, FilesOfPuts DEF PutsIn
  <2>4. ASSUME NEW f \in DOMAIN ANCHORS, NEW p \in Rare(f)
        PROVE  CountIn(p, tree'[f]) <= CountIn(p, tree[f])
    <3>1. f \in Files /\ f \notin {"Makefile", "VirtualTap", "sys_arch", "stubs"}
      BY LdnFilesAre
    <3>2. CountIn(p, tree[f]) \in Nat /\ CountIn(p, tree'[f]) \in Nat
      BY <1>1, <3>1, SectionStep
    <3>3. CASE PutsIn(running, step)
      <4>1. tree'[f] = tree[f]
        BY <1>1, <2>3, <3>1, <3>3, SectionStep
      <4> QED
        BY <3>2, <4>1
    <3>4. CASE ~PutsIn(running, step)
      BY <1>1, <3>1, <3>4, SectionStep
    <3> QED
      BY <3>3, <3>4
  <2>5. ASSUME NEW f \in DOMAIN ANCHORS, NEW p \in ANCHORS[f] \cup {"log-main-block"}
        PROVE  /\ CountIn(p, tree'[f]) <= CountIn(p, Checkout(lost)[f])
               /\ CountIn(p, tree[f]) <= CountIn(p, Checkout(lost)[f])
    <3>1. p \in Rare(f) /\ f \in LdnFiles /\ f \in Files
      BY LdnFilesAre
    <3>2. /\ CountIn(p, tree[f]) \in Nat /\ CountIn(p, tree'[f]) \in Nat
          /\ CountIn(p, Checkout(lost)[f]) \in Nat
      BY <1>1, <2>2, <3>1, SectionStep, LdnCheckout
    <3>3. CountIn(p, tree[f]) <= CountIn(p, Checkout(lost)[f])
      BY DEF Anchors
    <3>4. CountIn(p, tree'[f]) <= CountIn(p, tree[f])
      BY <2>4, <3>1
    <3> QED
      BY <3>2, <3>3, <3>4
  <2> DEFINE mn(t) == CountIn("main", t["ldnmitm_main"])
  <2>6. "main" \in ANCHORS["ldnmitm_main"] /\ "ldnmitm_main" \in DOMAIN ANCHORS
    BY DEF ANCHORS
  <2>7. /\ mn(tree) \in Nat /\ mn(tree') \in Nat /\ mn(tree') <= mn(tree) /\ mn(tree) <= 1
        /\ "main" \in Passages(tree["ldnmitm_main"]) <=> mn(tree) > 0
        /\ "main" \in Passages(tree'["ldnmitm_main"]) <=> mn(tree') > 0
    <3>1. "ldnmitm_main" \in LdnFiles /\ "ldnmitm_main" \in Files
      BY <2>6, LdnFilesAre
    <3>2. IsABag(tree["ldnmitm_main"]) /\ IsABag(tree'["ldnmitm_main"])
      BY <1>1, <3>1, SectionStep DEF Typed, TreeOK
    <3>3. /\ mn(tree) \in Nat /\ mn(tree') \in Nat
          /\ "main" \in Passages(tree["ldnmitm_main"]) <=> mn(tree) > 0
          /\ "main" \in Passages(tree'["ldnmitm_main"]) <=> mn(tree') > 0
      BY <3>2, EditedCopies
    <3>4. mn(tree') <= mn(tree)
      BY <2>4, <2>6, LdnFilesAre
    <3>5. mn(tree) <= CountIn("main", Checkout(lost)["ldnmitm_main"])
      BY <2>5, <2>6
    <3>6. CountIn("main", Checkout(lost)["ldnmitm_main"]) \in {0, 1}
      BY <2>2, <3>1, LdnCheckout
    <3>7. mn(tree) <= 1
      <4> HIDE DEF mn
      <4> QED
        BY <3>3, <3>5, <3>6
    <3> QED
      BY <3>3, <3>4, <3>7
  <2>8. running = "ldn" /\ step = 6 => mn(tree') = 0
    <3>1. running = "ldn" /\ step = 6 => "main" \notin Passages(tree'["ldnmitm_main"])
      BY <1>1, <2>7, LdnFirstEdit
    <3> QED
      BY <2>7, <3>1
  <2>9. running = "ldn" /\ step > 6 => mn(tree) = 0
    BY <2>7 DEF Anchors, Past
  <2> HIDE DEF mn
  <2>10. running = "ldn" /\ step + 1 > 6 => mn(tree') = 0
    <3>1. step + 1 > 6 => step > 6 \/ step = 6
      BY <2>1
    <3>2. mn(tree) = 0 => mn(tree') = 0
      BY <2>7
    <3> QED
      BY <2>8, <2>9, <3>1, <3>2
  <2>11. mn(tree') > 0 => ~TakesOut(running, step) /\ mn(tree) > 0
    <3>1. TakesOut(running, step) => running = "ldn" /\ step + 1 > 6
      BY <2>1 DEF TakesOut
    <3>2. TakesOut(running, step) => mn(tree') = 0
      BY <2>10, <3>1
    <3> QED
      BY <2>7, <3>2
  <2>12. ASSUME mn(tree') > 0, NEW f \in LdnFiles \ cut, NEW p \in Passages(Checkout(lost)[f])
         PROVE  p \in Passages(tree'[f])
    <3>1. p \in Passages(tree[f])
      BY <2>7, <2>11, <2>12 DEF Anchors
    <3>2. p \in Kept(f) /\ f \in Files
      BY <2>2, LdnCheckout, LdnFilesAre
    <3>3. CountIn(p, tree'[f]) >= CountIn(p, tree[f])
      BY <1>1, <2>11, <2>12, <3>2, SectionStep
    <3>4. IsABag(tree[f]) /\ IsABag(tree'[f])
      BY <1>1, <3>2, SectionStep DEF Typed, TreeOK
    <3>5. /\ CountIn(p, tree[f]) \in Nat /\ CountIn(p, tree'[f]) \in Nat
          /\ CountIn(p, tree[f]) > 0
          /\ p \in Passages(tree'[f]) <=> CountIn(p, tree'[f]) > 0
      BY <3>1, <3>4, EditedCopies
    <3>6. CountIn(p, tree'[f]) > 0
      BY <3>3, <3>5
    <3> QED
      BY <3>5, <3>6
  <2>13. CountIn("copy", tree'["stubs"]) <= 1
    <3>1. "stubs" \in Files /\ "copy" \in Rare("stubs")
      BY FilesAre, KeptIn
    <3>2. IsABag(tree["stubs"]) /\ CountIn("copy", tree["stubs"]) <= 1
      BY <3>1 DEF Typed, TreeOK, Anchors
    <3>3. CountIn("copy", tree["stubs"]) \in Nat /\ CountIn("copy", tree'["stubs"]) \in Nat
      BY <1>1, <3>1, SectionStep
    <3>4. CASE ~PutsIn(running, step)
      <4>1. CountIn("copy", tree'["stubs"]) <= CountIn("copy", tree["stubs"])
        BY <1>1, <3>1, <3>4, SectionStep
      <4> QED
        BY <3>2, <3>3, <4>1
    <3>5. CASE running = "stubs" /\ step = 7
      <4>1. Now = Copy("stubs") /\ Now.file = "stubs"
        BY <3>5, NowIs, FilesOfPuts
      <4>2. ~Aborts(tree["stubs"], Copy("stubs"))
        BY <1>1, <4>1 DEF RunSection
      <4>3. tree'["stubs"] = Rewritten(tree["stubs"], Copy("stubs"))
        BY <1>1, <4>1, SectionStep
      <4> QED
        BY <3>2, <4>2, <4>3, CopiedOnce
    <3>6. CASE PutsIn(running, step) /\ ~(running = "stubs" /\ step = 7)
      <4>1. Now.file # "stubs"
        BY <3>6, NowIs, FilesOfPuts DEF PutsIn
      <4>2. tree'["stubs"] = tree["stubs"]
        BY <1>1, <3>1, <4>1, SectionStep
      <4> QED
        BY <3>2, <4>2
    <3> QED
      BY <3>4, <3>5, <3>6
  <2>14. \A f \in DOMAIN ANCHORS : \A p \in ANCHORS[f] \cup {"log-main-block"} :
           CountIn(p, tree'[f]) <= CountIn(p, Checkout(lost')[f])
    BY <2>1, <2>5
  <2>15. "main" \in Passages(tree'["ldnmitm_main"]) =>
           \A f \in LdnFiles \ cut' : Passages(Checkout(lost')[f]) \subseteq Passages(tree'[f])
    BY <2>1, <2>7, <2>12
  <2>16. Past("ldn", 6)' => "main" \notin Passages(tree'["ldnmitm_main"])
    BY <2>1, <2>7, <2>10 DEF Past
  <2> QED
    BY <2>13, <2>14, <2>15, <2>16 DEF Anchors
<1>2. ASSUME NEW s \in work, Start(s) PROVE Anchors'
  BY <1>2 DEF Anchors, Past, Start
<1>3. ASSUME NEW how, End(how), UNCHANGED <<tree, cut>> PROVE Anchors'
  <2>1. UNCHANGED <<tree, cut, lost>> /\ running' # "ldn"
    BY <1>3 DEF End, Idle
  <2> QED
    BY <2>1 DEF Anchors, Past
<1>4. CASE UNCHANGED vars
  BY <1>4 DEF Anchors, Past, vars
<1>5. CASE CutWrite
  <2>1. /\ lost' = lost /\ running' = Idle /\ cut' = cut \cup {Now.file} /\ TreeOK'
        /\ \A f \in Files : f # Now.file => tree'[f] = tree[f]
        /\ \A f \in Files : \A p : CountIn(p, tree[f]) \in Nat /\ CountIn(p, tree'[f]) \in Nat
    BY <1>5, CutStep DEF End
  <2>2. PutsIn(running, step) => Now.file \in {"Makefile", "VirtualTap", "sys_arch", "stubs"}
    BY NowIs, FilesOfPuts DEF PutsIn
  <2>3. ASSUME NEW f \in DOMAIN ANCHORS, NEW p \in ANCHORS[f] \cup {"log-main-block"}
        PROVE  /\ CountIn(p, tree'[f]) <= CountIn(p, tree[f])
               /\ CountIn(p, tree'[f]) <= CountIn(p, Checkout(lost)[f])
    <3>1. /\ p \in Rare(f) /\ f \in LdnFiles /\ f \in Files
          /\ f \notin {"Makefile", "VirtualTap", "sys_arch", "stubs"}
      BY LdnFilesAre
    <3>2. /\ CountIn(p, tree[f]) \in Nat /\ CountIn(p, tree'[f]) \in Nat
          /\ CountIn(p, Checkout(lost)[f]) \in Nat
      BY <2>1, <3>1, LdnCheckout DEF Typed
    <3>3. CASE PutsIn(running, step)
      <4>1. tree'[f] = tree[f]
        BY <2>1, <2>2, <3>1, <3>3
      <4> QED
        BY <3>2, <4>1 DEF Anchors
    <3>4. CASE ~PutsIn(running, step)
      <4>1. CountIn(p, tree'[f]) <= CountIn(p, tree[f])
        BY <1>5, <3>1, <3>4, CutStep
      <4>2. CountIn(p, tree[f]) <= CountIn(p, Checkout(lost)[f])
        BY DEF Anchors
      <4> QED
        BY <3>2, <4>1, <4>2
    <3> QED
      BY <3>3, <3>4
  <2>4. "main" \in Passages(tree'["ldnmitm_main"]) => "main" \in Passages(tree["ldnmitm_main"])
    <3>1. /\ "main" \in ANCHORS["ldnmitm_main"] /\ "ldnmitm_main" \in DOMAIN ANCHORS
          /\ "ldnmitm_main" \in Files
      BY FilesAre DEF ANCHORS
    <3>2. IsABag(tree["ldnmitm_main"]) /\ IsABag(tree'["ldnmitm_main"])
      BY <2>1, <3>1 DEF Typed, TreeOK
    <3>3. /\ "main" \in Passages(tree["ldnmitm_main"])
                <=> CountIn("main", tree["ldnmitm_main"]) > 0
          /\ "main" \in Passages(tree'["ldnmitm_main"])
                <=> CountIn("main", tree'["ldnmitm_main"]) > 0
      BY <3>2, EditedCopies
    <3>4. /\ CountIn("main", tree'["ldnmitm_main"]) <= CountIn("main", tree["ldnmitm_main"])
          /\ CountIn("main", tree["ldnmitm_main"]) \in Nat
          /\ CountIn("main", tree'["ldnmitm_main"]) \in Nat
      BY <2>1, <2>3, <3>1
    <3> QED
      BY <3>3, <3>4
  <2>5. \A f \in LdnFiles \ cut' : f \notin cut /\ tree'[f] = tree[f]
    BY <2>1, LdnFilesAre
  <2>6. CountIn("copy", tree'["stubs"]) <= 1
    <3>1. /\ "stubs" \in Files /\ "copy" \in Rare("stubs")
      BY FilesAre, KeptIn
    <3>2. /\ IsABag(tree["stubs"]) /\ CountIn("copy", tree["stubs"]) <= 1
          /\ CountIn("copy", tree["stubs"]) \in Nat /\ CountIn("copy", tree'["stubs"]) \in Nat
      BY <2>1, <3>1 DEF Typed, TreeOK, Anchors
    <3>3. CASE ~PutsIn(running, step)
      <4>1. CountIn("copy", tree'["stubs"]) <= CountIn("copy", tree["stubs"])
        BY <1>5, <3>1, <3>3, CutStep
      <4> QED
        BY <3>2, <4>1
    <3>4. CASE running = "stubs" /\ step = 7
      <4>1. Now = Copy("stubs") /\ Now.file = "stubs"
        BY <3>4, NowIs, FilesOfPuts
      <4>2. ~Aborts(tree["stubs"], Copy("stubs"))
        BY <1>5, <4>1 DEF CutWrite
      <4>3. /\ CountIn("copy", Rewritten(tree["stubs"], Copy("stubs"))) <= 1
            /\ CountIn("copy", Rewritten(tree["stubs"], Copy("stubs"))) \in Nat
        <5>1. Len(Copy("stubs").edits) \in Nat
          BY <1>5, <4>1, CutStep DEF Formed
        <5> QED
          BY <3>2, <4>2, <5>1, CopiedOnce, RewrittenCopies
      <4>4. CountIn("copy", tree'["stubs"]) <= CountIn("copy", Rewritten(tree["stubs"], Copy("stubs")))
        BY <1>5, <4>1, CutStep
      <4> QED
        BY <3>2, <4>3, <4>4
    <3>5. CASE PutsIn(running, step) /\ ~(running = "stubs" /\ step = 7)
      <4>1. Now.file # "stubs"
        BY <3>5, NowIs, FilesOfPuts DEF PutsIn
      <4>2. tree'["stubs"] = tree["stubs"]
        BY <2>1, <3>1, <4>1
      <4> QED
        BY <3>2, <4>2
    <3> QED
      BY <3>3, <3>4, <3>5
  <2>7. "main" \in Passages(tree'["ldnmitm_main"]) =>
           \A f \in LdnFiles \ cut' : Passages(Checkout(lost')[f]) \subseteq Passages(tree'[f])
    BY <2>1, <2>4, <2>5 DEF Anchors
  <2>8. \A f \in DOMAIN ANCHORS : \A p \in ANCHORS[f] \cup {"log-main-block"} :
          CountIn(p, tree'[f]) <= CountIn(p, Checkout(lost')[f])
    BY <2>1, <2>3
  <2>9. ~Past("ldn", 6)'
    BY <2>1 DEF Past, Idle
  <2> QED
    BY <2>6, <2>7, <2>8, <2>9 DEF Anchors
<1> QED
  BY <1>1, <1>2, <1>3, <1>4, <1>5 DEF Next, SystemExit, Finish, Kill

\* It holds all the time.
LEMMA AnchorsInvariant == Spec => []Anchors
<1>1. Init => Anchors
  BY AnchorsInitially
<1>2. Typed /\ Anchors /\ [Next]_vars => Anchors'
  BY AnchorsStep
<1> QED
  BY <1>1, <1>2, TypedInvariant, PTL DEF Spec

-----------------------------------------------------------------------------
(* A whole run of a script.                                                *)

\* One section of RunOver.
Onward(t, k) ==
  IF ~t.ok \/ Aborts(t.files[k.file], k) THEN [t EXCEPT !.ok = FALSE]
  ELSE [t EXCEPT !.files[k.file] = Rewritten(@, k)]

\* The run before its first section.
Started(texts) == [ok |-> TRUE, files |-> texts]

\* a is what RunOver defines, as far as the n-th section.
IsRun(a, s, texts, n) ==
  a = [i \in 0 .. n |-> IF i = 0 THEN Started(texts)
                        ELSE Onward(a[i - 1], Script[s][i])]

\* There is such a function.
LEMMA RunsExist ==
  ASSUME NEW s, NEW texts, NEW n \in Nat
  PROVE  \E a : IsRun(a, s, texts, n)
<1> DEFINE S == {k \in 0 .. n : \E a : IsRun(a, s, texts, k)}
<1>1. 0 \in S
  <2>1. IsRun([i \in 0 .. 0 |-> Started(texts)], s, texts, 0)
    BY DEF IsRun
  <2> QED
    BY <2>1
<1>2. ASSUME NEW k \in 1 .. n, k - 1 \in S PROVE k \in S
  <2>1. PICK a : IsRun(a, s, texts, k - 1)
    BY <1>2
  <2> DEFINE b == [i \in 0 .. k |-> IF i = k THEN Onward(a[k - 1], Script[s][k]) ELSE a[i]]
  <2>2. /\ b = [i \in 0 .. k |-> b[i]]
        /\ \A i \in 0 .. k - 1 : b[i] = a[i]
        /\ b[k] = Onward(a[k - 1], Script[s][k])
    OBVIOUS
  <2> HIDE DEF b
  <2>3. \A i \in 0 .. k : b[i] = IF i = 0 THEN Started(texts)
                                 ELSE Onward(b[i - 1], Script[s][i])
    <3>1. \A i \in 0 .. k - 1 : a[i] = IF i = 0 THEN Started(texts)
                                       ELSE Onward(a[i - 1], Script[s][i])
      BY <2>1 DEF IsRun
    <3> SUFFICES ASSUME NEW i \in 0 .. k
                 PROVE  b[i] = IF i = 0 THEN Started(texts) ELSE Onward(b[i - 1], Script[s][i])
      OBVIOUS
    <3>2. CASE i = k
      <4>1. i # 0 /\ k - 1 \in 0 .. k - 1
        BY <3>2
      <4> QED
        BY <2>2, <3>2, <4>1
    <3>3. CASE i # k
      <4>1. i \in 0 .. k - 1 /\ (i # 0 => i - 1 \in 0 .. k - 1)
        BY <3>3
      <4> QED
        BY <2>2, <3>1, <4>1
    <3> QED
      BY <3>2, <3>3
  <2>4. IsRun(b, s, texts, k)
    BY <2>2, <2>3 DEF IsRun
  <2> QED
    BY <2>4
<1> HIDE DEF S
<1>3. \A i \in 0 .. n : i \in S
  BY <1>1, <1>2, UpTo
<1>4. n \in S
  BY <1>3
<1> USE DEF S
<1> QED
  BY <1>4

\* What RunOver returns is the last of its steps.
LEMMA RunSteps ==
  ASSUME NEW s, NEW texts, Len(Script[s]) \in Nat
  PROVE  \E a : /\ a[0] = Started(texts)
                /\ \A i \in 1 .. Len(Script[s]) : a[i] = Onward(a[i - 1], Script[s][i])
                /\ RunOver(s, texts) = a[Len(Script[s])]
<1> DEFINE n == Len(Script[s])
           A == CHOOSE a : IsRun(a, s, texts, n)
<1>1. RunOver(s, texts) = A[n]
  BY Zenon DEF RunOver, IsRun, Onward, Started
<1> HIDE DEF A, n
<1>2. n \in Nat
  BY DEF n
<1>3. IsRun(A, s, texts, n)
  BY <1>2, RunsExist, Zenon DEF A
<1>4. /\ A[0] = Started(texts)
      /\ \A i \in 1 .. n : A[i] = Onward(A[i - 1], Script[s][i])
  BY <1>2, <1>3 DEF IsRun
<1> QED
  BY <1>1, <1>4 DEF n

\* A record as RunOver builds it, with a text for each file.
RunState(t) ==
  /\ t = [i \in {"ok", "files"} |-> t[i]]
  /\ t.files = [f \in Files |-> t.files[f]]

\* Which is such a record.
LEMMA StartedRuns ==
  ASSUME NEW files, files = [f \in Files |-> files[f]]
  PROVE  RunState(Started(files)) /\ Started(files).ok /\ Started(files).files = files
<1>1. Started(files) = [i \in {"ok", "files"} |-> Started(files)[i]]
  BY DEF Started
<1>2. Started(files).ok /\ Started(files).files = files
  BY DEF Started
<1> QED
  BY <1>1, <1>2 DEF RunState

\* A section that goes through, and one that does not.
LEMMA OnwardFiles ==
  ASSUME NEW t, RunState(t), NEW k, k.file \in Files
  PROVE  /\ RunState(Onward(t, k))
         /\ Onward(t, k).ok => t.ok /\ ~Aborts(t.files[k.file], k)
         /\ t.ok /\ ~Aborts(t.files[k.file], k) =>
              /\ Onward(t, k).ok
              /\ Onward(t, k).files[k.file] = Rewritten(t.files[k.file], k)
              /\ \A f \in Files : f # k.file => Onward(t, k).files[f] = t.files[f]
<1> DEFINE F == k.file
           R == Rewritten(t.files[k.file], k)
           u == Onward(t, k)
<1>1. /\ t = [i \in {"ok", "files"} |-> t[i]]
      /\ t.files = [f \in Files |-> t.files[f]]
      /\ F \in Files
  BY DEF RunState
<1>2. CASE t.ok /\ ~Aborts(t.files[k.file], k)
  <2>1. u = [t EXCEPT !.files[F] = R]
    BY <1>2 DEF Onward
  <2> HIDE DEF F, R, u
  <2>2. /\ u = [i \in {"ok", "files"} |-> u[i]]
        /\ u.ok = t.ok /\ u.files = [t.files EXCEPT ![F] = R]
    BY <1>1, <2>1
  <2>3. /\ u.files = [f \in Files |-> u.files[f]]
        /\ u.files[F] = R
        /\ \A f \in Files : f # F => u.files[f] = t.files[f]
    BY <1>1, <2>2
  <2>4. RunState(u) /\ u.ok
    BY <1>2, <2>2, <2>3 DEF RunState
  <2> QED
    BY <1>2, <2>3, <2>4, Zenon DEF F, R, u
<1>3. CASE ~(t.ok /\ ~Aborts(t.files[k.file], k))
  <2>1. u = [t EXCEPT !.ok = FALSE]
    BY <1>3 DEF Onward
  <2> HIDE DEF F, R, u
  <2>2. /\ u = [i \in {"ok", "files"} |-> u[i]]
        /\ u.ok = FALSE /\ u.files = t.files
    BY <1>1, <2>1
  <2>3. RunState(u) /\ ~u.ok
    BY <1>1, <2>2 DEF RunState
  <2> QED
    BY <1>3, <2>3, Zenon DEF u
<1> QED
  BY <1>2, <1>3

-----------------------------------------------------------------------------
(* The anchor check and what it says of the checkout.                      *)

\* The check of file f leads from t to u.
Passed(f, t, u) ==
  u.ok => /\ t.ok
          /\ ANCHORS[f] \subseteq Passages(t.files[f])
          /\ \A g \in Files : g # f => u.files[g] = t.files[g]

\* So it does.
LEMMA CheckStep ==
  ASSUME NEW f \in DOMAIN ANCHORS, NEW t, RunState(t), NEW u, u = Onward(t, AllOf(f))
  PROVE  RunState(u) /\ Passed(f, t, u)
<1> DEFINE e == Edit(ANCHORS[f], {}, {})
           k == AllOf(f)
<1>1. /\ k = Section(f, <<e>>) /\ k.file = f /\ f \in Files
      /\ e.when = {} /\ e.unless = {} /\ e.excuse = {} /\ e.needs = ANCHORS[f]
  <2>1. f \in Files
    BY LdnFilesAre
  <2> QED
    BY <2>1 DEF AllOf, Edit, Section
<1> HIDE DEF e, k
<1>2. /\ RunState(Onward(t, k))
      /\ Onward(t, k).ok => t.ok /\ ~Aborts(t.files[f], k)
      /\ Onward(t, k).ok => \A g \in Files : g # f => Onward(t, k).files[g] = t.files[g]
  BY <1>1, OnwardFiles
<1>3. ASSUME ~Aborts(t.files[f], k) PROVE ANCHORS[f] \subseteq Passages(t.files[f])
  <2>1. ~Exits(t.files[f], e)
    BY <1>1, <1>3, OneEdit
  <2> QED
    BY <1>1, <2>1 DEF Exits, Skipped
<1> QED
  BY <1>2, <1>3 DEF k, Passed

\* A check that goes through has found every anchor.
LEMMA CheckPasses ==
  ASSUME Typed, RunOver("check", tree).ok
  PROVE  \A f \in DOMAIN ANCHORS : ANCHORS[f] \subseteq Passages(tree[f])
<1> DEFINE F == <<"lan_protocol", "lan_discovery", "ldn_icommunication", "ldnmitm_main">>
<1>1. Script["check"] = AnchorCheck /\ Len(AnchorCheck) = 4
  BY DEF Script, AnchorCheck
<1>2. \A i \in 1 .. 4 : AnchorCheck[i] = AllOf(F[i])
  BY DEF AnchorCheck
<1>3. PICK a : /\ a[0] = Started(tree)
               /\ \A i \in 1 .. 4 : a[i] = Onward(a[i - 1], AnchorCheck[i])
               /\ RunOver("check", tree) = a[4]
  <2>1. Len(Script["check"]) \in Nat
    BY <1>1
  <2>2. PICK a : /\ a[0] = Started(tree)
                 /\ \A i \in 1 .. Len(Script["check"]) : a[i] = Onward(a[i - 1], Script["check"][i])
                 /\ RunOver("check", tree) = a[Len(Script["check"])]
    BY <2>1, RunSteps
  <2>3. /\ \A i \in 1 .. Len(AnchorCheck) : a[i] = Onward(a[i - 1], AnchorCheck[i])
        /\ RunOver("check", tree) = a[Len(AnchorCheck)]
    BY <1>1, <2>2, Zenon
  <2>4. /\ \A i \in 1 .. 4 : a[i] = Onward(a[i - 1], AnchorCheck[i])
        /\ RunOver("check", tree) = a[4]
    BY <1>1, <2>3, Zenon
  <2> QED
    BY <2>2, <2>4
<1>4. /\ F[1] # F[2] /\ F[1] # F[3] /\ F[1] # F[4] /\ F[2] # F[3] /\ F[2] # F[4] /\ F[3] # F[4]
      /\ DOMAIN ANCHORS = {F[1], F[2], F[3], F[4]}
  BY LdnFilesAre
<1> HIDE DEF F
<1>5. DOMAIN ANCHORS \subseteq Files
  BY LdnFilesAre
<1>6. /\ a[1] = Onward(a[0], AllOf(F[1])) /\ a[2] = Onward(a[1], AllOf(F[2]))
      /\ a[3] = Onward(a[2], AllOf(F[3])) /\ a[4] = Onward(a[3], AllOf(F[4]))
  <2>1. /\ a[1] = Onward(a[0], AnchorCheck[1]) /\ a[2] = Onward(a[1], AnchorCheck[2])
        /\ a[3] = Onward(a[2], AnchorCheck[3]) /\ a[4] = Onward(a[3], AnchorCheck[4])
    BY <1>3
  <2>2. /\ AnchorCheck[1] = AllOf(F[1]) /\ AnchorCheck[2] = AllOf(F[2])
        /\ AnchorCheck[3] = AllOf(F[3]) /\ AnchorCheck[4] = AllOf(F[4])
    BY <1>2
  <2> QED
    BY <2>1, <2>2, Zenon
<1>7. RunState(a[0]) /\ a[0].files = tree
  BY <1>3, StartedRuns DEF Typed, TreeOK
<1>8. RunState(a[1]) /\ Passed(F[1], a[0], a[1])
  BY <1>4, <1>6, <1>7, CheckStep
<1>9. RunState(a[2]) /\ Passed(F[2], a[1], a[2])
  BY <1>4, <1>6, <1>8, CheckStep
<1>10. RunState(a[3]) /\ Passed(F[3], a[2], a[3])
  BY <1>4, <1>6, <1>9, CheckStep
<1>11. Passed(F[4], a[3], a[4])
  BY <1>4, <1>6, <1>10, CheckStep
<1>12. /\ ANCHORS[F[4]] \subseteq Passages(a[3].files[F[4]]) /\ a[3].ok
       /\ ANCHORS[F[3]] \subseteq Passages(a[2].files[F[3]]) /\ a[2].ok
       /\ ANCHORS[F[2]] \subseteq Passages(a[1].files[F[2]]) /\ a[1].ok
       /\ ANCHORS[F[1]] \subseteq Passages(a[0].files[F[1]])
  BY <1>3, <1>8, <1>9, <1>10, <1>11 DEF Passed
<1>13. /\ a[1].files[F[2]] = tree[F[2]] /\ a[2].files[F[3]] = tree[F[3]]
       /\ a[3].files[F[4]] = tree[F[4]]
  <2>1. /\ \A f \in Files : f # F[1] => a[1].files[f] = a[0].files[f]
        /\ \A f \in Files : f # F[2] => a[2].files[f] = a[1].files[f]
        /\ \A f \in Files : f # F[3] => a[3].files[f] = a[2].files[f]
    BY <1>8, <1>9, <1>10, <1>12 DEF Passed
  <2> QED
    BY <1>4, <1>5, <1>7, <2>1
<1>14. \A f \in {F[1], F[2], F[3], F[4]} : ANCHORS[f] \subseteq Passages(tree[f])
  BY <1>7, <1>12, <1>13
<1> QED
  BY <1>4, <1>14

\* A passage that is lost is not there.
LEMMA LostIsGone ==
  ASSUME LostOK, NEW f \in LdnFiles, NEW q, lost = <<f, q>>
  PROVE  q \in LdnUpstream[f] /\ q \notin Passages(Checkout(lost)[f])
<1>1. lost # Nothing /\ lost # Older /\ lost[1] = f /\ lost[2] = q
  BY DEF Nothing, Older
<1>2. lost \in Losses(work)
  BY <1>1 DEF LostOK
<1>3. q \in Sources[f]
  <2> DEFINE T == UNION {TouchedBy(s) : s \in work}
  <2> HIDE DEF T
  <2>1. Losses(work) = Pairs([g \in T |-> Sources[g]])
    BY DEF Losses, T
  <2>2. PICK g \in T : lost \in {<<g, p>> : p \in Sources[g]}
    BY <1>2, <2>1 DEF Pairs
  <2> QED
    BY <1>1, <2>2
<1>4. Checkout(lost) = Text([Sources EXCEPT ![f] = @ \ LostWith(f, q)])
  BY <1>1 DEF Checkout
<1>5. Checkout(lost)[f] = SetToBag(Sources[f] \ LostWith(f, q))
  <2>1. f \in Files /\ f \in DOMAIN Sources
    BY LdnFilesAre DEF Files
  <2> QED
    BY <1>4, <2>1 DEF Text
<1>6. q \in LostWith(f, q)
  BY DEF LostWith
<1> QED
  BY <1>3, <1>5, <1>6, SetBag, LdnSourcesAre

\* What patch-ldn-zt.py looks for is known to the check, or is in Unverified.
LEMMA VerifiedOrNot ==
  \A f \in LdnFiles : \A q \in LdnUpstream[f] :
    <<f, q>> \in Unverified \/ (f \in DOMAIN ANCHORS /\ q \in ANCHORS[f])
<1> DEFINE U == [
  checkout      |-> LdnUpstream.checkout,
  ldnmitm_main  |-> {"log-main-block", "register-block", "128_KB-heap"},
  lan_protocol  |-> {"stratosphere.hpp", "poll-loop", "pfd=pfds[i]", "POLLERR", "POLLIN",
                     "::close-line", "recvfrom-line", "sendto-line", "recvfrom-addr",
                     "sendto-addr-line"},
  lan_discovery |-> {"ipinfo.hpp", "accept-block", "close(new_fd)-1", "close(new_fd)-2",
                     "getBroadcast-def", "setSocketOpts-def", "tcp-socket-line", "bind-1-line",
                     "bind-2-line", "listen-line", "udp-socket-line", "connect-line",
                     "local-ip-block", "mac-ip-block"},
  ldn_icommunication |-> {"arpa/inet.h", "lanDiscovery.initialize-line", "GetIpv4Address-def"},
  Makefile      |-> {"VERSION_DEFINES"}]
<1>1. Unverified = Pairs(U)
  BY DEF Unverified
<1>2. LdnFiles = DOMAIN U
  BY DEF LdnFiles
<1>3. ASSUME NEW f \in LdnFiles, NEW q \in LdnUpstream[f], q \notin U[f]
      PROVE  f \in DOMAIN ANCHORS /\ q \in ANCHORS[f]
  <2>1. CASE f = "checkout"
    BY <1>3, <2>1
  <2>2. CASE f = "ldnmitm_main"
    BY <1>3, <2>2 DEF LdnUpstream, ANCHORS
  <2>3. CASE f = "lan_protocol"
    BY <1>3, <2>3 DEF LdnUpstream, ANCHORS
  <2>4. CASE f = "lan_discovery"
    BY <1>3, <2>4 DEF LdnUpstream, ANCHORS
  <2>5. CASE f = "ldn_icommunication"
    BY <1>3, <2>5 DEF LdnUpstream, ANCHORS
  <2>6. CASE f = "Makefile"
    BY <1>3, <2>6 DEF LdnUpstream
  <2> QED
    BY <2>1, <2>2, <2>3, <2>4, <2>5, <2>6 DEF LdnFiles
<1> HIDE DEF U
<1>4. \A f \in DOMAIN U : \A q \in U[f] : <<f, q>> \in Pairs(U)
  BY DEF Pairs
<1> QED
  BY <1>1, <1>2, <1>3, <1>4

\* So after a check that goes through nothing is missing.
LEMMA AllThere ==
  ASSUME Typed, Anchors, RunOver("check", tree).ok, lost \notin Unverified,
         \A f \in cut : \A p \in Sources[f] : <<f, p>> \in Unverified => p \in Passages(tree[f])
  PROVE  \A f \in LdnFiles : LdnUpstream[f] \subseteq Passages(tree[f])
<1> SUFFICES ASSUME NEW f \in LdnFiles, NEW p \in LdnUpstream[f], p \notin Passages(tree[f])
             PROVE  FALSE
  OBVIOUS
<1>1. "main" \in Passages(tree["ldnmitm_main"])
  <2>1. "ldnmitm_main" \in DOMAIN ANCHORS /\ "main" \in ANCHORS["ldnmitm_main"]
    BY DEF ANCHORS
  <2> QED
    BY <2>1, CheckPasses
<1>2. p \notin Passages(Checkout(lost)[f])
  <2>1. f \notin cut
    <3> SUFFICES ASSUME f \in cut PROVE FALSE
      OBVIOUS
    <3>1. f \in DOMAIN ANCHORS /\ p \in ANCHORS[f]
      BY VerifiedOrNot, LdnSourcesAre
    <3> QED
      BY <3>1, CheckPasses
  <2> QED
    BY <1>1, <2>1 DEF Anchors
<1>3. LostOK /\ f \in Files \ {"main", "posix"} /\ p \in Sources[f]
  BY LdnFilesAre, LdnSourcesAre DEF Typed
<1>4. PICK q : lost = <<f, q>>
  <2>1. \A g \in Files \ {"main", "posix"} : \A r \in Sources[g] :
          r \notin Passages(Checkout(lost)[g]) => \E q : lost = <<g, q>> /\ r \in LostWith(g, q)
    BY <1>3, CheckoutText DEF LostOK
  <2> QED
    BY <1>2, <1>3, <2>1
<1>5. q \in LdnUpstream[f] /\ q \notin Passages(Checkout(lost)[f])
  BY <1>3, <1>4, LostIsGone
<1>6. f \in DOMAIN ANCHORS /\ q \in ANCHORS[f]
  BY <1>4, <1>5, VerifiedOrNot
<1>7. q \in Passages(tree[f])
  BY <1>6, CheckPasses
<1>8. CountIn(q, tree[f]) <= CountIn(q, Checkout(lost)[f])
  BY <1>6 DEF Anchors
<1>9. /\ CountIn(q, tree[f]) \in Nat /\ CountIn(q, tree[f]) > 0
      /\ CountIn(q, Checkout(lost)[f]) = 0
  <2>1. IsABag(tree[f]) /\ IsABag(Checkout(lost)[f])
    BY <1>3, LdnCheckout DEF Typed, TreeOK
  <2> QED
    BY <1>5, <1>7, <2>1, EditedCopies
<1> QED
  BY <1>8, <1>9

-----------------------------------------------------------------------------
(* A run of patch-ldn-zt.py where nothing is missing.                      *)

\* What holds after i sections of it: the passages that later sections work at are
\* still there, the stubs are gone, and the libraries are linked.
Ready(t, i) ==
  /\ RunState(t) /\ t.ok
  /\ \A f \in Files : IsABag(t.files[f])
  /\ \A f \in LdnFiles : \A p \in LdnUpstream[f] : Turn(f, p) > i => p \in Passages(t.files[f])
  /\ CountIn("copy", t.files["stubs"]) <= 1
  /\ i >= 5 => "copy" \notin Passages(t.files["stubs"])
  /\ i >= 34 => "-lzt" \in Passages(t.files["Makefile"])

\* Section k, the i-th, goes through and leaves what the later ones look for.
GoesOn(text, k, i) ==
  /\ ~Aborts(text, k)
  /\ k.file \in LdnFiles => \A p \in LdnUpstream[k.file] :
       Turn(k.file, p) > i /\ p \in Passages(text) => p \in Passages(Rewritten(text, k))
  /\ k.file = "stubs" => CountIn("copy", Rewritten(text, k)) <= CountIn("copy", text)
  /\ i = 5 => k.file = "stubs" /\ "copy" \notin Passages(Rewritten(text, k))
  /\ k.file = "Makefile" =>
       ("-lzt" \in Passages(text) => "-lzt" \in Passages(Rewritten(text, k)))
  /\ i = 34 => k.file = "Makefile" /\ "-lzt" \in Passages(Rewritten(text, k))

\* No section before the 6th takes anything out.
LEMMA TurnIs == \A f, p : Turn(f, p) \in 6 .. 40
BY DEF Turn

\* A section that goes on does so in the whole run.
LEMMA ReadyAgain ==
  ASSUME NEW t, NEW i \in 1 .. 36, NEW k, Formed(k), Ready(t, i - 1),
         GoesOn(t.files[k.file], k, i)
  PROVE  Ready(Onward(t, k), i)
<1> DEFINE u == Onward(t, k)
           F == k.file
           R == Rewritten(t.files[F], k)
<1>1. F \in Files /\ IsABag(t.files[F]) /\ RunState(t) /\ t.ok /\ ~Aborts(t.files[F], k)
  BY DEF Formed, Ready, GoesOn
<1>2. /\ RunState(u) /\ u.ok
      /\ u.files[F] = R
      /\ \A f \in Files : f # F => u.files[f] = t.files[f]
  BY <1>1, OnwardFiles
<1>3. IsABag(R) /\ \A p : CountIn(p, R) \in Nat
  BY <1>1, RewrittenCopies DEF Formed
<1>4. /\ F \in LdnFiles => \A p \in LdnUpstream[F] :
           Turn(F, p) > i /\ p \in Passages(t.files[F]) => p \in Passages(R)
      /\ F = "stubs" => CountIn("copy", R) <= CountIn("copy", t.files[F])
      /\ i = 5 => F = "stubs" /\ "copy" \notin Passages(R)
      /\ F = "Makefile" => ("-lzt" \in Passages(t.files[F]) => "-lzt" \in Passages(R))
      /\ i = 34 => F = "Makefile" /\ "-lzt" \in Passages(R)
  BY DEF GoesOn
<1> HIDE DEF u, F, R
<1>5. \A f \in Files : IsABag(u.files[f])
  BY <1>2, <1>3 DEF Ready
<1>6. ASSUME NEW f \in LdnFiles, NEW p \in LdnUpstream[f], Turn(f, p) > i
      PROVE  p \in Passages(u.files[f])
  <2>1. f \in Files /\ Turn(f, p) > i - 1
    BY <1>6, LdnFilesAre, TurnIs
  <2>2. p \in Passages(t.files[f])
    BY <2>1 DEF Ready
  <2> QED
    BY <1>2, <1>4, <1>6, <2>1, <2>2
<1>7. "stubs" \in Files /\ "Makefile" \in Files
  BY FilesAre
<1>8. /\ CountIn("copy", u.files["stubs"]) \in Nat
      /\ CountIn("copy", t.files["stubs"]) \in Nat
      /\ CountIn("copy", t.files["stubs"]) <= 1
      /\ "copy" \in Passages(u.files["stubs"]) <=> CountIn("copy", u.files["stubs"]) > 0
      /\ "copy" \in Passages(t.files["stubs"]) <=> CountIn("copy", t.files["stubs"]) > 0
  BY <1>5, <1>7, EditedCopies DEF Ready
<1>9. CountIn("copy", u.files["stubs"]) <= CountIn("copy", t.files["stubs"])
  BY <1>2, <1>4, <1>7, <1>8
<1>10. CountIn("copy", u.files["stubs"]) <= 1
  BY <1>8, <1>9
<1>11. i >= 5 => "copy" \notin Passages(u.files["stubs"])
  <2>1. CASE i = 5
    BY <1>2, <1>4, <1>7, <2>1
  <2>2. CASE i > 5
    <3>1. i - 1 >= 5
      BY <2>2
    <3>2. "copy" \notin Passages(t.files["stubs"])
      BY <3>1 DEF Ready
    <3> QED
      BY <1>8, <1>9, <3>2
  <2> QED
    BY <2>1, <2>2
<1>12. i >= 34 => "-lzt" \in Passages(u.files["Makefile"])
  <2>1. CASE i = 34
    BY <1>2, <1>4, <1>7, <2>1
  <2>2. CASE i > 34
    <3>1. i - 1 >= 34
      BY <2>2
    <3>2. "-lzt" \in Passages(t.files["Makefile"])
      BY <3>1 DEF Ready
    <3> QED
      BY <1>2, <1>4, <1>7, <3>2
  <2> QED
    BY <2>1, <2>2
<1>13. Ready(u, i)
  BY <1>2, <1>5, <1>6, <1>10, <1>11, <1>12 DEF Ready
<1> QED
  BY <1>13 DEF u

\* A section whose edits all find their anchors does not end the script.
LEMMA OneGoes ==
  ASSUME NEW text, NEW f, NEW e, ~Exits(text, e)
  PROVE  LET k == Section(f, <<e>>)
         IN  ~Aborts(text, k) /\ Rewritten(text, k) = Edited(text, e) /\ k.file = f
<1> DEFINE k == Section(f, <<e>>)
           D == Drafts(text, k)
<1>1. k.edits = <<e>> /\ k.find = {} /\ k.file = f
  BY DEF Section
<1> HIDE DEF k
<1>2. Found(text, k)
  BY <1>1 DEF Found
<1>3. Len(k.edits) = 1 /\ k.edits[1] = e
  BY <1>1
<1>4. D[0] = text
  BY <1>3, DraftSteps
<1> HIDE DEF D
<1>5. ~ \E i \in 1 .. Len(k.edits) : Exits(D[i - 1], k.edits[i])
  BY <1>3, <1>4
<1>6. ~Aborts(text, k)
  BY <1>2, <1>5 DEF Aborts, D
<1>7. Rewritten(text, k) = Edited(text, e)
  BY <1>6, OneEdit DEF k
<1> QED
  BY <1>1, <1>6, <1>7 DEF k

\* Sections 6 to 33, one edit each.
LEMMA DueGoesOn ==
  ASSUME NEW f \in {"ldnmitm_main", "lan_protocol", "lan_discovery", "ldn_icommunication"},
         NEW i \in 6 .. 33, NEW e, Due(f, e, i), NEW text, IsABag(text),
         \A p \in LdnUpstream[f] : Turn(f, p) > i - 1 => p \in Passages(text)
  PROVE  GoesOn(text, Section(f, <<e>>), i)
<1> DEFINE k == Section(f, <<e>>)
<1>1. e.needs \subseteq Passages(text)
  <2> SUFFICES ASSUME NEW p \in e.needs PROVE p \in Passages(text)
    OBVIOUS
  <2>1. p \in LdnUpstream[f] /\ Turn(f, p) >= i
    BY DEF Due
  <2>2. Turn(f, p) > i - 1
    BY <2>1, TurnIs
  <2> QED
    BY <2>1, <2>2
<1>2. ~Exits(text, e)
  BY <1>1 DEF Exits
<1>3. ~Aborts(text, k) /\ Rewritten(text, k) = Edited(text, e) /\ k.file = f
  BY <1>2, OneGoes
<1>4. ASSUME NEW p \in LdnUpstream[f], Turn(f, p) > i, p \in Passages(text)
      PROVE  p \in Passages(Edited(text, e))
  <2>1. p \notin e.takes
    <3> SUFFICES ASSUME p \in e.takes PROVE FALSE
      OBVIOUS
    <3>1. Turn(f, p) <= i
      BY DEF Due
    <3> QED
      BY <1>4, <3>1, TurnIs
  <2>2. IsABag(Edited(text, e)) /\ CountIn(p, text) \in Nat
        /\ CountIn(p, text) > 0 /\ CountIn(p, Edited(text, e)) >= CountIn(p, text)
    BY <1>4, <2>1, EditedCopies
  <2>3. /\ CountIn(p, Edited(text, e)) \in Nat
        /\ p \in Passages(Edited(text, e)) <=> CountIn(p, Edited(text, e)) > 0
    BY <2>2, EditedCopies
  <2> QED
    BY <2>2, <2>3
<1>5. f # "stubs" /\ f # "Makefile" /\ i # 5 /\ i # 34
  OBVIOUS
<1> HIDE DEF k
<1>6. GoesOn(text, k, i)
  BY <1>3, <1>4, <1>5 DEF GoesOn
<1> QED
  BY <1>6 DEF k

\* Section 1 looks at the checkout and writes nothing.
LEMMA PinsGoOn ==
  ASSUME NEW text, IsABag(text), LdnUpstream.checkout \subseteq Passages(text)
  PROVE  GoesOn(text, LdnPreconditions[1], 1)
<1> DEFINE k == LdnPreconditions[1]
           D == Drafts(text, k)
<1>1. /\ k.file = "checkout" /\ k.find = {} /\ Len(k.edits) = 4
      /\ \A j \in 1 .. 4 : k.edits[j].takes = {} /\ k.edits[j].needs \subseteq LdnUpstream.checkout
  BY DEF LdnPreconditions, Section, Need, Edit, LdnUpstream
<1> HIDE DEF k
<1>2. \A j \in 0 .. 4 : IsABag(D[j])
  <2>1. \A j \in 0 .. Len(k.edits) : IsABag(D[j])
    <3>1. Len(k.edits) \in Nat
      BY <1>1
    <3> QED
      BY <3>1, DraftBags
  <2> QED
    BY <1>1, <2>1
<1>3. D[0] = text
  BY <1>1, DraftSteps
<1>4. ASSUME NEW p \in Passages(text), NEW j \in 0 .. 4 PROVE p \in Passages(D[j])
  <2>1. CountIn(p, D[j]) >= CountIn(p, D[0])
    <3>1. Len(k.edits) \in Nat /\ \A i \in 1 .. Len(k.edits) : p \notin k.edits[i].takes
      BY <1>1
    <3>2. 0 \in 0 .. Len(k.edits) /\ j \in 0 .. Len(k.edits)
      BY <1>1
    <3>3. \A i \in 0 .. Len(k.edits) : CountIn(p, D[i]) >= CountIn(p, D[0])
      BY <3>1, <3>2, DraftsKeep
    <3> QED
      BY <3>2, <3>3
  <2>2. CountIn(p, text) \in Nat /\ CountIn(p, text) > 0
    BY EditedCopies
  <2>3. /\ CountIn(p, D[j]) \in Nat
        /\ p \in Passages(D[j]) <=> CountIn(p, D[j]) > 0
    BY <1>2, EditedCopies
  <2> QED
    BY <1>3, <2>1, <2>2, <2>3
<1>5. Rewritten(text, k) = text \/ Rewritten(text, k) = D[4]
  BY <1>1 DEF Rewritten
<1>6. \A p \in Passages(text) : p \in Passages(Rewritten(text, k))
  BY <1>4, <1>5
<1> HIDE DEF D
<1>7. \A j \in 1 .. 4 : ~Exits(D[j - 1], k.edits[j])
  <2> SUFFICES ASSUME NEW j \in 1 .. 4 PROVE ~Exits(D[j - 1], k.edits[j])
    OBVIOUS
  <2>1. j - 1 \in 0 .. 4 /\ k.edits[j].needs \subseteq Passages(text)
    BY <1>1
  <2>2. k.edits[j].needs \subseteq Passages(D[j - 1])
    BY <1>4, <2>1
  <2> QED
    BY <2>2 DEF Exits
<1>8. ~Aborts(text, k)
  <2>1. Found(text, k)
    BY <1>1 DEF Found
  <2> QED
    BY <1>1, <1>7, <2>1 DEF Aborts, D
<1>9. GoesOn(text, k, 1)
  BY <1>1, <1>6, <1>8 DEF GoesOn
<1> QED
  BY <1>9 DEF k

\* Sections 2 to 4 copy the bridge.
LEMMA CopyGoesOn ==
  ASSUME NEW f \in {"bridgeHpp", "bridgeCpp", "errnoCompat"}, NEW i \in 2 .. 4, NEW text
  PROVE  GoesOn(text, Copy(f), i)
<1> DEFINE e == Edit({}, {"copy"}, {"copy"})
           k == Copy(f)
<1>1. k = Section(f, <<e>>) /\ e.needs = {}
  BY DEF Copy, Edit
<1>2. ~Exits(text, e)
  BY <1>1 DEF Exits
<1> HIDE DEF e, k
<1>3. ~Aborts(text, k) /\ k.file = f
  BY <1>1, <1>2, OneGoes
<1>4. f \notin LdnFiles /\ f # "stubs" /\ f # "Makefile" /\ i # 5 /\ i # 34
  BY DEF LdnFiles
<1>5. GoesOn(text, k, i)
  BY <1>3, <1>4 DEF GoesOn
<1> QED
  BY <1>5 DEF k

\* Section 5 removes the stubs.
LEMMA StubsGoOn ==
  ASSUME NEW text, IsABag(text), CountIn("copy", text) <= 1
  PROVE  GoesOn(text, LdnCopies[4], 5)
<1> DEFINE e == Edit({}, {"copy"}, {})
           k == LdnCopies[4]
<1>1. /\ k = Section("stubs", <<e>>) /\ e.needs = {} /\ e.puts = {} /\ "copy" \in e.takes
      /\ e.when = {} /\ e.unless = {} /\ e.excuse = {}
  BY DEF LdnCopies, Edit
<1>2. ~Exits(text, e) /\ ~Skipped(text, e)
  BY <1>1 DEF Exits, Skipped
<1> HIDE DEF e, k
<1>3. ~Aborts(text, k) /\ k.file = "stubs" /\ Rewritten(text, k) = Edited(text, e)
  BY <1>1, <1>2, OneGoes
<1>4. /\ "copy" \notin Passages(Edited(text, e))
      /\ CountIn("copy", Edited(text, e)) <= CountIn("copy", text)
  BY <1>1, <1>2, EditedCopies
<1>5. "stubs" \notin LdnFiles /\ "stubs" # "Makefile"
  BY DEF LdnFiles
<1>6. GoesOn(text, k, 5)
  BY <1>3, <1>4, <1>5 DEF GoesOn
<1> QED
  BY <1>6 DEF k

\* The last three link the libraries, look for the stubs and for the link.
LEMMA LinkGoesOn ==
  ASSUME NEW text, IsABag(text), "VERSION_DEFINES" \in Passages(text)
  PROVE  GoesOn(text, LdnMakefile[1], 34)
<1> DEFINE e == IfFound(Insert("VERSION_DEFINES", "-lzt"))
           k == LdnMakefile[1]
<1>1. /\ k = Section("Makefile", <<e>>) /\ e.needs = {"VERSION_DEFINES"} /\ e.takes = {}
      /\ "-lzt" \in e.puts /\ e.when = {"VERSION_DEFINES"} /\ e.unless = {} /\ e.excuse = {}
  BY DEF LdnMakefile, Edit, Insert, IfFound
<1>2. ~Exits(text, e) /\ ~Skipped(text, e)
  BY <1>1 DEF Exits, Skipped
<1> HIDE DEF e, k
<1>3. ~Aborts(text, k) /\ k.file = "Makefile" /\ Rewritten(text, k) = Edited(text, e)
  BY <1>1, <1>2, OneGoes
<1>4. "-lzt" \in Passages(Edited(text, e))
  BY <1>1, <1>2, EditedCopies
<1>5. ASSUME NEW p, p \in Passages(text) PROVE p \in Passages(Edited(text, e))
  <2>1. IsABag(Edited(text, e)) /\ CountIn(p, text) \in Nat
        /\ CountIn(p, text) > 0 /\ CountIn(p, Edited(text, e)) >= CountIn(p, text)
    BY <1>1, <1>5, EditedCopies
  <2>2. /\ CountIn(p, Edited(text, e)) \in Nat
        /\ p \in Passages(Edited(text, e)) <=> CountIn(p, Edited(text, e)) > 0
    BY <2>1, EditedCopies
  <2> QED
    BY <2>1, <2>2
<1>6. GoesOn(text, k, 34)
  <2>1. \A p \in Passages(text) : p \in Passages(Rewritten(text, k))
    BY <1>3, <1>5
  <2> QED
    BY <1>3, <1>4, <2>1 DEF GoesOn
<1> QED
  BY <1>6 DEF k

\* Section 35 refuses a checkout with stubs in it.
LEMMA NoStubsGoesOn ==
  ASSUME NEW text, "copy" \notin Passages(text)
  PROVE  GoesOn(text, LdnMakefile[2], 35)
<1> DEFINE e == Refuse("copy")
           k == LdnMakefile[2]
<1>1. k = Section("stubs", <<e>>) /\ "copy" \in e.when
  BY DEF LdnMakefile, Refuse, OnlyIf, Need, Edit
<1>2. Skipped(text, e)
  BY <1>1 DEF Skipped
<1>3. ~Exits(text, e) /\ Edited(text, e) = text
  BY <1>2 DEF Exits, Edited
<1> HIDE DEF e, k
<1>4. ~Aborts(text, k) /\ k.file = "stubs" /\ Rewritten(text, k) = text
  BY <1>1, <1>3, OneGoes
<1>5. "stubs" \notin LdnFiles /\ "stubs" # "Makefile"
  BY DEF LdnFiles
<1>6. CountIn("copy", text) <= CountIn("copy", text)
  BY DEF CountIn, Passages, BagToSet
<1>7. GoesOn(text, k, 35)
  BY <1>4, <1>5, <1>6 DEF GoesOn
<1> QED
  BY <1>7 DEF k

\* Section 36 looks for the link.
LEMMA LinkedGoesOn ==
  ASSUME NEW text, IsABag(text), "-lzt" \in Passages(text)
  PROVE  GoesOn(text, LdnMakefile[3], 36)
<1> DEFINE e == Need("-lzt")
           k == LdnMakefile[3]
<1>1. k = Section("Makefile", <<e>>) /\ e.needs = {"-lzt"} /\ e.takes = {}
  BY DEF LdnMakefile, Need, Edit
<1>2. ~Exits(text, e)
  BY <1>1 DEF Exits
<1> HIDE DEF e, k
<1>3. ~Aborts(text, k) /\ k.file = "Makefile" /\ Rewritten(text, k) = Edited(text, e)
  BY <1>1, <1>2, OneGoes
<1>4. ASSUME NEW p, p \in Passages(text) PROVE p \in Passages(Edited(text, e))
  <2>1. IsABag(Edited(text, e)) /\ CountIn(p, text) \in Nat
        /\ CountIn(p, text) > 0 /\ CountIn(p, Edited(text, e)) >= CountIn(p, text)
    BY <1>1, <1>4, EditedCopies
  <2>2. /\ CountIn(p, Edited(text, e)) \in Nat
        /\ p \in Passages(Edited(text, e)) <=> CountIn(p, Edited(text, e)) > 0
    BY <2>1, EditedCopies
  <2> QED
    BY <2>1, <2>2
<1>5. \A p \in Passages(text) : p \in Passages(Rewritten(text, k))
  BY <1>3, <1>4
<1>6. GoesOn(text, k, 36)
  BY <1>3, <1>5 DEF GoesOn
<1> QED
  BY <1>6 DEF k

\* So each of the 36 sections goes on where the ones before it have.
LEMMA LdnGoesOn ==
  ASSUME NEW t, NEW i \in 1 .. 36, Ready(t, i - 1)
  PROVE  Ready(Onward(t, PatchLdn[i]), i)
<1> DEFINE k == PatchLdn[i]
<1>1. Formed(k)
  BY LdnScript
<1>2. /\ \A f \in Files : IsABag(t.files[f])
      /\ \A f \in LdnFiles : \A p \in LdnUpstream[f] :
           Turn(f, p) > i - 1 => p \in Passages(t.files[f])
  BY DEF Ready
<1>3. /\ LdnFiles \subseteq Files /\ "stubs" \in Files
      /\ "checkout" \in LdnFiles /\ "Makefile" \in LdnFiles /\ "ldnmitm_main" \in LdnFiles
      /\ "lan_protocol" \in LdnFiles /\ "lan_discovery" \in LdnFiles
      /\ "ldn_icommunication" \in LdnFiles
  BY FilesAre DEF LdnFiles
<1>4. ASSUME NEW x,
             NEW f \in {"ldnmitm_main", "lan_protocol", "lan_discovery", "ldn_icommunication"},
             NEW after \in Nat, NEW n \in Nat, AllDue(x, f, after, n),
             i - after \in 1 .. n, i \in 6 .. 33, k = x[i - after]
      PROVE  GoesOn(t.files[k.file], k, i)
  <2> DEFINE m == i - after
  <2>0. m \in 1 .. n /\ after + m = i
    BY <1>4
  <2>1. PICK e : k = Section(f, <<e>>) /\ Due(f, e, i)
    <3>1. k = x[m]
      BY <1>4
    <3> HIDE DEF k, m
    <3>2. PICK e : x[m] = Section(f, <<e>>) /\ Due(f, e, after + m)
      BY <1>4, <2>0 DEF AllDue
    <3> QED
      BY <2>0, <3>1, <3>2
  <2>2. k.file = f
    BY <2>1 DEF Section
  <2>3. f \in LdnFiles /\ IsABag(t.files[f])
    BY <1>2, <1>3
  <2>4. GoesOn(t.files[f], Section(f, <<e>>), i)
    BY <1>2, <1>4, <2>1, <2>3, DueGoesOn
  <2> QED
    BY <2>1, <2>2, <2>4, Zenon
<1>5. CASE i = 1
  <2>1. k = LdnPreconditions[1] /\ k.file = "checkout"
    BY <1>5, LdnParts DEF LdnPreconditions, Section
  <2>2. LdnUpstream.checkout \subseteq Passages(t.files["checkout"])
    BY <1>2, <1>3, <1>5, TurnIs
  <2> HIDE DEF k
  <2>3. GoesOn(t.files["checkout"], k, 1)
    BY <1>2, <1>3, <2>1, <2>2, PinsGoOn
  <2> QED
    BY <1>1, <1>5, <2>1, <2>3, ReadyAgain DEF k
<1>6. CASE i \in 2 .. 4
  <2>1. PICK f \in {"bridgeHpp", "bridgeCpp", "errnoCompat"} : k = Copy(f)
    BY <1>6, LdnParts DEF LdnCopies
  <2> HIDE DEF k
  <2>2. GoesOn(t.files[k.file], k, i)
    BY <1>6, <2>1, CopyGoesOn
  <2> QED
    BY <1>1, <2>2, ReadyAgain DEF k
<1>7. CASE i = 5
  <2>1. k = LdnCopies[4] /\ k.file = "stubs"
    BY <1>7, LdnParts DEF LdnCopies, Section
  <2> HIDE DEF k
  <2>2. GoesOn(t.files["stubs"], k, 5)
    BY <1>2, <1>3, <2>1, StubsGoOn DEF Ready
  <2> QED
    BY <1>1, <1>7, <2>1, <2>2, ReadyAgain DEF k
<1>8. CASE i \in 6 .. 8
  <2>1. k = LdnMain[i - 5] /\ i - 5 \in 1 .. 3 /\ i \in 6 .. 33
    BY <1>8, LdnParts
  <2> HIDE DEF k
  <2>2. GoesOn(t.files[k.file], k, i)
    BY <1>4, <2>1, LdnWritten
  <2> QED
    BY <1>1, <2>2, ReadyAgain DEF k
<1>9. CASE i \in 9 .. 18
  <2>1. k = LdnProtocol[i - 8] /\ i - 8 \in 1 .. 10 /\ i \in 6 .. 33
    BY <1>9, LdnParts
  <2> HIDE DEF k
  <2>2. GoesOn(t.files[k.file], k, i)
    BY <1>4, <2>1, LdnWritten
  <2> QED
    BY <1>1, <2>2, ReadyAgain DEF k
<1>10. CASE i \in 19 .. 30
  <2>1. k = LdnDiscovery[i - 18] /\ i - 18 \in 1 .. 12 /\ i \in 6 .. 33
    BY <1>10, LdnParts
  <2> HIDE DEF k
  <2>2. GoesOn(t.files[k.file], k, i)
    BY <1>4, <2>1, LdnWritten
  <2> QED
    BY <1>1, <2>2, ReadyAgain DEF k
<1>11. CASE i \in 31 .. 33
  <2>1. k = LdnService[i - 30] /\ i - 30 \in 1 .. 3 /\ i \in 6 .. 33
    BY <1>11, LdnParts
  <2> HIDE DEF k
  <2>2. GoesOn(t.files[k.file], k, i)
    BY <1>4, <2>1, LdnWritten
  <2> QED
    BY <1>1, <2>2, ReadyAgain DEF k
<1>12. CASE i = 34
  <2>1. k = LdnMakefile[1] /\ k.file = "Makefile"
    BY <1>12, LdnParts DEF LdnMakefile, Section
  <2>2. "VERSION_DEFINES" \in Passages(t.files["Makefile"])
    <3>1. "VERSION_DEFINES" \in LdnUpstream["Makefile"] /\ Turn("Makefile", "VERSION_DEFINES") = 40
      BY DEF LdnUpstream, Turn
    <3> QED
      BY <1>2, <1>3, <1>12, <3>1
  <2> HIDE DEF k
  <2>3. GoesOn(t.files["Makefile"], k, 34)
    BY <1>2, <1>3, <2>1, <2>2, LinkGoesOn
  <2> QED
    BY <1>1, <1>12, <2>1, <2>3, ReadyAgain DEF k
<1>13. CASE i = 35
  <2>1. k = LdnMakefile[2] /\ k.file = "stubs"
    BY <1>13, LdnParts DEF LdnMakefile, Section
  <2>2. "copy" \notin Passages(t.files["stubs"])
    BY <1>13 DEF Ready
  <2> HIDE DEF k
  <2>3. GoesOn(t.files["stubs"], k, 35)
    BY <2>1, <2>2, NoStubsGoesOn
  <2> QED
    BY <1>1, <1>13, <2>1, <2>3, ReadyAgain DEF k
<1>14. CASE i = 36
  <2>1. k = LdnMakefile[3] /\ k.file = "Makefile"
    BY <1>14, LdnParts DEF LdnMakefile, Section
  <2>2. "-lzt" \in Passages(t.files["Makefile"])
    BY <1>14 DEF Ready
  <2> HIDE DEF k
  <2>3. GoesOn(t.files["Makefile"], k, 36)
    BY <1>2, <1>3, <2>1, <2>2, LinkedGoesOn
  <2> QED
    BY <1>1, <1>14, <2>1, <2>3, ReadyAgain DEF k
<1> QED
  BY <1>5, <1>6, <1>7, <1>8, <1>9, <1>10, <1>11, <1>12, <1>13, <1>14

\* And the whole script goes through.
LEMMA LdnGoesThrough ==
  ASSUME Typed, Anchors, \A f \in LdnFiles : LdnUpstream[f] \subseteq Passages(tree[f])
  PROVE  RunOver("ldn", tree).ok
<1>1. Script["ldn"] = PatchLdn /\ Len(PatchLdn) = 36
  BY LdnParts DEF Script
<1>2. PICK a : /\ a[0] = Started(tree)
               /\ \A i \in 1 .. 36 : a[i] = Onward(a[i - 1], PatchLdn[i])
               /\ RunOver("ldn", tree) = a[36]
  <2>1. Len(Script["ldn"]) \in Nat
    BY <1>1
  <2>2. PICK a : /\ a[0] = Started(tree)
                 /\ \A i \in 1 .. Len(Script["ldn"]) : a[i] = Onward(a[i - 1], Script["ldn"][i])
                 /\ RunOver("ldn", tree) = a[Len(Script["ldn"])]
    BY <2>1, RunSteps
  <2>3. /\ \A i \in 1 .. Len(PatchLdn) : a[i] = Onward(a[i - 1], PatchLdn[i])
        /\ RunOver("ldn", tree) = a[Len(PatchLdn)]
    BY <1>1, <2>2, Zenon
  <2>4. /\ \A i \in 1 .. 36 : a[i] = Onward(a[i - 1], PatchLdn[i])
        /\ RunOver("ldn", tree) = a[36]
    BY <1>1, <2>3, Zenon
  <2> QED
    BY <2>2, <2>4
<1> DEFINE S == {i \in 0 .. 36 : Ready(a[i], i)}
<1>3. 0 \in S
  <2>1. RunState(a[0]) /\ a[0].ok /\ a[0].files = tree
    BY <1>2, StartedRuns DEF Typed, TreeOK
  <2>2. \A f \in Files : IsABag(tree[f])
    BY DEF Typed, TreeOK
  <2>3. CountIn("copy", tree["stubs"]) <= 1
    BY DEF Anchors
  <2> QED
    BY <2>1, <2>2, <2>3 DEF Ready
<1>4. ASSUME NEW i \in 1 .. 36, i - 1 \in S PROVE i \in S
  <2>1. Ready(a[i - 1], i - 1)
    BY <1>4
  <2>2. Ready(Onward(a[i - 1], PatchLdn[i]), i)
    BY <2>1, LdnGoesOn
  <2>3. Ready(a[i], i)
    BY <1>2, <2>2
  <2> QED
    BY <2>3
<1> HIDE DEF S
<1>5. \A i \in 0 .. 36 : i \in S
  BY <1>3, <1>4, UpTo
<1> USE DEF S
<1>6. Ready(a[36], 36)
  BY <1>5
<1> QED
  BY <1>2, <1>6 DEF Ready

\* On every checkout, after any scripts in any order, killed or not: where
\* anchor_check_defender.py goes through, so does patch-ldn-zt.py, unless what was lost
\* upstream, or behind a write that was cut short, is a passage that the check does not
\* look for.
THEOREM VerifiedAnchorsSuffice == Spec => []AnchorCheckSuffices
<1>1. Typed /\ Anchors => AnchorCheckSuffices
  BY AllThere, LdnGoesThrough DEF AnchorCheckSuffices
<1> QED
  BY <1>1, TypedInvariant, AnchorsInvariant, PTL

-----------------------------------------------------------------------------
(* Repeating a script: what its sections find, and what they leave.        *)

\* The files that the scripts of Rerunnable edit.
Shared == {"main", "posix", "Constants", "Phy", "VirtualTap", "sys_arch", "tcpip", "OSUtils",
           "NodeService", "Node", "Incoming", "Peer"}

\* Passages of the usual checkout that these scripts look for and nobody takes out.
Basic(f) ==
  IF f \in Shared
  THEN [main        |-> {"16-sessions"},
        posix       |-> {"counters"},
        Constants   |-> {"ZT_INLINE", "ZT_INLINE-block", "ZT_PEER_PING_PERIOD"},
        Phy         |-> {"string.h", "udpBind(", "recvfrom(", "phyOnDatagram",
                         "recvfrom-statement", "UDP-case"},
        VirtualTap  |-> {"driver_loop", "driver_loop-begin", "sys_sem_new", "tcpip_init",
                         "sys_sem_wait"},
        sys_arch    |-> {"sys_thread_new(", "pthread_create", "introduce_thread", "pthread.h",
                         "sys_thread_new-begin", "pthread_create(&tmp", "if-0==code",
                         "st=introduce_thread", "thread_wrapper"},
        tcpip       |-> {"opt.h", "tcpip_thread", "tcpip_init", "sys_thread_new",
                         "tcpip_thread-begin", "tcpip_init-begin", "if-tcpip_init_done",
                         "tcpip_init_done("},
        OSUtils     |-> {"exists"},
        NodeService |-> {"exists", "stdlib.h", "phyOnDatagram"},
        Node        |-> {},
        Incoming    |-> {"exists", "Trace.hpp", "dearmor-block"},
        Peer        |-> {"exists", "Metrics.hpp"}][f]
  ELSE {}

\* Passages that show that a section has been there, and that nobody takes out for good.
Marks(f) ==
  IF f \in Shared
  THEN [main        |-> {},
        posix       |-> {},
        Constants   |-> {"byte-order"},
        Phy         |-> {"UDP-recv"},
        VirtualTap  |-> {"DRIVER:ENTER", "DRIVER:SEM_NEW", "DRIVER:TCPIP_INIT",
                         "DRIVER:SEM_WAIT"},
        sys_arch    |-> {"switch.h", "stdio.h+switch.h", "STN:ENTER", "256-KB-stack",
                         "STN:AFTER_PTHREAD_CREATE", "STN:BEFORE_INTRODUCE", "INTRO:ENTER",
                         "32-slots", "child-thread-alive"},
        tcpip       |-> {"switch.h", "stdio.h+switch.h", "TCPIP:THREAD_ENTER",
                         "TCPIP:INIT_ENTER", "TCPIP:BEFORE_DONE", "TCPIP:AFTER_DONE"},
        OSUtils     |-> {"monotonic-now"},
        NodeService |-> {"NodeService-RX", "stdio.h", "field-copy"},
        Node        |-> {"scale-1"},
        Incoming    |-> {"stdio.h", "REJECT"},
        Peer        |-> {"stdio.h", "PEER-RECEIVED"}][f]
  ELSE {}

\* What stays once it is there.
Firm(f) == Basic(f) \cup Marks(f)

\* Passages that nobody writes; a checkout has one copy of each at most.
Spent(f) ==
  IF f = "main" THEN {"5-s", "3-sessions"}
  ELSE IF f = "posix" THEN {"send-log", "recv-log"}
  ELSE IF f = "Constants" THEN {"ping-60-s", "expiration-4-pings", "trial-10-pings"}
  ELSE {}

\* Passages of which one or the other is there: who takes the one puts in the other.
Either(f) ==
  IF f = "Constants" THEN {<<"ping-60-s", "ping-10-s">>}
  ELSE IF f = "OSUtils" THEN {<<"wall-clock-now", "monotonic-now">>}
  ELSE IF f = "NodeService"
       THEN {<<"noCheck-false", "noCheck-true">>, <<"memcpy", "field-copy">>}
  ELSE IF f = "Node" THEN {<<"scale-16", "scale-1">>}
  ELSE IF f = "Peer" THEN {<<"lastReceive", "PEER-RECEIVED">>}
  ELSE {}

\* What patch-lwip-switch-thread.py writes anew each time.
Anew == {"INTRO:ENTER", "32-slots"}

\* The text of file f as these scripts can work with it.
Usual(f, text) ==
  /\ IsABag(text)
  /\ Basic(f) \subseteq Passages(text)
  /\ \A c \in Either(f) : c[1] \in Passages(text) \/ c[2] \in Passages(text)
  /\ \A p \in Spent(f) : CountIn(p, text) <= 1
  /\ f = "sys_arch" => \A p \in Anew : CountIn(p, text) <= 1

\* From t to u, the latter usual too, nothing firm went and nothing spent came back.
Leads(f, t, u) ==
  /\ Usual(f, u)
  /\ Firm(f) \cap Passages(t) \subseteq Passages(u)
  /\ Spent(f) \cap Passages(u) \subseteq Passages(t)

\* The two texts differ only in what may differ.
Same(t, u) == \A p : p \notin Indifferent => CountIn(p, t) = CountIn(p, u)

\* An edit of file f has nothing left to do,
Over(f, e, text) ==
  \/ e.takes \cup e.puts \subseteq Indifferent
  \/ e.unless \cap Firm(f) \cap Passages(text) # {}
  \/ \E p \in Spent(f) \ Passages(text) :
       p \in e.when \/ (p \in e.needs /\ e.excuse \cap Basic(f) # {})

\* or it does again what has been done.
Again(f, e, text) ==
  f = "sys_arch" /\ e.takes \cup e.puts \subseteq Anew /\ Anew \subseteq Passages(text)

\* A section has nothing left to do.
Resting(k, text) ==
  \/ k.marker \cap Firm(k.file) \cap Passages(text) # {}
  \/ \A i \in 1 .. Len(k.edits) :
       Over(k.file, k.edits[i], text) \/ Again(k.file, k.edits[i], text)

\* What lets a script be repeated on the usual checkout: the files whose writing was
\* never cut short are as it expects them, and the sections it has behind it have
\* nothing left to do there.
Mended ==
  lost = Nothing =>
    /\ \A f \in Files \ cut : Usual(f, tree[f])
    /\ \A s \in Rerunnable : \A i \in 1 .. Len(Script[s]) :
         Script[s][i].file \notin cut /\ (outcome[s] = "done" \/ Past(s, i)) =>
           Resting(Script[s][i], tree[Script[s][i].file])

\* A section of any script that keeps its file usual and undoes nothing,
Tame(k) ==
  /\ Formed(k)
  /\ \A text : Usual(k.file, text) /\ ~Aborts(text, k) => Leads(k.file, text, Rewritten(text, k))

\* and one of a script that can be repeated.
Repeats(k) ==
  /\ Tame(k)
  /\ \A text : Usual(k.file, text) =>
       /\ ~Aborts(text, k)
       /\ Resting(k, Rewritten(text, k))
       /\ Resting(k, text) => Same(text, Rewritten(text, k))

-----------------------------------------------------------------------------
(* One edit.                                                               *)

\* An edit that takes and puts nothing it should not,
Mild(f, e) ==
  /\ e.takes \cap Firm(f) \subseteq e.puts
  /\ e.puts \cap Spent(f) = {}
  /\ \A c \in Either(f) : /\ c[1] \in e.takes => c[2] \in e.puts
                          /\ c[2] \in e.takes => c[1] \in e.puts
  /\ f = "sys_arch" => (e.takes \cup e.puts) \cap Anew = {}

\* one that never fails for want of its anchor,
Answered(f, e) ==
  \/ e.needs \subseteq Basic(f)
  \/ e.when = e.needs
  \/ e.excuse \cap Basic(f) # {}
  \/ \E c \in Either(f) : e.needs = {c[1]} /\ c[2] \in e.unless \cup e.excuse

\* and one that leaves nothing to do.
Settles(f, e) ==
  \/ e.takes \cup e.puts \subseteq Indifferent
  \/ /\ e.unless \subseteq Firm(f) /\ e.unless \cap e.puts # {}
     /\ e.when \subseteq Basic(f) /\ e.excuse = {}
  \/ /\ e.needs \subseteq Spent(f) /\ (e.needs \cap e.takes) \ e.puts # {} /\ e.unless = {}
     /\ e.when = e.needs \/ (e.when = {} /\ e.excuse \cap Basic(f) # {})

\* Of two passages that replace each other one stays.
LEMMA EditedHas ==
  ASSUME NEW text, IsABag(text), NEW e, NEW a, NEW b,
         a \in e.takes => b \in e.puts, b \in e.takes => a \in e.puts,
         a \in Passages(text) \/ b \in Passages(text)
  PROVE  a \in Passages(Edited(text, e)) \/ b \in Passages(Edited(text, e))
<1> DEFINE u == Edited(text, e)
<1>1. CASE Skipped(text, e)
  <2>1. u = text
    BY <1>1, EditedCopies
  <2> QED
    BY <2>1
<1>2. ASSUME ~Skipped(text, e), NEW p, p \in Passages(text), NEW q, p \in e.takes => q \in e.puts
      PROVE  p \in Passages(u) \/ q \in Passages(u)
  <2>1. IsABag(u)
    BY EditedCopies
  <2>2. p \notin e.takes => CountIn(p, u) >= CountIn(p, text)
    BY EditedCopies
  <2>3. q \in e.puts => q \in Passages(u)
    BY <1>2, EditedCopies
  <2>4. CountIn(p, text) \in Nat /\ CountIn(p, text) > 0
    BY <1>2, EditedCopies
  <2>5. CountIn(p, u) \in Nat /\ (p \in Passages(u) <=> CountIn(p, u) > 0)
    BY <2>1, EditedCopies
  <2> QED
    BY <1>2, <2>2, <2>3, <2>4, <2>5
<1> HIDE DEF u
<1>3. CASE ~Skipped(text, e)
  <2>1. CASE a \in Passages(text)
    <3>1. a \in Passages(u) \/ b \in Passages(u)
      BY <1>2, <1>3, <2>1
    <3> QED
      BY <3>1 DEF u
  <2>2. CASE b \in Passages(text)
    <3>1. b \in Passages(u) \/ a \in Passages(u)
      BY <1>2, <1>3, <2>2
    <3> QED
      BY <3>1 DEF u
  <2> QED
    BY <2>1, <2>2
<1> QED
  BY <1>1, <1>3 DEF u

\* A text leads to itself, and two such steps to one.
LEMMA LeadsOn ==
  /\ \A f, t : Usual(f, t) => Leads(f, t, t)
  /\ \A f, t, u, v : Leads(f, t, u) /\ Leads(f, u, v) => Leads(f, t, v)
<1>1. ASSUME NEW f, NEW t, Usual(f, t) PROVE Leads(f, t, t)
  <2>1. \A A, B : A \cap B \subseteq B
    OBVIOUS
  <2> QED
    BY <1>1, <2>1, Zenon DEF Leads
<1>2. ASSUME NEW f, NEW t, NEW u, NEW v, Leads(f, t, u), Leads(f, u, v) PROVE Leads(f, t, v)
  BY <1>2 DEF Leads
<1> QED
  BY <1>1, <1>2

\* Where a mild edit leads.
LEMMA MildEdited ==
  ASSUME NEW f, NEW e, Mild(f, e), NEW text, Usual(f, text)
  PROVE  Leads(f, text, Edited(text, e))
<1> DEFINE u == Edited(text, e)
<1>0. IsABag(text)
  BY DEF Usual
<1>1. IsABag(u)
  BY <1>0, EditedCopies
<1>2. ASSUME NEW p, p \in e.takes => p \in e.puts, p \in Passages(text) PROVE p \in Passages(u)
  BY <1>0, <1>2, EditedHas
<1>3. ASSUME NEW p, p \notin e.puts
      PROVE  /\ CountIn(p, text) \in Nat /\ CountIn(p, u) \in Nat
             /\ CountIn(p, u) <= CountIn(p, text)
             /\ p \in Passages(u) => p \in Passages(text)
  <2>1. /\ CountIn(p, text) \in Nat /\ (p \in Passages(text) <=> CountIn(p, text) > 0)
        /\ CountIn(p, u) <= CountIn(p, text)
    BY <1>0, <1>3, EditedCopies
  <2>2. CountIn(p, u) \in Nat /\ (p \in Passages(u) <=> CountIn(p, u) > 0)
    BY <1>1, EditedCopies
  <2> QED
    BY <2>1, <2>2
<1>4. ASSUME NEW c \in Either(f) PROVE c[1] \in Passages(u) \/ c[2] \in Passages(u)
  <2>1. /\ c[1] \in e.takes => c[2] \in e.puts
        /\ c[2] \in e.takes => c[1] \in e.puts
        /\ c[1] \in Passages(text) \/ c[2] \in Passages(text)
    BY DEF Mild, Usual
  <2> QED
    BY <1>0, <2>1, EditedHas
<1> HIDE DEF u
<1>5. Firm(f) \cap Passages(text) \subseteq Passages(u)
  BY <1>2 DEF Mild
<1>6. Basic(f) \subseteq Passages(u)
  BY <1>5 DEF Firm, Usual
<1>7. ASSUME NEW p \in Spent(f)
      PROVE  CountIn(p, u) <= 1 /\ (p \in Passages(u) => p \in Passages(text))
  <2>1. p \notin e.puts /\ CountIn(p, text) <= 1
    BY DEF Mild, Usual
  <2> QED
    BY <1>3, <2>1
<1>8. ASSUME f = "sys_arch", NEW p \in Anew PROVE CountIn(p, u) <= 1
  <2>1. p \notin e.puts /\ CountIn(p, text) <= 1
    BY <1>8 DEF Mild, Usual
  <2> QED
    BY <1>3, <2>1
<1>9. Leads(f, text, u)
  BY <1>1, <1>4, <1>5, <1>6, <1>7, <1>8 DEF Leads, Usual
<1> QED
  BY <1>9 DEF u

\* An edit that is answered does not end the script.
LEMMA NoExit ==
  ASSUME NEW f, NEW e, Answered(f, e), NEW text, Usual(f, text)
  PROVE  ~Exits(text, e)
<1> DEFINE P == Passages(text)
<1>1. SUFFICES ASSUME ~Skipped(text, e) PROVE e.needs \subseteq P
  BY DEF Exits
<1>2. /\ e.when \subseteq P
      /\ e.unless \cap P = {}
      /\ e.excuse \cap P # {} => e.needs \subseteq P
  BY <1>1 DEF Skipped
<1>3. Basic(f) \subseteq P /\ \A c \in Either(f) : c[1] \in P \/ c[2] \in P
  BY DEF Usual
<1> HIDE DEF P
<1>4. CASE e.needs \subseteq Basic(f)
  BY <1>3, <1>4
<1>5. CASE e.when = e.needs
  BY <1>2, <1>5
<1>6. CASE e.excuse \cap Basic(f) # {}
  BY <1>2, <1>3, <1>6
<1>7. CASE \E c \in Either(f) : e.needs = {c[1]} /\ c[2] \in e.unless \cup e.excuse
  <2>1. PICK c \in Either(f) : e.needs = {c[1]} /\ c[2] \in e.unless \cup e.excuse
    BY <1>7
  <2>2. c[1] \in P \/ c[2] \in P
    BY <1>3
  <2>3. CASE c[1] \in P
    BY <2>1, <2>3
  <2>4. CASE c[2] \in P
    BY <1>2, <2>1, <2>4
  <2> QED
    BY <2>2, <2>3, <2>4
<1> QED
  BY <1>4, <1>5, <1>6, <1>7 DEF Answered

\* Once it is made there is nothing left to do for it,
LEMMA EditSettles ==
  ASSUME NEW f, NEW e, Settles(f, e), NEW text, Usual(f, text)
  PROVE  Over(f, e, Edited(text, e))
<1> DEFINE P == Passages(text)
           Q == Passages(Edited(text, e))
<1>0. IsABag(text)
  BY DEF Usual
<1>1. Skipped(text, e) => Q = P
  BY <1>0, EditedCopies
<1>2. \A p : ~Skipped(text, e) /\ p \in e.puts => p \in Q
  BY <1>0, EditedCopies
<1>3. \A p : (~Skipped(text, e) /\ p \in e.takes /\ p \notin e.puts /\ CountIn(p, text) <= 1)
              => p \notin Q
  BY <1>0, EditedCopies
<1>4. Skipped(text, e) => \/ ~(e.when \subseteq P)
                          \/ e.unless \cap P # {}
                          \/ e.excuse \cap P # {} /\ ~(e.needs \subseteq P)
  BY DEF Skipped
<1>5. Basic(f) \subseteq P /\ \A p \in Spent(f) : CountIn(p, text) <= 1
  BY DEF Usual
<1> HIDE DEF P, Q
<1>6. CASE e.takes \cup e.puts \subseteq Indifferent
  BY <1>6 DEF Over
<1>7. CASE /\ e.unless \subseteq Firm(f) /\ e.unless \cap e.puts # {}
           /\ e.when \subseteq Basic(f) /\ e.excuse = {}
  <2>1. e.unless \cap Q # {}
    BY <1>1, <1>2, <1>4, <1>5, <1>7
  <2>2. e.unless \cap Firm(f) \cap Q # {}
    BY <1>7, <2>1
  <2> QED
    BY <2>2 DEF Over, Q
<1>8. CASE /\ e.needs \subseteq Spent(f) /\ (e.needs \cap e.takes) \ e.puts # {} /\ e.unless = {}
           /\ e.when = e.needs \/ (e.when = {} /\ e.excuse \cap Basic(f) # {})
  <2>1. PICK p \in e.needs : p \notin Q
    <3>1. CASE Skipped(text, e)
      BY <1>1, <1>4, <1>8, <3>1
    <3>2. CASE ~Skipped(text, e)
      BY <1>3, <1>5, <1>8, <3>2
    <3> QED
      BY <3>1, <3>2
  <2>2. p \in Spent(f) \ Q /\ (p \in e.when \/ (p \in e.needs /\ e.excuse \cap Basic(f) # {}))
    BY <1>8, <2>1
  <2> QED
    BY <2>2 DEF Over, Q
<1> QED
  BY <1>6, <1>7, <1>8 DEF Settles

\* nor will there be,
LEMMA OverLasts ==
  /\ \A f, e, t, u : Over(f, e, t) /\ Leads(f, t, u) => Over(f, e, u)
  /\ \A f, e, t, u : Again(f, e, t) /\ Leads(f, t, u) => Again(f, e, u)
<1>1. ASSUME NEW f, NEW e, NEW t, NEW u, Over(f, e, t), Leads(f, t, u) PROVE Over(f, e, u)
  BY <1>1 DEF Over, Leads
<1>2. ASSUME NEW f, NEW e, NEW t, NEW u, Again(f, e, t), Leads(f, t, u) PROVE Again(f, e, u)
  <2>1. f = "sys_arch" => Anew \subseteq Firm(f)
    BY DEF Anew, Firm, Marks, Shared
  <2> QED
    BY <1>2, <2>1 DEF Again, Leads
<1> QED
  BY <1>1, <1>2

\* and made again it changes nothing but what may differ.
LEMMA OverSame ==
  ASSUME NEW f, NEW e, NEW text, Usual(f, text), Over(f, e, text)
  PROVE  Same(text, Edited(text, e))
<1>0. IsABag(text)
  BY DEF Usual
<1>1. CASE e.takes \cup e.puts \subseteq Indifferent
  <2>1. ASSUME NEW p, p \notin Indifferent PROVE CountIn(p, text) = CountIn(p, Edited(text, e))
    <3>1. p \notin e.takes /\ p \notin e.puts
      BY <1>1, <2>1
    <3>2. IsABag(Edited(text, e)) /\ CountIn(p, text) \in Nat
          /\ CountIn(p, Edited(text, e)) <= CountIn(p, text)
          /\ CountIn(p, Edited(text, e)) >= CountIn(p, text)
      BY <1>0, <3>1, EditedCopies
    <3>3. CountIn(p, Edited(text, e)) \in Nat
      BY <3>2, EditedCopies
    <3> QED
      BY <3>2, <3>3
  <2> QED
    BY <2>1 DEF Same
<1>2. ASSUME Skipped(text, e) PROVE Same(text, Edited(text, e))
  <2>1. Edited(text, e) = text
    BY <1>0, <1>2, EditedCopies
  <2> QED
    BY <2>1 DEF Same
<1>3. CASE e.unless \cap Firm(f) \cap Passages(text) # {}
  <2>1. Skipped(text, e)
    BY <1>3 DEF Skipped
  <2> QED
    BY <1>2, <2>1
<1>4. CASE \E p \in Spent(f) \ Passages(text) :
             p \in e.when \/ (p \in e.needs /\ e.excuse \cap Basic(f) # {})
  <2>1. Skipped(text, e)
    BY <1>4 DEF Skipped, Usual
  <2> QED
    BY <1>2, <2>1
<1> QED
  BY <1>1, <1>3, <1>4 DEF Over

-----------------------------------------------------------------------------
(* A section.                                                              *)

\* The drafts between mild edits lead one to the other.
LEMMA DraftsLead ==
  ASSUME NEW f, NEW text, NEW s, Len(s.edits) \in Nat,
         NEW j \in 0 .. Len(s.edits), NEW m \in j .. Len(s.edits),
         \A i \in j + 1 .. m : Mild(f, s.edits[i]),
         Usual(f, Drafts(text, s)[j])
  PROVE  \A i \in j .. m : Leads(f, Drafts(text, s)[j], Drafts(text, s)[i])
<1> DEFINE n == Len(s.edits)
           D == Drafts(text, s)
           S == {i \in 0 .. m : i >= j => Leads(f, D[j], D[i])}
<1>1. \A i \in 1 .. n : D[i] = Edited(D[i - 1], s.edits[i])
  BY DraftSteps
<1>2. Usual(f, D[j])
  OBVIOUS
<1> HIDE DEF D
<1>3. Leads(f, D[j], D[j])
  BY <1>2, LeadsOn
<1>4. 0 \in S
  BY <1>3
<1>5. ASSUME NEW i \in 1 .. m, i - 1 \in S PROVE i \in S
  <2>1. CASE i <= j
    BY <1>3, <2>1
  <2>2. CASE i > j
    <3>1. Leads(f, D[j], D[i - 1]) /\ Mild(f, s.edits[i])
      BY <1>5, <2>2
    <3>2. Usual(f, D[i - 1])
      BY <3>1 DEF Leads
    <3>3. Leads(f, D[i - 1], Edited(D[i - 1], s.edits[i]))
      BY <3>1, <3>2, MildEdited
    <3>4. D[i] = Edited(D[i - 1], s.edits[i])
      BY <1>1
    <3>5. Leads(f, D[j], D[i])
      BY <3>1, <3>3, <3>4, LeadsOn
    <3> QED
      BY <3>5
  <2> QED
    BY <2>1, <2>2
<1>6. m \in Nat
  OBVIOUS
<1> HIDE DEF S
<1>7. \A i \in 0 .. m : i \in S
  BY <1>4, <1>5, <1>6, UpTo
<1>8. \A i \in j .. m : Leads(f, D[j], D[i])
  BY <1>7 DEF S
<1> QED
  BY <1>8 DEF D

\* A section of mild edits,
Gentle(k) == Formed(k) /\ \A i \in 1 .. Len(k.edits) : Mild(k.file, k.edits[i])

\* one that goes through,
Works(k) ==
  /\ k.find \subseteq Basic(k.file)
  /\ \A i \in 1 .. Len(k.edits) :
       \/ Answered(k.file, k.edits[i])
       \/ i = 1 /\ \E c \in Either(k.file) : k.edits[1].needs = {c[1]} /\ c[2] \in k.marker

\* and one that rests when it has been made.
Leaves(k) ==
  /\ k.find \subseteq Basic(k.file)
  /\ \/ k.marker = {} /\ \A i \in 1 .. Len(k.edits) : Settles(k.file, k.edits[i])
     \/ /\ k.marker \subseteq Firm(k.file)
        /\ \E i \in 1 .. Len(k.edits) :
             /\ k.edits[i].when = {} /\ k.edits[i].unless = {} /\ k.edits[i].excuse = {}
             /\ k.edits[i].puts \cap k.marker # {}

\* A section of mild edits leads from draft to draft.
LEMMA GentleDrafts ==
  ASSUME NEW k, Gentle(k), NEW text, Usual(k.file, text)
  PROVE  /\ \A i \in 0 .. Len(k.edits) : Leads(k.file, text, Drafts(text, k)[i])
         /\ \A j \in 0 .. Len(k.edits) : \A i \in j .. Len(k.edits) :
              Leads(k.file, Drafts(text, k)[j], Drafts(text, k)[i])
<1> DEFINE n == Len(k.edits)
           D == Drafts(text, k)
           f == k.file
<1>1. n \in Nat /\ \A i \in 1 .. n : Mild(f, k.edits[i])
  BY DEF Gentle, Formed
<1>2. D[0] = text
  BY <1>1, DraftSteps
<1>3. \A i \in 0 .. n : Leads(f, D[0], D[i])
  <2>1. 0 \in 0 .. n /\ n \in 0 .. n /\ Usual(f, D[0])
    BY <1>1, <1>2
  <2>2. \A i \in 0 + 1 .. n : Mild(f, k.edits[i])
    BY <1>1
  <2> QED
    BY <1>1, <2>1, <2>2, DraftsLead
<1>4. ASSUME NEW j \in 0 .. n PROVE \A i \in j .. n : Leads(f, D[j], D[i])
  <2>1. n \in j .. n /\ Usual(f, D[j])
    BY <1>1, <1>3, <1>4 DEF Leads
  <2>2. \A i \in j + 1 .. n : Mild(f, k.edits[i])
    BY <1>1
  <2> QED
    BY <1>1, <2>1, <2>2, DraftsLead
<1> HIDE DEF D
<1> QED
  BY <1>2, <1>3, <1>4 DEF D

\* It keeps its file usual and undoes nothing,
LEMMA GentleTame == ASSUME NEW k, Gentle(k) PROVE Tame(k)
<1>1. Formed(k)
  BY DEF Gentle
<1>2. ASSUME NEW text, Usual(k.file, text) PROVE Leads(k.file, text, Rewritten(text, k))
  <2>1. Leads(k.file, text, text)
    BY <1>2, LeadsOn
  <2>2. Len(k.edits) \in 0 .. Len(k.edits)
    BY <1>1 DEF Formed
  <2>3. Leads(k.file, text, Drafts(text, k)[Len(k.edits)])
    BY <1>2, <2>2, GentleDrafts
  <2> QED
    BY <2>1, <2>3, Zenon DEF Rewritten
<1> QED
  BY <1>1, <1>2 DEF Tame

\* as does any section in a file that those scripts leave alone.
LEMMA ElsewhereTame == ASSUME NEW k, Formed(k), k.file \notin Shared PROVE Tame(k)
<1>1. Basic(k.file) = {} /\ Marks(k.file) = {} /\ k.file # "sys_arch"
  BY DEF Basic, Marks, Shared
<1>2. Spent(k.file) = {} /\ Either(k.file) = {}
  BY DEF Spent, Either, Shared
<1>3. \A e : Mild(k.file, e)
  BY <1>1, <1>2 DEF Mild, Firm
<1> QED
  BY <1>3, GentleTame DEF Gentle

\* It goes through,
LEMMA WorksThrough ==
  ASSUME NEW k, Gentle(k), Works(k), NEW text, Usual(k.file, text)
  PROVE  ~Aborts(text, k)
<1> DEFINE n == Len(k.edits)
           D == Drafts(text, k)
           f == k.file
<1>1. n \in Nat
  BY DEF Gentle, Formed
<1>2. Found(text, k)
  BY DEF Found, Works, Usual
<1>3. SUFFICES ASSUME ~LeftAlone(text, k), NEW i \in 1 .. n PROVE ~Exits(D[i - 1], k.edits[i])
  BY <1>2 DEF Aborts
<1>4. Leads(f, text, D[i - 1]) /\ D[0] = text
  BY <1>1, GentleDrafts, DraftSteps
<1>5. k.marker \cap Passages(text) = {}
  BY <1>3 DEF LeftAlone
<1> HIDE DEF D
<1>6. Usual(f, D[i - 1])
  BY <1>4 DEF Leads
<1>7. CASE Answered(f, k.edits[i])
  BY <1>6, <1>7, NoExit
<1>8. CASE i = 1 /\ \E c \in Either(f) : k.edits[1].needs = {c[1]} /\ c[2] \in k.marker
  <2>1. PICK c \in Either(f) : k.edits[1].needs = {c[1]} /\ c[2] \in k.marker
    BY <1>8
  <2>2. c[1] \in Passages(text)
    BY <1>5, <2>1 DEF Usual
  <2>3. k.edits[i].needs \subseteq Passages(D[i - 1])
    BY <1>4, <1>8, <2>1, <2>2
  <2> QED
    BY <2>3 DEF Exits
<1> QED
  BY <1>7, <1>8 DEF Works

\* has nothing left to do,
LEMMA RestsAfter ==
  ASSUME NEW k, Gentle(k), Leaves(k), NEW text, Usual(k.file, text)
  PROVE  Resting(k, Rewritten(text, k))
<1> DEFINE n == Len(k.edits)
           D == Drafts(text, k)
           f == k.file
           R == Rewritten(text, k)
<1>1. n \in Nat
  BY DEF Gentle, Formed
<1>2. Found(text, k)
  BY DEF Found, Leaves, Usual
<1>3. R = IF LeftAlone(text, k) THEN text ELSE D[n]
  BY DEF Rewritten
<1>4. LeftAlone(text, k) <=> k.marker \cap Passages(text) # {}
  BY <1>2 DEF LeftAlone
<1>5. \A i \in 1 .. n : /\ Usual(f, D[i - 1]) /\ D[i] = Edited(D[i - 1], k.edits[i])
                        /\ Leads(f, D[i], D[n])
  <2>1. ASSUME NEW i \in 1 .. n
        PROVE  /\ Usual(f, D[i - 1]) /\ D[i] = Edited(D[i - 1], k.edits[i])
               /\ Leads(f, D[i], D[n])
    <3>1. i - 1 \in 0 .. n /\ i \in 0 .. n /\ n \in i .. n
      BY <1>1, <2>1
    <3>2. Leads(f, text, D[i - 1]) /\ Leads(f, D[i], D[n])
      BY <3>1, GentleDrafts
    <3>3. D[i] = Edited(D[i - 1], k.edits[i])
      BY <1>1, DraftSteps
    <3> QED
      BY <3>2, <3>3 DEF Leads
  <2> QED
    BY <2>1
<1> HIDE DEF D, R
<1>6. CASE k.marker = {} /\ \A i \in 1 .. n : Settles(f, k.edits[i])
  <2>1. R = D[n]
    BY <1>3, <1>4, <1>6
  <2>2. ASSUME NEW i \in 1 .. n PROVE Over(f, k.edits[i], D[n])
    <3>1. Usual(f, D[i - 1]) /\ D[i] = Edited(D[i - 1], k.edits[i]) /\ Leads(f, D[i], D[n])
      BY <1>5
    <3>2. Over(f, k.edits[i], D[i])
      BY <1>6, <3>1, EditSettles
    <3> QED
      BY <3>1, <3>2, OverLasts
  <2> QED
    BY <2>1, <2>2 DEF Resting, R
<1>7. CASE /\ k.marker \subseteq Firm(f)
           /\ \E i \in 1 .. n :
                /\ k.edits[i].when = {} /\ k.edits[i].unless = {} /\ k.edits[i].excuse = {}
                /\ k.edits[i].puts \cap k.marker # {}
  <2>1. CASE LeftAlone(text, k)
    <3>1. R = text
      BY <1>3, <2>1
    <3> QED
      BY <1>4, <1>7, <2>1, <3>1 DEF Resting, R
  <2>2. CASE ~LeftAlone(text, k)
    <3>1. PICK i \in 1 .. n :
            /\ k.edits[i].when = {} /\ k.edits[i].unless = {} /\ k.edits[i].excuse = {}
            /\ k.edits[i].puts \cap k.marker # {}
      BY <1>7
    <3>2. PICK p \in k.edits[i].puts : p \in k.marker
      BY <3>1
    <3>3. ~Skipped(D[i - 1], k.edits[i])
      BY <3>1 DEF Skipped
    <3>4. IsABag(D[i - 1])
      BY <1>5 DEF Usual
    <3>5. p \in Passages(D[i])
      BY <1>5, <3>2, <3>3, <3>4, EditedCopies
    <3>6. p \in Firm(f) /\ Leads(f, D[i], D[n])
      BY <1>5, <1>7, <3>2
    <3>7. p \in Passages(D[n])
      BY <3>5, <3>6 DEF Leads
    <3>8. R = D[n]
      BY <1>3, <2>2
    <3> QED
      BY <3>2, <3>6, <3>7, <3>8 DEF Resting, R
  <2> QED
    BY <2>1, <2>2
<1> QED
  BY <1>6, <1>7 DEF Leaves

\* and changes nothing the next time.
LEMMA DraftsSame ==
  ASSUME NEW f, NEW text, NEW s, Len(s.edits) \in Nat,
         NEW j \in 0 .. Len(s.edits), NEW m \in j .. Len(s.edits),
         \A i \in j + 1 .. m : /\ Mild(f, s.edits[i])
                               /\ Over(f, s.edits[i], Drafts(text, s)[j]),
         Usual(f, Drafts(text, s)[j])
  PROVE  \A i \in j .. m : Same(Drafts(text, s)[j], Drafts(text, s)[i])
<1> DEFINE n == Len(s.edits)
           D == Drafts(text, s)
           S == {i \in 0 .. m : i >= j => Same(D[j], D[i])}
<1>1. \A i \in 1 .. n : D[i] = Edited(D[i - 1], s.edits[i])
  BY DraftSteps
<1>2. \A i \in j .. m : Leads(f, D[j], D[i])
  BY DraftsLead
<1>3. Same(D[j], D[j]) /\ m \in Nat
  BY DEF Same
<1>4. \A i \in j + 1 .. m : Over(f, s.edits[i], D[j])
  OBVIOUS
<1> HIDE DEF D
<1>5. 0 \in S
  BY <1>3
<1>6. ASSUME NEW i \in 1 .. m, i - 1 \in S PROVE i \in S
  <2>1. CASE i <= j
    BY <1>3, <2>1
  <2>2. CASE i > j
    <3>1. Same(D[j], D[i - 1]) /\ Leads(f, D[j], D[i - 1]) /\ D[i] = Edited(D[i - 1], s.edits[i])
      BY <1>1, <1>2, <1>6, <2>2
    <3>2. Over(f, s.edits[i], D[i - 1])
      BY <1>4, <2>2, <3>1, OverLasts
    <3>3. Usual(f, D[i - 1])
      BY <3>1 DEF Leads
    <3>4. Same(D[i - 1], D[i])
      BY <3>1, <3>2, <3>3, OverSame
    <3>5. Same(D[j], D[i])
      BY <3>1, <3>4 DEF Same
    <3> QED
      BY <3>5
  <2> QED
    BY <2>1, <2>2
<1> HIDE DEF S
<1>7. \A i \in 0 .. m : i \in S
  BY <1>3, <1>5, <1>6, UpTo
<1>8. \A i \in j .. m : Same(D[j], D[i])
  BY <1>7 DEF S
<1> QED
  BY <1>8 DEF D

\* The same of the section as a whole.
LEMMA SameAgain ==
  ASSUME NEW k, Gentle(k), NEW text, Usual(k.file, text), Resting(k, text)
  PROVE  Same(text, Rewritten(text, k))
<1> DEFINE n == Len(k.edits)
           D == Drafts(text, k)
           f == k.file
<1>1. n \in Nat /\ \A i \in 1 .. n : Mild(f, k.edits[i])
  BY DEF Gentle, Formed
<1>2. CASE LeftAlone(text, k)
  BY <1>2 DEF Rewritten, Same
<1>3. ASSUME ~LeftAlone(text, k) PROVE Same(text, Rewritten(text, k))
  <2>1. k.marker \cap Passages(text) = {}
    BY <1>3 DEF LeftAlone
  <2>2. ASSUME NEW i \in 1 .. n PROVE Over(f, k.edits[i], text)
    <3>1. Over(f, k.edits[i], text) \/ Again(f, k.edits[i], text)
      BY <2>1 DEF Resting
    <3>2. ASSUME Again(f, k.edits[i], text) PROVE k.edits[i].takes \cup k.edits[i].puts \subseteq {}
      BY <1>1, <3>2 DEF Again, Mild
    <3> QED
      BY <3>1, <3>2 DEF Over
  <2>3. D[0] = text
    BY <1>1, DraftSteps
  <2>4. 0 \in 0 .. n /\ n \in 0 .. n /\ 0 + 1 = 1 /\ Usual(f, D[0])
    BY <1>1, <2>3
  <2>5. \A i \in 0 .. n : Same(D[0], D[i])
    BY <1>1, <2>2, <2>3, <2>4, DraftsSame
  <2>6. Same(text, D[n])
    BY <2>3, <2>4, <2>5
  <2> QED
    BY <1>3, <2>6, Zenon DEF Rewritten
<1> QED
  BY <1>2, <1>3

\* So it can be repeated.
LEMMA GentleRepeats ==
  ASSUME NEW k, Gentle(k), Works(k), Leaves(k)
  PROVE  Repeats(k)
BY GentleTame, WorksThrough, RestsAfter, SameAgain DEF Repeats

\* An edit that is mild, never fails, and leaves nothing to do;
Fine(f, e) == Mild(f, e) /\ Answered(f, e) /\ Settles(f, e)

\* such as one that puts a mark next to what the checkout has, and looks for the mark first.
LEMMA MarkFine ==
  ASSUME NEW f, NEW e, NEW mark, mark \in Firm(f), mark \notin Spent(f), mark \notin Anew,
         e.takes = {}, e.puts = {mark}, mark \in e.unless, e.unless \subseteq Firm(f),
         e.needs \subseteq Basic(f), e.when \subseteq Basic(f), e.excuse = {}
  PROVE  Fine(f, e)
BY DEF Fine, Mild, Answered, Settles

\* or one that only looks.
LEMMA LookFine ==
  ASSUME NEW f, NEW p, p \in Basic(f)
  PROVE  Fine(f, Need(p))
BY DEF Fine, Mild, Answered, Settles, Need, Edit

\* or one that swaps a passage for the other, unless that one is there already.
LEMMA SwapFine ==
  ASSUME NEW f, f # "sys_arch", NEW e, NEW a, NEW b, a # b, <<a, b>> \in Either(f),
         \A c \in Either(f) : a \in {c[1], c[2]} => c = <<a, b>>,
         a \notin Firm(f), b \notin Spent(f),
         e.needs = {a}, e.takes = {a}, e.puts = {b}, e.when = {},
         \/ {a, b} \subseteq Indifferent /\ b \in e.unless \cup e.excuse
         \/ b \in Firm(f) /\ e.unless = {b} /\ e.excuse = {}
  PROVE  Fine(f, e)
<1>1. \A c \in Either(f) : (c[1] = a => c[2] = b) /\ c[2] # a
  OBVIOUS
<1>2. Mild(f, e)
  BY <1>1 DEF Mild
<1>3. Answered(f, e)
  <2>1. <<a, b>>[1] = a /\ <<a, b>>[2] = b
    OBVIOUS
  <2> QED
    BY <2>1 DEF Answered
<1>4. Settles(f, e)
  BY DEF Settles
<1> QED
  BY <1>2, <1>3, <1>4 DEF Fine

\* A section of such edits can be repeated.
LEMMA FineRepeats ==
  ASSUME NEW k, Formed(k), k.find \subseteq Basic(k.file), k.marker = {},
         \A i \in 1 .. Len(k.edits) : Fine(k.file, k.edits[i])
  PROVE  Repeats(k)
<1>1. Gentle(k) /\ Works(k) /\ Leaves(k)
  BY DEF Gentle, Works, Leaves, Fine
<1> QED
  BY <1>1, GentleRepeats

\* The sections of patch-lwip-switch-thread.py but for the longest,
LEMMA LwipRepeats ==
  /\ Repeats(LwipDriver)
  /\ Repeats(LwipTcpip)
  /\ Repeats(LwipProbe)
  /\ Repeats(LwipTimings)
  /\ Repeats(LwipClock)
  /\ Repeats(LwipByteOrder)
<1> USE FilesAre
   DEF Section, IfFound, Replace, Edit, Finding, Insert, Need, Unless, OrDone, MayLack, Marked,
       Trace, wrap_first_call, Switch_h, add_stdio
<1>1. Repeats(LwipDriver)
  <2>1. Gentle(LwipDriver)
    BY DEF LwipDriver, Gentle, Formed, Mild, Firm, Basic, Marks, Shared, Spent, Either, Anew
  <2>2. Works(LwipDriver)
    BY DEF LwipDriver, Works, Answered, Basic, Shared, Either
  <2>3. Leaves(LwipDriver)
    BY DEF LwipDriver, Leaves, Settles, Firm, Basic, Marks, Shared, Spent, Indifferent
  <2> QED
    BY <2>1, <2>2, <2>3, GentleRepeats
<1>3. Repeats(LwipProbe)
  <2>1. Gentle(LwipProbe)
    BY DEF LwipProbe, Gentle, Formed, Mild, Firm, Basic, Marks, Shared, Spent, Either, Anew
  <2>2. Works(LwipProbe)
    BY DEF LwipProbe, Works, Answered, Basic, Shared, Either
  <2>3. Leaves(LwipProbe)
    BY DEF LwipProbe, Leaves, Settles, Firm, Basic, Marks, Shared, Spent, Indifferent
  <2> QED
    BY <2>1, <2>2, <2>3, GentleRepeats
<1>6. Repeats(LwipByteOrder)
  <2>1. Gentle(LwipByteOrder)
    BY DEF LwipByteOrder, Gentle, Formed, Mild, Firm, Basic, Marks, Shared, Spent, Either, Anew
  <2>2. Works(LwipByteOrder)
    BY DEF LwipByteOrder, Works, Answered, Basic, Shared, Either
  <2>3. Leaves(LwipByteOrder)
    BY DEF LwipByteOrder, Leaves, Settles, Firm, Basic, Marks, Shared, Spent, Indifferent
  <2> QED
    BY <2>1, <2>2, <2>3, GentleRepeats
<1>2. Repeats(LwipTcpip)
  <2> DEFINE es == LwipTcpip.edits
  <2>1. /\ Formed(LwipTcpip) /\ LwipTcpip.file = "tcpip" /\ LwipTcpip.marker = {} /\ Len(es) = 7
        /\ LwipTcpip.find \subseteq Basic("tcpip")
    BY DEF LwipTcpip, Formed, Basic, Shared
  <2>2. /\ es[1] = Switch_h("opt.h") /\ es[2] = Need("tcpip_thread-begin")
        /\ es[3] = Trace("TCPIP:THREAD_ENTER") /\ es[4] = Need("tcpip_init-begin")
        /\ es[5] = Trace("TCPIP:INIT_ENTER")
        /\ es[6] = wrap_first_call("if-tcpip_init_done", "TCPIP:BEFORE_DONE")
        /\ es[7] = wrap_first_call("tcpip_init_done(", "TCPIP:AFTER_DONE")
    BY DEF LwipTcpip
  <2>3. {"opt.h", "tcpip_thread-begin", "tcpip_init-begin", "if-tcpip_init_done",
         "tcpip_init_done("} \subseteq Basic("tcpip")
    BY DEF Basic, Shared
  <2>4. {"switch.h", "stdio.h+switch.h", "TCPIP:THREAD_ENTER", "TCPIP:INIT_ENTER",
         "TCPIP:BEFORE_DONE", "TCPIP:AFTER_DONE"} \subseteq Firm("tcpip")
    BY DEF Firm, Marks, Shared
  <2>5. Spent("tcpip") = {}
    BY DEF Spent
  <2> HIDE DEF es
  <2>6. Fine("tcpip", es[1])
    <3>1. /\ es[1].takes = {} /\ es[1].puts = {"stdio.h+switch.h"} /\ es[1].excuse = {}
          /\ es[1].unless = {"switch.h", "stdio.h+switch.h"}
          /\ es[1].needs = {"opt.h"} /\ es[1].when = {"opt.h"}
      BY <2>2
    <3> QED
      BY <2>3, <2>4, <2>5, <3>1, MarkFine DEF Anew
  <2>7. Fine("tcpip", es[2]) /\ Fine("tcpip", es[4])
    BY <2>2, <2>3, LookFine
  <2>8. Fine("tcpip", es[3]) /\ Fine("tcpip", es[5])
    <3>1. /\ es[3].takes = {} /\ es[3].puts = {"TCPIP:THREAD_ENTER"} /\ es[3].excuse = {}
          /\ es[3].unless = {"TCPIP:THREAD_ENTER"} /\ es[3].needs = {} /\ es[3].when = {}
      BY <2>2
    <3>2. /\ es[5].takes = {} /\ es[5].puts = {"TCPIP:INIT_ENTER"} /\ es[5].excuse = {}
          /\ es[5].unless = {"TCPIP:INIT_ENTER"} /\ es[5].needs = {} /\ es[5].when = {}
      BY <2>2
    <3>3. Fine("tcpip", es[3])
      BY <2>4, <2>5, <3>1, MarkFine DEF Anew
    <3>4. Fine("tcpip", es[5])
      BY <2>4, <2>5, <3>2, MarkFine DEF Anew
    <3> QED
      BY <3>3, <3>4
  <2>9. Fine("tcpip", es[6]) /\ Fine("tcpip", es[7])
    <3>1. /\ es[6].takes = {} /\ es[6].puts = {"TCPIP:BEFORE_DONE"} /\ es[6].excuse = {}
          /\ es[6].unless = {"TCPIP:BEFORE_DONE"} /\ es[6].needs = {"if-tcpip_init_done"}
          /\ es[6].when = {}
      BY <2>2
    <3>2. /\ es[7].takes = {} /\ es[7].puts = {"TCPIP:AFTER_DONE"} /\ es[7].excuse = {}
          /\ es[7].unless = {"TCPIP:AFTER_DONE"} /\ es[7].needs = {"tcpip_init_done("}
          /\ es[7].when = {}
      BY <2>2
    <3>3. Fine("tcpip", es[6])
      BY <2>3, <2>4, <2>5, <3>1, MarkFine DEF Anew
    <3>4. Fine("tcpip", es[7])
      BY <2>3, <2>4, <2>5, <3>2, MarkFine DEF Anew
    <3> QED
      BY <3>3, <3>4
  <2>10. \A i \in 1 .. 7 : Fine("tcpip", es[i])
    BY <2>6, <2>7, <2>8, <2>9
  <2> QED
    BY <2>1, <2>10, FineRepeats DEF es
<1>4. Repeats(LwipTimings)
  <2> DEFINE e == LwipTimings.edits[1]
  <2>1. /\ Formed(LwipTimings) /\ LwipTimings.file = "main" /\ LwipTimings.marker = {}
        /\ LwipTimings.find = {} /\ Len(LwipTimings.edits) = 1
        /\ e.needs = {"5-s"} /\ e.takes = {"5-s"} /\ e.puts = {"3-s"} /\ e.when = {"5-s"}
        /\ e.unless = {} /\ e.excuse = {}
    BY DEF LwipTimings, Formed
  <2> HIDE DEF e
  <2>2. /\ Spent("main") = {"5-s", "3-sessions"} /\ Firm("main") = {"16-sessions"}
        /\ Either("main") = {}
    BY DEF Spent, Firm, Basic, Marks, Shared, Either
  <2>3. Fine("main", e)
    BY <2>1, <2>2 DEF Fine, Mild, Answered, Settles
  <2> QED
    BY <2>1, <2>3, FineRepeats DEF e
<1>5. Repeats(LwipClock)
  <2>1. Gentle(LwipClock)
    BY DEF LwipClock, Gentle, Formed, Mild, Firm, Basic, Marks, Shared, Spent, Either, Anew
  <2>2. Works(LwipClock)
    <3> DEFINE es == LwipClock.edits
    <3>1. /\ LwipClock.file = "OSUtils" /\ LwipClock.marker = {"monotonic-now"}
          /\ LwipClock.find = {"exists"} /\ Len(es) = 2
          /\ es[1].needs = {"wall-clock-now"} /\ es[2].needs = {}
      BY DEF LwipClock
    <3> HIDE DEF es
    <3>2. /\ "exists" \in Basic("OSUtils")
          /\ <<"wall-clock-now", "monotonic-now">> \in Either("OSUtils")
      BY DEF Basic, Shared, Either
    <3> QED
      BY <3>1, <3>2 DEF Works, Answered, es
  <2>3. Leaves(LwipClock)
    BY DEF LwipClock, Leaves, Settles, Firm, Basic, Marks, Shared, Spent, Indifferent
  <2> QED
    BY <2>1, <2>2, <2>3, GentleRepeats
<1> HIDE DEF Repeats
<1> QED
  BY <1>1, <1>2, <1>3, <1>4, <1>5, <1>6

\* and those of the shorter scripts but for the ping period.
LEMMA OtherRepeats ==
  /\ Repeats(PhyHandoff)
  /\ Repeats(PhyReceive)
  /\ Repeats(RestoreChecksum[1])
  /\ Repeats(PatchPeerInfo[1])
  /\ Repeats(KeepaliveScale)
  /\ Repeats(AuthFilesExist[1])
  /\ Repeats(AuthFilesExist[2])
  /\ Repeats(AuthIncoming)
  /\ Repeats(AuthPeer)
  /\ Repeats(HotPathLogs)
  /\ Repeats(HotPathSessions)
<1> USE FilesAre
   DEF Section, IfFound, Replace, Edit, Finding, Insert, Need, Unless, OrDone, MayLack, Marked,
       Trace, wrap_first_call, Switch_h, add_stdio
<1>1. Repeats(PhyHandoff)
  <2> DEFINE es == PhyHandoff.edits
             f == "NodeService"
  <2>1. /\ Formed(PhyHandoff) /\ PhyHandoff.file = f /\ PhyHandoff.marker = {} /\ Len(es) = 3
        /\ PhyHandoff.find = {"exists"}
    BY DEF PhyHandoff, Formed
  <2>2. /\ es[1] = IfFound(Replace("noCheck-true", "noCheck-false"))
        /\ es[2] = Unless("NodeService-RX",
                          Unless("stdio.h", IfFound(Insert("stdlib.h", "stdio.h"))))
        /\ es[3] = Unless("NodeService-RX", Insert("phyOnDatagram", "NodeService-RX"))
    BY DEF PhyHandoff
  <2> HIDE DEF es
  <2>3. /\ {"exists", "stdlib.h", "phyOnDatagram"} \subseteq Basic(f)
        /\ {"NodeService-RX", "stdio.h"} \subseteq Firm(f)
        /\ "noCheck-true" \notin Firm(f)
    BY DEF Basic, Firm, Marks, Shared
  <2>4. /\ Spent(f) = {}
        /\ Either(f) = {<<"noCheck-false", "noCheck-true">>, <<"memcpy", "field-copy">>}
    BY DEF Spent, Either
  <2> HIDE DEF f
  <2>5. Fine(f, es[1])
    <3>1. Mild(f, es[1])
      BY <2>2, <2>3, <2>4 DEF Mild, f
    <3>2. Answered(f, es[1]) /\ Settles(f, es[1])
      BY <2>2 DEF Answered, Settles, Indifferent
    <3> QED
      BY <3>1, <3>2 DEF Fine
  <2>6. Fine(f, es[2])
    <3>1. /\ es[2].takes = {} /\ es[2].puts = {"stdio.h"} /\ es[2].excuse = {}
          /\ es[2].unless = {"NodeService-RX", "stdio.h"}
          /\ es[2].needs = {"stdlib.h"} /\ es[2].when = {"stdlib.h"}
      BY <2>2
    <3> QED
      BY <2>3, <2>4, <3>1, MarkFine DEF Anew
  <2>7. Fine(f, es[3])
    BY <2>2, <2>3, <2>4, MarkFine DEF Anew
  <2>8. \A i \in 1 .. 3 : Fine(f, es[i])
    BY <2>5, <2>6, <2>7
  <2>9. PhyHandoff.find \subseteq Basic(f)
    BY <2>1, <2>3
  <2> QED
    BY <2>1, <2>8, <2>9, FineRepeats DEF es
<1>2. Repeats(PhyReceive)
  <2>1. Gentle(PhyReceive)
    BY DEF PhyReceive, Gentle, Formed, Mild, Firm, Basic, Marks, Shared, Spent, Either, Anew
  <2>2. Works(PhyReceive)
    BY DEF PhyReceive, Works, Answered, Basic, Shared, Either
  <2>3. Leaves(PhyReceive)
    BY DEF PhyReceive, Leaves, Settles, Firm, Basic, Marks, Shared, Spent, Indifferent
  <2> QED
    BY <2>1, <2>2, <2>3, GentleRepeats
<1>3. Repeats(RestoreChecksum[1])
  <2> DEFINE e == RestoreChecksum[1].edits[1]
  <2>1. /\ Formed(RestoreChecksum[1]) /\ RestoreChecksum[1].file = "NodeService"
        /\ RestoreChecksum[1].marker = {} /\ RestoreChecksum[1].find = {}
        /\ Len(RestoreChecksum[1].edits) = 1
        /\ e.needs = {"noCheck-false"} /\ e.takes = {"noCheck-false"} /\ e.puts = {"noCheck-true"}
        /\ e.when = {} /\ e.unless = {} /\ e.excuse = {"noCheck-true"}
    BY DEF RestoreChecksum, Formed
  <2> HIDE DEF e
  <2>2. /\ Spent("NodeService") = {} /\ "noCheck-false" \notin Firm("NodeService")
        /\ Either("NodeService") = {<<"noCheck-false", "noCheck-true">>, <<"memcpy", "field-copy">>}
    BY DEF Spent, Firm, Basic, Marks, Shared, Either
  <2>3. Fine("NodeService", e)
    <3>1. \A c \in Either("NodeService") :
            "noCheck-false" \in {c[1], c[2]} => c = <<"noCheck-false", "noCheck-true">>
      BY <2>2
    <3>2. /\ {"noCheck-false", "noCheck-true"} \subseteq Indifferent
          /\ <<"noCheck-false", "noCheck-true">> \in Either("NodeService")
      BY <2>2 DEF Indifferent
    <3> QED
      BY <2>1, <2>2, <3>1, <3>2, SwapFine
  <2> QED
    BY <2>1, <2>3, FineRepeats DEF e
<1>4. Repeats(PatchPeerInfo[1])
  <2> DEFINE k == PatchPeerInfo[1]
             e == k.edits[1]
             f == "NodeService"
  <2>1. /\ Formed(k) /\ k.file = f /\ k.marker = {"field-copy"} /\ k.find = {} /\ Len(k.edits) = 1
        /\ e.needs = {"memcpy"} /\ e.takes = {"memcpy"} /\ e.puts = {"field-copy"}
        /\ e.when = {} /\ e.unless = {} /\ e.excuse = {}
    BY DEF PatchPeerInfo, Formed
  <2>2. /\ Spent(f) = {} /\ "field-copy" \in Firm(f) /\ "memcpy" \notin Firm(f)
        /\ Either(f) = {<<"noCheck-false", "noCheck-true">>, <<"memcpy", "field-copy">>}
    BY DEF Spent, Firm, Basic, Marks, Shared, Either
  <2> HIDE DEF k, f
  <2>3. Gentle(k)
    BY <2>1, <2>2 DEF Gentle, Mild, f
  <2>4. Works(k)
    BY <2>1, <2>2 DEF Works
  <2>5. Leaves(k)
    BY <2>1, <2>2 DEF Leaves
  <2> QED
    BY <2>3, <2>4, <2>5, GentleRepeats DEF k
<1>5. Repeats(KeepaliveScale)
  <2> DEFINE e == KeepaliveScale.edits[1]
  <2>1. /\ Formed(KeepaliveScale) /\ KeepaliveScale.file = "Node" /\ KeepaliveScale.marker = {}
        /\ KeepaliveScale.find = {} /\ Len(KeepaliveScale.edits) = 1
        /\ e.needs = {"scale-16"} /\ e.takes = {"scale-16"} /\ e.puts = {"scale-1"}
        /\ e.when = {} /\ e.unless = {"scale-1"} /\ e.excuse = {}
    BY DEF KeepaliveScale, Formed
  <2> HIDE DEF e
  <2>2. /\ Spent("Node") = {} /\ Firm("Node") = {"scale-1"}
        /\ Either("Node") = {<<"scale-16", "scale-1">>}
    BY DEF Spent, Firm, Basic, Marks, Shared, Either
  <2>3. Fine("Node", e)
    <3>1. \A c \in Either("Node") : c[1] = "scale-16" /\ c[2] = "scale-1"
      BY <2>2
    <3>2. Mild("Node", e)
      BY <2>1, <2>2, <3>1 DEF Mild
    <3>3. Answered("Node", e) /\ Settles("Node", e)
      BY <2>1, <2>2, <3>1 DEF Answered, Settles
    <3> QED
      BY <3>2, <3>3 DEF Fine
  <2> QED
    BY <2>1, <2>3, FineRepeats DEF e
<1>6. Repeats(AuthFilesExist[1])
  <2>1. Gentle(AuthFilesExist[1])
    BY DEF AuthFilesExist, Gentle, Formed, Mild, Firm, Basic, Marks, Shared, Spent, Either, Anew
  <2>2. Works(AuthFilesExist[1])
    BY DEF AuthFilesExist, Works, Answered, Basic, Shared, Either
  <2>3. Leaves(AuthFilesExist[1])
    BY DEF AuthFilesExist, Leaves, Settles, Firm, Basic, Marks, Shared, Spent, Indifferent
  <2> QED
    BY <2>1, <2>2, <2>3, GentleRepeats
<1>7. Repeats(AuthFilesExist[2])
  <2>1. Gentle(AuthFilesExist[2])
    BY DEF AuthFilesExist, Gentle, Formed, Mild, Firm, Basic, Marks, Shared, Spent, Either, Anew
  <2>2. Works(AuthFilesExist[2])
    BY DEF AuthFilesExist, Works, Answered, Basic, Shared, Either
  <2>3. Leaves(AuthFilesExist[2])
    BY DEF AuthFilesExist, Leaves, Settles, Firm, Basic, Marks, Shared, Spent, Indifferent
  <2> QED
    BY <2>1, <2>2, <2>3, GentleRepeats
<1>8. Repeats(AuthIncoming)
  <2>1. Gentle(AuthIncoming)
    BY DEF AuthIncoming, Gentle, Formed, Mild, Firm, Basic, Marks, Shared, Spent, Either, Anew
  <2>2. Works(AuthIncoming)
    BY DEF AuthIncoming, Works, Answered, Basic, Shared, Either
  <2>3. Leaves(AuthIncoming)
    BY DEF AuthIncoming, Leaves, Settles, Firm, Basic, Marks, Shared, Spent, Indifferent
  <2> QED
    BY <2>1, <2>2, <2>3, GentleRepeats
<1>9. Repeats(AuthPeer)
  <2> DEFINE es == AuthPeer.edits
  <2>1. /\ Formed(AuthPeer) /\ AuthPeer.file = "Peer" /\ AuthPeer.marker = {} /\ Len(es) = 2
        /\ AuthPeer.find = {}
    BY DEF AuthPeer, Formed
  <2>2. /\ es[1] = add_stdio("Metrics.hpp")
        /\ es[2] = Unless("PEER-RECEIVED", Replace("lastReceive", "PEER-RECEIVED"))
    BY DEF AuthPeer
  <2> HIDE DEF es
  <2>3. /\ "Metrics.hpp" \in Basic("Peer") /\ {"stdio.h", "PEER-RECEIVED"} \subseteq Firm("Peer")
        /\ Spent("Peer") = {} /\ "lastReceive" \notin Firm("Peer")
    BY DEF Basic, Firm, Marks, Shared, Spent
  <2>4. Either("Peer") = {<<"lastReceive", "PEER-RECEIVED">>}
    BY DEF Either
  <2>5. Fine("Peer", es[1])
    BY <2>2, <2>3, MarkFine DEF Anew
  <2>6. Fine("Peer", es[2])
    <3>1. /\ es[2].takes = {"lastReceive"} /\ es[2].puts = {"PEER-RECEIVED"}
          /\ es[2].needs = {"lastReceive"} /\ es[2].when = {}
          /\ es[2].unless = {"PEER-RECEIVED"} /\ es[2].excuse = {}
      BY <2>2
    <3> QED
      BY <2>3, <2>4, <3>1, SwapFine
  <2>7. \A i \in 1 .. 2 : Fine("Peer", es[i])
    BY <2>5, <2>6
  <2>8. AuthPeer.find \subseteq Basic("Peer")
    BY <2>1
  <2> QED
    BY <2>1, <2>7, <2>8, FineRepeats DEF es
<1>10. Repeats(HotPathLogs)
  <2> DEFINE e == HotPathLogs.edits[1]
  <2>1. /\ Formed(HotPathLogs) /\ HotPathLogs.file = "posix"
        /\ HotPathLogs.marker = {} /\ HotPathLogs.find = {} /\ Len(HotPathLogs.edits) = 1
        /\ e.needs = {"send-log", "recv-log"} /\ e.takes = {"send-log", "recv-log"}
        /\ e.puts = {"counters"} /\ e.when = {} /\ e.unless = {} /\ e.excuse = {"counters"}
    BY DEF HotPathLogs, Formed
  <2> HIDE DEF e
  <2>2. /\ Spent("posix") = {"send-log", "recv-log"} /\ Firm("posix") = {"counters"}
        /\ Basic("posix") = {"counters"} /\ Either("posix") = {}
    BY DEF Spent, Firm, Basic, Marks, Shared, Either
  <2>3. Fine("posix", e)
    BY <2>1, <2>2 DEF Fine, Mild, Answered, Settles
  <2> QED
    BY <2>1, <2>3, FineRepeats DEF e
<1>11. Repeats(HotPathSessions)
  <2> DEFINE e == HotPathSessions.edits[1]
  <2>1. /\ Formed(HotPathSessions) /\ HotPathSessions.file = "main"
        /\ HotPathSessions.marker = {} /\ HotPathSessions.find = {}
        /\ Len(HotPathSessions.edits) = 1
        /\ e.needs = {"3-sessions"} /\ e.takes = {"3-sessions"} /\ e.puts = {"16-sessions"}
        /\ e.when = {} /\ e.unless = {} /\ e.excuse = {"16-sessions"}
    BY DEF HotPathSessions, Formed
  <2> HIDE DEF e
  <2>2. /\ Spent("main") = {"5-s", "3-sessions"} /\ Firm("main") = {"16-sessions"}
        /\ Basic("main") = {"16-sessions"} /\ Either("main") = {}
    BY DEF Spent, Firm, Basic, Marks, Shared, Either
  <2>3. Fine("main", e)
    BY <2>1, <2>2 DEF Fine, Mild, Answered, Settles
  <2> QED
    BY <2>1, <2>3, FineRepeats DEF e
<1> HIDE DEF Repeats
<1> QED
  BY <1>1, <1>2, <1>3, <1>4, <1>5, <1>6, <1>7, <1>8, <1>9, <1>10, <1>11

\* The ping period: that it is 10 s at the end follows from what the first edit leaves.
LEMMA PeriodsRepeat == Repeats(KeepalivePeriods)
<1> DEFINE k == KeepalivePeriods
           es == k.edits
           f == "Constants"
<1>1. /\ Formed(k) /\ k.file = f /\ k.marker = {} /\ Len(es) = 4
      /\ k.find = {"ZT_PEER_PING_PERIOD"}
  BY FilesAre DEF KeepalivePeriods, Formed, Section, Finding
<1>2. /\ es[1] = IfFound(Replace("ping-60-s", "ping-10-s"))
      /\ es[2] = IfFound(Replace("expiration-4-pings", "expiration-243-s"))
      /\ es[3] = IfFound(Replace("trial-10-pings", "trial-600-s"))
      /\ es[4] = Need("ping-10-s")
  BY DEF KeepalivePeriods, Section, Finding
<1>3. /\ "ZT_PEER_PING_PERIOD" \in Basic(f)
      /\ Firm(f) = {"ZT_INLINE", "ZT_INLINE-block", "ZT_PEER_PING_PERIOD", "byte-order"}
      /\ Spent(f) = {"ping-60-s", "expiration-4-pings", "trial-10-pings"}
      /\ Either(f) = {<<"ping-60-s", "ping-10-s">>}
  BY DEF Basic, Firm, Marks, Shared, Spent, Either
<1> HIDE DEF k, es
<1>4. \A i \in 1 .. 3 : Fine(f, es[i])
  <2>1. ASSUME NEW i \in 1 .. 3
        PROVE  /\ es[i].needs = es[i].when /\ es[i].takes = es[i].when
               /\ es[i].unless = {} /\ es[i].excuse = {}
               /\ es[i].when \subseteq Spent(f) /\ es[i].when # {}
               /\ "ping-10-s" \notin es[i].takes
               /\ es[i].puts \cap {"ping-60-s", "expiration-4-pings", "trial-10-pings"} = {}
               /\ "ping-60-s" \in es[i].takes => "ping-10-s" \in es[i].puts
    <3>0. ASSUME NEW a, NEW b, NEW e, e = IfFound(Replace(a, b))
          PROVE  /\ e.when = {a} /\ e.needs = {a} /\ e.takes = {a} /\ e.puts = {b}
                 /\ e.unless = {} /\ e.excuse = {}
      BY <3>0 DEF IfFound, Replace, Edit
    <3>1. CASE i = 1
      <4>1. /\ es[i].when = {"ping-60-s"} /\ es[i].needs = {"ping-60-s"}
            /\ es[i].takes = {"ping-60-s"} /\ es[i].puts = {"ping-10-s"}
            /\ es[i].unless = {} /\ es[i].excuse = {}
        BY <1>2, <3>0, <3>1
      <4> QED
        BY <1>3, <4>1
    <3>2. CASE i = 2
      <4>1. /\ es[i].when = {"expiration-4-pings"} /\ es[i].needs = {"expiration-4-pings"}
            /\ es[i].takes = {"expiration-4-pings"} /\ es[i].puts = {"expiration-243-s"}
            /\ es[i].unless = {} /\ es[i].excuse = {}
        BY <1>2, <3>0, <3>2
      <4> QED
        BY <1>3, <4>1
    <3>3. CASE i = 3
      <4>1. /\ es[i].when = {"trial-10-pings"} /\ es[i].needs = {"trial-10-pings"}
            /\ es[i].takes = {"trial-10-pings"} /\ es[i].puts = {"trial-600-s"}
            /\ es[i].unless = {} /\ es[i].excuse = {}
        BY <1>2, <3>0, <3>3
      <4> QED
        BY <1>3, <4>1
    <3> QED
      BY <3>1, <3>2, <3>3
  <2>2. ASSUME NEW i \in 1 .. 3 PROVE Mild(f, es[i])
    BY <1>3, <2>1 DEF Mild
  <2>3. ASSUME NEW i \in 1 .. 3 PROVE Answered(f, es[i]) /\ Settles(f, es[i])
    BY <1>3, <2>1 DEF Answered, Settles
  <2> QED
    BY <2>2, <2>3 DEF Fine
<1>5. Mild(f, es[4]) /\ Settles(f, es[4])
  BY <1>2 DEF Mild, Settles, Need, Edit
<1>6. Gentle(k) /\ Leaves(k)
  <2>1. \A i \in 1 .. 4 : Mild(f, es[i]) /\ Settles(f, es[i])
    BY <1>4, <1>5 DEF Fine
  <2> QED
    BY <1>1, <1>3, <2>1 DEF Gentle, Leaves, es
<1>7. ASSUME NEW text, Usual(f, text) PROVE ~Aborts(text, k)
  <2> DEFINE D == Drafts(text, k)
  <2>1. Found(text, k)
    BY <1>1, <1>3, <1>7 DEF Found, Usual
  <2>2. \A i \in 0 .. 4 : Leads(f, text, D[i]) /\ \A m \in i .. 4 : Leads(f, D[i], D[m])
    <3>1. Usual(k.file, text) /\ k.file = f /\ Len(k.edits) = 4
      BY <1>1, <1>7 DEF es
    <3>2. /\ \A i \in 0 .. Len(k.edits) : Leads(k.file, text, D[i])
          /\ \A j \in 0 .. Len(k.edits) : \A i \in j .. Len(k.edits) : Leads(k.file, D[j], D[i])
      BY <1>6, <3>1, GentleDrafts
    <3> HIDE DEF D
    <3> QED
      BY <3>1, <3>2
  <2>3. D[0] = text /\ D[1] = Edited(D[0], es[1])
    BY <1>1, DraftSteps DEF es
  <2> HIDE DEF D
  <2>4. \A i \in 0 .. 4 : Usual(f, D[i])
    BY <2>2 DEF Leads
  <2>5. \A i \in 1 .. 3 : ~Exits(D[i - 1], es[i])
    BY <1>4, <2>4, NoExit DEF Fine
  <2>6. Over(f, es[1], D[1])
    BY <1>4, <1>7, <2>3, EditSettles DEF Fine
  <2>7. Over(f, es[1], D[3])
    BY <2>2, <2>6, OverLasts
  <2>8. "ping-60-s" \notin Passages(D[3])
    <3>1. /\ es[1].takes = {"ping-60-s"} /\ es[1].needs = {"ping-60-s"}
          /\ es[1].when = {"ping-60-s"} /\ es[1].unless = {}
      BY <1>2 DEF IfFound, Replace, Edit
    <3> QED
      BY <2>7, <3>1 DEF Over, Indifferent
  <2>9. "ping-10-s" \in Passages(D[3])
    <3>1. <<"ping-60-s", "ping-10-s">> \in Either(f) /\ Usual(f, D[3])
      BY <1>3, <2>4
    <3> QED
      BY <2>8, <3>1 DEF Usual
  <2>10. ~Exits(D[3], es[4])
    BY <1>2, <2>9 DEF Exits, Need, Edit
  <2>11. \A i \in 1 .. 4 : ~Exits(D[i - 1], es[i])
    BY <2>5, <2>10
  <2> QED
    BY <1>1, <2>1, <2>11 DEF Aborts, D, es
<1>8. Repeats(k)
  BY <1>1, <1>6, <1>7, GentleTame, RestsAfter, SameAgain DEF Repeats
<1> QED
  BY <1>8 DEF k

\* An edit changes the number of no passage that it neither takes nor puts.
LEMMA Untouched ==
  ASSUME NEW text, IsABag(text), NEW e, NEW p, p \notin e.takes, p \notin e.puts
  PROVE  CountIn(p, Edited(text, e)) = CountIn(p, text)
<1>1. /\ IsABag(Edited(text, e)) /\ CountIn(p, text) \in Nat
      /\ CountIn(p, Edited(text, e)) <= CountIn(p, text)
      /\ CountIn(p, Edited(text, e)) >= CountIn(p, text)
  BY EditedCopies
<1>2. CountIn(p, Edited(text, e)) \in Nat
  BY <1>1, EditedCopies
<1> QED
  BY <1>1, <1>2

\* A section that takes Anew out with its first edit, and puts it back with the first and
\* the last.
Renews(k) ==
  /\ Formed(k) /\ k.file = "sys_arch" /\ k.marker = {} /\ k.find \subseteq Basic("sys_arch")
  /\ Len(k.edits) = 9
  /\ \A i \in 2 .. 8 : Fine("sys_arch", k.edits[i]) /\ k.edits[i].unless \cap Anew = {}
  /\ k.edits[1].takes = Anew /\ k.edits[1].puts = {"32-slots"}
  /\ k.edits[1].needs \subseteq Basic("sys_arch")
  /\ k.edits[1].when = {} /\ k.edits[1].unless = {} /\ k.edits[1].excuse = {}
  /\ k.edits[9].takes = {} /\ k.edits[9].puts = {"INTRO:ENTER"}
  /\ k.edits[9].needs = {"32-slots"}
  /\ k.edits[9].when = {} /\ k.edits[9].unless = {"INTRO:ENTER"} /\ k.edits[9].excuse = {}

\* The file where the section takes Anew out, and how it gets back.
LEMMA AnewIs ==
  LET f == "sys_arch" IN
  /\ Anew = {"INTRO:ENTER", "32-slots"}
  /\ Anew \subseteq Firm(f) /\ Basic(f) \subseteq Firm(f) /\ Basic(f) \cap Anew = {}
  /\ Anew \cap Indifferent = {}
  /\ Spent(f) = {} /\ Either(f) = {}
BY DEF Basic, Firm, Marks, Shared, Spent, Either, Anew, Indifferent

\* What the first edit leaves,
LEMMA TakenOut ==
  ASSUME NEW k, Renews(k), NEW text, Usual("sys_arch", text)
  PROVE  LET u == Edited(text, k.edits[1]) IN
         /\ Usual("sys_arch", u) /\ "32-slots" \in Passages(u)
         /\ "INTRO:ENTER" \notin Passages(u)
         /\ \A p : p \notin Anew => /\ CountIn(p, u) = CountIn(p, text)
                                    /\ p \in Passages(u) <=> p \in Passages(text)
<1> DEFINE f == "sys_arch"
           e == k.edits[1]
           u == Edited(text, e)
<1>1. /\ e.takes = Anew /\ e.puts = {"32-slots"} /\ ~Skipped(text, e)
  BY DEF Renews, Skipped
<1>2. IsABag(text) /\ \A p \in Anew : CountIn(p, text) <= 1
  BY DEF Usual
<1> HIDE DEF e
<1>3. IsABag(u)
  BY <1>2, EditedCopies
<1>4. "32-slots" \in Passages(u)
  BY <1>1, <1>2, EditedCopies
<1>5. "INTRO:ENTER" \notin Passages(u)
  <2>1. /\ "INTRO:ENTER" \in e.takes /\ "INTRO:ENTER" \notin e.puts
        /\ CountIn("INTRO:ENTER", text) <= 1
    BY <1>1, <1>2 DEF Anew
  <2> QED
    BY <1>1, <1>2, <2>1, EditedCopies
<1>6. ASSUME NEW p, p \notin Anew
      PROVE  CountIn(p, u) = CountIn(p, text) /\ (p \in Passages(u) <=> p \in Passages(text))
  <2>1. p \notin e.takes /\ p \notin e.puts
    BY <1>1, <1>6 DEF Anew
  <2>2. CountIn(p, u) = CountIn(p, text)
    BY <1>2, <2>1, Untouched
  <2>3. /\ p \in Passages(u) <=> CountIn(p, u) > 0
        /\ p \in Passages(text) <=> CountIn(p, text) > 0
    BY <1>2, <1>3, EditedCopies
  <2> QED
    BY <2>2, <2>3
<1>7. ASSUME NEW p \in Anew PROVE CountIn(p, u) <= 1
  <2>1. p \in e.takes /\ CountIn(p, text) <= 1 /\ CountIn(p, text) \in Nat
    BY <1>1, <1>2, EditedCopies
  <2>2. CountIn(p, u) <= IF CountIn(p, text) = 0 THEN 1 ELSE CountIn(p, text)
    BY <1>2, <2>1, EditedCopies
  <2>3. CountIn(p, u) \in Nat
    BY <1>3, EditedCopies
  <2> QED
    BY <2>1, <2>2, <2>3
<1> HIDE DEF u
<1>8. Usual(f, u)
  <2>1. Basic(f) \subseteq Passages(u)
    BY <1>6, AnewIs DEF Usual
  <2> QED
    BY <1>3, <1>7, <2>1, AnewIs DEF Usual
<1> QED
  BY <1>4, <1>5, <1>6, <1>8 DEF u, e

\* and the last.
LEMMA PutBack ==
  ASSUME NEW k, Renews(k), NEW text, Usual("sys_arch", text), "32-slots" \in Passages(text)
  PROVE  LET u == Edited(text, k.edits[9]) IN
         /\ ~Exits(text, k.edits[9])
         /\ Leads("sys_arch", text, u) /\ Anew \subseteq Passages(u)
         /\ \A p : p \notin Anew => CountIn(p, u) = CountIn(p, text)
<1> DEFINE f == "sys_arch"
           e == k.edits[9]
           u == Edited(text, e)
           p0 == "INTRO:ENTER"
<1>1. /\ e.takes = {} /\ e.puts = {p0} /\ e.needs = {"32-slots"} /\ e.unless = {p0}
      /\ Skipped(text, e) <=> p0 \in Passages(text)
  BY DEF Renews, Skipped
<1>2. IsABag(text) /\ \A p \in Anew : CountIn(p, text) <= 1
  BY DEF Usual
<1>3. ~Exits(text, e)
  BY <1>1 DEF Exits
<1> HIDE DEF e
<1>4. IsABag(u)
  BY <1>2, EditedCopies
<1>5. ASSUME NEW p \in Passages(text) PROVE p \in Passages(u)
  <2>1. CountIn(p, u) >= CountIn(p, text) /\ CountIn(p, text) > 0 /\ CountIn(p, text) \in Nat
    BY <1>1, <1>2, <1>5, EditedCopies
  <2>2. CountIn(p, u) \in Nat /\ (p \in Passages(u) <=> CountIn(p, u) > 0)
    BY <1>4, EditedCopies
  <2> QED
    BY <2>1, <2>2
<1>6. p0 \in Passages(u)
  <2>1. ~Skipped(text, e) => p0 \in Passages(u)
    BY <1>1, <1>2, EditedCopies
  <2> QED
    BY <1>1, <1>5, <2>1
<1>7. ASSUME NEW p, p \notin Anew PROVE CountIn(p, u) = CountIn(p, text)
  BY <1>1, <1>2, <1>7, Untouched DEF Anew
<1>8. ASSUME NEW p \in Anew PROVE CountIn(p, u) <= 1
  <2>1. CASE Skipped(text, e)
    BY <1>2, <1>8, <2>1, EditedCopies
  <2>2. CASE p # p0
    <3>1. CountIn(p, u) = CountIn(p, text)
      BY <1>1, <1>2, <2>2, Untouched
    <3> QED
      BY <1>2, <1>8, <3>1
  <2>3. CASE p = p0 /\ ~Skipped(text, e)
    <3>1. CountIn(p, u) <= IF CountIn(p, text) = 0 THEN 1 ELSE CountIn(p, text)
      BY <1>1, <1>2, <2>3, EditedCopies
    <3>2. CountIn(p, text) <= 1 /\ CountIn(p, text) \in Nat /\ CountIn(p, u) \in Nat
      BY <1>2, <1>4, <1>8, EditedCopies
    <3> QED
      BY <3>1, <3>2
  <2> QED
    BY <2>1, <2>2, <2>3
<1> HIDE DEF u
<1>9. Anew \subseteq Passages(u)
  BY <1>5, <1>6 DEF Anew
<1>10. Usual(f, u)
  <2>1. Basic(f) \subseteq Passages(u)
    BY <1>5 DEF Usual
  <2> QED
    BY <1>4, <1>8, <2>1, AnewIs DEF Usual
<1>11. Leads(f, text, u)
  BY <1>5, <1>10, AnewIs DEF Leads
<1> QED
  BY <1>3, <1>7, <1>9, <1>11 DEF u, e

\* The drafts of such a section.
LEMMA RenewDrafts ==
  ASSUME NEW k, Renews(k), NEW text, Usual("sys_arch", text)
  PROVE  LET D == Drafts(text, k) IN
         /\ D[0] = text
         /\ \A i \in 1 .. 9 : D[i] = Edited(D[i - 1], k.edits[i])
         /\ \A i \in 0 .. 9 : Usual("sys_arch", D[i])
         /\ \A i \in 1 .. 9 : Leads("sys_arch", D[1], D[i]) /\ Leads("sys_arch", D[i], D[9])
         /\ "32-slots" \in Passages(D[8])
         /\ Anew \subseteq Passages(D[9])
         /\ \A p : p \notin Anew => CountIn(p, D[9]) = CountIn(p, D[8])
<1> DEFINE f == "sys_arch"
           D == Drafts(text, k)
<1>1. Len(k.edits) = 9 /\ \A i \in 2 .. 8 : Fine(f, k.edits[i])
  BY DEF Renews
<1>2. D[0] = text /\ \A i \in 1 .. 9 : D[i] = Edited(D[i - 1], k.edits[i])
  <2>1. Len(k.edits) \in Nat
    BY <1>1
  <2>2. /\ Drafts(text, k)[0] = text
        /\ \A i \in 1 .. Len(k.edits) :
             Drafts(text, k)[i] = Edited(Drafts(text, k)[i - 1], k.edits[i])
    BY <2>1, DraftSteps
  <2> QED
    BY <1>1, <2>2
<1>3. Usual(f, D[1]) /\ "32-slots" \in Passages(D[1])
  BY <1>2, TakenOut
<1>4. ASSUME NEW j \in 1 .. 8, Usual(f, D[j]) PROVE \A i \in j .. 8 : Leads(f, D[j], D[i])
  <2>1. j \in 0 .. Len(k.edits) /\ 8 \in j .. Len(k.edits) /\ Len(k.edits) \in Nat
    BY <1>1
  <2>2. \A i \in j + 1 .. 8 : Mild(f, k.edits[i])
    BY <1>1 DEF Fine
  <2> QED
    BY <1>4, <2>1, <2>2, DraftsLead
<1> HIDE DEF D
<1>5. \A i \in 1 .. 8 : Leads(f, D[1], D[i]) /\ Usual(f, D[i])
  BY <1>3, <1>4 DEF Leads
<1>6. \A i \in 1 .. 8 : Leads(f, D[i], D[8])
  BY <1>4, <1>5
<1>7. "32-slots" \in Passages(D[8])
  <2>1. "32-slots" \in Firm(f) \cap Passages(D[1])
    BY <1>3, AnewIs
  <2> QED
    BY <1>5, <2>1 DEF Leads
<1>8. D[9] = Edited(D[8], k.edits[9]) /\ Usual(f, D[8])
  BY <1>2, <1>5
<1>9. /\ Leads(f, D[8], D[9]) /\ Anew \subseteq Passages(D[9])
      /\ \A p : p \notin Anew => CountIn(p, D[9]) = CountIn(p, D[8])
  BY <1>7, <1>8, PutBack
<1>10. Usual(f, D[9])
  BY <1>9 DEF Leads
<1>11. Leads(f, D[1], D[9]) /\ Leads(f, D[9], D[9])
  BY <1>5, <1>9, <1>10, LeadsOn
<1>12. \A i \in 1 .. 8 : Leads(f, D[i], D[9])
  BY <1>6, <1>9, LeadsOn
<1>13. \A i \in 0 .. 9 : Usual(f, D[i])
  BY <1>2, <1>5, <1>10
<1> QED
  BY <1>2, <1>5, <1>7, <1>9, <1>11, <1>12, <1>13 DEF D

\* It can be repeated as well.
LEMMA RenewRepeats == ASSUME NEW k, Renews(k) PROVE Repeats(k)
<1> DEFINE f == "sys_arch"
<1>1. /\ Formed(k) /\ k.file = f /\ k.marker = {} /\ k.find \subseteq Basic(f)
      /\ Len(k.edits) = 9
      /\ \A i \in 2 .. 8 : Fine(f, k.edits[i]) /\ k.edits[i].unless \cap Anew = {}
  BY DEF Renews
<1>2. SUFFICES ASSUME NEW text, Usual(f, text)
               PROVE  LET R == Rewritten(text, k) IN
                      /\ ~Aborts(text, k) /\ Leads(f, text, R) /\ Resting(k, R)
                      /\ Resting(k, text) => Same(text, R)
  BY <1>1 DEF Repeats, Tame
<1> DEFINE D == Drafts(text, k)
<1>3. /\ D[0] = text
      /\ \A i \in 1 .. 9 : D[i] = Edited(D[i - 1], k.edits[i])
      /\ \A i \in 0 .. 9 : Usual(f, D[i])
      /\ \A i \in 1 .. 9 : Leads(f, D[1], D[i]) /\ Leads(f, D[i], D[9])
      /\ "32-slots" \in Passages(D[8])
      /\ Anew \subseteq Passages(D[9])
      /\ \A p : p \notin Anew => CountIn(p, D[9]) = CountIn(p, D[8])
  BY <1>2, RenewDrafts
<1>4. /\ "INTRO:ENTER" \notin Passages(D[1]) /\ "32-slots" \in Passages(D[1])
      /\ \A p : p \notin Anew => /\ CountIn(p, D[1]) = CountIn(p, text)
                                 /\ p \in Passages(D[1]) <=> p \in Passages(text)
  <2>1. D[1] = Edited(text, k.edits[1])
    BY <1>3
  <2> QED
    BY <1>2, <2>1, TakenOut
<1>5. ~LeftAlone(text, k) /\ Found(text, k)
  BY <1>1, <1>2 DEF LeftAlone, Found, Usual
<1>6. Rewritten(text, k) = D[9]
  BY <1>1, <1>5 DEF Rewritten
<1>7. \A i \in 1 .. 9 : ~Exits(D[i - 1], k.edits[i])
  <2>1. ~Exits(D[0], k.edits[1])
    <3>1. k.edits[1].needs \subseteq Passages(D[0])
      BY <1>2, <1>3 DEF Renews, Usual
    <3> QED
      BY <3>1 DEF Exits
  <2>2. ASSUME NEW i \in 2 .. 8 PROVE ~Exits(D[i - 1], k.edits[i])
    <3>1. Answered(f, k.edits[i]) /\ Usual(f, D[i - 1])
      BY <1>1, <1>3 DEF Fine
    <3> QED
      BY <3>1, NoExit
  <2>3. ~Exits(D[8], k.edits[9])
    BY <1>3, PutBack
  <2> QED
    BY <2>1, <2>2, <2>3
<1>8. ~Aborts(text, k)
  BY <1>1, <1>5, <1>7 DEF Aborts
<1> HIDE DEF D
<1>9. Leads(f, text, D[9])
  <2>1. Firm(f) \cap Passages(D[1]) \subseteq Passages(D[9]) /\ Usual(f, D[9])
    BY <1>3 DEF Leads
  <2>2. ASSUME NEW p \in Firm(f), p \in Passages(text) PROVE p \in Passages(D[9])
    BY <1>3, <1>4, <2>1, <2>2
  <2> QED
    BY <2>1, <2>2, AnewIs DEF Leads
<1>10. Resting(k, D[9])
  <2>1. ASSUME NEW i \in 2 .. 8 PROVE Over(f, k.edits[i], D[9])
    <3>1. /\ Settles(f, k.edits[i]) /\ Usual(f, D[i - 1]) /\ D[i] = Edited(D[i - 1], k.edits[i])
          /\ Leads(f, D[i], D[9])
      BY <1>1, <1>3 DEF Fine
    <3>2. Over(f, k.edits[i], D[i])
      BY <3>1, EditSettles
    <3> QED
      BY <3>1, <3>2, OverLasts
  <2>2. ASSUME NEW i \in {1, 9} PROVE Again(f, k.edits[i], D[9])
    <3>1. k.edits[i].takes \cup k.edits[i].puts \subseteq Anew
      BY AnewIs DEF Renews
    <3> QED
      BY <1>3, <3>1 DEF Again
  <2>3. \A i \in 1 .. 9 : Over(f, k.edits[i], D[9]) \/ Again(f, k.edits[i], D[9])
    BY <2>1, <2>2
  <2> QED
    BY <1>1, <2>3 DEF Resting
<1>11. ASSUME Resting(k, text) PROVE Same(text, D[9])
  <2>1. \A i \in 1 .. 9 : Over(f, k.edits[i], text) \/ Again(f, k.edits[i], text)
    BY <1>1, <1>11 DEF Resting
  <2>2. Anew \subseteq Passages(text)
    <3>1. CASE Again(f, k.edits[1], text)
      BY <3>1 DEF Again
    <3>2. ~Over(f, k.edits[1], text)
      <4>1. "32-slots" \in k.edits[1].puts /\ "32-slots" \notin Indifferent
        BY AnewIs DEF Renews
      <4> QED
        BY <4>1, AnewIs DEF Over, Renews
    <3> QED
      BY <2>1, <3>1, <3>2
  <2>3. ASSUME NEW i \in 2 .. 8 PROVE Over(f, k.edits[i], D[1])
    <3>1. Over(f, k.edits[i], text)
      <4>1. ASSUME Again(f, k.edits[i], text) PROVE Over(f, k.edits[i], text)
        BY <1>1, <4>1 DEF Again, Over, Fine, Mild
      <4> QED
        BY <2>1, <4>1
    <3>2. CASE k.edits[i].takes \cup k.edits[i].puts \subseteq Indifferent
      BY <3>2 DEF Over
    <3>3. CASE k.edits[i].unless \cap Firm(f) \cap Passages(text) # {}
      <4>1. PICK p \in k.edits[i].unless : p \in Firm(f) /\ p \in Passages(text)
        BY <3>3
      <4>2. p \in Passages(D[1])
        BY <1>1, <1>4, <4>1
      <4> QED
        BY <4>1, <4>2 DEF Over
    <3> QED
      BY <3>1, <3>2, <3>3, AnewIs DEF Over
  <2>4. \A i \in 1 .. 8 : Same(D[1], D[i])
    <3>1. /\ 1 \in 0 .. Len(k.edits) /\ 8 \in 1 .. Len(k.edits) /\ Len(k.edits) \in Nat
          /\ 1 + 1 = 2 /\ Usual(f, D[1])
      BY <1>1, <1>3
    <3>2. \A i \in 2 .. 8 : Mild(f, k.edits[i]) /\ Over(f, k.edits[i], D[1])
      BY <1>1, <2>3 DEF Fine
    <3> QED
      BY <3>1, <3>2, DraftsSame DEF D
  <2>5. ASSUME NEW p, p \notin Indifferent, p \notin Anew PROVE CountIn(p, text) = CountIn(p, D[9])
    <3>1. CountIn(p, D[1]) = CountIn(p, D[8])
      BY <2>4, <2>5 DEF Same
    <3> QED
      BY <1>3, <1>4, <2>5, <3>1
  <2>6. ASSUME NEW p \in Anew PROVE CountIn(p, text) = CountIn(p, D[9])
    <3>1. Usual(f, D[9]) /\ p \in Passages(D[9]) /\ p \in Passages(text)
      BY <1>3, <2>2, <2>6
    <3>2. /\ CountIn(p, text) <= 1 /\ IsABag(text)
          /\ CountIn(p, D[9]) <= 1 /\ IsABag(D[9])
      BY <1>2, <2>6, <3>1 DEF Usual
    <3>3. CountIn(p, text) \in Nat /\ CountIn(p, text) > 0
      BY <3>1, <3>2, EditedCopies
    <3>4. CountIn(p, D[9]) \in Nat /\ CountIn(p, D[9]) > 0
      BY <3>1, <3>2, EditedCopies
    <3> QED
      BY <3>2, <3>3, <3>4
  <2> QED
    BY <2>5, <2>6 DEF Same
<1> QED
  BY <1>6, <1>8, <1>9, <1>10, <1>11

\* patch-lwip-switch-thread.py writes introduce_thread anew: what is taken out by the
\* first edit of the section is put in again by the first and the last.
LEMMA SysArchRepeats == Repeats(LwipSysArch)
<1> DEFINE k == LwipSysArch
           es == k.edits
           f == "sys_arch"
<1>1. /\ Formed(k) /\ k.file = f /\ k.marker = {} /\ Len(es) = 9
      /\ k.find = {"sys_thread_new(", "pthread_create"}
  BY FilesAre DEF LwipSysArch, Formed, Section, Finding
<1>2. /\ es[1] = Edit({"introduce_thread"}, {"INTRO:ENTER", "32-slots"}, {"32-slots"})
      /\ es[2] = Switch_h("pthread.h")
      /\ es[3] = Need("sys_thread_new-begin")
      /\ es[4] = Unless("STN:ENTER", Edit({}, {"function-start"}, {"STN:ENTER"}))
      /\ es[5] = Need("pthread_create(&tmp")
      /\ es[6] = Unless("256-KB-stack", Edit({}, {"plain-create"}, {"256-KB-stack"}))
      /\ es[7] = Trace("STN:AFTER_PTHREAD_CREATE")
      /\ es[8] = Unless("STN:BEFORE_INTRODUCE",
                        Edit({"if-0==code", "st=introduce_thread"}, {}, {"STN:BEFORE_INTRODUCE"}))
      /\ es[9] = Unless("INTRO:ENTER", Insert("32-slots", "INTRO:ENTER"))
  BY DEF LwipSysArch, Section, Finding
<1>3. /\ {"sys_thread_new(", "pthread_create", "introduce_thread", "pthread.h",
          "sys_thread_new-begin", "pthread_create(&tmp", "if-0==code",
          "st=introduce_thread"} \subseteq Basic(f)
      /\ {"switch.h", "stdio.h+switch.h", "STN:ENTER", "256-KB-stack",
          "STN:AFTER_PTHREAD_CREATE", "STN:BEFORE_INTRODUCE"} \subseteq Firm(f)
      /\ Anew \subseteq Firm(f) /\ Basic(f) \subseteq Firm(f) /\ Basic(f) \cap Anew = {}
  BY DEF Basic, Firm, Marks, Shared, Anew
<1>4. /\ "function-start" \notin Firm(f) /\ "plain-create" \notin Firm(f)
      /\ Spent(f) = {} /\ Either(f) = {}
      /\ Anew = {"INTRO:ENTER", "32-slots"}
  BY DEF Basic, Firm, Marks, Shared, Spent, Either, Anew
<1> HIDE DEF k, es, f
\* The edits between leave those two alone.
<1>5. \A i \in 2 .. 8 : Fine(f, es[i]) /\ es[i].unless \cap Anew = {}
  <2>1. ASSUME NEW e, NEW mark, mark \in Firm(f), mark \notin Anew,
               e.puts = {mark}, mark \in e.unless, e.unless \subseteq Firm(f),
               e.takes \cap Firm(f) = {}, e.takes \cap Anew = {},
               e.needs \subseteq Basic(f), e.when \subseteq Basic(f), e.excuse = {}
        PROVE  Fine(f, e)
    BY <1>4, <2>1 DEF Fine, Mild, Answered, Settles
  <2>2. Fine(f, es[2]) /\ es[2].unless \cap Anew = {}
    <3>1. /\ es[2].takes = {} /\ es[2].puts = {"stdio.h+switch.h"} /\ es[2].excuse = {}
          /\ es[2].unless = {"switch.h", "stdio.h+switch.h"}
          /\ es[2].needs = {"pthread.h"} /\ es[2].when = {"pthread.h"}
      BY <1>2 DEF Switch_h, Unless, IfFound, Insert, Edit
    <3> QED
      BY <1>3, <1>4, <2>1, <3>1
  <2>3. Fine(f, es[3]) /\ es[3].unless \cap Anew = {}
    BY <1>2, <1>3, LookFine DEF Need, Edit
  <2>4. Fine(f, es[4]) /\ es[4].unless \cap Anew = {}
    <3>1. /\ es[4].takes = {"function-start"} /\ es[4].puts = {"STN:ENTER"} /\ es[4].excuse = {}
          /\ es[4].unless = {"STN:ENTER"} /\ es[4].needs = {} /\ es[4].when = {}
      BY <1>2 DEF Unless, Edit
    <3> QED
      BY <1>3, <1>4, <2>1, <3>1
  <2>5. Fine(f, es[5]) /\ es[5].unless \cap Anew = {}
    BY <1>2, <1>3, LookFine DEF Need, Edit
  <2>6. Fine(f, es[6]) /\ es[6].unless \cap Anew = {}
    <3>1. /\ es[6].takes = {"plain-create"} /\ es[6].puts = {"256-KB-stack"} /\ es[6].excuse = {}
          /\ es[6].unless = {"256-KB-stack"} /\ es[6].needs = {} /\ es[6].when = {}
      BY <1>2 DEF Unless, Edit
    <3> QED
      BY <1>3, <1>4, <2>1, <3>1
  <2>7. Fine(f, es[7]) /\ es[7].unless \cap Anew = {}
    <3>1. /\ es[7].takes = {} /\ es[7].puts = {"STN:AFTER_PTHREAD_CREATE"} /\ es[7].excuse = {}
          /\ es[7].unless = {"STN:AFTER_PTHREAD_CREATE"} /\ es[7].needs = {} /\ es[7].when = {}
      BY <1>2 DEF Trace, Unless, Edit
    <3> QED
      BY <1>3, <1>4, <2>1, <3>1
  <2>8. Fine(f, es[8]) /\ es[8].unless \cap Anew = {}
    <3>1. /\ es[8].takes = {} /\ es[8].puts = {"STN:BEFORE_INTRODUCE"} /\ es[8].excuse = {}
          /\ es[8].unless = {"STN:BEFORE_INTRODUCE"}
          /\ es[8].needs = {"if-0==code", "st=introduce_thread"} /\ es[8].when = {}
      BY <1>2 DEF Unless, Edit
    <3> QED
      BY <1>3, <1>4, <2>1, <3>1
  <2> QED
    BY <2>2, <2>3, <2>4, <2>5, <2>6, <2>7, <2>8
<1>6. /\ es[1].takes = Anew /\ es[1].puts = {"32-slots"} /\ es[1].needs \subseteq Basic(f)
      /\ es[1].when = {} /\ es[1].unless = {} /\ es[1].excuse = {}
  BY <1>2, <1>3, <1>4 DEF Edit
<1>7. /\ es[9].takes = {} /\ es[9].puts = {"INTRO:ENTER"} /\ es[9].needs = {"32-slots"}
      /\ es[9].when = {} /\ es[9].unless = {"INTRO:ENTER"} /\ es[9].excuse = {}
  BY <1>2 DEF Unless, Insert, Edit
<1> QED
  BY <1>1, <1>3, <1>5, <1>6, <1>7, RenewRepeats DEF Renews, es, k, f

-----------------------------------------------------------------------------
(* All the scripts.                                                        *)

\* What the other scripts do to the files of Rerunnable ones: libzt,
LEMMA LibztTame == \A i \in 1 .. 10 : Tame(PatchLibzt[i])
<1> USE FilesAre
   DEF Section, IfFound, Replace, Edit, Finding, Insert, Need, Unless, Wrap, OrDone, OnlyIf
<1>1. Tame(ConstantsUnixLike)
  <2>1. Gentle(ConstantsUnixLike)
    BY DEF ConstantsUnixLike, Gentle, Formed, Mild, Firm, Basic, Marks, Shared, Spent, Either
  <2> QED
    BY <2>1, GentleTame
<1>2. Tame(PhyNoUnixSockets)
  <2>1. Gentle(PhyNoUnixSockets)
    BY DEF PhyNoUnixSockets, Gentle, Formed, Mild, Firm, Basic, Marks, Shared, Spent, Either
  <2> QED
    BY <2>1, GentleTame
<1>3. /\ UtilsStok.file \notin Shared /\ BinderNoInterfaces.file \notin Shared
      /\ UtilsNoProbes.file \notin Shared /\ CMakeNoMapper.file \notin Shared
      /\ PortCc.file \notin Shared /\ CcWrapper.file \notin Shared
      /\ Stdexcept("family").file \notin Shared /\ Stdexcept("registry").file \notin Shared
  BY DEF UtilsStok, BinderNoInterfaces, UtilsNoProbes, CMakeNoMapper, PortCc, CcWrapper,
     Stdexcept,
         Shared
<1>4. /\ Tame(UtilsStok) /\ Tame(BinderNoInterfaces) /\ Tame(UtilsNoProbes) /\ Tame(CMakeNoMapper)
      /\ Tame(PortCc) /\ Tame(CcWrapper) /\ Tame(Stdexcept("family"))
      /\ Tame(Stdexcept("registry"))
  BY <1>3, LibztSections, ElsewhereTame DEF Good
<1> QED
  BY <1>1, <1>2, <1>4 DEF PatchLibzt

\* bootstrap,
LEMMA BootstrapTame == \A i \in 1 .. 13 : Tame(PatchBootstrap[i])
<1> DEFINE a == <<BootstrapCMake>>
           b == a \o PatchLibzt
           c == <<BootstrapDriver, BootstrapSysArch>>
<1>1. IsSeq(a) /\ Len(a) = 1 /\ a[1] = BootstrapCMake
  <2>1. a \in Seq({a[1]}) /\ Len(a) = 1
    OBVIOUS
  <2> QED
    BY <2>1 DEF IsSeq
<1>2. IsSeq(c) /\ Len(c) = 2 /\ c[1] = BootstrapDriver /\ c[2] = BootstrapSysArch
  <2>1. c \in Seq({c[i] : i \in 1 .. 2}) /\ Len(c) = 2
    OBVIOUS
  <2> QED
    BY <2>1 DEF IsSeq
<1>3. PatchBootstrap = b \o c /\ b = a \o PatchLibzt
  BY DEF PatchBootstrap
<1>4. IsSeq(PatchLibzt) /\ Len(PatchLibzt) = 10
  BY ShortScripts DEF AllGood
<1> HIDE DEF a, b, c
<1>5. Split(b, a, 1, PatchLibzt, 10)
  <2>1. Split(a \o PatchLibzt, a, 1, PatchLibzt, 10)
    BY <1>1, <1>4, Joined
  <2> QED
    BY <1>3, <2>1, Zenon
<1>6. Split(PatchBootstrap, b, 11, c, 2)
  <2>1. IsSeq(b) /\ Len(b) = 11
    BY <1>5 DEF Split
  <2>2. Split(b \o c, b, 11, c, 2)
    BY <1>2, <2>1, Joined
  <2> QED
    BY <1>3, <2>2, Zenon
<1>7. Tame(BootstrapCMake)
  <2>1. BootstrapCMake.file \notin Shared
    BY DEF BootstrapCMake, Section, Shared
  <2> QED
    BY <2>1, OtherSections, ElsewhereTame DEF Good
<1>8. Tame(BootstrapDriver)
  <2>1. Gentle(BootstrapDriver)
    BY FilesAre
       DEF BootstrapDriver, Gentle, Formed, Mild, Firm, Basic, Marks, Shared, Spent, Either,
           Section, Replace, Edit, Finding, Insert, Unless, MayLack, Marked
  <2> QED
    BY <2>1, GentleTame
<1>9. Tame(BootstrapSysArch)
  <2>1. Gentle(BootstrapSysArch)
    BY FilesAre
       DEF BootstrapSysArch, Gentle, Formed, Mild, Firm, Basic, Marks, Shared, Spent, Either, Anew,
           Section, Replace, Edit, Finding, Insert, Unless, MayLack, Marked
  <2> QED
    BY <2>1, GentleTame
<1>10. \A i \in 1 .. 11 : Tame(b[i])
  BY <1>1, <1>5, <1>7, LibztTame DEF Split
<1> QED
  BY <1>2, <1>6, <1>8, <1>9, <1>10 DEF Split

\* the anchor check, the stubs and patch-ldn-zt.py, which have files of their own.
LEMMA LdnTame ==
  /\ \A i \in 1 .. 36 : Tame(PatchLdn[i])
  /\ \A i \in 1 .. 4 : Tame(AnchorCheck[i])
  /\ \A i \in 1 .. 9 : Tame(StubStep[i])
<1>1. /\ LdnPreconditions[1].file \notin Shared
      /\ \A i \in 1 .. 4 : LdnCopies[i].file \notin Shared
      /\ \A i \in 1 .. 3 : LdnMakefile[i].file \notin Shared
  BY DEF LdnPreconditions, LdnCopies, LdnMakefile, Copy, Section, Shared
<1>2. /\ \A i \in 1 .. 3 : LdnMain[i].file = "ldnmitm_main"
      /\ \A i \in 1 .. 10 : LdnProtocol[i].file = "lan_protocol"
      /\ \A i \in 1 .. 12 : LdnDiscovery[i].file = "lan_discovery"
      /\ \A i \in 1 .. 3 : LdnService[i].file = "ldn_icommunication"
  BY LdnWritten DEF WrittenTo
<1>3. {"ldnmitm_main", "lan_protocol", "lan_discovery", "ldn_icommunication", "checkout",
       "bridgeHpp", "stubs", "Makefile"} \cap Shared = {}
  BY DEF Shared
<1>4. \A i \in 1 .. 36 : PatchLdn[i].file \notin Shared
  <2> SUFFICES ASSUME NEW i \in 1 .. 36 PROVE PatchLdn[i].file \notin Shared
    OBVIOUS
  <2>1. CASE i = 1
    BY <1>1, <2>1, LdnParts
  <2>2. CASE i \in 2 .. 5
    BY <1>1, <2>2, LdnParts
  <2>3. CASE i \in 6 .. 8
    BY <1>2, <1>3, <2>3, LdnParts
  <2>4. CASE i \in 9 .. 18
    BY <1>2, <1>3, <2>4, LdnParts
  <2>5. CASE i \in 19 .. 30
    BY <1>2, <1>3, <2>5, LdnParts
  <2>6. CASE i \in 31 .. 33
    BY <1>2, <1>3, <2>6, LdnParts
  <2>7. CASE i \in 34 .. 36
    BY <1>1, <2>7, LdnParts
  <2> QED
    BY <2>1, <2>2, <2>3, <2>4, <2>5, <2>6, <2>7
<1>5. \A i \in 1 .. 36 : Tame(PatchLdn[i])
  BY <1>4, LdnScript, ElsewhereTame
<1>6. \A i \in 1 .. 4 : AnchorCheck[i].file \notin Shared
  BY <1>3 DEF AnchorCheck, AllOf, Section
<1>7. \A i \in 1 .. 4 : Tame(AnchorCheck[i])
  BY <1>6, CheckScript, ElsewhereTame DEF AllGood, Good
<1>8. \A i \in 1 .. 9 : StubStep[i].file \notin Shared
  <2> DEFINE a == <<Section("checkout", <<Need("ldn_mitm-pin"), Need("Atmosphere-pin")>>)>>
             b == a \o AnchorCheck
             c == <<Copy("bridgeHpp"), Copy("stubs"),
                    Section("ldn_icommunication",
                      <<IfFound(Insert("arpa/inet.h", "zt_bridge.hpp")),
                        Insert("lanDiscovery.initialize-line", "ztbridge::init")>>),
                    Section("Makefile", <<Refuse("-lzt")>>)>>
  <2>1. IsSeq(a) /\ Len(a) = 1 /\ a[1].file \notin Shared
    <3>1. a \in Seq({a[1]}) /\ Len(a) = 1
      OBVIOUS
    <3> QED
      BY <1>3, <3>1 DEF IsSeq, Section
  <2>2. IsSeq(c) /\ Len(c) = 4 /\ \A i \in 1 .. 4 : c[i].file \notin Shared
    <3>1. c \in Seq({c[i] : i \in 1 .. 4}) /\ Len(c) = 4
      OBVIOUS
    <3>2. /\ c[1].file = "bridgeHpp" /\ c[2].file = "stubs"
          /\ c[3].file = "ldn_icommunication" /\ c[4].file = "Makefile"
      BY DEF Section, Copy
    <3>3. IsSeq(c) /\ Len(c) = 4
      BY <3>1 DEF IsSeq
    <3> HIDE DEF c
    <3>4. \A i \in 1 .. 4 : c[i].file \notin Shared
      BY <1>3, <3>2
    <3> QED
      BY <3>3, <3>4
  <2>3. StubStep = b \o c /\ b = a \o AnchorCheck
    BY DEF StubStep
  <2> HIDE DEF a, b, c
  <2>4. Split(b, a, 1, AnchorCheck, 4)
    <3>1. Split(a \o AnchorCheck, a, 1, AnchorCheck, 4)
      BY <2>1, CheckScript, Joined DEF AllGood
    <3> QED
      BY <2>3, <3>1, Zenon
  <2>5. Split(StubStep, b, 5, c, 4)
    <3>1. IsSeq(b) /\ Len(b) = 5
      BY <2>4 DEF Split
    <3>2. Split(b \o c, b, 5, c, 4)
      BY <2>2, <3>1, Joined
    <3> QED
      BY <2>3, <3>2, Zenon
  <2>6. \A i \in 1 .. 5 : b[i].file \notin Shared
    BY <1>6, <2>1, <2>4 DEF Split
  <2> QED
    BY <2>2, <2>5, <2>6 DEF Split
<1>9. \A i \in 1 .. 9 : Tame(StubStep[i])
  BY <1>8, StubScript, ElsewhereTame
<1> QED
  BY <1>5, <1>7, <1>9

\* The scripts of Rerunnable consist of sections that can be repeated,
LEMMA RerunnableRepeat ==
  /\ \A i \in 1 .. 7 : Repeats(PatchLwip[i])
  /\ \A i \in 1 .. 2 : Repeats(PatchPhy[i])
  /\ Repeats(RestoreChecksum[1])
  /\ Repeats(PatchPeerInfo[1])
  /\ \A i \in 1 .. 2 : Repeats(PatchKeepalive[i])
  /\ \A i \in 1 .. 4 : Repeats(PatchAuthTrace[i])
  /\ \A i \in 1 .. 2 : Repeats(PatchHotPath[i])
<1>1. \A i \in 1 .. 7 : Repeats(PatchLwip[i])
  BY LwipRepeats, SysArchRepeats DEF PatchLwip
<1>2. \A i \in 1 .. 2 : Repeats(PatchPhy[i])
  BY OtherRepeats DEF PatchPhy
<1>3. \A i \in 1 .. 2 : Repeats(PatchKeepalive[i])
  BY OtherRepeats, PeriodsRepeat DEF PatchKeepalive
<1>4. \A i \in 1 .. 2 : Repeats(PatchHotPath[i])
  BY OtherRepeats DEF PatchHotPath
<1>5. \A i \in 1 .. 4 : Repeats(PatchAuthTrace[i])
  <2> DEFINE b == <<AuthIncoming, AuthPeer>>
  <2>1. IsSeq(b) /\ Len(b) = 2 /\ b[1] = AuthIncoming /\ b[2] = AuthPeer
    <3>1. b \in Seq({b[i] : i \in 1 .. 2}) /\ Len(b) = 2
      OBVIOUS
    <3> QED
      BY <3>1 DEF IsSeq
  <2>2. PatchAuthTrace = AuthFilesExist \o b
    BY DEF PatchAuthTrace
  <2>3. IsSeq(AuthFilesExist) /\ Len(AuthFilesExist) = 2
    <3>1. AuthFilesExist \in Seq({AuthFilesExist[i] : i \in 1 .. 2}) /\ Len(AuthFilesExist) = 2
      BY DEF AuthFilesExist
    <3> QED
      BY <3>1 DEF IsSeq
  <2> HIDE DEF b
  <2>4. Split(PatchAuthTrace, AuthFilesExist, 2, b, 2)
    <3>1. Split(AuthFilesExist \o b, AuthFilesExist, 2, b, 2)
      BY <2>1, <2>3, Joined
    <3> QED
      BY <2>2, <3>1, Zenon
  <2> QED
    BY <2>1, <2>4, OtherRepeats DEF Split
<1> QED
  BY <1>1, <1>2, <1>3, <1>4, <1>5, OtherRepeats

\* and no section of any script spoils what they rely on.
LEMMA ScriptsAreTame ==
  /\ \A s \in Rerunnable : \A i \in 1 .. Len(Script[s]) : Repeats(Script[s][i])
  /\ \A s \in Scripts : \A i \in 1 .. Len(Script[s]) : Tame(Script[s][i])
<1>1. /\ Script["bootstrap"] = PatchBootstrap /\ Script["libzt"] = PatchLibzt
      /\ Script["lwip"] = PatchLwip /\ Script["phy"] = PatchPhy
      /\ Script["restore"] = RestoreChecksum /\ Script["peerinfo"] = PatchPeerInfo
      /\ Script["keepalive"] = PatchKeepalive /\ Script["auth"] = PatchAuthTrace
      /\ Script["hotpath"] = PatchHotPath /\ Script["ldn"] = PatchLdn
      /\ Script["check"] = AnchorCheck /\ Script["stubs"] = StubStep
  BY DEF Script
<1>2. Scripts = {"bootstrap", "libzt", "ldn", "check", "stubs"} \cup Rerunnable
  BY DEF Scripts, Script, Rerunnable
<1>3. /\ Len(PatchBootstrap) = 13 /\ Len(PatchLibzt) = 10 /\ Len(PatchLwip) = 7
      /\ Len(PatchPhy) = 2 /\ Len(RestoreChecksum) = 1 /\ Len(PatchPeerInfo) = 1
      /\ Len(PatchKeepalive) = 2 /\ Len(PatchAuthTrace) = 4 /\ Len(PatchHotPath) = 2
      /\ Len(PatchLdn) = 36 /\ Len(AnchorCheck) = 4 /\ Len(StubStep) = 9
  BY BootstrapScript, ShortScripts, AuthScript, LdnParts, CheckScript, StubScript DEF AllGood
<1>4. ASSUME NEW s \in Rerunnable, NEW i \in 1 .. Len(Script[s]) PROVE Repeats(Script[s][i])
  <2>1. s \in {"lwip", "phy", "restore", "peerinfo", "keepalive", "auth", "hotpath"}
    BY DEF Rerunnable
  <2>2. CASE s = "restore"
    <3>1. Script[s] = RestoreChecksum /\ i \in 1 .. 1
      BY <1>1, <1>3, <2>2
    <3> QED
      BY <3>1, RerunnableRepeat
  <2>3. CASE s = "peerinfo"
    <3>1. Script[s] = PatchPeerInfo /\ i \in 1 .. 1
      BY <1>1, <1>3, <2>3
    <3> QED
      BY <3>1, RerunnableRepeat
  <2>4. CASE s = "lwip"
    BY <1>1, <1>3, <2>4, RerunnableRepeat
  <2>5. CASE s = "auth"
    BY <1>1, <1>3, <2>5, RerunnableRepeat
  <2>6. CASE s \in {"phy", "keepalive", "hotpath"}
    <3>1. i \in 1 .. 2 /\ Script[s] \in {PatchPhy, PatchKeepalive, PatchHotPath}
      BY <1>1, <1>3, <2>6
    <3> QED
      BY <3>1, RerunnableRepeat
  <2> QED
    BY <2>1, <2>2, <2>3, <2>4, <2>5, <2>6
<1>5. ASSUME NEW s \in {"bootstrap", "libzt", "ldn", "check", "stubs"},
             NEW i \in 1 .. Len(Script[s])
      PROVE  Tame(Script[s][i])
  BY <1>1, <1>3, BootstrapTame, LibztTame, LdnTame
<1>6. \A k : Repeats(k) => Tame(k)
  BY DEF Repeats
<1> QED
  BY <1>2, <1>4, <1>5, <1>6

-----------------------------------------------------------------------------
(* Any order of runs.                                                      *)

\* The passages that the usual checkout has.
LEMMA SourcesAreUsual ==
  ASSUME NEW f \in Files
  PROVE  /\ Basic(f) \subseteq Sources[f]
         /\ \A c \in Either(f) : c[1] \in Sources[f] \/ c[2] \in Sources[f]
<1>1. CASE f \notin Shared
  BY <1>1 DEF Basic, Either, Shared
<1>2. ASSUME f \in Shared PROVE Sources[f] = Upstream[f]
  <2>1. Shared \subseteq DOMAIN Upstream
    BY DEF Shared, Upstream
  <2> QED
    BY <1>2, <2>1 DEF Sources, Both
<1>3. CASE f \in {"main", "posix", "Constants"}
  BY <1>2, <1>3 DEF Basic, Either, Shared, Upstream
<1>4. CASE f \in {"Phy", "VirtualTap"}
  BY <1>2, <1>4 DEF Basic, Either, Shared, Upstream
<1>5. CASE f \in {"sys_arch", "tcpip"}
  BY <1>2, <1>5 DEF Basic, Either, Shared, Upstream
<1>6. CASE f \in {"OSUtils", "NodeService", "Node"}
  BY <1>2, <1>6 DEF Basic, Either, Shared, Upstream
<1>7. CASE f \in {"Incoming", "Peer"}
  BY <1>2, <1>7 DEF Basic, Either, Shared, Upstream
<1> QED
  BY <1>1, <1>3, <1>4, <1>5, <1>6, <1>7 DEF Shared

\* A usual checkout, which no script has touched yet, is mended.
LEMMA MendedInitially == Init => Mended
<1> SUFFICES ASSUME Init, lost = Nothing
             PROVE  /\ \A f \in Files \ cut : Usual(f, tree[f])
                    /\ \A s \in Rerunnable : \A i \in 1 .. Len(Script[s]) :
                         outcome[s] # "done" /\ ~Past(s, i)
  BY DEF Mended
<1>1. tree = [f \in Files |-> SetToBag(Sources[f])]
  <2>1. Nothing # Older
    BY DEF Nothing, Older
  <2>2. tree = Checkout(Nothing)
    BY DEF Init
  <2>3. tree = Text(Sources)
    BY <2>1, <2>2 DEF Checkout
  <2> QED
    BY <2>3 DEF Text
<1>2. ASSUME NEW f \in Files PROVE Usual(f, tree[f])
  <2>1. /\ IsABag(tree[f]) /\ Passages(tree[f]) = Sources[f]
        /\ \A p : CountIn(p, tree[f]) <= 1
    <3>1. tree[f] = SetToBag(Sources[f])
      BY <1>1
    <3>2. /\ IsABag(tree[f]) /\ Passages(tree[f]) = Sources[f]
          /\ \A p : CountIn(p, tree[f]) = IF p \in Sources[f] THEN 1 ELSE 0
      BY <3>1, SetBag
    <3> QED
      BY <3>2
  <2> QED
    BY <2>1, SourcesAreUsual DEF Usual
<1>3. ASSUME NEW s \in Rerunnable PROVE s \in Scripts /\ s # Idle
  BY DEF Rerunnable, Scripts, Script, Idle
<1> QED
  BY <1>2, <1>3 DEF Init, Past

\* What has nothing left to do keeps having nothing left to do.
LEMMA RestingLasts ==
  ASSUME NEW k, NEW t, NEW u, Resting(k, t), Leads(k.file, t, u)
  PROVE  Resting(k, u)
<1>1. CASE k.marker \cap Firm(k.file) \cap Passages(t) # {}
  BY <1>1 DEF Leads, Resting
<1>2. CASE \A i \in 1 .. Len(k.edits) :
             Over(k.file, k.edits[i], t) \/ Again(k.file, k.edits[i], t)
  <2>1. \A i \in 1 .. Len(k.edits) :
          Over(k.file, k.edits[i], u) \/ Again(k.file, k.edits[i], u)
    BY <1>2, OverLasts
  <2> QED
    BY <2>1 DEF Resting
<1> QED
  BY <1>1, <1>2 DEF Resting

\* The scripts of Rerunnable and their sections.
LEMMA RerunnableFacts ==
  ASSUME NEW s \in Rerunnable
  PROVE  /\ s \in Scripts /\ s # Idle /\ Len(Script[s]) \in Nat
         /\ \A i \in 1 .. Len(Script[s]) :
              Repeats(Script[s][i]) /\ Script[s][i].file \in Files
<1>1. s \in Scripts /\ s # Idle
  BY DEF Rerunnable, Scripts, Script, Idle
<1>2. Facts(s, Script[s])
  BY <1>1, SectionFacts
<1>3. \A i \in 1 .. Len(Script[s]) : Repeats(Script[s][i])
  BY ScriptsAreTame
<1> QED
  BY <1>1, <1>2, <1>3 DEF Facts, Formed

\* Every step keeps Mended: a section of whatever script leaves its file usual and what
\* rests at rest, and one of a script that can be repeated rests itself after that.
LEMMA MendedStep == Typed /\ Mended /\ [Next]_vars => Mended'
<1> SUFFICES ASSUME Typed, Mended, [Next]_vars PROVE Mended'
  OBVIOUS
<1>1. ASSUME UNCHANGED lost,
             \A f \in Files \ cut' : f \notin cut /\ tree'[f] = tree[f],
             \A s \in Rerunnable : \A i \in 1 .. Len(Script[s]) :
               (outcome[s] = "done" \/ Past(s, i))' => outcome[s] = "done" \/ Past(s, i)
      PROVE  Mended'
  <2> SUFFICES ASSUME lost' = Nothing
               PROVE  /\ \A f \in Files \ cut' : Usual(f, tree'[f])
                      /\ \A s \in Rerunnable : \A i \in 1 .. Len(Script[s]) :
                           Script[s][i].file \notin cut' /\ (outcome[s] = "done" \/ Past(s, i))' =>
                             Resting(Script[s][i], tree'[Script[s][i].file])
    BY DEF Mended
  <2>1. \A f \in Files \ cut' : Usual(f, tree'[f])
    BY <1>1 DEF Mended
  <2>2. ASSUME NEW s \in Rerunnable, NEW i \in 1 .. Len(Script[s]),
               Script[s][i].file \notin cut', (outcome[s] = "done" \/ Past(s, i))'
        PROVE  Resting(Script[s][i], tree'[Script[s][i].file])
    <3>1. Script[s][i].file \in Files
      BY RerunnableFacts
    <3>2. /\ Script[s][i].file \notin cut
          /\ tree'[Script[s][i].file] = tree[Script[s][i].file]
          /\ outcome[s] = "done" \/ Past(s, i)
      BY <1>1, <2>2, <3>1
    <3>3. Resting(Script[s][i], tree[Script[s][i].file])
      BY <1>1, <3>2 DEF Mended
    <3> QED
      BY <3>2, <3>3
  <2> QED
    BY <2>1, <2>2
<1>2. ASSUME NEW s \in work, Start(s) PROVE Mended'
  <2>1. ASSUME NEW r \in Rerunnable, NEW i \in 1 .. Len(Script[r]) PROVE ~Past(r, i)'
    BY <1>2, RerunnableFacts DEF Past, Start
  <2>2. UNCHANGED <<lost, tree, cut, outcome>>
    BY <1>2 DEF Start
  <2> QED
    BY <1>1, <2>1, <2>2
<1>3. ASSUME NEW how \in {"done", "cut-short"}, End(how), running # Idle,
             how = "done" => step > Len(Script[running]),
             \A f \in Files \ cut' : f \notin cut /\ tree'[f] = tree[f]
      PROVE  Mended'
  <2>1. ASSUME NEW r \in Rerunnable, NEW i \in 1 .. Len(Script[r])
        PROVE  /\ ~Past(r, i)'
               /\ outcome'[r] = "done" => outcome[r] = "done" \/ Past(r, i)
    <3>1. /\ running' = Idle /\ outcome' = [outcome EXCEPT ![running] = how]
          /\ outcome \in [Scripts -> {"never-run", "done", "cut-short"}]
      BY <1>3 DEF End, Typed, TypeOK
    <3>2. r \in Scripts /\ r # Idle /\ Len(Script[r]) \in Nat
      BY RerunnableFacts
    <3>3. CASE r = running /\ how = "done"
      <4>1. step \in Nat /\ step > Len(Script[r])
        BY <1>3, <3>2, <3>3 DEF Typed, TypeOK
      <4> QED
        BY <3>1, <3>2, <3>3, <4>1 DEF Past
    <3>4. CASE r = running /\ how = "cut-short"
      BY <3>1, <3>2, <3>4 DEF Past
    <3>5. CASE r # running
      BY <3>1, <3>2, <3>5 DEF Past
    <3> QED
      BY <1>3, <3>3, <3>4, <3>5
  <2>2. UNCHANGED lost
    BY <1>3 DEF End
  <2> QED
    BY <1>1, <1>3, <2>1, <2>2
<1>4. CASE RunSection
  <2> SUFFICES ASSUME lost' = Nothing
               PROVE  /\ \A f \in Files \ cut : Usual(f, tree'[f])
                      /\ \A s \in Rerunnable : \A i \in 1 .. Len(Script[s]) :
                           Script[s][i].file \notin cut /\ (outcome[s] = "done" \/ Past(s, i))' =>
                             Resting(Script[s][i], tree'[Script[s][i].file])
    BY <1>4 DEF Mended, RunSection
  <2>1. /\ ~Aborts(tree[Now.file], Now)
        /\ step' = step + 1 /\ UNCHANGED <<lost, cut, running, outcome>>
    BY <1>4 DEF RunSection
  <2>2. /\ \A f \in Files \ cut : Usual(f, tree[f])
        /\ \A s \in Rerunnable : \A i \in 1 .. Len(Script[s]) :
             Script[s][i].file \notin cut /\ (outcome[s] = "done" \/ Past(s, i)) =>
               Resting(Script[s][i], tree[Script[s][i].file])
    BY <2>1 DEF Mended
  <2>3. /\ running \in Scripts /\ step \in 1 .. Len(Script[running])
        /\ Now.file \in Files
        /\ \A f \in Files : f # Now.file => tree'[f] = tree[f]
        /\ tree'[Now.file] = Rewritten(tree[Now.file], Now)
    BY <1>4, SectionStep DEF Formed
  <2>4. Tame(Now)
    BY <2>3, ScriptsAreTame DEF Now
  <2>5. ASSUME NEW f \in Files \ cut PROVE Leads(f, tree[f], tree'[f])
    <3>1. CASE f = Now.file
      <4>1. Usual(Now.file, tree[Now.file])
        BY <2>2, <2>3, <3>1
      <4>2. Leads(Now.file, tree[Now.file], Rewritten(tree[Now.file], Now))
        BY <2>1, <2>4, <4>1 DEF Tame
      <4> QED
        BY <2>3, <3>1, <4>2
    <3>2. CASE f # Now.file
      BY <2>2, <2>3, <3>2, LeadsOn
    <3> QED
      BY <3>1, <3>2
  <2>6. \A f \in Files \ cut : Usual(f, tree'[f])
    BY <2>5 DEF Leads
  <2>7. ASSUME NEW s \in Rerunnable, NEW i \in 1 .. Len(Script[s]),
               Script[s][i].file \notin cut,
               (outcome[s] = "done" \/ Past(s, i))'
        PROVE  Resting(Script[s][i], tree'[Script[s][i].file])
    <3> DEFINE k == Script[s][i]
    <3>1. k.file \in Files \ cut /\ Repeats(k)
      BY <2>7, RerunnableFacts
    <3>2. CASE outcome[s] = "done" \/ Past(s, i)
      <4>1. Resting(k, tree[k.file])
        BY <2>2, <2>7, <3>2
      <4>2. Leads(k.file, tree[k.file], tree'[k.file])
        BY <2>5, <3>1
      <4> HIDE DEF k
      <4>3. Resting(k, tree'[k.file])
        BY <4>1, <4>2, RestingLasts
      <4> QED
        BY <4>3 DEF k
    <3>3. CASE ~(outcome[s] = "done" \/ Past(s, i))
      <4>1. running = s /\ step = i
        <5>1. Len(Script[s]) \in Nat
          BY RerunnableFacts
        <5>2. step \in Int /\ i \in Int
          BY <2>3, <5>1 DEF Typed, TypeOK
        <5>3. running = s /\ step + 1 > i /\ ~(running = s /\ step > i)
          BY <2>1, <2>7, <3>3 DEF Past
        <5> QED
          BY <5>2, <5>3
      <4>2. Now = k
        BY <4>1 DEF Now
      <4>3. Usual(k.file, tree[k.file])
        BY <2>2, <3>1
      <4> HIDE DEF k
      <4>4. Resting(k, Rewritten(tree[k.file], k))
        BY <3>1, <4>3 DEF Repeats
      <4>5. Resting(k, tree'[k.file])
        BY <2>3, <4>2, <4>4
      <4> QED
        BY <4>5 DEF k
    <3> QED
      BY <3>2, <3>3
  <2> QED
    BY <2>6, <2>7
<1>5. CASE SystemExit
  BY <1>3, <1>5 DEF SystemExit, Editing
<1>6. CASE Finish
  BY <1>3, <1>6 DEF Finish
<1>7. CASE Kill
  BY <1>3, <1>7 DEF Kill
<1>8. CASE UNCHANGED vars
  BY <1>1, <1>8 DEF vars, Past
<1>9. CASE CutWrite
  <2>1. /\ End("cut-short") /\ running # Idle /\ cut' = cut \cup {Now.file}
        /\ \A f \in Files : f # Now.file => tree'[f] = tree[f]
    BY <1>9, CutStep
  <2>2. \A f \in Files \ cut' : f \notin cut /\ tree'[f] = tree[f]
    BY <2>1
  <2> QED
    BY <1>3, <2>1, <2>2
<1> QED
  BY <1>2, <1>4, <1>5, <1>6, <1>7, <1>8, <1>9 DEF Next

\* It holds all the time.
LEMMA MendedInvariant == Spec => []Mended
<1>1. Init => Mended
  BY MendedInitially
<1>2. Typed /\ Mended /\ [Next]_vars => Mended'
  BY MendedStep
<1> QED
  BY <1>1, <1>2, TypedInvariant, PTL DEF Spec

-----------------------------------------------------------------------------
(* The run after that.                                                     *)

\* Where a new run of s stands: its files are usual, and those that an earlier run has
\* completed are still the same.
Repeated(s, t) ==
  /\ RunState(t) /\ t.ok
  /\ \A f \in Files : IsABag(t.files[f])
  /\ \A f \in TouchedBy(s) : Usual(f, t.files[f])
  /\ outcome[s] = "done" =>
       /\ \A i \in 1 .. Len(Script[s]) :
            Resting(Script[s][i], t.files[Script[s][i].file])
       /\ \A f \in Files : Same(tree[f], t.files[f])

\* Sameness is an equivalence.
LEMMA SameIsSame ==
  /\ \A t : Same(t, t)
  /\ \A t, u, v : Same(t, u) /\ Same(u, v) => Same(t, v)
<1>1. \A t : Same(t, t)
  BY Zenon DEF Same
<1>2. ASSUME NEW t, NEW u, NEW v, Same(t, u), Same(u, v) PROVE Same(t, v)
  <2>1. ASSUME NEW p, p \notin Indifferent PROVE CountIn(p, t) = CountIn(p, v)
    <3>1. CountIn(p, t) = CountIn(p, u) /\ CountIn(p, u) = CountIn(p, v)
      BY <1>2, <2>1, Zenon DEF Same
    <3> QED
      BY <3>1
  <2> QED
    BY <2>1, Zenon DEF Same
<1> QED
  BY <1>1, <1>2

\* The next section goes through and leaves it so.
LEMMA RepeatedOn ==
  ASSUME NEW s \in Rerunnable, NEW j \in 1 .. Len(Script[s]), NEW t, Repeated(s, t)
  PROVE  Repeated(s, Onward(t, Script[s][j]))
<1> DEFINE k == Script[s][j]
           u == Onward(t, k)
<1>1. k.file \in Files /\ Repeats(k) /\ k.file \in TouchedBy(s) /\ TouchedBy(s) \subseteq Files
  BY RerunnableFacts DEF TouchedBy
<1>2. /\ RunState(t) /\ t.ok /\ \A f \in TouchedBy(s) : Usual(f, t.files[f])
      /\ \A f \in Files : IsABag(t.files[f])
  BY DEF Repeated
<1>3. outcome[s] = "done" => Resting(k, t.files[k.file])
  BY DEF Repeated
<1> HIDE DEF k
<1>4. Usual(k.file, t.files[k.file])
  BY <1>1, <1>2
<1>5. /\ ~Aborts(t.files[k.file], k)
      /\ Leads(k.file, t.files[k.file], Rewritten(t.files[k.file], k))
      /\ outcome[s] = "done" => Same(t.files[k.file], Rewritten(t.files[k.file], k))
  <2>1. Tame(k) /\ ~Aborts(t.files[k.file], k)
    BY <1>1, <1>4 DEF Repeats
  <2>2. Leads(k.file, t.files[k.file], Rewritten(t.files[k.file], k))
    BY <1>4, <2>1 DEF Tame
  <2>3. outcome[s] = "done" => Same(t.files[k.file], Rewritten(t.files[k.file], k))
    BY <1>1, <1>3, <1>4 DEF Repeats
  <2> QED
    BY <2>1, <2>2, <2>3
<1>6. /\ RunState(u) /\ u.ok
      /\ u.files[k.file] = Rewritten(t.files[k.file], k)
      /\ \A f \in Files : f # k.file => u.files[f] = t.files[f]
  BY <1>1, <1>2, <1>5, OnwardFiles
<1> HIDE DEF u
<1>7. ASSUME NEW f \in TouchedBy(s)
      PROVE  /\ Leads(f, t.files[f], u.files[f])
             /\ outcome[s] = "done" => Same(t.files[f], u.files[f])
  <2>1. CASE f = k.file
    BY <1>5, <1>6, <2>1
  <2>2. CASE f # k.file
    <3>1. u.files[f] = t.files[f] /\ Usual(f, t.files[f])
      BY <1>1, <1>2, <1>6, <2>2
    <3> QED
      BY <3>1, LeadsOn, SameIsSame
  <2> QED
    BY <2>1, <2>2
<1>8. /\ \A f \in TouchedBy(s) : Usual(f, u.files[f])
      /\ \A f \in Files : IsABag(u.files[f])
  <2>1. \A f \in TouchedBy(s) : Usual(f, u.files[f])
    BY <1>7 DEF Leads
  <2>2. IsABag(u.files[k.file])
    BY <1>1, <2>1 DEF Usual
  <2> QED
    BY <1>2, <1>6, <2>1, <2>2
<1>9. ASSUME outcome[s] = "done", NEW i \in 1 .. Len(Script[s])
      PROVE  Resting(Script[s][i], u.files[Script[s][i].file])
  <2> DEFINE m == Script[s][i]
  <2>1. m.file \in TouchedBy(s)
    BY RerunnableFacts DEF TouchedBy
  <2>2. Resting(m, t.files[m.file])
    BY <1>9 DEF Repeated
  <2>3. Leads(m.file, t.files[m.file], u.files[m.file])
    BY <1>7, <2>1
  <2> HIDE DEF m
  <2>4. Resting(m, u.files[m.file])
    BY <2>2, <2>3, RestingLasts
  <2> QED
    BY <2>4 DEF m
<1>10. ASSUME outcome[s] = "done", NEW f \in Files PROVE Same(tree[f], u.files[f])
  <2>1. Same(tree[f], t.files[f]) /\ Same(t.files[f], u.files[f])
    <3>1. f # k.file => u.files[f] = t.files[f]
      BY <1>6
    <3> QED
      BY <1>1, <1>7, <1>10, <3>1, SameIsSame DEF Repeated
  <2> QED
    BY <2>1, SameIsSame
<1>11. Repeated(s, u)
  BY <1>6, <1>8, <1>9, <1>10 DEF Repeated
<1> QED
  BY <1>11 DEF u, k

\* So does the whole run.
LEMMA RunsAgain ==
  ASSUME Typed, Mended, lost = Nothing, NEW s \in Rerunnable,
         TouchedBy(s) \cap cut = {}
  PROVE  Repeated(s, RunOver(s, tree))
<1> DEFINE n == Len(Script[s])
<1>1. n \in Nat
  BY RerunnableFacts
<1>2. PICK a : /\ a[0] = Started(tree)
               /\ \A i \in 1 .. n : a[i] = Onward(a[i - 1], Script[s][i])
               /\ RunOver(s, tree) = a[n]
  BY <1>1, RunSteps
<1> DEFINE S == {i \in 0 .. n : Repeated(s, a[i])}
<1>3. 0 \in S
  <2>1. RunState(a[0]) /\ a[0].ok /\ a[0].files = tree
    BY <1>2, StartedRuns DEF Typed, TreeOK
  <2>2. /\ \A f \in TouchedBy(s) : Usual(f, tree[f])
        /\ \A f \in Files : IsABag(tree[f])
        /\ outcome[s] = "done" =>
             \A i \in 1 .. Len(Script[s]) : Resting(Script[s][i], tree[Script[s][i].file])
    <3>1. /\ TouchedBy(s) \subseteq Files \ cut
          /\ \A i \in 1 .. Len(Script[s]) : Script[s][i].file \notin cut
      BY RerunnableFacts DEF TouchedBy
    <3> QED
      BY <3>1 DEF Mended, Typed, TreeOK
  <2>3. Repeated(s, a[0])
    BY <2>1, <2>2, SameIsSame DEF Repeated
  <2> QED
    BY <1>1, <2>3
<1>4. ASSUME NEW i \in 1 .. n, i - 1 \in S PROVE i \in S
  <2>1. Repeated(s, a[i - 1])
    BY <1>4
  <2>2. Repeated(s, Onward(a[i - 1], Script[s][i]))
    BY <2>1, RepeatedOn
  <2>3. Repeated(s, a[i])
    BY <1>2, <2>2
  <2> QED
    BY <2>3
<1> HIDE DEF S, n
<1>5. \A i \in 0 .. n : i \in S
  BY <1>1, <1>3, <1>4, UpTo
<1>6. n \in S
  BY <1>1, <1>5
<1> USE DEF S
<1>7. Repeated(s, a[n])
  BY <1>6
<1> QED
  BY <1>2, <1>7

\* The same but for what may differ, so the same copies of all that counts.
LEMMA SameCopies ==
  ASSUME NEW t, NEW u, NEW f, IsABag(t[f]), IsABag(u[f]), Same(t[f], u[f])
  PROVE  Copies(u, f) = Copies(t, f)
<1>1. ASSUME NEW p, p \notin Indifferent
      PROVE  /\ CountIn(p, t[f]) = CountIn(p, u[f])
             /\ p \in Passages(t[f]) <=> p \in Passages(u[f])
  <2>1. CountIn(p, t[f]) = CountIn(p, u[f])
    BY <1>1, Zenon DEF Same
  <2>2. /\ p \in Passages(t[f]) <=> CountIn(p, t[f]) > 0
        /\ p \in Passages(u[f]) <=> CountIn(p, u[f]) > 0
    BY EditedCopies
  <2> QED
    BY <2>1, <2>2
<1>2. Result(t, f) = Result(u, f)
  BY <1>1 DEF Result
<1>3. \A p \in Result(t, f) : CountIn(p, t[f]) = CountIn(p, u[f])
  BY <1>1 DEF Result
<1> QED
  BY <1>2, <1>3 DEF Copies

\* On the usual checkout a script of Rerunnable goes through whenever it is run again,
\* after a kill as after a success, whatever other scripts share the checkout and in
\* whatever order they have run, unless a write to one of its files was cut short; after
\* a success it changes nothing but the passages that phy and restore fight over.
THEOREM ScriptsAreRepeatable == Spec => []RepeatIsHarmless
<1>1. Typed /\ Mended => RepeatIsHarmless
  <2> SUFFICES ASSUME Typed, Mended, lost = Nothing, NEW s \in work \cap Rerunnable,
                      TouchedBy(s) \cap cut = {}
               PROVE  LET again == RunOver(s, tree)
                      IN  /\ again.ok
                          /\ outcome[s] = "done" =>
                               \A f \in Files : Copies(again.files, f) = Copies(tree, f)
    BY DEF RepeatIsHarmless
  <2> DEFINE again == RunOver(s, tree)
  <2>1. Repeated(s, again)
    BY RunsAgain
  <2> HIDE DEF again
  <2>2. ASSUME outcome[s] = "done", NEW f \in Files
        PROVE  Copies(again.files, f) = Copies(tree, f)
    <3>1. Same(tree[f], again.files[f]) /\ IsABag(again.files[f])
      BY <2>1, <2>2 DEF Repeated
    <3>2. IsABag(tree[f]) /\ IsABag(again.files[f])
      BY <3>1 DEF Typed, TreeOK
    <3> QED
      BY <3>1, <3>2, SameCopies
  <2>3. again.ok
    BY <2>1 DEF Repeated
  <2> QED
    BY <2>2, <2>3 DEF again
<1> QED
  BY <1>1, TypedInvariant, MendedInvariant, PTL

-----------------------------------------------------------------------------
(* What a script that succeeds leaves behind.                              *)

\* The passages whose loss a script skips over, but for the two periods.
Hints(f) ==
  IF f = "CMake" THEN {"MINIUPNPC-flag"}
  ELSE IF f = "Constants" THEN {"ZT_INLINE"}
  ELSE IF f = "OSUtils" THEN {"exists"}
  ELSE IF f = "Phy" THEN {"UNIX_LISTEN"}
  ELSE IF f = "NodeService" THEN {"stdlib.h"}
  ELSE IF f = "VirtualTap" THEN {"driver_init", "sys_thread_new("}
  ELSE IF f = "sys_arch" THEN {"pthread_create", "sys_thread_new(", "pthread.h"}
  ELSE IF f = "tcpip" THEN {"opt.h"}
  ELSE IF f = "ldn_icommunication" THEN {"arpa/inet.h"}
  ELSE {}

\* Those that are there when what was lost is neither in Unnoticed nor in
\* ReportedElsewhere.
Sure(w, f) ==
  IF f = "sys_arch" /\ "bootstrap" \in w THEN {"pthread_create", "sys_thread_new("}
  ELSE IF f = "ldn_icommunication" /\ "ldn" \in w THEN {}
  ELSE Hints(f)

\* What the scripts w never put into file f.
Absent(w, f) ==
  IF f = "tcpip" \/ (f = "sys_arch" /\ "bootstrap" \notin w) THEN {"switch.h"} ELSE {}

\* Passages that come with another one, as <<that one, passage>>.
Comes(f) ==
  IF f = "VirtualTap" THEN {"driver_init-entered"} \X {"switch.h", "sys_thread_new-result-shown"}
  ELSE IF f = "sys_arch" THEN {"entering"} \X {"switch.h", "code-shown", "return-NULL"}
  ELSE IF f = "OSUtils" THEN {<<"monotonic-now", "switch.h-first">>}
  ELSE IF f = "Phy" THEN {"UDP-recv"} \X {"stdio.h", "UDP-select-readable"}
  ELSE IF f = "NodeService" THEN {<<"NodeService-RX", "stdio.h">>}
  ELSE {}

\* The two periods, and what replaces them.
Instead(f) ==
  IF f = "Constants"
  THEN {<<"expiration-4-pings", "expiration-243-s">>, <<"trial-10-pings", "trial-600-s">>}
  ELSE {}

\* What some script takes out without a trace: what phy and restore fight over, and what
\* is left of an older application.
Passing == Indifferent \cup {"5-s", "3-sessions", "send-log", "recv-log"}

\* Once in file f, passage p stays.
Lasts(w, f, p) ==
  /\ p \notin Sources[f] \cup Passing
  /\ "ldn" \in w => <<f, p>> # <<"stubs", "copy">>

\* An edit that leaves p alone.
Spares(e, p) == p \in e.takes => p \in e.puts

\* Once the i-th edit of section k has been made, p is there: the edit puts it in,
Puts(w, k, i, p) ==
  /\ p \in k.edits[i].puts
  /\ k.edits[i].excuse \subseteq {p}
  /\ k.edits[i].when \subseteq Sure(w, k.file)
  /\ \A u \in k.edits[i].unless : u # p =>
       /\ u \in Absent(w, k.file) \/ <<u, p>> \in Comes(k.file)
       /\ \A j \in 1 .. i - 1 : u \notin k.edits[j].puts /\ Spares(k.edits[j], p)

\* or insists on it,
Insists(k, i, p) ==
  /\ p \in k.edits[i].needs /\ Spares(k.edits[i], p)
  /\ k.edits[i].when = {} /\ k.edits[i].unless = {} /\ k.edits[i].excuse = {}

\* or swaps for it what is there otherwise.
Swaps(k, i, p) ==
  /\ p \in k.edits[i].puts /\ k.edits[i].unless = {} /\ k.edits[i].excuse = {}
  /\ k.must /\ "ZT_PEER_PING_PERIOD" \in k.find
  /\ \E c \in Instead(k.file) : p = c[2] /\ k.edits[i].when = {c[1]}

\* A section that leaves p in its file unless it aborts.
Delivers(w, k, p) ==
  /\ Lasts(w, k.file, p)
  /\ k.must \/ k.find \subseteq Sure(w, k.file)
  /\ \A m \in k.marker : m = p \/ <<m, p>> \in Comes(k.file)
  /\ \E i \in 1 .. Len(k.edits) :
       /\ Puts(w, k, i, p) \/ Insists(k, i, p) \/ Swaps(k, i, p)
       /\ \A j \in i + 1 .. Len(k.edits) : Spares(k.edits[j], p)

\* A section that spoils nothing of all this.
Honest(w, k) ==
  /\ Formed(k)
  /\ \A i \in 1 .. Len(k.edits) :
       /\ k.edits[i].takes \cap Hints(k.file) = {}
       /\ k.edits[i].puts \cap Absent(w, k.file) = {}
       /\ \A p \in k.edits[i].takes :
            Lasts(w, k.file, p) => p \in k.edits[i].puts \/ Delivers(w, k, p)
       /\ \A c \in Comes(k.file) : c[1] \in k.edits[i].puts => Delivers(w, k, c[2])
       /\ \A c \in Instead(k.file) : /\ c[1] \in k.edits[i].takes => c[2] \in k.edits[i].puts
                                     /\ c[2] \in k.edits[i].takes => c[1] \in k.edits[i].puts
                                     /\ "ZT_PEER_PING_PERIOD" \notin k.edits[i].puts

\* One that delivers all that it may put in.
Pays(w, k) ==
  \A i \in 1 .. Len(k.edits) : \A p \in k.edits[i].puts :
    p \in Sources[k.file] \cup Indifferent \/ Delivers(w, k, p)

\* The text of file f lacks nothing that could go unnoticed.
Sound(w, f, text) ==
  /\ IsABag(text)
  /\ Sure(w, f) \subseteq Passages(text)
  /\ Absent(w, f) \cap Passages(text) = {}
  /\ \A c \in Comes(f) : c[1] \in Passages(text) => c[2] \in Passages(text)
  /\ \A c \in Instead(f) : "ZT_PEER_PING_PERIOD" \in Passages(text) =>
                             c[1] \in Passages(text) \/ c[2] \in Passages(text)

\* Nothing was lost without being noticed.
Noticed == lost \notin Unnoticed \cup ReportedElsewhere

\* What makes a success mean something: the text of each file whose writing was never cut
\* short is sound, and all that the sections behind have delivered there is there.
Reported ==
  Noticed =>
    /\ \A f \in Files \ cut : Sound(work, f, tree[f])
    /\ \A s \in work : \A i \in 1 .. Len(Script[s]) :
         Script[s][i].file \notin cut /\ (outcome[s] = "done" \/ Past(s, i)) =>
           \A p : Delivers(work, Script[s][i], p) => p \in Passages(tree[Script[s][i].file])

-----------------------------------------------------------------------------
\* Of two passages that replace each other one stays from draft to draft.
LEMMA DraftsHave ==
  ASSUME NEW text, IsABag(text), NEW s, Len(s.edits) \in Nat, NEW a, NEW b,
         NEW j \in 0 .. Len(s.edits), NEW m \in j .. Len(s.edits),
         \A i \in j + 1 .. m : /\ a \in s.edits[i].takes => b \in s.edits[i].puts
                               /\ b \in s.edits[i].takes => a \in s.edits[i].puts,
         a \in Passages(Drafts(text, s)[j]) \/ b \in Passages(Drafts(text, s)[j])
  PROVE  a \in Passages(Drafts(text, s)[m]) \/ b \in Passages(Drafts(text, s)[m])
<1> DEFINE n == Len(s.edits)
           D == Drafts(text, s)
           Has(i) == a \in Passages(D[i]) \/ b \in Passages(D[i])
           S == {i \in 0 .. n : i \in j .. m => Has(i)}
<1>1. \A i \in 1 .. n : D[i] = Edited(D[i - 1], s.edits[i])
  BY DraftSteps
<1>2. \A i \in 0 .. n : IsABag(D[i])
  BY DraftBags
<1>3. Has(j)
  OBVIOUS
<1> HIDE DEF D
<1>4. ASSUME NEW i \in j + 1 .. m, Has(i - 1) PROVE Has(i)
  <2>1. i \in 1 .. n /\ IsABag(D[i - 1])
    BY <1>2
  <2>2. D[i] = Edited(D[i - 1], s.edits[i])
    BY <1>1, <2>1
  <2>3. /\ a \in s.edits[i].takes => b \in s.edits[i].puts
        /\ b \in s.edits[i].takes => a \in s.edits[i].puts
    OBVIOUS
  <2>4. a \in Passages(D[i - 1]) \/ b \in Passages(D[i - 1])
    BY <1>4
  <2>5. \/ a \in Passages(Edited(D[i - 1], s.edits[i]))
        \/ b \in Passages(Edited(D[i - 1], s.edits[i]))
    BY <2>1, <2>3, <2>4, EditedHas
  <2> QED
    BY <2>2, <2>5
<1> HIDE DEF Has
<1>5. 0 \in S
  BY <1>3
<1>6. ASSUME NEW i \in 1 .. n, i - 1 \in S PROVE i \in S
  <2>1. CASE i = j
    BY <1>3, <2>1
  <2>2. CASE i # j
    BY <1>4, <1>6, <2>2
  <2> QED
    BY <2>1, <2>2
<1> HIDE DEF S
<1>7. \A i \in 0 .. n : i \in S
  BY <1>5, <1>6, UpTo
<1>8. Has(m)
  BY <1>7 DEF S
<1> QED
  BY <1>8 DEF Has, D

\* A passage that all these edits spare stays.
LEMMA DraftsSpare ==
  ASSUME NEW text, IsABag(text), NEW s, Len(s.edits) \in Nat, NEW p,
         NEW j \in 0 .. Len(s.edits), NEW m \in j .. Len(s.edits),
         \A i \in j + 1 .. m : Spares(s.edits[i], p),
         p \in Passages(Drafts(text, s)[j])
  PROVE  p \in Passages(Drafts(text, s)[m])
<1>1. \A i \in j + 1 .. m : p \in s.edits[i].takes => p \in s.edits[i].puts
  BY DEF Spares
<1> QED
  BY <1>1, DraftsHave

\* A passage that is not there and not put in stays away.
LEMMA DraftsLack ==
  ASSUME NEW text, IsABag(text), NEW s, Len(s.edits) \in Nat, NEW p,
         NEW m \in 0 .. Len(s.edits),
         \A i \in 1 .. m : p \notin s.edits[i].puts, p \notin Passages(text)
  PROVE  p \notin Passages(Drafts(text, s)[m])
<1> DEFINE n == Len(s.edits)
           D == Drafts(text, s)
           S == {i \in 0 .. n : i <= m => p \notin Passages(D[i])}
<1>1. /\ D[0] = text
      /\ \A i \in 1 .. n : D[i] = Edited(D[i - 1], s.edits[i])
  BY DraftSteps
<1>2. \A i \in 0 .. n : IsABag(D[i])
  BY DraftBags
<1> HIDE DEF D
<1>3. 0 \in S
  BY <1>1
<1>4. ASSUME NEW i \in 1 .. n, i - 1 \in S PROVE i \in S
  <2>1. SUFFICES ASSUME i <= m PROVE p \notin Passages(D[i])
    OBVIOUS
  <2>2. /\ i - 1 \in 0 .. n /\ i \in 0 .. n
        /\ p \notin Passages(D[i - 1]) /\ p \notin s.edits[i].puts
    BY <1>4, <2>1
  <2>3. IsABag(D[i - 1]) /\ IsABag(D[i]) /\ D[i] = Edited(D[i - 1], s.edits[i])
    BY <1>1, <1>2, <2>2
  <2>4. CountIn(p, D[i]) <= CountIn(p, D[i - 1])
    BY <2>2, <2>3, EditedCopies
  <2>5. /\ CountIn(p, D[i]) \in Nat /\ CountIn(p, D[i - 1]) \in Nat
        /\ p \in Passages(D[i]) <=> CountIn(p, D[i]) > 0
        /\ p \in Passages(D[i - 1]) <=> CountIn(p, D[i - 1]) > 0
    BY <2>3, EditedCopies
  <2> QED
    BY <2>2, <2>4, <2>5
<1> HIDE DEF S
<1>5. \A i \in 0 .. n : i \in S
  BY <1>3, <1>4, UpTo
<1>6. m \in S
  BY <1>5
<1> QED
  BY <1>6 DEF S, D

\* What must be there stays there from draft to draft,
LEMMA SureStays ==
  ASSUME NEW w, NEW k, Honest(w, k), NEW text, Sound(w, k.file, text),
         NEW m \in 0 .. Len(k.edits)
  PROVE  Sure(w, k.file) \subseteq Passages(Drafts(text, k)[m])
<1> DEFINE D == Drafts(text, k)
<1>1. Len(k.edits) \in Nat /\ IsABag(text) /\ Sure(w, k.file) \subseteq Passages(text)
  BY DEF Honest, Formed, Sound
<1>2. D[0] = text
  BY <1>1, DraftSteps
<1>3. Sure(w, k.file) \subseteq Hints(k.file)
  BY DEF Sure, Hints
<1>4. \A i \in 1 .. Len(k.edits) : k.edits[i].takes \cap Hints(k.file) = {}
  BY DEF Honest
<1> HIDE DEF D
<1>5. ASSUME NEW p \in Sure(w, k.file) PROVE p \in Passages(D[m])
  <2>1. 0 \in 0 .. Len(k.edits) /\ m \in 0 .. Len(k.edits) /\ p \in Passages(D[0])
    BY <1>1, <1>2
  <2>2. \A i \in 0 + 1 .. m : Spares(k.edits[i], p)
    BY <1>1, <1>3, <1>4 DEF Spares
  <2> QED
    BY <1>1, <2>1, <2>2, DraftsSpare DEF D
<1> QED
  BY <1>5 DEF D

\* and of a period and what replaces it, so does one.
LEMMA PeriodStays ==
  ASSUME NEW w, NEW k, Honest(w, k), NEW text, Sound(w, k.file, text),
         "ZT_PEER_PING_PERIOD" \in Passages(text), NEW c \in Instead(k.file),
         NEW m \in 0 .. Len(k.edits)
  PROVE  c[1] \in Passages(Drafts(text, k)[m]) \/ c[2] \in Passages(Drafts(text, k)[m])
<1> DEFINE D == Drafts(text, k)
<1>1. Len(k.edits) \in Nat /\ IsABag(text)
  BY DEF Honest, Formed, Sound
<1>2. D[0] = text
  BY <1>1, DraftSteps
<1>3. c[1] \in Passages(text) \/ c[2] \in Passages(text)
  BY DEF Sound
<1>4. \A i \in 1 .. Len(k.edits) : /\ c[1] \in k.edits[i].takes => c[2] \in k.edits[i].puts
                                   /\ c[2] \in k.edits[i].takes => c[1] \in k.edits[i].puts
  BY DEF Honest
<1> HIDE DEF D
<1>5. 0 \in 0 .. Len(k.edits) /\ m \in 0 .. Len(k.edits)
  BY <1>1
<1>6. c[1] \in Passages(D[0]) \/ c[2] \in Passages(D[0])
  BY <1>2, <1>3
<1>7. \A i \in 0 + 1 .. m : /\ c[1] \in k.edits[i].takes => c[2] \in k.edits[i].puts
                            /\ c[2] \in k.edits[i].takes => c[1] \in k.edits[i].puts
  BY <1>1, <1>4
<1> QED
  BY <1>1, <1>5, <1>6, <1>7, DraftsHave DEF D

\* An edit that puts p in, or has it already.
LEMMA PutsIt ==
  ASSUME NEW w, NEW k, Honest(w, k), NEW text, Sound(w, k.file, text),
         NEW p, NEW i \in 1 .. Len(k.edits), Puts(w, k, i, p)
  PROVE  p \in Passages(Drafts(text, k)[i])
<1> DEFINE D == Drafts(text, k)
           e == k.edits[i]
           f == k.file
<1>0. SUFFICES p \in Passages(D[i])
  OBVIOUS
<1>1. Len(k.edits) \in Nat /\ IsABag(text)
  BY DEF Honest, Formed, Sound
<1>2. D[0] = text /\ D[i] = Edited(D[i - 1], e)
  BY <1>1, DraftSteps
<1>3. i - 1 \in 0 .. Len(k.edits) /\ IsABag(D[i - 1])
  BY <1>1, DraftBags
<1>4. Sure(w, f) \subseteq Passages(D[i - 1])
  BY <1>3, SureStays
<1>5. /\ p \in e.puts /\ e.excuse \subseteq {p} /\ e.when \subseteq Sure(w, f)
      /\ \A u \in e.unless : u # p =>
           /\ u \in Absent(w, f) \/ <<u, p>> \in Comes(f)
           /\ \A j \in 1 .. i - 1 : u \notin k.edits[j].puts /\ Spares(k.edits[j], p)
  BY DEF Puts
<1>6. ASSUME NEW u \in e.unless, u # p, u \in Passages(D[i - 1])
      PROVE  p \in Passages(D[i - 1])
  <2>1. /\ u \in Absent(w, f) \/ <<u, p>> \in Comes(f)
        /\ \A j \in 1 .. i - 1 : u \notin k.edits[j].puts /\ Spares(k.edits[j], p)
    BY <1>5, <1>6
  <2>2. u \in Passages(text)
    BY <1>1, <1>3, <1>6, <2>1, DraftsLack
  <2>3. u \notin Absent(w, f)
    BY <2>2 DEF Sound
  <2>4. <<u, p>> \in Comes(f)
    BY <2>1, <2>3
  <2>5. <<u, p>>[1] = u /\ <<u, p>>[2] = p
    OBVIOUS
  <2>6. p \in Passages(text)
    BY <2>2, <2>4, <2>5 DEF Sound
  <2>7. 0 \in 0 .. Len(k.edits) /\ i - 1 \in 0 .. Len(k.edits) /\ p \in Passages(D[0])
    BY <1>1, <1>2, <2>6
  <2>8. \A j \in 0 + 1 .. i - 1 : Spares(k.edits[j], p)
    BY <2>1
  <2> HIDE DEF D
  <2> QED
    BY <1>1, <2>7, <2>8, DraftsSpare DEF D
<1> HIDE DEF D, e
<1>7. CASE Skipped(D[i - 1], e)
  <2>1. D[i] = D[i - 1]
    BY <1>2, <1>3, <1>7, EditedCopies
  <2>2. e.when \subseteq Passages(D[i - 1])
    BY <1>4, <1>5
  <2>3. CASE e.unless \cap Passages(D[i - 1]) # {}
    <3>1. PICK u \in e.unless : u \in Passages(D[i - 1])
      BY <2>3
    <3>2. CASE u = p
      BY <2>1, <3>1, <3>2
    <3>3. CASE u # p
      BY <1>6, <2>1, <3>1, <3>3
    <3> QED
      BY <3>2, <3>3
  <2>4. CASE e.excuse \cap Passages(D[i - 1]) # {}
    BY <1>5, <2>1, <2>4
  <2> QED
    BY <1>7, <2>2, <2>3, <2>4 DEF Skipped
<1>8. CASE ~Skipped(D[i - 1], e)
  BY <1>2, <1>3, <1>5, <1>8, EditedCopies
<1> QED
  BY <1>7, <1>8

\* An edit that insists on p.
LEMMA InsistsOnIt ==
  ASSUME NEW k, NEW text, IsABag(text), Len(k.edits) \in Nat,
         NEW p, NEW i \in 1 .. Len(k.edits), Insists(k, i, p),
         ~Exits(Drafts(text, k)[i - 1], k.edits[i])
  PROVE  p \in Passages(Drafts(text, k)[i])
<1> DEFINE D == Drafts(text, k)
           e == k.edits[i]
<1>1. D[i] = Edited(D[i - 1], e)
  BY DraftSteps
<1>2. IsABag(D[i - 1])
  BY DraftBags
<1>3. /\ p \in e.needs /\ Spares(e, p) /\ e.when = {} /\ e.unless = {} /\ e.excuse = {}
      /\ ~Exits(D[i - 1], e)
  BY DEF Insists
<1> HIDE DEF D, e
<1>4. p \in Passages(D[i - 1])
  BY <1>3 DEF Exits, Skipped
<1>5. p \in Passages(D[i])
  BY <1>1, <1>2, <1>3, <1>4, EditedHas DEF Spares
<1> QED
  BY <1>5 DEF D

\* An edit that swaps p for a period, or finds it swapped.
LEMMA SwapsIt ==
  ASSUME NEW w, NEW k, Honest(w, k), NEW text, Sound(w, k.file, text), Found(text, k),
         NEW p, NEW i \in 1 .. Len(k.edits), Swaps(k, i, p)
  PROVE  p \in Passages(Drafts(text, k)[i])
<1> DEFINE D == Drafts(text, k)
           e == k.edits[i]
<1>0. SUFFICES p \in Passages(D[i])
  OBVIOUS
<1>1. Len(k.edits) \in Nat /\ IsABag(text)
  BY DEF Honest, Formed, Sound
<1>2. D[i] = Edited(D[i - 1], e)
  BY <1>1, DraftSteps
<1>3. i - 1 \in 0 .. Len(k.edits) /\ IsABag(D[i - 1])
  BY <1>1, DraftBags
<1>4. PICK c \in Instead(k.file) : p = c[2] /\ e.when = {c[1]}
  BY DEF Swaps
<1>5. p \in e.puts /\ e.unless = {} /\ e.excuse = {}
  BY DEF Swaps
<1>6. "ZT_PEER_PING_PERIOD" \in Passages(text)
  BY DEF Swaps, Found
<1>7. c[1] \in Passages(D[i - 1]) \/ c[2] \in Passages(D[i - 1])
  BY <1>3, <1>6, PeriodStays
<1> HIDE DEF D, e
<1>8. CASE Skipped(D[i - 1], e)
  <2>1. D[i] = D[i - 1]
    BY <1>2, <1>3, <1>8, EditedCopies
  <2>2. c[1] \notin Passages(D[i - 1])
    BY <1>4, <1>5, <1>8 DEF Skipped
  <2> QED
    BY <1>4, <1>7, <2>1, <2>2
<1>9. CASE ~Skipped(D[i - 1], e)
  BY <1>2, <1>3, <1>5, <1>9, EditedCopies
<1> QED
  BY <1>8, <1>9

\* A section that delivers p leaves it in its file.
LEMMA DeliversIt ==
  ASSUME NEW w, NEW k, Honest(w, k), NEW text, Sound(w, k.file, text), ~Aborts(text, k),
         NEW p, Delivers(w, k, p)
  PROVE  p \in Passages(Rewritten(text, k))
<1> DEFINE D == Drafts(text, k)
           n == Len(k.edits)
           f == k.file
<1>1. n \in Nat /\ IsABag(text)
  BY DEF Honest, Formed, Sound
<1>2. Found(text, k)
  <2>1. k.must \/ k.find \subseteq Sure(w, f)
    BY DEF Delivers
  <2>2. Sure(w, f) \subseteq Passages(text)
    BY DEF Sound
  <2> QED
    BY <2>1, <2>2 DEF Aborts, Found
<1>3. CASE k.marker \cap Passages(text) # {}
  <2>1. PICK m \in k.marker : m \in Passages(text)
    BY <1>3
  <2>2. m = p \/ <<m, p>> \in Comes(f)
    BY DEF Delivers
  <2>3. <<m, p>>[1] = m /\ <<m, p>>[2] = p
    OBVIOUS
  <2>4. p \in Passages(text)
    BY <2>1, <2>2, <2>3 DEF Sound
  <2> QED
    BY <1>3, <2>4 DEF Rewritten, LeftAlone
<1>4. CASE k.marker \cap Passages(text) = {}
  <2>1. ~LeftAlone(text, k)
    BY <1>2, <1>4 DEF LeftAlone
  <2>2. PICK i \in 1 .. n : /\ Puts(w, k, i, p) \/ Insists(k, i, p) \/ Swaps(k, i, p)
                            /\ \A j \in i + 1 .. n : Spares(k.edits[j], p)
    BY DEF Delivers
  <2>3. ~Exits(D[i - 1], k.edits[i])
    BY <2>1 DEF Aborts
  <2>4. p \in Passages(D[i])
    <3>1. CASE Puts(w, k, i, p)
      BY <3>1, PutsIt
    <3>2. CASE Insists(k, i, p)
      BY <1>1, <2>3, <3>2, InsistsOnIt
    <3>3. CASE Swaps(k, i, p)
      BY <1>2, <3>3, SwapsIt
    <3> QED
      BY <2>2, <3>1, <3>2, <3>3
  <2>5. i \in 0 .. n /\ n \in i .. n
    BY <1>1
  <2>6. p \in Passages(D[n])
    BY <1>1, <2>2, <2>4, <2>5, DraftsSpare
  <2>7. Rewritten(text, k) = D[n]
    BY <2>1 DEF Rewritten
  <2> QED
    BY <2>6, <2>7
<1> QED
  BY <1>3, <1>4

\* A passage that lasts outlives any such section.
LEMMA LastsOn ==
  ASSUME NEW w, NEW k, Honest(w, k), NEW text, Sound(w, k.file, text), ~Aborts(text, k),
         NEW p, Lasts(w, k.file, p), p \in Passages(text)
  PROVE  p \in Passages(Rewritten(text, k))
<1> DEFINE D == Drafts(text, k)
           n == Len(k.edits)
<1>1. n \in Nat /\ IsABag(text)
  BY DEF Honest, Formed, Sound
<1>2. CASE Delivers(w, k, p)
  BY <1>2, DeliversIt
<1>3. CASE ~Delivers(w, k, p)
  <2>1. ASSUME NEW i \in 1 .. n PROVE Spares(k.edits[i], p)
    <3>1. p \in k.edits[i].takes => p \in k.edits[i].puts \/ Delivers(w, k, p)
      BY DEF Honest
    <3> QED
      BY <1>3, <3>1 DEF Spares
  <2>2. D[0] = text /\ 0 \in 0 .. n /\ n \in 0 .. n
    BY <1>1, DraftSteps
  <2> HIDE DEF D
  <2>3. p \in Passages(D[0])
    BY <2>2
  <2>4. \A i \in 0 + 1 .. n : Spares(k.edits[i], p)
    BY <2>1
  <2>5. p \in Passages(D[n])
    BY <1>1, <2>2, <2>3, <2>4, DraftsSpare DEF D
  <2>6. Rewritten(text, k) = text \/ Rewritten(text, k) = D[n]
    BY DEF Rewritten, D
  <2> QED
    BY <2>5, <2>6
<1> QED
  BY <1>2, <1>3

\* What comes with another passage lasts.
LEMMA CompanyLasts ==
  ASSUME NEW w, NEW f \in Files, NEW c \in Comes(f)
  PROVE  Lasts(w, f, c[2])
<1>1. f # "stubs"
  BY DEF Comes
<1>2. CASE f \in {"VirtualTap", "sys_arch"}
  <2>1. Sources[f] = Upstream[f]
    BY <1>2 DEF Sources, Both, Upstream
  <2> QED
    BY <1>1, <1>2, <2>1 DEF Lasts, Comes, Passing, Indifferent, Upstream
<1>3. CASE f \in {"OSUtils", "Phy", "NodeService"}
  <2>1. Sources[f] = Upstream[f]
    BY <1>3 DEF Sources, Both, Upstream
  <2> QED
    BY <1>1, <1>3, <2>1 DEF Lasts, Comes, Passing, Indifferent, Upstream
<1> QED
  BY <1>2, <1>3 DEF Comes

\* The section leaves the text sound.
LEMMA StaysSound ==
  ASSUME NEW w, NEW k, Honest(w, k), NEW text, Sound(w, k.file, text), ~Aborts(text, k)
  PROVE  Sound(w, k.file, Rewritten(text, k))
<1> DEFINE D == Drafts(text, k)
           n == Len(k.edits)
           f == k.file
           R == Rewritten(text, k)
<1>1. n \in Nat /\ IsABag(text) /\ f \in Files
  BY DEF Honest, Formed, Sound
<1>2. D[0] = text /\ 0 \in 0 .. n /\ n \in 0 .. n
  BY <1>1, DraftSteps
<1>3. R = text \/ R = D[n]
  BY DEF Rewritten
<1>4. IsABag(R)
  BY <1>1, RewrittenCopies
<1>5. Sure(w, f) \subseteq Passages(R)
  BY <1>2, <1>3, SureStays DEF Sound
<1>6. ASSUME NEW p, p \in Passages(R), p \notin Passages(text)
      PROVE  \E i \in 1 .. n : p \in k.edits[i].puts
  <2>1. SUFFICES ASSUME \A i \in 1 .. n : p \notin k.edits[i].puts PROVE FALSE
    OBVIOUS
  <2>2. p \notin Passages(D[n])
    BY <1>1, <1>2, <1>6, <2>1, DraftsLack
  <2> QED
    BY <1>3, <1>6, <2>2
<1> HIDE DEF D, R
<1>7. Absent(w, f) \cap Passages(R) = {}
  <2>1. Absent(w, f) \cap Passages(text) = {}
    BY DEF Sound
  <2>2. \A i \in 1 .. n : k.edits[i].puts \cap Absent(w, f) = {}
    BY DEF Honest
  <2> QED
    BY <1>6, <2>1, <2>2
<1>8. ASSUME NEW c \in Comes(f), c[1] \in Passages(R) PROVE c[2] \in Passages(R)
  <2>1. CASE c[1] \in Passages(text)
    <3>1. c[2] \in Passages(text)
      BY <2>1 DEF Sound
    <3>2. Lasts(w, f, c[2])
      BY <1>1, CompanyLasts
    <3> QED
      BY <3>1, <3>2, LastsOn DEF R
  <2>2. CASE c[1] \notin Passages(text)
    <3>1. PICK i \in 1 .. n : c[1] \in k.edits[i].puts
      BY <1>6, <1>8, <2>2
    <3>2. Delivers(w, k, c[2])
      BY <3>1 DEF Honest
    <3> QED
      BY <3>2, DeliversIt DEF R
  <2> QED
    BY <2>1, <2>2
<1>9. ASSUME NEW c \in Instead(f), "ZT_PEER_PING_PERIOD" \in Passages(R)
      PROVE  c[1] \in Passages(R) \/ c[2] \in Passages(R)
  <2>1. \A i \in 1 .. n : "ZT_PEER_PING_PERIOD" \notin k.edits[i].puts
    BY DEF Honest
  <2>2. "ZT_PEER_PING_PERIOD" \in Passages(text)
    BY <1>6, <1>9, <2>1
  <2>3. c[1] \in Passages(text) \/ c[2] \in Passages(text)
    BY <2>2 DEF Sound
  <2>4. c[1] \in Passages(D[n]) \/ c[2] \in Passages(D[n])
    BY <1>2, <2>2, PeriodStays DEF D
  <2> QED
    BY <1>3, <2>3, <2>4
<1>10. Sound(w, f, R)
  BY <1>4, <1>5, <1>7, <1>8, <1>9 DEF Sound
<1> QED
  BY <1>10 DEF R

-----------------------------------------------------------------------------
(* Sections one by one.                                                    *)

\* An edit that takes out only what the file had from the start, or what it puts back.
Steady(f, e) ==
  /\ e.takes \cap Hints(f) = {}
  /\ e.takes \ e.puts \subseteq Sources[f] \cup Passing

\* What such an edit may put in.
Harmless(w, f, e) ==
  /\ e.puts \cap Absent(w, f) = {}
  /\ \A c \in Instead(f) : /\ c[1] \in e.takes => c[2] \in e.puts
                           /\ c[2] \in e.takes => c[1] \in e.puts
                           /\ "ZT_PEER_PING_PERIOD" \notin e.puts

\* The i-th edit of section k leaves p in the file, whatever is there already.
Lands(w, k, i, p) ==
  /\ Lasts(w, k.file, p)
  /\ k.must \/ k.find \subseteq Sure(w, k.file)
  /\ \A m \in k.marker : m = p \/ <<m, p>> \in Comes(k.file)
  /\ k.edits[i].excuse \subseteq {p}
  /\ k.edits[i].when \subseteq Sure(w, k.file)
  /\ \A u \in k.edits[i].unless : u # p =>
       /\ u \in Absent(w, k.file) \/ <<u, p>> \in Comes(k.file)
       /\ \A j \in 1 .. i - 1 : u \notin k.edits[j].puts

\* A section of such edits.
Regular(w, k) ==
  /\ Formed(k)
  /\ \A i \in 1 .. Len(k.edits) : Steady(k.file, k.edits[i]) /\ Harmless(w, k.file, k.edits[i])
  /\ \A i \in 1 .. Len(k.edits) : \A p \in k.edits[i].puts :
       p \in Sources[k.file] \cup Indifferent \/ Lands(w, k, i, p)
  /\ \A i \in 1 .. Len(k.edits) : \A c \in Comes(k.file) :
       c[1] \in k.edits[i].puts => \E j \in 1 .. Len(k.edits) : c[2] \in k.edits[j].puts

\* A passage that lasts is spared by steady edits.
LEMMA SteadySpares ==
  ASSUME NEW w, NEW f, NEW e, Steady(f, e), NEW p, Lasts(w, f, p)
  PROVE  Spares(e, p)
BY DEF Steady, Lasts, Spares

\* An edit after which p is there delivers p.
LEMMA LandedDelivers ==
  ASSUME NEW w, NEW k, NEW i \in 1 .. Len(k.edits), Len(k.edits) \in Nat,
         NEW p \in k.edits[i].puts, Lands(w, k, i, p),
         \A j \in 1 .. Len(k.edits) : j # i => Spares(k.edits[j], p)
  PROVE  Delivers(w, k, p)
<1>1. \A j \in 1 .. i - 1 : Spares(k.edits[j], p)
  OBVIOUS
<1>2. \A j \in i + 1 .. Len(k.edits) : Spares(k.edits[j], p)
  OBVIOUS
<1>3. Puts(w, k, i, p)
  BY <1>1 DEF Lands, Puts
<1> QED
  BY <1>2, <1>3 DEF Lands, Delivers

\* A section of steady edits is honest.
LEMMA SteadyHonest ==
  ASSUME NEW w, NEW k, Formed(k),
         \A i \in 1 .. Len(k.edits) : Steady(k.file, k.edits[i]) /\ Harmless(w, k.file, k.edits[i]),
         \A i \in 1 .. Len(k.edits) : \A c \in Comes(k.file) :
           c[1] \in k.edits[i].puts => Delivers(w, k, c[2])
  PROVE  Honest(w, k)
<1>1. ASSUME NEW i \in 1 .. Len(k.edits), NEW p \in k.edits[i].takes, Lasts(w, k.file, p)
      PROVE  p \in k.edits[i].puts
  BY <1>1, SteadySpares DEF Spares
<1> QED
  BY <1>1 DEF Honest, Steady, Harmless

\* A regular one delivers all it puts in, besides.
LEMMA RegularPays ==
  ASSUME NEW w, NEW k, Regular(w, k)
  PROVE  Honest(w, k) /\ Pays(w, k)
<1>1. Len(k.edits) \in Nat /\ Formed(k)
  BY DEF Regular, Formed
<1>2. ASSUME NEW i \in 1 .. Len(k.edits), NEW p \in k.edits[i].puts,
             p \notin Sources[k.file] \cup Indifferent
      PROVE  Delivers(w, k, p)
  <2>1. Lands(w, k, i, p)
    BY <1>2 DEF Regular
  <2>2. Lasts(w, k.file, p)
    BY <2>1 DEF Lands
  <2>3. ASSUME NEW j \in 1 .. Len(k.edits) PROVE Spares(k.edits[j], p)
    BY <2>2, SteadySpares DEF Regular
  <2> QED
    BY <1>1, <2>1, <2>3, LandedDelivers
<1>3. Pays(w, k)
  BY <1>2 DEF Pays
<1>4. ASSUME NEW i \in 1 .. Len(k.edits), NEW c \in Comes(k.file), c[1] \in k.edits[i].puts
      PROVE  Delivers(w, k, c[2])
  <2>1. PICK j \in 1 .. Len(k.edits) : c[2] \in k.edits[j].puts
    BY <1>4 DEF Regular
  <2>2. Lasts(w, k.file, c[2])
    BY <1>1, CompanyLasts DEF Formed
  <2>3. c[2] \notin Sources[k.file] \cup Indifferent
    BY <2>2 DEF Lasts, Passing
  <2> QED
    BY <1>2, <2>1, <2>3
<1> QED
  BY <1>1, <1>3, <1>4, SteadyHonest DEF Regular

\* What the files of libzt have from the start.
LEMMA LibztSources ==
  /\ \A f \in DOMAIN Upstream : Sources[f] = Upstream[f]
  /\ DOMAIN Upstream =
       {"main", "posix", "Constants", "UtilsH", "Binder", "Phy", "UtilsCpp", "CMake", "cc",
        "ccWrapper", "family", "registry", "VirtualTap", "sys_arch", "tcpip", "OSUtils",
        "NodeService", "Node", "Incoming", "Peer"}
BY DEF Sources, Both, Upstream

\* Most files are of no concern.
LEMMA NoConcern ==
  /\ \A f : f \notin {"CMake", "Constants", "OSUtils", "Phy", "NodeService", "VirtualTap",
                      "sys_arch", "tcpip", "ldn_icommunication"} => Hints(f) = {}
  /\ \A w, f : f \notin {"tcpip", "sys_arch"} => Absent(w, f) = {}
  /\ \A f : f \notin {"VirtualTap", "sys_arch", "OSUtils", "Phy", "NodeService"} => Comes(f) = {}
  /\ \A f : f # "Constants" => Instead(f) = {}
  /\ \A w, f : f \notin {"sys_arch", "ldn_icommunication"} => Sure(w, f) = Hints(f)
  /\ \A w, f, p : f # "stubs" => (Lasts(w, f, p) <=> p \notin Sources[f] \cup Passing)
<1>1. \A w, f, p : f # "stubs" => (Lasts(w, f, p) <=> p \notin Sources[f] \cup Passing)
  BY DEF Lasts
<1> QED
  BY <1>1 DEF Hints, Absent, Comes, Instead, Sure

\* patch-libzt-switch.py delivers all it puts in.
LEMMA LibztRegular == ASSUME NEW w PROVE \A i \in 1 .. 10 : Regular(w, PatchLibzt[i])
<1> USE FilesAre, LibztSources, NoConcern
   DEF Section, IfFound, Replace, Edit, Finding, Insert, Need, Unless, Wrap, OrDone, OnlyIf,
       Regular, Formed, Steady, Harmless, Lands, Passing, Indifferent
<1>1. Regular(w, ConstantsUnixLike)
  BY DEF ConstantsUnixLike, Hints, Instead, Upstream
<1>2. Regular(w, UtilsStok)
  BY DEF UtilsStok, Upstream
<1>3. Regular(w, BinderNoInterfaces)
  BY DEF BinderNoInterfaces, Upstream
<1>4. Regular(w, PhyNoUnixSockets)
  BY DEF PhyNoUnixSockets, Upstream, Hints, Comes
<1>5. Regular(w, UtilsNoProbes)
  BY DEF UtilsNoProbes, Upstream
<1>6. Regular(w, CMakeNoMapper)
  <2> DEFINE es == CMakeNoMapper.edits
             S == Sources["CMake"]
  <2>1. S = {"GLOB", "upstream-glob", "globbed-PortMapper", "natpmp-objects", "MINIUPNPC-flag",
             "lwIP-port-if-UNIX"}
    BY DEF Upstream
  <2>2. Hints("CMake") = {"MINIUPNPC-flag"}
    BY DEF Hints
  <2>3. /\ CMakeNoMapper.file = "CMake" /\ Len(es) = 6 /\ CMakeNoMapper.must
        /\ CMakeNoMapper.marker = {}
    BY DEF CMakeNoMapper
  <2> DEFINE Plain(e) ==
               /\ e.takes \cap Hints("CMake") = {} /\ e.takes \subseteq S \cup Passing
               /\ \A p \in e.puts :
                    \/ p \in S \cup Indifferent
                    \/ p \notin S \cup Passing /\ e.when \subseteq Hints("CMake")
                       /\ e.excuse \subseteq {p} /\ e.unless \subseteq {p}
  <2>4. Plain(es[1]) /\ Plain(es[2]) /\ Plain(es[3])
    BY <2>1, <2>2 DEF CMakeNoMapper
  <2>5. Plain(es[4]) /\ Plain(es[5]) /\ Plain(es[6])
    BY <2>1, <2>2 DEF CMakeNoMapper
  <2> HIDE DEF es, S
  <2>6. \A i \in 1 .. 6 : Plain(es[i])
    BY <2>4, <2>5
  <2> QED
    BY <2>3, <2>6 DEF es, S
<1>7. Regular(w, PortCc)
  BY DEF PortCc, Upstream
<1>8. Regular(w, CcWrapper)
  BY DEF CcWrapper, Upstream
<1>9. Regular(w, Stdexcept("family"))
  BY DEF Stdexcept, Upstream
<1>10. Regular(w, Stdexcept("registry"))
  BY DEF Stdexcept, Upstream
<1> HIDE DEF Regular
<1> QED
  BY <1>1, <1>2, <1>3, <1>4, <1>5, <1>6, <1>7, <1>8, <1>9, <1>10 DEF PatchLibzt

\* The sections of patch-lwip-switch-thread.py but for the first two,
LEMMA LwipRegular == ASSUME NEW w PROVE \A i \in 3 .. 7 : Regular(w, PatchLwip[i])
<1> USE FilesAre, LibztSources, NoConcern
   DEF Section, IfFound, Replace, Edit, Finding, Insert, Need, Unless, MayLack, Marked,
       Trace, wrap_first_call, Switch_h, Regular, Formed, Steady, Harmless, Lands, Passing,
       Indifferent
<1>3. Regular(w, LwipDriver)
  BY DEF LwipDriver, Hints, Comes, Upstream
<1>4. Regular(w, LwipTcpip)
  <2> DEFINE es == LwipTcpip.edits
             S == Sources["tcpip"]
  <2>1. S = {"opt.h", "tcpip_thread", "tcpip_init", "sys_thread_new", "tcpip_thread-begin",
             "tcpip_init-begin", "if-tcpip_init_done", "tcpip_init_done("}
    BY DEF Upstream
  <2>2. Hints("tcpip") = {"opt.h"} /\ Absent(w, "tcpip") = {"switch.h"} /\ Comes("tcpip") = {}
        /\ Sure(w, "tcpip") = {"opt.h"} /\ Instead("tcpip") = {}
    BY DEF Hints, Absent
  <2>3. /\ LwipTcpip.file = "tcpip" /\ Len(es) = 7 /\ LwipTcpip.must
        /\ LwipTcpip.marker = {}
    BY DEF LwipTcpip
  <2> DEFINE Plain(e) ==
               /\ e.takes = {} /\ e.puts \cap {"switch.h"} = {}
               /\ \A p \in e.puts :
                    /\ p \notin S \cup Passing /\ e.when \subseteq {"opt.h"}
                    /\ e.excuse \subseteq {p} /\ e.unless \subseteq {p, "switch.h"}
  <2>4. Plain(es[1]) /\ Plain(es[2]) /\ Plain(es[3]) /\ Plain(es[4])
    <3>1. /\ es[1].takes = {} /\ es[1].puts = {"stdio.h+switch.h"} /\ es[1].excuse = {}
          /\ es[1].when = {"opt.h"} /\ es[1].unless = {"switch.h", "stdio.h+switch.h"}
          /\ es[2].takes = {} /\ es[2].puts = {}
          /\ es[4].takes = {} /\ es[4].puts = {}
      BY DEF LwipTcpip
    <3>2. /\ es[3].takes = {} /\ es[3].puts = {"TCPIP:THREAD_ENTER"} /\ es[3].when = {}
          /\ es[3].unless = {"TCPIP:THREAD_ENTER"} /\ es[3].excuse = {}
      BY DEF LwipTcpip
    <3> HIDE DEF es, S
    <3> QED
      BY <2>1, <3>1, <3>2
  <2>5. Plain(es[5])
    BY <2>1 DEF LwipTcpip
  <2>6. Plain(es[6])
    BY <2>1 DEF LwipTcpip
  <2>7. Plain(es[7])
    BY <2>1 DEF LwipTcpip
  <2> HIDE DEF es, S
  <2>8. \A i \in 1 .. 7 : Plain(es[i])
    <3> SUFFICES ASSUME NEW i \in 1 .. 7 PROVE Plain(es[i])
      OBVIOUS
    <3> HIDE DEF Plain
    <3>1. i = 1 \/ i = 2 \/ i = 3 \/ i = 4 \/ i = 5 \/ i = 6 \/ i = 7
      OBVIOUS
    <3> QED
      BY <2>4, <2>5, <2>6, <2>7, <3>1
  <2> QED
    BY <2>2, <2>3, <2>8 DEF es, S
<1>5. Regular(w, LwipProbe)
  BY DEF LwipProbe, Hints, Absent, Comes, Upstream
<1>6. Regular(w, LwipClock)
  BY DEF LwipClock, Hints, Comes, Upstream
<1>7. Regular(w, LwipByteOrder)
  BY DEF LwipByteOrder, Hints, Instead, Upstream
<1> HIDE DEF Regular
<1> QED
  BY <1>3, <1>4, <1>5, <1>6, <1>7 DEF PatchLwip

\* those of the shorter scripts,
LEMMA ShortRegular ==
  ASSUME NEW w
  PROVE  /\ Regular(w, PhyHandoff)
         /\ Regular(w, PhyReceive)
         /\ Regular(w, RestoreChecksum[1])
         /\ Regular(w, PatchPeerInfo[1])
         /\ Regular(w, KeepaliveScale)
         /\ Regular(w, AuthFilesExist[1])
         /\ Regular(w, AuthFilesExist[2])
         /\ Regular(w, AuthIncoming)
         /\ Regular(w, AuthPeer)
         /\ Regular(w, HotPathLogs)
         /\ Regular(w, HotPathSessions)
<1> USE FilesAre, LibztSources, NoConcern
   DEF Section, IfFound, Replace, Edit, Finding, Insert, Need, Unless, OrDone, MayLack, Marked,
       add_stdio, Regular, Formed, Steady, Harmless, Lands, Passing, Indifferent
<1>1. Regular(w, PhyHandoff)
  <2> DEFINE es == PhyHandoff.edits
             S == Sources["NodeService"]
  <2>1. S = {"exists", "noCheck-true", "stdlib.h", "phyOnDatagram", "memcpy"}
    BY DEF Upstream
  <2>2. /\ Hints("NodeService") = {"stdlib.h"} /\ Sure(w, "NodeService") = {"stdlib.h"}
        /\ Comes("NodeService") = {<<"NodeService-RX", "stdio.h">>}
        /\ Absent(w, "NodeService") = {} /\ Instead("NodeService") = {}
    BY DEF Hints, Comes
  <2>3. /\ PhyHandoff.file = "NodeService" /\ Len(es) = 3 /\ PhyHandoff.must
        /\ PhyHandoff.marker = {}
    BY DEF PhyHandoff
  <2>4. /\ es[1].takes = {"noCheck-true"} /\ es[1].puts = {"noCheck-false"}
        /\ es[2].takes = {} /\ es[2].puts = {"stdio.h"} /\ es[2].excuse = {}
        /\ es[2].when = {"stdlib.h"} /\ es[2].unless = {"NodeService-RX", "stdio.h"}
        /\ es[3].takes = {} /\ es[3].puts = {"NodeService-RX"} /\ es[3].excuse = {}
        /\ es[3].when = {} /\ es[3].unless = {"NodeService-RX"}
    BY DEF PhyHandoff
  <2> HIDE DEF es, S
  <2>5. \A i \in 1 .. 3 : /\ Steady("NodeService", es[i]) /\ Harmless(w, "NodeService", es[i])
    BY <2>1, <2>2, <2>4 DEF S
  <2>6. \A i \in 1 .. 3 : \A p \in es[i].puts :
          p \in Sources["NodeService"] \cup Indifferent \/ Lands(w, PhyHandoff, i, p)
    BY <2>1, <2>2, <2>3, <2>4 DEF S, es
  <2>7. \A i \in 1 .. 3 : \A c \in Comes("NodeService") :
          c[1] \in es[i].puts => \E j \in 1 .. 3 : c[2] \in es[j].puts
    BY <2>2, <2>4
  <2> QED
    BY <2>3, <2>5, <2>6, <2>7 DEF es
<1>2. Regular(w, PhyReceive)
  BY DEF PhyReceive, Hints, Comes, Upstream
<1>3. Regular(w, RestoreChecksum[1])
  BY DEF RestoreChecksum, Hints, Comes, Upstream
<1>4. Regular(w, PatchPeerInfo[1])
  BY DEF PatchPeerInfo, Hints, Comes, Upstream
<1>5. Regular(w, KeepaliveScale)
  BY DEF KeepaliveScale, Upstream
<1>6. Regular(w, AuthFilesExist[1])
  BY DEF AuthFilesExist, Upstream
<1>7. Regular(w, AuthFilesExist[2])
  BY DEF AuthFilesExist, Upstream
<1>8. Regular(w, AuthIncoming)
  BY DEF AuthIncoming, Upstream
<1>9. Regular(w, AuthPeer)
  BY DEF AuthPeer, Upstream
<1>10. Regular(w, HotPathLogs)
  BY DEF HotPathLogs, Upstream
<1>11. Regular(w, HotPathSessions)
  BY DEF HotPathSessions, Upstream
<1> HIDE DEF Regular
<1> QED
  BY <1>1, <1>2, <1>3, <1>4, <1>5, <1>6, <1>7, <1>8, <1>9, <1>10, <1>11

\* and the last two of bootstrap.
LEMMA BootstrapRegular ==
  ASSUME NEW w, "bootstrap" \in w
  PROVE  Regular(w, BootstrapDriver) /\ Regular(w, BootstrapSysArch)
<1> USE FilesAre, LibztSources, NoConcern
   DEF Section, Replace, Edit, Finding, Insert, Unless, MayLack, Marked,
       Regular, Formed, Steady, Harmless, Lands, Passing, Indifferent
<1>1. Regular(w, BootstrapDriver)
  BY DEF BootstrapDriver, Hints, Comes, Upstream
<1>2. Regular(w, BootstrapSysArch)
  BY DEF BootstrapSysArch, Sure, Hints, Comes, Absent, Upstream
<1> HIDE DEF Regular
<1> QED
  BY <1>1, <1>2

\* The first section of bootstrap swaps the port of lwIP only where it finds it, which
\* is left to patch-libzt-switch.py.
LEMMA BootstrapHonest ==
  ASSUME NEW w
  PROVE  /\ Honest(w, BootstrapCMake)
         /\ \A i \in 1 .. 3 : \A p \in BootstrapCMake.edits[i].puts :
              \/ p \in Sources["CMake"] \cup Indifferent \cup {"lwIP-port"}
              \/ Delivers(w, BootstrapCMake, p)
<1> USE FilesAre, LibztSources, NoConcern
   DEF Section, IfFound, Replace, Edit, Wrap, OrDone
<1> DEFINE k == BootstrapCMake
           S == Sources["CMake"]
<1>1. S = {"GLOB", "upstream-glob", "globbed-PortMapper", "natpmp-objects", "MINIUPNPC-flag",
           "lwIP-port-if-UNIX"}
  BY DEF Upstream
<1>2. Hints("CMake") = {"MINIUPNPC-flag"} /\ Sure(w, "CMake") = {"MINIUPNPC-flag"}
  BY DEF Hints
<1>3. /\ k.file = "CMake" /\ Len(k.edits) = 3 /\ k.must /\ k.marker = {}
  BY DEF BootstrapCMake
<1>4. /\ k.edits[1].takes = {"upstream-glob", "globbed-PortMapper"}
      /\ k.edits[1].puts = {"globbed-PortMapper", "listed-PortMapper", "REMOVE_ITEM"}
      /\ k.edits[1].when = {} /\ k.edits[1].unless = {} /\ k.edits[1].excuse = {"REMOVE_ITEM"}
      /\ k.edits[2].takes = {"lwIP-port-if-UNIX"} /\ k.edits[2].puts = {"lwIP-port"}
      /\ k.edits[3].takes = {} /\ k.edits[3].puts = {"not-on-Switch"}
      /\ k.edits[3].when = {"MINIUPNPC-flag"} /\ k.edits[3].unless = {}
      /\ k.edits[3].excuse = {}
  BY DEF BootstrapCMake
<1> HIDE DEF k, S
<1>5. Formed(k)
  BY <1>3 DEF Formed
<1>6. \A i \in 1 .. 3 : Steady("CMake", k.edits[i]) /\ Harmless(w, "CMake", k.edits[i])
  BY <1>1, <1>2, <1>4 DEF S, Steady, Harmless
<1>7. Honest(w, k)
  BY <1>3, <1>5, <1>6, SteadyHonest
<1>8. Lands(w, k, 1, "REMOVE_ITEM")
  BY <1>1, <1>2, <1>3, <1>4 DEF S, Lands, Passing, Indifferent
<1>9. Lands(w, k, 3, "not-on-Switch")
  BY <1>1, <1>2, <1>3, <1>4 DEF S, Lands, Passing, Indifferent
<1>10. ASSUME NEW i \in 1 .. 3, NEW p \in k.edits[i].puts, Lands(w, k, i, p)
       PROVE  Delivers(w, k, p)
  <2>1. Lasts(w, "CMake", p)
    BY <1>3, <1>10 DEF Lands
  <2>2. \A j \in 1 .. 3 : Spares(k.edits[j], p)
    BY <1>6, <2>1, SteadySpares
  <2> QED
    BY <1>3, <1>10, <2>2, LandedDelivers
<1>11. ASSUME NEW i \in 1 .. 3, NEW p \in k.edits[i].puts
       PROVE  \/ p \in Sources["CMake"] \cup Indifferent \cup {"lwIP-port"}
              \/ Delivers(w, k, p)
  <2>1. \/ p \in {"globbed-PortMapper", "listed-PortMapper", "lwIP-port"}
        \/ i = 1 /\ p = "REMOVE_ITEM"
        \/ i = 3 /\ p = "not-on-Switch"
    BY <1>4, <1>11
  <2> QED
    BY <1>1, <1>8, <1>9, <1>10, <2>1 DEF S, Indifferent
<1> QED
  BY <1>7, <1>11 DEF k

\* An application that is not older has nothing for the first one of lwip to do.
LEMMA TimingsHonest ==
  ASSUME NEW w
  PROVE  /\ Honest(w, LwipTimings)
         /\ LwipTimings.file = "main" /\ Len(LwipTimings.edits) = 1
         /\ LwipTimings.edits[1].when = {"5-s"}
<1> USE FilesAre, LibztSources, NoConcern
   DEF Section, IfFound, Replace, Edit, LwipTimings
<1>1. Formed(LwipTimings)
  BY DEF Formed
<1>2. \A i \in 1 .. Len(LwipTimings.edits) :
        Steady(LwipTimings.file, LwipTimings.edits[i])
        /\ Harmless(w, LwipTimings.file, LwipTimings.edits[i])
  BY DEF Steady, Harmless, Passing
<1>3. Comes(LwipTimings.file) = {}
  OBVIOUS
<1>4. Honest(w, LwipTimings)
  BY <1>1, <1>2, <1>3, SteadyHonest
<1> QED
  BY <1>4

\* The section for sys_arch.c takes out traces that it puts back at the end.  The
\* include it leaves to bootstrap.
LEMMA SysArchHonest ==
  ASSUME NEW w
  PROVE  /\ Honest(w, LwipSysArch)
         /\ \A i \in 1 .. 9 : \A p \in LwipSysArch.edits[i].puts :
              p = "stdio.h+switch.h" \/ Delivers(w, LwipSysArch, p)
         /\ "bootstrap" \notin w => Delivers(w, LwipSysArch, "stdio.h+switch.h")
<1> USE FilesAre, LibztSources, NoConcern
   DEF Section, IfFound, Edit, Finding, Insert, Need, Unless, Trace, Switch_h
<1> DEFINE k == LwipSysArch
           f == "sys_arch"
           S == Sources[f]
           New == {"32-slots", "stdio.h+switch.h", "STN:ENTER", "256-KB-stack",
                   "STN:AFTER_PTHREAD_CREATE", "STN:BEFORE_INTRODUCE", "INTRO:ENTER"}
<1>1. S = {"errno.h", "pthread.h", "sys_thread_new(", "pthread_create", "introduce_thread",
           "sys_thread_new-begin", "function-start", "pthread_create(&tmp", "plain-create",
           "if-0==code", "st=introduce_thread", "abort", "thread_wrapper"}
  BY DEF Upstream
<1>2. /\ Hints(f) = {"pthread_create", "sys_thread_new(", "pthread.h"}
      /\ Comes(f) = {"entering"} \X {"switch.h", "code-shown", "return-NULL"}
      /\ Instead(f) = {} /\ Absent(w, f) \subseteq {"switch.h"}
  BY DEF Hints, Comes, Absent
<1>3. /\ k.file = f /\ Len(k.edits) = 9 /\ k.must /\ k.marker = {}
  BY DEF LwipSysArch
<1>4. /\ k.edits[1].takes = {"INTRO:ENTER", "32-slots"} /\ k.edits[1].puts = {"32-slots"}
      /\ k.edits[1].when = {} /\ k.edits[1].unless = {} /\ k.edits[1].excuse = {}
      /\ k.edits[2].takes = {} /\ k.edits[2].puts = {"stdio.h+switch.h"}
      /\ k.edits[2].when = {"pthread.h"} /\ k.edits[2].excuse = {}
      /\ k.edits[2].unless = {"switch.h", "stdio.h+switch.h"}
      /\ k.edits[3].takes = {} /\ k.edits[3].puts = {}
  BY DEF LwipSysArch
<1>5. /\ k.edits[4].takes = {"function-start"} /\ k.edits[4].puts = {"STN:ENTER"}
      /\ k.edits[4].when = {} /\ k.edits[4].unless = {"STN:ENTER"} /\ k.edits[4].excuse = {}
      /\ k.edits[5].takes = {} /\ k.edits[5].puts = {}
      /\ k.edits[6].takes = {"plain-create"} /\ k.edits[6].puts = {"256-KB-stack"}
      /\ k.edits[6].when = {} /\ k.edits[6].unless = {"256-KB-stack"}
      /\ k.edits[6].excuse = {}
  BY DEF LwipSysArch
<1>6. /\ k.edits[7].takes = {} /\ k.edits[7].puts = {"STN:AFTER_PTHREAD_CREATE"}
      /\ k.edits[7].when = {} /\ k.edits[7].unless = {"STN:AFTER_PTHREAD_CREATE"}
      /\ k.edits[7].excuse = {}
      /\ k.edits[8].takes = {} /\ k.edits[8].puts = {"STN:BEFORE_INTRODUCE"}
      /\ k.edits[8].when = {} /\ k.edits[8].unless = {"STN:BEFORE_INTRODUCE"}
      /\ k.edits[8].excuse = {}
      /\ k.edits[9].takes = {} /\ k.edits[9].puts = {"INTRO:ENTER"}
      /\ k.edits[9].when = {} /\ k.edits[9].unless = {"INTRO:ENTER"} /\ k.edits[9].excuse = {}
  BY DEF LwipSysArch
<1> HIDE DEF k, S
<1>7. \A p \in New : Lasts(w, f, p)
  BY <1>1 DEF S, Passing, Indifferent
<1>8. /\ \A i \in 1 .. 9 : k.edits[i].puts \subseteq New /\ "switch.h" \notin k.edits[i].puts
      /\ \A i \in 2 .. 9 : k.edits[i].takes \cap New = {}
  BY <1>4, <1>5, <1>6
<1>9. \A p \in New : \A i \in 2 .. 9 : Spares(k.edits[i], p)
  BY <1>8 DEF Spares
<1>10. Delivers(w, k, "32-slots")
  <2>1. Puts(w, k, 1, "32-slots")
    BY <1>4 DEF Puts
  <2>2. \A j \in 1 + 1 .. 9 : Spares(k.edits[j], "32-slots")
    BY <1>9
  <2> QED
    BY <1>3, <1>7, <2>1, <2>2 DEF Delivers
<1>11. ASSUME NEW i \in {4, 6, 7, 8, 9}, NEW p \in k.edits[i].puts PROVE Delivers(w, k, p)
  <2>1. /\ k.edits[i].when = {} /\ k.edits[i].unless = {p} /\ k.edits[i].excuse = {}
    <3>1. CASE i = 4
      BY <1>5, <1>11, <3>1
    <3>2. CASE i = 6
      BY <1>5, <1>6, <1>11, <3>2
    <3>3. CASE i = 7
      BY <1>6, <1>11, <3>3
    <3>4. CASE i = 8
      BY <1>6, <1>11, <3>4
    <3>5. CASE i = 9
      BY <1>6, <1>11, <3>5
    <3> QED
      BY <1>11, <3>1, <3>2, <3>3, <3>4, <3>5
  <2>2. Puts(w, k, i, p)
    BY <2>1 DEF Puts
  <2>3. i \in 2 .. 9 /\ p \in New
    BY <1>8
  <2>4. \A j \in i + 1 .. 9 : Spares(k.edits[j], p)
    BY <1>9, <2>3
  <2> QED
    BY <1>3, <1>7, <2>2, <2>3, <2>4 DEF Delivers
<1>12. ASSUME "bootstrap" \notin w PROVE Delivers(w, k, "stdio.h+switch.h")
  <2> DEFINE p == "stdio.h+switch.h"
  <2>1. "pthread.h" \in Sure(w, f) /\ "switch.h" \in Absent(w, f)
    BY <1>2, <1>12 DEF Sure, Absent
  <2>2. \A j \in 1 .. 2 - 1 : "switch.h" \notin k.edits[j].puts /\ Spares(k.edits[j], p)
    BY <1>4 DEF Spares
  <2>3. Puts(w, k, 2, p)
    BY <1>3, <1>4, <2>1, <2>2 DEF Puts
  <2>4. \A j \in 2 + 1 .. 9 : Spares(k.edits[j], p)
    BY <1>9
  <2>5. p \in New
    OBVIOUS
  <2> QED
    BY <1>3, <1>7, <2>3, <2>4, <2>5 DEF Delivers
<1>13. Delivers(w, k, "INTRO:ENTER")
  BY <1>6, <1>11
<1>14. Honest(w, k)
  <2>1. Formed(k)
    BY <1>3 DEF Formed
  <2>2. \A i \in 1 .. 9 : k.edits[i].takes \subseteq
          {"INTRO:ENTER", "32-slots", "function-start", "plain-create"}
    BY <1>4, <1>5, <1>6
  <2>3. \A i \in 1 .. 9 : k.edits[i].takes \cap Hints(f) = {}
    BY <1>2, <2>2
  <2>4. \A i \in 1 .. 9 : k.edits[i].puts \cap Absent(w, f) = {}
    BY <1>2, <1>8
  <2>5. ASSUME NEW i \in 1 .. 9, NEW p \in k.edits[i].takes, Lasts(w, f, p)
        PROVE  Delivers(w, k, p)
    <3>1. p \notin S
      BY <2>5 DEF S
    <3> QED
      BY <1>1, <1>10, <1>13, <2>2, <2>5, <3>1
  <2>6. \A i \in 1 .. 9 : \A c \in Comes(f) : c[1] \notin k.edits[i].puts
    BY <1>2, <1>8
  <2> QED
    BY <1>2, <1>3, <2>1, <2>3, <2>4, <2>5, <2>6 DEF Honest
<1>15. ASSUME NEW i \in 1 .. 9, NEW p \in k.edits[i].puts
       PROVE  p = "stdio.h+switch.h" \/ Delivers(w, k, p)
  BY <1>4, <1>5, <1>10, <1>11, <1>15
<1> QED
  BY <1>12, <1>14, <1>15 DEF k

\* patch-zt-upstream-keepalive.py insists on the one period and swaps the other two.
LEMMA PeriodsPay ==
  ASSUME NEW w
  PROVE  Honest(w, KeepalivePeriods) /\ Pays(w, KeepalivePeriods)
<1> USE FilesAre, LibztSources, NoConcern
   DEF Section, IfFound, Edit, Finding, Need, Replace
<1> DEFINE k == KeepalivePeriods
           f == "Constants"
           S == Sources[f]
<1>1. S = {"ifdef-APPLE", "ZT_INLINE", "ZT_INLINE-block", "ZT_PEER_PING_PERIOD",
           "ping-60-s", "expiration-4-pings", "trial-10-pings"}
  BY DEF Upstream
<1>2. /\ Hints(f) = {"ZT_INLINE"} /\ Comes(f) = {} /\ Absent(w, f) = {}
      /\ Instead(f) = {<<"expiration-4-pings", "expiration-243-s">>,
                       <<"trial-10-pings", "trial-600-s">>}
  BY DEF Hints, Instead
<1>3. /\ k.file = f /\ Len(k.edits) = 4 /\ k.must /\ k.marker = {}
      /\ k.find = {"ZT_PEER_PING_PERIOD"}
  BY DEF KeepalivePeriods
<1>4. /\ k.edits[1].takes = {"ping-60-s"} /\ k.edits[1].puts = {"ping-10-s"}
      /\ k.edits[2].takes = {"expiration-4-pings"} /\ k.edits[2].puts = {"expiration-243-s"}
      /\ k.edits[2].when = {"expiration-4-pings"}
      /\ k.edits[2].unless = {} /\ k.edits[2].excuse = {}
      /\ k.edits[3].takes = {"trial-10-pings"} /\ k.edits[3].puts = {"trial-600-s"}
      /\ k.edits[3].when = {"trial-10-pings"}
      /\ k.edits[3].unless = {} /\ k.edits[3].excuse = {}
      /\ k.edits[4].takes = {} /\ k.edits[4].puts = {} /\ k.edits[4].needs = {"ping-10-s"}
      /\ k.edits[4].when = {} /\ k.edits[4].unless = {} /\ k.edits[4].excuse = {}
  BY DEF KeepalivePeriods
<1> HIDE DEF k, S
<1>5. \A i \in 1 .. 4 :
        k.edits[i].takes \subseteq {"ping-60-s", "expiration-4-pings", "trial-10-pings"}
  BY <1>4
<1>6. \A p \in {"ping-10-s", "expiration-243-s", "trial-600-s"} :
        /\ Lasts(w, f, p) /\ \A i \in 1 .. 4 : Spares(k.edits[i], p)
  BY <1>1, <1>5 DEF S, Passing, Indifferent, Spares
<1>7. Delivers(w, k, "ping-10-s")
  <2>1. Insists(k, 4, "ping-10-s")
    BY <1>4 DEF Insists, Spares
  <2> QED
    BY <1>3, <1>6, <2>1 DEF Delivers
<1>8. Delivers(w, k, "expiration-243-s")
  <2>1. Swaps(k, 2, "expiration-243-s")
    <3> DEFINE c == <<"expiration-4-pings", "expiration-243-s">>
    <3>1. c[1] = "expiration-4-pings" /\ c[2] = "expiration-243-s" /\ c \in Instead(k.file)
      BY <1>2, <1>3
    <3> HIDE DEF c
    <3>2. k.edits[2].when = {c[1]} /\ c[2] \in k.edits[2].puts
      BY <1>4, <3>1
    <3>3. \E d \in Instead(k.file) :
            "expiration-243-s" = d[2] /\ k.edits[2].when = {d[1]}
      BY <3>1, <3>2
    <3> QED
      BY <1>3, <1>4, <3>3 DEF Swaps
  <2> QED
    BY <1>3, <1>6, <2>1 DEF Delivers
<1>9. Delivers(w, k, "trial-600-s")
  <2>1. Swaps(k, 3, "trial-600-s")
    <3> DEFINE c == <<"trial-10-pings", "trial-600-s">>
    <3>1. c[1] = "trial-10-pings" /\ c[2] = "trial-600-s" /\ c \in Instead(k.file)
      BY <1>2, <1>3
    <3> HIDE DEF c
    <3>2. k.edits[3].when = {c[1]} /\ c[2] \in k.edits[3].puts
      BY <1>4, <3>1
    <3>3. \E d \in Instead(k.file) :
            "trial-600-s" = d[2] /\ k.edits[3].when = {d[1]}
      BY <3>1, <3>2
    <3> QED
      BY <1>3, <1>4, <3>3 DEF Swaps
  <2> QED
    BY <1>3, <1>6, <2>1 DEF Delivers
<1>10. Formed(k)
  BY <1>3 DEF Formed
<1>11. \A i \in 1 .. 4 : Steady(f, k.edits[i]) /\ Harmless(w, f, k.edits[i])
  BY <1>1, <1>2, <1>4 DEF S, Steady, Harmless
<1>12. Honest(w, k)
  BY <1>2, <1>3, <1>10, <1>11, SteadyHonest
<1>13. Pays(w, k)
  BY <1>3, <1>4, <1>7, <1>8, <1>9 DEF Pays
<1> QED
  BY <1>12, <1>13 DEF k

\* An edit of a file of ldn_mitm that depends on nothing.
Straight(f, e) ==
  /\ e.when = {} /\ e.unless = {} /\ e.excuse = {}
  /\ e.takes \subseteq LdnUpstream[f] \cup e.puts /\ e.takes \cap Hints(f) = {}
  /\ e.puts \cap (LdnUpstream[f] \cup Passing) = {}

\* n sections of one such edit each.
AllStraight(x, f, n) == \A i \in 1 .. n : \E e : x[i] = Section(f, <<e>>) /\ Straight(f, e)

\* The files of ldn_mitm are of no concern, but for the include of one of them.
LEMMA LdnConcerns ==
  /\ \A f \in DOMAIN LdnUpstream : /\ f \in Files /\ Sources[f] = LdnUpstream[f]
                                   /\ Comes(f) = {} /\ Instead(f) = {}
                                   /\ \A w : Absent(w, f) = {}
                                   /\ f # "ldn_icommunication" => Hints(f) = {}
  /\ DOMAIN LdnUpstream =
       {"checkout", "bridgeHpp", "bridgeCpp", "errnoCompat", "stubs", "ldnmitm_main",
        "lan_protocol", "lan_discovery", "ldn_icommunication", "Makefile"}
  /\ Hints("ldn_icommunication") = {"arpa/inet.h"}
<1>1. DOMAIN LdnUpstream =
       {"checkout", "bridgeHpp", "bridgeCpp", "errnoCompat", "stubs", "ldnmitm_main",
        "lan_protocol", "lan_discovery", "ldn_icommunication", "Makefile"}
  BY DEF LdnUpstream
<1>2. Hints("ldn_icommunication") = {"arpa/inet.h"}
  BY DEF Hints
<1>3. ASSUME NEW f \in DOMAIN LdnUpstream PROVE f \in Files /\ Sources[f] = LdnUpstream[f]
  <2>1. f \in Files
    BY <1>1, FilesAre
  <2>2. f \notin DOMAIN Upstream
    BY <1>1, LibztSources
  <2> QED
    BY <2>1, <2>2 DEF Files, Sources, Both
<1>4. ASSUME NEW f \in DOMAIN LdnUpstream
      PROVE  /\ Comes(f) = {} /\ Instead(f) = {}
             /\ \A w : Absent(w, f) = {}
             /\ f # "ldn_icommunication" => Hints(f) = {}
  <2>1. f \notin {"CMake", "Constants", "OSUtils", "Phy", "NodeService", "VirtualTap",
                "sys_arch", "tcpip"}
    BY <1>1
  <2>2. f \notin {"tcpip", "sys_arch"} /\ f # "Constants"
        /\ f \notin {"VirtualTap", "sys_arch", "OSUtils", "Phy", "NodeService"}
    BY <2>1
  <2> QED
    BY <2>1, <2>2, NoConcern
<1> QED
  BY <1>1, <1>2, <1>3, <1>4

\* A section of one such edit delivers what it puts in.
LEMMA StraightRegular ==
  ASSUME NEW w, NEW f \in DOMAIN LdnUpstream \ {"stubs"}, NEW e, Straight(f, e)
  PROVE  Regular(w, Section(f, <<e>>))
<1> DEFINE k == Section(f, <<e>>)
<1>1. /\ k.file = f /\ k.edits = <<e>> /\ k.must /\ k.marker = {} /\ k.find = {}
  BY DEF Section
<1>2. Len(k.edits) = 1 /\ k.edits[1] = e
  BY <1>1
<1> HIDE DEF k
<1>3. /\ f \in Files /\ Sources[f] = LdnUpstream[f] /\ Comes(f) = {} /\ Instead(f) = {}
      /\ Absent(w, f) = {}
  BY LdnConcerns
<1>4. Formed(k)
  BY <1>1, <1>2, <1>3 DEF Formed
<1>5. Steady(f, e) /\ Harmless(w, f, e)
  BY <1>3 DEF Straight, Steady, Harmless
<1>6. ASSUME NEW p \in e.puts PROVE Lands(w, k, 1, p)
  <2>1. Lasts(w, f, p)
    BY <1>3, NoConcern DEF Straight
  <2> QED
    BY <1>1, <1>2, <2>1 DEF Straight, Lands
<1>7. \A i \in 1 .. Len(k.edits) : i = 1
  BY <1>2
<1>8. Regular(w, k)
  BY <1>1, <1>2, <1>3, <1>4, <1>5, <1>6, <1>7 DEF Regular
<1> QED
  BY <1>8 DEF k

\* The edits of patch-ldn-zt.py to the sources of ldn_mitm are such.
LEMMA LdnStraight ==
  /\ AllStraight(LdnMain, "ldnmitm_main", 3)
  /\ AllStraight(LdnProtocol, "lan_protocol", 10)
  /\ AllStraight(LdnDiscovery, "lan_discovery", 12)
  /\ AllStraight(LdnService, "ldn_icommunication", 3)
<1>0. ASSUME NEW f, NEW es, NEW n, DOMAIN es = 1 .. n, \A i \in 1 .. n : Straight(f, es[i])
      PROVE  AllStraight(EachWritten(f, es), f, n)
  <2>1. EachWritten(f, es) = [i \in 1 .. n |-> Section(f, <<es[i]>>)]
    BY <1>0 DEF EachWritten
  <2> QED
    BY <1>0, <2>1 DEF AllStraight
<1>1. AllStraight(LdnMain, "ldnmitm_main", 3)
  <2> DEFINE es == <<Edit({"log-main-block"}, {"log-main-block", "main"}, {"LDN-ZT:Main-entered"}),
                     Edit({"register-block"}, {"register-block", "registered"},
                          {"LDN-ZT:mitm-registered"}),
                     replace("128_KB-heap", "1_MB-heap")>>
  <2>1. DOMAIN es = 1 .. 3
    OBVIOUS
  <2>2. LdnMain = EachWritten("ldnmitm_main", es)
    BY DEF LdnMain
  <2>3. \A i \in 1 .. 3 : Straight("ldnmitm_main", es[i])
    BY LdnConcerns
       DEF Straight, Passing, Indifferent, LdnUpstream, replace, Edit, Replace
  <2> HIDE DEF es
  <2> QED
    BY <1>0, <2>1, <2>2, <2>3
<1>2. AllStraight(LdnProtocol, "lan_protocol", 10)
  <2> DEFINE es == <<Insert("stratosphere.hpp", "zt_bridge.hpp"),
                     Edit({"poll-loop"}, {"poll-loop", "pfds[nfds]", "rc=poll"},
                          {"ztbridge::poll"}),
                     replace("pfd=pfds[i]", "ztbridge::PollFd"),
                     replace("POLLERR", "ZT_POLLERR"),
                     replace("POLLIN", "ZT_POLLIN"),
                     replace("::close-line", "ztbridge::close"),
                     replace_line("recvfrom-line", "recvfrom", "ztbridge::recv"),
                     replace_line("sendto-line", "sendto", "ztbridge::send"),
                     Edit({"recvfrom-addr"}, {"recvfrom-addr", "addr_len"}, {"ztbridge::recv"}),
                     replace_line("sendto-addr-line", "sendto-addr", "ztbridge::sendto")>>
  <2>1. DOMAIN es = 1 .. 10
    OBVIOUS
  <2>2. LdnProtocol = EachWritten("lan_protocol", es)
    BY DEF LdnProtocol
  <2>3. \A i \in 1 .. 10 : Straight("lan_protocol", es[i])
    BY LdnConcerns
       DEF Straight, Passing, Indifferent, LdnUpstream, replace, replace_line, Edit, Insert,
           Replace
  <2> HIDE DEF es
  <2> QED
    BY <1>0, <2>1, <2>2, <2>3
<1>3. AllStraight(LdnDiscovery, "lan_discovery", 12)
  <2> DEFINE es == <<Insert("ipinfo.hpp", "zt_bridge.hpp"),
      Edit({"accept-block"}, {"accept-block", "accept"}, {"ztbridge::accept"}),
      replace_all({"close(new_fd)-1", "close(new_fd)-2"}, {}, "ztbridge::close"),
      replace_function("getBroadcast-def", {"ip-config", "ip-config-call"}, "peer_ip_host_order"),
      replace_function("setSocketOpts-def", {}, "no-options"),
      replace_line("tcp-socket-line", "tcp-socket", "ztbridge::socket"),
      replace_all({"bind-1-line", "bind-2-line"}, {"bind-1", "bind-2"}, "ztbridge::bind"),
      replace_line("listen-line", "listen", "ztbridge::listen"),
      replace_line("udp-socket-line", "udp-socket", "ztbridge::socket"),
      replace_line("connect-line", "connect", "ztbridge::connect"),
      Edit({"local-ip-block"}, {"local-ip-block", "local-ip"}, {"local_ip_host_order"}),
      Edit({"mac-ip-block"}, {"mac-ip-block", "mac-ip"}, {"local_ip_host_order"})>>
  <2>1. DOMAIN es = 1 .. 12
    OBVIOUS
  <2>2. LdnDiscovery = EachWritten("lan_discovery", es)
    BY DEF LdnDiscovery
  <2>3. \A i \in 1 .. 12 : Straight("lan_discovery", es[i])
    BY LdnConcerns
       DEF Straight, Passing, Indifferent, LdnUpstream, replace, replace_line, replace_all,
           replace_function, Edit, Insert, Replace
  <2> HIDE DEF es
  <2> QED
    BY <1>0, <2>1, <2>2, <2>3
<1>4. AllStraight(LdnService, "ldn_icommunication", 3)
  <2> DEFINE es == <<Insert("arpa/inet.h", "zt_bridge.hpp"),
      Insert("lanDiscovery.initialize-line", "ztbridge::init"),
      replace_function("GetIpv4Address-def", {"ip-config-info"}, "local_ip_host_order")>>
  <2>1. DOMAIN es = 1 .. 3
    OBVIOUS
  <2>2. LdnService = EachWritten("ldn_icommunication", es)
    BY DEF LdnService
  <2>3. \A i \in 1 .. 3 : Straight("ldn_icommunication", es[i])
    BY LdnConcerns
       DEF Straight, Passing, Indifferent, LdnUpstream, replace_function, Edit, Insert, Replace
  <2> HIDE DEF es
  <2> QED
    BY <1>0, <2>1, <2>2, <2>3
<1> QED
  BY <1>1, <1>2, <1>3, <1>4

\* A section that only looks.
LEMMA LookHonest ==
  ASSUME NEW w, NEW k, Formed(k),
         \A i \in 1 .. Len(k.edits) : k.edits[i].takes = {} /\ k.edits[i].puts = {}
  PROVE  Honest(w, k) /\ Pays(w, k)
<1>1. \A i \in 1 .. Len(k.edits) : Steady(k.file, k.edits[i]) /\ Harmless(w, k.file, k.edits[i])
  BY DEF Steady, Harmless
<1>2. Honest(w, k)
  BY <1>1, SteadyHonest
<1> QED
  BY <1>2 DEF Pays

\* What the copies of files and the Makefile come to.
LEMMA CopiesHonest ==
  ASSUME NEW w
  PROVE  /\ \A f \in {"bridgeHpp", "bridgeCpp", "errnoCompat"} : Regular(w, Copy(f))
         /\ "ldn" \notin w => Honest(w, Copy("stubs")) /\ Pays(w, Copy("stubs"))
         /\ "ldn" \in w => /\ Honest(w, Copy("stubs"))
                          /\ Honest(w, LdnCopies[4]) /\ Pays(w, LdnCopies[4])
<1>1. ASSUME NEW f \in {"bridgeHpp", "bridgeCpp", "errnoCompat"} PROVE Regular(w, Copy(f))
  <2> DEFINE e == Edit({}, {"copy"}, {"copy"})
  <2>1. f \in DOMAIN LdnUpstream \ {"stubs"} /\ f # "ldn_icommunication"
    BY LdnConcerns
  <2>2. LdnUpstream[f] = {} /\ Hints(f) = {}
    BY <2>1, LdnConcerns DEF LdnUpstream
  <2>3. /\ e.when = {} /\ e.unless = {} /\ e.excuse = {}
        /\ e.takes = {"copy"} /\ e.puts = {"copy"}
    BY DEF Edit
  <2>4. Copy(f) = Section(f, <<e>>)
    BY DEF Copy
  <2> HIDE DEF e
  <2>5. Straight(f, e)
    BY <2>2, <2>3 DEF Straight, Passing, Indifferent
  <2> QED
    BY <2>1, <2>4, <2>5, StraightRegular
<1> DEFINE k == Copy("stubs")
           m == LdnCopies[4]
<1>2. /\ k.file = "stubs" /\ Len(k.edits) = 1 /\ k.must /\ k.marker = {} /\ k.find = {}
      /\ k.edits[1].takes = {"copy"} /\ k.edits[1].puts = {"copy"}
      /\ k.edits[1].when = {} /\ k.edits[1].unless = {} /\ k.edits[1].excuse = {}
  BY DEF Copy, Section, Edit
<1>3. /\ m.file = "stubs" /\ Len(m.edits) = 1
      /\ m.edits[1].takes = {"copy"} /\ m.edits[1].puts = {}
  BY DEF LdnCopies, Section, Edit
<1> HIDE DEF k, m
<1>4. /\ "stubs" \in Files /\ Sources["stubs"] = {} /\ Comes("stubs") = {} /\ Instead("stubs") = {}
      /\ Absent(w, "stubs") = {} /\ Hints("stubs") = {}
  BY LdnConcerns DEF LdnUpstream
<1>5. Formed(k) /\ Formed(m)
  BY <1>2, <1>3, <1>4 DEF Formed
<1>6. ASSUME "ldn" \in w PROVE Honest(w, k) /\ Honest(w, m) /\ Pays(w, m)
  <2>1. ~Lasts(w, "stubs", "copy")
    BY <1>6 DEF Lasts
  <2>2. Honest(w, k)
    BY <1>2, <1>4, <1>5, <2>1 DEF Honest
  <2>3. Honest(w, m)
    BY <1>3, <1>4, <1>5, <2>1 DEF Honest
  <2> QED
    BY <1>3, <2>2, <2>3 DEF Pays
<1>7. ASSUME "ldn" \notin w PROVE Honest(w, k) /\ Pays(w, k)
  <2>1. Lasts(w, "stubs", "copy")
    BY <1>4, <1>7 DEF Lasts, Passing, Indifferent
  <2>2. Puts(w, k, 1, "copy")
    BY <1>2 DEF Puts
  <2>3. Delivers(w, k, "copy")
    BY <1>2, <2>1, <2>2 DEF Delivers
  <2>4. Honest(w, k)
    BY <1>2, <1>4, <1>5 DEF Honest
  <2> QED
    BY <1>2, <2>3, <2>4 DEF Pays
<1> QED
  BY <1>1, <1>6, <1>7 DEF k, m

\* patch-ldn-zt.py insists on the library in the Makefile only at the end.
LEMMA MakefileHonest ==
  ASSUME NEW w
  PROVE  /\ \A i \in 1 .. 3 : Honest(w, LdnMakefile[i])
         /\ \A i \in 2 .. 3 : Pays(w, LdnMakefile[i])
         /\ LdnMakefile[1].file = "Makefile" /\ LdnMakefile[3].file = "Makefile"
         /\ \A i \in 1 .. Len(LdnMakefile[1].edits) :
              LdnMakefile[1].edits[i].puts \subseteq {"-lzt"}
         /\ Delivers(w, LdnMakefile[3], "-lzt")
<1> DEFINE a == LdnMakefile[1]
           b == LdnMakefile[2]
           c == LdnMakefile[3]
<1>1. /\ a.file = "Makefile" /\ Len(a.edits) = 1
      /\ a.edits[1].takes = {} /\ a.edits[1].puts = {"-lzt"}
  BY DEF LdnMakefile, Section, IfFound, Insert, Edit
<1>2. /\ b.file = "stubs" /\ Len(b.edits) = 1
      /\ b.edits[1].takes = {} /\ b.edits[1].puts = {}
  BY DEF LdnMakefile, Section, Refuse, OnlyIf, Need, Edit
<1>3. /\ c.file = "Makefile" /\ Len(c.edits) = 1 /\ c.must /\ c.marker = {} /\ c.find = {}
      /\ c.edits[1].takes = {} /\ c.edits[1].puts = {} /\ c.edits[1].needs = {"-lzt"}
      /\ c.edits[1].when = {} /\ c.edits[1].unless = {} /\ c.edits[1].excuse = {}
  BY DEF LdnMakefile, Section, Need, Edit
<1> HIDE DEF a, b, c
<1>4. /\ "stubs" \in Files /\ "Makefile" \in Files
      /\ Sources["Makefile"] = {"VERSION_DEFINES"} /\ Comes("Makefile") = {}
      /\ Instead("Makefile") = {} /\ Absent(w, "Makefile") = {} /\ Hints("Makefile") = {}
  BY LdnConcerns DEF LdnUpstream
<1>5. Formed(a) /\ Formed(b) /\ Formed(c)
  BY <1>1, <1>2, <1>3, <1>4 DEF Formed
<1>6. Honest(w, a)
  BY <1>1, <1>4, <1>5 DEF Honest
<1>7. Honest(w, b) /\ Pays(w, b) /\ Honest(w, c) /\ Pays(w, c)
  BY <1>2, <1>3, <1>5, LookHonest
<1>8. Delivers(w, c, "-lzt")
  <2>1. Lasts(w, "Makefile", "-lzt")
    BY <1>4 DEF Lasts, Passing, Indifferent
  <2>2. Insists(c, 1, "-lzt")
    BY <1>3 DEF Insists, Spares
  <2> QED
    BY <1>3, <2>1, <2>2 DEF Delivers
<1>9. \A i \in 1 .. 3 : Honest(w, LdnMakefile[i])
  BY <1>6, <1>7 DEF a, b, c
<1>10. \A i \in 2 .. 3 : Pays(w, LdnMakefile[i])
  BY <1>7 DEF b, c
<1> QED
  BY <1>1, <1>3, <1>8, <1>9, <1>10 DEF a, c

\* So patch-ldn-zt.py is honest, and pays but for the library.
LEMMA LdnHonest ==
  ASSUME NEW w, "ldn" \in w
  PROVE  /\ \A i \in 1 .. 36 : Honest(w, PatchLdn[i]) /\ (i # 34 => Pays(w, PatchLdn[i]))
         /\ PatchLdn[34] = LdnMakefile[1] /\ PatchLdn[36] = LdnMakefile[3]
         /\ PatchLdn[31] = Section("ldn_icommunication", <<Insert("arpa/inet.h", "zt_bridge.hpp")>>)
         /\ Delivers(w, PatchLdn[31], "zt_bridge.hpp")
<1>1. Honest(w, LdnPreconditions[1]) /\ Pays(w, LdnPreconditions[1])
  <2>1. Formed(LdnPreconditions[1])
    BY LdnEnds DEF AllGood, Good
  <2>2. \A i \in 1 .. Len(LdnPreconditions[1].edits) :
          LdnPreconditions[1].edits[i].takes = {} /\ LdnPreconditions[1].edits[i].puts = {}
    BY DEF LdnPreconditions, Section, Need, Edit
  <2> QED
    BY <2>1, <2>2, LookHonest
<1>2. \A i \in 1 .. 4 : Honest(w, LdnCopies[i]) /\ Pays(w, LdnCopies[i])
  <2>1. /\ LdnCopies[1] = Copy("bridgeHpp") /\ LdnCopies[2] = Copy("bridgeCpp")
        /\ LdnCopies[3] = Copy("errnoCompat")
    BY DEF LdnCopies
  <2>2. \A i \in 1 .. 3 : Honest(w, LdnCopies[i]) /\ Pays(w, LdnCopies[i])
    BY <2>1, CopiesHonest, RegularPays
  <2>3. Honest(w, LdnCopies[4]) /\ Pays(w, LdnCopies[4])
    BY CopiesHonest
  <2> QED
    BY <2>2, <2>3
<1>3. ASSUME NEW x,
             NEW f \in {"ldnmitm_main", "lan_protocol", "lan_discovery", "ldn_icommunication"},
             NEW n, AllStraight(x, f, n), NEW i \in 1 .. n
      PROVE  Honest(w, x[i]) /\ Pays(w, x[i])
  <2>1. PICK e : x[i] = Section(f, <<e>>) /\ Straight(f, e)
    BY <1>3 DEF AllStraight
  <2>2. f \in DOMAIN LdnUpstream \ {"stubs"}
    BY LdnConcerns
  <2> QED
    BY <2>1, <2>2, StraightRegular, RegularPays
<1>4. /\ \A i \in 1 .. 3 : Honest(w, LdnMain[i]) /\ Pays(w, LdnMain[i])
      /\ \A i \in 1 .. 10 : Honest(w, LdnProtocol[i]) /\ Pays(w, LdnProtocol[i])
      /\ \A i \in 1 .. 12 : Honest(w, LdnDiscovery[i]) /\ Pays(w, LdnDiscovery[i])
      /\ \A i \in 1 .. 3 : Honest(w, LdnService[i]) /\ Pays(w, LdnService[i])
  BY <1>3, LdnStraight
<1>5. ASSUME NEW i \in 1 .. 36 PROVE Honest(w, PatchLdn[i]) /\ (i # 34 => Pays(w, PatchLdn[i]))
  <2>1. CASE i = 1
    BY <1>1, <2>1, LdnParts
  <2>2. CASE i \in 2 .. 5
    BY <1>2, <2>2, LdnParts
  <2>3. CASE i \in 6 .. 8
    BY <1>4, <2>3, LdnParts
  <2>4. CASE i \in 9 .. 18
    BY <1>4, <2>4, LdnParts
  <2>5. CASE i \in 19 .. 30
    BY <1>4, <2>5, LdnParts
  <2>6. CASE i \in 31 .. 33
    BY <1>4, <2>6, LdnParts
  <2>7. CASE i \in 34 .. 36
    <3>1. PatchLdn[i] = LdnMakefile[i - 33] /\ i - 33 \in 1 .. 3 /\ (i # 34 => i - 33 \in 2 .. 3)
      BY <2>7, LdnParts
    <3>2. /\ \A j \in 1 .. 3 : Honest(w, LdnMakefile[j])
          /\ \A j \in 2 .. 3 : Pays(w, LdnMakefile[j])
      BY MakefileHonest
    <3> QED
      BY <3>1, <3>2
  <2> QED
    BY <2>1, <2>2, <2>3, <2>4, <2>5, <2>6, <2>7
<1>6. /\ PatchLdn[34] = LdnMakefile[1] /\ PatchLdn[36] = LdnMakefile[3]
      /\ PatchLdn[31] = LdnService[1]
  BY LdnParts
<1>7. LdnService[1] = Section("ldn_icommunication", <<Insert("arpa/inet.h", "zt_bridge.hpp")>>)
  BY DEF LdnService, EachWritten
<1>8. Delivers(w, PatchLdn[31], "zt_bridge.hpp")
  <2> DEFINE k == PatchLdn[31]
  <2>1. Pays(w, k)
    BY <1>5
  <2>2. /\ k.file = "ldn_icommunication" /\ Len(k.edits) = 1 /\ k.edits[1].puts = {"zt_bridge.hpp"}
    BY <1>6, <1>7 DEF Section, Insert, Edit
  <2>3. "zt_bridge.hpp" \notin Sources["ldn_icommunication"] \cup Indifferent
    BY LdnConcerns DEF LdnUpstream, Indifferent
  <2> HIDE DEF k
  <2> QED
    BY <2>1, <2>2, <2>3 DEF Pays, k
<1> QED
  BY <1>5, <1>6, <1>7, <1>8

\* The sections of three scripts by their number.
LEMMA BootstrapParts ==
  /\ PatchBootstrap[1] = BootstrapCMake
  /\ \A i \in 2 .. 11 : PatchBootstrap[i] = PatchLibzt[i - 1]
<1> DEFINE a == <<BootstrapCMake>>
           b == a \o PatchLibzt
           c == <<BootstrapDriver, BootstrapSysArch>>
<1>1. IsSeq(a) /\ Len(a) = 1 /\ a[1] = BootstrapCMake
  <2>1. a \in Seq({a[1]}) /\ Len(a) = 1
    OBVIOUS
  <2> QED
    BY <2>1 DEF IsSeq
<1>2. IsSeq(c) /\ Len(c) = 2
  <2>1. c \in Seq({c[i] : i \in 1 .. 2}) /\ Len(c) = 2
    OBVIOUS
  <2> QED
    BY <2>1 DEF IsSeq
<1>3. PatchBootstrap = b \o c /\ b = a \o PatchLibzt
  BY DEF PatchBootstrap
<1>4. IsSeq(PatchLibzt) /\ Len(PatchLibzt) = 10
  BY ShortScripts DEF AllGood
<1> HIDE DEF a, b, c
<1>5. Split(b, a, 1, PatchLibzt, 10)
  <2>1. Split(a \o PatchLibzt, a, 1, PatchLibzt, 10)
    BY <1>1, <1>4, Joined
  <2> QED
    BY <1>3, <2>1, Zenon
<1>6. Split(PatchBootstrap, b, 11, c, 2)
  <2>1. IsSeq(b) /\ Len(b) = 11
    BY <1>5 DEF Split
  <2>2. Split(b \o c, b, 11, c, 2)
    BY <1>2, <2>1, Joined
  <2> QED
    BY <1>3, <2>2, Zenon
<1> QED
  BY <1>1, <1>5, <1>6 DEF Split

\* The four sections of patch-incoming-auth-trace.py.
LEMMA AuthParts ==
  /\ \A i \in 1 .. 2 : PatchAuthTrace[i] = AuthFilesExist[i]
  /\ PatchAuthTrace[3] = AuthIncoming /\ PatchAuthTrace[4] = AuthPeer
<1> DEFINE b == <<AuthIncoming, AuthPeer>>
<1>1. IsSeq(b) /\ Len(b) = 2 /\ b[1] = AuthIncoming /\ b[2] = AuthPeer
  <2>1. b \in Seq({b[i] : i \in 1 .. 2}) /\ Len(b) = 2
    OBVIOUS
  <2> QED
    BY <2>1 DEF IsSeq
<1>2. PatchAuthTrace = AuthFilesExist \o b
  BY DEF PatchAuthTrace
<1>3. IsSeq(AuthFilesExist) /\ Len(AuthFilesExist) = 2
  <2>1. AuthFilesExist \in Seq({AuthFilesExist[i] : i \in 1 .. 2}) /\ Len(AuthFilesExist) = 2
    BY DEF AuthFilesExist
  <2> QED
    BY <2>1 DEF IsSeq
<1> HIDE DEF b
<1>4. Split(PatchAuthTrace, AuthFilesExist, 2, b, 2)
  <2>1. Split(AuthFilesExist \o b, AuthFilesExist, 2, b, 2)
    BY <1>1, <1>3, Joined
  <2> QED
    BY <1>2, <2>1, Zenon
<1> QED
  BY <1>1, <1>4 DEF Split

\* The nine of the step that installs the stubs.
LEMMA StubParts ==
  /\ StubStep[1] = Section("checkout", <<Need("ldn_mitm-pin"), Need("Atmosphere-pin")>>)
  /\ \A i \in 2 .. 5 : StubStep[i] = AnchorCheck[i - 1]
  /\ StubStep[6] = Copy("bridgeHpp") /\ StubStep[7] = Copy("stubs")
  /\ StubStep[8] = Section("ldn_icommunication",
                     <<IfFound(Insert("arpa/inet.h", "zt_bridge.hpp")),
                       Insert("lanDiscovery.initialize-line", "ztbridge::init")>>)
  /\ StubStep[9] = Section("Makefile", <<Refuse("-lzt")>>)
<1> DEFINE a == <<Section("checkout", <<Need("ldn_mitm-pin"), Need("Atmosphere-pin")>>)>>
           b == a \o AnchorCheck
           m == Section("ldn_icommunication",
                  <<IfFound(Insert("arpa/inet.h", "zt_bridge.hpp")),
                    Insert("lanDiscovery.initialize-line", "ztbridge::init")>>)
           n == Section("Makefile", <<Refuse("-lzt")>>)
           c == <<Copy("bridgeHpp"), Copy("stubs"), m, n>>
<1>1. IsSeq(a) /\ Len(a) = 1 /\ a[1] = Section("checkout", <<Need("ldn_mitm-pin"), Need("Atmosphere-pin")>>)
  <2>1. a \in Seq({a[1]}) /\ Len(a) = 1
    OBVIOUS
  <2> QED
    BY <2>1 DEF IsSeq
<1>2. StubStep = b \o c /\ b = a \o AnchorCheck
  BY DEF StubStep
<1> HIDE DEF m, n
<1>3. /\ IsSeq(c) /\ Len(c) = 4
      /\ c[1] = Copy("bridgeHpp") /\ c[2] = Copy("stubs") /\ c[3] = m /\ c[4] = n
  <2>1. c \in Seq({c[i] : i \in 1 .. 4}) /\ Len(c) = 4
    OBVIOUS
  <2> QED
    BY <2>1 DEF IsSeq
<1> HIDE DEF a, b, c
<1>4. Split(b, a, 1, AnchorCheck, 4)
  <2>1. Split(a \o AnchorCheck, a, 1, AnchorCheck, 4)
    BY <1>1, CheckScript, Joined DEF AllGood
  <2> QED
    BY <1>2, <2>1, Zenon
<1>5. Split(StubStep, b, 5, c, 4)
  <2>1. IsSeq(b) /\ Len(b) = 5
    BY <1>4 DEF Split
  <2>2. Split(b \o c, b, 5, c, 4)
    BY <1>3, <2>1, Joined
  <2> QED
    BY <1>2, <2>2, Zenon
<1>6. /\ StubStep[6] = Copy("bridgeHpp") /\ StubStep[7] = Copy("stubs")
      /\ StubStep[8] = m /\ StubStep[9] = n
  BY <1>3, <1>5 DEF Split
<1>7. StubStep[1] = a[1] /\ \A i \in 2 .. 5 : StubStep[i] = AnchorCheck[i - 1]
  BY <1>4, <1>5 DEF Split
<1> QED
  BY <1>1, <1>6, <1>7 DEF m, n

\* The stubs: the include is as good as patch-ldn-zt.py's where that is not used.
LEMMA StubsHonest ==
  ASSUME NEW w
  PROVE  /\ Honest(w, StubStep[8])
         /\ StubStep[8].file = "ldn_icommunication"
         /\ \A j \in 1 .. Len(StubStep[8].edits) : \A p \in StubStep[8].edits[j].puts :
              Delivers(w, StubStep[8], p) \/ (p = "zt_bridge.hpp" /\ "ldn" \in w)
<1> DEFINE k == StubStep[8]
           f == "ldn_icommunication"
<1>1. /\ k.file = f /\ Len(k.edits) = 2 /\ k.must /\ k.marker = {} /\ k.find = {}
      /\ k.edits[1].takes = {} /\ k.edits[1].puts = {"zt_bridge.hpp"}
      /\ k.edits[1].when = {"arpa/inet.h"} /\ k.edits[1].unless = {} /\ k.edits[1].excuse = {}
      /\ k.edits[2].takes = {} /\ k.edits[2].puts = {"ztbridge::init"}
      /\ k.edits[2].when = {} /\ k.edits[2].unless = {} /\ k.edits[2].excuse = {}
  BY StubParts DEF Section, IfFound, Insert, Edit
<1>2. /\ f \in Files /\ Comes(f) = {} /\ Instead(f) = {} /\ Absent(w, f) = {}
      /\ Sources[f] = {"arpa/inet.h", "Initialize", "lanDiscovery.initialize",
                       "lanDiscovery.initialize-line", "GetIpv4Address", "GetIpv4Address-def",
                       "ip-config-info"}
  BY LdnConcerns DEF LdnUpstream
<1> HIDE DEF k
<1>3. Honest(w, k)
  BY <1>1, <1>2 DEF Honest, Formed
<1>4. \A p \in {"zt_bridge.hpp", "ztbridge::init"} :
        Lasts(w, f, p) /\ \A j \in 1 .. 2 : Spares(k.edits[j], p)
  BY <1>1, <1>2 DEF Lasts, Passing, Indifferent, Spares
<1>5. Delivers(w, k, "ztbridge::init")
  <2>1. Puts(w, k, 2, "ztbridge::init")
    BY <1>1 DEF Puts
  <2> QED
    BY <1>1, <1>4, <2>1 DEF Delivers
<1>6. ASSUME "ldn" \notin w PROVE Delivers(w, k, "zt_bridge.hpp")
  <2>1. "arpa/inet.h" \in Sure(w, f)
    BY <1>6, LdnConcerns DEF Sure
  <2>2. Puts(w, k, 1, "zt_bridge.hpp")
    BY <1>1, <2>1 DEF Puts
  <2> QED
    BY <1>1, <1>4, <2>2 DEF Delivers
<1> QED
  BY <1>1, <1>3, <1>5, <1>6 DEF k

\* What a section puts in without seeing to it that it is there.
Unpaid(w, s, i) ==
  IF s = "bootstrap" /\ i = 1 THEN {"lwIP-port"}
  ELSE IF s = "lwip" /\ i = 1 THEN {"3-s"}
  ELSE IF s = "lwip" /\ i = 2 /\ "bootstrap" \in w THEN {"stdio.h+switch.h"}
  ELSE IF s = "ldn" /\ i = 34 THEN {"-lzt"}
  ELSE IF s = "stubs" /\ i = 7 /\ "ldn" \in w THEN {"copy"}
  ELSE IF s = "stubs" /\ i = 8 /\ "ldn" \in w THEN {"zt_bridge.hpp"}
  ELSE {}

\* An honest section that pays for the rest.
Meets(w, k, unpaid) ==
  /\ Honest(w, k)
  /\ \A j \in 1 .. Len(k.edits) : \A p \in k.edits[j].puts :
       p \in Sources[k.file] \cup Indifferent \cup unpaid \/ Delivers(w, k, p)

\* All sections of all scripts do.
LEMMA ScriptsMeet ==
  ASSUME NEW w, NEW s \in Scripts, s \in w, NEW i \in 1 .. Len(Script[s])
  PROVE  Meets(w, Script[s][i], Unpaid(w, s, i))
<1>1. /\ Script["bootstrap"] = PatchBootstrap /\ Script["libzt"] = PatchLibzt
      /\ Script["lwip"] = PatchLwip /\ Script["phy"] = PatchPhy
      /\ Script["restore"] = RestoreChecksum /\ Script["peerinfo"] = PatchPeerInfo
      /\ Script["keepalive"] = PatchKeepalive /\ Script["auth"] = PatchAuthTrace
      /\ Script["hotpath"] = PatchHotPath /\ Script["ldn"] = PatchLdn
      /\ Script["check"] = AnchorCheck /\ Script["stubs"] = StubStep
  BY DEF Script
<1>2. s \in {"bootstrap", "libzt", "lwip", "phy", "restore", "peerinfo", "keepalive", "auth",
             "hotpath", "ldn", "check", "stubs"}
  BY DEF Scripts, Script
<1>3. /\ Len(PatchBootstrap) = 13 /\ Len(PatchLibzt) = 10 /\ Len(PatchLwip) = 7
      /\ Len(PatchPhy) = 2 /\ Len(RestoreChecksum) = 1 /\ Len(PatchPeerInfo) = 1
      /\ Len(PatchKeepalive) = 2 /\ Len(PatchAuthTrace) = 4 /\ Len(PatchHotPath) = 2
      /\ Len(PatchLdn) = 36 /\ Len(AnchorCheck) = 4 /\ Len(StubStep) = 9
  BY BootstrapScript, ShortScripts, AuthScript, LdnParts, CheckScript, StubScript DEF AllGood
<1>4. ASSUME NEW k, NEW u, Honest(w, k), Pays(w, k) PROVE Meets(w, k, u)
  BY <1>4 DEF Meets, Pays
<1>5. ASSUME NEW k, NEW u, Regular(w, k) PROVE Meets(w, k, u)
  BY <1>4, <1>5, RegularPays
<1>6. \A u : \A j \in 1 .. 10 : Meets(w, PatchLibzt[j], u)
  BY <1>5, LibztRegular
<1>7. CASE s = "libzt"
  BY <1>1, <1>2, <1>3, <1>6, <1>7
<1>8. CASE s = "bootstrap"
  <2>1. i \in 1 .. 13 /\ Script[s][i] = PatchBootstrap[i]
    BY <1>1, <1>3, <1>8
  <2>2. CASE i = 1
    <3>1. Unpaid(w, s, i) = {"lwIP-port"}
      BY <1>8, <2>2 DEF Unpaid
    <3>2. BootstrapCMake.file = "CMake" /\ Len(BootstrapCMake.edits) = 3
      BY DEF BootstrapCMake, Section
    <3>3. Meets(w, BootstrapCMake, {"lwIP-port"})
      BY <3>2, BootstrapHonest DEF Meets
    <3> QED
      BY <2>1, <2>2, <3>1, <3>3, BootstrapParts
  <2>3. CASE i \in 2 .. 11
    BY <1>6, <2>1, <2>3, BootstrapParts
  <2>4. CASE i \in 12 .. 13
    <3>1. Regular(w, PatchBootstrap[i])
      BY <1>8, <2>4, BootstrapRegular, BootstrapScript
    <3> QED
      BY <1>5, <2>1, <3>1
  <2> QED
    BY <2>1, <2>2, <2>3, <2>4
<1>9. CASE s = "lwip"
  <2>1. i \in 1 .. 7 /\ Script[s][i] = PatchLwip[i]
    BY <1>1, <1>3, <1>9
  <2>2. CASE i = 1
    <3>1. Unpaid(w, s, i) = {"3-s"}
      BY <1>9, <2>2 DEF Unpaid
    <3>2. Len(LwipTimings.edits) = 1 /\ LwipTimings.edits[1].puts = {"3-s"}
      BY DEF LwipTimings, Section, IfFound, Replace, Edit
    <3>3. Meets(w, LwipTimings, {"3-s"})
      BY <3>2, TimingsHonest DEF Meets
    <3> QED
      BY <2>1, <2>2, <3>1, <3>3 DEF PatchLwip
  <2>3. CASE i = 2
    <3>1. PatchLwip[2] = LwipSysArch /\ Len(LwipSysArch.edits) = 9
      BY DEF PatchLwip, LwipSysArch, Finding, Section
    <3>2. Unpaid(w, s, i) = IF "bootstrap" \in w THEN {"stdio.h+switch.h"} ELSE {}
      BY <1>9, <2>3 DEF Unpaid
    <3>3. Meets(w, LwipSysArch, Unpaid(w, s, i))
      BY <3>1, <3>2, SysArchHonest DEF Meets
    <3> QED
      BY <2>1, <2>3, <3>1, <3>3
  <2>4. CASE i \in 3 .. 7
    BY <1>5, <2>1, <2>4, LwipRegular
  <2> QED
    BY <2>1, <2>2, <2>3, <2>4
<1>10. CASE s = "phy"
  <2>1. i \in 1 .. 2 /\ Script[s][i] = PatchPhy[i]
    BY <1>1, <1>3, <1>10
  <2>2. Regular(w, PatchPhy[i])
    BY <2>1, ShortRegular DEF PatchPhy
  <2> QED
    BY <1>5, <2>1, <2>2
<1>11. CASE s = "restore"
  <2>1. i = 1 /\ Script[s][i] = RestoreChecksum[1]
    <3>1. Script[s] = RestoreChecksum /\ Len(RestoreChecksum) = 1
      BY <1>1, <1>3, <1>11
    <3>2. i \in 1 .. 1
      BY <3>1
    <3> QED
      BY <3>1, <3>2
  <2> QED
    BY <1>5, <2>1, ShortRegular
<1>12. CASE s = "peerinfo"
  <2>1. i = 1 /\ Script[s][i] = PatchPeerInfo[1]
    <3>1. Script[s] = PatchPeerInfo /\ Len(PatchPeerInfo) = 1
      BY <1>1, <1>3, <1>12
    <3>2. i \in 1 .. 1
      BY <3>1
    <3> QED
      BY <3>1, <3>2
  <2> QED
    BY <1>5, <2>1, ShortRegular
<1>13. CASE s = "keepalive"
  <2>1. i \in 1 .. 2 /\ Script[s][i] = PatchKeepalive[i]
    BY <1>1, <1>3, <1>13
  <2>2. Honest(w, PatchKeepalive[i]) /\ Pays(w, PatchKeepalive[i])
    <3>1. PatchKeepalive[1] = KeepaliveScale /\ PatchKeepalive[2] = KeepalivePeriods
      BY DEF PatchKeepalive
    <3>2. Honest(w, KeepaliveScale) /\ Pays(w, KeepaliveScale)
      BY ShortRegular, RegularPays
    <3>3. Honest(w, KeepalivePeriods) /\ Pays(w, KeepalivePeriods)
      BY PeriodsPay
    <3> QED
      BY <2>1, <3>1, <3>2, <3>3
  <2> QED
    BY <1>4, <2>1, <2>2
<1>14. CASE s = "auth"
  <2>1. i \in 1 .. 4 /\ Script[s][i] = PatchAuthTrace[i]
    BY <1>1, <1>3, <1>14
  <2>2. Regular(w, PatchAuthTrace[i])
    <3>1. i = 1 \/ i = 2 \/ i = 3 \/ i = 4
      BY <2>1
    <3> QED
      BY <3>1, ShortRegular, AuthParts
  <2> QED
    BY <1>5, <2>1, <2>2
<1>15. CASE s = "hotpath"
  <2>1. i \in 1 .. 2 /\ Script[s][i] = PatchHotPath[i]
    BY <1>1, <1>3, <1>15
  <2>2. Regular(w, PatchHotPath[i])
    BY <2>1, ShortRegular DEF PatchHotPath
  <2> QED
    BY <1>5, <2>1, <2>2
<1>16. CASE s = "ldn"
  <2>1. i \in 1 .. 36 /\ Script[s][i] = PatchLdn[i] /\ "ldn" \in w
    BY <1>1, <1>3, <1>16
  <2>2. Honest(w, PatchLdn[i]) /\ (i # 34 => Pays(w, PatchLdn[i]))
    BY <2>1, LdnHonest
  <2>3. CASE i = 34
    <3>1. Unpaid(w, s, i) = {"-lzt"}
      BY <1>16, <2>3 DEF Unpaid
    <3>2. \A j \in 1 .. Len(PatchLdn[i].edits) : PatchLdn[i].edits[j].puts \subseteq {"-lzt"}
      BY <2>1, <2>3, LdnHonest, MakefileHonest
    <3> QED
      BY <2>1, <2>2, <3>1, <3>2 DEF Meets
  <2>4. CASE i # 34
    BY <1>4, <2>1, <2>2, <2>4
  <2> QED
    BY <2>3, <2>4
<1>17. \A u : \A j \in 1 .. 4 : Meets(w, AnchorCheck[j], u)
  <2> SUFFICES ASSUME NEW u, NEW j \in 1 .. 4 PROVE Meets(w, AnchorCheck[j], u)
    OBVIOUS
  <2>1. Formed(AnchorCheck[j])
    BY CheckScript DEF AllGood, Good
  <2>2. \A m \in 1 .. Len(AnchorCheck[j].edits) :
          AnchorCheck[j].edits[m].takes = {} /\ AnchorCheck[j].edits[m].puts = {}
    BY DEF AnchorCheck, AllOf, Section, Edit
  <2> QED
    BY <1>4, <2>1, <2>2, LookHonest
<1>18. CASE s = "check"
  BY <1>1, <1>3, <1>17, <1>18
<1>19. CASE s = "stubs"
  <2>1. i \in 1 .. 9 /\ Script[s][i] = StubStep[i] /\ Formed(StubStep[i])
    BY <1>1, <1>3, <1>19, StubScript
  <2>2. CASE i = 1 \/ i = 9
    <3>1. \A m \in 1 .. Len(StubStep[i].edits) :
            StubStep[i].edits[m].takes = {} /\ StubStep[i].edits[m].puts = {}
      <4>1. CASE i = 1
        BY <4>1, StubParts DEF Section, Need, Edit
      <4>2. CASE i = 9
        BY <4>2, StubParts DEF Section, Need, Refuse, OnlyIf, Edit
      <4> QED
        BY <2>2, <4>1, <4>2
    <3> QED
      BY <1>4, <2>1, <3>1, LookHonest
  <2>3. CASE i \in 2 .. 5
    BY <1>17, <2>1, <2>3, StubParts
  <2>4. CASE i = 6
    <3>1. Regular(w, StubStep[6])
      BY CopiesHonest, StubParts
    <3> QED
      BY <1>5, <2>1, <2>4, <3>1
  <2>5. CASE i = 7
    <3>1. Unpaid(w, s, i) = IF "ldn" \in w THEN {"copy"} ELSE {}
      BY <1>19, <2>5 DEF Unpaid
    <3>2. Len(Copy("stubs").edits) = 1 /\ Copy("stubs").edits[1].puts = {"copy"}
      BY DEF Copy, Section, Edit
    <3>3. Meets(w, Copy("stubs"), Unpaid(w, s, i))
      <4>1. CASE "ldn" \in w
        <5>1. Honest(w, Copy("stubs"))
          BY <4>1, CopiesHonest
        <5> QED
          BY <3>1, <3>2, <4>1, <5>1 DEF Meets
      <4>2. CASE "ldn" \notin w
        BY <1>4, <4>2, CopiesHonest
      <4> QED
        BY <4>1, <4>2
    <3> QED
      BY <2>1, <2>5, <3>3, StubParts
  <2>6. CASE i = 8
    <3>1. Unpaid(w, s, i) = IF "ldn" \in w THEN {"zt_bridge.hpp"} ELSE {}
      BY <1>19, <2>6 DEF Unpaid
    <3>2. Meets(w, StubStep[8], Unpaid(w, s, i))
      BY <3>1, StubsHonest DEF Meets
    <3> QED
      BY <2>1, <2>6, <3>2
  <2> QED
    BY <2>1, <2>2, <2>3, <2>4, <2>5, <2>6
<1> QED
  BY <1>2, <1>7, <1>8, <1>9, <1>10, <1>11, <1>12, <1>13, <1>14, <1>15, <1>16, <1>18, <1>19

-----------------------------------------------------------------------------
(* A checkout that lacks nothing that could go unnoticed.                  *)

\* The passages whose loss a script skips over are part of no other, and
LEMMA HintsAlone ==
  ASSUME NEW f \in Files, NEW p \in Hints(f)
  PROVE  /\ p \in Sources[f] /\ f \notin {"main", "posix"}
         /\ \A q : p \in LostWith(f, q) => q = p
<1>1. f \in {"CMake", "Constants", "OSUtils", "Phy", "NodeService", "VirtualTap", "sys_arch",
             "tcpip", "ldn_icommunication"}
  BY NoConcern
<1>2. CASE f \in {"OSUtils", "NodeService"}
  <2>1. f \notin DOMAIN Within
    <3>1. DOMAIN Within = {"Constants", "Phy", "CMake", "VirtualTap", "sys_arch", "tcpip",
                           "lan_protocol", "lan_discovery", "ldn_icommunication",
                           "ldnmitm_main"}
      BY DEF Within
    <3> QED
      BY <1>2, <3>1
  <2>2. \A q : LostWith(f, q) = {q}
    BY <2>1 DEF LostWith
  <2>3. p \in Sources[f]
    BY <1>2, LibztSources DEF Hints, Upstream
  <2> QED
    BY <1>2, <2>2, <2>3
<1>3. CASE f = "CMake"
  BY <1>3, LibztSources DEF Hints, LostWith, Within, Upstream
<1>4. CASE f = "Constants"
  BY <1>4, LibztSources DEF Hints, LostWith, Within, Upstream
<1>5. CASE f = "Phy"
  BY <1>5, LibztSources DEF Hints, LostWith, Within, Upstream
<1>6. CASE f = "VirtualTap"
  BY <1>6, LibztSources DEF Hints, LostWith, Within, Upstream
<1>7. CASE f = "sys_arch"
  BY <1>7, LibztSources DEF Hints, LostWith, Within, Upstream
<1>8. CASE f = "tcpip"
  BY <1>8, LibztSources DEF Hints, LostWith, Within, Upstream
<1>9. CASE f = "ldn_icommunication"
  <2>1. Within["ldn_icommunication"] =
          {<<"lanDiscovery.initialize", "lanDiscovery.initialize-line">>,
           <<"GetIpv4Address", "GetIpv4Address-def">>}
    BY DEF Within
  <2>2. \A q : p \in LostWith(f, q) => q = p
    BY <1>9, <2>1 DEF Hints, LostWith
  <2> QED
    BY <1>9, <2>2, LdnConcerns DEF Hints, LdnUpstream
<1> QED
  BY <1>1, <1>2, <1>3, <1>4, <1>5, <1>6, <1>7, <1>8, <1>9

\* the run says so for those that are not sure.
LEMMA SureNoticed ==
  ASSUME NEW f, NEW p \in Sure(work, f)
  PROVE  p \in Hints(f) /\ <<f, p>> \in Unnoticed \cup ReportedElsewhere
<1>1. p \in Hints(f)
  BY DEF Sure, Hints
<1>2. CASE f \notin {"sys_arch", "ldn_icommunication"}
  <2>1. /\ f \in {"CMake", "Constants", "OSUtils", "Phy", "NodeService", "VirtualTap", "tcpip"}
    BY <1>1, <1>2, NoConcern
  <2>2. <<f, p>> \in Unnoticed
    BY <1>1, <2>1 DEF Hints, Unnoticed, Pairs
  <2> QED
    BY <1>1, <2>2
<1>3. CASE f = "sys_arch"
  <2>1. p = "pthread.h" => "bootstrap" \notin work
    BY <1>3 DEF Sure
  <2>2. p \in {"pthread_create", "sys_thread_new(", "pthread.h"}
    BY <1>1, <1>3 DEF Hints
  <2>3. /\ <<"sys_arch", "pthread_create">> \in Unnoticed
        /\ <<"sys_arch", "sys_thread_new(">> \in Unnoticed
    BY DEF Unnoticed, Pairs
  <2> QED
    BY <1>1, <1>3, <2>1, <2>2, <2>3 DEF ReportedElsewhere
<1>4. CASE f = "ldn_icommunication"
  <2>1. "ldn" \notin work
    BY <1>4 DEF Sure
  <2>2. p = "arpa/inet.h"
    BY <1>1, <1>4, LdnConcerns
  <2> QED
    BY <1>1, <1>4, <2>1, <2>2 DEF ReportedElsewhere
<1> QED
  BY <1>2, <1>3, <1>4

\* What a file lacks in the checkout was lost with something.
LEMMA GapIsLost ==
  ASSUME LostOK, NEW f \in Files \ {"main", "posix"}, NEW p \in Sources[f],
         p \notin Passages(Checkout(lost)[f])
  PROVE  \E q : lost = <<f, q>> /\ p \in LostWith(f, q)
<1>1. lost \in {Nothing, Older} \cup Losses(work)
  BY DEF LostOK
<1> QED
  BY <1>1, CheckoutText

\* What is lost is gone.
LEMMA PeriodIsGone ==
  ASSUME LostOK, lost = <<"Constants", "ZT_PEER_PING_PERIOD">>
  PROVE  "ZT_PEER_PING_PERIOD" \notin Passages(Checkout(lost)["Constants"])
<1> DEFINE f == "Constants"
           q == "ZT_PEER_PING_PERIOD"
<1>1. lost # Nothing /\ lost # Older /\ lost[1] = f /\ lost[2] = q
  BY DEF Nothing, Older
<1>2. Checkout(lost) = Text([Sources EXCEPT ![f] = @ \ LostWith(f, q)])
  BY <1>1 DEF Checkout
<1>3. f \in Files /\ f \in DOMAIN Sources
  BY FilesAre DEF Files
<1>4. Checkout(lost)[f] = SetToBag(Sources[f] \ LostWith(f, q))
  BY <1>2, <1>3 DEF Text
<1>5. q \in LostWith(f, q)
  BY DEF LostWith
<1> QED
  BY <1>4, <1>5, SetBag

\* So the checkout is sound.
LEMMA CheckoutSound ==
  ASSUME LostOK, Noticed, NEW f \in Files
  PROVE  Sound(work, f, Checkout(lost)[f])
<1> DEFINE t == Checkout(lost)[f]
<1>1. IsABag(t)
  <2>1. \E S : t = SetToBag(S)
    BY CheckoutIs DEF LostOK
  <2> QED
    BY <2>1, SetBag
<1>2. f \notin {"main", "posix"} => Passages(t) \subseteq Sources[f]
  BY CheckoutText DEF LostOK
<1> HIDE DEF t
<1>3. Sure(work, f) \subseteq Passages(t)
  <2> SUFFICES ASSUME NEW p \in Sure(work, f), p \notin Passages(t) PROVE FALSE
    OBVIOUS
  <2>1. p \in Hints(f) /\ <<f, p>> \in Unnoticed \cup ReportedElsewhere
    BY SureNoticed
  <2>2. /\ p \in Sources[f] /\ f \notin {"main", "posix"}
        /\ \A q : p \in LostWith(f, q) => q = p
    BY <2>1, HintsAlone
  <2>3. PICK q : lost = <<f, q>> /\ p \in LostWith(f, q)
    BY <2>2, GapIsLost DEF t
  <2> QED
    BY <2>1, <2>2, <2>3 DEF Noticed
<1>4. Absent(work, f) \cap Passages(t) = {}
  <2>1. CASE f \in {"tcpip", "sys_arch"}
    <3>1. Absent(work, f) \subseteq {"switch.h"} /\ "switch.h" \notin Sources[f]
      BY <2>1, LibztSources DEF Absent, Upstream
    <3> QED
      BY <1>2, <2>1, <3>1
  <2>2. CASE f \notin {"tcpip", "sys_arch"}
    BY <2>2, NoConcern
  <2> QED
    BY <2>1, <2>2
<1>5. \A c \in Comes(f) : c[1] \notin Passages(t)
  <2>1. CASE f \in {"VirtualTap", "sys_arch", "OSUtils", "Phy", "NodeService"}
    <3>1. \A c \in Comes(f) : c[1] \notin Sources[f]
      BY <2>1, LibztSources DEF Comes, Upstream
    <3> QED
      BY <1>2, <2>1, <3>1
  <2>2. CASE f \notin {"VirtualTap", "sys_arch", "OSUtils", "Phy", "NodeService"}
    BY <2>2, NoConcern
  <2> QED
    BY <2>1, <2>2
<1>6. ASSUME NEW c \in Instead(f), "ZT_PEER_PING_PERIOD" \in Passages(t)
      PROVE  c[1] \in Passages(t)
  <2>1. f = "Constants"
    BY NoConcern
  <2>2. c[1] \in {"expiration-4-pings", "trial-10-pings"}
    BY <2>1 DEF Instead
  <2>3. c[1] \in Sources[f] /\ <<f, c[1]>> \in Unnoticed
    BY <2>1, <2>2, LibztSources DEF Upstream, Unnoticed, Pairs
  <2>4. \A q : c[1] \in LostWith(f, q) => q \in {c[1], "ZT_PEER_PING_PERIOD"}
    BY <2>1, <2>2 DEF LostWith, Within
  <2> SUFFICES ASSUME c[1] \notin Passages(t) PROVE FALSE
    OBVIOUS
  <2>5. PICK q : lost = <<f, q>> /\ c[1] \in LostWith(f, q)
    BY <2>1, <2>3, GapIsLost DEF t
  <2>6. CASE q = c[1]
    BY <2>3, <2>5, <2>6 DEF Noticed
  <2>7. CASE q = "ZT_PEER_PING_PERIOD"
    BY <1>6, <2>1, <2>5, <2>7, PeriodIsGone DEF t
  <2> QED
    BY <2>4, <2>5, <2>6, <2>7
<1>7. Sound(work, f, t)
  BY <1>1, <1>3, <1>4, <1>5, <1>6 DEF Sound
<1> QED
  BY <1>7 DEF t

\* Nothing has been run yet.
LEMMA ReportedInitially == Init => Reported
<1> SUFFICES ASSUME Init, Noticed
             PROVE  /\ \A f \in Files \ cut : Sound(work, f, tree[f])
                    /\ \A s \in work : outcome[s] # "done" /\ \A i : ~Past(s, i)
  BY DEF Reported
<1>1. LostOK /\ tree = Checkout(lost)
  BY DEF Init, LostOK
<1>2. ASSUME NEW s \in work PROVE s \in Scripts /\ s # Idle
  <2>1. s \in Scripts
    BY WorkspaceAssumption DEF Init
  <2> QED
    BY <2>1 DEF Scripts, Script, Idle
<1> QED
  BY <1>1, <1>2, CheckoutSound DEF Init, Past

\* The sections of a script that is used.
LEMMA WorkFacts ==
  ASSUME Typed, NEW s \in work
  PROVE  /\ s \in Scripts /\ s # Idle /\ Len(Script[s]) \in Nat
         /\ \A i \in 1 .. Len(Script[s]) :
              Honest(work, Script[s][i]) /\ Script[s][i].file \in Files
<1>1. s \in Scripts
  BY WorkspaceAssumption DEF Typed, TypeOK
<1>2. s # Idle
  BY <1>1 DEF Scripts, Script, Idle
<1>3. Facts(s, Script[s])
  BY <1>1, SectionFacts
<1>4. \A i \in 1 .. Len(Script[s]) : Honest(work, Script[s][i])
  BY <1>1, ScriptsMeet DEF Meets
<1> QED
  BY <1>1, <1>2, <1>3, <1>4 DEF Facts, Formed

\* Every step keeps Reported: a section leaves its file sound and what has been delivered
\* where it is, and delivers its own part.
LEMMA ReportedStep == Typed /\ Reported /\ [Next]_vars => Reported'
<1> SUFFICES ASSUME Typed, Reported, [Next]_vars PROVE Reported'
  OBVIOUS
<1>1. ASSUME UNCHANGED <<work, lost>>,
             \A f \in Files \ cut' : f \notin cut /\ tree'[f] = tree[f],
             \A s \in work : \A i \in 1 .. Len(Script[s]) :
               (outcome[s] = "done" \/ Past(s, i))' => outcome[s] = "done" \/ Past(s, i)
      PROVE  Reported'
  <2> SUFFICES ASSUME Noticed
               PROVE  /\ \A f \in Files \ cut' : Sound(work, f, tree'[f])
                      /\ \A s \in work : \A i \in 1 .. Len(Script[s]) :
                           Script[s][i].file \notin cut' /\ (outcome[s] = "done" \/ Past(s, i))' =>
                             \A p : Delivers(work, Script[s][i], p) =>
                                      p \in Passages(tree'[Script[s][i].file])
    BY <1>1 DEF Reported, Noticed, ReportedElsewhere
  <2>1. \A f \in Files \ cut' : Sound(work, f, tree'[f])
    BY <1>1 DEF Reported
  <2>2. ASSUME NEW s \in work, NEW i \in 1 .. Len(Script[s]),
               Script[s][i].file \notin cut', (outcome[s] = "done" \/ Past(s, i))'
        PROVE  \A p : Delivers(work, Script[s][i], p) =>
                        p \in Passages(tree'[Script[s][i].file])
    <3>1. Script[s][i].file \in Files
      BY WorkFacts
    <3>2. /\ Script[s][i].file \notin cut
          /\ tree'[Script[s][i].file] = tree[Script[s][i].file]
          /\ outcome[s] = "done" \/ Past(s, i)
      BY <1>1, <2>2, <3>1
    <3>3. \A p : Delivers(work, Script[s][i], p) => p \in Passages(tree[Script[s][i].file])
      BY <3>2 DEF Reported
    <3> QED
      BY <3>2, <3>3
  <2> QED
    BY <2>1, <2>2
<1>2. ASSUME NEW s \in work, Start(s) PROVE Reported'
  <2>1. ASSUME NEW r \in work, NEW i \in 1 .. Len(Script[r]) PROVE ~Past(r, i)'
    BY <1>2, WorkFacts DEF Past, Start
  <2>2. UNCHANGED <<work, lost, tree, cut, outcome>>
    BY <1>2 DEF Start
  <2> QED
    BY <1>1, <2>1, <2>2
<1>3. ASSUME NEW how \in {"done", "cut-short"}, End(how), running # Idle,
             how = "done" => step > Len(Script[running]),
             \A f \in Files \ cut' : f \notin cut /\ tree'[f] = tree[f]
      PROVE  Reported'
  <2>1. ASSUME NEW r \in work, NEW i \in 1 .. Len(Script[r])
        PROVE  /\ ~Past(r, i)'
               /\ outcome'[r] = "done" => outcome[r] = "done" \/ Past(r, i)
    <3>1. /\ running' = Idle /\ outcome' = [outcome EXCEPT ![running] = how]
          /\ outcome \in [Scripts -> {"never-run", "done", "cut-short"}]
      BY <1>3 DEF End, Typed, TypeOK
    <3>2. r \in Scripts /\ r # Idle /\ Len(Script[r]) \in Nat
      BY WorkFacts
    <3>3. CASE r = running /\ how = "done"
      <4>1. step \in Nat /\ step > Len(Script[r])
        BY <1>3, <3>2, <3>3 DEF Typed, TypeOK
      <4> QED
        BY <3>1, <3>2, <3>3, <4>1 DEF Past
    <3>4. CASE r = running /\ how = "cut-short"
      BY <3>1, <3>2, <3>4 DEF Past
    <3>5. CASE r # running
      BY <3>1, <3>2, <3>5 DEF Past
    <3> QED
      BY <1>3, <3>3, <3>4, <3>5
  <2>2. UNCHANGED <<work, lost>>
    BY <1>3 DEF End
  <2> QED
    BY <1>1, <1>3, <2>1, <2>2
<1>4. CASE RunSection
  <2>1. /\ ~Aborts(tree[Now.file], Now)
        /\ step' = step + 1 /\ UNCHANGED <<work, lost, cut, running, outcome>>
    BY <1>4 DEF RunSection
  <2> SUFFICES ASSUME Noticed
               PROVE  /\ \A f \in Files \ cut : Sound(work, f, tree'[f])
                      /\ \A s \in work : \A i \in 1 .. Len(Script[s]) :
                           Script[s][i].file \notin cut /\ (outcome[s] = "done" \/ Past(s, i))' =>
                             \A p : Delivers(work, Script[s][i], p) =>
                                      p \in Passages(tree'[Script[s][i].file])
    BY <2>1 DEF Reported, Noticed, ReportedElsewhere
  <2>2. /\ \A f \in Files \ cut : Sound(work, f, tree[f])
        /\ \A s \in work : \A i \in 1 .. Len(Script[s]) :
             Script[s][i].file \notin cut /\ (outcome[s] = "done" \/ Past(s, i)) =>
               \A p : Delivers(work, Script[s][i], p) =>
                        p \in Passages(tree[Script[s][i].file])
    BY DEF Reported
  <2>3. /\ running \in work /\ step \in 1 .. Len(Script[running])
        /\ Now.file \in Files
        /\ \A f \in Files : f # Now.file => tree'[f] = tree[f]
        /\ tree'[Now.file] = Rewritten(tree[Now.file], Now)
    <3>1. /\ step \in 1 .. Len(Script[running]) /\ Formed(Now)
          /\ \A f \in Files : f # Now.file => tree'[f] = tree[f]
          /\ tree'[Now.file] = Rewritten(tree[Now.file], Now)
      BY <1>4, SectionStep
    <3>2. running \in work
      BY <1>4 DEF RunSection, Editing, Typed, TypeOK
    <3> QED
      BY <3>1, <3>2 DEF Formed
  <2>4. Honest(work, Now)
    BY <2>3, WorkFacts DEF Now
  <2>5. Now.file \notin cut => Sound(work, Now.file, tree[Now.file])
    BY <2>2, <2>3
  <2>6. ASSUME NEW f \in Files \ cut PROVE Sound(work, f, tree'[f])
    <3>1. CASE f = Now.file
      <4>1. Sound(work, Now.file, Rewritten(tree[Now.file], Now))
        BY <2>1, <2>4, <2>5, <3>1, StaysSound
      <4> QED
        BY <2>3, <3>1, <4>1
    <3>2. CASE f # Now.file
      BY <2>2, <2>3, <3>2
    <3> QED
      BY <3>1, <3>2
  <2>7. ASSUME NEW s \in work, NEW i \in 1 .. Len(Script[s]),
               Script[s][i].file \notin cut,
               (outcome[s] = "done" \/ Past(s, i))',
               NEW p, Delivers(work, Script[s][i], p)
        PROVE  p \in Passages(tree'[Script[s][i].file])
    <3> DEFINE k == Script[s][i]
    <3>1. k.file \in Files \ cut
      BY <2>7, WorkFacts
    <3>2. Lasts(work, k.file, p)
      BY <2>7 DEF Delivers
    <3>3. CASE outcome[s] = "done" \/ Past(s, i)
      <4>1. p \in Passages(tree[k.file])
        BY <2>2, <2>7, <3>3
      <4> HIDE DEF k
      <4>2. CASE k.file = Now.file
        <5>1. Lasts(work, Now.file, p) /\ p \in Passages(tree[Now.file])
          BY <3>2, <4>1, <4>2
        <5>2. p \in Passages(Rewritten(tree[Now.file], Now))
          BY <2>1, <2>4, <2>5, <3>1, <4>2, <5>1, LastsOn
        <5> QED
          BY <2>3, <4>2, <5>2 DEF k
      <4>3. CASE k.file # Now.file
        BY <2>3, <3>1, <4>1, <4>3 DEF k
      <4> QED
        BY <4>2, <4>3
    <3>4. CASE ~(outcome[s] = "done" \/ Past(s, i))
      <4>1. running = s /\ step = i
        <5>1. Len(Script[s]) \in Nat
          BY WorkFacts
        <5>2. step \in Int /\ i \in Int
          BY <2>3, <5>1 DEF Typed, TypeOK
        <5>3. running = s /\ step + 1 > i /\ ~(running = s /\ step > i)
          BY <2>1, <2>7, <3>4 DEF Past
        <5> QED
          BY <5>2, <5>3
      <4>2. Now = k
        BY <4>1 DEF Now
      <4>3. Delivers(work, Now, p)
        BY <2>7, <4>2
      <4>4. p \in Passages(Rewritten(tree[Now.file], Now))
        BY <2>1, <2>4, <2>5, <3>1, <4>2, <4>3, DeliversIt
      <4> HIDE DEF k
      <4> QED
        BY <2>3, <4>2, <4>4 DEF k
    <3> QED
      BY <3>3, <3>4
  <2> QED
    BY <2>6, <2>7
<1>5. CASE SystemExit
  BY <1>3, <1>5 DEF SystemExit, Editing
<1>6. CASE Finish
  BY <1>3, <1>6 DEF Finish
<1>7. CASE Kill
  BY <1>3, <1>7 DEF Kill
<1>8. CASE UNCHANGED vars
  BY <1>1, <1>8 DEF vars, Past
<1>9. CASE CutWrite
  <2>1. /\ End("cut-short") /\ running # Idle /\ cut' = cut \cup {Now.file}
        /\ \A f \in Files : f # Now.file => tree'[f] = tree[f]
    BY <1>9, CutStep
  <2>2. \A f \in Files \ cut' : f \notin cut /\ tree'[f] = tree[f]
    BY <2>1
  <2> QED
    BY <1>3, <2>1, <2>2
<1> QED
  BY <1>2, <1>4, <1>5, <1>6, <1>7, <1>8, <1>9 DEF Next

\* A success means something wherever a loss would have been noticed.
LEMMA ReportedInvariant == Spec => []Reported
<1>1. Init => Reported
  BY ReportedInitially
<1>2. Typed /\ Reported /\ [Next]_vars => Reported'
  BY ReportedStep
<1> QED
  BY <1>1, <1>2, TypedInvariant, PTL DEF Spec

-----------------------------------------------------------------------------
(* A pass of the scripts over the sources as they are upstream.            *)

\* One script of a pass, if it is used.
Taken(w, s, texts) == IF s \in w THEN RunOver(s, texts).files ELSE texts

\* a is what Patched defines, as far as the n-th script.
IsPass(a, w, texts, n) ==
  a = [i \in 0 .. n |-> IF i = 0 THEN texts ELSE Taken(w, PatchOrder[i], a[i - 1])]

\* There is such a function.
LEMMA PassesExist ==
  ASSUME NEW w, NEW texts, NEW n \in Nat
  PROVE  \E a : IsPass(a, w, texts, n)
<1> DEFINE S == {k \in 0 .. n : \E a : IsPass(a, w, texts, k)}
<1>1. 0 \in S
  <2>1. IsPass([i \in 0 .. 0 |-> texts], w, texts, 0)
    BY DEF IsPass
  <2> QED
    BY <2>1
<1>2. ASSUME NEW k \in 1 .. n, k - 1 \in S PROVE k \in S
  <2>1. PICK a : IsPass(a, w, texts, k - 1)
    BY <1>2
  <2> DEFINE b == [i \in 0 .. k |-> IF i = k THEN Taken(w, PatchOrder[k], a[k - 1]) ELSE a[i]]
  <2>2. /\ b = [i \in 0 .. k |-> b[i]]
        /\ \A i \in 0 .. k - 1 : b[i] = a[i]
        /\ b[k] = Taken(w, PatchOrder[k], a[k - 1])
    OBVIOUS
  <2> HIDE DEF b
  <2>3. \A i \in 0 .. k : b[i] = IF i = 0 THEN texts ELSE Taken(w, PatchOrder[i], b[i - 1])
    <3>1. \A i \in 0 .. k - 1 : a[i] = IF i = 0 THEN texts ELSE Taken(w, PatchOrder[i], a[i - 1])
      BY <2>1 DEF IsPass
    <3> SUFFICES ASSUME NEW i \in 0 .. k
                 PROVE  b[i] = IF i = 0 THEN texts ELSE Taken(w, PatchOrder[i], b[i - 1])
      OBVIOUS
    <3>2. CASE i = k
      <4>1. i # 0 /\ k - 1 \in 0 .. k - 1
        BY <3>2
      <4> QED
        BY <2>2, <3>2, <4>1
    <3>3. CASE i # k
      <4>1. i \in 0 .. k - 1 /\ (i # 0 => i - 1 \in 0 .. k - 1)
        BY <3>3
      <4> QED
        BY <2>2, <3>1, <4>1
    <3> QED
      BY <3>2, <3>3
  <2>4. IsPass(b, w, texts, k)
    BY <2>2, <2>3 DEF IsPass
  <2> QED
    BY <2>4
<1> HIDE DEF S
<1>3. \A i \in 0 .. n : i \in S
  BY <1>1, <1>2, UpTo
<1>4. n \in S
  BY <1>3
<1> USE DEF S
<1> QED
  BY <1>4

\* The ten scripts, and
LEMMA OrderIs ==
  /\ Len(PatchOrder) = 10
  /\ PatchOrder[1] = "hotpath" /\ PatchOrder[2] = "bootstrap" /\ PatchOrder[3] = "lwip"
  /\ PatchOrder[10] = "ldn"
  /\ \A i \in 1 .. 10 : /\ PatchOrder[i] \in Scripts \ {"libzt", "check"}
                        /\ PatchOrder[i] = "lwip" => i = 3
  BY DEF PatchOrder, Scripts, Script

\* what a pass leaves behind is what the last of them does.
LEMMA PassSteps ==
  ASSUME NEW w, NEW texts
  PROVE  \E a : /\ a[0] = texts
                /\ \A i \in 1 .. 10 : a[i] = Taken(w, PatchOrder[i], a[i - 1])
                /\ Patched(w, texts) = a[10]
<1> DEFINE n == Len(PatchOrder)
           A == CHOOSE a : IsPass(a, w, texts, n)
<1>1. Patched(w, texts) = A[n]
  BY Zenon DEF Patched, IsPass, Taken
<1> HIDE DEF A, n
<1>2. n = 10
  BY OrderIs DEF n
<1>3. IsPass(A, w, texts, n)
  BY <1>2, PassesExist, Zenon DEF A
<1>4. /\ A[0] = texts
      /\ \A i \in 1 .. 10 : A[i] = Taken(w, PatchOrder[i], A[i - 1])
  BY <1>2, <1>3 DEF IsPass
<1> QED
  BY <1>1, <1>2, <1>4

\* The sources lack nothing.
LEMMA SourcesSound ==
  ASSUME NEW w, NEW f \in Files
  PROVE  Sound(w, f, SetToBag(Sources[f]))
<1> DEFINE t == SetToBag(Sources[f])
<1>1. IsABag(t) /\ Passages(t) = Sources[f]
  BY SetBag
<1> HIDE DEF t
<1>2. Sure(w, f) \subseteq Sources[f]
  <2>1. Sure(w, f) \subseteq Hints(f)
    <3>1. CASE f \notin {"sys_arch", "ldn_icommunication"}
      BY <3>1, NoConcern
    <3>2. CASE f = "sys_arch"
      BY <3>2 DEF Sure, Hints
    <3>3. CASE f = "ldn_icommunication"
      BY <3>3 DEF Sure
    <3> QED
      BY <3>1, <3>2, <3>3
  <2> QED
    BY <2>1, HintsAlone
<1>3. Absent(w, f) \cap Sources[f] = {}
  <2>1. CASE f \in {"tcpip", "sys_arch"}
    BY <2>1, LibztSources DEF Absent, Upstream
  <2>2. CASE f \notin {"tcpip", "sys_arch"}
    BY <2>2, NoConcern
  <2> QED
    BY <2>1, <2>2
<1>4. \A c \in Comes(f) : c[1] \notin Sources[f]
  <2>1. CASE f \in {"VirtualTap", "sys_arch", "OSUtils", "Phy", "NodeService"}
    BY <2>1, LibztSources DEF Comes, Upstream
  <2>2. CASE f \notin {"VirtualTap", "sys_arch", "OSUtils", "Phy", "NodeService"}
    BY <2>2, NoConcern
  <2> QED
    BY <2>1, <2>2
<1>5. \A c \in Instead(f) : c[1] \in Sources[f]
  <2>1. CASE f = "Constants"
    BY <2>1, LibztSources DEF Instead, Upstream
  <2>2. CASE f # "Constants"
    BY <2>2, NoConcern
  <2> QED
    BY <2>1, <2>2
<1>6. Sound(w, f, t)
  BY <1>1, <1>2, <1>3, <1>4, <1>5 DEF Sound
<1> QED
  BY <1>6 DEF t

\* The scripts of PatchOrder.
Ordered == Scripts \ {"libzt", "check"}

\* Passage p may be in file f: it was there, it makes no difference, or one of the
\* scripts delivers it; or it is the stub that patch-ldn-zt.py removes.
Owed(w, f, p) ==
  \/ p \in Sources[f] \cup Indifferent
  \/ \E s \in w \cap Ordered : \E i \in 1 .. Len(Script[s]) :
       Script[s][i].file = f /\ Delivers(w, Script[s][i], p)
  \/ "ldn" \in w /\ f = "stubs" /\ p = "copy"

\* What holds all through a pass.
Fit(w, t) ==
  /\ t = [f \in Files |-> t[f]]
  /\ \A f \in Files : Sound(w, f, t[f]) /\ \A p \in Passages(t[f]) : Owed(w, f, p)
  /\ LdnUpstream.checkout \subseteq Passages(t["checkout"])
  /\ CountIn("copy", t["stubs"]) <= 1

\* A passage that a section adds comes from an edit that is not skipped.
LEMMA Added ==
  ASSUME NEW text, IsABag(text), NEW s, Len(s.edits) \in Nat, NEW p,
         p \in Passages(Rewritten(text, s)), p \notin Passages(text)
  PROVE  \E i \in 1 .. Len(s.edits) :
           p \in s.edits[i].puts /\ ~Skipped(Drafts(text, s)[i - 1], s.edits[i])
<1> DEFINE n == Len(s.edits)
           D == Drafts(text, s)
           S == {i \in 0 .. n : p \notin Passages(D[i])}
<1>1. SUFFICES ASSUME \A i \in 1 .. n : p \in s.edits[i].puts => Skipped(D[i - 1], s.edits[i])
               PROVE  FALSE
  OBVIOUS
<1>2. /\ D[0] = text
      /\ \A i \in 1 .. n : D[i] = Edited(D[i - 1], s.edits[i])
  BY DraftSteps
<1>3. \A i \in 0 .. n : IsABag(D[i])
  BY DraftBags
<1>4. Rewritten(text, s) = text \/ Rewritten(text, s) = D[n]
  BY DEF Rewritten
<1> HIDE DEF D
<1>5. 0 \in S
  BY <1>2
<1>6. ASSUME NEW i \in 1 .. n, i - 1 \in S PROVE i \in S
  <2>1. /\ i - 1 \in 0 .. n /\ i \in 0 .. n /\ p \notin Passages(D[i - 1])
        /\ IsABag(D[i - 1]) /\ IsABag(D[i]) /\ D[i] = Edited(D[i - 1], s.edits[i])
    BY <1>2, <1>3, <1>6
  <2>2. CASE p \in s.edits[i].puts
    <3>1. D[i] = D[i - 1]
      BY <1>1, <2>1, <2>2 DEF Edited
    <3> QED
      BY <2>1, <3>1
  <2>3. CASE p \notin s.edits[i].puts
    <3>1. CountIn(p, D[i]) <= CountIn(p, D[i - 1])
      BY <2>1, <2>3, EditedCopies
    <3>2. /\ CountIn(p, D[i]) \in Nat /\ CountIn(p, D[i - 1]) \in Nat
          /\ p \in Passages(D[i]) <=> CountIn(p, D[i]) > 0
          /\ p \in Passages(D[i - 1]) <=> CountIn(p, D[i - 1]) > 0
      BY <2>1, EditedCopies
    <3> QED
      BY <2>1, <3>1, <3>2
  <2> QED
    BY <2>2, <2>3
<1> HIDE DEF S
<1>7. \A i \in 0 .. n : i \in S
  BY <1>5, <1>6, UpTo
<1>8. n \in S
  BY <1>7
<1> QED
  BY <1>4, <1>8 DEF S

\* patch-ldn-zt.py reads the checkout once.
LEMMA LdnPins == \A i \in 6 .. 36 : PatchLdn[i].file # "checkout"
<1>1. /\ \A i \in 1 .. 3 : LdnMain[i].file = "ldnmitm_main"
      /\ \A i \in 1 .. 10 : LdnProtocol[i].file = "lan_protocol"
      /\ \A i \in 1 .. 12 : LdnDiscovery[i].file = "lan_discovery"
      /\ \A i \in 1 .. 3 : LdnService[i].file = "ldn_icommunication"
  BY LdnWritten DEF WrittenTo
<1>2. \A i \in 1 .. 3 : LdnMakefile[i].file \in {"Makefile", "stubs"}
  BY DEF LdnMakefile, Section
<1> SUFFICES ASSUME NEW i \in 6 .. 36
             PROVE  PatchLdn[i].file # "checkout"
  OBVIOUS
<1>3. CASE i \in 6 .. 8
  BY <1>1, <1>3, LdnParts
<1>4. CASE i \in 9 .. 18
  BY <1>1, <1>4, LdnParts
<1>5. CASE i \in 19 .. 30
  BY <1>1, <1>5, LdnParts
<1>6. CASE i \in 31 .. 33
  BY <1>1, <1>6, LdnParts
<1>7. CASE i \in 34 .. 36
  BY <1>2, <1>7, LdnParts
<1> QED
  BY <1>3, <1>4, <1>5, <1>6, <1>7

\* What bootstrap puts into CMake once and again.
LEMMA PortDelivered ==
  ASSUME NEW w
  PROVE  /\ PatchBootstrap[7].file = "CMake"
         /\ Delivers(w, PatchBootstrap[7], "lwIP-port")
<1>1. PatchBootstrap[7] = CMakeNoMapper
  <2>1. PatchBootstrap[7] = PatchLibzt[6]
    BY BootstrapParts
  <2> QED
    BY <2>1 DEF PatchLibzt
<1>2. Regular(w, CMakeNoMapper)
  <2>1. Regular(w, PatchLibzt[6])
    BY LibztRegular
  <2> QED
    BY <2>1 DEF PatchLibzt
<1>3. Pays(w, CMakeNoMapper)
  BY <1>2, RegularPays
<1>4. /\ CMakeNoMapper.file = "CMake" /\ Len(CMakeNoMapper.edits) = 6
      /\ CMakeNoMapper.edits[6].puts = {"lwIP-port"}
  BY DEF CMakeNoMapper, Section, OrDone, Replace, Edit
<1>5. "lwIP-port" \notin Sources["CMake"] \cup Indifferent
  BY LibztSources DEF Upstream, Indifferent
<1>6. Delivers(w, CMakeNoMapper, "lwIP-port")
  BY <1>3, <1>4, <1>5 DEF Pays
<1> QED
  BY <1>1, <1>4, <1>6

\* The second edit of lwip in sys_arch.c is skipped when bootstrap has been there.
LEMMA IncludeSkipped ==
  ASSUME NEW text, IsABag(text), "switch.h" \in Passages(text),
         NEW j \in 1 .. Len(LwipSysArch.edits), "stdio.h+switch.h" \in LwipSysArch.edits[j].puts
  PROVE  Skipped(Drafts(text, LwipSysArch)[j - 1], LwipSysArch.edits[j])
<1> DEFINE k == LwipSysArch
           es == <<Edit({"introduce_thread"}, {"INTRO:ENTER", "32-slots"}, {"32-slots"}),
                   Switch_h("pthread.h"),
                   Need("sys_thread_new-begin"),
                   Unless("STN:ENTER", Edit({}, {"function-start"}, {"STN:ENTER"})),
                   Need("pthread_create(&tmp"),
                   Unless("256-KB-stack", Edit({}, {"plain-create"}, {"256-KB-stack"})),
                   Trace("STN:AFTER_PTHREAD_CREATE"),
                   Unless("STN:BEFORE_INTRODUCE",
                          Edit({"if-0==code", "st=introduce_thread"}, {},
                               {"STN:BEFORE_INTRODUCE"})),
                   Unless("INTRO:ENTER", Insert("32-slots", "INTRO:ENTER"))>>
<1>1. k.edits = es
  BY DEF LwipSysArch, Finding, Section
<1>2. Len(es) = 9
  OBVIOUS
<1>3. /\ es[1].takes = {"INTRO:ENTER", "32-slots"}
      /\ "switch.h" \in es[2].unless
  BY DEF Edit, Switch_h, Unless, IfFound, Insert
<1>4. "stdio.h+switch.h" \notin es[1].puts
  BY DEF Edit
<1>5. "stdio.h+switch.h" \notin es[3].puts /\ "stdio.h+switch.h" \notin es[5].puts
  BY DEF Edit, Need
<1>6. "stdio.h+switch.h" \notin es[4].puts /\ "stdio.h+switch.h" \notin es[6].puts
  BY DEF Edit, Unless
<1>7. "stdio.h+switch.h" \notin es[7].puts
  BY DEF Edit, Unless, Trace
<1>8. "stdio.h+switch.h" \notin es[8].puts
  BY DEF Edit, Unless
<1>9. "stdio.h+switch.h" \notin es[9].puts
  BY DEF Edit, Unless, Insert
<1> HIDE DEF es, k
<1>10. j \in 1 .. 9 /\ "stdio.h+switch.h" \in es[j].puts
  BY <1>1, <1>2 DEF k
<1>11. j = 2
  <2>1. j # 1 /\ j # 3 /\ j # 4 /\ j # 5 /\ j # 6 /\ j # 7 /\ j # 8 /\ j # 9
    BY <1>4, <1>5, <1>6, <1>7, <1>8, <1>9, <1>10
  <2> QED
    BY <1>10, <2>1
<1>12. Len(k.edits) \in Nat /\ 1 \in 1 .. Len(k.edits)
  BY <1>1, <1>2
<1>13. Drafts(text, k)[0] = text /\ Drafts(text, k)[1] = Edited(text, k.edits[1])
  BY <1>12, DraftSteps
<1>14. "switch.h" \in Passages(Edited(text, k.edits[1]))
  <2>1. "switch.h" \notin k.edits[1].takes
    BY <1>1, <1>3
  <2>2. CountIn("switch.h", Edited(text, k.edits[1])) >= CountIn("switch.h", text)
    BY <2>1, EditedCopies
  <2>3. /\ CountIn("switch.h", text) \in Nat /\ CountIn("switch.h", text) > 0
        /\ IsABag(Edited(text, k.edits[1]))
    BY EditedCopies
  <2>4. /\ CountIn("switch.h", Edited(text, k.edits[1])) \in Nat
        /\ CountIn("switch.h", Edited(text, k.edits[1])) > 0 =>
             "switch.h" \in Passages(Edited(text, k.edits[1]))
    BY <2>3, EditedCopies
  <2> QED
    BY <2>2, <2>3, <2>4
<1>15. "switch.h" \in k.edits[2].unless
  BY <1>1, <1>3
<1>16. Skipped(Drafts(text, k)[1], k.edits[2])
  BY <1>13, <1>14, <1>15 DEF Skipped
<1>17. j - 1 = 1
  BY <1>11
<1> QED
  BY <1>11, <1>16, <1>17 DEF k

\* What a section adds is owed.
LEMMA AddedIsOwed ==
  ASSUME NEW w, NEW s \in w \cap Ordered, NEW i \in 1 .. Len(Script[s]),
         NEW text, IsABag(text), NEW p,
         p \in Passages(Rewritten(text, Script[s][i])), p \notin Passages(text),
         \A q \in Passages(text) : Owed(w, Script[s][i].file, q),
         s = "lwip" /\ i = 2 /\ "bootstrap" \in w => "switch.h" \in Passages(text)
  PROVE  Owed(w, Script[s][i].file, p)
<1> DEFINE k == Script[s][i]
<1>1. s \in Scripts /\ s \in w
  BY DEF Ordered
<1>2. Meets(w, k, Unpaid(w, s, i))
  BY <1>1, ScriptsMeet
<1>3. Len(k.edits) \in Nat
  BY <1>2 DEF Meets, Honest, Formed
<1>4. PICK j \in 1 .. Len(k.edits) :
        p \in k.edits[j].puts /\ ~Skipped(Drafts(text, k)[j - 1], k.edits[j])
  BY <1>3, Added
<1>5. \A r \in w \cap Ordered : \A m \in 1 .. Len(Script[r]) :
        Script[r][m].file = k.file /\ Delivers(w, Script[r][m], p) => Owed(w, k.file, p)
  BY DEF Owed
<1>6. \/ p \in Sources[k.file] \cup Indifferent \/ Delivers(w, k, p)
      \/ p \in Unpaid(w, s, i)
  BY <1>2, <1>4 DEF Meets
<1>7. /\ Script["bootstrap"] = PatchBootstrap /\ Script["lwip"] = PatchLwip
      /\ Script["ldn"] = PatchLdn /\ Script["stubs"] = StubStep
  BY DEF Script
<1>8. /\ Len(PatchBootstrap) = 13 /\ Len(PatchLdn) = 36
  BY BootstrapScript, LdnParts
<1>9. CASE p \in Sources[k.file] \cup Indifferent
  BY <1>9 DEF Owed
<1>10. CASE Delivers(w, k, p)
  BY <1>5, <1>10
<1>11. CASE p \in Unpaid(w, s, i)
  <2>1. CASE s = "bootstrap"
    <3>1. i = 1 /\ p = "lwIP-port"
      BY <1>11, <2>1 DEF Unpaid
    <3>2. k = BootstrapCMake
      BY <1>7, <2>1, <3>1, BootstrapParts
    <3>3. k.file = "CMake"
      BY <3>2 DEF BootstrapCMake, Section
    <3>4. 7 \in 1 .. Len(Script[s]) /\ Script[s][7] = PatchBootstrap[7]
      BY <1>7, <1>8, <2>1
    <3>5. Script[s][7].file = "CMake" /\ Delivers(w, Script[s][7], p)
      BY <3>1, <3>4, PortDelivered
    <3> QED
      BY <1>5, <3>3, <3>4, <3>5
  <2>2. CASE s = "lwip"
    <3>1. \/ i = 1 /\ p = "3-s"
          \/ i = 2 /\ p = "stdio.h+switch.h" /\ "bootstrap" \in w
      BY <1>11, <2>2 DEF Unpaid
    <3>2. CASE i = 1
      <4>1. k = LwipTimings
        BY <1>7, <2>2, <3>2 DEF PatchLwip
      <4>2. k.file = "main" /\ Len(k.edits) = 1 /\ k.edits[1].when = {"5-s"}
        BY <4>1, TimingsHonest
      <4>3. j = 1
        <5>1. j \in 1 .. 1
          BY <4>2
        <5> QED
          BY <5>1
      <4>4. Drafts(text, k)[0] = text
        BY <1>3, DraftSteps
      <4>5. "5-s" \in Passages(text)
        BY <1>4, <4>2, <4>3, <4>4 DEF Skipped
      <4>6. Owed(w, "main", "5-s")
        BY <4>2, <4>5
      <4>7. "5-s" \notin Sources["main"] \cup Indifferent
        BY LibztSources DEF Upstream, Indifferent
      <4>8. PICK r \in w \cap Ordered : \E m \in 1 .. Len(Script[r]) :
              Script[r][m].file = "main" /\ Delivers(w, Script[r][m], "5-s")
        BY <4>6, <4>7 DEF Owed
      <4>9. Lasts(w, "main", "5-s")
        BY <4>8 DEF Delivers
      <4> QED
        BY <4>9 DEF Lasts, Passing
    <3>3. CASE i = 2
      <4>1. k = LwipSysArch
        BY <1>7, <2>2, <3>3 DEF PatchLwip
      <4>2. "switch.h" \in Passages(text) /\ p = "stdio.h+switch.h"
        BY <2>2, <3>1, <3>3
      <4> HIDE DEF k
      <4>3. Skipped(Drafts(text, k)[j - 1], k.edits[j])
        BY <1>4, <4>1, <4>2, IncludeSkipped
      <4> QED
        BY <1>4, <4>3
    <3> QED
      BY <3>1, <3>2, <3>3
  <2>3. CASE s = "ldn"
    <3>1. i = 34 /\ p = "-lzt"
      BY <1>11, <2>3 DEF Unpaid
    <3>2. PatchLdn[34] = LdnMakefile[1] /\ PatchLdn[36] = LdnMakefile[3]
      BY <1>1, <2>3, LdnHonest
    <3>3. /\ k = LdnMakefile[1] /\ 36 \in 1 .. Len(Script[s])
          /\ Script[s][36] = LdnMakefile[3]
      BY <1>7, <1>8, <2>3, <3>1, <3>2
    <3>4. k.file = "Makefile"
      BY <3>3, MakefileHonest
    <3>5. Script[s][36].file = "Makefile" /\ Delivers(w, Script[s][36], p)
      BY <3>1, <3>3, MakefileHonest
    <3> QED
      BY <1>5, <3>3, <3>4, <3>5
  <2>4. CASE s = "stubs"
    <3>1. \/ i = 7 /\ p = "copy" /\ "ldn" \in w
          \/ i = 8 /\ p = "zt_bridge.hpp" /\ "ldn" \in w
      BY <1>11, <2>4 DEF Unpaid
    <3>2. CASE i = 7
      <4>1. k.file = "stubs"
        BY <1>7, <2>4, <3>2, StubParts, FilesOfPuts
      <4> QED
        BY <3>1, <3>2, <4>1 DEF Owed
    <3>3. CASE i = 8
      <4>1. k.file = "ldn_icommunication"
        BY <1>7, <2>4, <3>3, StubsHonest
      <4>2. "ldn" \in w \cap Ordered
        BY <3>1, <3>3 DEF Ordered, Scripts, Script
      <4>3. 31 \in 1 .. Len(Script["ldn"]) /\ Script["ldn"][31] = PatchLdn[31]
        BY <1>7, <1>8
      <4>4. /\ PatchLdn[31] = Section("ldn_icommunication",
                                      <<Insert("arpa/inet.h", "zt_bridge.hpp")>>)
            /\ Delivers(w, PatchLdn[31], "zt_bridge.hpp")
        BY <3>1, <3>3, LdnHonest
      <4>5. PatchLdn[31].file = "ldn_icommunication"
        BY <4>4 DEF Section
      <4> QED
        BY <1>5, <3>1, <3>3, <4>1, <4>2, <4>3, <4>4, <4>5
    <3> QED
      BY <3>1, <3>2, <3>3
  <2> QED
    BY <1>11, <2>1, <2>2, <2>3, <2>4 DEF Unpaid
<1> QED
  BY <1>6, <1>9, <1>10, <1>11

\* A section that goes through keeps Fit, whichever script it is of.
LEMMA SectionFits ==
  ASSUME NEW w, NEW s \in w \cap Ordered, NEW i \in 1 .. Len(Script[s]),
         NEW k, k = Script[s][i], NEW t, Fit(w, t), ~Aborts(t[k.file], k),
         s = "lwip" /\ i = 2 /\ "bootstrap" \in w => "switch.h" \in Passages(t["sys_arch"]),
         NEW u, u = [f \in Files |-> u[f]], u[k.file] = Rewritten(t[k.file], k),
         \A f \in Files : f # k.file => u[f] = t[f]
  PROVE  /\ Fit(w, u)
         /\ "switch.h" \in Passages(t["sys_arch"]) => "switch.h" \in Passages(u["sys_arch"])
<1> DEFINE F == k.file
           R == Rewritten(t[F], k)
<1>1. s \in Scripts /\ s \in w
  BY DEF Ordered
<1>2. Honest(w, k)
  BY <1>1, ScriptsMeet DEF Meets
<1>3. F \in Files /\ Len(k.edits) \in Nat
  BY <1>2 DEF Honest, Formed
<1>4. /\ \A f \in Files : Sound(w, f, t[f]) /\ \A p \in Passages(t[f]) : Owed(w, f, p)
      /\ LdnUpstream.checkout \subseteq Passages(t["checkout"])
      /\ CountIn("copy", t["stubs"]) <= 1
  BY DEF Fit
<1>5. Sound(w, F, t[F]) /\ IsABag(t[F])
  BY <1>3, <1>4 DEF Sound
<1>6. Sound(w, F, R)
  BY <1>2, <1>5, StaysSound
<1>7. Facts(s, Script[s])
  BY <1>1, SectionFacts
<1>8. /\ ~TakesOut(s, i) => TakesNone(k)
      /\ ~PutsIn(s, i) => PutsNone(k)
  BY <1>7 DEF Facts
<1>9. /\ s = "lwip" /\ i = 2 => F = "sys_arch"
  <2>1. Script["lwip"] = PatchLwip
    BY DEF Script
  <2>2. PatchLwip[2].file = "sys_arch"
    BY DEF PatchLwip, LwipSysArch, Finding, Section
  <2> QED
    BY <2>1, <2>2
<1>10. ASSUME NEW p \in Passages(R) PROVE Owed(w, F, p)
  <2>1. CASE p \in Passages(t[F])
    BY <1>3, <1>4, <2>1
  <2>2. CASE p \notin Passages(t[F])
    <3>1. \A q \in Passages(t[F]) : Owed(w, F, q)
      BY <1>3, <1>4
    <3>2. s = "lwip" /\ i = 2 /\ "bootstrap" \in w => "switch.h" \in Passages(t[F])
      BY <1>9
    <3> QED
      BY <1>5, <1>10, <2>2, <3>1, <3>2, AddedIsOwed
  <2> QED
    BY <2>1, <2>2
<1>11. \A p : /\ CountIn(p, t[F]) \in Nat /\ CountIn(p, R) \in Nat
              /\ p \in Passages(t[F]) <=> CountIn(p, t[F]) > 0
              /\ p \in Passages(R) <=> CountIn(p, R) > 0
  BY <1>3, <1>5, RewrittenCopies, EditedCopies
<1>12. F = "checkout" => LdnUpstream.checkout \subseteq Passages(R)
  <2> SUFFICES ASSUME F = "checkout", NEW p \in LdnUpstream.checkout PROVE p \in Passages(R)
    OBVIOUS
  <2>1. ~TakesOut(s, i)
    <3>1. Script["ldn"] = PatchLdn /\ Len(PatchLdn) = 36
      BY LdnParts DEF Script
    <3> SUFFICES ASSUME s = "ldn", i >= 6 PROVE FALSE
      BY DEF TakesOut
    <3>2. i \in 6 .. 36 /\ k = PatchLdn[i]
      BY <3>1
    <3> QED
      BY <3>2, LdnPins
  <2>2. p \in Kept("checkout")
    BY LdnFilesAre DEF LdnFiles
  <2>3. \A j \in 1 .. Len(k.edits) : p \notin k.edits[j].takes
    BY <1>8, <2>1, <2>2 DEF TakesNone
  <2>4. CountIn(p, R) >= CountIn(p, t[F])
    BY <1>3, <1>5, <2>3, RewrittenCopies
  <2>5. p \in Passages(t[F])
    BY <1>4
  <2> HIDE DEF F, R
  <2> QED
    BY <1>11, <2>4, <2>5
<1>13. F = "stubs" => CountIn("copy", R) <= 1
  <2> SUFFICES ASSUME F = "stubs" PROVE CountIn("copy", R) <= 1
    OBVIOUS
  <2>1. CountIn("copy", t[F]) <= 1
    BY <1>4
  <2>2. CASE PutsIn(s, i)
    <3>1. /\ Script["bootstrap"] = PatchBootstrap /\ Script["ldn"] = PatchLdn
          /\ Script["stubs"] = StubStep
      BY DEF Script
    <3>2. ~(s = "bootstrap" /\ i \in {12, 13}) /\ ~(s = "ldn" /\ i = 34)
      BY <3>1, BootstrapScript, LdnScript, FilesOfPuts
    <3>3. s = "stubs" /\ i = 7
      BY <2>2, <3>2 DEF PutsIn
    <3>4. k = Copy("stubs")
      BY <3>1, <3>3, StubParts
    <3> QED
      BY <1>5, <2>1, <3>4, CopiedOnce
  <2>3. CASE ~PutsIn(s, i)
    <3>1. \A j \in 1 .. Len(k.edits) : "copy" \notin k.edits[j].puts
      BY <1>8, <2>3, KeptIn DEF PutsNone
    <3>2. CountIn("copy", R) <= CountIn("copy", t[F])
      BY <1>3, <1>5, <3>1, RewrittenCopies
    <3> HIDE DEF F, R
    <3> QED
      BY <1>11, <2>1, <3>2
  <2> QED
    BY <2>2, <2>3
<1>14. F = "sys_arch" /\ "switch.h" \in Passages(t[F]) => "switch.h" \in Passages(R)
  <2> SUFFICES ASSUME F = "sys_arch", "switch.h" \in Passages(t[F])
               PROVE  "switch.h" \in Passages(R)
    OBVIOUS
  <2>1. "switch.h" \notin Sources["sys_arch"] \cup Passing
    BY LibztSources DEF Upstream, Passing, Indifferent
  <2>2. Lasts(w, F, "switch.h")
    BY <2>1, NoConcern
  <2> QED
    BY <1>2, <1>5, <2>2, LastsOn
<1>15. "checkout" \in Files /\ "stubs" \in Files /\ "sys_arch" \in Files
  BY FilesAre
<1> HIDE DEF F, R
<1>16. u[F] = R /\ \A f \in Files : f # F => u[f] = t[f]
  BY DEF F, R
<1>17. \A f \in Files : Sound(w, f, u[f]) /\ \A p \in Passages(u[f]) : Owed(w, f, p)
  BY <1>4, <1>6, <1>10, <1>16
<1>18. /\ LdnUpstream.checkout \subseteq Passages(u["checkout"])
       /\ CountIn("copy", u["stubs"]) <= 1
       /\ "switch.h" \in Passages(t["sys_arch"]) => "switch.h" \in Passages(u["sys_arch"])
  BY <1>4, <1>12, <1>13, <1>14, <1>15, <1>16
<1> QED
  BY <1>17, <1>18 DEF Fit

\* A section that is not reached, or that ends the script, changes no file.
LEMMA OnwardStays ==
  ASSUME NEW t, RunState(t), NEW k, ~(t.ok /\ ~Aborts(t.files[k.file], k))
  PROVE  Onward(t, k).files = t.files
<1>1. Onward(t, k) = [t EXCEPT !.ok = FALSE]
  BY DEF Onward
<1>2. t = [i \in {"ok", "files"} |-> t[i]]
  BY DEF RunState
<1> QED
  BY <1>1, <1>2

\* A script keeps Fit, whether it goes through or not.
LEMMA RunFits ==
  ASSUME NEW w, NEW s \in w \cap Ordered, NEW t, Fit(w, t),
         s = "lwip" /\ "bootstrap" \in w => "switch.h" \in Passages(t["sys_arch"])
  PROVE  LET u == RunOver(s, t).files IN
         /\ Fit(w, u)
         /\ "switch.h" \in Passages(t["sys_arch"]) => "switch.h" \in Passages(u["sys_arch"])
<1> DEFINE n == Len(Script[s])
           Has(x) == "switch.h" \in Passages(x["sys_arch"])
<1>1. /\ n \in Nat /\ s \in Scripts /\ \A i \in 1 .. n : Script[s][i].file \in Files
  <2>1. s \in Scripts
    BY DEF Ordered
  <2> QED
    BY <2>1, SectionFacts DEF Facts, Formed
<1>2. PICK a : /\ a[0] = Started(t)
               /\ \A i \in 1 .. n : a[i] = Onward(a[i - 1], Script[s][i])
               /\ RunOver(s, t) = a[n]
  BY <1>1, RunSteps
<1> DEFINE Goes(x) == RunState(x) /\ Fit(w, x.files) /\ (Has(t) => Has(x.files))
           S == {i \in 0 .. n : Goes(a[i])}
<1>3. 0 \in S
  <2>1. t = [f \in Files |-> t[f]]
    BY DEF Fit
  <2>2. RunState(a[0]) /\ a[0].files = t
    BY <1>2, <2>1, StartedRuns
  <2>3. Goes(a[0])
    BY <2>2
  <2> QED
    BY <1>1, <2>3
<1>4. ASSUME NEW i \in 1 .. n, i - 1 \in S PROVE i \in S
  <2> DEFINE x == a[i - 1]
             k == Script[s][i]
             y == Onward(x, k)
  <2>1. RunState(x) /\ Fit(w, x.files) /\ (Has(t) => Has(x.files))
    BY <1>4
  <2>2. k.file \in Files /\ y = a[i]
    BY <1>1, <1>2
  <2> HIDE DEF x, y, Has
  <2>3. CASE x.ok /\ ~Aborts(x.files[k.file], k)
    <3>1. /\ RunState(y)
          /\ y.files[k.file] = Rewritten(x.files[k.file], k)
          /\ \A f \in Files : f # k.file => y.files[f] = x.files[f]
      BY <2>1, <2>2, <2>3, OnwardFiles DEF y
    <3>2. y.files = [f \in Files |-> y.files[f]]
      BY <3>1 DEF RunState
    <3>3. s = "lwip" /\ i = 2 /\ "bootstrap" \in w => "switch.h" \in Passages(x.files["sys_arch"])
      BY <2>1 DEF Has
    <3> HIDE DEF k
    <3>4. /\ Fit(w, y.files)
          /\ "switch.h" \in Passages(x.files["sys_arch"]) =>
               "switch.h" \in Passages(y.files["sys_arch"])
      BY <2>1, <2>3, <3>1, <3>2, <3>3, SectionFits DEF k
    <3>5. Goes(y)
      BY <2>1, <3>1, <3>4 DEF Has
    <3> QED
      BY <1>1, <2>2, <3>5
  <2>4. CASE ~(x.ok /\ ~Aborts(x.files[k.file], k))
    <3>1. y.files = x.files
      BY <2>1, <2>4, OnwardStays DEF y
    <3>2. RunState(y)
      BY <2>1, <2>2, OnwardFiles DEF y
    <3>3. Goes(y)
      BY <2>1, <3>1, <3>2
    <3> QED
      BY <1>1, <2>2, <3>3
  <2> QED
    BY <2>3, <2>4
<1> HIDE DEF S, Goes, n
<1>5. \A i \in 0 .. n : i \in S
  BY <1>1, <1>3, <1>4, UpTo
<1>6. n \in S
  BY <1>1, <1>5
<1>7. Goes(a[n])
  BY <1>6 DEF S
<1> QED
  BY <1>2, <1>7 DEF Goes

\* Each of its edits is skipped, or the text has what it looks for and no edit before
\* takes that out.
Passable(text, k) ==
  \A i \in 1 .. Len(k.edits) :
    \/ k.edits[i].when = k.edits[i].needs
    \/ \A p \in k.edits[i].needs :
         p \in Passages(text) /\ \A j \in 1 .. i - 1 : Spares(k.edits[j], p)
    \/ \E p \in k.edits[i].excuse :
         p \in Passages(text) /\ \A j \in 1 .. i - 1 : Spares(k.edits[j], p)

\* Such a section goes through.
LEMMA Passes ==
  ASSUME NEW text, IsABag(text), NEW k, Len(k.edits) \in Nat, Passable(text, k),
         k.find \subseteq Passages(text) \/ ~k.must
  PROVE  ~Aborts(text, k)
<1> DEFINE D == Drafts(text, k)
<1>1. SUFFICES ASSUME NEW i \in 1 .. Len(k.edits) PROVE ~Exits(D[i - 1], k.edits[i])
  BY DEF Aborts, Found
<1>2. D[0] = text /\ 0 \in 0 .. Len(k.edits) /\ i - 1 \in 0 .. Len(k.edits)
  BY DraftSteps
<1>3. ASSUME NEW p, p \in Passages(text), \A j \in 1 .. i - 1 : Spares(k.edits[j], p)
      PROVE  p \in Passages(D[i - 1])
  <2>1. \A j \in 0 + 1 .. i - 1 : Spares(k.edits[j], p)
    BY <1>3
  <2>2. p \in Passages(D[0])
    BY <1>2, <1>3
  <2> QED
    BY <1>2, <2>1, <2>2, DraftsSpare
<1> HIDE DEF D
<1>4. CASE k.edits[i].when = k.edits[i].needs
  BY <1>4 DEF Exits, Skipped
<1>5. CASE \A p \in k.edits[i].needs :
             p \in Passages(text) /\ \A j \in 1 .. i - 1 : Spares(k.edits[j], p)
  BY <1>3, <1>5 DEF Exits
<1>6. CASE \E p \in k.edits[i].excuse :
             p \in Passages(text) /\ \A j \in 1 .. i - 1 : Spares(k.edits[j], p)
  BY <1>3, <1>6 DEF Exits, Skipped
<1> QED
  BY <1>4, <1>5, <1>6 DEF Passable

\* A section that goes through on the sources as they are upstream.
Ventures(k) ==
  /\ Len(k.edits) \in Nat
  /\ \A text : Sources[k.file] \subseteq Passages(text) =>
       Passable(text, k) /\ (k.find \subseteq Passages(text) \/ ~k.must)

\* Those of bootstrap do, but for the one that finds CMakeLists.txt edited already.
LEMMA BootstrapVentures ==
  /\ Ventures(BootstrapCMake)
  /\ Ventures(ConstantsUnixLike)
  /\ Ventures(UtilsStok)
  /\ Ventures(BinderNoInterfaces)
  /\ Ventures(PhyNoUnixSockets)
  /\ Ventures(UtilsNoProbes)
  /\ Ventures(PortCc)
  /\ Ventures(CcWrapper)
  /\ Ventures(Stdexcept("family"))
  /\ Ventures(Stdexcept("registry"))
  /\ Ventures(BootstrapDriver)
  /\ Ventures(BootstrapSysArch)
<1> USE LibztSources
   DEF Section, Finding, Marked, MayLack, Edit, Need, Insert, Replace, Wrap, Unless, OnlyIf,
       OrDone, IfFound, Spares
<1>1. Ventures(BootstrapCMake)
  <2> DEFINE k == BootstrapCMake
  <2>1. k.file = "CMake" /\ Len(k.edits) = 3
    BY DEF BootstrapCMake
  <2>2. \A text : Sources["CMake"] \subseteq Passages(text) => Passable(text, k)
    BY <2>1 DEF BootstrapCMake, Upstream, Passable
  <2>3. k.find \subseteq Sources["CMake"] \/ ~k.must
    BY DEF BootstrapCMake, Upstream
  <2> HIDE DEF k
  <2>4. Ventures(k)
    BY <2>1, <2>2, <2>3 DEF Ventures
  <2> QED
    BY <2>4 DEF k
<1>2. Ventures(ConstantsUnixLike)
  <2> DEFINE k == ConstantsUnixLike
  <2>1. k.file = "Constants" /\ Len(k.edits) = 1
    BY DEF ConstantsUnixLike
  <2>2. \A text : Sources["Constants"] \subseteq Passages(text) => Passable(text, k)
    BY <2>1 DEF ConstantsUnixLike, Upstream, Passable
  <2>3. k.find \subseteq Sources["Constants"] \/ ~k.must
    BY DEF ConstantsUnixLike, Upstream
  <2> HIDE DEF k
  <2>4. Ventures(k)
    BY <2>1, <2>2, <2>3 DEF Ventures
  <2> QED
    BY <2>4 DEF k
<1>3. Ventures(UtilsStok)
  <2> DEFINE k == UtilsStok
  <2>1. k.file = "UtilsH" /\ Len(k.edits) = 1
    BY DEF UtilsStok
  <2>2. \A text : Sources["UtilsH"] \subseteq Passages(text) => Passable(text, k)
    BY <2>1 DEF UtilsStok, Upstream, Passable
  <2>3. k.find \subseteq Sources["UtilsH"] \/ ~k.must
    BY DEF UtilsStok, Upstream
  <2> HIDE DEF k
  <2>4. Ventures(k)
    BY <2>1, <2>2, <2>3 DEF Ventures
  <2> QED
    BY <2>4 DEF k
<1>4. Ventures(BinderNoInterfaces)
  <2> DEFINE k == BinderNoInterfaces
  <2>1. k.file = "Binder" /\ Len(k.edits) = 3
    BY DEF BinderNoInterfaces
  <2>2. \A text : Sources["Binder"] \subseteq Passages(text) => Passable(text, k)
    BY <2>1 DEF BinderNoInterfaces, Upstream, Passable
  <2>3. k.find \subseteq Sources["Binder"] \/ ~k.must
    BY DEF BinderNoInterfaces, Upstream
  <2> HIDE DEF k
  <2>4. Ventures(k)
    BY <2>1, <2>2, <2>3 DEF Ventures
  <2> QED
    BY <2>4 DEF k
<1>5. Ventures(PhyNoUnixSockets)
  <2> DEFINE k == PhyNoUnixSockets
  <2>1. k.file = "Phy" /\ Len(k.edits) = 2
    BY DEF PhyNoUnixSockets
  <2>2. \A text : Sources["Phy"] \subseteq Passages(text) => Passable(text, k)
    BY <2>1 DEF PhyNoUnixSockets, Upstream, Passable
  <2>3. k.find \subseteq Sources["Phy"] \/ ~k.must
    BY DEF PhyNoUnixSockets, Upstream
  <2> HIDE DEF k
  <2>4. Ventures(k)
    BY <2>1, <2>2, <2>3 DEF Ventures
  <2> QED
    BY <2>4 DEF k
<1>6. Ventures(UtilsNoProbes)
  <2> DEFINE k == UtilsNoProbes
  <2>1. k.file = "UtilsCpp" /\ Len(k.edits) = 2
    BY DEF UtilsNoProbes
  <2>2. \A text : Sources["UtilsCpp"] \subseteq Passages(text) => Passable(text, k)
    BY <2>1 DEF UtilsNoProbes, Upstream, Passable
  <2>3. k.find \subseteq Sources["UtilsCpp"] \/ ~k.must
    BY DEF UtilsNoProbes, Upstream
  <2> HIDE DEF k
  <2>4. Ventures(k)
    BY <2>1, <2>2, <2>3 DEF Ventures
  <2> QED
    BY <2>4 DEF k
<1>7. Ventures(PortCc)
  <2> DEFINE k == PortCc
  <2>1. k.file = "cc" /\ Len(k.edits) = 1
    BY DEF PortCc
  <2>2. \A text : Sources["cc"] \subseteq Passages(text) => Passable(text, k)
    BY <2>1 DEF PortCc, Upstream, Passable
  <2>3. k.find \subseteq Sources["cc"] \/ ~k.must
    BY DEF PortCc, Upstream
  <2> HIDE DEF k
  <2>4. Ventures(k)
    BY <2>1, <2>2, <2>3 DEF Ventures
  <2> QED
    BY <2>4 DEF k
<1>8. Ventures(CcWrapper)
  <2> DEFINE k == CcWrapper
  <2>1. k.file = "ccWrapper" /\ Len(k.edits) = 1
    BY DEF CcWrapper
  <2>2. \A text : Sources["ccWrapper"] \subseteq Passages(text) => Passable(text, k)
    BY <2>1 DEF CcWrapper, Upstream, Passable
  <2>3. k.find \subseteq Sources["ccWrapper"] \/ ~k.must
    BY DEF CcWrapper, Upstream
  <2> HIDE DEF k
  <2>4. Ventures(k)
    BY <2>1, <2>2, <2>3 DEF Ventures
  <2> QED
    BY <2>4 DEF k
<1>9. Ventures(Stdexcept("family"))
  <2> DEFINE k == Stdexcept("family")
  <2>1. k.file = "family" /\ Len(k.edits) = 1
    BY DEF Stdexcept
  <2>2. \A text : Sources["family"] \subseteq Passages(text) => Passable(text, k)
    BY <2>1 DEF Stdexcept, Upstream, Passable
  <2>3. k.find \subseteq Sources["family"] \/ ~k.must
    BY DEF Stdexcept, Upstream
  <2> HIDE DEF k
  <2>4. Ventures(k)
    BY <2>1, <2>2, <2>3 DEF Ventures
  <2> QED
    BY <2>4 DEF k
<1>10. Ventures(Stdexcept("registry"))
  <2> DEFINE k == Stdexcept("registry")
  <2>1. k.file = "registry" /\ Len(k.edits) = 1
    BY DEF Stdexcept
  <2>2. \A text : Sources["registry"] \subseteq Passages(text) => Passable(text, k)
    BY <2>1 DEF Stdexcept, Upstream, Passable
  <2>3. k.find \subseteq Sources["registry"] \/ ~k.must
    BY DEF Stdexcept, Upstream
  <2> HIDE DEF k
  <2>4. Ventures(k)
    BY <2>1, <2>2, <2>3 DEF Ventures
  <2> QED
    BY <2>4 DEF k
<1>11. Ventures(BootstrapDriver)
  <2> DEFINE k == BootstrapDriver
  <2>1. k.file = "VirtualTap" /\ Len(k.edits) = 3
    BY DEF BootstrapDriver
  <2>2. \A text : Sources["VirtualTap"] \subseteq Passages(text) => Passable(text, k)
    BY <2>1 DEF BootstrapDriver, Upstream, Passable
  <2>3. k.find \subseteq Sources["VirtualTap"] \/ ~k.must
    BY DEF BootstrapDriver, Upstream
  <2> HIDE DEF k
  <2>4. Ventures(k)
    BY <2>1, <2>2, <2>3 DEF Ventures
  <2> QED
    BY <2>4 DEF k
<1>12. Ventures(BootstrapSysArch)
  <2> DEFINE k == BootstrapSysArch
  <2>1. k.file = "sys_arch" /\ Len(k.edits) = 4
    BY DEF BootstrapSysArch
  <2>2. \A text : Sources["sys_arch"] \subseteq Passages(text) => Passable(text, k)
    BY <2>1 DEF BootstrapSysArch, Upstream, Passable
  <2>3. k.find \subseteq Sources["sys_arch"] \/ ~k.must
    BY DEF BootstrapSysArch, Upstream
  <2> HIDE DEF k
  <2>4. Ventures(k)
    BY <2>1, <2>2, <2>3 DEF Ventures
  <2> QED
    BY <2>4 DEF k
<1> QED
  BY <1>1, <1>2, <1>3, <1>4, <1>5, <1>6, <1>7, <1>8, <1>9, <1>10, <1>11, <1>12

\* patch-libzt-switch.py goes through CMakeLists.txt behind bootstrap.
LEMMA PortPassable ==
  ASSUME NEW text, IsABag(text), {"REMOVE_ITEM", "lwIP-port"} \subseteq Passages(text)
  PROVE  ~Aborts(text, CMakeNoMapper)
<1> DEFINE k == CMakeNoMapper
<1>1. Len(k.edits) = 6 /\ k.find = {}
  BY DEF CMakeNoMapper, Section
<1>2. /\ \A i \in 1 .. 4 : k.edits[i].when = k.edits[i].needs
      /\ k.edits[5].excuse = {"REMOVE_ITEM"} /\ k.edits[6].excuse = {"lwIP-port"}
      /\ \A i \in 1 .. 5 : /\ "REMOVE_ITEM" \notin k.edits[i].takes
                           /\ "lwIP-port" \notin k.edits[i].takes
  <2> USE DEF CMakeNoMapper, Section, Edit, Replace, Wrap, Unless, OrDone, IfFound
  <2>1. /\ k.edits[1].when = {"listed-PortMapper"} /\ k.edits[1].needs = {"listed-PortMapper"}
        /\ k.edits[2].when = {"globbed-PortMapper"} /\ k.edits[2].needs = {"globbed-PortMapper"}
        /\ k.edits[3].when = {"natpmp-objects"} /\ k.edits[3].needs = {"natpmp-objects"}
        /\ k.edits[4].when = {"MINIUPNPC-flag"} /\ k.edits[4].needs = {"MINIUPNPC-flag"}
    OBVIOUS
  <2>2. k.edits[5].excuse = {"REMOVE_ITEM"} /\ k.edits[6].excuse = {"lwIP-port"}
    OBVIOUS
  <2>3. /\ k.edits[1].takes = {"listed-PortMapper"}
        /\ k.edits[2].takes = {"globbed-PortMapper", "upstream-glob"}
        /\ k.edits[3].takes = {"natpmp-objects"} /\ k.edits[4].takes = {}
        /\ k.edits[5].takes = {"upstream-glob"}
    OBVIOUS
  <2> HIDE DEF k
  <2>4. \A i \in 1 .. 5 : i = 1 \/ i = 2 \/ i = 3 \/ i = 4 \/ i = 5
    OBVIOUS
  <2>5. \A i \in 1 .. 4 : i = 1 \/ i = 2 \/ i = 3 \/ i = 4
    OBVIOUS
  <2>6. \A i \in 1 .. 4 : k.edits[i].when = k.edits[i].needs
    BY <2>1, <2>5
  <2>7. \A i \in 1 .. 5 : /\ "REMOVE_ITEM" \notin k.edits[i].takes
                          /\ "lwIP-port" \notin k.edits[i].takes
    BY <2>3, <2>4
  <2> QED
    BY <2>2, <2>6, <2>7
<1> HIDE DEF k
<1>3. Passable(text, k)
  <2> SUFFICES ASSUME NEW i \in 1 .. 6
               PROVE  \/ k.edits[i].when = k.edits[i].needs
                      \/ \E p \in k.edits[i].excuse :
                           p \in Passages(text) /\ \A j \in 1 .. i - 1 : Spares(k.edits[j], p)
    BY <1>1 DEF Passable
  <2>1. CASE i \in 1 .. 4
    BY <1>2, <2>1
  <2>2. CASE i = 5 \/ i = 6
    <3>1. \A j \in 1 .. i - 1 : j \in 1 .. 5
      BY <2>2
    <3> QED
      BY <1>2, <2>2, <3>1 DEF Spares
  <2> QED
    BY <2>1, <2>2
<1>4. ~Aborts(text, k)
  BY <1>1, <1>3, Passes
<1> QED
  BY <1>4 DEF k

\* What bootstrap first does there.
LEMMA CMakeFirst ==
  ASSUME NEW text, IsABag(text), Sources["CMake"] \subseteq Passages(text)
  PROVE  /\ IsABag(Rewritten(text, BootstrapCMake))
         /\ {"REMOVE_ITEM", "lwIP-port"} \subseteq Passages(Rewritten(text, BootstrapCMake))
<1> DEFINE k == BootstrapCMake
           D == Drafts(text, k)
           e1 == k.edits[1]
           e2 == k.edits[2]
           e3 == k.edits[3]
<1>1. Len(k.edits) = 3 /\ k.find = {} /\ k.marker = {}
  BY DEF BootstrapCMake, Section
<1>2. /\ e1.needs = {"GLOB"} /\ e1.when = {} /\ e1.unless = {} /\ "REMOVE_ITEM" \in e1.puts
      /\ "lwIP-port-if-UNIX" \notin e1.takes
      /\ e2.when = {"lwIP-port-if-UNIX"} /\ e2.unless = {} /\ e2.excuse = {}
      /\ "lwIP-port" \in e2.puts /\ "REMOVE_ITEM" \notin e2.takes
      /\ e3.takes = {}
  BY DEF BootstrapCMake, Section, Edit, Replace, Wrap, OrDone, IfFound
<1>3. "GLOB" \in Passages(text) /\ "lwIP-port-if-UNIX" \in Passages(text)
  BY LibztSources DEF Upstream
<1>4. Rewritten(text, k) = D[3]
  BY <1>1 DEF Rewritten, LeftAlone, Found
<1> HIDE DEF k
<1>5. /\ D[0] = text /\ D[1] = Edited(D[0], e1) /\ D[2] = Edited(D[1], e2)
      /\ D[3] = Edited(D[2], e3)
  <2>1. Len(k.edits) \in Nat
    BY <1>1
  <2>2. D[0] = text /\ \A i \in 1 .. 3 : D[i] = Edited(D[i - 1], k.edits[i])
    BY <1>1, <2>1, DraftSteps
  <2> HIDE DEF D
  <2>3. D[1] = Edited(D[1 - 1], k.edits[1]) /\ D[2] = Edited(D[2 - 1], k.edits[2])
        /\ D[3] = Edited(D[3 - 1], k.edits[3])
    BY <2>2
  <2> QED
    BY <2>2, <2>3
<1>6. \A i \in 0 .. 3 : IsABag(D[i])
  <2>1. Len(k.edits) \in Nat
    BY <1>1
  <2> QED
    BY <1>1, <2>1, DraftBags
<1> HIDE DEF D, e1, e2, e3
<1>7. IsABag(D[0]) /\ IsABag(D[1]) /\ IsABag(D[2]) /\ IsABag(D[3])
  BY <1>6
<1>8. ASSUME NEW x, IsABag(x), NEW e, NEW p, p \in Passages(x), p \notin e.takes
      PROVE  p \in Passages(Edited(x, e))
  BY <1>8, EditedHas
<1>9. "REMOVE_ITEM" \in Passages(D[1]) /\ "lwIP-port-if-UNIX" \in Passages(D[1])
  <2>1. ~Skipped(D[0], e1)
    BY <1>2, <1>3, <1>5 DEF Skipped
  <2>2. "REMOVE_ITEM" \in Passages(D[1])
    BY <1>2, <1>5, <1>7, <2>1, EditedCopies
  <2> QED
    BY <1>2, <1>3, <1>5, <1>7, <1>8, <2>2
<1>10. "REMOVE_ITEM" \in Passages(D[2]) /\ "lwIP-port" \in Passages(D[2])
  <2>1. ~Skipped(D[1], e2)
    BY <1>2, <1>9 DEF Skipped
  <2>2. "lwIP-port" \in Passages(D[2])
    BY <1>2, <1>5, <1>7, <2>1, EditedCopies
  <2>3. "REMOVE_ITEM" \in Passages(D[2])
    BY <1>2, <1>5, <1>7, <1>8, <1>9
  <2> QED
    BY <2>2, <2>3
<1>11. "REMOVE_ITEM" \in Passages(D[3]) /\ "lwIP-port" \in Passages(D[3])
  <2>1. "REMOVE_ITEM" \notin e3.takes /\ "lwIP-port" \notin e3.takes
    BY <1>2
  <2> QED
    BY <1>5, <1>7, <1>8, <1>10, <2>1
<1> QED
  BY <1>4, <1>7, <1>11 DEF k

\* The files that bootstrap edits, one after the other.
LEMMA BootstrapFiles ==
  LET File(i) == PatchBootstrap[i].file IN
  /\ \A i \in 1 .. 13 : i # 7 => Ventures(PatchBootstrap[i])
  /\ \A i \in 1 .. 13 : File(i) \in Files \ {"main", "posix"}
  /\ \A i \in 2 .. 13 : \A j \in 1 .. i - 1 : i # 7 => File(j) # File(i)
  /\ \A i \in 2 .. 6 : File(i) # "CMake"
  /\ File(1) = "CMake" /\ File(7) = "CMake" /\ File(13) = "sys_arch"
  /\ PatchBootstrap[7] = CMakeNoMapper
<1>1. /\ PatchBootstrap[1] = BootstrapCMake /\ PatchBootstrap[2] = ConstantsUnixLike
      /\ PatchBootstrap[3] = UtilsStok /\ PatchBootstrap[4] = BinderNoInterfaces
      /\ PatchBootstrap[5] = PhyNoUnixSockets /\ PatchBootstrap[6] = UtilsNoProbes
      /\ PatchBootstrap[7] = CMakeNoMapper /\ PatchBootstrap[8] = PortCc
      /\ PatchBootstrap[9] = CcWrapper /\ PatchBootstrap[10] = Stdexcept("family")
      /\ PatchBootstrap[11] = Stdexcept("registry")
  <2>1. PatchBootstrap[1] = BootstrapCMake
    BY BootstrapParts
  <2>2. /\ PatchBootstrap[2] = PatchLibzt[1] /\ PatchBootstrap[3] = PatchLibzt[2]
        /\ PatchBootstrap[4] = PatchLibzt[3] /\ PatchBootstrap[5] = PatchLibzt[4]
        /\ PatchBootstrap[6] = PatchLibzt[5] /\ PatchBootstrap[7] = PatchLibzt[6]
        /\ PatchBootstrap[8] = PatchLibzt[7] /\ PatchBootstrap[9] = PatchLibzt[8]
        /\ PatchBootstrap[10] = PatchLibzt[9] /\ PatchBootstrap[11] = PatchLibzt[10]
    BY BootstrapParts
  <2> QED
    BY <2>1, <2>2 DEF PatchLibzt
<1>2. PatchBootstrap[12] = BootstrapDriver /\ PatchBootstrap[13] = BootstrapSysArch
  BY BootstrapScript
<1>3. \A i \in 1 .. 13 : i = 1 \/ i = 2 \/ i = 3 \/ i = 4 \/ i = 5 \/ i = 6 \/ i = 7 \/ i = 8
                        \/ i = 9 \/ i = 10 \/ i = 11 \/ i = 12 \/ i = 13
  OBVIOUS
<1>4. \A i \in 1 .. 13 : i # 7 => Ventures(PatchBootstrap[i])
  BY <1>1, <1>2, <1>3, BootstrapVentures
<1>5. /\ BootstrapCMake.file = "CMake" /\ ConstantsUnixLike.file = "Constants"
      /\ UtilsStok.file = "UtilsH" /\ BinderNoInterfaces.file = "Binder"
      /\ PhyNoUnixSockets.file = "Phy" /\ UtilsNoProbes.file = "UtilsCpp"
      /\ CMakeNoMapper.file = "CMake" /\ CcWrapper.file = "ccWrapper"
      /\ Stdexcept("family").file = "family" /\ Stdexcept("registry").file = "registry"
  BY DEF BootstrapCMake, ConstantsUnixLike, UtilsStok, BinderNoInterfaces, PhyNoUnixSockets,
         UtilsNoProbes, CMakeNoMapper, CcWrapper, Stdexcept, Section
<1>6. /\ PortCc.file = "cc" /\ BootstrapDriver.file = "VirtualTap"
      /\ BootstrapSysArch.file = "sys_arch"
  BY DEF PortCc, BootstrapDriver, BootstrapSysArch, MayLack, Finding, Marked, Section
<1> DEFINE File(i) == PatchBootstrap[i].file
<1>7. /\ File(1) = "CMake" /\ File(2) = "Constants" /\ File(3) = "UtilsH" /\ File(4) = "Binder"
      /\ File(5) = "Phy" /\ File(6) = "UtilsCpp" /\ File(7) = "CMake" /\ File(8) = "cc"
      /\ File(9) = "ccWrapper" /\ File(10) = "family" /\ File(11) = "registry"
      /\ File(12) = "VirtualTap" /\ File(13) = "sys_arch"
  BY <1>1, <1>2, <1>5, <1>6
<1> HIDE DEF File
<1>8. \A i \in 1 .. 13 : File(i) \in Files \ {"main", "posix"}
  BY <1>3, <1>7, FilesAre
<1>9. \A i \in 2 .. 6 : File(i) # "CMake"
  <2>1. \A i \in 2 .. 6 : i = 2 \/ i = 3 \/ i = 4 \/ i = 5 \/ i = 6
    OBVIOUS
  <2> QED
    BY <1>7, <2>1
<1>10. \A i \in 2 .. 13 : \A j \in 1 .. i - 1 : i # 7 => File(j) # File(i)
  <2>1. ASSUME NEW i \in 2 .. 13, NEW j \in 1 .. i - 1, i # 7 PROVE File(j) # File(i)
    <3>1. i \in 1 .. 13 /\ j \in 1 .. 13 /\ i # j /\ j # i
      BY <2>1
    <3>2. i \in 2 .. 6 => j \in 1 .. 5
      BY <2>1
    <3> QED
      BY <1>3, <1>7, <2>1, <3>1, <3>2
  <2> QED
    BY <2>1
<1> QED
  BY <1>1, <1>4, <1>7, <1>8, <1>9, <1>10 DEF File

\* All that bootstrap works on is as it is upstream.
Fresh(t) ==
  /\ t = [f \in Files |-> t[f]]
  /\ \A f \in Files \ {"main", "posix"} : t[f] = SetToBag(Sources[f])

\* The i-th section of bootstrap is behind, on such a checkout.
Begun(x, i) ==
  /\ RunState(x) /\ x.ok
  /\ \A f \in Files \ {"main", "posix"} :
       (\A j \in 1 .. i : PatchBootstrap[j].file # f) => x.files[f] = SetToBag(Sources[f])
  /\ i \in 1 .. 6 => /\ IsABag(x.files["CMake"])
                     /\ {"REMOVE_ITEM", "lwIP-port"} \subseteq Passages(x.files["CMake"])

\* It goes on to the next one.
LEMMA BootstrapBegins ==
  ASSUME NEW i \in 1 .. 13, NEW x, Begun(x, i - 1)
  PROVE  /\ ~Aborts(x.files[PatchBootstrap[i].file], PatchBootstrap[i])
         /\ Begun(Onward(x, PatchBootstrap[i]), i)
<1> DEFINE File(j) == PatchBootstrap[j].file
           k == PatchBootstrap[i]
           y == Onward(x, k)
<1>1. /\ \A j \in 1 .. 13 : j # 7 => Ventures(PatchBootstrap[j])
      /\ \A j \in 1 .. 13 : File(j) \in Files \ {"main", "posix"}
      /\ \A m \in 2 .. 13 : \A j \in 1 .. m - 1 : m # 7 => File(j) # File(m)
      /\ \A j \in 2 .. 6 : File(j) # "CMake"
      /\ File(1) = "CMake" /\ File(7) = "CMake"
      /\ PatchBootstrap[7] = CMakeNoMapper
  BY BootstrapFiles
<1>2. /\ RunState(x) /\ x.ok
      /\ \A f \in Files \ {"main", "posix"} :
           (\A j \in 1 .. i - 1 : File(j) # f) => x.files[f] = SetToBag(Sources[f])
      /\ i - 1 \in 1 .. 6 => /\ IsABag(x.files["CMake"])
                             /\ {"REMOVE_ITEM", "lwIP-port"} \subseteq Passages(x.files["CMake"])
  BY DEF Begun
<1>3. k.file = File(i) /\ PatchBootstrap[i] = k
  OBVIOUS
<1> HIDE DEF k, File
<1>4. ASSUME i # 7 PROVE x.files[k.file] = SetToBag(Sources[k.file])
  <2>1. \A j \in 1 .. i - 1 : File(j) # File(i)
    <3>1. CASE i = 1
      BY <3>1
    <3>2. CASE i # 1
      <4>1. i \in 2 .. 13
        BY <3>2
      <4> QED
        BY <1>1, <1>4, <4>1
    <3> QED
      BY <3>1, <3>2
  <2> QED
    BY <1>1, <1>2, <1>3, <2>1
<1>5. ~Aborts(x.files[k.file], k)
  <2>1. CASE i = 7
    <3>1. i - 1 \in 1 .. 6 /\ k = CMakeNoMapper /\ k.file = "CMake"
      BY <1>1, <1>3, <2>1
    <3> QED
      BY <1>2, <3>1, PortPassable
  <2>2. CASE i # 7
    <3> DEFINE text == x.files[k.file]
    <3>1. IsABag(text) /\ Sources[k.file] \subseteq Passages(text)
      BY <1>4, <2>2, SetBag
    <3>2. Ventures(k)
      BY <1>1, <1>3, <2>2
    <3> HIDE DEF text
    <3>3. /\ Len(k.edits) \in Nat /\ Passable(text, k)
          /\ k.find \subseteq Passages(text) \/ ~k.must
      BY <3>1, <3>2 DEF Ventures
    <3>4. ~Aborts(text, k)
      BY <3>1, <3>3, Passes
    <3> QED
      BY <3>4 DEF text
  <2> QED
    BY <2>1, <2>2
<1>6. k.file \in Files
  BY <1>1, <1>3
<1>7. /\ RunState(y) /\ y.ok
      /\ y.files[k.file] = Rewritten(x.files[k.file], k)
      /\ \A f \in Files : f # k.file => y.files[f] = x.files[f]
  BY <1>2, <1>5, <1>6, OnwardFiles DEF y
<1> HIDE DEF y
<1>8. ASSUME NEW f \in Files \ {"main", "posix"}, \A j \in 1 .. i : File(j) # f
      PROVE  y.files[f] = SetToBag(Sources[f])
  <2>1. f # k.file /\ \A j \in 1 .. i - 1 : File(j) # f
    BY <1>3, <1>8
  <2> QED
    BY <1>2, <1>7, <2>1
<1>9. ASSUME i \in 1 .. 6
      PROVE  /\ IsABag(y.files["CMake"])
             /\ {"REMOVE_ITEM", "lwIP-port"} \subseteq Passages(y.files["CMake"])
  <2>1. CASE i = 1
    <3> DEFINE text == x.files["CMake"]
    <3>1. k = BootstrapCMake /\ k.file = "CMake"
      BY <1>1, <1>3, <2>1, BootstrapParts
    <3>2. text = SetToBag(Sources["CMake"])
      BY <1>4, <2>1, <3>1
    <3>3. IsABag(text) /\ Sources["CMake"] \subseteq Passages(text)
      BY <3>2, SetBag
    <3>4. y.files["CMake"] = Rewritten(text, BootstrapCMake)
      BY <1>7, <3>1
    <3> HIDE DEF text
    <3> QED
      BY <3>3, <3>4, CMakeFirst
  <2>2. CASE i # 1
    <3>1. i \in 2 .. 6 /\ i - 1 \in 1 .. 6
      BY <1>9, <2>2
    <3>2. k.file # "CMake" /\ "CMake" \in Files
      BY <1>1, <1>3, <3>1, FilesAre
    <3> QED
      BY <1>2, <1>7, <3>1, <3>2
  <2> QED
    BY <2>1, <2>2
<1>10. Begun(y, i)
  BY <1>7, <1>8, <1>9 DEF Begun, File
<1> QED
  BY <1>5, <1>10 DEF y, k

\* In the end sys_arch.c includes <switch.h>.
LEMMA BootstrapIncludes ==
  ASSUME NEW t, Fresh(t)
  PROVE  "switch.h" \in Passages(RunOver("bootstrap", t).files["sys_arch"])
<1>1. Script["bootstrap"] = PatchBootstrap /\ Len(PatchBootstrap) = 13
  BY BootstrapScript DEF Script
<1>2. PICK a : /\ a[0] = Started(t)
               /\ \A i \in 1 .. 13 : a[i] = Onward(a[i - 1], PatchBootstrap[i])
               /\ RunOver("bootstrap", t) = a[13]
  <2>1. Len(Script["bootstrap"]) \in Nat
    BY <1>1
  <2>2. PICK a : /\ a[0] = Started(t)
                 /\ \A i \in 1 .. Len(Script["bootstrap"]) :
                      a[i] = Onward(a[i - 1], Script["bootstrap"][i])
                 /\ RunOver("bootstrap", t) = a[Len(Script["bootstrap"])]
    BY <2>1, RunSteps
  <2>3. /\ \A i \in 1 .. Len(PatchBootstrap) : a[i] = Onward(a[i - 1], PatchBootstrap[i])
        /\ RunOver("bootstrap", t) = a[Len(PatchBootstrap)]
    BY <1>1, <2>2, Zenon
  <2>4. /\ \A i \in 1 .. 13 : a[i] = Onward(a[i - 1], PatchBootstrap[i])
        /\ RunOver("bootstrap", t) = a[13]
    BY <1>1, <2>3, Zenon
  <2> QED
    BY <2>2, <2>4
<1> DEFINE S == {i \in 0 .. 13 : Begun(a[i], i)}
<1>3. 0 \in S
  <2>1. RunState(a[0]) /\ a[0].ok /\ a[0].files = t
    BY <1>2, StartedRuns DEF Fresh
  <2>2. Begun(a[0], 0)
    BY <2>1 DEF Begun, Fresh
  <2> QED
    BY <2>2
<1>4. ASSUME NEW i \in 1 .. 13, i - 1 \in S PROVE i \in S
  <2>1. Begun(a[i - 1], i - 1)
    BY <1>4
  <2>2. Begun(Onward(a[i - 1], PatchBootstrap[i]), i)
    BY <2>1, BootstrapBegins
  <2>3. Begun(a[i], i)
    BY <1>2, <2>2
  <2> QED
    BY <2>3
<1> HIDE DEF S
<1>5. \A i \in 0 .. 13 : i \in S
  BY <1>3, <1>4, UpTo
<1>6. Begun(a[12], 12)
  BY <1>5 DEF S
<1> DEFINE x == a[12]
           k == BootstrapSysArch
           text == x.files["sys_arch"]
<1>7. a[13] = Onward(x, k) /\ PatchBootstrap[13] = k /\ k.file = "sys_arch"
  <2>1. a[13] = Onward(a[13 - 1], PatchBootstrap[13])
    BY <1>2
  <2> QED
    BY <2>1, BootstrapScript, FilesOfPuts
<1> HIDE DEF x, k
<1>8. ~Aborts(text, k)
  <2>1. Begun(x, 13 - 1)
    BY <1>6 DEF x
  <2>2. ~Aborts(x.files[PatchBootstrap[13].file], PatchBootstrap[13])
    BY <2>1, BootstrapBegins
  <2> QED
    BY <1>7, <2>2
<1>9. text = SetToBag(Sources["sys_arch"])
  <2>1. "sys_arch" \in Files \ {"main", "posix"}
    BY FilesAre
  <2>2. \A j \in 1 .. 12 : PatchBootstrap[j].file # "sys_arch"
    <3>1. /\ \A j \in 1 .. 13 - 1 : PatchBootstrap[j].file # PatchBootstrap[13].file
          /\ PatchBootstrap[13].file = "sys_arch"
      BY BootstrapFiles
    <3> QED
      BY <3>1
  <2> QED
    BY <1>6, <2>1, <2>2 DEF Begun, x
<1>10. IsABag(text) /\ Passages(text) = Sources["sys_arch"]
  BY <1>9, SetBag
<1>11. /\ k.marker = {"entering"} /\ k.find = {"sys_thread_new(", "pthread_create"}
  BY DEF k, BootstrapSysArch, MayLack, Finding, Marked, Section
<1>12. k.find \subseteq Sources["sys_arch"] /\ k.marker \cap Sources["sys_arch"] = {}
  BY <1>11, LibztSources DEF Upstream
<1> HIDE DEF text
<1>13. "switch.h" \in Passages(Rewritten(text, k))
  <2>1. k \in {BootstrapDriver, BootstrapSysArch}
    BY DEF k
  <2>2. k.marker \cap Passages(text) # {} => "switch.h" \in Passages(text)
    BY <1>10, <1>12
  <2>3. k.find \subseteq Passages(text)
    BY <1>10, <1>12
  <2> QED
    BY <1>8, <1>10, <2>1, <2>2, <2>3, DriverIncluded
<1>14. RunState(x) /\ x.ok /\ "sys_arch" \in Files
  BY <1>6, FilesAre DEF Begun, x
<1>15. a[13].files["sys_arch"] = Rewritten(text, k)
  BY <1>7, <1>8, <1>14, OnwardFiles DEF text
<1> QED
  BY <1>2, <1>13, <1>15

\* The i-th section of patch-ldn-zt.py is behind.
Unstubbed(x, i) ==
  /\ RunState(x) /\ \A f \in Files : IsABag(x.files[f])
  /\ i = 0 => LdnUpstream.checkout \subseteq Passages(x.files["checkout"])
  /\ i <= 5 => x.ok /\ CountIn("copy", x.files["stubs"]) <= 1
  /\ i >= 5 => "copy" \notin Passages(x.files["stubs"])

\* It goes as far as to remove the stubs,
LEMMA LdnUnstubs ==
  ASSUME NEW i \in 1 .. 5, NEW x, Unstubbed(x, i - 1)
  PROVE  Unstubbed(Onward(x, PatchLdn[i]), i)
<1> DEFINE k == PatchLdn[i]
           y == Onward(x, k)
<1>1. /\ RunState(x) /\ x.ok /\ \A f \in Files : IsABag(x.files[f])
      /\ i = 1 => LdnUpstream.checkout \subseteq Passages(x.files["checkout"])
      /\ CountIn("copy", x.files["stubs"]) <= 1
  BY DEF Unstubbed
<1>2. /\ i = 1 => k = LdnPreconditions[1]
      /\ i \in 2 .. 5 => k = LdnCopies[i - 1]
  BY LdnParts
<1>3. /\ LdnPreconditions[1].file = "checkout" /\ LdnCopies[1] = Copy("bridgeHpp")
      /\ LdnCopies[2] = Copy("bridgeCpp") /\ LdnCopies[3] = Copy("errnoCompat")
      /\ LdnCopies[4].file = "stubs"
  BY DEF LdnPreconditions, LdnCopies, Section
<1>4. {"checkout", "stubs", "bridgeHpp", "bridgeCpp", "errnoCompat"} \subseteq Files
  BY FilesAre
<1>5. k.file \in Files /\ GoesOn(x.files[k.file], k, i)
  <2>1. CASE i = 1
    <3>1. k = LdnPreconditions[1] /\ k.file = "checkout" /\ IsABag(x.files[k.file])
      BY <1>1, <1>2, <1>3, <1>4, <2>1
    <3>2. LdnUpstream.checkout \subseteq Passages(x.files[k.file])
      BY <1>1, <2>1, <3>1
    <3> QED
      BY <1>4, <2>1, <3>1, <3>2, PinsGoOn
  <2>2. CASE i \in 2 .. 4
    <3>1. PICK f \in {"bridgeHpp", "bridgeCpp", "errnoCompat"} : k = Copy(f)
      <4>1. i = 2 \/ i = 3 \/ i = 4
        BY <2>2
      <4> QED
        BY <1>2, <1>3, <4>1
    <3>2. k.file \in Files
      BY <1>4, <3>1 DEF Copy, Section
    <3> QED
      BY <2>2, <3>1, <3>2, CopyGoesOn
  <2>3. CASE i = 5
    <3>1. k = LdnCopies[4] /\ k.file = "stubs" /\ IsABag(x.files[k.file])
      BY <1>1, <1>2, <1>3, <1>4, <2>3
    <3> QED
      BY <1>1, <1>4, <2>3, <3>1, StubsGoOn
  <2> QED
    BY <2>1, <2>2, <2>3
<1>6. Len(k.edits) \in Nat
  <2>1. i \in 1 .. 36
    OBVIOUS
  <2> QED
    BY <2>1, LdnScript DEF Formed
<1> HIDE DEF k
<1>7. /\ RunState(y) /\ y.ok
      /\ y.files[k.file] = Rewritten(x.files[k.file], k)
      /\ \A f \in Files : f # k.file => y.files[f] = x.files[f]
  BY <1>1, <1>5, OnwardFiles DEF y, GoesOn
<1> HIDE DEF y
<1>8. IsABag(Rewritten(x.files[k.file], k))
  BY <1>1, <1>5, <1>6, RewrittenCopies
<1>9. \A f \in Files : IsABag(y.files[f])
  BY <1>1, <1>7, <1>8
<1>10. CountIn("copy", y.files["stubs"]) <= 1
  <2>1. CASE k.file = "stubs"
    <3>1. CountIn("copy", Rewritten(x.files[k.file], k)) <= CountIn("copy", x.files[k.file])
      BY <1>5, <2>1 DEF GoesOn
    <3>2. /\ CountIn("copy", Rewritten(x.files[k.file], k)) \in Nat
          /\ CountIn("copy", x.files[k.file]) \in Nat
      BY <1>1, <1>5, <1>6, RewrittenCopies
    <3> QED
      BY <1>1, <1>7, <2>1, <3>1, <3>2
  <2>2. CASE k.file # "stubs"
    BY <1>1, <1>4, <1>7, <2>2
  <2> QED
    BY <2>1, <2>2
<1>11. i >= 5 => "copy" \notin Passages(y.files["stubs"])
  BY <1>5, <1>7 DEF GoesOn
<1>12. Unstubbed(y, i)
  BY <1>7, <1>9, <1>10, <1>11 DEF Unstubbed
<1> QED
  BY <1>12 DEF y, k

\* and does not bring them back.
LEMMA LdnStaysUnstubbed ==
  ASSUME NEW i \in 6 .. 36, NEW x, Unstubbed(x, i - 1)
  PROVE  Unstubbed(Onward(x, PatchLdn[i]), i)
<1> DEFINE k == PatchLdn[i]
           y == Onward(x, k)
<1>1. /\ RunState(x) /\ \A f \in Files : IsABag(x.files[f])
      /\ "copy" \notin Passages(x.files["stubs"])
  BY DEF Unstubbed
<1>2. k.file \in Files /\ Len(k.edits) \in Nat
  <2>1. i \in 1 .. 36
    OBVIOUS
  <2> QED
    BY <2>1, LdnScript DEF Formed
<1>3. k.file = "stubs" => \A j \in 1 .. Len(k.edits) : "copy" \notin k.edits[j].puts
  <2>1. i \in 1 .. 36 /\ (i # 34 => PutsNone(k))
    BY LdnScript
  <2>2. i = 34 => k.file = "Makefile"
    BY LdnScript, FilesOfPuts
  <2> QED
    BY <2>1, <2>2, KeptIn DEF PutsNone
<1>4. "stubs" \in Files
  BY FilesAre
<1> HIDE DEF k
<1>5. RunState(y)
  BY <1>1, <1>2, OnwardFiles DEF y
<1>6. /\ \A f \in Files : IsABag(y.files[f])
      /\ "copy" \notin Passages(y.files["stubs"])
  <2>1. CASE x.ok /\ ~Aborts(x.files[k.file], k)
    <3> DEFINE R == Rewritten(x.files[k.file], k)
    <3>1. /\ y.files[k.file] = R
          /\ \A f \in Files : f # k.file => y.files[f] = x.files[f]
      BY <1>1, <1>2, <2>1, OnwardFiles DEF y
    <3>2. IsABag(x.files[k.file]) /\ IsABag(R)
      BY <1>1, <1>2, RewrittenCopies
    <3>3. k.file = "stubs" => "copy" \notin Passages(R)
      <4> SUFFICES ASSUME k.file = "stubs" PROVE "copy" \notin Passages(R)
        OBVIOUS
      <4>1. CountIn("copy", R) <= CountIn("copy", x.files[k.file])
        BY <1>2, <1>3, <3>2, RewrittenCopies
      <4>2. /\ CountIn("copy", R) \in Nat /\ CountIn("copy", x.files[k.file]) \in Nat
            /\ "copy" \in Passages(R) <=> CountIn("copy", R) > 0
            /\ "copy" \in Passages(x.files[k.file]) <=> CountIn("copy", x.files[k.file]) > 0
        BY <3>2, EditedCopies
      <4> HIDE DEF R
      <4> QED
        BY <1>1, <4>1, <4>2
    <3> HIDE DEF R, y
    <3> QED
      BY <1>1, <1>4, <3>1, <3>2, <3>3
  <2>2. CASE ~(x.ok /\ ~Aborts(x.files[k.file], k))
    <3>1. y.files = x.files
      BY <1>1, <2>2, OnwardStays DEF y
    <3> QED
      BY <1>1, <3>1
  <2> QED
    BY <2>1, <2>2
<1> HIDE DEF y
<1>7. Unstubbed(y, i)
  BY <1>5, <1>6 DEF Unstubbed
<1> QED
  BY <1>7 DEF y, k

\* So it leaves none.
LEMMA LdnRemovesStubs ==
  ASSUME NEW w, NEW t, Fit(w, t)
  PROVE  "copy" \notin Passages(RunOver("ldn", t).files["stubs"])
<1>1. Script["ldn"] = PatchLdn /\ Len(PatchLdn) = 36
  BY LdnParts DEF Script
<1>2. PICK a : /\ a[0] = Started(t)
               /\ \A i \in 1 .. 36 : a[i] = Onward(a[i - 1], PatchLdn[i])
               /\ RunOver("ldn", t) = a[36]
  <2>1. Len(Script["ldn"]) \in Nat
    BY <1>1
  <2>2. PICK a : /\ a[0] = Started(t)
                 /\ \A i \in 1 .. Len(Script["ldn"]) : a[i] = Onward(a[i - 1], Script["ldn"][i])
                 /\ RunOver("ldn", t) = a[Len(Script["ldn"])]
    BY <2>1, RunSteps
  <2>3. /\ \A i \in 1 .. Len(PatchLdn) : a[i] = Onward(a[i - 1], PatchLdn[i])
        /\ RunOver("ldn", t) = a[Len(PatchLdn)]
    BY <1>1, <2>2, Zenon
  <2>4. /\ \A i \in 1 .. 36 : a[i] = Onward(a[i - 1], PatchLdn[i])
        /\ RunOver("ldn", t) = a[36]
    BY <1>1, <2>3, Zenon
  <2> QED
    BY <2>2, <2>4
<1> DEFINE S == {i \in 0 .. 36 : Unstubbed(a[i], i)}
<1>3. 0 \in S
  <2>1. t = [f \in Files |-> t[f]]
    BY DEF Fit
  <2>2. RunState(a[0]) /\ a[0].ok /\ a[0].files = t
    BY <1>2, <2>1, StartedRuns
  <2>3. Unstubbed(a[0], 0)
    BY <2>2 DEF Unstubbed, Fit, Sound
  <2> QED
    BY <2>3
<1>4. ASSUME NEW i \in 1 .. 36, i - 1 \in S PROVE i \in S
  <2>1. Unstubbed(a[i - 1], i - 1)
    BY <1>4
  <2>2. Unstubbed(Onward(a[i - 1], PatchLdn[i]), i)
    <3>1. CASE i \in 1 .. 5
      BY <2>1, <3>1, LdnUnstubs
    <3>2. CASE i \in 6 .. 36
      BY <2>1, <3>2, LdnStaysUnstubbed
    <3> QED
      BY <3>1, <3>2
  <2>3. Unstubbed(a[i], i)
    BY <1>2, <2>2
  <2> QED
    BY <2>3
<1> HIDE DEF S
<1>5. \A i \in 0 .. 36 : i \in S
  BY <1>3, <1>4, UpTo
<1>6. Unstubbed(a[36], 36)
  BY <1>5 DEF S
<1> QED
  BY <1>2, <1>6 DEF Unstubbed

\* patch-runtime-hotpath.py works on the application only.
LEMMA HotPathApart ==
  ASSUME NEW t, Fresh(t)
  PROVE  Fresh(RunOver("hotpath", t).files)
<1> DEFINE n == Len(Script["hotpath"])
<1>1. n = 2 /\ \A i \in 1 .. 2 : Script["hotpath"][i].file \in {"main", "posix"}
  <2>1. Script["hotpath"] = PatchHotPath
    BY DEF Script
  <2>2. Len(PatchHotPath) = 2 /\ PatchHotPath[1] = HotPathLogs /\ PatchHotPath[2] = HotPathSessions
    BY DEF PatchHotPath
  <2>3. HotPathLogs.file = "posix" /\ HotPathSessions.file = "main"
    BY DEF HotPathLogs, HotPathSessions, Section
  <2>4. \A i \in 1 .. 2 : i = 1 \/ i = 2
    OBVIOUS
  <2> QED
    BY <2>1, <2>2, <2>3, <2>4
<1>2. PICK a : /\ a[0] = Started(t)
               /\ \A i \in 1 .. n : a[i] = Onward(a[i - 1], Script["hotpath"][i])
               /\ RunOver("hotpath", t) = a[n]
  <2>1. n \in Nat
    BY <1>1
  <2> QED
    BY <2>1, RunSteps
<1> HIDE DEF n
<1> DEFINE S == {i \in 0 .. 2 : RunState(a[i]) /\ Fresh(a[i].files)}
<1>3. 0 \in S
  <2>1. RunState(a[0]) /\ a[0].files = t
    BY <1>2, StartedRuns DEF Fresh
  <2> QED
    BY <2>1
<1>4. ASSUME NEW i \in 1 .. 2, i - 1 \in S PROVE i \in S
  <2> DEFINE x == a[i - 1]
             k == Script["hotpath"][i]
             y == Onward(x, k)
  <2>1. RunState(x) /\ Fresh(x.files)
    BY <1>4
  <2>2. k.file \in {"main", "posix"} /\ y = a[i]
    BY <1>1, <1>2
  <2> HIDE DEF x, k, y
  <2>3. k.file \in Files
    BY <2>2, FilesAre
  <2>4. RunState(y) /\ \A f \in Files \ {"main", "posix"} : y.files[f] = x.files[f]
    <3>1. CASE x.ok /\ ~Aborts(x.files[k.file], k)
      BY <2>1, <2>2, <2>3, <3>1, OnwardFiles DEF y
    <3>2. CASE ~(x.ok /\ ~Aborts(x.files[k.file], k))
      <4>1. y.files = x.files
        BY <2>1, <3>2, OnwardStays DEF y
      <4>2. RunState(y)
        BY <2>1, <2>3, OnwardFiles DEF y
      <4> QED
        BY <4>1, <4>2
    <3> QED
      BY <3>1, <3>2
  <2>5. Fresh(y.files)
    BY <2>1, <2>4 DEF Fresh, RunState
  <2> QED
    BY <2>2, <2>4, <2>5
<1> HIDE DEF S
<1>5. \A i \in 0 .. 2 : i \in S
  BY <1>3, <1>4, UpTo
<1>6. Fresh(a[2].files)
  BY <1>5 DEF S
<1> QED
  BY <1>1, <1>2, <1>6

\* The sources are fit for a pass.
LEMMA SourcesFit ==
  ASSUME NEW w
  PROVE  Fit(w, Text(Sources)) /\ Fresh(Text(Sources))
<1> DEFINE t == Text(Sources)
<1>1. t = [f \in Files |-> SetToBag(Sources[f])]
  BY DEF Text
<1>2. /\ t = [f \in Files |-> t[f]]
      /\ \A f \in Files : t[f] = SetToBag(Sources[f])
  BY <1>1
<1> HIDE DEF t
<1>3. \A f \in Files : Sound(w, f, t[f]) /\ \A p \in Passages(t[f]) : Owed(w, f, p)
  BY <1>2, SourcesSound, SetBag DEF Owed
<1>4. LdnUpstream.checkout \subseteq Passages(t["checkout"])
  <2>1. "checkout" \in Files /\ Sources["checkout"] = LdnUpstream["checkout"]
    BY FilesAre, LdnSourcesAre DEF LdnFiles
  <2> QED
    BY <1>2, <2>1, SetBag
<1>5. CountIn("copy", t["stubs"]) <= 1
  <2>1. "stubs" \in Files
    BY FilesAre
  <2>2. CountIn("copy", SetToBag(Sources["stubs"])) \in {0, 1}
    BY SetBag
  <2> QED
    BY <1>2, <2>1, <2>2
<1>6. Fit(w, t) /\ Fresh(t)
  BY <1>2, <1>3, <1>4, <1>5 DEF Fit, Fresh
<1> QED
  BY <1>6 DEF t

\* So is what each script of the pass makes of them.
LEMMA PassFits ==
  ASSUME NEW w
  PROVE  LET patched == Patched(w, Text(Sources)) IN
         /\ Fit(w, patched)
         /\ "ldn" \in w => "copy" \notin Passages(patched["stubs"])
<1>1. PICK a : /\ a[0] = Text(Sources)
               /\ \A i \in 1 .. 10 : a[i] = Taken(w, PatchOrder[i], a[i - 1])
               /\ Patched(w, Text(Sources)) = a[10]
  BY PassSteps
<1> DEFINE Has(i) == "switch.h" \in Passages(a[i]["sys_arch"])
           Goes(i) == Fit(w, a[i]) /\ (i >= 2 /\ "bootstrap" \in w => Has(i))
           S == {i \in 0 .. 10 : Goes(i)}
<1>2. 0 \in S
  BY <1>1, SourcesFit
<1>3. Fresh(a[1])
  <2>1. a[1] = Taken(w, "hotpath", a[1 - 1])
    BY <1>1, OrderIs
  <2>2. Fresh(a[0])
    BY <1>1, SourcesFit
  <2> QED
    BY <2>1, <2>2, HotPathApart DEF Taken
<1>4. ASSUME NEW i \in 1 .. 10, i - 1 \in S PROVE i \in S
  <2> DEFINE s == PatchOrder[i]
             x == a[i - 1]
  <2>1. Fit(w, x) /\ (i - 1 >= 2 /\ "bootstrap" \in w => Has(i - 1))
    BY <1>4
  <2>2. a[i] = Taken(w, s, x) /\ s \in Ordered
    BY <1>1, OrderIs DEF Ordered
  <2>3. s = "lwip" => i = 3
    BY OrderIs
  <2>4. i = 2 => s = "bootstrap"
    BY OrderIs
  <2>5. CASE s \in w
    <3>1. a[i] = RunOver(s, x).files
      BY <2>2, <2>5 DEF Taken
    <3>2. s = "lwip" /\ "bootstrap" \in w => "switch.h" \in Passages(x["sys_arch"])
      BY <2>1, <2>3
    <3> HIDE DEF s, x
    <3>3. /\ Fit(w, a[i])
          /\ "switch.h" \in Passages(x["sys_arch"]) => Has(i)
      BY <2>1, <2>2, <2>5, <3>1, <3>2, RunFits
    <3>4. i = 2 => Has(i)
      <4> SUFFICES ASSUME i = 2 PROVE Has(i)
        OBVIOUS
      <4>1. x = a[1] /\ s = "bootstrap"
        BY <2>4 DEF x
      <4> QED
        BY <1>3, <3>1, <4>1, BootstrapIncludes
    <3>5. i > 2 /\ "bootstrap" \in w => Has(i)
      BY <2>1, <3>3 DEF x
    <3>6. Goes(i)
      BY <3>3, <3>4, <3>5
    <3> QED
      BY <3>6
  <2>6. CASE s \notin w
    <3>1. a[i] = x
      BY <2>2, <2>6 DEF Taken
    <3>2. i = 2 => "bootstrap" \notin w
      BY <2>4, <2>6
    <3> HIDE DEF s
    <3>3. Goes(i)
      BY <2>1, <3>1, <3>2
    <3> QED
      BY <3>3
  <2> QED
    BY <2>5, <2>6
<1> HIDE DEF S
<1>5. \A i \in 0 .. 10 : i \in S
  BY <1>2, <1>4, UpTo
<1>6. Fit(w, a[10]) /\ Fit(w, a[9])
  BY <1>5 DEF S
<1>7. ASSUME "ldn" \in w PROVE "copy" \notin Passages(a[10]["stubs"])
  <2>1. a[10] = Taken(w, "ldn", a[10 - 1])
    BY <1>1, OrderIs
  <2>2. a[10] = RunOver("ldn", a[9]).files
    BY <1>7, <2>1 DEF Taken
  <2> QED
    BY <1>6, <2>2, LdnRemovesStubs
<1> QED
  BY <1>1, <1>6, <1>7

\* On every checkout, after any scripts in any order, killed or not: once the latest run
\* of each has ended well, all that one undisturbed pass adds to the sources is there,
\* in each file whose writing was never cut short, unless the passage that was lost
\* upstream is one that none of these scripts insists on.
THEOREM LossesAreReported == Spec => []LossIsReported
<1>1. Typed /\ Reported => LossIsReported
  <2> DEFINE patched == Patched(work, Text(Sources))
  <2> SUFFICES ASSUME Typed, Reported, AllWell, Noticed, NEW f \in Files \ cut,
                      NEW p \in Result(patched, f) \ Sources[f]
               PROVE  p \in Passages(tree[f])
    BY DEF LossIsReported, Noticed
  <2>1. Fit(work, patched) /\ ("ldn" \in work => "copy" \notin Passages(patched["stubs"]))
    BY PassFits
  <2> HIDE DEF patched
  <2>2. p \in Passages(patched[f]) /\ p \notin Indifferent /\ p \notin Sources[f]
    BY DEF Result
  <2>3. Owed(work, f, p)
    BY <2>1, <2>2 DEF Fit
  <2>4. ~("ldn" \in work /\ f = "stubs" /\ p = "copy")
    BY <2>1, <2>2
  <2>5. PICK s \in work \cap Ordered : \E i \in 1 .. Len(Script[s]) :
          Script[s][i].file = f /\ Delivers(work, Script[s][i], p)
    BY <2>2, <2>3, <2>4 DEF Owed
  <2>6. PICK i \in 1 .. Len(Script[s]) :
          Script[s][i].file = f /\ Delivers(work, Script[s][i], p)
    BY <2>5
  <2>7. s \in work /\ s \in Completing
    BY DEF Ordered, Completing
  <2>8. outcome[s] = "done"
    BY <2>7 DEF AllWell
  <2> QED
    BY <2>6, <2>7, <2>8 DEF Reported
<1> QED
  BY <1>1, TypedInvariant, ReportedInvariant, PTL
=============================================================================
