---------------------------- MODULE LibztPatches ----------------------------
(***************************************************************************)
(* The scripts that edit libzt and the application's own sources, as       *)
(* sequences of sections.  "Upstream" lists the passages of the unpatched  *)
(* files that the scripts look for; "rest" is what they do not look for,   *)
(* in the files that they take as they are.                                *)
(***************************************************************************)
EXTENDS PatchText

Upstream == [
  main        |-> {"16-sessions"},
  posix       |-> {"counters"},
  Constants   |-> {"ifdef-APPLE", "ZT_INLINE", "ZT_INLINE-block", "ZT_PEER_PING_PERIOD",
                   "ping-60-s", "expiration-4-pings", "trial-10-pings"},
  UtilsH      |-> {"stok"},
  Binder      |-> {"ifaddrs.h", "getifaddrs-guard", "interfacesEnumerated"},
  Phy         |-> {"un.h", "UNIX_LISTEN", "unlink-block", "string.h", "udpBind(",
                   "recvfrom(", "phyOnDatagram", "recvfrom-statement", "UDP-case"},
  UtilsCpp    |-> {"uio.h", "getauxval"},
  CMake       |-> {"GLOB", "upstream-glob", "globbed-PortMapper", "natpmp-objects",
                   "MINIUPNPC-flag", "lwIP-port-if-UNIX"},
  cc          |-> {"exists", "rest"},
  ccWrapper   |-> {},
  family      |-> {"rest"},
  registry    |-> {"rest"},
  VirtualTap  |-> {"VirtualTap.hpp", "driver_init", "sys_thread_new(", "driver_init-start",
                   "plain-sys_thread_new", "driver_loop", "driver_loop-begin",
                   "sys_sem_new", "tcpip_init", "sys_sem_wait"},
  sys_arch    |-> {"errno.h", "pthread.h", "sys_thread_new(", "pthread_create", "introduce_thread",
                   "sys_thread_new-begin", "function-start", "pthread_create(&tmp", "plain-create",
                   "if-0==code", "st=introduce_thread", "abort", "thread_wrapper"},
  tcpip       |-> {"opt.h", "tcpip_thread", "tcpip_init", "sys_thread_new", "tcpip_thread-begin",
                   "tcpip_init-begin", "if-tcpip_init_done", "tcpip_init_done("},
  OSUtils     |-> {"exists", "wall-clock-now"},
  NodeService |-> {"exists", "noCheck-true", "stdlib.h", "phyOnDatagram", "memcpy"},
  Node        |-> {"scale-16"},
  Incoming    |-> {"exists", "Trace.hpp", "dearmor-block"},
  Peer        |-> {"exists", "Metrics.hpp", "lastReceive"}]

\* A checkout of the application from before its fixes were committed.
OlderApp == [main |-> {"5-s", "3-sessions"}, posix |-> {"send-log", "recv-log"}]

-----------------------------------------------------------------------------
(* patch-libzt-switch.py                                                   *)
ConstantsUnixLike ==
  Section("Constants", <<Unless("UNIX_LIKE", Insert("ifdef-APPLE", "UNIX_LIKE"))>>)

UtilsStok == Section("UtilsH", <<Edit({"stok"}, {"Switch-stok"}, {"Switch-stok"})>>)

BinderNoInterfaces ==
  Section("Binder",
    <<Unless("ifaddrs-guarded", Wrap("ifaddrs.h", "ifaddrs-guarded")),
      OrDone("no-getifaddrs", Replace("getifaddrs-guard", "no-getifaddrs")),
      Unless("not-enumerated", Insert("interfacesEnumerated", "not-enumerated"))>>)

\* The include is wrapped again by every run.  The unlink block is looked for
\* as long as the file tests for a listening Unix socket, which it still does
\* after the edit.
PhyNoUnixSockets ==
  Section("Phy",
    <<OrDone("un.h-guarded", Wrap("un.h", "un.h-guarded")),
      OnlyIf("UNIX_LISTEN", Replace("unlink-block", "guarded-unlink"))>>)

UtilsNoProbes ==
  Section("UtilsCpp",
    <<OrDone("uio.h-guarded", Wrap("uio.h", "uio.h-guarded")),
      Unless("no-hwcaps", Wrap("getauxval", "no-hwcaps"))>>)

\* PortMapper.cpp goes out where it is first named; out of the upstream glob,
\* that spoils the exact text looked for four edits later.
CMakeNoMapper ==
  Section("CMake",
    <<Unless("globbed-PortMapper", IfFound(Edit({"listed-PortMapper"}, {"listed-PortMapper"}, {}))),
      IfFound(Edit({"globbed-PortMapper"}, {"globbed-PortMapper", "upstream-glob"}, {})),
      IfFound(Edit({"natpmp-objects"}, {"natpmp-objects"}, {})),
      IfFound(Wrap("MINIUPNPC-flag", "not-on-Switch")),
      OrDone("REMOVE_ITEM", Replace("upstream-glob", "REMOVE_ITEM")),
      OrDone("lwIP-port", Replace("lwIP-port-if-UNIX", "lwIP-port"))>>)

PortCc ==
  Finding({"exists"}, Section("cc", <<Unless("SSIZE_MAX", Edit({}, {}, {"SSIZE_MAX"}))>>))

CcWrapper == Section("ccWrapper", <<Edit({}, {"wrapper"}, {"wrapper"})>>)

Stdexcept(f) == Section(f, <<Unless("stdexcept", Edit({}, {}, {"stdexcept"}))>>)

PatchLibzt ==
  <<ConstantsUnixLike, UtilsStok, BinderNoInterfaces, PhyNoUnixSockets, UtilsNoProbes,
    CMakeNoMapper, PortCc, CcWrapper, Stdexcept("family"), Stdexcept("registry")>>

-----------------------------------------------------------------------------
(* patch-libzt-switch-bootstrap.py, which runs the script above in between *)
BootstrapCMake ==
  Section("CMake",
    <<OrDone("REMOVE_ITEM", Edit({"GLOB"}, {"upstream-glob", "globbed-PortMapper"},
                                 {"globbed-PortMapper", "listed-PortMapper", "REMOVE_ITEM"})),
      IfFound(Replace("lwIP-port-if-UNIX", "lwIP-port")),
      IfFound(Wrap("MINIUPNPC-flag", "not-on-Switch"))>>)

\* Mutant of BootstrapDriver: without the include.
BootstrapDriverNoInclude ==
  MayLack(Finding({"driver_init", "sys_thread_new("}, Marked("driver_init-entered",
    Section("VirtualTap",
      <<Replace("driver_init-start", "driver_init-entered"),
        Replace("plain-sys_thread_new", "sys_thread_new-result-shown")>>))))

BootstrapDriver ==
  MayLack(Finding({"driver_init", "sys_thread_new("}, Marked("driver_init-entered",
    Section("VirtualTap",
      <<Unless("switch.h", Insert("VirtualTap.hpp", "switch.h")),
        Replace("driver_init-start", "driver_init-entered"),
        Replace("plain-sys_thread_new", "sys_thread_new-result-shown")>>))))

BootstrapSysArch ==
  MayLack(Finding({"sys_thread_new(", "pthread_create"}, Marked("entering",
    Section("sys_arch",
      <<Unless("switch.h", Insert("errno.h", "switch.h")),
        Insert("function-start", "entering"),
        Replace("plain-create", "code-shown"),
        Replace("abort", "return-NULL")>>))))

PatchBootstrap == <<BootstrapCMake>> \o PatchLibzt \o <<BootstrapDriver, BootstrapSysArch>>

-----------------------------------------------------------------------------
(* patch-lwip-switch-thread.py                                             *)
LwipTimings == Section("main", <<IfFound(Replace("5-s", "3-s"))>>)

Switch_h(at) == Unless("switch.h", Unless("stdio.h+switch.h", IfFound(Insert(at, "stdio.h+switch.h"))))
Trace(label) == Unless(label, Edit({}, {}, {label}))

\* introduce_thread is written anew by every run, so its own traces are too.
LwipSysArch ==
  Finding({"sys_thread_new(", "pthread_create"}, Section("sys_arch",
    <<Edit({"introduce_thread"}, {"INTRO:ENTER", "32-slots"}, {"32-slots"}),
      Switch_h("pthread.h"),
      Need("sys_thread_new-begin"),
      Unless("STN:ENTER", Edit({}, {"function-start"}, {"STN:ENTER"})),
      Need("pthread_create(&tmp"),
      Unless("256-KB-stack", Edit({}, {"plain-create"}, {"256-KB-stack"})),
      Trace("STN:AFTER_PTHREAD_CREATE"),
      Unless("STN:BEFORE_INTRODUCE",
             Edit({"if-0==code", "st=introduce_thread"}, {}, {"STN:BEFORE_INTRODUCE"})),
      Unless("INTRO:ENTER", Insert("32-slots", "INTRO:ENTER"))>>))

wrap_first_call(fn, label) == Unless(label, Insert(fn, label))

LwipDriver ==
  Finding({"driver_loop"}, Section("VirtualTap",
    <<Need("driver_loop-begin"),
      Trace("DRIVER:ENTER"),
      wrap_first_call("sys_sem_new", "DRIVER:SEM_NEW"),
      wrap_first_call("tcpip_init", "DRIVER:TCPIP_INIT"),
      wrap_first_call("sys_sem_wait", "DRIVER:SEM_WAIT")>>))

LwipTcpip ==
  Finding({"tcpip_thread", "tcpip_init", "sys_thread_new"}, Section("tcpip",
    <<Switch_h("opt.h"),
      Need("tcpip_thread-begin"),
      Trace("TCPIP:THREAD_ENTER"),
      Need("tcpip_init-begin"),
      Trace("TCPIP:INIT_ENTER"),
      wrap_first_call("if-tcpip_init_done", "TCPIP:BEFORE_DONE"),
      wrap_first_call("tcpip_init_done(", "TCPIP:AFTER_DONE")>>))

LwipProbe == Section("sys_arch", <<wrap_first_call("thread_wrapper", "child-thread-alive")>>)

LwipClock ==
  MayLack(Finding({"exists"}, Marked("monotonic-now", Section("OSUtils",
    <<Replace("wall-clock-now", "monotonic-now"), Trace("switch.h-first")>>))))

LwipByteOrder ==
  MayLack(Finding({"ZT_INLINE"}, Marked("byte-order", Section("Constants",
    <<Insert("ZT_INLINE-block", "byte-order")>>))))

PatchLwip ==
  <<LwipTimings, LwipSysArch, LwipDriver, LwipTcpip, LwipProbe, LwipClock, LwipByteOrder>>

-----------------------------------------------------------------------------
(* patch-switch-phy.py and restore-zt-udp-checksum.py: both set noCheck    *)
PhyHandoff ==
  Finding({"exists"}, Section("NodeService",
    <<IfFound(Replace("noCheck-true", "noCheck-false")),
      Unless("NodeService-RX", Unless("stdio.h", IfFound(Insert("stdlib.h", "stdio.h")))),
      Unless("NodeService-RX", Insert("phyOnDatagram", "NodeService-RX"))>>))

PhyReceive ==
  Finding({"udpBind(", "recvfrom(", "phyOnDatagram"}, Marked("UDP-recv", Section("Phy",
    <<Unless("stdio.h", Insert("string.h", "stdio.h")),
      Insert("recvfrom-statement", "UDP-recv"),
      Insert("UDP-case", "UDP-select-readable")>>)))

PatchPhy == <<PhyHandoff, PhyReceive>>

RestoreChecksum ==
  <<Section("NodeService", <<OrDone("noCheck-true", Replace("noCheck-false", "noCheck-true"))>>)>>

-----------------------------------------------------------------------------
(* patch-zt-peer-info-struct.py, patch-zt-upstream-keepalive.py,           *)
(* patch-incoming-auth-trace.py, patch-runtime-hotpath.py                  *)
\* Mutant of PatchPeerInfo: does not look for its own result.
PatchPeerInfoUnmarked == <<Section("NodeService", <<Replace("memcpy", "field-copy")>>)>>

PatchPeerInfo == <<Marked("field-copy", Section("NodeService", <<Replace("memcpy", "field-copy")>>))>>

KeepaliveScale == Section("Node", <<Unless("scale-1", Replace("scale-16", "scale-1"))>>)

\* Only the ping period is checked at the end, not the two pinned constants.
KeepalivePeriods ==
  Finding({"ZT_PEER_PING_PERIOD"}, Section("Constants",
    <<IfFound(Replace("ping-60-s", "ping-10-s")),
      IfFound(Replace("expiration-4-pings", "expiration-243-s")),
      IfFound(Replace("trial-10-pings", "trial-600-s")),
      Need("ping-10-s")>>))

PatchKeepalive == <<KeepaliveScale, KeepalivePeriods>>

AuthFilesExist ==
  <<Finding({"exists"}, Section("Incoming", <<>>)), Finding({"exists"}, Section("Peer", <<>>))>>

add_stdio(at) == Unless("stdio.h", Insert(at, "stdio.h"))

\* Mutant of AuthIncoming: the trace is inserted again by every run.
AuthIncomingUnmarked ==
  Section("Incoming", <<add_stdio("Trace.hpp"), Insert("dearmor-block", "REJECT")>>)

AuthIncoming ==
  Section("Incoming", <<add_stdio("Trace.hpp"), Unless("REJECT", Insert("dearmor-block", "REJECT"))>>)

\* Mutant of AuthPeer: a missing anchor is not missed.
AuthPeerUnchecked ==
  Section("Peer", <<add_stdio("Metrics.hpp"),
                    Unless("PEER-RECEIVED", IfFound(Replace("lastReceive", "PEER-RECEIVED")))>>)

AuthPeer ==
  Section("Peer", <<add_stdio("Metrics.hpp"),
                    Unless("PEER-RECEIVED", Replace("lastReceive", "PEER-RECEIVED"))>>)

PatchAuthTrace == AuthFilesExist \o <<AuthIncoming, AuthPeer>>

\* Mutant of HotPathLogs: what was not found is not missed.
HotPathLogsUnchecked ==
  Section("posix", <<IfFound(Edit({"send-log", "recv-log"}, {"send-log", "recv-log"}, {"counters"}))>>)

HotPathLogs ==
  Section("posix", <<OrDone("counters", Edit({"send-log", "recv-log"}, {"send-log", "recv-log"},
                                             {"counters"}))>>)

HotPathSessions == Section("main", <<OrDone("16-sessions", Replace("3-sessions", "16-sessions"))>>)

PatchHotPath == <<HotPathLogs, HotPathSessions>>
=============================================================================
