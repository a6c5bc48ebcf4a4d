----------------------------- MODULE LdnPatches -----------------------------
(***************************************************************************)
(* The scripts that edit the ldn_mitm sources: anchor_check_defender.py,   *)
(* patch-ldn-zt.py, which links the real libzt, and the step of            *)
(* build-ldn.yml that puts stubs in its place.                             *)
(***************************************************************************)
EXTENDS PatchText

\* The passages of ldn_mitm that are looked for.  Where patch-ldn-zt.py looks for
\* more than anchor_check_defender.py (the whole statement, its indentation, the
\* braces of a function) there are two: the part, and the whole as "...-line" or
\* "...-def".
LdnUpstream == [
  checkout     |-> {"ldn_mitm-pin", "Atmosphere-pin", "libzt-pin", "ZeroTierSockets.h", "libzt.a"},
  bridgeHpp    |-> {},
  bridgeCpp    |-> {},
  errnoCompat  |-> {},
  stubs        |-> {},
  ldnmitm_main |-> {"log::Initialize", "main", "log-main-block", "RegisterMitmServer",
                    "registered", "register-block", "128_KB-heap"},
  lan_protocol |-> {"stratosphere.hpp", "Pollable::Poll", "pfds[nfds]", "rc=poll", "poll-loop",
                    "pfd=pfds[i]", "POLLERR", "POLLIN", "LanSocket::close", "::close",
                    "::close-line", "recvfrom", "recvfrom-line", "sendto", "sendto-line",
                    "addr_len", "recvfrom-addr", "sendto-addr", "sendto-addr-line"},
  lan_discovery |-> {"ipinfo.hpp", "onRead", "accept", "accept-block", "close(new_fd)-1",
                     "close(new_fd)-2", "getBroadcast", "getBroadcast-def", "ip-config",
                     "ip-config-call", "setSocketOpts", "setSocketOpts-def", "tcp-socket",
                     "tcp-socket-line", "bind-1", "bind-1-line", "bind-2", "bind-2-line",
                     "listen", "listen-line", "udp-socket", "udp-socket-line", "connect",
                     "connect-line", "local-ip", "local-ip-block", "mac-ip", "mac-ip-block"},
  ldn_icommunication |-> {"arpa/inet.h", "Initialize", "lanDiscovery.initialize",
                          "lanDiscovery.initialize-line", "GetIpv4Address",
                          "GetIpv4Address-def", "ip-config-info"},
  Makefile     |-> {"VERSION_DEFINES"}]

\* patch-ldn-zt.py writes the file back after every single edit.
EachWritten(file, edits) == [i \in DOMAIN edits |-> Section(file, <<edits[i]>>)]

Copy(file) == Section(file, <<Edit({}, {"copy"}, {"copy"})>>)
replace(old, new) == Replace(old, new)
replace_line(line, part, new) == Edit({line}, {line, part}, {new})
replace_all(olds, parts, new) == Edit(olds, olds \cup parts, {new})
replace_function(def, body, new) == Edit({def}, body \cup {new}, {new})

-----------------------------------------------------------------------------
LdnPreconditions ==
  <<Section("checkout", <<Need("ldn_mitm-pin"), Need("libzt-pin"),
                          Need("ZeroTierSockets.h"), Need("libzt.a")>>)>>

LdnCopies ==
  <<Copy("bridgeHpp"), Copy("bridgeCpp"), Copy("errnoCompat"),
    Section("stubs", <<Edit({}, {"copy"}, {})>>)>>

LdnMain ==
  EachWritten("ldnmitm_main",
    <<Edit({"log-main-block"}, {"log-main-block", "main"}, {"LDN-ZT:Main-entered"}),
      Edit({"register-block"}, {"register-block", "registered"}, {"LDN-ZT:mitm-registered"}),
      replace("128_KB-heap", "1_MB-heap")>>)

LdnProtocol ==
  EachWritten("lan_protocol",
    <<Insert("stratosphere.hpp", "zt_bridge.hpp"),
      Edit({"poll-loop"}, {"poll-loop", "pfds[nfds]", "rc=poll"}, {"ztbridge::poll"}),
      replace("pfd=pfds[i]", "ztbridge::PollFd"),
      replace("POLLERR", "ZT_POLLERR"),
      replace("POLLIN", "ZT_POLLIN"),
      replace("::close-line", "ztbridge::close"),    \* which holds "::close" still
      replace_line("recvfrom-line", "recvfrom", "ztbridge::recv"),
      replace_line("sendto-line", "sendto", "ztbridge::send"),
      Edit({"recvfrom-addr"}, {"recvfrom-addr", "addr_len"}, {"ztbridge::recv"}),
      replace_line("sendto-addr-line", "sendto-addr", "ztbridge::sendto")>>)

LdnDiscovery ==
  EachWritten("lan_discovery",
    <<Insert("ipinfo.hpp", "zt_bridge.hpp"),
      Edit({"accept-block"}, {"accept-block", "accept"}, {"ztbridge::accept"}),
      replace_all({"close(new_fd)-1", "close(new_fd)-2"}, {}, "ztbridge::close"),
      replace_function("getBroadcast-def", {"ip-config", "ip-config-call"}, "peer_ip_host_order"),
      replace_function("setSocketOpts-def", {}, "no-options"),
      replace_line("tcp-socket-line", "tcp-socket", "ztbridge::socket"),
      replace_all({"bind-1-line", "bind-2-line"}, {"bind-1", "bind-2"}, "ztbridge::bind"),
      replace_line("listen-line", "listen", "ztbridge::listen"),
      replace_line("udp-socket-line", "udp-socket", "ztbridge::socket"),
      replace_line("connect-line", "connect", "ztbridge::connect"),
      Edit({"local-ip-block"}, {"local-ip-block", "local-ip"}, {"local_ip_host_order"}),
      Edit({"mac-ip-block"}, {"mac-ip-block", "mac-ip"}, {"local_ip_host_order"})>>)

LdnService ==
  EachWritten("ldn_icommunication",
    <<Insert("arpa/inet.h", "zt_bridge.hpp"),
      Insert("lanDiscovery.initialize-line", "ztbridge::init"),
      replace_function("GetIpv4Address-def", {"ip-config-info"}, "local_ip_host_order")>>)

\* The one edit without a check of its own; the checks come after all writes.
LdnMakefile ==
  <<Section("Makefile", <<IfFound(Insert("VERSION_DEFINES", "-lzt"))>>),
    Section("stubs", <<Refuse("copy")>>),
    Section("Makefile", <<Need("-lzt")>>)>>

\* Mutant of PatchLdn: the Makefile is edited before the sources.
PatchLdnMakefileFirst ==
  LdnPreconditions \o LdnCopies \o LdnMakefile \o LdnMain \o LdnProtocol \o LdnDiscovery
    \o LdnService

PatchLdn ==
  LdnPreconditions \o LdnCopies \o LdnMain \o LdnProtocol \o LdnDiscovery \o LdnService
    \o LdnMakefile

-----------------------------------------------------------------------------
(* anchor_check_defender.py looks and writes nothing.                      *)
ANCHORS == [
  lan_protocol |-> {"Pollable::Poll", "pfds[nfds]", "rc=poll", "LanSocket::close", "::close",
                    "recvfrom", "sendto", "addr_len", "sendto-addr"},
  lan_discovery |-> {"onRead", "accept", "getBroadcast", "setSocketOpts", "tcp-socket", "bind-1",
                     "bind-2", "listen", "udp-socket", "connect", "local-ip", "mac-ip",
                     "ip-config", "ip-config-call"},
  ldn_icommunication |-> {"Initialize", "lanDiscovery.initialize", "GetIpv4Address",
                          "ip-config-info"},
  ldnmitm_main |-> {"log::Initialize", "main", "RegisterMitmServer", "registered"}]

AllOf(file) == Section(file, <<Edit(ANCHORS[file], {}, {})>>)

\* Mutant of AnchorCheck: ldnmitm_main.cpp is left out.
AnchorCheckNoMain == <<AllOf("lan_protocol"), AllOf("lan_discovery"), AllOf("ldn_icommunication")>>

AnchorCheck ==
  <<AllOf("lan_protocol"), AllOf("lan_discovery"), AllOf("ldn_icommunication"),
    AllOf("ldnmitm_main")>>

\* The boot-safe stubs of build-ldn.yml.  Under "set -e" a failing "! test" in
\* the middle of the step does not end it, so only the last check counts.
StubStep ==
  <<Section("checkout", <<Need("ldn_mitm-pin"), Need("Atmosphere-pin")>>)>> \o AnchorCheck \o
  <<Copy("bridgeHpp"), Copy("stubs"),
    Section("ldn_icommunication",
      <<IfFound(Insert("arpa/inet.h", "zt_bridge.hpp")),
        Insert("lanDiscovery.initialize-line", "ztbridge::init")>>),
    Section("Makefile", <<Refuse("-lzt")>>)>>
=============================================================================
