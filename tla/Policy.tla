------------------------------- MODULE Policy -------------------------------
(***************************************************************************)
(* The configuration of the server and its decision about a stream:        *)
(* server/src/config.rs and server/src/stream.rs.                          *)
(*                                                                         *)
(* A host is text as in Packet, a pattern list is the set of hosts it      *)
(* matches, a list of port ranges a set of vectors, an address its octets  *)
(* or its segments.                                                        *)
(***************************************************************************)
EXTENDS Packet

CONSTANTS
  Literals,    \* hosts that are the text of an address -> that address
  DotWisp,     \* the last label of hosts behind a wispnet server
  WispnetIds   \* labels that decode to the id of a wispnet server

(* IpAddr: four octets or eight segments. *)
V4 == [1 .. 4 -> Byte]
V6 == [1 .. 8 -> U16]
Address == V4 \cup V6

ASSUME PolicyAssumption ==
  /\ DotWisp \in 0 .. 254 /\ WispnetIds \subseteq 0 .. 254
  /\ \A host \in DOMAIN Literals : Literals[host] \in Address

BadPattern == <<BadText>>
TwispType == 3
TypeName(p) == p.stream_type.name

-----------------------------------------------------------------------------
(* Configuration. *)

DefaultStream ==
  [allow_udp |-> TRUE, allow_wsproxy_udp |-> FALSE, allow_twisp |-> FALSE,
   allow_direct_ip |-> TRUE, allow_loopback |-> TRUE, allow_multicast |-> TRUE,
   allow_global |-> TRUE, allow_non_global |-> TRUE,
   allow_tcp_hosts |-> {}, block_tcp_hosts |-> {}, allow_udp_hosts |-> {},
   block_udp_hosts |-> {}, allow_hosts |-> {}, block_hosts |-> {},
   allow_ports |-> {}, block_ports |-> {}]

DefaultServer ==
  [bind |-> "tcp", transport |-> "websocket", tls_keypair |-> FALSE,
   stats_endpoint |-> "none", resolve_ipv6 |-> FALSE,
   allow_wsproxy |-> TRUE, prefix |-> <<>>, wisp_v2 |-> TRUE, extensions |-> {"udp", "motd"}]

DefaultConfig ==
  [f \in DOMAIN DefaultServer \cup DOMAIN DefaultStream |->
     IF f \in DOMAIN DefaultServer THEN DefaultServer[f] ELSE DefaultStream[f]]

(* What `new` sets, and the rest as in `old`. *)
Overlay(old, new) == [f \in DOMAIN old |-> IF f \in DOMAIN new THEN new[f] ELSE old[f]]

WasixDefaults ==
  Overlay(DefaultConfig,
    [bind |-> "tcp", transport |-> "websocket", allow_wsproxy |-> FALSE, prefix |-> <<>>,
     wisp_v2 |-> TRUE, extensions |-> {"motd"}, allow_udp |-> FALSE,
     allow_wsproxy_udp |-> FALSE, allow_direct_ip |-> FALSE, allow_loopback |-> FALSE,
     allow_multicast |-> FALSE, allow_global |-> TRUE, allow_non_global |-> FALSE,
     allow_ports |-> {<<80, 80>>, <<443, 443>>}])

(* EnvironmentConfig::apply_to: a variable that is set replaces the field. *)
ApplyTo(env, cfg) == Overlay(cfg, env)

(* parse_port_range of "a" or "a-b"; a text that is no number in u16 is -1.  *)
ParsePortRange(a, b) ==
  IF a \notin 0 .. 65535 \/ b \notin 0 .. 65535 \/ a > b THEN <<>> ELSE <<a, b>>

(* CONFIG_CACHE: every range has two ends and every pattern compiles, or the *)
(* server does not start.                                                    *)
CacheBuilds(cfg) ==
  /\ \A x \in cfg.allow_ports \cup cfg.block_ports : Len(x) >= 2
  /\ BadPattern \notin cfg.allow_hosts \cup cfg.block_hosts \cup cfg.allow_tcp_hosts
                     \cup cfg.block_tcp_hosts \cup cfg.allow_udp_hosts \cup cfg.block_udp_hosts

HasWispnet(cfg) == "wispnet" \in cfg.extensions

-----------------------------------------------------------------------------
(* Addresses. *)

Ipv4Shared(o) == o[1] = 100 /\ o[2] \div 64 = 1

Ipv4IsGlobal(o) ==
  ~ \/ o[1] = 0
    \/ o[1] = 10
    \/ o[1] = 172 /\ o[2] \div 16 = 1
    \/ o[1] = 192 /\ o[2] = 168
    \/ Ipv4Shared(o)
    \/ o[1] = 127
    \/ o[1] = 169 /\ o[2] = 254
    \/ o[1] = 192 /\ o[2] = 0 /\ o[3] = 0 /\ o[4] \notin {9, 10}
    \/ <<o[1], o[2], o[3]>> \in {<<192, 0, 2>>, <<198, 51, 100>>, <<203, 0, 113>>}
    \/ o[1] = 198 /\ o[2] \div 2 = 9
    \/ o[1] \div 16 = 15

(* The test for unique local addresses is written twice; the second time it *)
(* stands where a test for link-local ones is announced.                    *)
Ipv6IsGlobal(s) ==
  ~ \/ (\A i \in 1 .. 7 : s[i] = 0) /\ s[8] \in {0, 1}
    \/ (\A i \in 1 .. 5 : s[i] = 0) /\ s[6] = 65535
    \/ s[1] = 100 /\ s[2] = 65435 /\ s[3] = 1
    \/ s[1] = 256 /\ \A i \in 2 .. 4 : s[i] = 0
    \/ /\ s[1] = 8193 /\ s[2] < 512
       /\ ~ \/ s[2] = 1 /\ (\A i \in 3 .. 7 : s[i] = 0) /\ s[8] \in {1, 2}
            \/ s[2] = 3
            \/ s[2] = 4 /\ s[3] = 274
            \/ s[2] \in 32 .. 63
    \/ s[1] = 8194
    \/ s[1] = 8193 /\ s[2] = 3512
    \/ s[1] \div 512 = 126

IsV4(a) == Len(a) = 4
IsGlobal(a) == IF IsV4(a) THEN Ipv4IsGlobal(a) ELSE Ipv6IsGlobal(a)
IsLoopback(a) == IF IsV4(a) THEN a[1] = 127 ELSE a = <<0, 0, 0, 0, 0, 0, 0, 1>>
IsMulticast(a) == IF IsV4(a) THEN a[1] \div 16 = 14 ELSE a[1] \div 256 = 255

-----------------------------------------------------------------------------
(* ClientStream::resolve. *)

MatchAddr(host, allowed, blocked) == host \in blocked /\ host \notin allowed
AllowedSet(cfg, p) == IF TypeName(p) = "Tcp" THEN cfg.allow_tcp_hosts ELSE cfg.allow_udp_hosts
BlockedSet(cfg, p) == IF TypeName(p) = "Tcp" THEN cfg.block_tcp_hosts ELSE cfg.block_udp_hosts
InRanges(port, ranges) == \E x \in ranges : port \in x[1] .. x[2]

(* What is refused before the name is resolved ... *)
BlockedByRequest(cfg, p) ==
  \/ TypeName(p) = "Udp" /\ ~cfg.allow_udp
  \/ InRanges(p.port, cfg.block_ports) /\ ~InRanges(p.port, cfg.allow_ports)
  \/ p.host \in DOMAIN Literals /\ ~cfg.allow_direct_ip
  \/ MatchAddr(p.host, AllowedSet(cfg, p), BlockedSet(cfg, p))
  \/ MatchAddr(p.host, cfg.allow_hosts, cfg.block_hosts) /\ p.host \notin AllowedSet(cfg, p)

(* ... and what is refused for the address it resolved to. *)
BlockedByAddress(cfg, a) ==
  \/ IsLoopback(a) /\ ~cfg.allow_loopback
  \/ IsMulticast(a) /\ ~cfg.allow_multicast
  \/ IF IsGlobal(a) THEN ~cfg.allow_global ELSE ~cfg.allow_non_global

ToWispnet(cfg, p) == HasWispnet(cfg) /\ p.host # <<>> /\ p.host[Len(p.host)] = DotWisp

(* The part before the suffix decodes to the number of a wispnet server. *)
WispnetId(p) == Len(p.host) = 2 /\ p.host[1] \in WispnetIds

(* The name has to be resolved: everything else is decided before. *)
NeedsAddress(cfg, p) ==
  ~ToWispnet(cfg, p) /\ TypeName(p) # "Other" /\ ~BlockedByRequest(cfg, p)

(* The places of the addresses the server may use, and the first of them. *)
Usable(cfg, answer) == {i \in DOMAIN answer : cfg.resolve_ipv6 \/ IsV4(answer[i])}
FirstUsable(cfg, answer) ==
  answer[CHOOSE i \in Usable(cfg, answer) : \A j \in Usable(cfg, answer) : i <= j]

(* `answer` is what the resolver says: addresses in order, or that it failed. *)
Resolve(cfg, p, failed, answer) ==
  LET addr == FirstUsable(cfg, answer)
  IN IF ToWispnet(cfg, p) THEN IF WispnetId(p) THEN [is |-> "wispnet"] ELSE [is |-> "error"]
     ELSE IF TypeName(p) = "Other"
     THEN IF p.stream_type.byte = TwispType /\ cfg.allow_twisp /\ cfg.wisp_v2
          THEN [is |-> "command"] ELSE [is |-> "invalid"]
     ELSE IF BlockedByRequest(cfg, p) THEN [is |-> "blocked"]
     ELSE IF failed THEN [is |-> "error"]
     ELSE IF Usable(cfg, answer) = {} THEN [is |-> "noaddrs"]
     ELSE IF BlockedByAddress(cfg, addr) THEN [is |-> "blocked"]
     ELSE [is |-> "address", addr |-> addr]
=============================================================================
