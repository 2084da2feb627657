----------------------------- MODULE Admission ------------------------------
(***************************************************************************)
(* The way of one client into the server, from the server's start to an    *)
(* open destination or a refusal: main.rs, listener.rs, route.rs,          *)
(* upgrade.rs, stream.rs and the packets on the wire.  The multiplexor in  *)
(* between is left out: it is the subject of Mux and Handshake.            *)
(***************************************************************************)
EXTENDS Policy, SequencesExt

CONSTANTS
  Files,        \* what configuration files set
  Envs,         \* what the environment sets
  Paths,        \* paths of requests, as sequences of "/" and names
  Targets,      \* what the last part of a wsproxy path names: host and port
  Infos,        \* INFO packets clients send
  Builders,     \* ids of extensions the server has a builder for
  Packets,      \* packets clients send once they are connected
  Answers,      \* what a name may resolve to: sequences of addresses
  MaxBusy       \* bound: clients that could not be accepted

ASSUME AdmissionAssumption ==
  /\ \A f \in Files \cup Envs : "prefix" \in DOMAIN f => f.prefix \in Seq(STRING)
  /\ Packets \subseteq PacketValues /\ \A p \in Infos : p.type = "info"
  /\ Answers \subseteq Seq(Address)

Nothing == [type |-> "nothing"]

VARIABLES
  phase,   \* where the client has got to
  cfg,     \* CONFIG
  busy,    \* clients the listener could not accept
  resp,    \* the answer to the last HTTP request
  shown,   \* the endpoint the index page shows
  asked,   \* the CONNECT packet under decision
  sent, wire, got,  \* a packet, its bytes on the wire, what they were read as
  answer,  \* what the resolver said
  result,  \* what resolve said, and the address of the socket that was opened
  told     \* what the client was told about its stream

vars == <<phase, cfg, busy, resp, shown, asked, sent, wire, got, answer, result, told>>
wireVars == <<sent, wire, got>>

Init ==
  /\ phase = "off" /\ cfg = DefaultConfig /\ busy = 0 /\ resp = "none" /\ shown = <<>>
  /\ asked = Nothing /\ sent = Nothing /\ wire = <<>> /\ got = Nothing
  /\ answer = <<>> /\ result = [is |-> "none"] /\ told = "none"

-----------------------------------------------------------------------------
(* Start of the server, and its listener. *)

(* A file, the defaults, or the defaults of the WASIX package; the          *)
(* environment on top.  validate_config_cache panics before anything is     *)
(* bound if the configuration cannot be used.                               *)
Boot ==
  /\ phase = "off"
  /\ \E base \in {DefaultConfig, WasixDefaults} \cup {Overlay(DefaultConfig, f) : f \in Files},
        env \in Envs :
       /\ cfg' = ApplyTo(env, base)
       /\ phase' = IF CacheBuilds(cfg') THEN "bind" ELSE "panic"
  /\ UNCHANGED <<busy, resp, shown, asked, wireVars, answer, result, told>>

WithTls(c) == c.bind \in {"tlstcp", "tlsunix"}

(* ServerListener::new: an address that is in use, or TLS without a keypair. *)
Bind ==
  /\ phase = "bind"
  /\ \E ok \in BOOLEAN :
       phase' = IF ok /\ (WithTls(cfg) => cfg.tls_keypair) THEN "listen" ELSE "failed"
  /\ UNCHANGED <<cfg, busy, resp, shown, asked, wireVars, answer, result, told>>

(* A client that cannot be accepted, one whose TLS handshake fails for       *)
(* instance, is logged and the loop goes on; a file is opened only once.    *)
AcceptFails ==
  /\ phase = "listen" /\ busy < MaxBusy
  /\ busy' = busy + 1
  /\ phase' = IF cfg.bind = "file" THEN "pending" ELSE phase
  /\ UNCHANGED <<cfg, resp, shown, asked, wireVars, answer, result, told>>

(* A wisp client whose connection offers v2 is asked for INFO if the server  *)
(* speaks v2; with any other the multiplexor is of v1 and reads packets.     *)
Begin(offersV2) == IF offersV2 /\ cfg.wisp_v2 THEN "info" ELSE "wisp"

(* route: HTTP, or frames with their length, which are a wisp client. *)
Accept ==
  /\ phase = "listen"
  /\ phase' = IF cfg.transport = "websocket" THEN "http" ELSE Begin(TRUE)
  /\ UNCHANGED <<cfg, busy, resp, shown, asked, wireVars, answer, result, told>>

-----------------------------------------------------------------------------
(* HTTP requests. *)

Requests ==
  [connection : {{"keep-alive"}, {"keep-alive", "upgrade"}}, upgrade : {{}, {"websocket"}},
   key : BOOLEAN, version13 : BOOLEAN, protocol : BOOLEAN, path : Paths, query : {"none", "net", "udp"}]

IsUpgradeRequest(req) == "upgrade" \in req.connection /\ "websocket" \in req.upgrade

(* upgrade() fails without a key or with another version. *)
Upgradable(req) == req.key /\ req.version13

(* websocket_url: the prefix without its trailing slashes, with one in front *)
(* and one behind.                                                           *)
\* Mutant: the endpoint is shown without the slash behind it.
EndpointOpen(c) ==
  LET cut == {n \in 0 .. Len(c.prefix) : \A i \in n + 1 .. Len(c.prefix) : c.prefix[i] = "/"}
      prefix == SubSeq(c.prefix, 1, CHOOSE n \in cut : \A x \in cut : n <= x)
  IN IF prefix = <<>> THEN <<"/">>
     ELSE (IF prefix[1] = "/" THEN <<>> ELSE <<"/">>) \o prefix

Endpoint(c) ==
  LET cut == {n \in 0 .. Len(c.prefix) : \A i \in n + 1 .. Len(c.prefix) : c.prefix[i] = "/"}
      prefix == SubSeq(c.prefix, 1, CHOOSE n \in cut : \A x \in cut : n <= x)
  IN IF prefix = <<>> THEN <<"/">>
     ELSE (IF prefix[1] = "/" THEN <<>> ELSE <<"/">>) \o prefix \o <<"/">>

(* non_ws_resp: the index page, or the configured text. *)
NonWs(req) ==
  /\ resp' = IF req.path = <<"/">> THEN "index" ELSE "text"
  /\ shown' = IF req.path = <<"/">> THEN Endpoint(cfg) ELSE shown

RouteOf(c, path, query) ==
  IF IsSuffix(c.prefix \o <<"/">>, path)
  THEN IF HasWispnet(c) /\ query = "net" THEN "wispnet" ELSE "wisp"
  ELSE IF c.allow_wsproxy THEN "wsproxy" ELSE "none"

(* A connection is kept for further requests until one of them upgrades it. *)
Plain ==
  /\ phase = "http"
  /\ \E req \in Requests :
       /\ ~IsUpgradeRequest(req)
       /\ IF cfg.stats_endpoint = "same" /\ req.path = <<"/", "stats">>
          THEN resp' = "stats" /\ UNCHANGED shown
          ELSE NonWs(req)
  /\ UNCHANGED <<phase, cfg, busy, asked, wireVars, answer, result, told>>

BadUpgrade ==
  /\ phase = "http"
  /\ \E req \in Requests : IsUpgradeRequest(req) /\ ~Upgradable(req)
  /\ phase' = "closed" /\ resp' = "none"
  /\ UNCHANGED <<cfg, busy, shown, asked, wireVars, answer, result, told>>

(* An upgrade to nothing that is served gets the answer of a plain request. *)
Unserved ==
  /\ phase = "http"
  /\ \E req \in Requests :
       /\ IsUpgradeRequest(req) /\ Upgradable(req) /\ RouteOf(cfg, req.path, req.query) = "none"
       /\ NonWs(req)
  /\ UNCHANGED <<phase, cfg, busy, asked, wireVars, answer, result, told>>

(* Switching protocols; the header that names the client's address only     *)
(* becomes part of its name.  The protocol header offers v2.                *)
Upgrade ==
  /\ phase = "http"
  /\ \E req \in Requests, t \in Targets :
       LET to == RouteOf(cfg, req.path, req.query)
           udp == req.query = "udp"
           type == Named(StreamTypes, IF udp THEN "Udp" ELSE "Tcp")
       IN /\ IsUpgradeRequest(req) /\ Upgradable(req) /\ to # "none"
          /\ phase' = CASE to = "wisp" -> Begin(req.protocol)
                        [] to = "wispnet" -> "wispnet"
                        [] to = "wsproxy" /\ ((udp /\ ~cfg.allow_wsproxy_udp) \/ t.port < 0) -> "closed"
                        [] OTHER -> "resolve"
          /\ asked' = IF phase' = "resolve"
                      THEN [type |-> "wsproxy", stream_type |-> type, port |-> t.port, host |-> t.host]
                      ELSE Nothing
          /\ told' = IF to = "wsproxy" /\ phase' = "closed" THEN "policy violation" ELSE told
  /\ resp' = "101"
  /\ UNCHANGED <<cfg, busy, shown, wireVars, answer, result>>

-----------------------------------------------------------------------------
(* Frames from the client. *)

(* The client sends a packet, or a part of one. *)
ClientSends ==
  /\ phase \in {"info", "wisp"}
  /\ \E p \in IF phase = "info" THEN Infos ELSE Packets :
       LET bytes == IF phase = "info" THEN EncodeInfo(p) ELSE Encode(p)
       IN \E n \in 0 .. Len(bytes) : sent' = p /\ wire' = SubSeq(bytes, 1, n)
  /\ got' = Nothing
  /\ phase' = IF phase = "info" THEN "read info" ELSE "read"
  /\ UNCHANGED <<cfg, busy, resp, shown, asked, answer, result, told>>

(* The server's handshake reads INFO; an error ends the connection. *)
ReadInfo ==
  /\ phase = "read info"
  /\ got' = DecodeMaybeInfo(wire, Builders)
  /\ phase' = IF got'.type = "error" THEN "closed" ELSE "checked"
  /\ UNCHANGED <<cfg, busy, resp, shown, asked, sent, wire, answer, result, told>>

(* The actor reads a packet; none of its extensions handles packets here.    *)
ReadPacket ==
  /\ phase = "read"
  /\ got' = DecodeMaybeExtension(wire, {})
  /\ phase' = CASE got'.type = "error" -> "closed"
                [] got'.type = "connect" -> "resolve"
                [] OTHER -> "checked"
  /\ asked' = IF got'.type = "connect" THEN got' ELSE asked
  /\ UNCHANGED <<cfg, busy, resp, shown, sent, wire, answer, result, told>>

Checked ==
  /\ phase = "checked"
  /\ phase' = "wisp" /\ sent' = Nothing /\ wire' = <<>> /\ got' = Nothing
  /\ UNCHANGED <<cfg, busy, resp, shown, asked, answer, result, told>>

-----------------------------------------------------------------------------
(* resolve_stream, or the same steps in handle_wsproxy. *)

\* Mutant: a policy decision is reported like a host that is down.
ReasonUnreachable(is) ==
  IF is = "invalid" THEN "ServerStreamInvalidInfo" ELSE "ServerStreamUnreachable"

ReasonFor(is) ==
  CASE is \in {"error", "noaddrs"} -> "ServerStreamUnreachable"
    [] is = "blocked" -> "ServerStreamBlockedAddress"
    [] is = "invalid" -> "ServerStreamInvalidInfo"

(* The stream is closed with a reason; handle_wsproxy closes its websocket. *)
Refuse(is) ==
  IF asked.type = "connect"
  THEN /\ wire' = Encode([type |-> "close", id |-> asked.id,
                          reason |-> Named(CloseReasons, ReasonFor(is))])
       /\ phase' = "refused" /\ UNCHANGED told
  ELSE /\ told' = IF is \in {"blocked", "invalid"} THEN "policy violation" ELSE "internal error"
       /\ phase' = "closed" /\ UNCHANGED wire

AnswersFor(host) == IF host \in DOMAIN Literals THEN {<<Literals[host]>>} ELSE Answers

Resolving ==
  /\ phase = "resolve"
  /\ \E failed \in IF NeedsAddress(cfg, asked) THEN BOOLEAN ELSE {FALSE} :
       /\ answer' \in IF NeedsAddress(cfg, asked) /\ ~failed THEN AnswersFor(asked.host) ELSE {<<>>}
       /\ result' = Resolve(cfg, asked, failed, answer')
       /\ IF result'.is \in {"address", "command", "wispnet"}
          THEN phase' = "connect" /\ UNCHANGED <<told, wire>>
          ELSE Refuse(result'.is)
  /\ sent' = Nothing /\ got' = Nothing
  /\ UNCHANGED <<cfg, busy, resp, shown, asked>>

\* Mutant: the name is resolved a second time to connect to it.
ConnectByName ==
  /\ phase = "connect"
  /\ phase' = "open" /\ \E a \in Answers :
       result' = IF result.is = "address" /\ a # <<>> THEN [result EXCEPT !.addr = a[1]] ELSE result
  /\ UNCHANGED <<cfg, busy, resp, shown, asked, wireVars, answer, told>>

(* ClientStream::connect takes the address it is given; route_wispnet asks   *)
(* another multiplexor.                                                      *)
Connect ==
  /\ phase = "connect"
  /\ phase' = "open"
  /\ UNCHANGED <<cfg, busy, resp, shown, asked, wireVars, answer, result, told>>

(* A command line with no word in it has no first word to run. *)
ConnectFails ==
  /\ phase = "connect"
  /\ IF result.is = "command" /\ asked.host = <<>>
     THEN phase' = "task panic" /\ UNCHANGED <<told, wire>>
     ELSE Refuse("error")
  /\ UNCHANGED <<cfg, busy, resp, shown, asked, sent, got, answer, result>>

ClientReads ==
  /\ phase = "refused"
  /\ LET p == Decode(wire) IN told' = IF p.type = "close" /\ p.id = asked.id THEN p.reason.name ELSE "lost"
  /\ phase' = "told"
  /\ UNCHANGED <<cfg, busy, resp, shown, asked, wireVars, answer, result>>

Next ==
  \/ Boot \/ Bind \/ AcceptFails \/ Accept
  \/ Plain \/ BadUpgrade \/ Unserved \/ Upgrade
  \/ ClientSends \/ ReadInfo \/ ReadPacket \/ Checked
  \/ Resolving \/ Connect \/ ConnectFails \/ ClientReads

Spec == Init /\ [][Next]_vars

-----------------------------------------------------------------------------
(* What the operator of a server means, said without masks and early        *)
(* returns: a table of networks, and one condition for each switch.         *)

Net(net, len) == [net |-> net, len |-> len]
InNet(a, n) ==
  /\ Len(a) = Len(n.net)
  /\ LET w == IF Len(a) = 4 THEN 8 ELSE 16
     IN \A i \in 1 .. Len(a) :
          LET fixed == n.len - (i - 1) * w
              free == IF fixed >= w THEN 0 ELSE IF fixed <= 0 THEN w ELSE w - fixed
          IN a[i] \div 2^free = n.net[i] \div 2^free

(* Special-purpose networks that are not globally reachable, and the parts  *)
(* of them that are.                                                        *)
NotGlobal4 ==
  {Net(<<0,0,0,0>>, 8), Net(<<10,0,0,0>>, 8), Net(<<100,64,0,0>>, 10), Net(<<127,0,0,0>>, 8),
   Net(<<169,254,0,0>>, 16), Net(<<172,16,0,0>>, 12), Net(<<192,0,0,0>>, 24), Net(<<192,0,2,0>>, 24),
   Net(<<192,168,0,0>>, 16), Net(<<198,18,0,0>>, 15), Net(<<198,51,100,0>>, 24),
   Net(<<203,0,113,0>>, 24), Net(<<240,0,0,0>>, 4)}
LinkLocal6 == Net(<<65152,0,0,0,0,0,0,0>>, 10)
NotGlobal6 ==
  {LinkLocal6, Net(<<0,0,0,0,0,0,0,0>>, 127), Net(<<0,0,0,0,0,65535,0,0>>, 96),
   Net(<<100,65435,1,0,0,0,0,0>>, 48),
   Net(<<256,0,0,0,0,0,0,0>>, 64), Net(<<8193,0,0,0,0,0,0,0>>, 23), Net(<<8193,3512,0,0,0,0,0,0>>, 32),
   Net(<<8194,0,0,0,0,0,0,0>>, 16), Net(<<64512,0,0,0,0,0,0,0>>, 7)}
GlobalParts4 == {Net(<<192,0,0,9>>, 32), Net(<<192,0,0,10>>, 32)}
GlobalParts6 ==
  {Net(<<8193,1,0,0,0,0,0,1>>, 128), Net(<<8193,1,0,0,0,0,0,2>>, 128), Net(<<8193,3,0,0,0,0,0,0>>, 32),
   Net(<<8193,4,274,0,0,0,0,0>>, 48), Net(<<8193,32,0,0,0,0,0,0>>, 28), Net(<<8193,48,0,0,0,0,0,0>>, 28)}
Reachable(a) ==
  (\E n \in NotGlobal4 \cup NotGlobal6 : InNet(a, n)) => \E n \in GlobalParts4 \cup GlobalParts6 : InNet(a, n)

(* The request itself is one the operator permits ... *)
RequestPermitted(c, p) ==
  LET udp == TypeName(p) = "Udp"
      mine == IF udp THEN c.allow_udp_hosts ELSE c.allow_tcp_hosts
      banned == IF udp THEN c.block_udp_hosts ELSE c.block_tcp_hosts
  IN /\ udp => c.allow_udp
     /\ p.host \in DOMAIN Literals => c.allow_direct_ip
     /\ \A x \in c.block_ports : p.port \in x[1] .. x[2] => \E y \in c.allow_ports : p.port \in y[1] .. y[2]
     /\ p.host \in mine \/ (p.host \notin banned /\ (p.host \in c.block_hosts => p.host \in c.allow_hosts))

(* ... and so is the address. *)
AddressPermitted(c, a) ==
  /\ Len(a) = 8 => c.resolve_ipv6
  /\ InNet(a, Net(<<127,0,0,0>>, 8)) \/ InNet(a, Net(<<0,0,0,0,0,0,0,1>>, 128)) => c.allow_loopback
  /\ InNet(a, Net(<<224,0,0,0>>, 4)) \/ InNet(a, Net(<<65280,0,0,0,0,0,0,0>>, 8)) => c.allow_multicast
  /\ IF Reachable(a) THEN c.allow_global ELSE c.allow_non_global

(* IPv6 link-local addresses: the test announced for them repeats the one   *)
(* for unique local addresses (stream.rs:103-105), so that the server takes *)
(* them for global.                                                         *)
LinkLocal(a) == InNet(a, LinkLocal6)

(* A socket is opened only to an address that the operator permits, for a   *)
(* request he permits, and it is the address that was looked at: connect    *)
(* does not resolve the name again (stream.rs:183-232).  The exception is a *)
(* link-local IPv6 address, which is let through with the global ones.      *)
AdmittedIsPermitted ==
  phase = "open" /\ result.is = "address" =>
    /\ RequestPermitted(cfg, asked)
    /\ \/ AddressPermitted(cfg, result.addr)
       \/ LinkLocal(result.addr) /\ cfg.resolve_ipv6 /\ cfg.allow_global

(* What "addr.is_unicast_link_local()" announces in ipv6_is_global          *)
(* (stream.rs:105): a link-local address is not a global one, and an        *)
(* operator who allows only global addresses gets no socket to it.          *)
LinkLocalIsNotGlobal ==
  phase = "open" /\ result.is = "address" /\ LinkLocal(result.addr) => cfg.allow_non_global

(* The address of the answer that decides: the first the server would use.  *)
Decisive(c, ans, i) ==
  /\ Len(ans[i]) = 8 => c.resolve_ipv6
  /\ \A j \in 1 .. i - 1 : Len(ans[j]) = 8 /\ ~c.resolve_ipv6
Forbids(c, p, ans) ==
  \/ ~RequestPermitted(c, p)
  \/ \E i \in DOMAIN ans : Decisive(c, ans, i) /\ ~AddressPermitted(c, ans[i])

(* A link-local address decides, and the operator allows only global        *)
(* addresses, or only others.                                               *)
Misjudged(c, ans) ==
  /\ c.allow_global # c.allow_non_global
  /\ \E i \in DOMAIN ans : Decisive(c, ans, i) /\ LinkLocal(ans[i])

(* The reason a client is told is the true one: "blocked" if and only if    *)
(* the operator forbids the request, or the address that is the first of    *)
(* those the server would use, unless that one is misjudged; "invalid" if   *)
(* and only if the stream type is not served (handle/wisp/mod.rs:84-119,    *)
(* packet.rs:125-141).                                                      *)
RefusalExplained ==
  phase = "told" =>
    /\ told \in {"ServerStreamBlockedAddress", "ServerStreamInvalidInfo", "ServerStreamUnreachable"}
    /\ ~Misjudged(cfg, answer) =>
         (told = "ServerStreamBlockedAddress" <=>
            ~ToWispnet(cfg, asked) /\ TypeName(asked) # "Other" /\ Forbids(cfg, asked, answer))
    /\ told = "ServerStreamInvalidInfo" <=>
         /\ ~ToWispnet(cfg, asked) /\ TypeName(asked) = "Other"
         /\ asked.stream_type.byte = TwispType => ~cfg.allow_twisp \/ ~cfg.wisp_v2

(* Who opens a websocket at the endpoint that the index page shows is       *)
(* served as a wisp client, for every prefix that keeps to the rule of      *)
(* config.rs:169 (route.rs:116 and :346).                                   *)
AdvertisedEndpointServes ==
  shown # <<>> /\ (cfg.prefix # <<>> => cfg.prefix[Len(cfg.prefix)] # "/")
    => RouteOf(cfg, shown, "none") = "wisp"

(* A packet is read as what was sent, with all its numbers, and a piece of  *)
(* one is refused, or read as the same packet with less text or data; an    *)
(* INFO yields the extensions the server knows, in order, each with its own *)
(* payload (packet.rs:265-323 and :452-480).                                *)
DecodedAsSent ==
  got # Nothing /\ sent # Nothing =>
    IF sent.type = "info"
    THEN LET known == SelectSeq(sent.extensions, LAMBDA e : e.id \in Builders)
         IN IF wire = EncodeInfo(sent)
            THEN got = [sent EXCEPT !.extensions = known]
            ELSE got.type = "error" \/ (got.type = "info" /\ IsPrefix(got.extensions, known))
    ELSE IF wire = Encode(sent) THEN got = sent
    ELSE got.type = "error"
         \/ (got.type = sent.type /\ got.id = sent.id /\ sent.type \in {"data", "connect"})
=============================================================================
