----------------------------- MODULE Handshake -----------------------------
(***************************************************************************)
(* How the two ends of a new connection agree on a Wisp version, on        *)
(* protocol extensions and on the buffer size: wisp/src/mux/{mod,client,   *)
(* server}.rs with the extension builders of wisp/src/extensions/.  A side *)
(* is a call of Multiplexor::new followed by with_required_extensions.     *)
(* The eager client stands for other implementations of Wisp v1, which may *)
(* ignore INFO and send their first CONNECT without waiting.               *)
(***************************************************************************)
EXTENDS Naturals, Sequences, FiniteSets

CONSTANTS
  Udp,                 \* the extension that every v1 connection has
  Plain,               \* extensions whose builders never refuse (udp, motd)
  Password,            \* extensions built like password.rs
  Cert,                \* extensions built like cert.rs: the offer is a challenge
  ServerMiddleware,    \* what the closures of WispV2Handshake may do:
  ClientMiddleware,    \* "keep", "creds", "fail", "remove"
  Lingering,           \* sides that may be on the browser's transport
  BufferSize,          \* the server's buffer_size
  MaxRequired,         \* bound: extensions that are required
  MaxEager             \* bound: packets an eager client sends

ASSUME HandshakeAssumption ==
  /\ Udp \in Plain
  /\ Plain \cap (Password \cup Cert) = {} /\ Password \cap Cert = {}
  /\ ServerMiddleware \subseteq {"keep", "fail", "remove"}
  /\ ClientMiddleware \subseteq {"keep", "creds", "fail", "remove"}
  /\ Lingering \subseteq {"client", "server"}
  /\ BufferSize \in Nat /\ MaxRequired \in Nat /\ MaxEager \in Nat

VARIABLES
  cfg,      \* how the two sides were set up; never changes
  st,       \* how far each side is
  builder,  \* builders each side holds, with their phases
  creds,    \* the client's credentials, as the server will judge them
  mw,       \* what each side's middleware did
  wire,     \* packets each side sent that the other has not read
  eof,      \* sides that closed or dropped the transport
  result,   \* WispHandshakeResult of each side
  sent,     \* packets an eager client sent
  handled   \* stream packets that reached the server's actor

vars == <<cfg, st, builder, creds, mw, wire, eof, result, sent, handled>>

Auth == Password \cup Cert
Exts == Plain \cup Auth
Side == {"client", "server"}
Peer(s) == IF s = "client" THEN "server" ELSE "client"

Packet == [type : {"info"}, exts : SUBSET Exts, creds : {"none", "good", "bad"}]
            \cup [type : {"continue"}, buffer : {BufferSize}]
            \cup [type : {"close", "connect", "data"}]
NoResult == [version |-> 0, exts |-> {}, buffer |-> 0, downgraded |-> FALSE, packet |-> <<>>]

(* The kinds of client and server: "v1" if wisp_v2 is None, "v2" otherwise. *)
(* Settings that a kind does not use have one value only.  A side that      *)
(* lingers is on a transport like the browser's: the socket is closed by    *)
(* poll_close alone, which never completes, and not by dropping its halves. *)
Config ==
  {c \in [client : {"v1", "v2", "eager"}, server : {"v1", "v2"},
          wants : SUBSET Exts, offers : SUBSET Exts,
          clientReq : SUBSET Exts, serverReq : SUBSET Exts,
          creds : {"none", "good", "bad"}, sameMajor : BOOLEAN,
          lingers : SUBSET Lingering] :
     /\ Cardinality(c.clientReq \cup c.serverReq) <= MaxRequired
     /\ c.client # "v2" => c.wants = {}
     /\ c.client = "eager" => c.clientReq = {} /\ "client" \notin c.lingers
     /\ c.server # "v2" => c.offers = {}
     /\ c.wants \cap Auth = {} => c.creds = "none"
     /\ {c.client, c.server} # {"v2"} => c.sameMajor}

Init ==
  /\ cfg \in Config
  /\ st = [s \in Side |-> IF s = "server" THEN "start"
                          ELSE CASE cfg.client = "eager" -> "eager"
                                 [] cfg.client = "v2" -> "info"
                                 [] OTHER -> "continue"]
  /\ builder = [s \in Side |->
                  [e \in (IF s = "server" THEN cfg.offers ELSE cfg.wants) |-> "before"]]
  /\ creds = cfg.creds
  /\ mw = [s \in Side |-> "none"]
  /\ wire = [s \in Side |-> <<>>]
  /\ eof = [s \in Side |-> FALSE]
  /\ result = [s \in Side |-> NoResult]
  /\ sent = 0
  /\ handled = <<>>

-----------------------------------------------------------------------------
(* Extension builders.  A certificate server changes phase when it sends    *)
(* its challenge, a password server when it reads the answer, a client when *)
(* it reads the offer.                                                      *)

\* Mutant: the client's authentication builders do not ask for the offer.
BuildToOkAnyPhase(s, e) ==
  \/ e \in Plain
  \/ s = "server" /\ builder[s][e] = "before"
  \/ s = "client" /\ creds # "none"

(* build_to_extension succeeds. *)
BuildToOk(s, e) ==
  \/ e \in Plain
  \/ s = "server" /\ builder[s][e] = "before"
  \/ s = "client" /\ builder[s][e] = "after" /\ creds # "none"

\* Mutant: a certificate server does not remember its challenge.
BuildToForgetsChallenge(s) == builder[s]

(* The builders after build_to_extension: a challenge is remembered. *)
BuildTo(s) ==
  [e \in DOMAIN builder[s] |->
     IF s = "server" /\ e \in Cert THEN "after" ELSE builder[s][e]]

(* build_from_bytes is called in a phase that allows it. *)
BuildFromAllowed(s, e) ==
  e \in Auth => builder[s][e] = (IF s = "server" /\ e \in Cert THEN "after" ELSE "before")

BuildFrom(s, exts) ==
  [e \in DOMAIN builder[s] |->
     IF e \in exts /\ (s = "client" \/ e \in Password) THEN "after" ELSE builder[s][e]]

(* The server's builders reject the client's answer:                        *)
(* PasswordExtensionCredsInvalid or CertAuthExtensionSigInvalid.            *)
CredsInvalid(pkt, exts) == exts \cap Auth # {} /\ pkt.creds # "good"

-----------------------------------------------------------------------------
(* Steps that several operations share. *)

Head1(s) == Head(wire[Peer(s)])
HasPacket(s) == wire[Peer(s)] # <<>>
AtEof(s) == wire[Peer(s)] = <<>> /\ eof[Peer(s)]
Consumed(s) == [wire EXCEPT ![Peer(s)] = Tail(@)]
Append1(w, s, pkt) == [w EXCEPT ![s] = Append(@, pkt)]

(* Both halves are dropped, which ends a transport that does not linger. *)
Dropped(s) == IF s \in cfg.lingers THEN eof ELSE [eof EXCEPT ![s] = TRUE]

(* Multiplexor::create returns an error and drops both halves. *)
Fail(s) ==
  /\ st' = [st EXCEPT ![s] = "failed"]
  /\ eof' = Dropped(s)
  /\ UNCHANGED <<result, handled>>

\* Mutant: a downgraded connection has the extensions that were offered.
V1ResultKeepsOffers(s, buffer, downgraded, packet) ==
  [version |-> 1, exts |-> {Udp} \cup DOMAIN builder[s], buffer |-> buffer,
   downgraded |-> downgraded, packet |-> packet]

\* Mutant: the packet that showed a v1 client is dropped.
V1ResultDropsPacket(s, buffer, downgraded, packet) ==
  [version |-> 1, exts |-> {Udp}, buffer |-> buffer,
   downgraded |-> downgraded, packet |-> <<>>]

(* WispHandshakeResultKind::V1 and into_parts. *)
V1Result(s, buffer, downgraded, packet) ==
  [version |-> 1, exts |-> {Udp}, buffer |-> buffer,
   downgraded |-> downgraded, packet |-> packet]

\* Mutant: a side counts what it could do, not what the other one does.
SupportedOwn(s, exts) == DOMAIN builder[s]

(* get_supported_extensions: what the other side sent and a builder knows. *)
Supported(s, exts) == exts \cap DOMAIN builder[s]

V2Result(s, exts, buffer) ==
  [version |-> 2, exts |-> Supported(s, exts), buffer |-> buffer,
   downgraded |-> FALSE, packet |-> <<>>]

Created(s, r) ==
  /\ st' = [st EXCEPT ![s] = "created"]
  /\ result' = [result EXCEPT ![s] = r]
  /\ UNCHANGED <<eof, handled>>

-----------------------------------------------------------------------------
(* ServerImpl::handshake without v2 settings: CONTINUE, and done. *)
ServerV1 ==
  /\ st["server"] = "start" /\ cfg.server = "v1"
  /\ \/ /\ wire' = Append1(wire, "server", [type |-> "continue", buffer |-> BufferSize])
        /\ Created("server", V1Result("server", BufferSize, FALSE, <<>>))
     \/ eof["client"] /\ Fail("server") /\ UNCHANGED wire
  /\ UNCHANGED <<cfg, builder, creds, mw, sent>>

\* Mutant: the server waits for the client's INFO before it sends its own.
SendInfoSecond(s, from, to) ==
  /\ st[s] = from
  /\ s = "server" => HasPacket(s)
  /\ builder' = [builder EXCEPT ![s] = BuildTo(s)]
  /\ wire' = Append1(wire, s, [type |-> "info", exts |-> DOMAIN builder[s], creds |-> creds])
  /\ st' = [st EXCEPT ![s] = to]
  /\ UNCHANGED <<eof, result, handled, cfg, creds, mw, sent>>

(* send_info_packet.  It fails if a builder refuses, or if the transport is *)
(* gone.                                                                    *)
SendInfo(s, from, to) ==
  /\ st[s] = from
  /\ \/ /\ \A e \in DOMAIN builder[s] : BuildToOk(s, e)
        /\ builder' = [builder EXCEPT ![s] = BuildTo(s)]
        /\ wire' = Append1(wire, s, [type |-> "info", exts |-> DOMAIN builder[s],
                                     creds |-> IF s = "client" THEN creds ELSE "none"])
        /\ st' = [st EXCEPT ![s] = to]
        /\ UNCHANGED <<eof, result, handled>>
     \/ /\ eof[Peer(s)] \/ \E e \in DOMAIN builder[s] : ~BuildToOk(s, e)
        /\ Fail(s)
        /\ UNCHANGED <<builder, wire>>
  /\ UNCHANGED <<cfg, creds, mw, sent>>

ServerInfo == cfg.server = "v2" /\ SendInfo("server", "start", "middleware")
ClientInfo == SendInfo("client", "build", "continue")

(* The closure of WispV2Handshake: it may leave the builders alone, give    *)
(* them credentials, take builders out, or fail.                            *)
Middleware(s, m, to) ==
  /\ st[s] = "middleware"
  /\ mw' = [mw EXCEPT ![s] = m]
  /\ creds' = IF m = "creds" THEN "good" ELSE creds
  /\ IF m = "remove"
     THEN \E keep \in SUBSET DOMAIN builder[s] :
            builder' = [builder EXCEPT ![s] = [e \in keep |-> builder[s][e]]]
     ELSE UNCHANGED builder
  /\ IF m = "fail"
     THEN Fail(s)
     ELSE st' = [st EXCEPT ![s] = to] /\ UNCHANGED <<eof, result, handled>>
  /\ UNCHANGED <<cfg, wire, sent>>

ServerClosure == \E m \in ServerMiddleware : Middleware("server", m, "info")
ClientClosure == \E m \in ClientMiddleware : Middleware("client", m, "build")

(* The server decodes the client's INFO and answers with CONTINUE, or, if   *)
(* the credentials are wrong, handle_error answers with CLOSE.              *)
ServerRecvInfo ==
  LET pkt == Head1("server")
      exts == pkt.exts \cap DOMAIN builder["server"]
      ok == cfg.sameMajor /\ \A e \in exts : BuildFromAllowed("server", e)
  IN
  /\ st["server"] = "info" /\ HasPacket("server") /\ pkt.type = "info"
  /\ builder' = [builder EXCEPT !["server"] = IF ok THEN BuildFrom("server", exts) ELSE @]
  /\ \/ /\ ok /\ ~CredsInvalid(pkt, exts)
        /\ wire' = Append1(Consumed("server"), "server",
                           [type |-> "continue", buffer |-> BufferSize])
        /\ Created("server", V2Result("server", exts, BufferSize))
     \/ /\ ok /\ CredsInvalid(pkt, exts)
        /\ wire' = Append1(Consumed("server"), "server", [type |-> "close"])
        /\ Fail("server")
     \/ /\ ~ok \/ eof["client"]
        /\ wire' = Consumed("server")
        /\ Fail("server")
  /\ UNCHANGED <<cfg, creds, mw, sent>>

(* Any other packet shows a v1 client; the actor will be given the packet. *)
ServerRecvPacket ==
  /\ st["server"] = "info" /\ HasPacket("server") /\ Head1("server").type # "info"
  /\ wire' = Consumed("server")
  /\ Created("server", V1Result("server", BufferSize, TRUE, <<Head1("server")>>))
  /\ UNCHANGED <<cfg, builder, creds, mw, sent>>

(* A v2 client decodes the server's INFO and keeps what its builders made   *)
(* of it until get_supported_extensions.                                    *)
ClientRecvInfo ==
  LET exts == Head1("client").exts \cap DOMAIN builder["client"] IN
  /\ st["client"] = "info" /\ HasPacket("client") /\ Head1("client").type = "info"
  /\ wire' = Consumed("client")
  /\ \/ /\ cfg.sameMajor
        /\ builder' = [builder EXCEPT !["client"] = BuildFrom("client", exts)]
        /\ result' = [result EXCEPT !["client"].exts = exts]
        /\ st' = [st EXCEPT !["client"] = "middleware"]
        /\ UNCHANGED <<eof, handled>>
     \/ /\ ~cfg.sameMajor
        /\ Fail("client") /\ UNCHANGED builder
  /\ UNCHANGED <<cfg, creds, mw, sent>>

(* CONTINUE ends the client's handshake: at once if it asked for v1 or if   *)
(* the server does not know v2, otherwise after both INFOs.                 *)
ClientRecvContinue ==
  LET pkt == Head1("client") IN
  /\ st["client"] \in {"info", "continue"} /\ HasPacket("client") /\ pkt.type = "continue"
  /\ wire' = Consumed("client")
  /\ Created("client",
       IF st["client"] = "continue" /\ cfg.client = "v2"
       THEN V2Result("client", result["client"].exts, pkt.buffer)
       ELSE V1Result("client", pkt.buffer, cfg.client = "v2", <<>>))
  /\ UNCHANGED <<cfg, builder, creds, mw, sent>>

(* validate_continue_packet refuses any other packet: a CLOSE, or an INFO   *)
(* that reaches a v1 client.                                                *)
ClientRecvOther ==
  /\ st["client"] \in {"info", "continue"} /\ HasPacket("client")
  /\ Head1("client").type # "continue"
  /\ Head1("client").type = "info" => st["client"] = "continue"
  /\ wire' = Consumed("client")
  /\ Fail("client")
  /\ UNCHANGED <<cfg, builder, creds, mw, sent>>

(* next_erroring: the transport ended. *)
RecvEof(s) ==
  /\ st[s] \in {"info", "continue"} /\ AtEof(s)
  /\ Fail(s)
  /\ UNCHANGED <<cfg, builder, creds, mw, wire, sent>>

(* The application drops the future that makes the multiplexor. *)
Cancel(s) ==
  /\ st[s] \in {"start", "middleware", "build", "info", "continue", "created", "closing"}
  /\ st' = [st EXCEPT ![s] = "cancelled"]
  /\ eof' = Dropped(s)
  /\ UNCHANGED <<cfg, builder, creds, mw, wire, result, sent, handled>>

-----------------------------------------------------------------------------
Required(s) == IF s = "server" THEN cfg.serverReq ELSE cfg.clientReq

\* Mutant: the multiplexor is thrown away without closing the connection.
RequireSilent(s) ==
  /\ st[s] = "created"
  /\ st' = [st EXCEPT ![s] = IF Required(s) \subseteq result[s].exts THEN "open" ELSE "failed"]
  /\ UNCHANGED <<cfg, builder, creds, mw, wire, eof, result, sent, handled>>

(* with_required_extensions.  If one is missing it awaits the actor's whole *)
(* future, which handles the packet of a downgrade, sends CLOSE and then    *)
(* closes the transport.                                                    *)
Require(s) ==
  /\ st[s] = "created"
  /\ IF Required(s) \subseteq result[s].exts
     THEN /\ st' = [st EXCEPT ![s] = "open"]
          /\ UNCHANGED <<eof, wire, handled, result>>
     ELSE /\ st' = [st EXCEPT ![s] = "closing"]
          /\ wire' = Append1(wire, s, [type |-> "close"])
          /\ handled' = handled \o result[s].packet
          /\ result' = [result EXCEPT ![s].packet = <<>>]
          /\ UNCHANGED eof
  /\ UNCHANGED <<cfg, builder, creds, mw, sent>>

(* tx.close() completes at the end of the actor's future, which a refusal   *)
(* of with_required_extensions waits for.                                   *)
CloseDone(s) ==
  /\ st[s] = "closing" \/ (st[s] = "ended" /\ ~eof[s])
  /\ st' = [st EXCEPT ![s] = IF @ = "closing" THEN "failed" ELSE "ended"]
  /\ eof' = [eof EXCEPT ![s] = TRUE]
  /\ UNCHANGED <<cfg, builder, creds, mw, wire, result, sent, handled>>

\* Mutant: the packet stays behind and is handled again.
ActorExtraRepeats ==
  /\ st["server"] = "open" /\ result["server"].packet # <<>> /\ Len(handled) <= MaxEager
  /\ handled' = handled \o result["server"].packet
  /\ UNCHANGED <<cfg, st, builder, creds, mw, wire, eof, result, sent>>

(* The actor's entry handles the packet of a downgrade before it reads.     *)
ActorExtra ==
  /\ st["server"] = "open" /\ result["server"].packet # <<>>
  /\ handled' = handled \o result["server"].packet
  /\ result' = [result EXCEPT !["server"].packet = <<>>]
  /\ UNCHANGED <<cfg, st, builder, creds, mw, wire, eof, sent>>

(* The actor reads: stream packets are handled, CLOSE of stream 0, the end  *)
(* of the transport and packets a side never accepts end the multiplexor.   *)
ActorRecv(s) ==
  /\ st[s] = "open" /\ result[s].packet = <<>>
  /\ \/ /\ HasPacket(s) /\ Head1(s).type \in {"connect", "data"}
        /\ wire' = Consumed(s)
        /\ handled' = Append(handled, Head1(s))
        /\ UNCHANGED <<st, eof>>
     \/ /\ (HasPacket(s) /\ Head1(s).type \notin {"connect", "data"}) \/ AtEof(s)
        /\ wire' = IF HasPacket(s) THEN Consumed(s) ELSE wire
        /\ st' = [st EXCEPT ![s] = "ended"]
        /\ UNCHANGED <<handled, eof>>
  /\ UNCHANGED <<cfg, builder, creds, mw, result, sent>>

(* External: a v1 client that opens a stream at once, sends data on it, and *)
(* leaves when the server does.                                             *)
EagerSend ==
  /\ st["client"] = "eager" /\ sent < MaxEager
  /\ wire' = Append1(wire, "client", [type |-> IF sent = 0 THEN "connect" ELSE "data"])
  /\ sent' = sent + 1
  /\ UNCHANGED <<cfg, st, builder, creds, mw, eof, result, handled>>

EagerRecv ==
  /\ st["client"] = "eager" /\ (HasPacket("client") \/ AtEof("client"))
  /\ IF HasPacket("client")
     THEN wire' = Consumed("client") /\ UNCHANGED <<st, eof>>
     ELSE /\ st' = [st EXCEPT !["client"] = "ended"]
          /\ eof' = [eof EXCEPT !["client"] = TRUE]
          /\ UNCHANGED wire
  /\ UNCHANGED <<cfg, builder, creds, mw, result, sent, handled>>

-----------------------------------------------------------------------------
Server ==
  \/ ServerV1 \/ ServerInfo \/ ServerClosure \/ ServerRecvInfo \/ ServerRecvPacket
  \/ RecvEof("server") \/ Require("server") \/ ActorExtra \/ ActorRecv("server")

Client ==
  \/ ClientRecvInfo \/ ClientClosure \/ ClientInfo \/ ClientRecvContinue
  \/ ClientRecvOther \/ RecvEof("client") \/ Require("client") \/ ActorRecv("client")
  \/ EagerSend \/ EagerRecv

Next == Server \/ Client \/ \E s \in Side : CloseDone(s) \/ Cancel(s)

Spec == Init /\ [][Next]_vars

(* A side whose next step does not wait for the network takes it, and the   *)
(* network delivers.  A transport that lingers owes no end of its close:    *)
(* poll_close stores the future that closes the socket and nothing polls it *)
(* again (ws/unfold.rs).  Nobody has to cancel.                             *)
FairSpec ==
  /\ Spec /\ WF_vars(Server) /\ WF_vars(Client)
  /\ \A s \in Side : WF_vars(s \notin cfg.lingers /\ CloseDone(s))

-----------------------------------------------------------------------------
(* The state of the handshake has the expected shape. *)
TypeOK ==
  /\ cfg \in Config
  /\ \A s \in Side : /\ st[s] \in {"start", "middleware", "build", "info", "continue",
                                   "created", "open", "closing", "ended", "failed",
                                   "cancelled", "eager"}
                     /\ DOMAIN builder[s] \subseteq Exts
                     /\ \A e \in DOMAIN builder[s] : builder[s][e] \in {"before", "after"}
                     /\ \A i \in DOMAIN wire[s] : wire[s][i] \in Packet
                     /\ eof[s] \in BOOLEAN
                     /\ result[s].version \in 0..2 /\ result[s].exts \subseteq Exts
                     /\ result[s].packet = <<>> \/ Len(result[s].packet) = 1
  /\ creds \in {"none", "good", "bad"}
  /\ sent \in 0..MaxEager
  /\ Len(handled) <= sent

HasMux(s) == st[s] \in {"created", "open", "ended"} /\ result[s].version # 0

(* Two ends that both got a multiplexor agree on the version, on the        *)
(* extensions ("supported by both sides", get_extensions) and on the buffer *)
(* size that credit is counted against.                                     *)
Agreement ==
  HasMux("client") /\ HasMux("server") =>
    /\ result["client"].version = result["server"].version
    /\ result["client"].exts = result["server"].exts
    /\ result["client"].buffer = result["server"].buffer

(* A server that requires an authentication extension serves nobody who did *)
(* not pass it, also not through a v1 connection or a downgrade; and where  *)
(* authentication is only offered, a client that tried and failed is        *)
(* refused all the same.                                                    *)
Authenticated ==
  st["server"] \in {"open", "ended"} =>
    /\ Required("server") \cap Auth # {} => cfg.client = "v2" /\ creds = "good"
    /\ result["server"].exts \cap Auth # {} => creds = "good"

(* A client never puts credentials into its INFO unless the server's INFO   *)
(* asked for them.                                                          *)
CredentialsOnRequest ==
  \A i \in DOMAIN wire["client"] :
    wire["client"][i].type = "info" => wire["client"][i].exts \cap Auth \subseteq cfg.offers

(* What two differently configured ends could agree on. *)
Agreed == IF cfg.client = "v2" /\ cfg.server = "v2" THEN cfg.wants \cap cfg.offers ELSE {Udp}
Compatible ==
  /\ cfg.clientReq \cup cfg.serverReq \subseteq Agreed
  /\ cfg.client = "v1" => cfg.server = "v1"
  /\ cfg.client = "v2" /\ cfg.server = "v2" =>
       /\ cfg.sameMajor
       /\ cfg.wants \cap Auth \subseteq cfg.offers
       /\ cfg.wants \cap Auth # {} => cfg.creds = "good"

(* A handshake is refused only if the two configurations do not fit, a      *)
(* middleware interfered, or the other side went away: the phases of the  *)
(* builders on the two sides never get in each other's way.                 *)
FailureExplained ==
  \A s \in Side :
    st[s] \in {"closing", "failed"} => \/ ~Compatible
                                       \/ \E t \in Side : mw[t] \in {"fail", "remove"}
                                       \/ st[Peer(s)] = "cancelled"

(* The server's actor handles the stream packets of the client in order,    *)
(* starting with the one that told the handshake of a v1 client.            *)
NothingLostInDowngrade ==
  st["server"] = "open" /\ cfg.client = "eager" =>
    LET all == handled \o result["server"].packet \o wire["client"]
    IN /\ Len(all) = sent
       /\ \A i \in DOMAIN all : all[i].type = (IF i = 1 THEN "connect" ELSE "data")

Left(s) == st[s] \in {"failed", "cancelled", "ended"}

(* The code does not tell a side that the other one left without CLOSE on a *)
(* transport that lingers, once it has read what there is.                  *)
Abandoned(s) ==
  Left(Peer(s)) /\ Peer(s) \in cfg.lingers /\ ~eof[Peer(s)] /\ wire[Peer(s)] = <<>>

(* Each side's handshake ends for good, unless it was abandoned, or it      *)
(* refused the connection and waits for a close that never completes.       *)
HandshakeEnds ==
  \A s \in Side :
    <>[](\/ Left(s) \/ st[s] \in {"open", "eager"}
         \/ st[s] = "closing" /\ s \in cfg.lingers
         \/ Abandoned(s))

(* A side is not left with a multiplexor to nobody: if the other side's     *)
(* handshake failed or its multiplexor ended, its own ends too.             *)
NoHalfOpen ==
  \A s \in Side :
    (st[s] = "open" /\ (Left(Peer(s)) \/ st[Peer(s)] = "closing"))
      ~> (st[s] = "ended" \/ Abandoned(s))
=============================================================================
