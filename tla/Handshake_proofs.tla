--------------------------- MODULE Handshake_proofs ---------------------------
(***************************************************************************)
(* Proofs about Handshake, for any extensions, any pair of configurations, *)
(* any credentials, any middleware unless said otherwise, and an eager     *)
(* client that sends any number of packets.                                *)
(***************************************************************************)
EXTENDS Handshake, SequenceTheorems, TLAPS

States == {"start", "middleware", "build", "info", "continue",
           "created", "open", "closing", "ended", "failed", "cancelled", "eager"}
Phases == {"before", "after"}
Builders == UNION {[E -> Phases] : E \in SUBSET Exts}
Results == [version : 0 .. 2, exts : SUBSET Exts, buffer : {0, BufferSize}, downgraded : BOOLEAN,
            packet : Seq(Packet)]

Types ==
  /\ cfg \in Config
  /\ st \in [Side -> States]
  /\ builder \in [Side -> Builders]
  /\ creds \in {"none", "good", "bad"}
  /\ mw \in [Side -> {"none", "keep", "creds", "fail", "remove"}]
  /\ wire \in [Side -> Seq(Packet)]
  /\ eof \in [Side -> BOOLEAN]
  /\ result \in [Side -> Results]
  /\ sent \in 0 .. MaxEager
  /\ handled \in Seq(Packet)

Eager == cfg.client = "eager"
BothV2 == cfg.client = "v2" /\ cfg.server = "v2"
Has(s) == DOMAIN builder[s]

\* Where a client is before it sends its INFO, and from there on.
BeforeInfo == {"info", "middleware", "build"}
AfterInfo == {"continue", "created", "open", "closing", "ended", "failed", "cancelled"}

(***************************************************************************)
(* What each side's own progress says of its builders and of its result.   *)
(***************************************************************************)
ServerLife ==
  /\ st["server"] \notin {"build", "continue", "eager"}
  /\ st["server"] \in {"start", "middleware", "info"} => result["server"] = NoResult
  /\ st["server"] \in {"middleware", "info"} => cfg.server = "v2"
  /\ st["server"] \in {"created", "open", "ended"} => result["server"].version # 0
  /\ st["server"] \in {"open", "ended"} => cfg.serverReq \subseteq result["server"].exts
  /\ st["server"] \in {"start", "middleware"} => mw["server"] = "none"
  /\ mw["server"] \in ServerMiddleware \cup {"none"}

ServerBuilders ==
  /\ Has("server") \subseteq cfg.offers
  /\ mw["server"] # "remove" => Has("server") = cfg.offers
  /\ st["server"] = "start" => \A e \in Has("server") : builder["server"][e] = "before"
  /\ st["server"] \in {"middleware", "info"} =>
       \A e \in Has("server") : builder["server"][e] = (IF e \in Cert THEN "after" ELSE "before")

ClientLife ==
  /\ st["client"] # "start"
  /\ st["client"] = "eager" => Eager
  /\ Eager => st["client"] \in {"eager", "ended"}
  /\ st["client"] \in BeforeInfo => cfg.client = "v2" /\ wire["client"] = <<>>
  /\ st["client"] \in {"middleware", "build"} => cfg.server = "v2"
  /\ st["client"] = "continue" /\ cfg.client = "v2" => cfg.server = "v2"
  /\ st["client"] \in BeforeInfo \cup {"continue", "eager"} \/ Eager => result["client"].version = 0
  /\ st["client"] \in {"created", "open"} => result["client"].version # 0
  /\ st["client"] \in {"info", "middleware"} => mw["client"] = "none"
  /\ result["client"].packet = <<>>

ClientBuilders ==
  /\ Has("client") \subseteq cfg.wants
  /\ mw["client"] # "remove" => Has("client") = cfg.wants
  /\ \A e \in Has("client") : builder["client"][e] = "after" => e \in cfg.offers
  /\ st["client"] \in {"middleware", "build"} =>
       \A e \in Has("client") \cap cfg.offers : builder["client"][e] = "after"
  /\ st["client"] \in {"middleware", "build"} \/ (st["client"] = "continue" /\ cfg.client = "v2") =>
       result["client"].exts = cfg.offers \cap cfg.wants

CredsKept == cfg.creds = "good" => creds = "good"

(***************************************************************************)
(* What the two results have to do with each other.                        *)
(***************************************************************************)
ServerResult ==
  /\ result["server"].version = 1 =>
       /\ result["server"].exts = {Udp} /\ result["server"].buffer = BufferSize
       /\ cfg.server = "v1" \/ Eager
  /\ result["server"].version = 2 =>
       /\ BothV2 /\ st["client"] \in AfterInfo
       /\ result["server"].exts = Has("client") \cap Has("server")
       /\ result["server"].buffer = BufferSize
       /\ result["server"].exts \cap Auth # {} => creds = "good"

ClientResult ==
  /\ result["client"].version = 1 =>
       /\ cfg.server = "v1" /\ result["server"].version = 1
       /\ result["client"].exts = {Udp} /\ result["client"].buffer = BufferSize
  /\ result["client"].version = 2 =>
       /\ result["server"].version = 2
       /\ result["client"].exts = cfg.offers \cap Has("client")
       /\ result["client"].buffer = BufferSize

(***************************************************************************)
(* What is under way.  Undisturbed: nothing that FailureExplained accepts  *)
(* as an explanation has happened.                                         *)
(***************************************************************************)
Undisturbed ==
  /\ Compatible
  /\ \A s \in Side : mw[s] \notin {"fail", "remove"} /\ st[s] # "cancelled"

Unread == st["client"] = "info" \/ (cfg.client = "v1" /\ st["client"] = "continue")

\* The server's packets: INFO first, and only if it speaks v2; at most one
\* CONTINUE, which the client has not read; CLOSE only if something disturbed.
ServerSilent ==
  st["server"] = "start" =>
    /\ wire["server"] = <<>> /\ st["client"] \notin {"middleware", "build"}
    /\ st["client"] = "continue" => cfg.client # "v2"
ServerKinds ==
  \A i \in 1 .. Len(wire["server"]) : wire["server"][i].type \in {"info", "continue", "close"}
ServerInfos ==
  \A i \in 1 .. Len(wire["server"]) : wire["server"][i].type = "info" =>
    /\ i = 1 /\ wire["server"][i].exts = cfg.offers /\ cfg.server = "v2"
    /\ st["client"] \notin {"middleware", "build", "created", "open"}
    /\ st["client"] = "continue" => cfg.client = "v1"
ServerContinues ==
  \A i \in 1 .. Len(wire["server"]) : wire["server"][i].type = "continue" =>
    /\ result["server"].version = (IF cfg.server = "v1" THEN 1 ELSE 2)
    /\ result["client"].version = 0
    /\ \A j \in 1 .. Len(wire["server"]) : wire["server"][j].type = "continue" => j = i
ServerInfoFirst ==
  Unread /\ cfg.server = "v2" =>
    \/ wire["server"] = <<>> /\ st["server"] \notin {"middleware", "info", "created", "open", "ended"}
    \/ wire["server"] # <<>> /\ wire["server"][1].type = "info"
ServerCloses ==
  Undisturbed => \A i \in 1 .. Len(wire["server"]) : wire["server"][i].type # "close"

FromServer ==
  /\ ServerSilent /\ ServerKinds /\ ServerInfos /\ ServerContinues /\ ServerInfoFirst
  /\ ServerCloses

\* The client's packets: one INFO, unread by the server, with the client's own
\* extensions and credentials; CLOSE only after its handshake and only if
\* something disturbed; stream packets exactly from eager clients.
ClientInfos ==
  \A i \in 1 .. Len(wire["client"]) : wire["client"][i].type = "info" =>
    /\ i = 1 /\ BothV2 /\ st["client"] \in AfterInfo
    /\ result["server"].version = 0
    /\ wire["client"][i].exts = Has("client") /\ wire["client"][i].creds = creds
    /\ wire["client"][i].exts \cap Auth \subseteq cfg.offers
ClientKinds ==
  \A i \in 1 .. Len(wire["client"]) :
    /\ wire["client"][i].type # "continue"
    /\ wire["client"][i].type = "close" => result["client"].version # 0
    /\ wire["client"][i].type \in {"connect", "data"} <=> Eager
ClientCloses ==
  Undisturbed => \A i \in 1 .. Len(wire["client"]) : wire["client"][i].type # "close"

FromClient == ClientInfos /\ ClientKinds /\ ClientCloses

NoFailure ==
  Undisturbed => \A s \in Side : st[s] \notin {"closing", "failed", "ended"} /\ ~eof[s]

(***************************************************************************)
(* The packets of an eager client: how many there are, and while the       *)
(* server has not given up, which.                                         *)
(***************************************************************************)
Kind(i) == IF i = 1 THEN "connect" ELSE "data"

\* Handled packets h, then the packet of a downgrade, then those under way.
Total(h, p, w) == Len(h) + Len(p) + Len(w)
Stream(h, p, w, n) ==
  /\ Total(h, p, w) = n
  /\ \A i \in 1 .. Len(h) : h[i].type = Kind(i)
  /\ \A i \in 1 .. Len(p) : p[i].type = Kind(Len(h) + i)
  /\ \A i \in 1 .. Len(w) : w[i].type = Kind(Len(h) + Len(p) + i)

EagerCount ==
  /\ ~Eager => handled = <<>> /\ result["server"].packet = <<>> /\ sent = 0
  /\ result["server"].packet = <<>> \/ Len(result["server"].packet) = 1
  /\ Eager => Total(handled, result["server"].packet, wire["client"]) <= sent

EagerStream ==
  Eager /\ st["server"] \in {"start", "middleware", "info", "created", "open"} =>
    Stream(handled, result["server"].packet, wire["client"], sent)

HandshakeInv ==
  /\ ServerLife /\ ServerBuilders /\ ClientLife /\ ClientBuilders /\ CredsKept
  /\ ServerResult /\ ClientResult /\ FromServer /\ FromClient /\ NoFailure
  /\ EagerCount /\ EagerStream
-----------------------------------------------------------------------------
\* The fields a packet has, by its type.
LEMMA PacketFields ==
    ASSUME NEW p \in Packet
    PROVE  /\ p.type \in {"info", "continue", "close", "connect", "data"}
           /\ p.type = "info" => p.exts \subseteq Exts /\ p.creds \in {"none", "good", "bad"}
           /\ p.type = "continue" => p.buffer = BufferSize
  BY DEF Packet

LEMMA PacketsMade ==
    /\ [type |-> "continue", buffer |-> BufferSize] \in Packet
    /\ \A ty \in {"close", "connect", "data"} : [type |-> ty] \in Packet
    /\ \A E \in SUBSET Exts, c \in {"none", "good", "bad"} :
         [type |-> "info", exts |-> E, creds |-> c] \in Packet
  BY DEF Packet

\* A set of builders is a function from extensions to phases.
LEMMA BuildersAre ==
    /\ \A f \in Builders : DOMAIN f \subseteq Exts /\ \A e \in DOMAIN f : f[e] \in Phases
    /\ \A E \in SUBSET Exts : [E -> Phases] \subseteq Builders
  BY DEF Builders

\* Append1 puts a packet at the end of one side's wire.
LEMMA Sending ==
    ASSUME NEW w \in [Side -> Seq(Packet)], NEW s \in Side, NEW p \in Packet
    PROVE  LET v == Append1(w, s, p) IN
           /\ v \in [Side -> Seq(Packet)]
           /\ Len(w[s]) \in Nat /\ Len(v[s]) = Len(w[s]) + 1 /\ v[s] # <<>>
           /\ \A i \in 1 .. Len(w[s]) : v[s][i] = w[s][i]
           /\ v[s][Len(w[s]) + 1] = p
           /\ \A t \in Side : t # s => v[t] = w[t]
<1>1. w[s] \in Seq(Packet) /\ Append1(w, s, p)[s] = Append(w[s], p)
  BY DEF Append1
<1>2. QED
  BY <1>1, AppendProperties, LenProperties DEF Append1

\* Consumed takes the first packet off the wire of the other side.
LEMMA Reading ==
    ASSUME NEW s \in Side, wire \in [Side -> Seq(Packet)], HasPacket(s)
    PROVE  LET o == wire[Peer(s)] v == Consumed(s) IN
           /\ v \in [Side -> Seq(Packet)]
           /\ Head1(s) \in Packet /\ Head1(s) = o[1]
           /\ Len(o) \in Nat /\ Len(o) > 0 /\ Len(v[Peer(s)]) = Len(o) - 1
           /\ \A i \in 1 .. Len(o) - 1 : v[Peer(s)][i] = o[i + 1]
           /\ v[s] = wire[s]
<1> DEFINE o == wire[Peer(s)]
<1>1. Peer(s) \in Side /\ Peer(s) # s
  BY DEF Side, Peer
<1>2. o \in Seq(Packet) /\ o # <<>>
  BY <1>1 DEF HasPacket
<1>3. /\ Head(o) \in Packet /\ Head(o) = o[1] /\ Tail(o) \in Seq(Packet)
      /\ Len(Tail(o)) = Len(o) - 1 /\ \A i \in 1 .. Len(Tail(o)) : Tail(o)[i] = o[i + 1]
  BY <1>2, HeadTailProperties, ElementOfSeq, EmptySeq, LenProperties
<1>4. Len(o) \in Nat /\ Len(o) > 0
  BY <1>2, EmptySeq, LenProperties
<1>5. Consumed(s)[Peer(s)] = Tail(o) /\ Consumed(s)[s] = wire[s]
      /\ Consumed(s) \in [Side -> Seq(Packet)]
  BY <1>1, <1>3 DEF Consumed
<1>6. Head1(s) = Head(o)
  BY DEF Head1
<1>7. QED
  BY <1>3, <1>4, <1>5, <1>6

\* The phases a builder may move to are phases of the same extensions.
LEMMA BuildersKept ==
    ASSUME builder \in [Side -> Builders], NEW s \in Side
    PROVE  /\ BuildTo(s) \in Builders /\ DOMAIN BuildTo(s) = Has(s)
           /\ \A E : BuildFrom(s, E) \in Builders /\ DOMAIN BuildFrom(s, E) = Has(s)
           /\ \A K \in SUBSET Has(s) : [e \in K |-> builder[s][e]] \in Builders
           /\ Has(s) \subseteq Exts
<1>1. Has(s) \subseteq Exts /\ \A e \in Has(s) : builder[s][e] \in Phases
  BY BuildersAre DEF Has
<1>2. BuildTo(s) \in [Has(s) -> Phases]
  BY <1>1 DEF BuildTo, Has, Phases
<1>3. \A E : BuildFrom(s, E) \in [Has(s) -> Phases]
  BY <1>1 DEF BuildFrom, Has, Phases
<1>4. \A K \in SUBSET Has(s) : [e \in K |-> builder[s][e]] \in [K -> Phases] /\ K \subseteq Exts
  BY <1>1
<1>5. QED
  BY <1>1, <1>2, <1>3, <1>4, BuildersAre

\* A result whose packet is taken out, or whose extensions are set.
LEMMA ResultFields ==
    ASSUME NEW r \in Results
    PROVE  /\ [r EXCEPT !.packet = <<>>] \in Results
           /\ \A E \in SUBSET Exts : [r EXCEPT !.exts = E] \in Results
<1>1. \A q \in Seq(Packet) : [r EXCEPT !.packet = q] \in Results
  BY DEF Results
<1>2. \A E \in SUBSET Exts : [r EXCEPT !.exts = E] \in Results
  BY DEF Results
<1>3. <<>> \in Seq(Packet)
  OBVIOUS
<1>4. QED
  BY <1>1, <1>2, <1>3

\* Every step keeps the shape of the state.
LEMMA TypesNext ==
    ASSUME Types, [Next]_vars
    PROVE  Types'
<1> USE HandshakeAssumption DEF Types, Side
<1>1. ASSUME NEW s \in Side, NEW x \in States, st' = [st EXCEPT ![s] = x] PROVE st' \in [Side -> States]
  BY <1>1
<1>2. ASSUME NEW s \in Side, Fail(s)
      PROVE  st' \in [Side -> States] /\ eof' \in [Side -> BOOLEAN] /\ UNCHANGED <<result, handled>>
  BY <1>2 DEF Fail, Dropped, States
<1>3. ASSUME NEW s \in Side, NEW r \in Results, Created(s, r)
      PROVE  st' \in [Side -> States] /\ result' \in [Side -> Results] /\ UNCHANGED <<eof, handled>>
  BY <1>3 DEF Created, States
<1>4. ASSUME NEW s \in Side, NEW d \in BOOLEAN, NEW q \in Seq(Packet)
      PROVE  V1Result(s, BufferSize, d, q) \in Results
  BY DEF V1Result, Results, Exts
<1>5. ASSUME NEW s \in Side, NEW E
      PROVE  V2Result(s, E, BufferSize) \in Results
  <2>1. E \cap Has(s) \subseteq Exts /\ <<>> \in Seq(Packet)
    BY BuildersKept, EmptySeq
  <2>2. QED
    BY <2>1 DEF V2Result, Supported, Results, Has
<1> DEFINE Continue == [type |-> "continue", buffer |-> BufferSize]
           Close == [type |-> "close"]
<1>c. Continue \in Packet /\ Close \in Packet
  BY PacketsMade
<1> HIDE DEF Continue, Close
<1>w. ASSUME NEW w \in [Side -> Seq(Packet)], NEW s \in Side
      PROVE  /\ Append1(w, s, Continue) \in [Side -> Seq(Packet)]
             /\ Append1(w, s, Close) \in [Side -> Seq(Packet)]
  BY <1>c, Sending
<1>6. ASSUME ServerV1 PROVE Types'
  <2>1. wire' \in [Side -> Seq(Packet)]
    <3>1. wire' = wire \/ wire' = Append1(wire, "server", Continue)
      BY <1>6 DEF ServerV1, Continue
    <3>2. Append1(wire, "server", Continue) \in [Side -> Seq(Packet)]
      BY <1>w
    <3>3. QED
      BY <3>1, <3>2
  <2>2. <<>> \in Seq(Packet) /\ FALSE \in BOOLEAN
    OBVIOUS
  <2>3. st' \in [Side -> States] /\ eof' \in [Side -> BOOLEAN] /\ UNCHANGED handled
        /\ result' \in [Side -> Results]
    BY <1>6, <1>2, <1>3, <1>4, <2>2 DEF ServerV1
  <2>4. QED
    BY <1>6, <2>1, <2>3 DEF ServerV1
<1>7. ASSUME NEW s \in Side, NEW from, NEW to \in States, SendInfo(s, from, to) PROVE Types'
  <2>2. CASE /\ builder' = [builder EXCEPT ![s] = BuildTo(s)]
             /\ wire' = Append1(wire, s, [type |-> "info", exts |-> DOMAIN builder[s],
                                          creds |-> IF s = "client" THEN creds ELSE "none"])
             /\ st' = [st EXCEPT ![s] = to]
             /\ UNCHANGED <<eof, result, handled>>
    <3>1. wire' \in [Side -> Seq(Packet)]
      BY <2>2, Sending, PacketsMade, BuildersKept DEF Has
    <3>2. builder' \in [Side -> Builders]
      BY <2>2, BuildersKept
    <3>3. QED
      BY <1>7, <2>2, <3>1, <3>2 DEF SendInfo
  <2>3. QED
    BY <1>7, <1>2, <2>2 DEF SendInfo
<1>8. ASSUME NEW s \in Side, NEW m \in {"keep", "creds", "fail", "remove"}, NEW to \in States,
             Middleware(s, m, to)
      PROVE  Types'
  <2>1. builder' \in [Side -> Builders]
    <3>1. CASE m = "remove"
      <4>1. PICK keep \in SUBSET Has(s) : builder' = [builder EXCEPT ![s] = [e \in keep |-> builder[s][e]]]
        BY <1>8, <3>1 DEF Middleware, Has
      <4>2. [e \in keep |-> builder[s][e]] \in Builders
        BY BuildersKept
      <4>3. QED
        BY <4>1, <4>2
    <3>2. CASE m # "remove"
      BY <1>8, <3>2 DEF Middleware
    <3>3. QED
      BY <3>1, <3>2
  <2>2. st' \in [Side -> States] /\ eof' \in [Side -> BOOLEAN] /\ UNCHANGED <<result, handled>>
    BY <1>2, <1>8 DEF Middleware
  <2>3. mw' \in [Side -> {"none", "keep", "creds", "fail", "remove"}]
    BY <1>8 DEF Middleware
  <2>4. QED
    BY <1>8, <2>1, <2>2, <2>3 DEF Middleware
<1>9. ASSUME ServerRecvInfo PROVE Types'
  <2> DEFINE pkt == Head1("server")
             exts == pkt.exts \cap DOMAIN builder["server"]
             ok == cfg.sameMajor /\ \A e \in exts : BuildFromAllowed("server", e)
  <2>1. Consumed("server") \in [Side -> Seq(Packet)]
    BY <1>9, Reading DEF ServerRecvInfo
  <2>2. builder' \in [Side -> Builders]
    BY <1>9, BuildersKept DEF ServerRecvInfo
  <2>3. wire' \in [Side -> Seq(Packet)]
    BY <1>9, <2>1, <1>w DEF ServerRecvInfo, Continue, Close
  <2>4. st' \in [Side -> States] /\ eof' \in [Side -> BOOLEAN] /\ UNCHANGED handled
        /\ result' \in [Side -> Results]
    <3>1. Fail("server") \/ Created("server", V2Result("server", exts, BufferSize))
      BY <1>9 DEF ServerRecvInfo
    <3>2. QED
      BY <3>1, <1>2, <1>3, <1>5
  <2>5. QED
    BY <1>9, <2>2, <2>3, <2>4 DEF ServerRecvInfo
<1>10. ASSUME ServerRecvPacket PROVE Types'
  <2>1. wire' \in [Side -> Seq(Packet)] /\ <<Head1("server")>> \in Seq(Packet)
    BY <1>10, Reading DEF ServerRecvPacket
  <2>2. st' \in [Side -> States] /\ UNCHANGED <<eof, handled>> /\ result' \in [Side -> Results]
    BY <1>10, <1>3, <1>4, <2>1 DEF ServerRecvPacket
  <2>3. QED
    BY <1>10, <2>1, <2>2 DEF ServerRecvPacket
<1>11. ASSUME ClientRecvInfo PROVE Types'
  <2> DEFINE exts == Head1("client").exts \cap DOMAIN builder["client"]
  <2>1. wire' \in [Side -> Seq(Packet)]
    BY <1>11, Reading DEF ClientRecvInfo
  <2>2. builder' \in [Side -> Builders] /\ exts \subseteq Exts
    BY <1>11, BuildersKept DEF ClientRecvInfo, Has
  <2>3. st' \in [Side -> States] /\ eof' \in [Side -> BOOLEAN] /\ UNCHANGED handled
        /\ result' \in [Side -> Results]
    <3>1. CASE Fail("client")
      BY <1>2, <3>1
    <3>2. CASE /\ result' = [result EXCEPT !["client"].exts = exts]
               /\ st' = [st EXCEPT !["client"] = "middleware"]
               /\ UNCHANGED <<eof, handled>>
      <4>1. result["client"] \in Results
        OBVIOUS
      <4>2. [result["client"] EXCEPT !.exts = exts] \in Results
        BY <2>2, <4>1, ResultFields
      <4>3. result' \in [Side -> Results]
        BY <3>2, <4>2
      <4>4. QED
        BY <3>2, <4>3 DEF States
    <3>3. QED
      BY <1>11, <3>1, <3>2 DEF ClientRecvInfo
  <2>4. QED
    BY <1>11, <2>1, <2>2, <2>3 DEF ClientRecvInfo
<1>12. ASSUME ClientRecvContinue PROVE Types'
  <2> DEFINE pkt == Head1("client")
  <2>1. wire' \in [Side -> Seq(Packet)] /\ pkt.buffer = BufferSize /\ <<>> \in Seq(Packet)
    BY <1>12, Reading, PacketFields DEF ClientRecvContinue
  <2>2. PICK r \in Results : Created("client", r)
    <3>1. (cfg.client = "v2") \in BOOLEAN
      OBVIOUS
    <3>2. \/ Created("client", V2Result("client", result["client"].exts, BufferSize))
          \/ Created("client", V1Result("client", BufferSize, cfg.client = "v2", <<>>))
      BY <1>12, <2>1 DEF ClientRecvContinue
    <3>3. QED
      BY <1>4, <1>5, <2>1, <3>1, <3>2
  <2>3. st' \in [Side -> States] /\ UNCHANGED <<eof, handled>> /\ result' \in [Side -> Results]
    BY <1>3, <2>2
  <2>4. QED
    BY <1>12, <2>1, <2>3 DEF ClientRecvContinue
<1>13. ASSUME ClientRecvOther PROVE Types'
  <2>1. wire' \in [Side -> Seq(Packet)]
    BY <1>13, Reading DEF ClientRecvOther
  <2>2. QED
    BY <1>13, <1>2, <2>1 DEF ClientRecvOther
<1>14. ASSUME NEW s \in Side, RecvEof(s) \/ CloseDone(s) \/ Cancel(s) PROVE Types'
  <2>1. CASE RecvEof(s)
    BY <1>2, <2>1 DEF RecvEof
  <2>2. CASE Cancel(s)
    <3>1. st' \in [Side -> States]
      BY <2>2 DEF CloseDone, Cancel, States
    <3>2. eof' \in [Side -> BOOLEAN]
      BY <2>2 DEF CloseDone, Cancel, Dropped
    <3>3. QED
      BY <2>2, <3>1, <3>2 DEF CloseDone, Cancel
  <2>3. CASE CloseDone(s)
    <3>1. st' \in [Side -> States]
      BY <2>3 DEF CloseDone, States
    <3>2. eof' \in [Side -> BOOLEAN]
      BY <2>3 DEF CloseDone
    <3>3. QED
      BY <2>3, <3>1, <3>2 DEF CloseDone
  <2>4. QED
    BY <1>14, <2>1, <2>2, <2>3
<1>15. ASSUME NEW s \in Side, Require(s) PROVE Types'
  <2>1. wire' \in [Side -> Seq(Packet)]
    BY <1>15, <1>w DEF Require, Close
  <2>2. handled' \in Seq(Packet)
    <3>1. result[s].packet \in Seq(Packet)
      BY DEF Results
    <3>2. handled \o result[s].packet \in Seq(Packet)
      BY <3>1, ConcatProperties
    <3>3. QED
      BY <1>15, <3>2 DEF Require
  <2>3. result' \in [Side -> Results]
    <3>1. CASE UNCHANGED result
      BY <3>1
    <3>2. CASE result' = [result EXCEPT ![s].packet = <<>>]
      <4>1. [result[s] EXCEPT !.packet = <<>>] \in Results
        BY ResultFields
      <4>2. QED
        BY <3>2, <4>1
    <3>3. QED
      BY <1>15, <3>1, <3>2 DEF Require
  <2>4. st' \in [Side -> States]
    BY <1>15 DEF Require, States
  <2>6. eof' \in [Side -> BOOLEAN]
    <3>1. eof' = eof \/ eof' = [eof EXCEPT ![s] = TRUE]
      BY <1>15 DEF Require
    <3>2. QED
      BY <3>1
  <2>5. QED
    BY <1>15, <2>1, <2>2, <2>3, <2>4, <2>6 DEF Require
<1>16. ASSUME ActorExtra PROVE Types'
  <2>1. result["server"].packet \in Seq(Packet)
    BY DEF Results
  <2>2. handled' \in Seq(Packet)
    BY <1>16, <2>1, ConcatProperties DEF ActorExtra
  <2>3. result' \in [Side -> Results]
    <3>1. [result["server"] EXCEPT !.packet = <<>>] \in Results
      BY ResultFields
    <3>2. QED
      BY <1>16, <3>1 DEF ActorExtra
  <2>4. QED
    BY <1>16, <2>2, <2>3 DEF ActorExtra
<1>17. ASSUME NEW s \in Side, ActorRecv(s) PROVE Types'
  <2>1. HasPacket(s) => Consumed(s) \in [Side -> Seq(Packet)] /\ Head1(s) \in Packet
    BY Reading
  <2>2. HasPacket(s) => Append(handled, Head1(s)) \in Seq(Packet)
    BY <2>1, AppendProperties
  <2>3. wire' \in [Side -> Seq(Packet)]
    BY <1>17, <2>1 DEF ActorRecv
  <2>4. handled' \in Seq(Packet)
    BY <1>17, <2>2 DEF ActorRecv
  <2>5. st' \in [Side -> States]
    BY <1>17 DEF ActorRecv, States
  <2>6. eof' \in [Side -> BOOLEAN]
    <3>1. eof' = eof \/ eof' = [eof EXCEPT ![s] = TRUE]
      BY <1>17 DEF ActorRecv
    <3>2. QED
      BY <3>1
  <2>7. QED
    BY <1>17, <2>3, <2>4, <2>5, <2>6 DEF ActorRecv
<1>18. ASSUME EagerSend PROVE Types'
  <2>1. wire' \in [Side -> Seq(Packet)]
    BY <1>18, Sending, PacketsMade DEF EagerSend
  <2>2. sent' \in 0 .. MaxEager
    BY <1>18 DEF EagerSend
  <2>3. QED
    BY <1>18, <2>1, <2>2 DEF EagerSend
<1>19. ASSUME EagerRecv PROVE Types'
  <2>1. wire' \in [Side -> Seq(Packet)]
    BY <1>19, Reading DEF EagerRecv
  <2>2. st' \in [Side -> States]
    BY <1>19 DEF EagerRecv, States
  <2>3. eof' \in [Side -> BOOLEAN]
    <3>1. eof' = eof \/ eof' = [eof EXCEPT !["client"] = TRUE]
      BY <1>19 DEF EagerRecv
    <3>2. QED
      BY <3>1
  <2>4. QED
    BY <1>19, <2>1, <2>2, <2>3 DEF EagerRecv
<1>20. CASE UNCHANGED vars
  BY <1>20 DEF vars
<1>21. ASSUME ServerInfo \/ ClientInfo PROVE Types'
  BY <1>7, <1>21 DEF ServerInfo, ClientInfo, States
<1>22. ASSUME ServerClosure \/ ClientClosure PROVE Types'
  BY <1>8, <1>22 DEF ServerClosure, ClientClosure, States
<1>23. QED
  BY <1>6, <1>9, <1>10, <1>11, <1>12, <1>13, <1>14, <1>15, <1>16, <1>17, <1>18, <1>19, <1>20,
     <1>21, <1>22
  DEF Next, Server, Client

-----------------------------------------------------------------------------
ServerStep == Server \/ CloseDone("server") \/ Cancel("server")
ClientStep == Client \/ CloseDone("client") \/ Cancel("client")

\* What a step of the server leaves to the client.
LEMMA ServerFrame ==
    ASSUME Types, ServerStep
    PROVE  /\ UNCHANGED <<cfg, creds, sent>>
           /\ st'["client"] = st["client"] /\ builder'["client"] = builder["client"]
           /\ mw'["client"] = mw["client"] /\ eof'["client"] = eof["client"]
           /\ result'["client"] = result["client"]
           /\ HasPacket("server") \/ wire'["client"] = wire["client"]
<1> USE HandshakeAssumption DEF Types, Side, Fail, Dropped, Created, Peer, Consumed, Append1, HasPacket
<1>1. CASE ServerV1
  BY <1>1 DEF ServerV1
<1>2. CASE ServerInfo
  BY <1>2 DEF ServerInfo, SendInfo
<1>3. CASE ServerClosure
  <2>1. PICK m \in ServerMiddleware : Middleware("server", m, "info")
    BY <1>3 DEF ServerClosure
  <2>2. m # "creds"
    OBVIOUS
  <2>3. builder'["client"] = builder["client"]
    BY <2>1 DEF Middleware
  <2>4. QED
    BY <2>1, <2>2, <2>3 DEF Middleware
<1>4. CASE ServerRecvInfo
  BY <1>4 DEF ServerRecvInfo
<1>5. CASE ServerRecvPacket
  BY <1>5 DEF ServerRecvPacket
<1>6. CASE RecvEof("server") \/ CloseDone("server") \/ Cancel("server")
  BY <1>6 DEF RecvEof, CloseDone, Cancel
<1>7. CASE Require("server")
  BY <1>7 DEF Require
<1>8. CASE ActorExtra
  BY <1>8 DEF ActorExtra
<1>9. CASE ActorRecv("server")
  BY <1>9 DEF ActorRecv
<1>10. QED
  BY <1>1, <1>2, <1>3, <1>4, <1>5, <1>6, <1>7, <1>8, <1>9 DEF ServerStep, Server

\* What a step of the client leaves to the server.
LEMMA ClientFrame ==
    ASSUME Types, FromServer, ClientLife, ClientStep
    PROVE  /\ UNCHANGED <<cfg, handled>>
           /\ st'["server"] = st["server"] /\ builder'["server"] = builder["server"]
           /\ mw'["server"] = mw["server"] /\ eof'["server"] = eof["server"]
           /\ result'["server"] = result["server"]
           /\ HasPacket("client") \/ wire'["server"] = wire["server"]
<1> USE HandshakeAssumption DEF Types, Side, Fail, Dropped, Created, Peer, Consumed, Append1, HasPacket
<1>1. CASE ClientRecvInfo
  BY <1>1 DEF ClientRecvInfo
<1>2. CASE ClientInfo
  BY <1>2 DEF ClientInfo, SendInfo
<1>3. CASE ClientClosure
  <2>1. PICK m \in ClientMiddleware : Middleware("client", m, "build")
    BY <1>3 DEF ClientClosure
  <2>2. builder'["server"] = builder["server"]
    BY <2>1 DEF Middleware
  <2>3. QED
    BY <2>1, <2>2 DEF Middleware
<1>4. CASE ClientRecvContinue
  BY <1>4 DEF ClientRecvContinue
<1>5. CASE ClientRecvOther
  BY <1>5 DEF ClientRecvOther
<1>6. CASE RecvEof("client") \/ CloseDone("client") \/ Cancel("client")
  BY <1>6 DEF RecvEof, CloseDone, Cancel
<1>7. CASE Require("client")
  <2>1. handled \o <<>> = handled
    BY ConcatEmptySeq
  <2>2. result["client"].packet = <<>>
    BY DEF ClientLife
  <2>3. QED
    BY <1>7, <2>1, <2>2 DEF Require
<1>8. CASE ActorRecv("client")
  <2>1. HasPacket("client") => Head1("client").type \notin {"connect", "data"}
    <3>1. SUFFICES ASSUME HasPacket("client") PROVE Head1("client").type \notin {"connect", "data"}
      OBVIOUS
    <3>2. Head1("client") = wire["server"][1] /\ Len(wire["server"]) \in Nat /\ Len(wire["server"]) > 0
      BY <3>1, Reading
    <3>3. wire["server"][1].type \in {"info", "continue", "close"}
      BY <3>2 DEF FromServer, ServerKinds
    <3>4. QED
      BY <3>2, <3>3
  <2>2. QED
    BY <1>8, <2>1 DEF ActorRecv
<1>9. CASE EagerSend \/ EagerRecv
  BY <1>9 DEF EagerSend, EagerRecv
<1>10. QED
  BY <1>1, <1>2, <1>3, <1>4, <1>5, <1>6, <1>7, <1>8, <1>9 DEF ClientStep, Client

\* A record field that is overwritten; the other fields stay.
LEMMA FieldsKept ==
    ASSUME result \in [Side -> Results], NEW s \in Side
    PROVE  /\ [result EXCEPT ![s].packet = <<>>][s].packet = <<>>
           /\ [result EXCEPT ![s].packet = <<>>][s].version = result[s].version
           /\ [result EXCEPT ![s].packet = <<>>][s].exts = result[s].exts
           /\ [result EXCEPT ![s].packet = <<>>][s].buffer = result[s].buffer
           /\ \A E : /\ [result EXCEPT ![s].exts = E][s].packet = result[s].packet
                     /\ [result EXCEPT ![s].exts = E][s].version = result[s].version
                     /\ [result EXCEPT ![s].exts = E][s].exts = E
  BY DEF Results

\* The server's own progress: every step keeps ServerLife.
LEMMA ServerLifeNext ==
    ASSUME Types, HandshakeInv, ServerStep \/ ClientStep
    PROVE  ServerLife'
<1> USE HandshakeAssumption DEF Types, Side, Fail, Dropped, Created, NoResult
<1>0. ServerLife /\ FromServer /\ ClientLife
  BY DEF HandshakeInv
<1>1. CASE ClientStep
  BY <1>0, <1>1, ClientFrame DEF ServerLife
<1>2. CASE ServerV1
  BY <1>0, <1>2 DEF ServerV1, ServerLife, V1Result
<1>3. CASE ServerInfo
  BY <1>0, <1>3 DEF ServerInfo, SendInfo, ServerLife
<1>4. CASE ServerClosure
  <2>1. PICK m \in ServerMiddleware : Middleware("server", m, "info")
    BY <1>4 DEF ServerClosure
  <2>2. /\ st["server"] = "middleware" /\ mw' = [mw EXCEPT !["server"] = m]
        /\ UNCHANGED <<cfg, result>> /\ st'["server"] \in {"info", "failed"}
    BY <2>1 DEF Middleware
  <2>3. QED
    BY <1>0, <2>2 DEF ServerLife
<1>5. CASE ServerRecvInfo
  <2>1. UNCHANGED <<cfg, mw>>
    BY <1>5 DEF ServerRecvInfo
  <2>2. CASE Fail("server")
    BY <1>0, <2>1, <2>2 DEF ServerLife
  <2>3. ASSUME NEW E, Created("server", V2Result("server", E, BufferSize))
        PROVE  ServerLife'
    BY <1>0, <2>1, <2>3 DEF ServerLife, V2Result
  <2>4. QED
    BY <1>5, <2>2, <2>3 DEF ServerRecvInfo
<1>6. CASE ServerRecvPacket
  BY <1>0, <1>6 DEF ServerRecvPacket, ServerLife, V1Result
<1>7. CASE RecvEof("server") \/ CloseDone("server") \/ Cancel("server")
  BY <1>0, <1>7 DEF RecvEof, CloseDone, Cancel, ServerLife
<1>8. CASE Require("server")
  <2>1. UNCHANGED <<cfg, mw>> /\ result["server"].version # 0
    BY <1>0, <1>8 DEF Require, ServerLife
  <2>2. CASE Required("server") \subseteq result["server"].exts
    BY <1>0, <1>8, <2>1, <2>2 DEF Require, Required, ServerLife
  <2>3. CASE ~(Required("server") \subseteq result["server"].exts)
    BY <1>0, <1>8, <2>1, <2>3 DEF Require, ServerLife
  <2>4. QED
    BY <2>2, <2>3
<1>9. CASE ActorExtra
  BY <1>0, <1>9, FieldsKept DEF ActorExtra, ServerLife
<1>10. CASE ActorRecv("server")
  BY <1>0, <1>10 DEF ActorRecv, ServerLife
<1>11. QED
  BY <1>1, <1>2, <1>3, <1>4, <1>5, <1>6, <1>7, <1>8, <1>9, <1>10 DEF ServerStep, Server

\* The server's builders: every step keeps ServerBuilders.
LEMMA ServerBuildersNext ==
    ASSUME Types, HandshakeInv, ServerStep \/ ClientStep
    PROVE  ServerBuilders'
<1> USE HandshakeAssumption DEF Types, Side, Fail, Dropped, Created, Has
<1>0. ServerLife /\ ServerBuilders /\ FromServer /\ ClientLife
  BY DEF HandshakeInv
<1>1. CASE ClientStep
  BY <1>0, <1>1, ClientFrame DEF ServerBuilders
<1>2. CASE ServerV1
  BY <1>0, <1>2 DEF ServerV1, ServerBuilders
<1>3. CASE ServerInfo
  <2>1. CASE Fail("server")
    BY <1>0, <1>3, <2>1 DEF ServerInfo, SendInfo, ServerBuilders
  <2>2. CASE builder' = [builder EXCEPT !["server"] = BuildTo("server")]
    BY <1>0, <1>3, <2>2 DEF ServerInfo, SendInfo, ServerBuilders, BuildTo
  <2>3. QED
    BY <1>3, <2>1, <2>2 DEF ServerInfo, SendInfo
<1>4. CASE ServerClosure
  <2>1. PICK m \in ServerMiddleware : Middleware("server", m, "info")
    BY <1>4 DEF ServerClosure
  <2>2. CASE m = "remove"
    BY <1>0, <2>1, <2>2 DEF Middleware, ServerBuilders
  <2>3. CASE m # "remove"
    BY <1>0, <2>1, <2>3 DEF Middleware, ServerBuilders, ServerLife
  <2>4. QED
    BY <2>2, <2>3
<1>5. CASE ServerRecvInfo
  <2>1. UNCHANGED <<cfg, mw>> /\ st'["server"] \in {"failed", "created"}
    BY <1>5 DEF ServerRecvInfo
  <2>2. DOMAIN builder'["server"] = DOMAIN builder["server"]
    <3>1. \A E : DOMAIN BuildFrom("server", E) = DOMAIN builder["server"]
      BY DEF BuildFrom
    <3>2. \/ builder'["server"] = builder["server"]
          \/ \E E : builder'["server"] = BuildFrom("server", E)
      BY <1>5, Zenon DEF ServerRecvInfo
    <3>3. QED
      BY <3>1, <3>2
  <2>3. QED
    BY <1>0, <2>1, <2>2 DEF ServerBuilders
<1>6. CASE ServerRecvPacket
  BY <1>0, <1>6 DEF ServerRecvPacket, ServerBuilders
<1>7. CASE RecvEof("server") \/ CloseDone("server") \/ Cancel("server")
  BY <1>0, <1>7 DEF RecvEof, CloseDone, Cancel, ServerBuilders
<1>8. CASE Require("server")
  BY <1>0, <1>8 DEF Require, ServerBuilders
<1>9. CASE ActorExtra
  BY <1>0, <1>9 DEF ActorExtra, ServerBuilders
<1>10. CASE ActorRecv("server")
  BY <1>0, <1>10 DEF ActorRecv, ServerBuilders
<1>11. QED
  BY <1>1, <1>2, <1>3, <1>4, <1>5, <1>6, <1>7, <1>8, <1>9, <1>10 DEF ServerStep, Server

\* What the client can find at the head of the server's packets.
LEMMA ClientReads ==
    ASSUME Types, FromServer, HasPacket("client")
    PROVE  LET p == Head1("client") IN
           /\ p \in Packet /\ p.type \in {"info", "continue", "close"}
           /\ p.type = "info" =>
                /\ p.exts = cfg.offers /\ cfg.server = "v2"
                /\ st["client"] \notin {"middleware", "build", "created", "open"}
                /\ st["client"] = "continue" => cfg.client = "v1"
           /\ p.type = "continue" =>
                /\ result["server"].version = (IF cfg.server = "v1" THEN 1 ELSE 2)
                /\ result["client"].version = 0 /\ p.buffer = BufferSize
           /\ Undisturbed => p.type # "close"
           /\ Unread /\ cfg.server = "v2" => p.type = "info"
<1>1. /\ Head1("client") \in Packet /\ Head1("client") = wire["server"][1]
      /\ wire["server"] # <<>> /\ 1 \in 1 .. Len(wire["server"])
  BY Reading DEF Types, Side, HasPacket, Peer
<1>2. QED
  BY <1>1, PacketFields DEF FromServer, ServerKinds, ServerInfos, ServerContinues, ServerInfoFirst, ServerCloses

\* What the server can find at the head of the client's packets.
LEMMA ServerReads ==
    ASSUME Types, FromClient, HasPacket("server")
    PROVE  LET p == Head1("server") IN
           /\ p \in Packet /\ p.type \in {"info", "close", "connect", "data"}
           /\ p.type = "info" =>
                /\ BothV2 /\ st["client"] \in AfterInfo
                /\ result["server"].version = 0
                /\ p.exts = Has("client") /\ p.creds = creds
                /\ p.exts \cap Auth \subseteq cfg.offers
           /\ p.type = "close" => result["client"].version # 0
           /\ p.type \in {"connect", "data"} <=> Eager
           /\ Undisturbed => p.type # "close"
<1>1. /\ Head1("server") \in Packet /\ Head1("server") = wire["client"][1]
      /\ 1 \in 1 .. Len(wire["client"])
  BY Reading DEF Types, Side, Peer
<1>2. QED
  BY <1>1, PacketFields DEF FromClient, ClientInfos, ClientKinds, ClientCloses

\* The client's own progress: every step keeps ClientLife.
LEMMA ClientLifeNext ==
    ASSUME Types, HandshakeInv, ServerStep \/ ClientStep
    PROVE  ClientLife'
<1> USE HandshakeAssumption DEF Types, Side, Fail, Dropped, Created, NoResult
<1>0. FromServer /\ ClientLife
  BY DEF HandshakeInv
<1>1. CASE ServerStep
  <2>1. wire["client"] = <<>> => wire'["client"] = wire["client"]
    BY <1>1, ServerFrame DEF HasPacket, Peer
  <2>2. QED
    BY <1>0, <1>1, <2>1, ServerFrame DEF ClientLife, Eager
<1>2. CASE ClientRecvInfo
  <2>1. /\ cfg.server = "v2" /\ st["client"] = "info" /\ UNCHANGED <<cfg, mw>>
        /\ wire'["client"] = wire["client"]
    BY <1>0, <1>2, ClientReads, Reading DEF ClientRecvInfo
  <2>2. CASE Fail("client")
    BY <1>0, <2>1, <2>2 DEF ClientLife, Eager, BeforeInfo
  <2>3. ASSUME NEW E, result' = [result EXCEPT !["client"].exts = E],
               st' = [st EXCEPT !["client"] = "middleware"]
        PROVE  ClientLife'
    <3>1. result'["client"].version = result["client"].version /\ result'["client"].packet = result["client"].packet
      BY <2>3, FieldsKept
    <3>2. QED
      BY <1>0, <2>1, <2>3, <3>1 DEF ClientLife, Eager, BeforeInfo
  <2>4. QED
    BY <1>2, <2>2, <2>3 DEF ClientRecvInfo
<1>3. CASE ClientClosure
  <2>1. PICK m \in ClientMiddleware : Middleware("client", m, "build")
    BY <1>3 DEF ClientClosure
  <2>2. /\ st["client"] = "middleware" /\ UNCHANGED <<cfg, wire, result>>
        /\ st'["client"] \in {"build", "failed"}
    BY <2>1 DEF Middleware
  <2>3. QED
    BY <1>0, <2>2 DEF ClientLife, Eager, BeforeInfo
<1>4. CASE ClientInfo
  <2>1. /\ st["client"] = "build" /\ UNCHANGED <<cfg, mw, result>>
        /\ st'["client"] \in {"continue", "failed"}
    BY <1>4 DEF ClientInfo, SendInfo
  <2>2. QED
    BY <1>0, <2>1 DEF ClientLife, Eager, BeforeInfo
<1>5. CASE ClientRecvContinue
  <2>1. /\ st["client"] \in {"info", "continue"} /\ st'["client"] = "created" /\ UNCHANGED <<cfg, mw>>
        /\ result'["client"].version # 0 /\ result'["client"].packet = <<>>
    BY <1>5 DEF ClientRecvContinue, V1Result, V2Result
  <2>2. QED
    BY <1>0, <2>1 DEF ClientLife, Eager, BeforeInfo
<1>6. CASE ClientRecvOther \/ RecvEof("client") \/ CloseDone("client") \/ Cancel("client")
  BY <1>0, <1>6 DEF ClientRecvOther, RecvEof, CloseDone, Cancel, ClientLife, Eager, BeforeInfo
<1>7. CASE Require("client")
  <2>1. /\ st["client"] = "created" /\ UNCHANGED <<cfg, mw>> /\ st'["client"] \in {"open", "closing"}
    BY <1>7 DEF Require
  <2>2. result'["client"].version = result["client"].version /\ result'["client"].packet = <<>>
    BY <1>0, <1>7, FieldsKept DEF Require, ClientLife
  <2>3. QED
    BY <1>0, <2>1, <2>2 DEF ClientLife, Eager, BeforeInfo
<1>8. CASE ActorRecv("client")
  <2>1. /\ st["client"] = "open" /\ UNCHANGED <<cfg, mw, result>> /\ st'["client"] \in {"open", "ended"}
    BY <1>8 DEF ActorRecv
  <2>2. QED
    BY <1>0, <2>1 DEF ClientLife, Eager, BeforeInfo
<1>9. CASE EagerSend \/ EagerRecv
  <2>1. /\ st["client"] = "eager" /\ UNCHANGED <<cfg, mw, result>> /\ st'["client"] \in {"eager", "ended"}
    BY <1>9 DEF EagerSend, EagerRecv
  <2>2. QED
    BY <1>0, <2>1 DEF ClientLife, Eager, BeforeInfo
<1>10. QED
  BY <1>1, <1>2, <1>3, <1>4, <1>5, <1>6, <1>7, <1>8, <1>9 DEF ClientStep, Client

\* Once it has sent its INFO, a client keeps its builders and credentials.
LEMMA ClientSettled ==
    ASSUME Types, HandshakeInv, ClientStep, st["client"] \in AfterInfo, ~Eager
    PROVE  UNCHANGED <<builder, creds, mw, sent>> /\ st'["client"] \in AfterInfo
<1> USE DEF Types, Side, Fail, Created, AfterInfo
<1>1. st["client"] \notin {"info", "middleware", "build", "eager"}
  OBVIOUS
<1>2. ~ClientRecvInfo /\ ~ClientClosure /\ ~ClientInfo /\ ~EagerSend /\ ~EagerRecv
  BY <1>1 DEF ClientRecvInfo, ClientClosure, Middleware, ClientInfo, SendInfo, EagerSend, EagerRecv
<1>3. CASE ClientRecvContinue \/ ClientRecvOther
  BY <1>3 DEF ClientRecvContinue, ClientRecvOther
<1>4. CASE RecvEof("client") \/ CloseDone("client") \/ Cancel("client")
  BY <1>4 DEF RecvEof, CloseDone, Cancel
<1>5. CASE Require("client") \/ ActorRecv("client")
  BY <1>5 DEF Require, ActorRecv
<1>6. QED
  BY <1>2, <1>3, <1>4, <1>5 DEF ClientStep, Client

\* The client's builders: every step keeps ClientBuilders.
LEMMA ClientBuildersNext ==
    ASSUME Types, HandshakeInv, ServerStep \/ ClientStep
    PROVE  ClientBuilders'
<1> USE HandshakeAssumption DEF Types, Side, Fail, Dropped, Created, Has
<1>0. FromServer /\ ClientLife /\ ClientBuilders
  BY DEF HandshakeInv
<1>1. CASE ServerStep
  BY <1>0, <1>1, ServerFrame DEF ClientBuilders
<1>2. CASE ClientRecvInfo
  <2> DEFINE E == Head1("client").exts \cap DOMAIN builder["client"]
  <2>1. /\ st["client"] = "info" /\ UNCHANGED <<cfg, mw>> /\ mw["client"] = "none"
        /\ Head1("client").exts = cfg.offers
    BY <1>0, <1>2, ClientReads DEF ClientRecvInfo, ClientLife
  <2>2. DOMAIN builder["client"] = cfg.wants
    BY <1>0, <2>1 DEF ClientBuilders
  <2>3. E = cfg.offers \cap cfg.wants
    BY <2>1, <2>2
  <2> HIDE DEF E
  <2>4. CASE Fail("client") /\ UNCHANGED builder
    BY <1>0, <2>1, <2>4 DEF ClientBuilders
  <2>5. CASE /\ builder' = [builder EXCEPT !["client"] = BuildFrom("client", E)]
             /\ result' = [result EXCEPT !["client"].exts = E]
    <3>1. result'["client"].exts = E
      BY <2>5, FieldsKept
    <3>2. /\ DOMAIN builder'["client"] = DOMAIN builder["client"]
          /\ \A e \in DOMAIN builder["client"] :
               builder'["client"][e] = IF e \in E THEN "after" ELSE builder["client"][e]
      BY <2>5 DEF BuildFrom
    <3>3. QED
      BY <1>0, <2>1, <2>2, <2>3, <3>1, <3>2 DEF ClientBuilders
  <2>6. QED
    BY <1>2, <2>4, <2>5 DEF ClientRecvInfo, E
<1>3. CASE ClientClosure
  <2>1. PICK m \in ClientMiddleware : Middleware("client", m, "build")
    BY <1>3 DEF ClientClosure
  <2>2. /\ st["client"] = "middleware" /\ mw' = [mw EXCEPT !["client"] = m]
        /\ UNCHANGED <<cfg, result>> /\ st'["client"] \in {"build", "failed"}
    BY <2>1 DEF Middleware
  <2>3. CASE m = "remove"
    <3>1. PICK keep \in SUBSET DOMAIN builder["client"] :
            builder' = [builder EXCEPT !["client"] = [e \in keep |-> builder["client"][e]]]
      BY <2>1, <2>3 DEF Middleware
    <3>2. QED
      BY <1>0, <2>2, <2>3, <3>1 DEF ClientBuilders
  <2>4. CASE m # "remove"
    <3>1. UNCHANGED builder
      BY <2>1, <2>4 DEF Middleware
    <3>2. QED
      BY <1>0, <2>2, <2>4, <3>1 DEF ClientBuilders, ClientLife
  <2>5. QED
    BY <2>3, <2>4
<1>4. CASE ClientInfo
  <2>1. /\ st["client"] = "build" /\ UNCHANGED <<cfg, mw, result>>
        /\ st'["client"] \in {"continue", "failed"}
    BY <1>4 DEF ClientInfo, SendInfo
  <2>2. builder'["client"] = builder["client"]
    <3>1. BuildTo("client") = [e \in DOMAIN builder["client"] |-> builder["client"][e]]
      BY DEF BuildTo
    <3>2. builder["client"] \in Builders
      OBVIOUS
    <3>3. BuildTo("client") = builder["client"]
      BY <3>1, <3>2 DEF Builders
    <3>4. QED
      BY <1>4, <3>3 DEF ClientInfo, SendInfo
  <2>3. QED
    BY <1>0, <2>1, <2>2 DEF ClientBuilders
<1>5. CASE ClientRecvContinue
  <2>1. st'["client"] = "created" /\ UNCHANGED <<cfg, mw, builder>>
    BY <1>5 DEF ClientRecvContinue
  <2>2. QED
    BY <1>0, <2>1 DEF ClientBuilders
<1>6. CASE ClientRecvOther \/ RecvEof("client") \/ CloseDone("client") \/ Cancel("client")
  BY <1>0, <1>6 DEF ClientRecvOther, RecvEof, CloseDone, Cancel, ClientBuilders
<1>7. CASE Require("client")
  <2>1. st'["client"] \in {"open", "closing"} /\ UNCHANGED <<cfg, mw, builder>>
    BY <1>7 DEF Require
  <2>2. QED
    BY <1>0, <2>1 DEF ClientBuilders
<1>8. CASE ActorRecv("client")
  BY <1>0, <1>8 DEF ActorRecv, ClientBuilders
<1>9. CASE EagerSend \/ EagerRecv
  BY <1>0, <1>9 DEF EagerSend, EagerRecv, ClientBuilders
<1>10. QED
  BY <1>1, <1>2, <1>3, <1>4, <1>5, <1>6, <1>7, <1>8, <1>9 DEF ClientStep, Client

\* Good credentials stay good.
LEMMA CredsKeptNext ==
    ASSUME Types, HandshakeInv, ServerStep \/ ClientStep
    PROVE  CredsKept'
<1>0. CredsKept /\ FromServer /\ ClientLife
  BY DEF HandshakeInv
<1>1. UNCHANGED cfg
  BY <1>0, ServerFrame, ClientFrame
<1>2. creds' = creds \/ creds' = "good"
  BY ServerFrame
  DEF ClientStep, Client, ClientRecvInfo, ClientClosure, Middleware, ClientInfo, SendInfo,
      ClientRecvContinue, ClientRecvOther, RecvEof, CloseDone, Cancel, Require, ActorRecv, EagerSend, EagerRecv
<1>3. QED
  BY <1>0, <1>1, <1>2 DEF CredsKept

\* How a step of the server may change its result: it makes one out of a
\* packet or without any, or takes the packet out of it.
LEMMA ServerResultStep ==
    ASSUME Types, HandshakeInv, ServerStep
    PROVE  \/ /\ result'["server"].version = result["server"].version
              /\ result'["server"].exts = result["server"].exts
              /\ result'["server"].buffer = result["server"].buffer
              /\ result["server"].version = 0 \/ UNCHANGED builder
           \/ /\ result["server"].version = 0 /\ (cfg.server = "v1" \/ Eager)
              /\ result'["server"].version = 1 /\ result'["server"].exts = {Udp}
              /\ result'["server"].buffer = BufferSize
           \/ /\ ServerRecvInfo /\ result["server"].version = 0
              /\ result'["server"].version = 2
              /\ result'["server"].exts = Has("client") \cap Has("server")
              /\ result'["server"].buffer = BufferSize
              /\ BothV2 /\ st["client"] \in AfterInfo
              /\ Has("server")' = Has("server")
              /\ result'["server"].exts \cap Auth # {} => creds = "good"
<1> USE HandshakeAssumption DEF Types, Side, Fail, Created
<1>0. ServerLife /\ ClientResult /\ FromClient
  BY DEF HandshakeInv
<1>1. CASE ServerV1
  BY <1>0, <1>1 DEF ServerV1, ServerLife, V1Result, NoResult
<1>2. CASE ServerInfo
  <2>1. result["server"].version = 0 /\ UNCHANGED result
    BY <1>0, <1>2 DEF ServerInfo, SendInfo, ServerLife, NoResult
  <2>2. QED
    BY <2>1
<1>3. CASE ServerClosure
  <2>1. result["server"].version = 0 /\ UNCHANGED result
    BY <1>0, <1>3 DEF ServerClosure, Middleware, ServerLife, NoResult
  <2>2. QED
    BY <2>1
<1>4. CASE ServerRecvInfo
  <2> DEFINE pkt == Head1("server")
             exts == pkt.exts \cap DOMAIN builder["server"]
  <2>1. result["server"].version = 0 /\ HasPacket("server") /\ pkt.type = "info"
    BY <1>0, <1>4 DEF ServerRecvInfo, ServerLife, NoResult
  <2>2. BothV2 /\ st["client"] \in AfterInfo /\ pkt.exts = Has("client") /\ pkt.creds = creds
    BY <1>0, <2>1, ServerReads
  <2>3. CASE Fail("server")
    BY <2>1, <2>3
  <2>4. CASE Created("server", V2Result("server", exts, BufferSize)) /\ ~CredsInvalid(pkt, exts)
    <3>1. /\ result'["server"].version = 2 /\ result'["server"].buffer = BufferSize
          /\ result'["server"].exts = exts
      BY <2>4 DEF V2Result, Supported
    <3>2. exts \cap Auth # {} => creds = "good"
      BY <2>2, <2>4 DEF CredsInvalid
    <3>3. exts = Has("client") \cap Has("server")
      BY <2>2 DEF Has
    <3>4. Has("server")' = Has("server")
      <4>1. \A E : DOMAIN BuildFrom("server", E) = DOMAIN builder["server"]
        BY DEF BuildFrom
      <4>2. \/ builder'["server"] = builder["server"]
            \/ \E E : builder'["server"] = BuildFrom("server", E)
        BY <1>4, Zenon DEF ServerRecvInfo
      <4>3. QED
        BY <4>1, <4>2 DEF Has
    <3>5. QED
      BY <1>4, <2>1, <2>2, <3>1, <3>2, <3>3, <3>4
  <2>5. QED
    BY <1>4, <2>3, <2>4 DEF ServerRecvInfo
<1>5. CASE ServerRecvPacket
  <2>1. result["server"].version = 0 /\ HasPacket("server") /\ Head1("server").type # "info"
    BY <1>0, <1>5 DEF ServerRecvPacket, ServerLife, NoResult
  <2>2. result["client"].version = 0
    <3>1. result["client"].version \in 0 .. 2
      BY DEF Results
    <3>2. QED
      BY <1>0, <2>1, <3>1 DEF ClientResult
  <2>3. Eager
    BY <1>0, <2>1, <2>2, ServerReads
  <2>4. QED
    BY <1>5, <2>1, <2>3 DEF ServerRecvPacket, V1Result
<1>6. CASE RecvEof("server") \/ CloseDone("server") \/ Cancel("server")
  BY <1>6 DEF RecvEof, CloseDone, Cancel
<1>7. CASE Require("server")
  BY <1>7, FieldsKept DEF Require
<1>8. CASE ActorExtra
  BY <1>8, FieldsKept DEF ActorExtra
<1>9. CASE ActorRecv("server")
  BY <1>9 DEF ActorRecv
<1>10. QED
  BY <1>1, <1>2, <1>3, <1>4, <1>5, <1>6, <1>7, <1>8, <1>9 DEF ServerStep, Server

\* Every step keeps ServerResult.
LEMMA ServerResultNext ==
    ASSUME Types, HandshakeInv, ServerStep \/ ClientStep
    PROVE  ServerResult'
<1>0. ServerResult /\ FromServer /\ ClientLife
  BY DEF HandshakeInv
<1>1. CASE ServerStep
  <2>1. /\ UNCHANGED <<cfg, creds>> /\ st'["client"] = st["client"] /\ Has("client")' = Has("client")
    BY <1>1, ServerFrame DEF Has
  <2>2. UNCHANGED builder => Has("server")' = Has("server")
    BY DEF Has
  <2>3. QED
    BY <1>0, <1>1, <2>1, <2>2, ServerResultStep DEF ServerResult, BothV2, Eager
<1>2. CASE ClientStep
  <2>1. UNCHANGED cfg /\ result'["server"] = result["server"]
    BY <1>0, <1>2, ClientFrame
  <2>2. CASE result["server"].version = 2
    <3>1. BothV2 /\ st["client"] \in AfterInfo
      BY <1>0, <2>2 DEF ServerResult
    <3>2. UNCHANGED <<builder, creds>> /\ st'["client"] \in AfterInfo
      BY <1>2, <3>1, ClientSettled DEF BothV2, Eager
    <3>3. QED
      BY <1>0, <2>1, <2>2, <3>2 DEF ServerResult, BothV2, Has
  <2>3. CASE result["server"].version # 2
    BY <1>0, <2>1, <2>3 DEF ServerResult, Eager
  <2>4. QED
    BY <2>2, <2>3
<1>3. QED
  BY <1>1, <1>2

\* The client's result is made by CONTINUE; only an INFO sets extensions before.
LEMMA ClientResultStep ==
    ASSUME Types, ClientStep, ~ClientRecvContinue
    PROVE  /\ result'["client"].version = result["client"].version
           /\ st["client"] # "info" =>
                /\ result'["client"].exts = result["client"].exts
                /\ result'["client"].buffer = result["client"].buffer
<1> USE DEF Types, Side, Fail
<1>1. CASE ClientRecvInfo
  <2>1. st["client"] = "info"
    BY <1>1 DEF ClientRecvInfo
  <2>2. \/ result' = result
        \/ result' = [result EXCEPT !["client"].exts =
                         Head1("client").exts \cap DOMAIN builder["client"]]
    BY <1>1 DEF ClientRecvInfo
  <2>3. ASSUME NEW E, result' = [result EXCEPT !["client"].exts = E]
        PROVE  result'["client"].version = result["client"].version
    BY <2>3, FieldsKept
  <2>4. QED
    BY <2>1, <2>2, <2>3
<1>2. CASE ClientClosure \/ ClientInfo
  BY <1>2 DEF ClientClosure, Middleware, ClientInfo, SendInfo
<1>3. CASE ClientRecvOther \/ RecvEof("client") \/ CloseDone("client") \/ Cancel("client")
  BY <1>3 DEF ClientRecvOther, RecvEof, CloseDone, Cancel
<1>4. CASE Require("client")
  BY <1>4, FieldsKept DEF Require
<1>5. CASE ActorRecv("client") \/ EagerSend \/ EagerRecv
  BY <1>5 DEF ActorRecv, EagerSend, EagerRecv
<1>6. QED
  BY <1>1, <1>2, <1>3, <1>4, <1>5 DEF ClientStep, Client

\* Every step keeps ClientResult.
LEMMA ClientResultNext ==
    ASSUME Types, HandshakeInv, ServerStep \/ ClientStep
    PROVE  ClientResult'
<1> USE DEF Types, Side, Fail, Created
<1>0. ServerResult /\ ClientResult /\ FromServer /\ ClientLife /\ ClientBuilders
  BY DEF HandshakeInv
<1>1. CASE ServerStep
  <2>1. /\ UNCHANGED cfg /\ result'["client"] = result["client"] /\ Has("client")' = Has("client")
    BY <1>1, ServerFrame DEF Has
  <2>2. result["server"].version # 0 => result'["server"].version = result["server"].version
    BY <1>1, ServerResultStep
  <2>3. QED
    BY <1>0, <2>1, <2>2 DEF ClientResult
<1>2. CASE ClientStep
  <2>1. UNCHANGED cfg /\ result'["server"] = result["server"]
    BY <1>0, <1>2, ClientFrame
  <2>2. CASE ClientRecvContinue
    <3>1. /\ st["client"] \in {"info", "continue"} /\ HasPacket("client")
          /\ Head1("client").type = "continue" /\ UNCHANGED builder
      BY <2>2 DEF ClientRecvContinue
    <3>2. /\ result["server"].version = (IF cfg.server = "v1" THEN 1 ELSE 2)
          /\ Head1("client").buffer = BufferSize /\ ~(Unread /\ cfg.server = "v2")
      BY <1>0, <3>1, ClientReads
    <3>3. cfg.server \in {"v1", "v2"} /\ cfg.client \in {"v1", "v2", "eager"} /\ ~Eager
      BY <1>0, <3>1 DEF Config, ClientLife
    <3>4. CASE st["client"] = "continue" /\ cfg.client = "v2"
      <4>1. /\ result'["client"].version = 2 /\ result'["client"].buffer = BufferSize
            /\ result'["client"].exts = result["client"].exts \cap Has("client")
        BY <2>2, <3>2, <3>4 DEF ClientRecvContinue, V2Result, Supported, Has
      <4>2. /\ result["client"].exts = cfg.offers \cap cfg.wants /\ Has("client") \subseteq cfg.wants
            /\ cfg.server = "v2"
        BY <1>0, <3>4 DEF ClientBuilders, ClientLife
      <4>3. Has("client")' = Has("client")
        BY <3>1 DEF Has
      <4>4. QED
        BY <2>1, <3>2, <4>1, <4>2, <4>3 DEF ClientResult
    <3>5. CASE ~(st["client"] = "continue" /\ cfg.client = "v2")
      <4>1. /\ result'["client"].version = 1 /\ result'["client"].buffer = BufferSize
            /\ result'["client"].exts = {Udp}
        BY <2>2, <3>2, <3>5 DEF ClientRecvContinue, V1Result
      <4>2. cfg.server = "v1"
        BY <3>1, <3>2, <3>3, <3>5 DEF Unread, Eager
      <4>3. QED
        BY <2>1, <3>2, <4>1, <4>2 DEF ClientResult
    <3>6. QED
      BY <3>4, <3>5
  <2>3. CASE result["client"].version = 0 /\ ~ClientRecvContinue
    <3>1. result'["client"].version = 0
      BY <1>2, <2>3, ClientResultStep
    <3>2. QED
      BY <3>1 DEF ClientResult
  <2>4. CASE result["client"].version # 0 /\ ~ClientRecvContinue
    <3>1. st["client"] \in AfterInfo /\ st["client"] # "continue" /\ ~Eager
      BY <1>0, <2>4 DEF ClientLife, AfterInfo, BeforeInfo, States
    <3>2. UNCHANGED builder
      BY <1>2, <3>1, ClientSettled
    <3>3. /\ result'["client"].version = result["client"].version
          /\ result'["client"].exts = result["client"].exts
          /\ result'["client"].buffer = result["client"].buffer
      BY <1>2, <2>4, <3>1, ClientResultStep DEF AfterInfo
    <3>4. QED
      BY <1>0, <2>1, <3>2, <3>3 DEF ClientResult, Has
  <2>5. QED
    BY <2>2, <2>3, <2>4
<1>3. QED
  BY <1>1, <1>2

-----------------------------------------------------------------------------
\* What disturbs a handshake stays visible.
LEMMA DisturbedForEver ==
    ASSUME Types, HandshakeInv, ServerStep \/ ClientStep, Undisturbed'
    PROVE  Undisturbed /\ UNCHANGED cfg
<1> USE HandshakeAssumption DEF Types, Side, Fail, Created
<1>0. ServerLife /\ FromServer /\ ClientLife
  BY DEF HandshakeInv
<1>1. UNCHANGED cfg
  BY <1>0, ServerFrame, ClientFrame
<1>2. Compatible
  BY <1>1 DEF Undisturbed, Compatible, Agreed
<1>6. /\ mw'["client"] \notin {"fail", "remove"} /\ mw'["server"] \notin {"fail", "remove"}
      /\ st'["client"] # "cancelled" /\ st'["server"] # "cancelled"
  BY DEF Undisturbed
<1>3. CASE ServerStep
  <2>1. mw'["client"] = mw["client"] /\ st'["client"] = st["client"]
    BY <1>3, ServerFrame
  <2>2. st["server"] # "cancelled"
    BY <1>3 DEF ServerStep, Server, ServerV1, ServerInfo, SendInfo, ServerClosure, Middleware,
                ServerRecvInfo, ServerRecvPacket, RecvEof, Require, ActorExtra, ActorRecv, CloseDone, Cancel
  <2>3. mw'["server"] = mw["server"] \/ mw["server"] = "none"
    <3>1. CASE ServerClosure
      BY <1>0, <3>1 DEF ServerClosure, Middleware, ServerLife
    <3>2. CASE ~ServerClosure
      <4>1. UNCHANGED mw
        BY <1>3, <3>2, Zenon DEF ServerStep, Server, ServerV1, ServerInfo, SendInfo,
           ServerRecvInfo, ServerRecvPacket, RecvEof, Require, ActorExtra, ActorRecv, CloseDone, Cancel
      <4>2. QED
        BY <4>1
    <3>3. QED
      BY <3>1, <3>2
  <2>4. \A s \in Side : mw[s] \notin {"fail", "remove"} /\ st[s] # "cancelled"
    BY <1>6, <2>1, <2>2, <2>3
  <2>5. QED
    BY <1>1, <1>2, <2>4 DEF Undisturbed
<1>4. CASE ClientStep
  <2>1. mw'["server"] = mw["server"] /\ st'["server"] = st["server"]
    BY <1>0, <1>4, ClientFrame
  <2>2. st["client"] # "cancelled"
    BY <1>4 DEF ClientStep, Client, ClientRecvInfo, ClientClosure, Middleware, ClientInfo, SendInfo,
          ClientRecvContinue, ClientRecvOther, RecvEof, CloseDone, Cancel, Require, ActorRecv, EagerSend, EagerRecv
  <2>3. mw'["client"] = mw["client"] \/ mw["client"] = "none"
    <3>1. CASE ClientClosure
      BY <1>0, <3>1 DEF ClientClosure, Middleware, ClientLife
    <3>2. CASE ~ClientClosure
      <4>1. UNCHANGED mw
        BY <1>4, <3>2, Zenon DEF ClientStep, Client, ClientRecvInfo, ClientInfo, SendInfo,
           ClientRecvContinue, ClientRecvOther, RecvEof, CloseDone, Cancel, Require, ActorRecv, EagerSend, EagerRecv
      <4>2. QED
        BY <4>1
    <3>3. QED
      BY <3>1, <3>2
  <2>4. \A s \in Side : mw[s] \notin {"fail", "remove"} /\ st[s] # "cancelled"
    BY <1>6, <2>1, <2>2, <2>3
  <2>5. QED
    BY <1>1, <1>2, <2>4 DEF Undisturbed
<1>5. QED
  BY <1>1, <1>3, <1>4

\* Compatible ends that nothing disturbed agreed on what they require.
LEMMA RequiredIsThere ==
    ASSUME Types, HandshakeInv, Undisturbed, NEW s \in Side, st[s] = "created"
    PROVE  Required(s) \subseteq result[s].exts
<1> USE HandshakeAssumption DEF Types, Side
<1>0. ServerLife /\ ServerBuilders /\ ClientLife /\ ClientBuilders /\ ServerResult /\ ClientResult
  BY DEF HandshakeInv
<1>1. Has("client") = cfg.wants /\ Has("server") = cfg.offers
  BY <1>0 DEF Undisturbed, ServerBuilders, ClientBuilders
<1>2. Required(s) \subseteq Agreed
  BY DEF Undisturbed, Compatible, Required
<1>3. result[s].version \in {1, 2}
  <2>1. result[s].version \in 0 .. 2 /\ result[s].version # 0
    BY <1>0 DEF Results, ServerLife, ClientLife
  <2>2. QED
    BY <2>1
<1>4. CASE result[s].version = 1
  BY <1>0, <1>2, <1>4 DEF ServerResult, ClientResult, Agreed, Eager
<1>5. CASE result[s].version = 2
  BY <1>0, <1>1, <1>2, <1>5 DEF ServerResult, ClientResult, Agreed, BothV2
<1>6. QED
  BY <1>3, <1>4, <1>5

\* Credentials that the configurations agreed on are not refused.
LEMMA CredentialsFit ==
    ASSUME Types, HandshakeInv, Undisturbed, HasPacket("server"), Head1("server").type = "info"
    PROVE  \A E : ~CredsInvalid(Head1("server"), Head1("server").exts \cap E)
<1>0. FromClient /\ ClientBuilders /\ CredsKept
  BY DEF HandshakeInv
<1>1. Head1("server").exts = Has("client") /\ Head1("server").creds = creds /\ BothV2
  BY <1>0, ServerReads
<1>2. cfg.wants \cap Auth # {} => creds = "good"
  BY <1>0, <1>1 DEF Undisturbed, Compatible, BothV2, CredsKept
<1>3. QED
  BY <1>0, <1>1, <1>2 DEF CredsInvalid, ClientBuilders

\* Sending a packet, read off the wire it ends up on.
Sends(s, p) == p \in Packet /\ wire'[s] = Append(wire[s], p)

LEMMA SendsIs ==
    ASSUME Types, NEW s \in Side, NEW p \in Packet, wire' = Append1(wire, s, p)
    PROVE  Sends(s, p)
  BY DEF Types, Sends, Append1

LEMMA SendsEffect ==
    ASSUME Types, NEW s \in Side, NEW p, Sends(s, p)
    PROVE  /\ p \in Packet /\ Len(wire[s]) \in Nat
           /\ Len(wire'[s]) = Len(wire[s]) + 1 /\ wire'[s] # <<>>
           /\ \A i \in 1 .. Len(wire[s]) : wire'[s][i] = wire[s][i]
           /\ wire'[s][Len(wire[s]) + 1] = p
<1>1. wire[s] \in Seq(Packet) /\ wire'[s] = Append(wire[s], p)
  BY DEF Types, Sends
<1>2. QED
  BY <1>1, AppendProperties, LenProperties DEF Sends

\* The server waits for the end of its close, or has not begun one.
Closing == st["server"] \in {"closing", "ended"} /\ (CloseDone("server") \/ Cancel("server"))
Busy == st["server"] \in {"start", "middleware", "info", "created", "open"}

\* What a step of the server puts on its wire.
LEMMA ServerSends ==
    ASSUME Types, HandshakeInv, ServerStep
    PROVE  /\ Busy \/ Closing
           /\ st'["server"] # "start"
           /\ \/ /\ wire'["server"] = wire["server"]
                 /\ st["server"] = "start" => st'["server"] \in {"failed", "cancelled"}
              \/ /\ Sends("server", [type |-> "info", exts |-> cfg.offers, creds |-> "none"])
                 /\ st["server"] = "start" /\ st'["server"] = "middleware" /\ cfg.server = "v2"
              \/ /\ Sends("server", [type |-> "continue", buffer |-> BufferSize])
                 /\ result["server"].version = 0
                 /\ result'["server"].version = (IF cfg.server = "v1" THEN 1 ELSE 2)
                 /\ st["server"] = "start" => cfg.server = "v1"
              \/ /\ Sends("server", [type |-> "close"])
                 /\ st["server"] # "start" /\ ~Undisturbed'
<1> USE HandshakeAssumption DEF Types, Side, Fail, Created, Busy
<1>0. ServerLife /\ ServerBuilders
  BY DEF HandshakeInv
<1>a. /\ [type |-> "continue", buffer |-> BufferSize] \in Packet /\ [type |-> "close"] \in Packet
  BY PacketsMade
<1>b. ASSUME HasPacket("server")
      PROVE  Consumed("server") \in [Side -> Seq(Packet)] /\ Consumed("server")["server"] = wire["server"]
  BY <1>b, Reading
<1>c. ASSUME HasPacket("server"), NEW p \in Packet, wire' = Append1(Consumed("server"), "server", p)
      PROVE  Sends("server", p)
  BY <1>b, <1>c DEF Sends, Append1
<1>1. CASE ServerV1
  <2>1. st["server"] = "start" /\ cfg.server = "v1" /\ result["server"].version = 0
    BY <1>0, <1>1 DEF ServerV1, ServerLife, NoResult
  <2>2. CASE Fail("server") /\ UNCHANGED wire
    BY <2>1, <2>2
  <2>3. CASE /\ wire' = Append1(wire, "server", [type |-> "continue", buffer |-> BufferSize])
             /\ Created("server", V1Result("server", BufferSize, FALSE, <<>>))
    <3>1. Sends("server", [type |-> "continue", buffer |-> BufferSize])
      BY <1>a, <2>3, SendsIs
    <3>2. QED
      BY <2>1, <2>3, <3>1 DEF V1Result
  <2>4. QED
    BY <1>1, <2>2, <2>3 DEF ServerV1
<1>2. CASE ServerInfo
  <2>1. st["server"] = "start" /\ cfg.server = "v2" /\ DOMAIN builder["server"] = cfg.offers
    BY <1>0, <1>2 DEF ServerInfo, SendInfo, ServerLife, ServerBuilders, Has
  <2>2. CASE Fail("server") /\ UNCHANGED wire
    BY <2>1, <2>2
  <2>3. CASE /\ wire' = Append1(wire, "server", [type |-> "info", exts |-> DOMAIN builder["server"],
                                                 creds |-> IF "server" = "client" THEN creds ELSE "none"])
             /\ st' = [st EXCEPT !["server"] = "middleware"]
    <3>1. cfg.offers \in SUBSET Exts
      BY DEF Config
    <3>2. [type |-> "info", exts |-> cfg.offers, creds |-> "none"] \in Packet
      BY <3>1, PacketsMade
    <3>3. wire' = Append1(wire, "server", [type |-> "info", exts |-> cfg.offers, creds |-> "none"])
      BY <2>1, <2>3
    <3>4. Sends("server", [type |-> "info", exts |-> cfg.offers, creds |-> "none"])
      BY <3>2, <3>3, SendsIs
    <3>5. QED
      BY <2>1, <2>3, <3>4
  <2>4. QED
    BY <1>2, <2>2, <2>3 DEF ServerInfo, SendInfo
<1>3. CASE ServerClosure
  BY <1>3 DEF ServerClosure, Middleware
<1>4. CASE ServerRecvInfo
  <2> DEFINE pkt == Head1("server")
             exts == pkt.exts \cap DOMAIN builder["server"]
  <2>1. /\ st["server"] = "info" /\ HasPacket("server") /\ pkt.type = "info"
        /\ result["server"].version = 0 /\ cfg.server = "v2"
    BY <1>0, <1>4 DEF ServerRecvInfo, ServerLife, NoResult
  <2>2. CASE wire' = Consumed("server") /\ Fail("server")
    BY <1>b, <2>1, <2>2
  <2>3. CASE /\ wire' = Append1(Consumed("server"), "server", [type |-> "continue", buffer |-> BufferSize])
             /\ Created("server", V2Result("server", exts, BufferSize))
    <3>1. Sends("server", [type |-> "continue", buffer |-> BufferSize])
      BY <1>a, <1>c, <2>1, <2>3
    <3>2. result'["server"].version = 2 /\ st'["server"] = "created"
      BY <2>3 DEF V2Result
    <3>3. QED
      BY <2>1, <3>1, <3>2
  <2>4. CASE /\ wire' = Append1(Consumed("server"), "server", [type |-> "close"])
             /\ Fail("server") /\ CredsInvalid(pkt, exts)
    <3>1. Sends("server", [type |-> "close"])
      BY <1>a, <1>c, <2>1, <2>4
    <3>2. ~Undisturbed'
      BY <2>1, <2>4, CredentialsFit, DisturbedForEver
    <3>3. QED
      BY <2>1, <2>4, <3>1, <3>2
  <2>5. QED
    BY <1>4, <2>2, <2>3, <2>4 DEF ServerRecvInfo
<1>5. CASE ServerRecvPacket
  BY <1>5, <1>b DEF ServerRecvPacket
<1>6. CASE RecvEof("server") \/ CloseDone("server") \/ Cancel("server")
  <2>1. CASE CloseDone("server")
    <3>1. UNCHANGED wire /\ st["server"] # "start" /\ st'["server"] # "start" /\ Closing
      BY <2>1 DEF CloseDone, Closing
    <3>2. QED
      BY <2>1, <3>1
  <2>2. CASE RecvEof("server") \/ Cancel("server")
    <3>1. UNCHANGED wire /\ st'["server"] \in {"failed", "cancelled"}
      BY <2>2 DEF RecvEof, Cancel
    <3>2. Busy \/ Closing
      BY <1>0, <2>2 DEF RecvEof, Cancel, ServerLife, Closing
    <3>3. QED
      BY <3>1, <3>2
  <2>3. QED
    BY <1>6, <2>1, <2>2
<1>7. CASE Require("server")
  <2>1. st["server"] = "created"
    BY <1>7 DEF Require
  <2>2. CASE Required("server") \subseteq result["server"].exts
    BY <1>7, <2>1, <2>2 DEF Require
  <2>3. CASE ~(Required("server") \subseteq result["server"].exts)
    <3>1. wire' = Append1(wire, "server", [type |-> "close"]) /\ st'["server"] = "closing"
      BY <1>7, <2>3 DEF Require
    <3>2. Sends("server", [type |-> "close"])
      BY <1>a, <3>1, SendsIs
    <3>3. ~Undisturbed'
      BY <2>1, <2>3, RequiredIsThere, DisturbedForEver
    <3>4. QED
      BY <2>1, <3>1, <3>2, <3>3
  <2>4. QED
    BY <2>2, <2>3
<1>8. CASE ActorExtra
  BY <1>8 DEF ActorExtra
<1>9. CASE ActorRecv("server")
  <2>1. wire'["server"] = wire["server"] /\ st["server"] = "open" /\ st'["server"] \in {"open", "ended"}
    BY <1>9, <1>b DEF ActorRecv
  <2>2. QED
    BY <2>1
<1>10. QED
  BY <1>1, <1>2, <1>3, <1>4, <1>5, <1>6, <1>7, <1>8, <1>9 DEF ServerStep, Server

\* What a step of the client takes off the server's wire.
LEMMA ClientTakes ==
    ASSUME Types, HandshakeInv, ClientStep
    PROVE  /\ ~Unread'
           /\ \/ /\ wire'["server"] = wire["server"] /\ ~ClientRecvContinue
                 /\ \/ st'["client"] \in {st["client"], "closing", "cancelled", "failed", "ended"}
                    \/ st["client"] \in {"middleware", "build"}
                    \/ st["client"] = "created" /\ st'["client"] = "open"
              \/ /\ HasPacket("client") /\ Len(wire["server"]) \in Nat /\ Len(wire["server"]) > 0
                 /\ Len(wire'["server"]) = Len(wire["server"]) - 1
                 /\ \A i \in 1 .. Len(wire["server"]) - 1 : wire'["server"][i] = wire["server"][i + 1]
<1> USE HandshakeAssumption DEF Types, Side, Fail, Dropped, Created, Unread
<1>0. ClientLife
  BY DEF HandshakeInv
<1>a. ASSUME HasPacket("client"), wire' = Consumed("client")
      PROVE  /\ Len(wire["server"]) \in Nat /\ Len(wire["server"]) > 0
             /\ Len(wire'["server"]) = Len(wire["server"]) - 1
             /\ \A i \in 1 .. Len(wire["server"]) - 1 : wire'["server"][i] = wire["server"][i + 1]
  <2>1. Peer("client") = "server"
    BY DEF Peer
  <2>2. QED
    BY <1>a, <2>1, Reading
<1>b. ASSUME NEW p, wire' = Append1(wire, "client", p)
      PROVE  wire'["server"] = wire["server"]
  BY <1>b DEF Append1
<1>1. CASE ClientRecvInfo
  <2>1. HasPacket("client") /\ wire' = Consumed("client") /\ st'["client"] \in {"middleware", "failed"}
    BY <1>1 DEF ClientRecvInfo
  <2>2. QED
    BY <1>a, <2>1
<1>2. CASE ClientClosure
  <2>1. UNCHANGED wire /\ st["client"] = "middleware" /\ st'["client"] \in {"build", "failed"}
    BY <1>2 DEF ClientClosure, Middleware
  <2>2. ~ClientRecvContinue
    BY <2>1 DEF ClientRecvContinue
  <2>3. QED
    BY <2>1, <2>2
<1>3. CASE ClientInfo
  <2>1. wire'["server"] = wire["server"] /\ st["client"] = "build" /\ st'["client"] \in {"continue", "failed"}
        /\ UNCHANGED cfg
    BY <1>b, <1>3 DEF ClientInfo, SendInfo
  <2>2. ~ClientRecvContinue /\ cfg.client = "v2"
    BY <1>0, <2>1 DEF ClientRecvContinue, ClientLife, BeforeInfo
  <2>3. QED
    BY <2>1, <2>2
<1>4. CASE ClientRecvContinue \/ ClientRecvOther
  <2>1. HasPacket("client") /\ wire' = Consumed("client") /\ st'["client"] \in {"created", "failed"}
    BY <1>4 DEF ClientRecvContinue, ClientRecvOther
  <2>2. QED
    BY <1>a, <2>1
<1>5. CASE RecvEof("client")
  <2>1. UNCHANGED wire /\ st'["client"] = "failed" /\ ~HasPacket("client")
    BY <1>5 DEF RecvEof, AtEof, HasPacket
  <2>2. QED
    BY <2>1 DEF ClientRecvContinue
<1>6. CASE CloseDone("client") \/ Cancel("client")
  <2>1. UNCHANGED wire /\ st'["client"] \in {"failed", "ended", "cancelled"}
    BY <1>6 DEF CloseDone, Cancel
  <2>2. ~ClientRecvContinue
    BY <2>1 DEF ClientRecvContinue, Created
  <2>3. QED
    BY <2>1, <2>2
<1>7. CASE Require("client")
  <2>1. wire'["server"] = wire["server"] /\ st["client"] = "created" /\ st'["client"] \in {"open", "closing"}
    BY <1>b, <1>7 DEF Require
  <2>2. QED
    BY <2>1 DEF ClientRecvContinue
<1>8. CASE ActorRecv("client")
  <2>1. st["client"] = "open" /\ st'["client"] \in {"open", "ended"}
    BY <1>8 DEF ActorRecv
  <2>2. UNCHANGED wire \/ (HasPacket("client") /\ wire' = Consumed("client"))
    BY <1>8 DEF ActorRecv
  <2>3. QED
    BY <1>a, <2>1, <2>2 DEF ClientRecvContinue
<1>9. CASE EagerSend
  <2>1. wire'["server"] = wire["server"] /\ st["client"] = "eager" /\ UNCHANGED st
    BY <1>b, <1>9 DEF EagerSend
  <2>2. QED
    BY <2>1 DEF ClientRecvContinue
<1>10. CASE EagerRecv
  <2>1. st["client"] = "eager" /\ st'["client"] \in {"eager", "ended"}
    BY <1>10 DEF EagerRecv
  <2>2. UNCHANGED wire \/ (HasPacket("client") /\ wire' = Consumed("client"))
    BY <1>10 DEF EagerRecv
  <2>3. QED
    BY <1>a, <2>1, <2>2 DEF ClientRecvContinue
<1>11. QED
  BY <1>1, <1>2, <1>3, <1>4, <1>5, <1>6, <1>7, <1>8, <1>9, <1>10 DEF ClientStep, Client

\* Every step keeps FromServer.
LEMMA FromServerNext ==
    ASSUME Types, Types', HandshakeInv, ServerStep \/ ClientStep
    PROVE  FromServer'
<1> USE DEF Side
<1> DEFINE w == wire["server"]
<1>0. FromServer /\ ServerLife /\ ClientLife /\ ServerResult /\ ClientResult
  BY DEF HandshakeInv
<1>1. w \in Seq(Packet) /\ Len(w) \in Nat /\ wire'["server"] \in Seq(Packet)
  BY LenProperties DEF Types
<1>2. CASE ServerStep
  <2>1. UNCHANGED cfg /\ st'["client"] = st["client"] /\ result'["client"] = result["client"]
    BY <1>2, ServerFrame
  <2>2. result["server"].version # 0 => result'["server"].version = result["server"].version
    BY <1>2, ServerResultStep
  <2>3. Busy \/ Closing
    BY <1>2, ServerSends
  <2>11. st'["server"] # "start"
    BY <1>2, ServerSends
  <2>4. Undisturbed' => Undisturbed
    BY <1>2, DisturbedForEver
  <2>5. Unread' <=> Unread
    BY <2>1 DEF Unread
  <2>6. CASE /\ wire'["server"] = w
             /\ st["server"] = "start" => st'["server"] \in {"failed", "cancelled"}
    <3>1. ServerSilent' /\ ServerKinds' /\ ServerInfos'
      BY <1>0, <1>1, <2>1, <2>11, <2>6 DEF FromServer, ServerSilent, ServerKinds, ServerInfos
    <3>2. ServerContinues'
      <4>1. cfg.server = "v1" \/ cfg.server = "v2"
        BY DEF Types, Config
      <4>2. QED
        BY <1>0, <2>1, <2>2, <2>6, <4>1 DEF FromServer, ServerContinues
    <3>3. ServerInfoFirst'
      <4>1. CASE Busy
        BY <1>0, <2>1, <4>1, <2>5, <2>6 DEF FromServer, ServerInfoFirst, Busy
      <4>2. CASE Closing
        <5>1. st["server"] \in {"closing", "ended"}
          BY <4>2 DEF Closing
        <5>2. st'["server"] = st["server"] \/ st'["server"] \in {"failed", "cancelled"}
          BY <4>2 DEF Closing, CloseDone, Cancel, Types
        <5>3. QED
          BY <1>0, <2>1, <2>5, <2>6, <5>1, <5>2 DEF FromServer, ServerInfoFirst
      <4>3. QED
        BY <2>3, <4>1, <4>2
    <3>4. ServerCloses'
      BY <1>0, <2>4, <2>6 DEF FromServer, ServerCloses
    <3>5. QED
      BY <3>1, <3>2, <3>3, <3>4 DEF FromServer
  <2>7. ASSUME NEW p, Sends("server", p)
        PROVE  /\ p \in Packet /\ Len(wire'["server"]) = Len(w) + 1 /\ wire'["server"] # <<>>
               /\ \A i \in 1 .. Len(w) : wire'["server"][i] = w[i]
               /\ wire'["server"][Len(w) + 1] = p
               /\ \A i \in 1 .. Len(wire'["server"]) : i \in 1 .. Len(w) \/ i = Len(w) + 1
    <3>1. /\ p \in Packet /\ Len(wire'["server"]) = Len(w) + 1 /\ wire'["server"] # <<>>
          /\ \A i \in 1 .. Len(w) : wire'["server"][i] = w[i]
          /\ wire'["server"][Len(w) + 1] = p
      BY <2>7, SendsEffect
    <3>2. QED
      BY <1>1, <3>1
  <2>8. CASE /\ Sends("server", [type |-> "info", exts |-> cfg.offers, creds |-> "none"])
             /\ st["server"] = "start" /\ st'["server"] = "middleware" /\ cfg.server = "v2"
    <3> DEFINE p == [type |-> "info", exts |-> cfg.offers, creds |-> "none"]
    <3>1. w = <<>> /\ Len(w) = 0
      BY <1>0, <2>8, EmptySeq DEF FromServer, ServerSilent
    <3>2. p.type = "info" /\ p.exts = cfg.offers /\ Sends("server", p)
      BY <2>8
    <3> HIDE DEF p
    <3>3. /\ Len(wire'["server"]) = 1 /\ wire'["server"] # <<>> /\ wire'["server"][1] = p
      BY <2>7, <3>1, <3>2
    <3>4. \A i \in 1 .. Len(wire'["server"]) : i = 1 /\ wire'["server"][i] = p
      BY <3>3
    <3>5. result["client"].version = 0 /\ st["client"] \notin {"middleware", "build", "created", "open"}
          /\ (st["client"] = "continue" => cfg.client = "v1")
      <4>1. result["server"].version = 0
        BY <1>0, <2>8 DEF ServerLife, NoResult
      <4>2. result["client"].version \in 0 .. 2
        BY DEF Types, Results
      <4>3. result["client"].version = 0
        BY <1>0, <4>1, <4>2 DEF ClientResult
      <4>4. cfg.client \in {"v1", "v2", "eager"}
        BY DEF Types, Config
      <4>5. QED
        BY <1>0, <2>8, <4>3, <4>4 DEF ClientLife, FromServer, ServerSilent, Eager
    <3>6. QED
      BY <2>1, <2>8, <3>2, <3>3, <3>4, <3>5
      DEF FromServer, ServerSilent, ServerKinds, ServerInfos, ServerContinues, ServerInfoFirst, ServerCloses
  <2>9. CASE /\ Sends("server", [type |-> "continue", buffer |-> BufferSize])
             /\ result["server"].version = 0
             /\ result'["server"].version = (IF cfg.server = "v1" THEN 1 ELSE 2)
             /\ st["server"] = "start" => cfg.server = "v1"
    <3> DEFINE p == [type |-> "continue", buffer |-> BufferSize]
    <3>1. p.type = "continue" /\ Sends("server", p)
      BY <2>9
    <3> HIDE DEF p
    <3>2. \A i \in 1 .. Len(w) : w[i].type # "continue"
      BY <1>0, <2>9 DEF FromServer, ServerContinues
    <3>3. result["client"].version = 0
      <4>1. result["client"].version \in 0 .. 2
        BY DEF Types, Results
      <4>2. QED
        BY <1>0, <2>9, <4>1 DEF ClientResult
    <3>4. w # <<>> => 1 \in 1 .. Len(w)
      BY <1>1, EmptySeq
    <3>5. QED
      <4>1. ServerSilent' /\ ServerKinds' /\ ServerInfos'
        <5>1. ServerSilent'
          BY <2>11 DEF ServerSilent
        <5>2. ServerKinds'
          BY <1>0, <2>7, <3>1 DEF FromServer, ServerKinds
        <5>3. \A i \in 1 .. Len(wire'["server"]) : wire'["server"][i].type = "info" =>
                 i \in 1 .. Len(w) /\ wire'["server"][i] = w[i]
          BY <2>7, <3>1
        <5>4. ServerInfos'
          BY <1>0, <2>1, <5>3 DEF FromServer, ServerInfos
        <5>5. QED
          BY <5>1, <5>2, <5>4
      <4>2. ServerContinues'
        BY <1>1, <2>1, <2>7, <2>9, <3>1, <3>2, <3>3 DEF ServerContinues
      <4>3. ServerInfoFirst'
        <5>1. Unread /\ cfg.server = "v2" => w # <<>> /\ w[1].type = "info"
          <6>1. ~Closing
            BY <1>1, <2>7, <3>1 DEF Closing, CloseDone, Cancel
          <6>2. QED
            BY <1>0, <2>3, <2>9, <6>1 DEF FromServer, ServerInfoFirst, Busy
        <5>2. QED
          BY <2>1, <2>5, <2>7, <3>1, <3>4, <5>1 DEF ServerInfoFirst
      <4>4. ServerCloses'
        BY <1>0, <1>1, <2>4, <2>7, <3>1 DEF FromServer, ServerCloses
      <4>5. QED
        BY <4>1, <4>2, <4>3, <4>4 DEF FromServer
  <2>10. CASE /\ Sends("server", [type |-> "close"])
              /\ st["server"] # "start" /\ ~Undisturbed'
    <3> DEFINE p == [type |-> "close"]
    <3>1. p.type = "close" /\ Sends("server", p)
      BY <2>10
    <3> HIDE DEF p
    <3>2. w # <<>> => 1 \in 1 .. Len(w)
      BY <1>1, EmptySeq
    <3>3. QED
      <4>1. ServerSilent' /\ ServerKinds' /\ ServerInfos'
        <5>1. ServerSilent'
          BY <2>11 DEF ServerSilent
        <5>2. ServerKinds'
          BY <1>0, <2>7, <3>1 DEF FromServer, ServerKinds
        <5>3. \A i \in 1 .. Len(wire'["server"]) : wire'["server"][i].type = "info" =>
                 i \in 1 .. Len(w) /\ wire'["server"][i] = w[i]
          BY <2>7, <3>1
        <5>4. ServerInfos'
          BY <1>0, <2>1, <5>3 DEF FromServer, ServerInfos
        <5>5. QED
          BY <5>1, <5>2, <5>4
      <4>2. ServerContinues'
        <5>1. cfg.server = "v1" \/ cfg.server = "v2"
          BY DEF Types, Config
        <5>2. \A i \in 1 .. Len(wire'["server"]) : wire'["server"][i].type = "continue" =>
                 i \in 1 .. Len(w) /\ wire'["server"][i] = w[i]
          BY <2>7, <3>1
        <5>3. QED
          BY <1>0, <2>1, <2>2, <5>1, <5>2 DEF FromServer, ServerContinues
      <4>3. ServerInfoFirst'
        <5>1. Unread /\ cfg.server = "v2" => w # <<>> /\ w[1].type = "info"
          <6>1. ~Closing
            BY <1>1, <2>7, <3>1 DEF Closing, CloseDone, Cancel
          <6>2. QED
            BY <1>0, <2>3, <2>10, <6>1 DEF FromServer, ServerInfoFirst, Busy
        <5>2. QED
          BY <2>1, <2>5, <2>7, <3>1, <3>2, <5>1 DEF ServerInfoFirst
      <4>4. ServerCloses'
        BY <2>10 DEF ServerCloses
      <4>5. QED
        BY <4>1, <4>2, <4>3, <4>4 DEF FromServer
  <2>12. QED
    BY <1>2, <2>6, <2>8, <2>9, <2>10, ServerSends
<1>3. CASE ClientStep
  <2>1. UNCHANGED cfg /\ st'["server"] = st["server"] /\ result'["server"] = result["server"]
    BY <1>0, <1>3, ClientFrame
  <2>2. ~Unread'
    BY <1>3, ClientTakes
  <2>3. Undisturbed' => Undisturbed
    BY <1>3, DisturbedForEver
  <2>4. CASE /\ wire'["server"] = wire["server"] /\ ~ClientRecvContinue
             /\ \/ st'["client"] \in {st["client"], "closing", "cancelled", "failed", "ended"}
                \/ st["client"] \in {"middleware", "build"}
                \/ st["client"] = "created" /\ st'["client"] = "open"
    <3>1. result'["client"].version = result["client"].version
      BY <1>3, <2>4, ClientResultStep
    <3>2. QED
      <4>1. ServerSilent' /\ ServerKinds'
        BY <1>0, <2>1, <2>4 DEF FromServer, ServerSilent, ServerKinds
      <4>2. ServerInfos'
        BY <1>0, <2>1, <2>4 DEF FromServer, ServerInfos
      <4>3. ServerContinues'
        BY <1>0, <2>1, <2>4, <3>1 DEF FromServer, ServerContinues
      <4>4. ServerInfoFirst' /\ ServerCloses'
        BY <1>0, <2>2, <2>3, <2>4 DEF FromServer, ServerInfoFirst, ServerCloses
      <4>5. QED
        BY <4>1, <4>2, <4>3, <4>4 DEF FromServer
  <2>5. CASE /\ HasPacket("client") /\ Len(w) \in Nat /\ Len(w) > 0
             /\ Len(wire'["server"]) = Len(w) - 1
             /\ \A i \in 1 .. Len(w) - 1 : wire'["server"][i] = w[i + 1]
    <3>1. st["server"] # "start"
      BY <1>0, <2>5 DEF FromServer, ServerSilent, HasPacket, Peer
    <3>2. \A i \in 1 .. Len(wire'["server"]) : i + 1 \in 1 .. Len(w) /\ i + 1 # 1 /\ wire'["server"][i] = w[i + 1]
      BY <1>1, <2>5
    <3>3. ASSUME NEW i \in 1 .. Len(wire'["server"]), wire'["server"][i].type = "continue"
          PROVE  result'["client"].version = result["client"].version
      <4>1. w[1].type # "continue"
        <5>1. i + 1 \in 1 .. Len(w) /\ w[i + 1].type = "continue" /\ 1 \in 1 .. Len(w) /\ i + 1 # 1
          BY <2>5, <3>2, <3>3
        <5>2. QED
          BY <1>0, <5>1 DEF FromServer, ServerContinues
      <4>2. Head1("client") = w[1]
        BY <2>5, Reading DEF Types, Peer
      <4>3. ~ClientRecvContinue
        BY <4>1, <4>2 DEF ClientRecvContinue
      <4>4. QED
        BY <1>3, <4>3, ClientResultStep
    <3>4. QED
      <4>1. ServerSilent' /\ ServerKinds'
        BY <1>0, <2>1, <3>1, <3>2 DEF FromServer, ServerSilent, ServerKinds
      <4>2. ServerInfos'
        BY <1>0, <3>2 DEF FromServer, ServerInfos
      <4>3. ServerContinues'
        BY <1>0, <2>1, <2>5, <3>2, <3>3 DEF FromServer, ServerContinues
      <4>4. ServerInfoFirst' /\ ServerCloses'
        BY <1>0, <2>2, <2>3, <3>2 DEF FromServer, ServerInfoFirst, ServerCloses
      <4>5. QED
        BY <4>1, <4>2, <4>3, <4>4 DEF FromServer
  <2>6. QED
    BY <1>3, <2>4, <2>5, ClientTakes
<1>4. QED
  BY <1>2, <1>3

\* What a step of the client puts on its wire.
LEMMA ClientSends ==
    ASSUME Types, HandshakeInv, ClientStep
    PROVE  \/ wire'["client"] = wire["client"] /\ sent' = sent
           \/ /\ Sends("client", [type |-> "info", exts |-> Has("client"), creds |-> creds])
              /\ st["client"] = "build" /\ st'["client"] = "continue" /\ Has("client")' = Has("client")
              /\ creds' = creds /\ Has("client") \cap Auth \subseteq cfg.offers /\ sent' = sent
           \/ /\ Sends("client", [type |-> "close"]) /\ sent' = sent
              /\ st["client"] = "created" /\ ~Undisturbed'
           \/ /\ Sends("client", [type |-> Kind(sent + 1)]) /\ sent' = sent + 1
              /\ st["client"] = "eager"
<1> USE HandshakeAssumption DEF Types, Side, Fail, Created
<1>0. ClientLife /\ ClientBuilders
  BY DEF HandshakeInv
<1>a. [type |-> "close"] \in Packet /\ [type |-> "connect"] \in Packet /\ [type |-> "data"] \in Packet
  BY PacketsMade
<1>b. HasPacket("client") => Consumed("client")["client"] = wire["client"]
  BY Reading
<1>1. CASE ClientRecvInfo \/ ClientRecvContinue \/ ClientRecvOther
  BY <1>1, <1>b DEF ClientRecvInfo, ClientRecvContinue, ClientRecvOther
<1>2. CASE ClientClosure
  BY <1>2 DEF ClientClosure, Middleware
<1>3. CASE ClientInfo
  <2>1. st["client"] = "build" /\ UNCHANGED <<creds, sent>>
    BY <1>3 DEF ClientInfo, SendInfo
  <2>2. CASE UNCHANGED wire
    BY <2>1, <2>2
  <2>3. CASE /\ \A e \in DOMAIN builder["client"] : BuildToOk("client", e)
             /\ builder' = [builder EXCEPT !["client"] = BuildTo("client")]
             /\ wire' = Append1(wire, "client", [type |-> "info", exts |-> DOMAIN builder["client"],
                                                 creds |-> IF "client" = "client" THEN creds ELSE "none"])
             /\ st' = [st EXCEPT !["client"] = "continue"]
    <3>1. Has("client") \in SUBSET Exts /\ creds \in {"none", "good", "bad"}
      BY BuildersKept
    <3>2. [type |-> "info", exts |-> Has("client"), creds |-> creds] \in Packet
      BY <3>1, PacketsMade
    <3>3. wire' = Append1(wire, "client", [type |-> "info", exts |-> Has("client"), creds |-> creds])
      BY <2>3 DEF Has
    <3>4. Sends("client", [type |-> "info", exts |-> Has("client"), creds |-> creds])
      BY <3>2, <3>3, SendsIs
    <3>5. Has("client")' = Has("client")
      BY <2>3, BuildersKept DEF Has
    <3>6. Has("client") \cap Auth \subseteq cfg.offers
      <4>1. ASSUME NEW e \in Has("client") \cap Auth PROVE builder["client"][e] = "after"
        BY <2>3, <4>1 DEF BuildToOk, Has, Auth
      <4>2. QED
        BY <1>0, <4>1 DEF ClientBuilders
    <3>7. QED
      BY <2>1, <2>3, <3>4, <3>5, <3>6
  <2>4. QED
    BY <1>3, <2>2, <2>3 DEF ClientInfo, SendInfo
<1>4. CASE RecvEof("client") \/ CloseDone("client") \/ Cancel("client")
  BY <1>4 DEF RecvEof, CloseDone, Cancel
<1>5. CASE Require("client")
  <2>1. st["client"] = "created" /\ sent' = sent
    BY <1>5 DEF Require
  <2>2. CASE Required("client") \subseteq result["client"].exts
    BY <1>5, <2>1, <2>2 DEF Require
  <2>3. CASE ~(Required("client") \subseteq result["client"].exts)
    <3>1. wire' = Append1(wire, "client", [type |-> "close"])
      BY <1>5, <2>3 DEF Require
    <3>2. Sends("client", [type |-> "close"])
      BY <1>a, <3>1, SendsIs
    <3>3. ~Undisturbed'
      BY <2>1, <2>3, RequiredIsThere, DisturbedForEver
    <3>4. QED
      BY <2>1, <3>2, <3>3
  <2>4. QED
    BY <2>2, <2>3
<1>6. CASE ActorRecv("client") \/ EagerRecv
  BY <1>6, <1>b DEF ActorRecv, EagerRecv
<1>7. CASE EagerSend
  <2>1. st["client"] = "eager" /\ sent' = sent + 1 /\ sent \in Nat
    BY <1>7 DEF EagerSend
  <2>2. Kind(sent + 1) = IF sent = 0 THEN "connect" ELSE "data"
    BY <2>1 DEF Kind
  <2>3. wire' = Append1(wire, "client", [type |-> Kind(sent + 1)])
    BY <1>7, <2>2 DEF EagerSend
  <2>4. [type |-> Kind(sent + 1)] \in Packet
    BY <1>a, <2>2
  <2>5. QED
    BY <2>1, <2>3, <2>4, SendsIs
<1>8. QED
  BY <1>1, <1>2, <1>3, <1>4, <1>5, <1>6, <1>7 DEF ClientStep, Client

\* What a step of the server takes off the client's wire, and where it goes.
LEMMA ServerTakes ==
    ASSUME Types, HandshakeInv, ServerStep
    PROVE  \/ /\ wire'["client"] = wire["client"] /\ ~ServerRecvInfo
              /\ \/ handled' = handled /\ result'["server"].packet = result["server"].packet
                 \/ /\ handled' = handled \o result["server"].packet /\ result'["server"].packet = <<>>
                    /\ st["server"] \in {"created", "open"}
           \/ /\ HasPacket("server") /\ wire'["client"] = Tail(wire["client"])
              /\ Head1("server") = Head(wire["client"]) /\ result["server"].packet = <<>>
              /\ \/ /\ st'["server"] = "created" /\ st["server"] = "info" /\ handled' = handled
                    /\ Head1("server").type # "info" /\ result'["server"].packet = <<Head1("server")>>
                 \/ /\ st'["server"] = "open" /\ st["server"] = "open"
                    /\ handled' = Append(handled, Head1("server"))
                    /\ Head1("server").type \in {"connect", "data"} /\ result'["server"].packet = <<>>
                 \/ /\ handled' = handled /\ result'["server"].packet = <<>>
                    /\ Head1("server").type = "info" \/ st'["server"] \in {"failed", "ended"}
<1> USE HandshakeAssumption DEF Types, Side, Fail, Created
<1>0. ServerLife
  BY DEF HandshakeInv
<1>a. HasPacket("server") => Consumed("server")["client"] = Tail(wire["client"])
  BY DEF Consumed, Peer
<1>b. Head1("server") = Head(wire["client"])
  BY DEF Head1, Peer
<1>c. ASSUME NEW p PROVE Append1(wire, "server", p)["client"] = wire["client"]
  BY DEF Append1
<1>d. ASSUME HasPacket("server"), NEW p
      PROVE  Append1(Consumed("server"), "server", p)["client"] = Tail(wire["client"])
  <2>1. Consumed("server") \in [Side -> Seq(Packet)]
    BY <1>d, Reading
  <2>2. QED
    BY <1>a, <1>d, <2>1 DEF Append1
<1>1. CASE ServerV1
  <2>1. st["server"] = "start" /\ wire'["client"] = wire["client"] /\ handled' = handled
    BY <1>1, <1>c DEF ServerV1
  <2>2. result["server"].packet = <<>> /\ result'["server"].packet = <<>>
    BY <1>0, <1>1 DEF ServerV1, ServerLife, NoResult, V1Result
  <2>3. QED
    BY <2>1, <2>2 DEF ServerRecvInfo
<1>2. CASE ServerInfo
  <2>1. st["server"] = "start" /\ wire'["client"] = wire["client"] /\ UNCHANGED <<handled, result>>
    BY <1>2, <1>c DEF ServerInfo, SendInfo
  <2>2. QED
    BY <2>1 DEF ServerRecvInfo
<1>3. CASE ServerClosure
  <2>1. st["server"] = "middleware" /\ UNCHANGED <<wire, handled, result>>
    BY <1>3 DEF ServerClosure, Middleware
  <2>2. QED
    BY <2>1 DEF ServerRecvInfo
<1>4. CASE ServerRecvInfo
  <2>1. /\ HasPacket("server") /\ Head1("server").type = "info" /\ st["server"] = "info"
        /\ UNCHANGED handled
    BY <1>4 DEF ServerRecvInfo
  <2>2. result["server"].packet = <<>>
    BY <1>0, <2>1 DEF ServerLife, NoResult
  <2>3. result'["server"].packet = <<>>
    BY <1>4, <2>2 DEF ServerRecvInfo, V2Result
  <2>4. wire'["client"] = Tail(wire["client"])
    BY <1>4, <1>a, <1>d, <2>1 DEF ServerRecvInfo
  <2>5. QED
    BY <1>b, <2>1, <2>2, <2>3, <2>4
<1>5. CASE ServerRecvPacket
  <2>1. /\ HasPacket("server") /\ Head1("server").type # "info" /\ st["server"] = "info"
        /\ UNCHANGED handled /\ st'["server"] = "created" /\ wire' = Consumed("server")
    BY <1>5 DEF ServerRecvPacket
  <2>2. result["server"].packet = <<>>
    BY <1>0, <2>1 DEF ServerLife, NoResult
  <2>3. result'["server"].packet = <<Head1("server")>>
    BY <1>5 DEF ServerRecvPacket, V1Result
  <2>4. QED
    BY <1>a, <1>b, <2>1, <2>2, <2>3
<1>6. CASE RecvEof("server") \/ CloseDone("server") \/ Cancel("server")
  <2>1. UNCHANGED <<wire, handled, result>>
    BY <1>6 DEF RecvEof, CloseDone, Cancel
  <2>2. ~ServerRecvInfo
    <3>1. RecvEof("server") => ~HasPacket("server")
      BY DEF RecvEof, AtEof, HasPacket
    <3>2. Cancel("server") => st'["server"] = "cancelled"
      BY DEF Cancel
    <3>3. ServerRecvInfo => HasPacket("server") /\ st["server"] = "info" /\ st'["server"] # "cancelled"
      BY DEF ServerRecvInfo
    <3>5. CloseDone("server") => st["server"] # "info"
      BY DEF CloseDone
    <3>4. QED
      BY <1>6, <3>1, <3>2, <3>3, <3>5
  <2>3. QED
    BY <2>1, <2>2
<1>7. CASE Require("server")
  <2>1. st["server"] = "created" /\ ~ServerRecvInfo
    BY <1>7 DEF Require, ServerRecvInfo
  <2>2. CASE Required("server") \subseteq result["server"].exts
    BY <1>7, <2>1, <2>2 DEF Require
  <2>3. CASE ~(Required("server") \subseteq result["server"].exts)
    <3>1. /\ wire' = Append1(wire, "server", [type |-> "close"])
          /\ handled' = handled \o result["server"].packet
          /\ result' = [result EXCEPT !["server"].packet = <<>>]
      BY <1>7, <2>3 DEF Require
    <3>2. result'["server"].packet = <<>>
      BY <3>1, FieldsKept
    <3>3. QED
      BY <1>c, <2>1, <3>1, <3>2
  <2>4. QED
    BY <2>2, <2>3
<1>8. CASE ActorExtra
  <2>1. st["server"] = "open" /\ ~ServerRecvInfo
    BY <1>8 DEF ActorExtra, ServerRecvInfo
  <2>2. QED
    BY <1>8, <2>1, FieldsKept DEF ActorExtra
<1>9. CASE ActorRecv("server")
  <2>1. /\ st["server"] = "open" /\ ~ServerRecvInfo /\ result["server"].packet = <<>>
        /\ UNCHANGED result
    BY <1>9 DEF ActorRecv, ServerRecvInfo
  <2>2. CASE /\ HasPacket("server") /\ Head1("server").type \in {"connect", "data"}
             /\ wire' = Consumed("server")
             /\ handled' = Append(handled, Head1("server"))
             /\ UNCHANGED <<st, eof>>
    BY <1>a, <1>b, <2>1, <2>2
  <2>3. CASE /\ wire' = IF HasPacket("server") THEN Consumed("server") ELSE wire
             /\ st' = [st EXCEPT !["server"] = "ended"]
             /\ UNCHANGED handled
    BY <1>a, <1>b, <2>1, <2>3
  <2>4. QED
    BY <1>9, <2>2, <2>3 DEF ActorRecv
<1>10. QED
  BY <1>1, <1>2, <1>3, <1>4, <1>5, <1>6, <1>7, <1>8, <1>9 DEF ServerStep, Server

\* Every step keeps FromClient.
LEMMA FromClientNext ==
    ASSUME Types, Types', HandshakeInv, ServerStep \/ ClientStep
    PROVE  FromClient'
<1> USE DEF Side
<1> DEFINE w == wire["client"]
<1>0. FromServer /\ FromClient /\ ServerLife /\ ClientLife /\ ServerResult /\ ClientResult
  BY DEF HandshakeInv
<1>1. w \in Seq(Packet) /\ Len(w) \in Nat /\ wire'["client"] \in Seq(Packet)
  BY LenProperties DEF Types
<1>2. UNCHANGED cfg /\ (Undisturbed' => Undisturbed)
  BY <1>0, DisturbedForEver, ServerFrame, ClientFrame
<1>3. (BothV2 <=> BothV2') /\ (Eager <=> Eager') /\ (BothV2 => ~Eager /\ cfg.server # "v1")
  BY <1>2 DEF BothV2, Eager
<1>4. CASE ServerStep
  <2>1. /\ st'["client"] = st["client"] /\ result'["client"] = result["client"]
        /\ creds' = creds /\ Has("client")' = Has("client")
    BY <1>4, ServerFrame DEF Has
  <2>2. CASE wire'["client"] = w /\ ~ServerRecvInfo
    <3>1. BothV2 => result'["server"].version = result["server"].version
      BY <1>3, <1>4, <2>2, ServerResultStep
    <3>2. QED
      BY <1>0, <1>2, <1>3, <2>1, <2>2, <3>1 DEF FromClient, ClientInfos, ClientKinds, ClientCloses
  <2>3. CASE HasPacket("server") /\ wire'["client"] = Tail(w)
    <3>1. w # <<>>
      BY <2>3 DEF HasPacket, Peer
    <3>2. /\ Len(Tail(w)) = Len(w) - 1 /\ \A i \in 1 .. Len(Tail(w)) : Tail(w)[i] = w[i + 1]
      BY <1>1, <3>1, HeadTailProperties
    <3>3. \A i \in 1 .. Len(wire'["client"]) :
             i + 1 \in 1 .. Len(w) /\ i + 1 # 1 /\ wire'["client"][i] = w[i + 1]
      BY <1>1, <2>3, <3>2
    <3>4. ClientInfos'
      BY <1>0, <3>3 DEF FromClient, ClientInfos
    <3>5. ClientKinds'
      BY <1>0, <1>3, <2>1, <3>3 DEF FromClient, ClientKinds
    <3>6. ClientCloses'
      BY <1>0, <1>2, <3>3 DEF FromClient, ClientCloses
    <3>7. QED
      BY <3>4, <3>5, <3>6 DEF FromClient
  <2>4. QED
    BY <1>4, <2>2, <2>3, ServerTakes
<1>5. CASE ClientStep
  <2>1. result'["server"] = result["server"]
    BY <1>0, <1>5, ClientFrame
  <2>2. result["client"].version # 0 => result'["client"].version # 0
    <3>1. CASE ClientRecvContinue
      BY <3>1 DEF ClientRecvContinue, Created, V1Result, V2Result, Types
    <3>2. CASE ~ClientRecvContinue
      BY <1>5, <3>2, ClientResultStep
    <3>3. QED
      BY <3>1, <3>2
  <2>3. ASSUME BothV2, st["client"] \in AfterInfo
        PROVE  Has("client")' = Has("client") /\ creds' = creds /\ st'["client"] \in AfterInfo
    BY <1>3, <1>5, <2>3, ClientSettled DEF Has
  <2>4. CASE wire'["client"] = w
    <3>1. ClientInfos'
      BY <1>0, <1>2, <1>3, <2>1, <2>3, <2>4 DEF FromClient, ClientInfos
    <3>2. ClientKinds' /\ ClientCloses'
      BY <1>0, <1>2, <1>3, <2>2, <2>4 DEF FromClient, ClientKinds, ClientCloses
    <3>3. QED
      BY <3>1, <3>2 DEF FromClient
  <2>5. ASSUME NEW p, Sends("client", p)
        PROVE  /\ p \in Packet /\ Len(wire'["client"]) = Len(w) + 1
               /\ \A i \in 1 .. Len(wire'["client"]) :
                    \/ i \in 1 .. Len(w) /\ wire'["client"][i] = w[i]
                    \/ i = Len(w) + 1 /\ wire'["client"][i] = p
    <3>1. /\ p \in Packet /\ Len(wire'["client"]) = Len(w) + 1
          /\ \A i \in 1 .. Len(w) : wire'["client"][i] = w[i]
          /\ wire'["client"][Len(w) + 1] = p
      BY <2>5, SendsEffect
    <3>2. QED
      BY <1>1, <3>1
  <2>6. CASE /\ Sends("client", [type |-> "info", exts |-> Has("client"), creds |-> creds])
             /\ st["client"] = "build" /\ st'["client"] = "continue" /\ Has("client")' = Has("client")
             /\ creds' = creds /\ Has("client") \cap Auth \subseteq cfg.offers
    <3> DEFINE p == [type |-> "info", exts |-> Has("client"), creds |-> creds]
    <3>1. p.type = "info" /\ p.exts = Has("client") /\ p.creds = creds /\ Sends("client", p)
      BY <2>6
    <3> HIDE DEF p
    <3>2. w = <<>> /\ BothV2
      BY <1>0, <2>6 DEF ClientLife, BeforeInfo, BothV2
    <3>3. Len(w) = 0
      BY <3>2, EmptySeq
    <3>4. \A i \in 1 .. Len(wire'["client"]) : i = 1 /\ wire'["client"][i] = p
      BY <2>5, <3>1, <3>3
    <3>5. result["server"].version = 0
      <4>1. result["server"].version \in 0 .. 2
        BY DEF Types, Results
      <4>2. result["server"].version # 1
        BY <1>0, <1>3, <3>2 DEF ServerResult
      <4>3. result["server"].version # 2
        BY <1>0, <2>6 DEF ServerResult, AfterInfo
      <4>4. QED
        BY <4>1, <4>2, <4>3
    <3>6. ClientInfos'
      BY <1>2, <1>3, <2>1, <2>6, <3>1, <3>2, <3>4, <3>5 DEF ClientInfos, AfterInfo
    <3>7. ClientKinds' /\ ClientCloses'
      BY <1>3, <3>1, <3>2, <3>4 DEF ClientKinds, ClientCloses
    <3>8. QED
      BY <3>6, <3>7 DEF FromClient
  <2>7. CASE Sends("client", [type |-> "close"]) /\ st["client"] = "created" /\ ~Undisturbed'
    <3> DEFINE p == [type |-> "close"]
    <3>1. p.type = "close" /\ Sends("client", p)
      BY <2>7
    <3> HIDE DEF p
    <3>2. result["client"].version # 0 /\ ~Eager
      BY <1>0, <2>7 DEF ClientLife
    <3>3. \A i \in 1 .. Len(wire'["client"]) : wire'["client"][i].type = "info" =>
             i \in 1 .. Len(w) /\ wire'["client"][i] = w[i]
      BY <2>5, <3>1
    <3>4. ClientInfos'
      BY <1>0, <1>2, <1>3, <2>1, <2>3, <3>3 DEF FromClient, ClientInfos
    <3>5. ClientKinds'
      BY <1>0, <1>3, <2>2, <2>5, <3>1, <3>2 DEF FromClient, ClientKinds
    <3>6. QED
      BY <2>7, <3>4, <3>5 DEF FromClient, ClientCloses
  <2>8. CASE Sends("client", [type |-> Kind(sent + 1)]) /\ st["client"] = "eager"
    <3> DEFINE p == [type |-> Kind(sent + 1)]
    <3>1. p.type \in {"connect", "data"} /\ Sends("client", p)
      BY <2>8 DEF Kind
    <3> HIDE DEF p
    <3>2. Eager
      BY <1>0, <2>8 DEF ClientLife
    <3>3. \A i \in 1 .. Len(wire'["client"]) :
             wire'["client"][i].type \in {"info", "close"} =>
               i \in 1 .. Len(w) /\ wire'["client"][i] = w[i]
      BY <2>5, <3>1
    <3>4. ClientInfos'
      BY <1>0, <1>3, <3>2, <3>3 DEF FromClient, ClientInfos
    <3>5. ClientKinds'
      BY <1>0, <1>3, <2>2, <2>5, <3>1, <3>2 DEF FromClient, ClientKinds
    <3>6. ClientCloses'
      BY <1>0, <1>2, <3>3 DEF FromClient, ClientCloses
    <3>7. QED
      BY <3>4, <3>5, <3>6 DEF FromClient
  <2>9. QED
    BY <1>5, <2>4, <2>6, <2>7, <2>8, ClientSends
<1>6. QED
  BY <1>4, <1>5

\* Every step keeps NoFailure: undisturbed, no branch that fails is enabled.
LEMMA NoFailureNext ==
    ASSUME Types, HandshakeInv, ServerStep \/ ClientStep
    PROVE  NoFailure'
<1> USE HandshakeAssumption DEF Types, Side, Created
<1>0. /\ ServerLife /\ ServerBuilders /\ ClientLife /\ ClientBuilders /\ CredsKept
      /\ FromServer /\ FromClient /\ NoFailure
  BY DEF HandshakeInv
<1>1. SUFFICES ASSUME Undisturbed' PROVE \A s \in Side : st'[s] \notin {"closing", "failed", "ended"} /\ ~eof'[s]
  BY DEF NoFailure
<1>2. Undisturbed /\ UNCHANGED cfg
  BY <1>1, DisturbedForEver
<1>3. \A s \in Side : st[s] \notin {"closing", "failed", "ended"} /\ ~eof[s]
  BY <1>0, <1>2 DEF NoFailure
<1>4. /\ st'["client"] # "cancelled" /\ st'["server"] # "cancelled"
      /\ mw'["client"] # "fail" /\ mw'["server"] # "fail"
  BY <1>1 DEF Undisturbed
<1>5. \A s \in Side : ~eof[Peer(s)] /\ ~AtEof(s)
  BY <1>3 DEF AtEof, Peer
<1>6. CASE ServerStep
  <2>1. st'["client"] = st["client"] /\ eof'["client"] = eof["client"]
    BY <1>6, ServerFrame
  <2>2. SUFFICES st'["server"] \notin {"closing", "failed", "ended"} /\ eof'["server"] = eof["server"]
    BY <1>3, <2>1
  <2>3. CASE ServerV1
    BY <1>3, <2>3 DEF ServerV1
  <2>4. CASE ServerInfo
    <3>1. \A e \in DOMAIN builder["server"] : BuildToOk("server", e)
      BY <1>0, <2>4 DEF ServerInfo, SendInfo, ServerBuilders, BuildToOk, Has
    <3>2. QED
      BY <1>5, <2>4, <3>1 DEF ServerInfo, SendInfo
  <2>5. CASE ServerClosure
    <3>1. PICK m \in ServerMiddleware : Middleware("server", m, "info")
      BY <2>5 DEF ServerClosure
    <3>2. m # "fail"
      BY <1>4, <3>1 DEF Middleware
    <3>3. QED
      BY <3>1, <3>2 DEF Middleware
  <2>6. CASE ServerRecvInfo
    <3> DEFINE pkt == Head1("server")
               exts == pkt.exts \cap DOMAIN builder["server"]
               ok == cfg.sameMajor /\ \A e \in exts : BuildFromAllowed("server", e)
    <3>1. st["server"] = "info" /\ HasPacket("server") /\ pkt.type = "info"
      BY <2>6 DEF ServerRecvInfo
    <3>2. BothV2
      BY <1>0, <3>1, ServerReads
    <3>3. cfg.sameMajor
      BY <1>2, <3>2 DEF Undisturbed, Compatible, BothV2
    <3>4. \A e \in exts : BuildFromAllowed("server", e)
      BY <1>0, <3>1 DEF BuildFromAllowed, ServerBuilders, Has
    <3>5. ~CredsInvalid(pkt, exts)
      BY <1>2, <3>1, CredentialsFit
    <3>6. Created("server", V2Result("server", exts, BufferSize))
      BY <1>3, <2>6, <3>3, <3>4, <3>5 DEF ServerRecvInfo
    <3>7. QED
      BY <3>6
  <2>7. CASE ServerRecvPacket
    BY <2>7 DEF ServerRecvPacket
  <2>8. CASE RecvEof("server") \/ CloseDone("server") \/ Cancel("server")
    BY <1>3, <1>4, <1>5, <2>8 DEF RecvEof, CloseDone, Cancel
  <2>9. CASE Require("server")
    <3>1. Required("server") \subseteq result["server"].exts
      BY <1>2, <2>9, RequiredIsThere DEF Require
    <3>2. QED
      BY <2>9, <3>1 DEF Require
  <2>10. CASE ActorExtra
    BY <1>3, <2>10 DEF ActorExtra
  <2>11. CASE ActorRecv("server")
    <3>1. st["server"] = "open" /\ result["server"].version # 0
      BY <1>0, <2>11 DEF ActorRecv, ServerLife
    <3>2. HasPacket("server") => Head1("server").type \in {"connect", "data"}
      BY <1>0, <1>2, <3>1, ServerReads
    <3>3. QED
      BY <1>5, <2>11, <3>1, <3>2 DEF ActorRecv
  <2>12. QED
    BY <1>6, <2>3, <2>4, <2>5, <2>6, <2>7, <2>8, <2>9, <2>10, <2>11 DEF ServerStep, Server
<1>7. CASE ClientStep
  <2>1. st'["server"] = st["server"] /\ eof'["server"] = eof["server"]
    BY <1>0, <1>7, ClientFrame
  <2>2. SUFFICES st'["client"] \notin {"closing", "failed", "ended"} /\ eof'["client"] = eof["client"]
    BY <1>3, <2>1
  <2>3. CASE ClientRecvInfo
    <3>1. st["client"] = "info" /\ cfg.client = "v2" /\ cfg.server = "v2"
      BY <1>0, <2>3, ClientReads DEF ClientRecvInfo, ClientLife, BeforeInfo
    <3>2. cfg.sameMajor
      BY <1>2, <3>1 DEF Undisturbed, Compatible
    <3>3. QED
      BY <2>3, <3>2 DEF ClientRecvInfo
  <2>4. CASE ClientClosure
    <3>1. PICK m \in ClientMiddleware : Middleware("client", m, "build")
      BY <2>4 DEF ClientClosure
    <3>2. m # "fail"
      BY <1>4, <3>1 DEF Middleware
    <3>3. QED
      BY <3>1, <3>2 DEF Middleware
  <2>5. CASE ClientInfo
    <3>1. st["client"] = "build" /\ cfg.client = "v2" /\ cfg.server = "v2"
      BY <1>0, <2>5 DEF ClientInfo, SendInfo, ClientLife, BeforeInfo
    <3>2. /\ cfg.wants \cap Auth \subseteq cfg.offers
          /\ cfg.wants \cap Auth # {} => creds = "good"
      BY <1>0, <1>2, <3>1 DEF Undisturbed, Compatible, CredsKept
    <3>3. Has("client") \subseteq Plain \cup Auth /\ Has("client") \subseteq cfg.wants
      BY <1>0, BuildersKept DEF ClientBuilders, Exts
    <3>4. \A e \in Has("client") \cap cfg.offers : builder["client"][e] = "after"
      BY <1>0, <3>1 DEF ClientBuilders
    <3>5. \A e \in Has("client") : BuildToOk("client", e)
      BY <3>2, <3>3, <3>4 DEF BuildToOk
    <3>6. QED
      BY <1>5, <2>5, <3>5 DEF ClientInfo, SendInfo, Has
  <2>6. CASE ClientRecvContinue
    BY <2>6 DEF ClientRecvContinue
  <2>7. CASE ClientRecvOther
    <3>1. /\ HasPacket("client") /\ Head1("client").type # "continue"
          /\ Head1("client").type = "info" => st["client"] = "continue"
      BY <2>7 DEF ClientRecvOther
    <3>2. Head1("client").type = "info"
      BY <1>0, <1>2, <3>1, ClientReads
    <3>3. cfg.client = "v1" /\ cfg.server = "v2"
      BY <1>0, <3>1, <3>2, ClientReads
    <3>4. QED
      BY <1>2, <3>3 DEF Undisturbed, Compatible
  <2>8. CASE RecvEof("client") \/ CloseDone("client") \/ Cancel("client")
    BY <1>3, <1>4, <1>5, <2>8 DEF RecvEof, CloseDone, Cancel
  <2>9. CASE Require("client")
    <3>1. Required("client") \subseteq result["client"].exts
      BY <1>2, <2>9, RequiredIsThere DEF Require
    <3>2. QED
      BY <2>9, <3>1 DEF Require
  <2>10. CASE ActorRecv("client")
    <3>1. st["client"] = "open" /\ result["client"].version # 0
      BY <1>0, <2>10 DEF ActorRecv, ClientLife
    <3>2. ~HasPacket("client")
      BY <1>0, <1>2, <3>1, ClientReads
    <3>3. QED
      BY <1>5, <2>10, <3>2 DEF ActorRecv
  <2>11. CASE EagerSend \/ EagerRecv
    BY <1>3, <1>5, <2>11 DEF EagerSend, EagerRecv
  <2>12. QED
    BY <1>7, <2>3, <2>4, <2>5, <2>6, <2>7, <2>8, <2>9, <2>10, <2>11 DEF ClientStep, Client
<1>8. QED
  BY <1>6, <1>7

\* The eager client sends one more packet.
LEMMA StreamSend ==
    ASSUME NEW h \in Seq(Packet), NEW p \in Seq(Packet), NEW w \in Seq(Packet), NEW x \in Packet,
           NEW n \in Nat
    PROVE  /\ Total(h, p, Append(w, x)) = Total(h, p, w) + 1 /\ Total(h, p, w) \in Nat
           /\ Stream(h, p, w, n) /\ x.type = Kind(n + 1) => Stream(h, p, Append(w, x), n + 1)
<1>1. Len(h) \in Nat /\ Len(p) \in Nat /\ Len(w) \in Nat
  BY LenProperties
<1>2. /\ Len(Append(w, x)) = Len(w) + 1 /\ Append(w, x)[Len(w) + 1] = x
      /\ \A i \in 1 .. Len(w) : Append(w, x)[i] = w[i]
  BY AppendProperties
<1>3. Total(h, p, Append(w, x)) = Total(h, p, w) + 1 /\ Total(h, p, w) \in Nat
  BY <1>1, <1>2 DEF Total
<1>4. ASSUME Stream(h, p, w, n), x.type = Kind(n + 1), NEW i \in 1 .. Len(Append(w, x))
      PROVE  Append(w, x)[i].type = Kind(Len(h) + Len(p) + i)
  <2>1. CASE i \in 1 .. Len(w)
    BY <1>2, <1>4, <2>1 DEF Stream
  <2>2. CASE i = Len(w) + 1
    <3>1. n + 1 = Len(h) + Len(p) + i
      <4>1. n = Len(h) + Len(p) + Len(w)
        BY <1>4, Zenon DEF Stream, Total
      <4>2. QED
        BY <1>1, <2>2, <4>1
    <3>2. QED
      BY <1>2, <1>4, <2>2, <3>1
  <2>3. QED
    BY <1>1, <1>2, <2>1, <2>2
<1>5. QED
  BY <1>3, <1>4 DEF Stream

\* The packet of a downgrade is handled.
LEMMA StreamExtra ==
    ASSUME NEW h \in Seq(Packet), NEW p \in Seq(Packet), NEW w \in Seq(Packet), NEW n \in Nat
    PROVE  /\ Total(h \o p, <<>>, w) = Total(h, p, w)
           /\ Stream(h, p, w, n) => Stream(h \o p, <<>>, w, n)
<1>1. Len(h) \in Nat /\ Len(p) \in Nat /\ Len(w) \in Nat
  BY LenProperties
<1>2. /\ Len(h \o p) = Len(h) + Len(p) /\ Len(<<>>) = 0
      /\ \A i \in 1 .. Len(h) + Len(p) :
           (h \o p)[i] = IF i <= Len(h) THEN h[i] ELSE p[i - Len(h)]
  BY ConcatProperties
<1>3. Total(h \o p, <<>>, w) = Total(h, p, w)
  BY <1>1, <1>2 DEF Total
<1>4. ASSUME Stream(h, p, w, n), NEW i \in 1 .. Len(h \o p)
      PROVE  (h \o p)[i].type = Kind(i)
  <2>1. CASE i \in 1 .. Len(h)
    BY <1>1, <1>2, <1>4, <2>1 DEF Stream
  <2>2. CASE i > Len(h)
    <3>1. i - Len(h) \in 1 .. Len(p) /\ Len(h) + (i - Len(h)) = i
      BY <1>1, <1>2, <2>2
    <3>2. (h \o p)[i] = p[i - Len(h)]
      <4>1. i \in 1 .. Len(h) + Len(p) /\ ~(i <= Len(h))
        BY <1>1, <1>2, <2>2
      <4>2. QED
        BY <1>2, <4>1
    <3>3. p[i - Len(h)].type = Kind(Len(h) + (i - Len(h)))
      BY <1>4, <3>1 DEF Stream
    <3>4. QED
      BY <3>1, <3>2, <3>3
  <2>3. QED
    BY <1>1, <1>2, <2>1, <2>2
<1>5. ASSUME Stream(h, p, w, n), NEW i \in 1 .. Len(w)
      PROVE  w[i].type = Kind(Len(h \o p) + Len(<<>>) + i)
  <2>1. Len(h) + Len(p) + i = Len(h \o p) + Len(<<>>) + i
    BY <1>1, <1>2
  <2>2. QED
    BY <1>5, <2>1 DEF Stream
<1>6. \A i \in 1 .. Len(<<>>) : FALSE
  BY <1>2
<1>7. QED
  BY <1>3, <1>4, <1>5, <1>6 DEF Stream

\* The server reads a packet: into the result of its handshake, or by its actor.
LEMMA StreamTake ==
    ASSUME NEW h \in Seq(Packet), NEW w \in Seq(Packet), NEW n \in Nat, w # <<>>
    PROVE  /\ Total(h, <<>>, Tail(w)) = Total(h, <<>>, w) - 1
           /\ Total(h, <<Head(w)>>, Tail(w)) = Total(h, <<>>, w)
           /\ Total(Append(h, Head(w)), <<>>, Tail(w)) = Total(h, <<>>, w)
           /\ Stream(h, <<>>, w, n) => /\ Stream(h, <<Head(w)>>, Tail(w), n)
                                       /\ Stream(Append(h, Head(w)), <<>>, Tail(w), n)
<1> DEFINE x == Head(w)
           v == Tail(w)
           g == Append(h, x)
<1>1. /\ Len(h) \in Nat /\ Len(w) \in Nat /\ Len(w) > 0 /\ x \in Packet /\ x = w[1]
      /\ Len(v) = Len(w) - 1 /\ \A i \in 1 .. Len(v) : v[i] = w[i + 1]
  BY LenProperties, HeadTailProperties, EmptySeq, ElementOfSeq
<1>2. /\ Len(g) = Len(h) + 1 /\ g[Len(h) + 1] = x
      /\ \A i \in 1 .. Len(h) : g[i] = h[i]
  BY <1>1, AppendProperties
<1>3. Len(<<>>) = 0 /\ Len(<<x>>) = 1 /\ <<x>>[1] = x
  OBVIOUS
<1> HIDE DEF x, v, g
<1>4. /\ Total(h, <<>>, v) = Total(h, <<>>, w) - 1 /\ Total(h, <<x>>, v) = Total(h, <<>>, w)
      /\ Total(g, <<>>, v) = Total(h, <<>>, w)
  BY <1>1, <1>2, <1>3 DEF Total
<1>5. ASSUME Stream(h, <<>>, w, n)
      PROVE  Stream(h, <<x>>, v, n) /\ Stream(g, <<>>, v, n)
  <2>1. /\ \A i \in 1 .. Len(h) : h[i].type = Kind(i)
        /\ \A i \in 1 .. Len(w) : w[i].type = Kind(Len(h) + 0 + i)
    BY <1>3, <1>5 DEF Stream
  <2>2. x.type = Kind(Len(h) + 1)
    <3>1. 1 \in 1 .. Len(w) /\ Len(h) + 0 + 1 = Len(h) + 1
      BY <1>1
    <3>2. QED
      BY <1>1, <2>1, <3>1
  <2>3. ASSUME NEW i \in 1 .. Len(v) PROVE v[i].type = Kind(Len(h) + 1 + i)
    <3>1. i + 1 \in 1 .. Len(w) /\ Len(h) + 0 + (i + 1) = Len(h) + 1 + i
      BY <1>1
    <3>2. QED
      BY <1>1, <2>1, <3>1
  <2>4. Stream(h, <<x>>, v, n)
    <3>1. \A i \in 1 .. Len(<<x>>) : i = 1
      BY <1>3
    <3>2. \A i \in 1 .. Len(<<x>>) : <<x>>[i].type = Kind(Len(h) + i)
      BY <1>3, <2>2, <3>1
    <3>3. \A i \in 1 .. Len(v) : v[i].type = Kind(Len(h) + Len(<<x>>) + i)
      BY <1>3, <2>3
    <3>4. QED
      BY <1>4, <1>5, <2>1, <3>2, <3>3 DEF Stream
  <2>5. Stream(g, <<>>, v, n)
    <3>1. \A i \in 1 .. Len(g) : i \in 1 .. Len(h) \/ i = Len(h) + 1
      BY <1>1, <1>2
    <3>2. \A i \in 1 .. Len(g) : g[i].type = Kind(i)
      BY <1>2, <2>1, <2>2, <3>1
    <3>3. ASSUME NEW i \in 1 .. Len(v) PROVE v[i].type = Kind(Len(g) + Len(<<>>) + i)
      <4>1. Len(h) + 1 + i = Len(g) + Len(<<>>) + i
        BY <1>1, <1>2, <1>3
      <4>2. QED
        BY <2>3, <4>1
    <3>4. \A i \in 1 .. Len(<<>>) : FALSE
      BY <1>3
    <3>5. QED
      BY <1>4, <1>5, <3>2, <3>3, <3>4 DEF Stream
  <2>6. QED
    BY <2>4, <2>5
<1>6. QED
  BY <1>4, <1>5 DEF x, v, g

\* Every step keeps EagerCount and EagerStream.
LEMMA EagerNext ==
    ASSUME Types, HandshakeInv, ServerStep \/ ClientStep
    PROVE  EagerCount' /\ EagerStream'
<1> USE DEF Side
<1> DEFINE w == wire["client"]
           p == result["server"].packet
<1>0. /\ FromServer /\ FromClient /\ ServerLife /\ ClientLife /\ ClientResult
      /\ EagerCount /\ EagerStream
  BY DEF HandshakeInv
<1>1. UNCHANGED cfg /\ (Eager' <=> Eager)
  BY <1>0, ServerFrame, ClientFrame DEF Eager
<1>2. w \in Seq(Packet) /\ p \in Seq(Packet) /\ handled \in Seq(Packet) /\ sent \in Nat
  BY HandshakeAssumption DEF Types, Results
<1>3. CASE ClientStep
  <2>1. handled' = handled /\ result'["server"] = result["server"] /\ st'["server"] = st["server"]
    BY <1>0, <1>3, ClientFrame
  <2>2. CASE wire'["client"] = w /\ sent' = sent
    BY <1>0, <1>1, <2>1, <2>2 DEF EagerCount, EagerStream
  <2>3. CASE st["client"] \in {"build", "created"} /\ sent' = sent
    <3>1. ~Eager
      BY <1>0, <2>3 DEF ClientLife
    <3>2. QED
      BY <1>0, <1>1, <2>1, <2>3, <3>1 DEF EagerCount, EagerStream
  <2>4. CASE Sends("client", [type |-> Kind(sent + 1)]) /\ sent' = sent + 1 /\ st["client"] = "eager"
    <3> DEFINE x == [type |-> Kind(sent + 1)]
    <3>1. x.type = Kind(sent + 1) /\ x \in Packet /\ wire'["client"] = Append(w, x) /\ Eager
      BY <1>0, <2>4 DEF Sends, ClientLife
    <3> HIDE DEF x
    <3>2. /\ Total(handled, p, Append(w, x)) = Total(handled, p, w) + 1
          /\ Total(handled, p, w) \in Nat
          /\ Stream(handled, p, w, sent) => Stream(handled, p, Append(w, x), sent + 1)
      BY <1>2, <3>1, StreamSend
    <3>3. EagerCount'
      <4>1. Total(handled, p, w) <= sent
        BY <1>0, <3>1 DEF EagerCount
      <4>2. Total(handled, p, Append(w, x)) <= sent + 1
        BY <1>2, <3>2, <4>1
      <4>3. QED
        BY <1>0, <1>1, <2>1, <2>4, <3>1, <4>2 DEF EagerCount
    <3>4. EagerStream'
      BY <1>0, <1>1, <2>1, <2>4, <3>1, <3>2 DEF EagerStream
    <3>5. QED
      BY <3>3, <3>4
  <2>5. QED
    BY <1>3, <2>2, <2>3, <2>4, ClientSends
<1>4. CASE ServerStep
  <2>1. sent' = sent /\ (Busy \/ Closing)
    BY <1>4, ServerFrame, ServerSends
  <2>9. CASE Closing
    <3>1. UNCHANGED <<wire, handled, result>>
      BY <2>9 DEF Closing, CloseDone, Cancel
    <3>2. st'["server"] \in {"failed", "ended", "cancelled"}
      BY <2>9 DEF Closing, CloseDone, Cancel, Types
    <3>3. QED
      BY <1>0, <1>1, <2>1, <3>1, <3>2 DEF EagerCount, EagerStream
  <2> SUFFICES ASSUME Busy PROVE EagerCount' /\ EagerStream'
    BY <2>1, <2>9
  <2>2. Eager => Total(handled, p, w) <= sent /\ Stream(handled, p, w, sent)
    BY <1>0, <2>1 DEF EagerCount, EagerStream, Busy
  <2>3. CASE wire'["client"] = w /\ handled' = handled /\ result'["server"].packet = p
    BY <1>0, <1>1, <2>1, <2>2, <2>3 DEF EagerCount, EagerStream
  <2>4. CASE wire'["client"] = w /\ handled' = handled \o p /\ result'["server"].packet = <<>>
    <3>1. CASE Eager
      <4>1. /\ Total(handled \o p, <<>>, w) = Total(handled, p, w)
            /\ Stream(handled \o p, <<>>, w, sent)
        BY <1>2, <2>2, <3>1, StreamExtra
      <4>2. QED
        BY <1>1, <2>1, <2>2, <2>4, <3>1, <4>1 DEF EagerCount, EagerStream
    <3>2. CASE ~Eager
      <4>1. handled = <<>> /\ p = <<>> /\ <<>> \o <<>> = <<>>
        BY <1>0, <3>2, ConcatEmptySeq DEF EagerCount
      <4>2. QED
        BY <1>0, <1>1, <2>1, <2>4, <3>2, <4>1 DEF EagerCount, EagerStream
    <3>3. QED
      BY <3>1, <3>2
  <2>5. CASE /\ HasPacket("server") /\ wire'["client"] = Tail(w)
             /\ Head1("server") = Head(w) /\ p = <<>>
             /\ \/ /\ st["server"] = "info" /\ handled' = handled
                   /\ Head1("server").type # "info" /\ result'["server"].packet = <<Head1("server")>>
                \/ /\ handled' = Append(handled, Head1("server"))
                   /\ Head1("server").type \in {"connect", "data"} /\ result'["server"].packet = <<>>
                \/ /\ handled' = handled /\ result'["server"].packet = <<>>
                   /\ Head1("server").type = "info" \/ st'["server"] \in {"failed", "ended"}
    <3>1. w # <<>>
      BY <2>5 DEF HasPacket, Peer
    <3>2. /\ Total(handled, <<>>, Tail(w)) = Total(handled, <<>>, w) - 1
          /\ Total(handled, <<Head(w)>>, Tail(w)) = Total(handled, <<>>, w)
          /\ Total(Append(handled, Head(w)), <<>>, Tail(w)) = Total(handled, <<>>, w)
          /\ Stream(handled, <<>>, w, sent) =>
               /\ Stream(handled, <<Head(w)>>, Tail(w), sent)
               /\ Stream(Append(handled, Head(w)), <<>>, Tail(w), sent)
      BY <1>2, <3>1, StreamTake
    <3>3. Eager => Total(handled, <<>>, w) <= sent /\ Stream(handled, <<>>, w, sent)
      BY <2>2, <2>5
    <3>4. CASE handled' = handled /\ result'["server"].packet = <<>>
               /\ (Head1("server").type = "info" \/ st'["server"] \in {"failed", "ended"})
      <4>1. Eager => Total(handled, <<>>, Tail(w)) <= sent
        <5>1. Total(handled, <<>>, w) \in Int
          <6>1. Len(handled) \in Nat /\ Len(<<>>) = 0 /\ Len(w) \in Nat
            BY <1>2, LenProperties
          <6>2. QED
            BY <6>1 DEF Total
        <5>2. QED
          BY <1>2, <3>2, <3>3, <5>1
      <4>2. EagerCount'
        BY <1>0, <1>1, <2>1, <2>5, <3>4, <4>1 DEF EagerCount
      <4>3. Head1("server").type = "info" => ~Eager
        BY <1>0, <2>5, ServerReads DEF BothV2, Eager
      <4>4. EagerStream'
        BY <1>1, <3>4, <4>3 DEF EagerStream
      <4>5. QED
        BY <4>2, <4>4
    <3>5. CASE /\ st["server"] = "info" /\ handled' = handled
               /\ Head1("server").type # "info" /\ result'["server"].packet = <<Head1("server")>>
      <4>1. Eager
        <5>1. result["server"].version = 0
          BY <1>0, <3>5 DEF ServerLife, NoResult
        <5>2. result["client"].version \in 0 .. 2
          BY DEF Types, Results
        <5>3. result["client"].version = 0
          BY <1>0, <5>1, <5>2 DEF ClientResult
        <5>4. QED
          BY <1>0, <2>5, <3>5, <5>3, ServerReads
      <4>2. Len(<<Head1("server")>>) = 1
        OBVIOUS
      <4>3. QED
        BY <1>1, <2>1, <2>5, <3>2, <3>3, <3>5, <4>1, <4>2 DEF EagerCount, EagerStream
    <3>6. CASE /\ handled' = Append(handled, Head1("server"))
               /\ Head1("server").type \in {"connect", "data"} /\ result'["server"].packet = <<>>
      <4>1. Eager
        BY <1>0, <2>5, <3>6, ServerReads
      <4>2. QED
        BY <1>1, <2>1, <2>5, <3>2, <3>3, <3>6, <4>1 DEF EagerCount, EagerStream
    <3>7. QED
      BY <2>5, <3>4, <3>5, <3>6
  <2>6. QED
    BY <1>4, <2>3, <2>4, <2>5, ServerTakes
<1>5. QED
  BY <1>3, <1>4

-----------------------------------------------------------------------------
LEMMA HandshakeInit ==
    ASSUME Init
    PROVE  Types /\ HandshakeInv
<1> USE HandshakeAssumption DEF Init, Side
<1>1. Types
  <2>1. cfg.offers \subseteq Exts /\ cfg.wants \subseteq Exts /\ cfg.creds \in {"none", "good", "bad"}
    BY DEF Config
  <2>2. [e \in cfg.offers |-> "before"] \in Builders /\ [e \in cfg.wants |-> "before"] \in Builders
    <3>1. ASSUME NEW E \in SUBSET Exts PROVE [e \in E |-> "before"] \in Builders
      <4>1. [e \in E |-> "before"] \in [E -> Phases]
        BY DEF Phases
      <4>2. QED
        BY <4>1, BuildersAre
    <3>2. QED
      BY <2>1, <3>1
  <2>3. builder \in [Side -> Builders]
    BY <2>2
  <2>4. NoResult \in Results
    BY DEF NoResult, Results
  <2>5. st \in [Side -> States]
    BY DEF States
  <2>6. <<>> \in Seq(Packet)
    OBVIOUS
  <2>7. QED
    BY <2>1, <2>3, <2>4, <2>5, <2>6 DEF Types
<1>2. /\ Len(<<>>) = 0 /\ wire["client"] = <<>> /\ wire["server"] = <<>>
      /\ result["client"] = NoResult /\ result["server"] = NoResult
      /\ mw["client"] = "none" /\ mw["server"] = "none" /\ ~eof["client"] /\ ~eof["server"]
  OBVIOUS
<1>3. /\ st["server"] = "start"
      /\ cfg.client \in {"v1", "v2", "eager"} /\ cfg.server \in {"v1", "v2"}
      /\ st["client"] = IF cfg.client = "eager" THEN "eager"
                        ELSE IF cfg.client = "v2" THEN "info" ELSE "continue"
  <2>1. cfg.client \in {"v1", "v2", "eager"} /\ cfg.server \in {"v1", "v2"}
    BY DEF Config
  <2>2. st["server"] = "start"
    OBVIOUS
  <2>4. st["client"] = CASE cfg.client = "eager" -> "eager"
                         [] cfg.client = "v2" -> "info"
                         [] OTHER -> "continue"
    OBVIOUS
  <2>5. CASE cfg.client = "eager"
    BY <2>1, <2>2, <2>4, <2>5
  <2>6. CASE cfg.client = "v2"
    BY <2>1, <2>2, <2>4, <2>6
  <2>7. CASE cfg.client = "v1"
    BY <2>1, <2>2, <2>4, <2>7
  <2>8. QED
    BY <2>1, <2>5, <2>6, <2>7
<1>4. /\ Has("server") = cfg.offers /\ Has("client") = cfg.wants
      /\ \A e \in Has("server") : builder["server"][e] = "before"
      /\ \A e \in Has("client") : builder["client"][e] = "before"
  BY DEF Has
<1>5. ServerLife /\ ServerBuilders
  BY <1>2, <1>3, <1>4 DEF ServerLife, ServerBuilders
<1>6. ClientLife /\ ClientBuilders /\ CredsKept
  BY <1>2, <1>3, <1>4 DEF ClientLife, ClientBuilders, CredsKept, Eager, BeforeInfo, NoResult
<1>7. ServerResult /\ ClientResult
  BY <1>2 DEF ServerResult, ClientResult, NoResult
<1>8. FromServer
  BY <1>2, <1>3
  DEF FromServer, ServerSilent, ServerKinds, ServerInfos, ServerContinues, ServerInfoFirst, ServerCloses
<1>9. FromClient
  BY <1>2 DEF FromClient, ClientInfos, ClientKinds, ClientCloses
<1>10. NoFailure
  BY <1>2, <1>3 DEF NoFailure
<1>11. EagerCount /\ EagerStream
  <2>1. sent = 0 /\ handled = <<>> /\ result["server"].packet = <<>>
    BY <1>2 DEF NoResult
  <2>2. Total(<<>>, <<>>, <<>>) = 0
    BY DEF Total
  <2>3. Stream(<<>>, <<>>, <<>>, 0)
    BY <1>2, <2>2 DEF Stream
  <2>4. QED
    BY <1>2, <2>1, <2>2, <2>3 DEF EagerCount, EagerStream
<1>12. QED
  BY <1>1, <1>5, <1>6, <1>7, <1>8, <1>9, <1>10, <1>11 DEF HandshakeInv

\* The inductive invariant holds.
LEMMA HandshakeInvariant == Spec => [](Types /\ HandshakeInv)
<1>1. ASSUME Types, HandshakeInv, [Next]_vars PROVE Types' /\ HandshakeInv'
  <2>1. Types'
    BY <1>1, TypesNext
  <2>2. CASE UNCHANGED vars
    <3>1. ServerLife' /\ ServerBuilders' /\ ClientLife' /\ ClientBuilders' /\ CredsKept'
      BY <1>1, <2>2 DEF vars, HandshakeInv, ServerLife, ServerBuilders, ClientLife, ClientBuilders, CredsKept,
                   Has, Eager
    <3>2. ServerResult' /\ ClientResult'
      BY <1>1, <2>2 DEF vars, HandshakeInv, ServerResult, ClientResult, Has, Eager, BothV2
    <3>3. Undisturbed' <=> Undisturbed
      BY <2>2 DEF vars, Undisturbed, Compatible, Agreed
    <3>4. FromServer'
      BY <1>1, <2>2, <3>3 DEF vars, HandshakeInv, FromServer, ServerSilent, ServerKinds, ServerInfos,
                              ServerContinues, ServerInfoFirst, ServerCloses, Unread
    <3>5. FromClient' /\ NoFailure'
      BY <1>1, <2>2, <3>3 DEF vars, HandshakeInv, FromClient, ClientInfos, ClientKinds, ClientCloses,
                              NoFailure, BothV2, Has, Eager
    <3>6. EagerCount' /\ EagerStream'
      BY <1>1, <2>2 DEF vars, HandshakeInv, EagerCount, EagerStream, Eager
    <3>7. QED
      BY <2>1, <3>1, <3>2, <3>4, <3>5, <3>6 DEF HandshakeInv
  <2>3. CASE Next
    <3>1. ServerStep \/ ClientStep
      BY <2>3 DEF Next, ServerStep, ClientStep, Side
    <3>2. ServerLife' /\ ServerBuilders' /\ ClientLife' /\ ClientBuilders' /\ CredsKept'
      BY <1>1, <3>1, ServerLifeNext, ServerBuildersNext, ClientLifeNext, ClientBuildersNext, CredsKeptNext
    <3>3. ServerResult' /\ ClientResult'
      BY <1>1, <3>1, ServerResultNext, ClientResultNext
    <3>4. FromServer' /\ FromClient' /\ NoFailure'
      BY <1>1, <2>1, <3>1, FromServerNext, FromClientNext, NoFailureNext
    <3>5. EagerCount' /\ EagerStream'
      BY <1>1, <3>1, EagerNext
    <3>6. QED
      BY <2>1, <3>2, <3>3, <3>4, <3>5 DEF HandshakeInv
  <2>4. QED
    BY <1>1, <2>2, <2>3
<1>2. QED
  BY <1>1, HandshakeInit, PTL DEF Spec

\* Every variable keeps its type; the server's actor never handles more packets
\* than an eager client sent.
THEOREM HandshakeTypeCorrect == Spec => []TypeOK
<1>1. ASSUME Types, HandshakeInv PROVE TypeOK
  <2>1. /\ cfg \in Config /\ creds \in {"none", "good", "bad"} /\ sent \in 0 .. MaxEager
    BY <1>1 DEF Types
  <2>2. ASSUME NEW s \in Side
        PROVE  /\ st[s] \in States /\ eof[s] \in BOOLEAN
               /\ DOMAIN builder[s] \subseteq Exts
               /\ \A e \in DOMAIN builder[s] : builder[s][e] \in {"before", "after"}
               /\ \A i \in DOMAIN wire[s] : wire[s][i] \in Packet
               /\ result[s].version \in 0 .. 2 /\ result[s].exts \subseteq Exts
    <3>1. builder[s] \in Builders /\ result[s] \in Results /\ wire[s] \in Seq(Packet)
      BY <1>1 DEF Types
    <3>2. \A i \in DOMAIN wire[s] : wire[s][i] \in Packet
      BY <3>1, ElementOfSeq, LenProperties
    <3>3. result[s].version \in 0 .. 2 /\ result[s].exts \subseteq Exts
      BY <3>1 DEF Results
    <3>4. QED
      BY <1>1, <3>1, <3>2, <3>3, BuildersAre DEF Types, Phases
  <2>3. ASSUME NEW s \in Side PROVE result[s].packet = <<>> \/ Len(result[s].packet) = 1
    BY <1>1 DEF HandshakeInv, ClientLife, EagerCount, Side
  <2>4. Len(handled) <= sent
    <3>1. result["server"].packet \in Seq(Packet)
      BY <1>1 DEF Types, Results, Side
    <3>2. /\ Len(handled) \in Nat /\ Len(result["server"].packet) \in Nat
          /\ Len(wire["client"]) \in Nat /\ sent \in Nat
      BY <1>1, <3>1, LenProperties, HandshakeAssumption DEF Types, Side
    <3>3. CASE Eager
      <4> DEFINE a == Len(handled)
                 b == Len(result["server"].packet)
                 c == Len(wire["client"])
      <4>1. a + b + c <= sent
        BY <1>1, <3>3 DEF HandshakeInv, EagerCount, Total
      <4>2. a \in Nat /\ b \in Nat /\ c \in Nat /\ sent \in Nat
        BY <3>2
      <4> HIDE DEF a, b, c
      <4>3. a <= sent
        BY <4>1, <4>2
      <4>4. QED
        BY <4>3 DEF a
    <3>4. CASE ~Eager
      BY <1>1, <3>2, <3>4 DEF HandshakeInv, EagerCount
    <3>5. QED
      BY <3>3, <3>4
  <2>5. QED
    BY <2>1, <2>2, <2>3, <2>4 DEF TypeOK, States
<1>2. QED
  BY <1>1, HandshakeInvariant, PTL

\* A server that requires authentication serves nobody who did not pass it,
\* whatever the client, its credentials, the middleware and the interleaving.
THEOREM AuthenticationHolds == Spec => []Authenticated
<1>1. ASSUME Types, HandshakeInv PROVE Authenticated
  <2>1. SUFFICES ASSUME st["server"] \in {"open", "ended"}
                 PROVE  /\ Required("server") \cap Auth # {} => cfg.client = "v2" /\ creds = "good"
                        /\ result["server"].exts \cap Auth # {} => creds = "good"
    BY DEF Authenticated
  <2>2. /\ cfg.serverReq \subseteq result["server"].exts /\ result["server"].version # 0
        /\ Required("server") = cfg.serverReq
    BY <1>1, <2>1 DEF HandshakeInv, ServerLife, Required
  <2>3. result["server"].version \in 0 .. 2
    BY <1>1 DEF Types, Results, Side
  <2>4. CASE result["server"].version = 1
    <3>1. result["server"].exts = {Udp}
      BY <1>1, <2>4 DEF HandshakeInv, ServerResult
    <3>2. Udp \notin Auth
      BY HandshakeAssumption DEF Auth
    <3>3. QED
      BY <2>2, <3>1, <3>2
  <2>5. CASE result["server"].version = 2
    <3>1. BothV2 /\ (result["server"].exts \cap Auth # {} => creds = "good")
      BY <1>1, <2>5 DEF HandshakeInv, ServerResult
    <3>2. QED
      BY <2>2, <3>1 DEF BothV2
  <2>6. QED
    BY <2>2, <2>3, <2>4, <2>5
<1>2. QED
  BY <1>1, HandshakeInvariant, PTL

\* A client's INFO carries authentication only for what the server offered.
THEOREM CredentialsStayHome == Spec => []CredentialsOnRequest
<1>1. ASSUME Types, HandshakeInv PROVE CredentialsOnRequest
  <2>1. wire["client"] \in Seq(Packet)
    BY <1>1 DEF Types, Side
  <2>2. DOMAIN wire["client"] = 1 .. Len(wire["client"])
    BY <2>1, LenProperties
  <2>3. QED
    BY <1>1, <2>2 DEF HandshakeInv, FromClient, ClientInfos, CredentialsOnRequest
<1>2. QED
  BY <1>1, HandshakeInvariant, PTL

\* Two ends with a multiplexor agree on version, extensions and buffer size,
\* unless the server's closure takes builders out after the server's INFO has
\* offered them.
THEOREM EndsAgree ==
    ASSUME "remove" \notin ServerMiddleware
    PROVE  Spec => []Agreement
<1>1. ASSUME Types, HandshakeInv PROVE Agreement
  <2>1. SUFFICES ASSUME HasMux("client"), HasMux("server")
                 PROVE  /\ result["client"].version = result["server"].version
                        /\ result["client"].exts = result["server"].exts
                        /\ result["client"].buffer = result["server"].buffer
    BY DEF Agreement
  <2>2. result["client"].version \in 0 .. 2 /\ result["client"].version # 0
    BY <1>1, <2>1 DEF Types, Results, Side, HasMux
  <2>3. Has("server") = cfg.offers
    BY <1>1 DEF HandshakeInv, ServerLife, ServerBuilders
  <2>4. CASE result["client"].version = 1
    BY <1>1, <2>4 DEF HandshakeInv, ClientResult, ServerResult
  <2>5. CASE result["client"].version = 2
    BY <1>1, <2>3, <2>5 DEF HandshakeInv, ClientResult, ServerResult
  <2>6. QED
    BY <2>2, <2>4, <2>5
<1>2. QED
  BY <1>1, HandshakeInvariant, PTL

\* A handshake fails only for a reason the two configurations, a middleware or
\* a cancellation gives.
THEOREM FailuresExplained == Spec => []FailureExplained
<1>1. ASSUME Types, HandshakeInv PROVE FailureExplained
  <2>1. ASSUME NEW s \in Side, st[s] \in {"closing", "failed"}
        PROVE  \/ ~Compatible \/ \E t \in Side : mw[t] \in {"fail", "remove"}
               \/ st[Peer(s)] = "cancelled"
    <3>1. ~Undisturbed
      BY <1>1, <2>1 DEF HandshakeInv, NoFailure
    <3>2. st[s] # "cancelled"
      BY <2>1
    <3>3. \A t \in Side : t = s \/ t = Peer(s)
      BY DEF Side, Peer
    <3>4. QED
      BY <3>1, <3>2, <3>3 DEF Undisturbed
  <2>2. QED
    BY <2>1 DEF FailureExplained
<1>2. QED
  BY <1>1, HandshakeInvariant, PTL

\* No stream packet of an eager v1 client is lost, repeated or overtaken, from
\* the one that caused the downgrade on.
THEOREM NothingLost == Spec => []NothingLostInDowngrade
<1>1. ASSUME Types, HandshakeInv PROVE NothingLostInDowngrade
  <2> DEFINE h == handled
             p == result["server"].packet
             w == wire["client"]
  <2>1. SUFFICES ASSUME st["server"] = "open", Eager
                 PROVE  /\ Len(h \o p \o w) = sent
                        /\ \A i \in DOMAIN (h \o p \o w) :
                             (h \o p \o w)[i].type = (IF i = 1 THEN "connect" ELSE "data")
    BY DEF NothingLostInDowngrade, Eager
  <2>2. h \in Seq(Packet) /\ p \in Seq(Packet) /\ w \in Seq(Packet) /\ sent \in Nat
    BY <1>1, HandshakeAssumption DEF Types, Results, Side
  <2>3. Stream(h, p, w, sent)
    BY <1>1, <2>1 DEF HandshakeInv, EagerStream
  <2> HIDE DEF h, p, w
  <2>4. h \o p \in Seq(Packet) /\ Stream(h \o p, <<>>, w, sent)
    BY <2>2, <2>3, StreamExtra, ConcatProperties
  <2> DEFINE g == h \o p
  <2>5. g \in Seq(Packet) /\ Stream(g, <<>>, w, sent)
    BY <2>4
  <2> HIDE DEF g
  <2>6. Stream(g \o w, <<>>, <<>>, sent) /\ g \o w \in Seq(Packet)
    <3>1. g \o w \in Seq(Packet) /\ <<>> \in Seq(Packet)
      BY <2>2, <2>5, ConcatProperties
    <3>2. /\ \A i \in 1 .. Len(g) : g[i].type = Kind(i)
          /\ \A i \in 1 .. Len(w) : w[i].type = Kind(Len(g) + Len(<<>>) + i)
          /\ Len(g) + Len(<<>>) + Len(w) = sent /\ Len(<<>>) = 0
      BY <2>5 DEF Stream, Total
    <3>3. Len(g) \in Nat /\ Len(w) \in Nat
      BY <2>2, <2>5, LenProperties
    <3>4. \A i \in 1 .. Len(w) : w[i].type = Kind(Len(g) + i)
      <4>1. \A i \in 1 .. Len(w) : Len(g) + Len(<<>>) + i = Len(g) + i
        BY <3>2, <3>3
      <4>2. QED
        BY <3>2, <4>1
    <3>5. Total(g, w, <<>>) = sent
      BY <3>2, <3>3 DEF Total
    <3>6. \A i \in 1 .. Len(<<>>) : FALSE
      BY <3>2
    <3>7. Stream(g, w, <<>>, sent)
      BY <3>2, <3>4, <3>5, <3>6 DEF Stream
    <3>8. QED
      BY <2>2, <2>5, <3>1, <3>7, StreamExtra
  <2> DEFINE a == g \o w
  <2>7. a \in Seq(Packet) /\ Stream(a, <<>>, <<>>, sent)
    BY <2>6
  <2> HIDE DEF a
  <2>8. Len(a) = sent /\ \A i \in 1 .. Len(a) : a[i].type = Kind(i)
    <3>1. Len(a) \in Nat /\ Len(<<>>) = 0 /\ Len(a) + Len(<<>>) + Len(<<>>) = sent
      BY <2>7, LenProperties DEF Stream, Total
    <3>2. QED
      BY <2>7, <3>1 DEF Stream
  <2>9. DOMAIN a = 1 .. Len(a)
    BY <2>7, LenProperties
  <2>10. QED
    BY <2>8, <2>9 DEF a, g, Kind
<1>2. QED
  BY <1>1, HandshakeInvariant, PTL
=============================================================================
