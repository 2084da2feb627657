------------------------------- MODULE Packet -------------------------------
(***************************************************************************)
(* The packets of the protocol as sequences of bytes: wisp/src/packet.rs.  *)
(* In text one byte stands for a whole label; 255, which no text in UTF-8  *)
(* contains, for any that is malformed.                                    *)
(* A u32 is a pair of halves <<high, low>>: TLC's integers are shorter.    *)
(* Every decoder returns a record, of type "error" if the code returns an  *)
(* error.                                                                  *)
(***************************************************************************)
EXTENDS Integers, Sequences, FiniteSets

BadText == 255

Error(why) == [type |-> "error", why |-> why]
TooSmall == Error("PacketTooSmall")

Byte == 0 .. 255
U16Max == 65535
U16 == 0 .. U16Max
U32 == U16 \X U16
Bytes == Seq(Byte)

PutU16(n) == <<n % 256, n \div 256>>
GetU16(b) == b[1] + 256 * b[2]
PutU32(u) == PutU16(u[2]) \o PutU16(u[1])
GetU32(b) == <<GetU16(SubSeq(b, 3, 4)), GetU16(b)>>
From(b, i) == SubSeq(b, i, Len(b))

(* usize::try_from of a length: more than 65535 is more than any packet here. *)
Length(u) == IF u[1] = 0 THEN u[2] ELSE 65536
ToU32(n) == <<n \div 65536, n % 65536>>

-----------------------------------------------------------------------------
(* StreamType and CloseReason: names for some bytes, and Other for the rest. *)

StreamTypes == [Tcp |-> 1, Udp |-> 2]
CloseReasons ==
  [Unknown |-> 1, Voluntary |-> 2, Unexpected |-> 3, ExtensionsIncompatible |-> 4,
   ServerStreamInvalidInfo |-> 65, ServerStreamUnreachable |-> 66,
   ServerStreamConnectionTimedOut |-> 67, ServerStreamConnectionRefused |-> 68,
   ServerStreamTimedOut |-> 71, ServerStreamBlockedAddress |-> 72,
   ServerStreamThrottled |-> 73, ClientUnexpected |-> 129,
   ExtensionsPasswordAuthFailed |-> 192, ExtensionsCertAuthFailed |-> 193,
   ExtensionsAuthRequired |-> 194]

Named(names, n) == [name |-> n, byte |-> names[n]]
FromByte(names, b) ==
  IF \E n \in DOMAIN names : names[n] = b
  THEN Named(names, CHOOSE n \in DOMAIN names : names[n] = b)
  ELSE [name |-> "Other", byte |-> b]

-----------------------------------------------------------------------------
(* The body of each packet. *)

\* Mutant: the port is written in network byte order.
EncodeConnectBE(p) == <<p.stream_type.byte, p.port \div 256, p.port % 256>> \o p.host

EncodeConnect(p) == <<p.stream_type.byte>> \o PutU16(p.port) \o p.host

DecodeConnect(id, b) ==
  IF Len(b) < 3 THEN TooSmall
  ELSE IF BadText \in {b[i] : i \in 4 .. Len(b)} THEN Error("Utf8Error")
  ELSE [type |-> "connect", id |-> id, stream_type |-> FromByte(StreamTypes, b[1]),
        port |-> GetU16(From(b, 2)), host |-> From(b, 4)]

DecodeContinue(id, b) ==
  IF Len(b) < 4 THEN TooSmall
  ELSE [type |-> "continue", id |-> id, buffer_remaining |-> GetU32(b)]

DecodeClose(id, b) ==
  IF Len(b) < 1 THEN TooSmall
  ELSE [type |-> "close", id |-> id, reason |-> FromByte(CloseReasons, b[1])]

PacketTypes == [connect |-> 1, data |-> 2, continue |-> 3, close |-> 4]

(* The values the code's packet types have. *)
PacketValues ==
  [type : {"connect"}, id : U32, stream_type : {FromByte(StreamTypes, b) : b \in Byte}, port : U16,
   host : Seq(Byte \ {BadText})]
  \cup [type : {"data"}, id : U32, data : Bytes]
  \cup [type : {"continue"}, id : U32, buffer_remaining : U32]
  \cup [type : {"close"}, id : U32, reason : {FromByte(CloseReasons, b) : b \in Byte}]

EncodeBody(p) ==
  CASE p.type = "connect" -> EncodeConnect(p)
    [] p.type = "data" -> p.data
    [] p.type = "continue" -> PutU32(p.buffer_remaining)
    [] p.type = "close" -> <<p.reason.byte>>

Encode(p) == <<PacketTypes[p.type]>> \o PutU32(p.id) \o EncodeBody(p)

DecodeBody(ty, id, b) ==
  CASE ty = 1 -> DecodeConnect(id, b)
    [] ty = 2 -> [type |-> "data", id |-> id, data |-> b]
    [] ty = 3 -> DecodeContinue(id, b)
    [] ty = 4 -> DecodeClose(id, b)
    [] OTHER -> Error("InvalidPacketType")

Decode(b) ==
  IF Len(b) < 5 THEN TooSmall ELSE DecodeBody(b[1], GetU32(From(b, 2)), From(b, 6))

-----------------------------------------------------------------------------
(* INFO: the version, then for each extension its id, the length of its     *)
(* payload and the payload.                                                 *)

EncodeExtension(e) == <<e.id>> \o PutU32(ToU32(Len(e.payload))) \o e.payload

EncodeExtensions(es) ==
  LET upto[i \in 0 .. Len(es)] ==
        IF i = 0 THEN <<>> ELSE upto[i - 1] \o EncodeExtension(es[i])
  IN upto[Len(es)]

EncodeInfo(p) == <<5, 0, 0, 0, 0, p.major, p.minor>> \o EncodeExtensions(p.extensions)

(* Extensions nobody has a builder for are skipped; what is too short to be *)
(* the head of an extension is left alone; Short marks a payload that is    *)
(* shorter than its length.                                                 *)
Short == [id |-> 256, payload |-> <<>>]

DecodeExtensions(b, builders) ==
  LET at[i \in 1 .. Len(b) + 1] ==
        IF Len(b) - i + 1 < 5 THEN <<>>
        ELSE LET len == Length(GetU32(From(b, i + 1)))
                 rest == at[i + 5 + len]
             IN IF Len(b) - i - 4 < len THEN <<Short>>
                ELSE IF b[i] \in builders
                THEN <<[id |-> b[i], payload |-> SubSeq(b, i + 5, i + 4 + len)]>> \o rest
                ELSE rest
  IN at[1]

DecodeInfo(b, builders) ==
  IF Len(b) < 2 THEN TooSmall
  ELSE IF b[1] # 2 THEN Error("IncompatibleProtocolVersion")
  ELSE LET es == DecodeExtensions(From(b, 3), builders)
       IN IF es # <<>> /\ es[Len(es)] = Short THEN TooSmall
          ELSE [type |-> "info", major |-> b[1], minor |-> b[2], extensions |-> es]

(* During the handshake INFO is understood as well.  Afterwards the types   *)
(* beyond CLOSE belong to extensions, which get what follows the header.    *)
DecodeMaybeInfo(b, builders) ==
  IF Len(b) < 5 THEN TooSmall
  ELSE IF b[1] = 5 THEN DecodeInfo(From(b, 6), builders) ELSE Decode(b)

DecodeMaybeExtension(b, supported) ==
  IF Len(b) < 5 THEN TooSmall
  ELSE IF b[1] \in 1 .. 4 THEN Decode(b)
  ELSE IF b[1] \in supported THEN [type |-> "extension", packet_type |-> b[1], body |-> From(b, 6)]
  ELSE Error("InvalidPacketType")

=============================================================================
