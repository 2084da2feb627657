---------------------------- MODULE Mux_proofs ----------------------------
(***************************************************************************)
(* Proofs about the multiplexors, for any number of ids, calls and DATA    *)
(* packets.  What makes them safe is that an id is used once: the client   *)
(* counts them up, and the server sees the CONNECT of an id before         *)
(* anything else of it.  The inductive invariant says so for each of the   *)
(* places an id can be in: the maps, the queues, the two directions of the *)
(* transport and the packets the handlers are about to send.               *)
(***************************************************************************)
EXTENDS Mux, SequenceTheorems, TLAPS

Packets == [type : {"connect"}, id : Ids, arg : {0}]
           \cup [type : {"data"}, id : Ids, arg : Nat]
           \cup [type : {"close"}, id : Ids \cup {0}, arg : Sides]

\* What a handler of e can have to send.
Work(e) == {p \in Packets : p.type = "close" \/ (e = "client" /\ p.type = "connect")}

\* A packet of this type, or any packet, of stream id in q.
Has(q, type, id) == \E i \in 1..Len(q) : q[i].type = type /\ q[i].id = id
Names(q, id)     == \E i \in 1..Len(q) : q[i].id = id
Queued(q, id)    == \E i \in 1..Len(q) : q[i] = id

\* A CONNECT is the first packet of its stream in q.
ConnectsFirst(q) == \A i \in 1..Len(q) : q[i].type = "connect" =>
                        \A j \in 1..i-1 : q[j].id # q[i].id

AtWork(e, type, id) == work[e] # <<>> /\ work[e][1].pkt.type = type /\ work[e][1].pkt.id = id
WorkNames(e, id)    == work[e] # <<>> /\ work[e][1].pkt.id = id
Coming(e, type, id) == Has(wire[Peer(e)], type, id) \/ AtWork(e, type, id)
-----------------------------------------------------------------------------
(* The inductive invariant.                                                *)

ActorTypes ==
    /\ actor \in [Sides -> {"running", "ending", "ended"}]
    /\ streams \in [Sides -> SUBSET Ids] /\ owned \in [Sides -> SUBSET Ids]
    /\ currentId \in 0..MaxId
    /\ backlog \in Seq(Ids)
    /\ eof \in [Sides -> BOOLEAN]
    /\ wire \in [Sides -> Seq(Packets)]
    /\ DOMAIN work = Sides
    /\ \A e \in Sides : work[e] = <<>> \/ (Len(work[e]) = 1 /\ work[e][1].pkt \in Work(e))

DataTypes ==
    /\ inbox \in [Sides -> [Ids -> Seq(Nat)]]
    /\ sent \in [Sides -> [Ids -> Nat]] /\ got \in [Sides -> [Ids -> Seq(Nat)]]
    /\ lost \in [Sides -> [Ids -> Seq(Nat)]]

AnswerTypes ==
    /\ unset \in [Sides -> SUBSET {p \in Packets : p.type = "close"}]
    /\ reason \in [Sides -> [Ids -> Reasons]]
    /\ calls \in [Calls -> {"none", "queued", "opened", "failed", "lost"}]
    /\ closing \in [Sides -> [Ids -> {"no", "waiting", "closed", "invalid", "failed", "lost"}]]

\* An actor that left its loop has no stream, and a transport ends once the
\* peer's actor is done.
LifeInv == \A e \in Sides : /\ actor[e] # "running" => streams[e] = {}
                            /\ eof[Peer(e)] => actor[e] = "ended"

\* An id the client has not given out is nowhere.
Unused(e, id) ==
    /\ id \notin streams[e] /\ id \notin owned[e] /\ inbox[e][id] = <<>> /\ lost[e][id] = <<>>
    /\ ~Names(wire[e], id) /\ ~WorkNames(e, id)

IdsInv == \A id \in Ids : id > currentId =>
              ~Queued(backlog, id) /\ \A e \in Sides : Unused(e, id)

\* A stream the application does not hold was neither written nor read.
OwnedInv == \A e \in Sides, id \in Ids : id \notin owned[e] =>
                sent[e][id] = 0 /\ got[e][id] = <<>>

\* While a CONNECT is under way the server has nothing of its stream, and
\* nothing of the stream is in front of it.
ServerLacks(id) ==
    /\ id \notin streams["server"] /\ id \notin owned["server"]
    /\ inbox["server"][id] = <<>> /\ lost["server"][id] = <<>>
    /\ ~Queued(backlog, id) /\ ~Names(wire["client"], id) /\ ~WorkNames("server", id)

OpenInv ==
    /\ ConnectsFirst(wire["server"])
    /\ \A id \in Ids : Coming("client", "connect", id) => ServerLacks(id)
    /\ \A id \in Ids : AtWork("client", "connect", id) =>
            ~Names(wire["server"], id) /\ id \notin owned["client"]

\* Who sends a CLOSE has taken the stream out of its map.
CloseInv == \A e \in Sides, id \in Ids : Coming(e, "close", id) => id \notin streams[e]

\* NoOrphan, and a stream that is being opened is the client's or is going to
\* be closed by it.
OrphanInv ==
    (\A e \in Sides : actor[e] = "running") => \A id \in Ids :
        /\ id \in streams["server"] => id \in streams["client"] \/ Coming("client", "close", id)
        /\ id \in streams["client"] => \/ id \in streams["server"]
                                       \/ Coming("client", "connect", id)
                                       \/ Coming("server", "close", id)
        /\ Coming("client", "connect", id) =>
              id \in streams["client"] \/ Coming("client", "close", id)

\* The numbers of the DATA packets, also of a stream whose CONNECT the server
\* has still to receive.
Live(e, id) == \/ id \in streams[e]
               \/ e = "server" /\ actor["server"] = "running" /\ Has(wire["server"], "connect", id)

\* The numbers 1 .. n, each once, with the given ones in order.
Tally(given, refused) ==
    /\ Account(given, refused)
    /\ \A i \in 1..Len(given) : given[i] <= Len(given) + Len(refused)

Delivery(e, id) ==
    /\ Arrived(e, id) <= sent[Peer(e)][id]
    /\ Tally(Given(e, id), lost[e][id])
    /\ lost[e][id] # <<>> => e = "server" /\ lost[e][id][1] > Capacity

OrderInv == \A e \in Sides, id \in Ids :
    /\ Delivery(e, id)
    /\ Live(e, id) => Ordered(wire[e], id, Arrived(e, id), sent[Peer(e)][id])

MuxInv == /\ ActorTypes /\ DataTypes /\ AnswerTypes /\ LifeInv /\ IdsInv /\ OwnedInv
          /\ OpenInv /\ CloseInv /\ OrphanInv /\ OrderInv
-----------------------------------------------------------------------------
(* Sequences of packets: what is in a queue after a packet was put at its  *)
(* end or taken from its front.                                            *)

LEMMA AppendHas ==
    ASSUME NEW S, NEW q \in Seq(S), NEW p \in S
    PROVE  /\ \A t, id : Has(Append(q, p), t, id) <=> Has(q, t, id) \/ (p.type = t /\ p.id = id)
           /\ \A id : Names(Append(q, p), id) <=> Names(q, id) \/ p.id = id
           /\ \A id : Queued(Append(q, p), id) <=> Queued(q, id) \/ p = id
<1> DEFINE r == Append(q, p)
<1>1. /\ r \in Seq(S) /\ Len(r) = Len(q) + 1 /\ r[Len(q) + 1] = p
      /\ \A i \in 1..Len(q) : r[i] = q[i]
  BY AppendProperties
<1>2. Len(q) \in Nat
  BY LenProperties
<1> HIDE DEF r
<1>3. 1..Len(r) = (1..Len(q)) \cup {Len(q) + 1}
  BY <1>1, <1>2
<1>4. \A t, id : Has(r, t, id) <=> Has(q, t, id) \/ (p.type = t /\ p.id = id)
  BY <1>1, <1>3 DEF Has
<1>5. \A id : Names(r, id) <=> Names(q, id) \/ p.id = id
  BY <1>1, <1>3 DEF Names
<1>6. \A id : Queued(r, id) <=> Queued(q, id) \/ p = id
  BY <1>1, <1>3 DEF Queued
<1> QED
  BY <1>4, <1>5, <1>6 DEF r

LEMMA TailHas ==
    ASSUME NEW S, NEW q \in Seq(S), q # <<>>
    PROVE  /\ Head(q) \in S /\ Tail(q) \in Seq(S) /\ Len(Tail(q)) = Len(q) - 1
           /\ \A i \in 1..Len(Tail(q)) : Tail(q)[i] = q[i + 1]
           /\ \A t, id : Has(q, t, id) <=> Has(Tail(q), t, id)
                                          \/ (Head(q).type = t /\ Head(q).id = id)
           /\ \A id : Names(q, id) <=> Names(Tail(q), id) \/ Head(q).id = id
           /\ \A id : Queued(q, id) <=> Queued(Tail(q), id) \/ Head(q) = id
<1> DEFINE r == Tail(q)
           h == Head(q)
<1>1. /\ h \in S /\ h = q[1] /\ r \in Seq(S) /\ Len(r) = Len(q) - 1
      /\ \A i \in 1..Len(r) : r[i] = q[i + 1]
  BY HeadTailProperties
<1>2. Len(q) \in Nat /\ Len(q) # 0
  BY LenProperties, EmptySeq
<1> HIDE DEF r, h
<1>3. /\ \A i \in 1..Len(r) : i + 1 \in 1..Len(q)
      /\ \A i \in 1..Len(q) : i = 1 \/ (i - 1 \in 1..Len(r) /\ r[i - 1] = q[i])
      /\ 1 \in 1..Len(q)
  BY <1>1, <1>2
<1>4. \A t, id : Has(q, t, id) <=> Has(r, t, id) \/ (h.type = t /\ h.id = id)
  BY <1>1, <1>3 DEF Has
<1>5. \A id : Names(q, id) <=> Names(r, id) \/ h.id = id
  BY <1>1, <1>3 DEF Names
<1>6. \A id : Queued(q, id) <=> Queued(r, id) \/ h = id
  BY <1>1, <1>3 DEF Queued
<1> QED
  BY <1>1, <1>4, <1>5, <1>6 DEF r, h

LEMMA EmptyHas ==
    /\ \A t, id : ~Has(<<>>, t, id)
    /\ \A id : ~Names(<<>>, id) /\ ~Queued(<<>>, id)
    /\ ConnectsFirst(<<>>)
BY DEF Has, Names, Queued, ConnectsFirst

LEMMA HasNames ==
    ASSUME NEW q, NEW t, NEW id, Has(q, t, id)
    PROVE  Names(q, id)
BY DEF Has, Names

\* The order of CONNECTs is kept by a packet at the end, unless it is the
\* CONNECT of a stream that has packets in the queue.
LEMMA ConnectsFirstAppend ==
    ASSUME NEW q \in Seq(Packets), NEW p \in Packets, ConnectsFirst(q),
           p.type = "connect" => ~Names(q, p.id)
    PROVE  ConnectsFirst(Append(q, p))
<1> DEFINE r == Append(q, p)
<1>1. /\ Len(r) = Len(q) + 1 /\ r[Len(q) + 1] = p
      /\ \A i \in 1..Len(q) : r[i] = q[i]
  BY AppendProperties
<1>2. Len(q) \in Nat
  BY LenProperties
<1> HIDE DEF r
<1>3. ASSUME NEW i \in 1..Len(r), r[i].type = "connect", NEW j \in 1..i-1
      PROVE  r[j].id # r[i].id
  <2>1. j \in 1..Len(q) /\ r[j] = q[j]
    BY <1>1, <1>2, <1>3
  <2>2. CASE i = Len(q) + 1
    BY <1>1, <1>2, <1>3, <2>1, <2>2 DEF Names
  <2>3. CASE i # Len(q) + 1
    <3>1. i \in 1..Len(q) /\ r[i] = q[i]
      BY <1>1, <1>2, <2>3
    <3> QED
      BY <1>3, <2>1, <3>1 DEF ConnectsFirst
  <2> QED
    BY <2>2, <2>3
<1> QED
  BY <1>3 DEF ConnectsFirst, r

LEMMA ConnectsFirstTail ==
    ASSUME NEW q \in Seq(Packets), q # <<>>, ConnectsFirst(q)
    PROVE  /\ ConnectsFirst(Tail(q))
           /\ \A id : Has(Tail(q), "connect", id) => Head(q).id # id
<1> DEFINE r == Tail(q)
           h == Head(q)
<1>1. /\ h = q[1] /\ Len(r) = Len(q) - 1 /\ \A i \in 1..Len(r) : r[i] = q[i + 1]
  BY HeadTailProperties
<1>2. Len(q) \in Nat /\ Len(q) # 0
  BY LenProperties, EmptySeq
<1> HIDE DEF r, h
<1>3. ASSUME NEW i \in 1..Len(r), r[i].type = "connect"
      PROVE  h.id # r[i].id /\ \A j \in 1..i-1 : r[j].id # r[i].id
  <2>1. i + 1 \in 1..Len(q) /\ q[i + 1].type = "connect" /\ r[i] = q[i + 1]
    BY <1>1, <1>2, <1>3
  <2>2. \A j \in 1..i : q[j].id # r[i].id
    BY <2>1 DEF ConnectsFirst
  <2>3. \A j \in 1..i-1 : j + 1 \in 1..i /\ r[j] = q[j + 1]
    BY <1>1, <1>2
  <2>4. 1 \in 1..i
    BY <1>3
  <2> QED
    BY <1>1, <2>2, <2>3, <2>4
<1>4. ConnectsFirst(r)
  BY <1>3 DEF ConnectsFirst
<1>5. \A id : Has(r, "connect", id) => h.id # id
  BY <1>3 DEF Has
<1> QED
  BY <1>4, <1>5 DEF r, h

\* Nothing under way: the peer's next packet is the next number.
LEMMA OrderedNone ==
    ASSUME NEW q \in Seq(Packets), NEW id, NEW n \in Nat, ~Has(q, "data", id)
    PROVE  Ordered(q, id, n, n)
BY DEF Ordered, Has

\* The writer puts the next number at the end.
LEMMA OrderedWrite ==
    ASSUME NEW q \in Seq(Packets), NEW id \in Ids, NEW first \in Nat, NEW last \in Nat,
           Ordered(q, id, first, last)
    PROVE  Ordered(Append(q, Data(id, last + 1)), id, first, last + 1)
<1> DEFINE p == Data(id, last + 1)
           r == Append(q, p)
           datas == {i \in 1..Len(q) : q[i].type = "data" /\ q[i].id = id}
           datas2 == {i \in 1..Len(r) : r[i].type = "data" /\ r[i].id = id}
<1>1. /\ p \in Packets /\ p.type = "data" /\ p.id = id /\ p.arg = last + 1
  BY DEF Data, Packets
<1>2. Len(r) = Len(q) + 1 /\ r[Len(q) + 1] = p /\ \A i \in 1..Len(q) : r[i] = q[i]
  BY <1>1, AppendProperties
<1>3. Len(q) \in Nat
  BY LenProperties
<1>4. datas2 = datas \cup {Len(q) + 1}
  BY <1>1, <1>2, <1>3
<1>5. /\ first <= last
      /\ \A i \in datas : q[i].arg \in first+1..last
      /\ \A n \in first+1..last : \E i \in datas : q[i].arg = n
      /\ \A i, j \in datas : i < j => q[i].arg < q[j].arg
  BY DEF Ordered
<1>6. \A i \in datas : i \in 1..Len(q) /\ r[i] = q[i]
  BY <1>2
<1> HIDE DEF r, p, datas, datas2
<1>7. \A i \in datas2 : r[i].arg \in first+1..last+1
  BY <1>1, <1>2, <1>4, <1>5, <1>6
<1>8. ASSUME NEW n \in first+1..last+1 PROVE \E i \in datas2 : r[i].arg = n
  <2>1. CASE n = last + 1
    BY <1>1, <1>2, <1>4, <2>1
  <2>2. CASE n # last + 1
    <3>1. n \in first+1..last
      BY <2>2
    <3>2. PICK i \in datas : q[i].arg = n
      BY <1>5, <3>1
    <3> QED
      BY <1>4, <1>6, <3>2
  <2> QED
    BY <2>1, <2>2
<1>9. ASSUME NEW i \in datas2, NEW j \in datas2, i < j PROVE r[i].arg < r[j].arg
  <2>1. i \in datas
    BY <1>3, <1>4, <1>6, <1>9
  <2>2. CASE j = Len(q) + 1
    <3>1. r[i].arg \in first+1..last
      BY <1>5, <1>6, <2>1
    <3>2. r[j].arg = last + 1
      BY <1>1, <1>2, <2>2
    <3> QED
      BY <3>1, <3>2
  <2>3. CASE j # Len(q) + 1
    <3>1. j \in datas
      BY <1>4, <2>3
    <3> QED
      BY <1>5, <1>6, <1>9, <2>1, <3>1
  <2> QED
    BY <2>2, <2>3
<1>10. first <= last + 1
  BY <1>5
<1>11. Ordered(r, id, first, last + 1)
  BY <1>7, <1>8, <1>9, <1>10 DEF Ordered, datas2
<1> QED
  BY <1>11 DEF r, p

\* Another packet at the end makes no difference.
LEMMA OrderedAppend ==
    ASSUME NEW q \in Seq(Packets), NEW p \in Packets, NEW id, NEW first \in Nat, NEW last \in Nat,
           Ordered(q, id, first, last), p.type # "data" \/ p.id # id
    PROVE  Ordered(Append(q, p), id, first, last)
<1> DEFINE r == Append(q, p)
<1>1. Len(r) = Len(q) + 1 /\ r[Len(q) + 1] = p /\ \A i \in 1..Len(q) : r[i] = q[i]
  BY AppendProperties
<1>2. Len(q) \in Nat
  BY LenProperties
<1> HIDE DEF r
<1> DEFINE datas == {i \in 1..Len(q) : q[i].type = "data" /\ q[i].id = id}
<1>3. {i \in 1..Len(r) : r[i].type = "data" /\ r[i].id = id} = datas
  BY <1>1, <1>2
<1>4. \A i \in datas : r[i] = q[i]
  BY <1>1
<1>5. /\ first <= last
      /\ \A i \in datas : q[i].arg \in first+1..last
      /\ \A n \in first+1..last : \E i \in datas : q[i].arg = n
      /\ \A i, j \in datas : i < j => q[i].arg < q[j].arg
  BY DEF Ordered
<1> HIDE DEF datas
<1>6. /\ first <= last
      /\ \A i \in datas : r[i].arg \in first+1..last
      /\ \A n \in first+1..last : \E i \in datas : r[i].arg = n
      /\ \A i, j \in datas : i < j => r[i].arg < r[j].arg
  BY <1>4, <1>5
<1>7. Ordered(r, id, first, last)
  BY <1>3, <1>6 DEF Ordered
<1> QED
  BY <1>7 DEF r

\* The reader takes what is in front: the next number, or something else.
LEMMA OrderedTake ==
    ASSUME NEW q \in Seq(Packets), q # <<>>, NEW id, NEW first \in Nat, NEW last \in Nat,
           Ordered(q, id, first, last)
    PROVE  IF Head(q).type = "data" /\ Head(q).id = id
           THEN Head(q).arg = first + 1 /\ first + 1 <= last /\ Ordered(Tail(q), id, first + 1, last)
           ELSE Ordered(Tail(q), id, first, last)
<1> DEFINE r == Tail(q)
           h == Head(q)
           datas == {i \in 1..Len(q) : q[i].type = "data" /\ q[i].id = id}
           datas2 == {i \in 1..Len(r) : r[i].type = "data" /\ r[i].id = id}
<1>1. /\ h = q[1] /\ Len(r) = Len(q) - 1 /\ \A i \in 1..Len(r) : r[i] = q[i + 1]
  BY HeadTailProperties
<1>2. Len(q) \in Nat /\ Len(q) # 0
  BY LenProperties, EmptySeq
<1>3. /\ \A i \in datas2 : i \in Int /\ i + 1 \in datas /\ r[i] = q[i + 1]
      /\ \A i \in datas : i \in Int /\ i >= 1 /\ (i = 1 \/ (i - 1 \in datas2 /\ r[i - 1] = q[i]))
      /\ 1 \in datas <=> h.type = "data" /\ h.id = id
  BY <1>1, <1>2
<1>4. /\ first <= last
      /\ \A i \in datas : q[i].arg \in first+1..last
      /\ \A n \in first+1..last : \E i \in datas : q[i].arg = n
      /\ \A i, j \in datas : i < j => q[i].arg < q[j].arg
  BY DEF Ordered
<1>5. /\ first <= last
      /\ \A i \in datas2 : r[i].arg \in first+1..last
      /\ \A i, j \in datas2 : i < j => r[i].arg < r[j].arg
  <2> HIDE DEF r, h, datas, datas2
  <2>1. \A i \in datas2 : r[i].arg \in first+1..last
    BY <1>3, <1>4
  <2>2. ASSUME NEW i \in datas2, NEW j \in datas2, i < j PROVE r[i].arg < r[j].arg
    <3>1. i + 1 \in datas /\ j + 1 \in datas /\ i + 1 < j + 1
      BY <1>3, <2>2
    <3> QED
      BY <1>3, <1>4, <3>1
  <2> QED
    BY <1>4, <2>1, <2>2
<1>6. CASE h.type = "data" /\ h.id = id
  <2>1. 1 \in datas /\ q[1].arg \in first+1..last
    BY <1>3, <1>4, <1>6
  <2>2. h.arg = first + 1
    <3> HIDE DEF r, h, datas, datas2
    <3>0. first + 1 \in first+1..last
      BY <2>1
    <3>1. PICK i \in datas : q[i].arg = first + 1
      BY <1>4, <3>0
    <3>2. i = 1 \/ 1 < i
      BY <1>3, <3>1
    <3> QED
      BY <1>1, <1>4, <2>1, <3>1, <3>2
  <2> HIDE DEF r, h, datas, datas2
  <2>3. \A i \in datas2 : r[i].arg \in first+2..last
    <3> SUFFICES ASSUME NEW i \in datas2 PROVE r[i].arg \in first+2..last
      OBVIOUS
    <3>1. i + 1 \in datas /\ r[i] = q[i + 1] /\ 1 < i + 1
      BY <1>1, <1>2, <1>3 DEF datas2
    <3>2. q[1].arg < q[i + 1].arg /\ q[i + 1].arg \in first+1..last
      BY <1>4, <2>1, <3>1
    <3> QED
      BY <1>1, <2>2, <3>1, <3>2
  <2>4. \A n \in first+2..last : \E i \in datas2 : r[i].arg = n
    <3> SUFFICES ASSUME NEW n \in first+2..last PROVE \E i \in datas2 : r[i].arg = n
      OBVIOUS
    <3>1. PICK i \in datas : q[i].arg = n
      BY <1>4
    <3>2. i # 1
      BY <1>1, <2>2, <3>1
    <3> QED
      BY <1>3, <3>1, <3>2
  <2>5. first + 1 <= last
    BY <2>1
  <2>6. (first + 1) + 1 = first + 2
    OBVIOUS
  <2>7. Ordered(r, id, first + 1, last)
    BY <1>5, <2>3, <2>4, <2>5, <2>6 DEF Ordered, datas2
  <2> QED
    BY <1>6, <2>2, <2>5, <2>7 DEF r, h
<1>7. CASE ~(h.type = "data" /\ h.id = id)
  <2> HIDE DEF r, h, datas, datas2
  <2>1. \A n \in first+1..last : \E i \in datas2 : r[i].arg = n
    BY <1>3, <1>4, <1>7
  <2>2. Ordered(r, id, first, last)
    BY <1>5, <2>1 DEF Ordered, datas2
  <2> QED
    BY <1>7, <2>2 DEF r, h
<1> QED
  BY <1>6, <1>7
-----------------------------------------------------------------------------
(* What the actions do to the ids and the packets: the other variables are *)
(* left out, and actions that do the same to these are one shape.          *)

WorkIs(e, p) == /\ DOMAIN work' = Sides /\ work'[Peer(e)] = work[Peer(e)]
                /\ work'[e] # <<>> /\ Len(work'[e]) = 1 /\ work'[e][1].pkt = p
WorkDone(e)  == DOMAIN work' = Sides /\ work'[Peer(e)] = work[Peer(e)] /\ work'[e] = <<>>
Left(e)      == /\ actor[e] = "running" /\ actor' = [actor EXCEPT ![e] = "ending"]
                /\ streams' = [streams EXCEPT ![e] = {}]
Taken(e)     == wire[e] # <<>> /\ wire' = [wire EXCEPT ![e] = Tail(@)]

\* NewStream, CloseStream, CloseMux, DropServerMux, SetReason; Read of the end,
\* CreateStream and CloseEvent that fail.
Quiet == UNCHANGED <<actor, streams, owned, currentId, backlog, work, wire, eof, inbox, sent,
                     got, lost>>

Accepted ==
    /\ backlog # <<>> /\ backlog' = Tail(backlog)
    /\ owned' = [owned EXCEPT !["server"] = @ \cup {Head(backlog)}]
    /\ UNCHANGED <<actor, streams, currentId, work, wire, eof, inbox, sent, got, lost>>

Wrote(e, id) ==
    /\ id \in owned[e] /\ sent' = [sent EXCEPT ![e][id] = @ + 1]
    /\ wire' = Sent(e, Data(id, sent[e][id] + 1))
    /\ UNCHANGED <<actor, streams, owned, currentId, backlog, work, eof, inbox, got, lost>>

Took(e, id) ==
    /\ id \in owned[e] /\ inbox[e][id] # <<>>
    /\ got' = [got EXCEPT ![e][id] = Append(@, Head(inbox[e][id]))]
    /\ inbox' = [inbox EXCEPT ![e][id] = Tail(@)]
    /\ UNCHANGED <<actor, streams, owned, currentId, backlog, work, wire, eof, sent, lost>>

Created ==
    /\ actor["client"] = "running" /\ work["client"] = <<>> /\ currentId + 1 <= MaxId
    /\ currentId' = currentId + 1
    /\ streams' = [streams EXCEPT !["client"] = @ \cup {currentId + 1}]
    /\ WorkIs("client", Connect(currentId + 1))
    /\ UNCHANGED <<actor, owned, backlog, wire, eof, inbox, sent, got, lost>>

Closed(e, id) ==
    /\ id \in streams[e] /\ work[e] = <<>>
    /\ streams' = [streams EXCEPT ![e] = @ \ {id}]
    /\ WorkIs(e, Close(id, e))
    /\ UNCHANGED <<actor, owned, currentId, backlog, wire, eof, inbox, sent, got, lost>>

Ending(e) ==
    /\ work[e] = <<>> /\ WorkIs(e, Close(0, e))
    /\ UNCHANGED <<actor, streams, owned, currentId, backlog, wire, eof, inbox, sent, got, lost>>

Ended(e) ==
    /\ Left(e)
    /\ UNCHANGED <<owned, currentId, backlog, work, wire, eof, inbox, sent, got, lost>>

Opened(e) ==
    /\ work[e] # <<>> /\ work[e][1].pkt.type = "connect" /\ WorkDone(e)
    /\ wire' = Sent(e, work[e][1].pkt)
    /\ owned' = [owned EXCEPT ![e] = @ \cup {work[e][1].pkt.id}]
    /\ UNCHANGED <<actor, streams, currentId, backlog, eof, inbox, sent, got, lost>>

ToldClose(e) ==
    /\ work[e] # <<>> /\ work[e][1].pkt.type = "close" /\ WorkDone(e)
    /\ wire' = Sent(e, work[e][1].pkt)
    /\ (UNCHANGED <<actor, streams>> \/ Left(e))
    /\ UNCHANGED <<owned, currentId, backlog, eof, inbox, sent, got, lost>>

WriteFailed(e) ==
    /\ work[e] # <<>> /\ eof[e] /\ WorkDone(e)
    /\ (UNCHANGED <<actor, streams>> \/ Left(e))
    /\ UNCHANGED <<owned, currentId, backlog, wire, eof, inbox, sent, got, lost>>

Added ==
    /\ Taken("server") /\ Head(wire["server"]).type = "connect" /\ actor["server"] = "running"
    /\ streams' = [streams EXCEPT !["server"] = @ \cup {Head(wire["server"]).id}]
    /\ backlog' = Append(backlog, Head(wire["server"]).id)
    /\ UNCHANGED <<actor, owned, currentId, work, eof, inbox, sent, got, lost>>

\* The channel takes a packet, or is full.
Kept(e, p)    == /\ inbox' = [inbox EXCEPT ![e][p.id] = Append(@, p.arg)]
                 /\ UNCHANGED lost
Refused(e, p) == /\ e = "server" /\ Len(inbox[e][p.id]) >= Capacity
                 /\ lost' = [lost EXCEPT ![e][p.id] = Append(@, p.arg)]
                 /\ UNCHANGED inbox

Filled(e) ==
    /\ Taken(e) /\ Head(wire[e]).type = "data" /\ Head(wire[e]).id \in streams[e]
    /\ Kept(e, Head(wire[e])) \/ Refused(e, Head(wire[e]))
    /\ UNCHANGED <<actor, streams, owned, currentId, backlog, work, eof, sent, got>>

ToldOf(e) ==
    /\ Taken(e) /\ Head(wire[e]).type = "close" /\ Head(wire[e]).id \in streams[e]
    /\ streams' = [streams EXCEPT ![e] = @ \ {Head(wire[e]).id}]
    /\ UNCHANGED <<actor, owned, currentId, backlog, work, eof, inbox, sent, got, lost>>

Ignored(e) ==
    /\ Taken(e) /\ Head(wire[e]).type \in {"data", "close"} /\ Head(wire[e]).id \notin streams[e]
    /\ UNCHANGED <<actor, streams, owned, currentId, backlog, work, eof, inbox, sent, got, lost>>

EndedBy(e) ==
    /\ Taken(e) /\ Left(e)
    /\ UNCHANGED <<owned, currentId, backlog, work, eof, inbox, sent, got, lost>>

Shut(e) ==
    /\ actor[e] = "ending" /\ actor' = [actor EXCEPT ![e] = "ended"]
    /\ eof' = [eof EXCEPT ![Peer(e)] = TRUE]
    /\ wire' = [wire EXCEPT ![e] = <<>>]
    /\ UNCHANGED <<streams, owned, currentId, backlog, work, inbox, sent, got, lost>>

Shapes == \/ Quiet \/ Accepted \/ Created \/ Added
          \/ \E e \in Sides : \/ \E id \in Ids : Wrote(e, id) \/ Took(e, id) \/ Closed(e, id)
                              \/ Ending(e) \/ Ended(e) \/ Opened(e) \/ ToldClose(e)
                              \/ WriteFailed(e) \/ Filled(e) \/ ToldOf(e) \/ Ignored(e)
                              \/ EndedBy(e) \/ Shut(e)

\* A packet was received.
Received(e) == /\ Taken(e) /\ UNCHANGED <<work, owned, sent>>
               /\ \/ e = "server" /\ Added
                  \/ Filled(e) \/ ToldOf(e) \/ Ignored(e) \/ EndedBy(e)

\* Which shapes change a variable.
LEMMA MapSteps ==
    ASSUME Shapes
    PROVE  \/ UNCHANGED <<actor, streams, eof>> \/ Created \/ Added
           \/ \E e \in Sides : \/ Left(e) /\ UNCHANGED eof
                               \/ \E id \in Ids : Closed(e, id)
                               \/ ToldOf(e) \/ Shut(e)
<1>1. ASSUME NEW e \in Sides, Ended(e) \/ EndedBy(e) PROVE Left(e) /\ UNCHANGED eof
  BY <1>1 DEF Ended, EndedBy
<1>2. ASSUME NEW e \in Sides, ToldClose(e) \/ WriteFailed(e)
      PROVE  UNCHANGED <<actor, streams, eof>> \/ (Left(e) /\ UNCHANGED eof)
  BY <1>2 DEF ToldClose, WriteFailed
<1>3. ASSUME Quiet \/ Accepted PROVE UNCHANGED <<actor, streams, eof>>
  BY <1>3 DEF Quiet, Accepted
<1>4. ASSUME NEW e \in Sides, Ending(e) \/ Opened(e) \/ Filled(e) \/ Ignored(e)
             \/ \E id \in Ids : Wrote(e, id) \/ Took(e, id)
      PROVE  UNCHANGED <<actor, streams, eof>>
  BY <1>4 DEF Ending, Opened, Filled, Ignored, Wrote, Took
<1> QED
  BY <1>1, <1>2, <1>3, <1>4 DEF Shapes

\* Apart from CreateStream and RecvConnect, the maps only lose streams.
Shrunk(e) == \E S \in SUBSET streams[e] : streams' = [streams EXCEPT ![e] = S]

LEMMA Shrinking ==
    ASSUME NEW e \in Sides, Left(e) \/ ToldOf(e) \/ Shut(e) \/ \E id \in Ids : Closed(e, id)
    PROVE  UNCHANGED streams \/ Shrunk(e)
<1>1. CASE Left(e)
  BY <1>1 DEF Left, Shrunk
<1>2. CASE Shut(e)
  BY <1>2 DEF Shut
<1>3. ASSUME NEW id, streams' = [streams EXCEPT ![e] = @ \ {id}] PROVE Shrunk(e)
  <2>1. streams[e] \ {id} \in SUBSET streams[e]
    OBVIOUS
  <2> QED
    BY <1>3, <2>1 DEF Shrunk
<1> QED
  BY <1>1, <1>2, <1>3 DEF ToldOf, Closed

LEMMA IdSteps ==
    ASSUME Shapes
    PROVE  /\ Created \/ UNCHANGED currentId
           /\ UNCHANGED owned \/ Accepted \/ \E e \in Sides : Opened(e)
<1>1. ASSUME Quiet \/ Added PROVE UNCHANGED <<currentId, owned>>
  BY <1>1 DEF Quiet, Added
<1>2. ASSUME NEW e \in Sides, Ending(e) \/ Ended(e) \/ ToldClose(e) \/ WriteFailed(e) \/ Filled(e)
             \/ ToldOf(e) \/ Ignored(e) \/ EndedBy(e) \/ Shut(e)
      PROVE  UNCHANGED <<currentId, owned>>
  BY <1>2 DEF Ending, Ended, ToldClose, WriteFailed, Filled, ToldOf, Ignored, EndedBy, Shut
<1>3. ASSUME NEW e \in Sides, NEW id \in Ids, Wrote(e, id) \/ Took(e, id) \/ Closed(e, id)
      PROVE  UNCHANGED <<currentId, owned>>
  BY <1>3 DEF Wrote, Took, Closed
<1>4. ASSUME Accepted \/ \E e \in Sides : Opened(e) PROVE UNCHANGED currentId
  BY <1>4 DEF Accepted, Opened
<1>5. ASSUME Created PROVE UNCHANGED owned
  BY <1>5 DEF Created
<1> QED
  BY <1>1, <1>2, <1>3, <1>4, <1>5 DEF Shapes

LEMMA PacketSteps ==
    ASSUME Shapes
    PROVE  \/ UNCHANGED wire
           \/ \E e \in Sides : \/ Taken(e) /\ Received(e)
                               \/ Opened(e) \/ ToldClose(e) \/ Shut(e)
                               \/ \E id \in Ids : Wrote(e, id)
<1>1. ASSUME Quiet \/ Accepted \/ Created PROVE UNCHANGED wire
  BY <1>1 DEF Quiet, Accepted, Created
<1>2. ASSUME Added PROVE Taken("server") /\ "server" \in Sides /\ Received("server")
  BY <1>2 DEF Added, Sides, Received
<1>3. ASSUME NEW e \in Sides, Ending(e) \/ Ended(e) \/ WriteFailed(e)
             \/ \E id \in Ids : Took(e, id) \/ Closed(e, id)
      PROVE  UNCHANGED wire
  BY <1>3 DEF Ending, Ended, WriteFailed, Took, Closed
<1>4. ASSUME NEW e \in Sides, Filled(e) \/ ToldOf(e) \/ Ignored(e) \/ EndedBy(e)
      PROVE  Taken(e) /\ Received(e)
  BY <1>4 DEF Filled, ToldOf, Ignored, EndedBy, Received
<1> QED
  BY <1>1, <1>2, <1>3, <1>4 DEF Shapes

LEMMA WorkSteps ==
    ASSUME Shapes
    PROVE  \/ UNCHANGED work \/ Created
           \/ \E e \in Sides : \/ WorkDone(e) /\ (Opened(e) \/ ToldClose(e) \/ WriteFailed(e))
                               \/ WorkIs(e, Close(0, e)) /\ Ending(e)
                               \/ \E id \in Ids : WorkIs(e, Close(id, e)) /\ Closed(e, id)
<1>1. ASSUME Quiet \/ Accepted \/ Added PROVE UNCHANGED work
  BY <1>1 DEF Quiet, Accepted, Added
<1>2. ASSUME NEW e \in Sides, Ended(e) \/ Filled(e) \/ ToldOf(e) \/ Ignored(e) \/ EndedBy(e)
             \/ Shut(e) \/ \E id \in Ids : Wrote(e, id) \/ Took(e, id)
      PROVE  UNCHANGED work
  BY <1>2 DEF Ended, Filled, ToldOf, Ignored, EndedBy, Shut, Wrote, Took
<1>3. ASSUME NEW e \in Sides, Opened(e) \/ ToldClose(e) \/ WriteFailed(e) PROVE WorkDone(e)
  BY <1>3 DEF Opened, ToldClose, WriteFailed
<1>4. ASSUME NEW e \in Sides, Ending(e) PROVE WorkIs(e, Close(0, e))
  BY <1>4 DEF Ending
<1>5. ASSUME NEW e \in Sides, NEW id \in Ids, Closed(e, id) PROVE WorkIs(e, Close(id, e))
  BY <1>5 DEF Closed
<1> QED
  BY <1>1, <1>2, <1>3, <1>4, <1>5 DEF Shapes

LEMMA QueueSteps ==
    ASSUME Shapes
    PROVE  /\ UNCHANGED backlog \/ Accepted \/ Added
           /\ \/ UNCHANGED <<inbox, lost>>
              \/ \E e \in Sides : Filled(e) \/ \E id \in Ids : Took(e, id)
<1>1. ASSUME Quiet \/ Created PROVE UNCHANGED <<backlog, inbox, lost>>
  BY <1>1 DEF Quiet, Created
<1>2. ASSUME NEW e \in Sides, Ending(e) \/ Ended(e) \/ Opened(e) \/ ToldClose(e) \/ WriteFailed(e)
             \/ ToldOf(e) \/ Ignored(e) \/ EndedBy(e) \/ Shut(e)
             \/ \E id \in Ids : Wrote(e, id) \/ Closed(e, id)
      PROVE  UNCHANGED <<backlog, inbox, lost>>
  BY <1>2 DEF Ending, Ended, Opened, ToldClose, WriteFailed, ToldOf, Ignored, EndedBy, Shut,
     Wrote, Closed
<1>3. ASSUME Accepted \/ Added PROVE UNCHANGED <<inbox, lost>>
  BY <1>3 DEF Accepted, Added
<1>4. ASSUME NEW e \in Sides, Filled(e) \/ \E id \in Ids : Took(e, id) PROVE UNCHANGED backlog
  BY <1>4 DEF Filled, Took
<1> QED
  BY <1>1, <1>2, <1>3, <1>4 DEF Shapes

LEMMA CountSteps ==
    ASSUME Shapes
    PROVE  \/ UNCHANGED <<sent, got>>
           \/ \E e \in Sides, id \in Ids : Wrote(e, id) \/ Took(e, id)
<1>1. ASSUME Quiet \/ Accepted \/ Created \/ Added PROVE UNCHANGED <<sent, got>>
  BY <1>1 DEF Quiet, Accepted, Created, Added
<1>2. ASSUME NEW e \in Sides, Ending(e) \/ Ended(e) \/ Opened(e) \/ ToldClose(e) \/ WriteFailed(e)
             \/ Filled(e) \/ ToldOf(e) \/ Ignored(e) \/ EndedBy(e) \/ Shut(e)
             \/ \E id \in Ids : Closed(e, id)
      PROVE  UNCHANGED <<sent, got>>
  BY <1>2 DEF Ending, Ended, Opened, ToldClose, WriteFailed, Filled, ToldOf, Ignored, EndedBy, Shut,
     Closed
<1> QED
  BY <1>1, <1>2 DEF Shapes

LEMMA SidesFacts ==
    /\ "client" \in Sides /\ "server" \in Sides /\ "client" # "server"
    /\ Peer("client") = "server" /\ Peer("server") = "client"
    /\ \A e \in Sides : Peer(e) \in Sides /\ Peer(e) # e /\ Peer(Peer(e)) = e
BY DEF Sides, Peer

LEMMA WorkSet ==
    ASSUME DOMAIN work = Sides, NEW e \in Sides, NEW p, NEW k,
           work' = [work EXCEPT ![e] = <<[pkt |-> p, for |-> k]>>]
    PROVE  WorkIs(e, p)
<1> DEFINE w == <<[pkt |-> p, for |-> k]>>
<1>1. w # <<>> /\ Len(w) = 1 /\ w[1].pkt = p
  OBVIOUS
<1> HIDE DEF w
<1>2. work' = [work EXCEPT ![e] = w]
  BY DEF w
<1>3. DOMAIN work' = Sides /\ work'[e] = w /\ work'[Peer(e)] = work[Peer(e)]
  BY <1>2, SidesFacts
<1> QED
  BY <1>1, <1>3 DEF WorkIs

LEMMA PacketFields ==
    ASSUME NEW p \in Packets
    PROVE  /\ p.type \in {"connect", "data", "close"} /\ p.id \in Ids \cup {0}
           /\ p.type = "connect" => p.id \in Ids
           /\ p.type = "data" => p.id \in Ids /\ p.arg \in Nat
           /\ p.type = "close" => p.arg \in Sides
BY DEF Packets

LEMMA PacketsMade ==
    ASSUME NEW id \in Ids, NEW n \in Nat, NEW e \in Sides
    PROVE  /\ Connect(id) \in Packets /\ Connect(id).type = "connect" /\ Connect(id).id = id
           /\ Data(id, n) \in Packets /\ Data(id, n).type = "data"
           /\ Data(id, n).id = id /\ Data(id, n).arg = n
           /\ Close(id, e) \in Packets /\ Close(id, e).type = "close" /\ Close(id, e).id = id
           /\ Close(0, e) \in Packets /\ Close(0, e).type = "close" /\ Close(0, e).id = 0
BY DEF Connect, Data, Close, Packets, Sides

\* Every step of a handler or the application has one of the shapes.
LEMMA StepsHaveShapes ==
    ASSUME ActorTypes, Next
    PROVE  Shapes
<1> USE DEF ActorTypes
<1>1. ASSUME NEW k \in Calls, NewStream(k) PROVE Quiet
  BY <1>1 DEF NewStream, Quiet
<1>2. ASSUME WaitForStream PROVE Accepted
  BY <1>2 DEF WaitForStream, Accepted
<1>3. ASSUME DropServerMux PROVE Quiet
  BY <1>3 DEF DropServerMux, Quiet, appVars
<1>4. ASSUME NEW e \in Sides, NEW r, CloseMux(e, r) PROVE Quiet
  BY <1>4 DEF CloseMux, Quiet, appVars
<1>5. ASSUME CreateStream PROVE Quiet \/ Created
  <2>1. /\ actor["client"] = "running" /\ work["client"] = <<>>
        /\ UNCHANGED <<actor, backlog, owned, sent, got, lost, wire, eof, inbox>>
    BY <1>5 DEF CreateStream, Pop, Idle
  <2>2. CASE currentId + 1 <= MaxId
    <3> DEFINE k == Head(events["client"]).arg
    <3>1. /\ currentId' = currentId + 1
          /\ streams' = [streams EXCEPT !["client"] = @ \cup {currentId + 1}]
          /\ work' = [work EXCEPT !["client"] = <<[pkt |-> Connect(currentId + 1), for |-> k]>>]
      BY <1>5, <2>2, MuxConstants DEF CreateStream
    <3>2. WorkIs("client", Connect(currentId + 1))
      BY <3>1, WorkSet, SidesFacts
    <3> QED
      BY <2>1, <2>2, <3>1, <3>2 DEF Created
  <2>3. CASE ~(currentId + 1 <= MaxId)
    BY <1>5, <2>1, <2>3, MuxConstants DEF CreateStream, Quiet
  <2> QED
    BY <2>2, <2>3
<1>6. ASSUME NEW e \in Sides, CloseEvent(e) PROVE Quiet \/ \E id \in Ids : Closed(e, id)
  <2>1. /\ work[e] = <<>>
        /\ UNCHANGED <<actor, owned, currentId, backlog, wire, eof, inbox, sent, got, lost>>
    BY <1>6 DEF CloseEvent, Pop, Idle
  <2> DEFINE id == Head(events[e]).arg
  <2>2. CASE id \in streams[e]
    <3>1. /\ streams' = [streams EXCEPT ![e] = @ \ {Close(id, e).id}]
          /\ work' = [work EXCEPT ![e] = <<[pkt |-> Close(id, e), for |-> id]>>]
      BY <1>6, <2>2 DEF CloseEvent, Unlink
    <3>2. WorkIs(e, Close(id, e)) /\ id \in Ids /\ Close(id, e).id = id
      BY <2>2, <3>1, WorkSet DEF Close
    <3> QED
      BY <2>1, <2>2, <3>1, <3>2 DEF Closed
  <2>3. CASE id \notin streams[e]
    BY <1>6, <2>1, <2>3 DEF CloseEvent, Quiet
  <2> QED
    BY <2>2, <2>3
<1>7. ASSUME NEW e \in Sides, EndFut(e) PROVE Ending(e) \/ Ended(e)
  <2>1. work[e] = <<>> /\ UNCHANGED <<owned, currentId, backlog, wire, eof, inbox, sent, got, lost>>
    BY <1>7 DEF EndFut, Idle
  <2>2. CASE Head(events[e]).arg
    <3>1. /\ UNCHANGED <<actor, streams>>
          /\ work' = [work EXCEPT ![e] = <<[pkt |-> Close(0, e), for |-> 0]>>]
      BY <1>7, <2>2 DEF EndFut
    <3> QED
      BY <2>1, <3>1, WorkSet DEF Ending
  <2>3. CASE ~Head(events[e]).arg
    BY <1>7, <2>1, <2>3 DEF EndFut, Idle, Leave, Ended, Left
  <2> QED
    BY <2>2, <2>3
<1>8. ASSUME NEW e \in Sides, SendWork(e) PROVE Opened(e) \/ ToldClose(e) \/ WriteFailed(e)
  <2> DEFINE pkt == work[e][1].pkt
  <2>1. /\ work[e] # <<>> /\ work' = [work EXCEPT ![e] = <<>>]
        /\ UNCHANGED <<currentId, backlog, eof, inbox, sent, got, lost>>
    BY <1>8 DEF SendWork
  <2>2. WorkDone(e)
    BY <2>1, SidesFacts DEF WorkDone
  <2>3. CASE wire' = Sent(e, pkt) /\ pkt.type = "connect" /\ UNCHANGED <<actor, streams>>
             /\ owned' = [owned EXCEPT ![e] = @ \cup {pkt.id}]
    BY <2>1, <2>2, <2>3 DEF Opened
  <2>4. CASE wire' = Sent(e, pkt) /\ pkt.type = "close" /\ UNCHANGED owned
             /\ (UNCHANGED <<actor, streams>> \/ Left(e))
    BY <2>1, <2>2, <2>4 DEF ToldClose
  <2>5. CASE eof[e] /\ UNCHANGED <<wire, owned>> /\ (UNCHANGED <<actor, streams>> \/ Left(e))
    BY <2>1, <2>2, <2>5 DEF WriteFailed
  <2> QED
    BY <1>8, <2>3, <2>4, <2>5 DEF SendWork, Leave, Left
<1>9. ASSUME RecvConnect PROVE Added \/ EndedBy("server")
  BY <1>9 DEF RecvConnect, Receive, Idle, Leave, Added, EndedBy, Left, Taken
<1>10. ASSUME NEW e \in Sides, RecvData(e) PROVE Filled(e) \/ Ignored(e)
  BY <1>10 DEF RecvData, Receive, Idle, Filled, Kept, Refused, Ignored, Taken, actorVars, appVars
<1>11. ASSUME NEW e \in Sides, RecvClose(e) PROVE EndedBy(e) \/ ToldOf(e) \/ Ignored(e)
  BY <1>11 DEF RecvClose, Receive, Idle, Leave, Unlink, EndedBy, ToldOf, Ignored, Left, Taken
<1>12. ASSUME NEW e \in Sides, RecvEof(e) PROVE Ended(e)
  BY <1>12 DEF RecvEof, Idle, Leave, Ended, Left
<1>13. ASSUME NEW e \in Sides, SetReason(e) PROVE Quiet
  BY <1>13 DEF SetReason, Quiet, appVars
<1>14. ASSUME NEW e \in Sides, CloseTransport(e) PROVE Shut(e)
  BY <1>14 DEF CloseTransport, Shut, appVars
<1>15. ASSUME NEW e \in Sides, NEW id \in Ids, CloseStream(e, id) PROVE Quiet
  BY <1>15 DEF CloseStream, Quiet
<1>16. ASSUME NEW e \in Sides, NEW id \in Ids, Write(e, id) PROVE Wrote(e, id)
  BY <1>16 DEF Write, Wrote, actorVars
<1>17. ASSUME NEW e \in Sides, NEW id \in Ids, Read(e, id) PROVE Quiet \/ Took(e, id)
  BY <1>17 DEF Read, Quiet, Took, actorVars
<1> QED
  BY <1>1, <1>2, <1>3, <1>4, <1>5, <1>6, <1>7, <1>8, <1>9, <1>10, <1>11, <1>12, <1>13, <1>14,
     <1>15, <1>16, <1>17, SidesFacts DEF Next, HandleEvent, HandlePacket, RunOn, Shapes
-----------------------------------------------------------------------------
(* Types.                                                                  *)

LEMMA SentFacts ==
    ASSUME ActorTypes, NEW e \in Sides, NEW p \in Packets, wire' = Sent(e, p)
    PROVE  /\ wire' \in [Sides -> Seq(Packets)] /\ wire'[e] = wire[e]
           /\ actor[Peer(e)] = "running" => wire'[Peer(e)] = Append(wire[Peer(e)], p)
           /\ actor[Peer(e)] # "running" => wire'[Peer(e)] = wire[Peer(e)]
<1> DEFINE q == Append(wire[Peer(e)], p)
<1>1. wire \in [Sides -> Seq(Packets)]
  BY DEF ActorTypes
<1>2. q \in Seq(Packets)
  BY <1>1, SidesFacts, AppendProperties
<1>3. wire' = [wire EXCEPT ![Peer(e)] = q] \/ wire' = wire
  BY DEF Sent
<1>4. actor[Peer(e)] = "running" => wire' = [wire EXCEPT ![Peer(e)] = q]
  BY DEF Sent
<1>5. actor[Peer(e)] # "running" => wire' = wire
  BY DEF Sent
<1> HIDE DEF q
<1>6. wire' \in [Sides -> Seq(Packets)] /\ wire'[e] = wire[e]
  BY <1>1, <1>2, <1>3, SidesFacts
<1>7. actor[Peer(e)] = "running" => wire'[Peer(e)] = q
  BY <1>1, <1>4, SidesFacts
<1> QED
  BY <1>5, <1>6, <1>7 DEF q

LEMMA TakenFacts ==
    ASSUME ActorTypes, NEW e \in Sides, Taken(e)
    PROVE  /\ wire' \in [Sides -> Seq(Packets)] /\ wire'[Peer(e)] = wire[Peer(e)]
           /\ wire[e] \in Seq(Packets) /\ wire[e] # <<>>
           /\ wire'[e] = Tail(wire[e]) /\ Head(wire[e]) \in Packets
<1>1. wire \in [Sides -> Seq(Packets)] /\ wire[e] \in Seq(Packets) /\ wire[e] # <<>>
  BY DEF ActorTypes, Taken
<1> DEFINE q == Tail(wire[e])
<1>2. q \in Seq(Packets) /\ Head(wire[e]) \in Packets
  BY <1>1, TailHas
<1>3. wire' = [wire EXCEPT ![e] = q]
  BY DEF Taken
<1> HIDE DEF q
<1>4. wire' \in [Sides -> Seq(Packets)] /\ wire'[Peer(e)] = wire[Peer(e)] /\ wire'[e] = q
  BY <1>1, <1>2, <1>3, SidesFacts
<1> QED
  BY <1>1, <1>2, <1>4 DEF q

LEMMA WroteFacts ==
    ASSUME DataTypes, NEW e \in Sides, NEW id \in Ids, Wrote(e, id)
    PROVE  \E p \in Packets : /\ p.type = "data" /\ p.id = id /\ p = Data(id, sent[e][id] + 1)
                              /\ wire' = Sent(e, p)
<1>1. sent[e][id] + 1 \in Nat
  BY DEF DataTypes
<1> QED
  BY <1>1, PacketsMade DEF Wrote

LEMMA WorkPacket ==
    ASSUME ActorTypes, NEW e \in Sides, work[e] # <<>>
    PROVE  /\ work[e][1].pkt \in Packets /\ work[e][1].pkt.type \in {"connect", "close"}
           /\ work[e][1].pkt.type = "connect" => e = "client"
BY DEF ActorTypes, Work

LEMMA ActorTypesNext ==
    ASSUME ActorTypes, DataTypes, Shapes
    PROVE  ActorTypes'
<1>1. /\ actor \in [Sides -> {"running", "ending", "ended"}]
      /\ streams \in [Sides -> SUBSET Ids] /\ owned \in [Sides -> SUBSET Ids]
      /\ currentId \in 0..MaxId /\ backlog \in Seq(Ids) /\ eof \in [Sides -> BOOLEAN]
  BY DEF ActorTypes
<1>2. actor' \in [Sides -> {"running", "ending", "ended"}]
  <2>1. \/ UNCHANGED actor
        \/ \E e \in Sides : \/ actor' = [actor EXCEPT ![e] = "ending"]
                            \/ actor' = [actor EXCEPT ![e] = "ended"]
    BY MapSteps DEF Created, Added, Left, Closed, ToldOf, Shut
  <2> QED
    BY <1>1, <2>1
<1>3. owned' \in [Sides -> SUBSET Ids]
  <2>1. CASE Accepted
    <3>1. Head(backlog) \in Ids
      BY <1>1, <2>1, HeadTailProperties DEF Accepted
    <3> QED
      BY <1>1, <2>1, <3>1, SidesFacts DEF Accepted
  <2>2. ASSUME NEW e \in Sides, Opened(e) PROVE owned' \in [Sides -> SUBSET Ids]
    <3>1. work[e][1].pkt.id \in Ids
      BY <2>2, WorkPacket, PacketFields DEF Opened
    <3> QED
      BY <1>1, <2>2, <3>1 DEF Opened
  <2>3. CASE UNCHANGED owned
    BY <1>1, <2>3
  <2> QED
    BY <2>1, <2>2, <2>3 DEF Shapes, Quiet, Created, Added, Wrote, Took, Closed, Ending, Ended,
       ToldClose, WriteFailed, Filled, ToldOf, Ignored, EndedBy, Shut
<1>4. streams' \in [Sides -> SUBSET Ids] /\ currentId' \in 0..MaxId /\ backlog' \in Seq(Ids)
  <2>1. CASE Created
    <3>1. currentId + 1 \in Ids /\ currentId + 1 \in 0..MaxId
      BY <1>1, <2>1, MuxConstants DEF Created, Ids
    <3> QED
      BY <1>1, <2>1, <3>1 DEF Created
  <2>2. CASE Added
    <3>1. Head(wire["server"]).id \in Ids
      BY <2>2, TakenFacts, PacketFields, SidesFacts DEF Added
    <3>2. Append(backlog, Head(wire["server"]).id) \in Seq(Ids)
      BY <1>1, <3>1, AppendProperties
    <3> QED
      BY <1>1, <2>2, <3>1, <3>2 DEF Added
  <2>3. CASE ~Created /\ ~Added
    <3>1. currentId' \in 0..MaxId
      BY <1>1, <2>3, IdSteps
    <3>2. backlog' \in Seq(Ids)
      <4>1. CASE Accepted
        BY <1>1, <4>1, TailHas DEF Accepted
      <4>2. CASE UNCHANGED backlog
        BY <1>1, <4>2
      <4> QED
        BY <2>3, <4>1, <4>2, QueueSteps
    <3>3. UNCHANGED streams \/ \E e \in Sides : Shrunk(e)
      BY <2>3, MapSteps, Shrinking
    <3> QED
      BY <1>1, <3>1, <3>2, <3>3 DEF Shrunk
  <2> QED
    BY <2>1, <2>2, <2>3
<1>5. eof' \in [Sides -> BOOLEAN]
  <2>1. eof' = eof \/ \E e \in Sides : eof' = [eof EXCEPT ![Peer(e)] = TRUE]
    BY DEF Shapes, Quiet, Accepted, Created, Added, Wrote, Took, Closed, Ending, Ended, Opened,
       ToldClose, WriteFailed, Filled, ToldOf, Ignored, EndedBy, Shut
  <2> QED
    BY <1>1, <2>1
<1>6. wire' \in [Sides -> Seq(Packets)]
  <2>1. ASSUME NEW e \in Sides, NEW id \in Ids, Wrote(e, id) PROVE wire' \in [Sides -> Seq(Packets)]
    BY <2>1, WroteFacts, SentFacts
  <2>2. ASSUME NEW e \in Sides, Opened(e) \/ ToldClose(e) PROVE wire' \in [Sides -> Seq(Packets)]
    BY <2>2, SentFacts, WorkPacket DEF Opened, ToldClose
  <2>3. ASSUME NEW e \in Sides, Taken(e) PROVE wire' \in [Sides -> Seq(Packets)]
    BY <2>3, TakenFacts
  <2>4. ASSUME NEW e \in Sides, Shut(e) PROVE wire' \in [Sides -> Seq(Packets)]
    BY <2>4, EmptySeq DEF Shut, ActorTypes
  <2>5. CASE UNCHANGED wire
    BY <2>5 DEF ActorTypes
  <2> QED
    BY <2>1, <2>2, <2>3, <2>4, <2>5, SidesFacts DEF Shapes, Quiet, Accepted, Created, Added, Took,
       Closed, Ending, Ended, WriteFailed, Filled, ToldOf, Ignored, EndedBy
<1> DEFINE WorkOK == DOMAIN work' = Sides /\ \A x \in Sides : work'[x] = <<>>
                        \/ (Len(work'[x]) = 1 /\ work'[x][1].pkt \in Work(x))
<1>7. WorkOK
  <2>1. /\ DOMAIN work = Sides
        /\ \A x \in Sides : work[x] = <<>> \/ (Len(work[x]) = 1 /\ work[x][1].pkt \in Work(x))
    BY DEF ActorTypes
  <2>2. \A e, x \in Sides : x = e \/ x = Peer(e)
    BY DEF Sides, Peer
  <2>3. CASE UNCHANGED work
    BY <2>1, <2>3
  <2>4. ASSUME NEW e \in Sides, WorkDone(e) PROVE WorkOK
    BY <2>1, <2>2, <2>4 DEF WorkDone
  <2>5. ASSUME NEW e \in Sides, NEW p \in Work(e), WorkIs(e, p) PROVE WorkOK
    BY <2>1, <2>2, <2>5 DEF WorkIs
  <2>6. ASSUME Created PROVE WorkOK
    <3>1. currentId + 1 \in Ids
      BY <1>1, <2>6, MuxConstants DEF Created, Ids
    <3>2. Connect(currentId + 1) \in Work("client")
      BY <3>1, PacketsMade, SidesFacts DEF Work
    <3> QED
      BY <2>5, <2>6, <3>2, SidesFacts DEF Created
  <2>7. ASSUME NEW e \in Sides, NEW id \in Ids, Closed(e, id) PROVE WorkOK
    <3>1. Close(id, e) \in Work(e)
      BY PacketsMade DEF Work
    <3> QED
      BY <2>5, <2>7, <3>1 DEF Closed
  <2>8. ASSUME NEW e \in Sides, Ending(e) PROVE WorkOK
    <3>1. Close(0, e) \in Work(e)
      BY DEF Work, Close, Packets
    <3> QED
      BY <2>5, <2>8, <3>1 DEF Ending
  <2> QED
    BY <2>3, <2>4, <2>6, <2>7, <2>8 DEF Shapes, Quiet, Accepted, Added, Wrote, Took, Ended, Opened,
       ToldClose, WriteFailed, Filled, ToldOf, Ignored, EndedBy, Shut
<1> QED
  BY <1>2, <1>3, <1>4, <1>5, <1>6, <1>7 DEF ActorTypes

LEMMA NestedExcept ==
    ASSUME NEW A, NEW B, NEW C, NEW f \in [A -> [B -> C]], NEW a \in A, NEW b, NEW c \in C
    PROVE  [f EXCEPT ![a][b] = c] \in [A -> [B -> C]]
<1>1. f[a] \in [B -> C]
  OBVIOUS
<1>2. [f[a] EXCEPT ![b] = c] \in [B -> C]
  BY <1>1
<1> QED
  BY <1>2

LEMMA DataTypesNext ==
    ASSUME ActorTypes, DataTypes, Shapes
    PROVE  DataTypes'
<1> USE DEF DataTypes
<1>1. ASSUME NEW e \in Sides, NEW id \in Ids, Took(e, id) PROVE DataTypes'
  <2>1. Tail(inbox[e][id]) \in Seq(Nat) /\ Head(inbox[e][id]) \in Nat
    BY <1>1, HeadTailProperties DEF Took
  <2>2. Append(got[e][id], Head(inbox[e][id])) \in Seq(Nat)
    BY <2>1, AppendProperties
  <2>3. inbox' \in [Sides -> [Ids -> Seq(Nat)]]
    BY <1>1, <2>1, NestedExcept DEF Took
  <2>4. got' \in [Sides -> [Ids -> Seq(Nat)]]
    BY <1>1, <2>2, NestedExcept DEF Took
  <2> QED
    BY <1>1, <2>3, <2>4 DEF Took
<1>2. ASSUME NEW e \in Sides, Filled(e) PROVE DataTypes'
  <2> DEFINE p == Head(wire[e])
  <2>1. p.arg \in Nat /\ p.id \in Ids
    BY <1>2, TakenFacts, PacketFields DEF Filled
  <2>2. Append(inbox[e][p.id], p.arg) \in Seq(Nat) /\ Append(lost[e][p.id], p.arg) \in Seq(Nat)
    <3> HIDE DEF p
    <3>1. inbox[e][p.id] \in Seq(Nat) /\ lost[e][p.id] \in Seq(Nat)
      BY <2>1
    <3> HIDE DEF DataTypes
    <3> QED
      BY <2>1, <3>1, AppendProperties
  <2>3. inbox' \in [Sides -> [Ids -> Seq(Nat)]] /\ lost' \in [Sides -> [Ids -> Seq(Nat)]]
    <3>1. CASE Kept(e, p)
      BY <2>2, <3>1, NestedExcept DEF Kept
    <3>2. CASE Refused(e, p)
      BY <2>2, <3>2, NestedExcept DEF Refused
    <3> QED
      BY <1>2, <3>1, <3>2 DEF Filled
  <2> QED
    BY <1>2, <2>3 DEF Filled
<1>3. ASSUME NEW e \in Sides, NEW id \in Ids, Wrote(e, id) PROVE DataTypes'
  BY <1>3 DEF Wrote
<1>4. CASE UNCHANGED <<inbox, sent, got, lost>>
  BY <1>4
<1> QED
  BY <1>1, <1>2, <1>3, <1>4 DEF Shapes, Quiet, Accepted, Created, Added, Closed, Ending, Ended,
     Opened, ToldClose, WriteFailed, ToldOf, Ignored, EndedBy, Shut

\* unset and reason after close_stream of one of e's streams.
LEMMA UnlinkTypes ==
    ASSUME AnswerTypes, NEW e \in Sides, NEW p \in Packets, p.type = "close", Unlink(e, p)
    PROVE  /\ unset' \in [Sides -> SUBSET {x \in Packets : x.type = "close"}]
           /\ reason' \in [Sides -> [Ids -> Reasons]]
BY DEF Unlink, AnswerTypes

\* closing and calls after the loop of e's actor was left.
LEMMA LeaveTypes ==
    ASSUME AnswerTypes, NEW e \in Sides, Leave(e)
    PROVE  /\ calls' \in [Calls -> {"none", "queued", "opened", "failed", "lost"}]
           /\ closing' \in [Sides -> [Ids -> {"no", "waiting", "closed", "invalid", "failed", "lost"}]]
BY DEF Leave, AnswerTypes

LEMMA AnswerTypesNext ==
    ASSUME ActorTypes, AnswerTypes, Next
    PROVE  AnswerTypes'
<1> DEFINE Told == UNCHANGED <<unset, reason>>
           Asked == UNCHANGED <<calls, closing>>
           UnsetOK == unset' \in [Sides -> SUBSET {x \in Packets : x.type = "close"}]
           ReasonOK == reason' \in [Sides -> [Ids -> Reasons]]
           CallsOK == calls' \in [Calls -> {"none", "queued", "opened", "failed", "lost"}]
           ClosingOK == closing' \in [Sides -> [Ids ->
                            {"no", "waiting", "closed", "invalid", "failed", "lost"}]]
<1>1. Told => UnsetOK /\ ReasonOK
  BY DEF AnswerTypes
<1>2. Asked => CallsOK /\ ClosingOK
  BY DEF AnswerTypes
<1>3. UNCHANGED calls => CallsOK
  BY DEF AnswerTypes
<1>4. UNCHANGED closing => ClosingOK
  BY DEF AnswerTypes
<1>5. ASSUME NEW e \in Sides, Leave(e) PROVE CallsOK /\ ClosingOK
  BY <1>5, LeaveTypes
<1>6. ASSUME NEW e \in Sides, NEW p \in Packets, p.type = "close", Unlink(e, p)
      PROVE  UnsetOK /\ ReasonOK
  BY <1>6, UnlinkTypes
<1>7. ASSUME NEW k, NEW v \in {"none", "queued", "opened", "failed", "lost"},
             calls' = [calls EXCEPT ![k] = v]
      PROVE  CallsOK
  BY <1>7 DEF AnswerTypes
<1>8. ASSUME NEW e \in Sides, NEW id, NEW v \in {"no", "waiting", "closed", "invalid", "failed", "lost"},
             closing' = [closing EXCEPT ![e][id] = v]
      PROVE  ClosingOK
  <2> DEFINE C == {"no", "waiting", "closed", "invalid", "failed", "lost"}
  <2>1. closing \in [Sides -> [Ids -> C]] /\ v \in C
    BY <1>8 DEF AnswerTypes
  <2> HIDE DEF C
  <2>2. closing' \in [Sides -> [Ids -> C]]
    BY <1>8, <2>1, NestedExcept
  <2> QED
    BY <2>2 DEF C
<1>9. \A e \in Sides : wire[e] # <<>> => Head(wire[e]) \in Packets
  BY HeadTailProperties DEF ActorTypes
<1> DEFINE Goal == UnsetOK /\ ReasonOK /\ CallsOK /\ ClosingOK
<1>10. ASSUME NEW k \in Calls, NewStream(k) PROVE Goal
  BY <1>10, <1>1, <1>4, <1>7 DEF NewStream
<1>11. ASSUME WaitForStream \/ DropServerMux PROVE Goal
  BY <1>11, <1>1, <1>2 DEF WaitForStream, DropServerMux, appVars
<1>12. ASSUME NEW e \in Sides, NEW r, CloseMux(e, r) PROVE Goal
  BY <1>12, <1>1, <1>2 DEF CloseMux, appVars
<1>13. ASSUME CreateStream PROVE Goal
  BY <1>13, <1>1, <1>3, <1>4, <1>7 DEF CreateStream
<1>14. ASSUME NEW e \in Sides, CloseEvent(e) PROVE Goal
  <2> DEFINE id == Head(events[e]).arg
  <2>1. CASE id \in streams[e]
    <3>1. /\ Close(id, e) \in Packets /\ Close(id, e).type = "close" /\ Unlink(e, Close(id, e))
          /\ Asked
      BY <1>14, <2>1, PacketsMade DEF CloseEvent, ActorTypes
    <3> QED
      BY <1>2, <1>6, <3>1
  <2>2. CASE id \notin streams[e]
    <3>1. Told /\ UNCHANGED calls /\ closing' = [closing EXCEPT ![e][id] = "invalid"]
      BY <1>14, <2>2 DEF CloseEvent
    <3> QED
      BY <1>1, <1>3, <1>8, <3>1
  <2> QED
    BY <2>1, <2>2
<1>15. ASSUME NEW e \in Sides, EndFut(e) PROVE Goal
  BY <1>15, <1>1, <1>2, <1>5 DEF EndFut
<1>16. ASSUME NEW e \in Sides, SendWork(e) PROVE Goal
  <2>1. Told
    BY <1>16 DEF SendWork
  <2>2. \/ Leave(e)
        \/ UNCHANGED closing /\ \E v \in {"opened", "failed"} :
               calls' = [calls EXCEPT ![work[e][1].for] = v]
        \/ UNCHANGED calls /\ \E v \in {"closed", "failed"} :
               closing' = [closing EXCEPT ![e][work[e][1].pkt.id] = v]
    BY <1>16 DEF SendWork
  <2> QED
    BY <1>1, <1>3, <1>4, <1>5, <1>7, <1>8, <2>1, <2>2
<1>17. ASSUME RecvConnect PROVE Goal
  BY <1>17, <1>1, <1>2, <1>5, SidesFacts DEF RecvConnect
<1>18. ASSUME NEW e \in Sides, RecvData(e) PROVE Goal
  BY <1>18, <1>1, <1>2 DEF RecvData, actorVars, appVars
<1>19. ASSUME NEW e \in Sides, RecvClose(e) PROVE Goal
  <2>1. Head(wire[e]) \in Packets /\ Head(wire[e]).type = "close"
    BY <1>19, <1>9 DEF RecvClose, Receive
  <2> QED
    BY <1>19, <1>1, <1>2, <1>5, <1>6, <2>1 DEF RecvClose
<1>20. ASSUME NEW e \in Sides, RecvEof(e) PROVE Goal
  BY <1>20, <1>1, <1>5 DEF RecvEof
<1>21. ASSUME NEW e \in Sides, SetReason(e) PROVE Goal
  <2>1. PICK p \in unset[e] : reason' = [reason EXCEPT ![e][p.id] = p.arg]
    BY <1>21 DEF SetReason
  <2>2. p.arg \in Reasons
    BY PacketFields DEF AnswerTypes, Reasons
  <2>3. UnsetOK
    BY <1>21 DEF SetReason, AnswerTypes
  <2>4. ReasonOK
    BY <2>1, <2>2 DEF AnswerTypes
  <2> QED
    BY <1>21, <1>2, <2>3, <2>4 DEF SetReason, appVars
<1>22. ASSUME NEW e \in Sides, CloseTransport(e) PROVE Goal
  BY <1>22, <1>1, <1>2 DEF CloseTransport, appVars
<1>23. ASSUME NEW e \in Sides, NEW id \in Ids, CloseStream(e, id) PROVE Goal
  BY <1>23, <1>1, <1>3, <1>8 DEF CloseStream
<1>24. ASSUME NEW e \in Sides, NEW id \in Ids, Write(e, id) \/ Read(e, id) PROVE Goal
  BY <1>24, <1>1, <1>2 DEF Write, Read, actorVars
<1>25. Goal
  BY <1>10, <1>11, <1>12, <1>13, <1>14, <1>15, <1>16, <1>17, <1>18, <1>19, <1>20, <1>21, <1>22,
     <1>23, <1>24 DEF Next, HandleEvent, HandlePacket, RunOn
<1> QED
  BY <1>25 DEF AnswerTypes
-----------------------------------------------------------------------------
(* The effect of a written and of a received packet on what is under way.  *)

LEMMA SentHas ==
    ASSUME ActorTypes, NEW e \in Sides, NEW p \in Packets, wire' = Sent(e, p)
    PROVE  /\ wire'[e] = wire[e]
           /\ \A t, id : /\ Has(wire[Peer(e)], t, id) => Has(wire'[Peer(e)], t, id)
                         /\ Has(wire'[Peer(e)], t, id) =>
                               Has(wire[Peer(e)], t, id) \/ (p.type = t /\ p.id = id)
           /\ \A id : Names(wire'[Peer(e)], id) => Names(wire[Peer(e)], id) \/ p.id = id
           /\ actor[Peer(e)] = "running" => Has(wire'[Peer(e)], p.type, p.id)
<1>1. wire[Peer(e)] \in Seq(Packets)
  BY SidesFacts DEF ActorTypes
<1>2. CASE actor[Peer(e)] = "running"
  <2>1. wire'[e] = wire[e] /\ wire'[Peer(e)] = Append(wire[Peer(e)], p)
    BY <1>2, SentFacts
  <2> QED
    BY <1>1, <2>1, AppendHas
<1>3. CASE actor[Peer(e)] # "running"
  BY <1>3, SentFacts
<1> QED
  BY <1>2, <1>3

LEMMA TakenHas ==
    ASSUME ActorTypes, NEW e \in Sides, Taken(e)
    PROVE  /\ wire'[Peer(e)] = wire[Peer(e)]
           /\ \A t, id : /\ Has(wire'[e], t, id) => Has(wire[e], t, id)
                         /\ Has(wire[e], t, id) =>
                               \/ Has(wire'[e], t, id)
                               \/ Head(wire[e]).type = t /\ Head(wire[e]).id = id
           /\ \A id : Names(wire'[e], id) => Names(wire[e], id)
           /\ Has(wire[e], Head(wire[e]).type, Head(wire[e]).id)
           /\ Names(wire[e], Head(wire[e]).id)
BY TakenFacts, TailHas

\* Two sides.
LEMMA OtherSide ==
    ASSUME NEW e \in Sides, NEW x \in Sides
    PROVE  x = e \/ x = Peer(e)
BY DEF Sides, Peer
-----------------------------------------------------------------------------
(* The parts of the invariant.                                             *)

LEMMA LifeNext ==
    ASSUME ActorTypes, LifeInv, Shapes
    PROVE  LifeInv'
<1>1. /\ actor \in [Sides -> {"running", "ending", "ended"}]
      /\ streams \in [Sides -> SUBSET Ids] /\ eof \in [Sides -> BOOLEAN]
  BY DEF ActorTypes
<1> SUFFICES ASSUME NEW x \in Sides
             PROVE  /\ actor'[x] # "running" => streams'[x] = {}
                    /\ eof'[Peer(x)] => actor'[x] = "ended"
  BY DEF LifeInv
<1>2. /\ actor[x] # "running" => streams[x] = {}
      /\ eof[Peer(x)] => actor[x] = "ended"
  BY DEF LifeInv
<1>3. CASE UNCHANGED <<actor, streams, eof>>
  BY <1>2, <1>3
<1>4. ASSUME NEW e \in Sides, Left(e), UNCHANGED eof
      PROVE  /\ actor'[x] # "running" => streams'[x] = {}
             /\ eof'[Peer(x)] => actor'[x] = "ended"
  BY <1>1, <1>2, <1>4 DEF Left
<1>5. ASSUME NEW e \in Sides, NEW new, actor[e] = "running",
             streams' = [streams EXCEPT ![e] = new], UNCHANGED <<actor, eof>>
      PROVE  /\ actor'[x] # "running" => streams'[x] = {}
             /\ eof'[Peer(x)] => actor'[x] = "ended"
  BY <1>1, <1>2, <1>5
<1>6. ASSUME NEW e \in Sides, Shut(e)
      PROVE  /\ actor'[x] # "running" => streams'[x] = {}
             /\ eof'[Peer(x)] => actor'[x] = "ended"
  <2>1. CASE x = e
    BY <1>1, <1>2, <1>6, <2>1 DEF Shut
  <2>2. CASE x # e
    <3>1. Peer(x) # Peer(e)
      BY <2>2, SidesFacts
    <3> QED
      BY <1>1, <1>2, <1>6, <2>2, <3>1, SidesFacts DEF Shut
  <2> QED
    BY <2>1, <2>2
<1>7. ASSUME NEW e \in Sides, NEW id, id \in streams[e] PROVE actor[e] = "running"
  BY <1>7 DEF LifeInv
<1>8. ASSUME Created \/ Added
      PROVE  /\ actor'[x] # "running" => streams'[x] = {}
             /\ eof'[Peer(x)] => actor'[x] = "ended"
  BY <1>5, <1>8, SidesFacts DEF Created, Added
<1>9. ASSUME NEW e \in Sides, ToldOf(e) \/ \E id \in Ids : Closed(e, id)
      PROVE  /\ actor'[x] # "running" => streams'[x] = {}
             /\ eof'[Peer(x)] => actor'[x] = "ended"
  <2>1. actor[e] = "running" /\ UNCHANGED <<actor, eof>>
    BY <1>7, <1>9 DEF ToldOf, Closed
  <2>2. \E new : streams' = [streams EXCEPT ![e] = new]
    BY <1>9 DEF ToldOf, Closed
  <2> QED
    BY <1>5, <2>1, <2>2
<1> QED
  BY <1>3, <1>4, <1>6, <1>8, <1>9, MapSteps

\* Ids stay fresh: a step of the client or the server only names ids that are
\* already known, and CreateStream takes the next one.
LEMMA IdsNext ==
    ASSUME ActorTypes, ActorTypes', DataTypes, IdsInv, Shapes
    PROVE  IdsInv'
<1>1. currentId \in Nat /\ currentId' \in Nat
  BY DEF ActorTypes
<1> SUFFICES ASSUME NEW id \in Ids, id > currentId', NEW x \in Sides
             PROVE  /\ ~Queued(backlog', id)
                    /\ id \notin streams'[x] /\ id \notin owned'[x]
                    /\ inbox'[x][id] = <<>> /\ lost'[x][id] = <<>>
                    /\ ~Names(wire'[x], id)
                    /\ ~(work'[x] # <<>> /\ work'[x][1].pkt.id = id)
  BY SidesFacts DEF IdsInv, Unused, WorkNames
<1>2. id \in Nat /\ id # 0
  BY DEF Ids
<1>3. id > currentId /\ (Created => id # currentId + 1)
  BY <1>1, <1>2, IdSteps DEF Created
<1>4. /\ ~Queued(backlog, id)
      /\ \A y \in Sides : /\ id \notin streams[y] /\ id \notin owned[y]
                          /\ inbox[y][id] = <<>> /\ lost[y][id] = <<>>
                          /\ ~Names(wire[y], id)
                          /\ ~(work[y] # <<>> /\ work[y][1].pkt.id = id)
  BY <1>3 DEF IdsInv, Unused, WorkNames
<1>5. /\ streams \in [Sides -> SUBSET Ids] /\ owned \in [Sides -> SUBSET Ids]
      /\ backlog \in Seq(Ids) /\ wire \in [Sides -> Seq(Packets)]
      /\ inbox \in [Sides -> [Ids -> Seq(Nat)]] /\ lost \in [Sides -> [Ids -> Seq(Nat)]]
  BY DEF ActorTypes, DataTypes
<1>6. ~Queued(backlog', id)
  <2>1. CASE Accepted
    BY <1>4, <1>5, <2>1, TailHas DEF Accepted
  <2>2. CASE Added
    <3>1. Head(wire["server"]).id # id /\ Head(wire["server"]).id \in Ids
      BY <1>4, <2>2, TakenHas, TakenFacts, PacketFields, SidesFacts DEF Added
    <3> QED
      BY <1>4, <1>5, <2>2, <3>1, AppendHas DEF Added
  <2> QED
    BY <1>4, <2>1, <2>2 DEF Shapes, Quiet, Created, Wrote, Took, Closed, Ending, Ended,
       Opened, ToldClose, WriteFailed, Filled, ToldOf, Ignored, EndedBy, Shut
<1>7. id \notin streams'[x]
  <2>1. CASE Added
    <3>1. Head(wire["server"]).id # id
      BY <1>4, <2>1, TakenHas, SidesFacts DEF Added
    <3> QED
      BY <1>4, <1>5, <2>1, <3>1 DEF Added
  <2>2. CASE Created
    BY <1>3, <1>4, <1>5, <2>2 DEF Created
  <2>3. ASSUME NEW e \in Sides, Left(e) \/ ToldOf(e) \/ Shut(e) \/ \E i \in Ids : Closed(e, i)
        PROVE  id \notin streams'[x]
    BY <1>4, <1>5, <2>3, Shrinking DEF Shrunk
  <2> QED
    BY <1>4, <2>1, <2>2, <2>3, MapSteps
<1>8. id \notin owned'[x]
  <2>1. CASE Accepted
    <3>1. Head(backlog) # id
      BY <1>4, <1>5, <2>1, TailHas DEF Accepted
    <3> QED
      BY <1>4, <1>5, <2>1, <3>1 DEF Accepted
  <2>2. ASSUME NEW e \in Sides, Opened(e) PROVE id \notin owned'[x]
    BY <1>4, <1>5, <2>2 DEF Opened
  <2> QED
    BY <1>4, <2>1, <2>2, IdSteps
<1>9. inbox'[x][id] = <<>> /\ lost'[x][id] = <<>>
  <2>1. ASSUME NEW e \in Sides, NEW i \in Ids, Took(e, i)
        PROVE  inbox'[x][id] = <<>> /\ lost'[x][id] = <<>>
    BY <1>4, <1>5, <2>1 DEF Took
  <2>2. ASSUME NEW e \in Sides, Filled(e) PROVE inbox'[x][id] = <<>> /\ lost'[x][id] = <<>>
    <3>1. Head(wire[e]).id # id
      BY <1>4, <2>2, TakenHas DEF Filled
    <3>2. CASE Kept(e, Head(wire[e]))
      BY <1>4, <1>5, <3>1, <3>2 DEF Kept
    <3>3. CASE Refused(e, Head(wire[e]))
      BY <1>4, <1>5, <3>1, <3>3 DEF Refused
    <3> QED
      BY <2>2, <3>2, <3>3 DEF Filled
  <2> QED
    BY <1>4, <2>1, <2>2, QueueSteps
<1>10. ~Names(wire'[x], id)
  <2>1. ASSUME NEW e \in Sides, NEW p \in Packets, p.id # id, wire' = Sent(e, p)
        PROVE  ~Names(wire'[x], id)
    BY <1>4, <2>1, SentHas, OtherSide, SidesFacts
  <2>2. ASSUME NEW e \in Sides, Taken(e) PROVE ~Names(wire'[x], id)
    BY <1>4, <2>2, TakenHas, OtherSide, SidesFacts
  <2>3. ASSUME NEW e \in Sides, NEW i \in Ids, Wrote(e, i) PROVE ~Names(wire'[x], id)
    <3>1. i # id
      BY <1>4, <2>3 DEF Wrote
    <3>2. PICK p \in Packets : p.id = i /\ wire' = Sent(e, p)
      BY <2>3, WroteFacts
    <3> QED
      BY <2>1, <3>1, <3>2
  <2>4. ASSUME NEW e \in Sides, Opened(e) \/ ToldClose(e) PROVE ~Names(wire'[x], id)
    <3>1. work[e][1].pkt \in Packets /\ work[e][1].pkt.id # id
      BY <1>4, <2>4, WorkPacket DEF Opened, ToldClose
    <3> QED
      BY <2>1, <2>4, <3>1 DEF Opened, ToldClose
  <2>5. ASSUME NEW e \in Sides, Shut(e) PROVE ~Names(wire'[x], id)
    BY <1>4, <1>5, <2>5, EmptyHas DEF Shut
  <2> QED
    BY <1>4, <2>2, <2>3, <2>4, <2>5, SidesFacts DEF Shapes, Quiet, Accepted, Created, Added, Took,
       Closed, Ending, Ended, WriteFailed, Filled, ToldOf, Ignored, EndedBy
<1>11. ~(work'[x] # <<>> /\ work'[x][1].pkt.id = id)
  <2>1. ASSUME NEW e \in Sides, NEW p, WorkIs(e, p), p.id # id
        PROVE  ~(work'[x] # <<>> /\ work'[x][1].pkt.id = id)
    BY <1>4, <2>1, OtherSide, SidesFacts DEF WorkIs
  <2>2. ASSUME NEW e \in Sides, WorkDone(e) PROVE ~(work'[x] # <<>> /\ work'[x][1].pkt.id = id)
    BY <1>4, <2>2, OtherSide, SidesFacts DEF WorkDone
  <2>3. CASE Created
    <3>1. Connect(currentId + 1).id # id
      BY <1>3, <2>3 DEF Connect
    <3> QED
      BY <2>1, <2>3, <3>1, SidesFacts DEF Created
  <2>4. ASSUME NEW e \in Sides, NEW i \in Ids, Closed(e, i)
        PROVE  ~(work'[x] # <<>> /\ work'[x][1].pkt.id = id)
    <3>1. Close(i, e).id # id
      BY <1>4, <2>4 DEF Closed, Close
    <3> QED
      BY <2>1, <2>4, <3>1 DEF Closed
  <2>5. ASSUME NEW e \in Sides, Ending(e)
        PROVE  ~(work'[x] # <<>> /\ work'[x][1].pkt.id = id)
    <3>1. Close(0, e).id # id
      BY <1>2 DEF Close
    <3> QED
      BY <2>1, <2>5, <3>1 DEF Ending
  <2> QED
    BY <1>4, <2>2, <2>3, <2>4, <2>5 DEF Shapes, Quiet, Accepted, Added, Wrote, Took,
       Ended, Opened, ToldClose, WriteFailed, Filled, ToldOf, Ignored, EndedBy, Shut
<1> QED
  BY <1>6, <1>7, <1>8, <1>9, <1>10, <1>11

LEMMA OwnedNext ==
    ASSUME ActorTypes, DataTypes, OwnedInv, Shapes
    PROVE  OwnedInv'
<1> SUFFICES ASSUME NEW x \in Sides, NEW id \in Ids, id \notin owned'[x]
             PROVE  sent'[x][id] = 0 /\ got'[x][id] = <<>>
  BY DEF OwnedInv
<1>1. id \notin owned[x]
  <2>1. owned \in [Sides -> SUBSET Ids]
    BY DEF ActorTypes
  <2>2. CASE UNCHANGED owned
    BY <2>2
  <2>3. CASE Accepted
    BY <2>1, <2>3 DEF Accepted
  <2>4. ASSUME NEW e \in Sides, Opened(e) PROVE id \notin owned[x]
    BY <2>1, <2>4 DEF Opened
  <2> QED
    BY <2>2, <2>3, <2>4, IdSteps
<1>2. sent[x][id] = 0 /\ got[x][id] = <<>>
  BY <1>1 DEF OwnedInv
<1>3. ASSUME NEW e \in Sides, NEW i \in Ids, Wrote(e, i) \/ Took(e, i)
      PROVE  sent'[x][id] = 0 /\ got'[x][id] = <<>>
  <2>1. ~(e = x /\ i = id)
    BY <1>1, <1>3 DEF Wrote, Took
  <2>2. sent \in [Sides -> [Ids -> Nat]] /\ got \in [Sides -> [Ids -> Seq(Nat)]]
    BY DEF DataTypes
  <2>3. CASE Wrote(e, i)
    BY <1>2, <2>1, <2>2, <2>3 DEF Wrote
  <2>4. CASE Took(e, i)
    BY <1>2, <2>1, <2>2, <2>4 DEF Took
  <2> QED
    BY <1>3, <2>3, <2>4
<1> QED
  BY <1>2, <1>3, CountSteps

\* A CONNECT is under way because it was, or because it was just made up.
LEMMA ConnectComing ==
    ASSUME ActorTypes, DataTypes, Shapes, NEW id \in Ids,
           Has(wire'["server"], "connect", id)
             \/ (work'["client"] # <<>> /\ work'["client"][1].pkt.type = "connect"
                   /\ work'["client"][1].pkt.id = id)
    PROVE  Coming("client", "connect", id) \/ (Created /\ id = currentId + 1)
<1>1. ASSUME Has(wire'["server"], "connect", id)
      PROVE  Coming("client", "connect", id)
  <2>1. CASE UNCHANGED wire
    BY <1>1, <2>1, SidesFacts DEF Coming
  <2>2. ASSUME NEW e \in Sides, Taken(e) PROVE Coming("client", "connect", id)
    BY <1>1, <2>2, TakenHas, OtherSide, SidesFacts DEF Coming
  <2>3. ASSUME NEW e \in Sides, NEW i \in Ids, Wrote(e, i) PROVE Coming("client", "connect", id)
    <3>1. PICK p \in Packets : p.type = "data" /\ wire' = Sent(e, p)
      BY <2>3, WroteFacts
    <3> QED
      BY <1>1, <3>1, SentHas, OtherSide, SidesFacts DEF Coming
  <2>4. ASSUME NEW e \in Sides, Opened(e) \/ ToldClose(e) PROVE Coming("client", "connect", id)
    <3>1. work[e] # <<>> /\ wire' = Sent(e, work[e][1].pkt)
      BY <2>4 DEF Opened, ToldClose
    <3>2. work[e][1].pkt \in Packets
      BY <3>1, WorkPacket
    <3>3. wire'[e] = wire[e] /\ (Has(wire'[Peer(e)], "connect", id) =>
             Has(wire[Peer(e)], "connect", id) \/ AtWork(e, "connect", id))
      BY <3>1, <3>2, SentHas DEF AtWork
    <3> QED
      BY <1>1, <3>3, OtherSide, SidesFacts DEF Coming
  <2>5. ASSUME NEW e \in Sides, Shut(e) PROVE Coming("client", "connect", id)
    <3>1. wire' = [wire EXCEPT ![e] = <<>>] /\ wire \in [Sides -> Seq(Packets)]
      BY <2>5 DEF Shut, ActorTypes
    <3>2. wire'["server"] = wire["server"] \/ wire'["server"] = <<>>
      BY <3>1, SidesFacts
    <3> QED
      BY <1>1, <3>2, EmptyHas, SidesFacts DEF Coming
  <2> QED
    BY <2>1, <2>2, <2>3, <2>4, <2>5, PacketSteps
<1>2. ASSUME work'["client"] # <<>>, work'["client"][1].pkt.type = "connect",
             work'["client"][1].pkt.id = id
      PROVE  Coming("client", "connect", id) \/ (Created /\ id = currentId + 1)
  <2>1. CASE UNCHANGED work
    BY <1>2, <2>1 DEF Coming, AtWork
  <2>2. CASE Created
    BY <1>2, <2>2 DEF Created, WorkIs, Connect
  <2>3. ASSUME NEW e \in Sides, WorkDone(e) PROVE Coming("client", "connect", id)
    BY <1>2, <2>3, OtherSide, SidesFacts DEF Coming, AtWork, WorkDone
  <2>4. ASSUME NEW e \in Sides, NEW i, WorkIs(e, Close(i, e)) PROVE Coming("client", "connect", id)
    <3>1. Close(i, e).type # "connect"
      BY DEF Close
    <3> QED
      BY <1>2, <2>4, <3>1, OtherSide, SidesFacts DEF Coming, AtWork, WorkIs
  <2> QED
    BY <2>1, <2>2, <2>3, <2>4, WorkSteps
<1> QED
  BY <1>1, <1>2

\* The server lacks the stream of a CONNECT until it receives it.
LEMMA LacksNext ==
    ASSUME ActorTypes, DataTypes, IdsInv, OpenInv, Shapes, NEW id \in Ids,
           Coming("client", "connect", id)'
    PROVE  ServerLacks(id)'
<1>1. /\ streams \in [Sides -> SUBSET Ids] /\ owned \in [Sides -> SUBSET Ids]
      /\ backlog \in Seq(Ids) /\ wire \in [Sides -> Seq(Packets)] /\ currentId \in Nat
      /\ inbox \in [Sides -> [Ids -> Seq(Nat)]] /\ lost \in [Sides -> [Ids -> Seq(Nat)]]
  BY DEF ActorTypes, DataTypes
<1>2. \/ Has(wire'["server"], "connect", id)
      \/ (work'["client"] # <<>> /\ work'["client"][1].pkt.type = "connect"
                   /\ work'["client"][1].pkt.id = id)
  BY SidesFacts DEF Coming, AtWork
<1>3. Coming("client", "connect", id) \/ (Created /\ id = currentId + 1)
  BY <1>2, ConnectComing
<1>4. CASE Created /\ id = currentId + 1
  <2>1. /\ ~Queued(backlog, id) /\ Unused("client", id) /\ Unused("server", id)
    BY <1>1, <1>4, SidesFacts DEF IdsInv
  <2>2. /\ UNCHANGED <<owned, inbox, lost, backlog, wire>> /\ work'["server"] = work["server"]
        /\ streams'["server"] = streams["server"]
    BY <1>1, <1>4, SidesFacts DEF Created, WorkIs
  <2> QED
    BY <2>1, <2>2 DEF ServerLacks, Unused, WorkNames
<1>5. CASE Coming("client", "connect", id) /\ ~Created
  <2>1. /\ id \notin streams["server"] /\ id \notin owned["server"]
        /\ inbox["server"][id] = <<>> /\ lost["server"][id] = <<>>
        /\ ~Queued(backlog, id) /\ ~Names(wire["client"], id) /\ ~WorkNames("server", id)
    BY <1>5 DEF OpenInv, ServerLacks
  <2>2. ASSUME Added PROVE Head(wire["server"]).id # id
    <3>1. UNCHANGED work /\ Taken("server")
      BY <2>2 DEF Added
    <3>2. CASE Has(wire'["server"], "connect", id)
      BY <3>1, <3>2, TakenFacts, ConnectsFirstTail, SidesFacts DEF OpenInv
    <3>3. CASE AtWork("client", "connect", id)
      BY <3>1, <3>3, TakenHas, SidesFacts DEF OpenInv
    <3> QED
      BY <1>2, <3>1, <3>2, <3>3 DEF AtWork
  <2>3. id \notin streams'["server"]
    <3>1. CASE Added
      BY <1>1, <2>1, <2>2, <3>1 DEF Added
    <3>2. ASSUME NEW e \in Sides, Left(e) \/ ToldOf(e) \/ Shut(e) \/ \E i \in Ids : Closed(e, i)
          PROVE  id \notin streams'["server"]
      BY <1>1, <2>1, <3>2, Shrinking, SidesFacts DEF Shrunk
    <3> QED
      BY <1>5, <2>1, <3>1, <3>2, MapSteps
  <2>4. id \notin owned'["server"]
    <3>1. CASE Accepted
      <4>1. Head(backlog) # id
        BY <1>1, <2>1, <3>1, TailHas DEF Accepted
      <4> QED
        BY <1>1, <2>1, <3>1, <4>1 DEF Accepted
    <3>2. ASSUME NEW e \in Sides, Opened(e) PROVE id \notin owned'["server"]
      <4>1. e = "client"
        BY <3>2, WorkPacket DEF Opened
      <4> QED
        BY <1>1, <2>1, <3>2, <4>1, SidesFacts DEF Opened
    <3> QED
      BY <2>1, <3>1, <3>2, IdSteps
  <2>5. ~Queued(backlog', id)
    <3>1. CASE Accepted
      BY <1>1, <2>1, <3>1, TailHas DEF Accepted
    <3>2. CASE Added
      <4>1. Head(wire["server"]).id # id /\ Head(wire["server"]).id \in Ids
        BY <2>2, <3>2, TakenFacts, PacketFields, SidesFacts DEF Added
      <4> QED
        BY <1>1, <2>1, <3>2, <4>1, AppendHas DEF Added
    <3> QED
      BY <2>1, <3>1, <3>2, QueueSteps
  <2>6. inbox'["server"][id] = <<>> /\ lost'["server"][id] = <<>>
    <3>1. ASSUME NEW e \in Sides, Filled(e)
          PROVE  inbox'["server"][id] = <<>> /\ lost'["server"][id] = <<>>
      <4> DEFINE p == Head(wire[e])
      <4>1. ~(e = "server" /\ p.id = id)
        BY <2>1, <3>1 DEF Filled
      <4>2. CASE Kept(e, p)
        BY <1>1, <2>1, <4>1, <4>2, SidesFacts DEF Kept
      <4>3. CASE Refused(e, p)
        BY <1>1, <2>1, <4>1, <4>3, SidesFacts DEF Refused
      <4> QED
        BY <3>1, <4>2, <4>3 DEF Filled
    <3>2. ASSUME NEW e \in Sides, NEW i \in Ids, Took(e, i)
          PROVE  inbox'["server"][id] = <<>> /\ lost'["server"][id] = <<>>
      BY <1>1, <2>1, <3>2, SidesFacts DEF Took
    <3> QED
      BY <2>1, <3>1, <3>2, QueueSteps
  <2>7. ~Names(wire'["client"], id)
    <3>1. ASSUME NEW e \in Sides, NEW i \in Ids, Wrote(e, i) PROVE ~Names(wire'["client"], id)
      <4>1. PICK p \in Packets : p.id = i /\ wire' = Sent(e, p)
        BY <3>1, WroteFacts
      <4>2. CASE e = "server"
        <5>1. i # id
          BY <2>1, <3>1, <4>2 DEF Wrote
        <5> QED
          BY <2>1, <4>1, <4>2, <5>1, SentHas, SidesFacts
      <4>3. CASE e = "client"
        BY <2>1, <4>1, <4>3, SentHas, SidesFacts
      <4> QED
        BY <4>2, <4>3 DEF Sides
    <3>2. ASSUME NEW e \in Sides, Opened(e) \/ ToldClose(e) PROVE ~Names(wire'["client"], id)
      <4>1. work[e] # <<>> /\ wire' = Sent(e, work[e][1].pkt)
        BY <3>2 DEF Opened, ToldClose
      <4>2. work[e][1].pkt \in Packets
        BY <4>1, WorkPacket
      <4>3. CASE e = "server"
        <5>1. work[e][1].pkt.id # id
          BY <2>1, <4>1, <4>3 DEF WorkNames
        <5> QED
          BY <2>1, <4>1, <4>2, <4>3, <5>1, SentHas, SidesFacts
      <4>4. CASE e = "client"
        BY <2>1, <4>1, <4>2, <4>4, SentHas, SidesFacts
      <4> QED
        BY <4>3, <4>4 DEF Sides
    <3>3. ASSUME NEW e \in Sides, Taken(e) PROVE ~Names(wire'["client"], id)
      BY <2>1, <3>3, TakenHas, OtherSide, SidesFacts
    <3>4. ASSUME NEW e \in Sides, Shut(e) PROVE ~Names(wire'["client"], id)
      BY <1>1, <2>1, <3>4, EmptyHas, SidesFacts DEF Shut
    <3> QED
      BY <2>1, <3>1, <3>2, <3>3, <3>4, PacketSteps
  <2>8. ~(work'["server"] # <<>> /\ work'["server"][1].pkt.id = id)
    <3>1. ~(work["server"] # <<>> /\ work["server"][1].pkt.id = id)
      BY <2>1 DEF WorkNames
    <3>2. ASSUME NEW e \in Sides, WorkDone(e)
          PROVE  ~(work'["server"] # <<>> /\ work'["server"][1].pkt.id = id)
      BY <3>1, <3>2, OtherSide, SidesFacts DEF WorkDone
    <3>3. ASSUME NEW e \in Sides, NEW i, WorkIs(e, Close(i, e)), i \in streams[e] \/ i = 0
          PROVE  ~(work'["server"] # <<>> /\ work'["server"][1].pkt.id = id)
      <4>1. Close(i, e).id = i /\ id # 0
        BY DEF Close, Ids
      <4> QED
        BY <2>1, <3>1, <3>3, <4>1, OtherSide, SidesFacts DEF WorkIs
    <3> QED
      BY <1>5, <3>1, <3>2, <3>3, WorkSteps DEF Closed
  <2> QED
    BY <2>3, <2>4, <2>5, <2>6, <2>7, <2>8 DEF ServerLacks, WorkNames
<1>6. CASE Coming("client", "connect", id) /\ Created
  <2>1. ServerLacks(id)
    BY <1>6 DEF OpenInv
  <2>2. /\ UNCHANGED <<owned, inbox, lost, backlog, wire>> /\ work'["server"] = work["server"]
        /\ streams'["server"] = streams["server"]
    BY <1>1, <1>6, SidesFacts DEF Created, WorkIs
  <2> QED
    BY <2>1, <2>2 DEF ServerLacks, WorkNames
<1> QED
  BY <1>3, <1>4, <1>5, <1>6

\* On its way to the server a CONNECT stays in front of the other packets of
\* its stream.
LEMMA FirstNext ==
    ASSUME ActorTypes, DataTypes, OpenInv, Shapes
    PROVE  ConnectsFirst(wire'["server"])
<1>1. ConnectsFirst(wire["server"]) /\ wire \in [Sides -> Seq(Packets)]
  BY DEF OpenInv, ActorTypes
<1>2. ASSUME NEW e \in Sides, NEW p \in Packets, wire' = Sent(e, p),
             e = "client" /\ p.type = "connect" => ~Names(wire["server"], p.id)
      PROVE  ConnectsFirst(wire'["server"])
  <2>1. CASE e = "server"
    BY <1>1, <1>2, <2>1, SentFacts
  <2>2. CASE e = "client" /\ actor["server"] = "running"
    <3>1. wire'["server"] = Append(wire["server"], p)
      BY <1>2, <2>2, SentFacts, SidesFacts
    <3>2. wire["server"] \in Seq(Packets) /\ (p.type = "connect" => ~Names(wire["server"], p.id))
      BY <1>1, <1>2, <2>2, SidesFacts
    <3>3. ConnectsFirst(Append(wire["server"], p))
      BY <1>1, <3>2, ConnectsFirstAppend
    <3> QED
      BY <3>1, <3>3
  <2>3. CASE e = "client" /\ actor["server"] # "running"
    BY <1>1, <1>2, <2>3, SentFacts, SidesFacts
  <2> QED
    BY <2>1, <2>2, <2>3 DEF Sides
<1>3. ASSUME NEW e \in Sides, NEW i \in Ids, Wrote(e, i) PROVE ConnectsFirst(wire'["server"])
  <2>1. PICK p \in Packets : p.type = "data" /\ wire' = Sent(e, p)
    BY <1>3, WroteFacts
  <2> QED
    BY <1>2, <2>1
<1>4. ASSUME NEW e \in Sides, Opened(e) \/ ToldClose(e) PROVE ConnectsFirst(wire'["server"])
  <2>1. work[e] # <<>> /\ wire' = Sent(e, work[e][1].pkt)
    BY <1>4 DEF Opened, ToldClose
  <2>2. work[e][1].pkt \in Packets
    BY <2>1, WorkPacket
  <2>3. ASSUME e = "client", work[e][1].pkt.type = "connect"
        PROVE  ~Names(wire["server"], work[e][1].pkt.id)
    <3>1. work[e][1].pkt.id \in Ids
      BY <2>2, <2>3, PacketFields
    <3>2. AtWork("client", "connect", work[e][1].pkt.id)
      BY <2>1, <2>3 DEF AtWork
    <3> QED
      BY <3>1, <3>2 DEF OpenInv
  <2> QED
    BY <1>2, <2>1, <2>2, <2>3
<1>5. ASSUME NEW e \in Sides, Taken(e) PROVE ConnectsFirst(wire'["server"])
  <2>1. CASE e = "server"
    BY <1>1, <1>5, <2>1, TakenFacts, ConnectsFirstTail
  <2>2. CASE e = "client"
    BY <1>1, <1>5, <2>2, TakenFacts, SidesFacts
  <2> QED
    BY <2>1, <2>2 DEF Sides
<1>6. ASSUME NEW e \in Sides, Shut(e) PROVE ConnectsFirst(wire'["server"])
  <2>1. wire'["server"] = wire["server"] \/ wire'["server"] = <<>>
    BY <1>1, <1>6, SidesFacts DEF Shut
  <2> QED
    BY <1>1, <2>1, EmptyHas
<1> QED
  BY <1>1, <1>3, <1>4, <1>5, <1>6, PacketSteps

\* Nobody writes to a stream before its CONNECT is written.
LEMMA UnopenedNext ==
    ASSUME ActorTypes, DataTypes, IdsInv, OpenInv, Shapes, NEW id \in Ids,
           work'["client"] # <<>>, work'["client"][1].pkt.type = "connect",
           work'["client"][1].pkt.id = id
    PROVE  ~Names(wire'["server"], id) /\ id \notin owned'["client"]
<1>1. owned \in [Sides -> SUBSET Ids] /\ wire \in [Sides -> Seq(Packets)] /\ currentId \in Nat
  BY DEF ActorTypes
<1>2. CASE Created
  <2>1. id = currentId + 1 /\ UNCHANGED <<wire, owned>>
    BY <1>2 DEF Created, WorkIs, Connect
  <2>2. Unused("client", id) /\ Unused("server", id)
    BY <1>1, <2>1, SidesFacts DEF IdsInv
  <2> QED
    BY <2>1, <2>2 DEF Unused
<1>3. CASE ~Created
  <2>1. work'["client"] = work["client"]
    <3>1. ASSUME NEW e \in Sides, WorkDone(e) PROVE work'["client"] = work["client"]
      BY <3>1, OtherSide, SidesFacts DEF WorkDone
    <3>2. ASSUME NEW e \in Sides, NEW i, WorkIs(e, Close(i, e)) PROVE work'["client"] = work["client"]
      <4>1. Close(i, e).type # "connect"
        BY DEF Close
      <4> QED
        BY <3>2, <4>1, OtherSide, SidesFacts DEF WorkIs
    <3> QED
      BY <1>3, <3>1, <3>2, WorkSteps
  <2>2. AtWork("client", "connect", id)
    BY <2>1 DEF AtWork
  <2>3. ~Names(wire["server"], id) /\ id \notin owned["client"]
    BY <2>2 DEF OpenInv
  <2>4. ~Opened("client") /\ ~ToldClose("client")
    BY SidesFacts DEF Opened, ToldClose, WorkDone
  <2>5. id \notin owned'["client"]
    <3>1. CASE Accepted
      BY <1>1, <2>3, <3>1, SidesFacts DEF Accepted
    <3>2. ASSUME Opened("server") PROVE id \notin owned'["client"]
      BY <1>1, <2>3, <3>2, SidesFacts DEF Opened
    <3> QED
      BY <2>3, <2>4, <3>1, <3>2, IdSteps DEF Sides
  <2>6. ~Names(wire'["server"], id)
    <3>1. ASSUME NEW e \in Sides, NEW p \in Packets, wire' = Sent(e, p), e = "client" => p.id # id
          PROVE  ~Names(wire'["server"], id)
      <4>1. CASE e = "client"
        BY <2>3, <3>1, <4>1, SentHas, SidesFacts
      <4>2. CASE e = "server"
        BY <2>3, <3>1, <4>2, SentHas, SidesFacts
      <4> QED
        BY <4>1, <4>2 DEF Sides
    <3>2. ASSUME NEW e \in Sides, NEW i \in Ids, Wrote(e, i) PROVE ~Names(wire'["server"], id)
      <4>1. PICK p \in Packets : p.id = i /\ wire' = Sent(e, p)
        BY <3>2, WroteFacts
      <4>2. e = "client" => i # id
        BY <2>3, <3>2 DEF Wrote
      <4> QED
        BY <3>1, <4>1, <4>2
    <3>3. ASSUME Opened("server") \/ ToldClose("server") PROVE ~Names(wire'["server"], id)
      <4>1. work["server"] # <<>> /\ wire' = Sent("server", work["server"][1].pkt)
        BY <3>3 DEF Opened, ToldClose
      <4>2. work["server"][1].pkt \in Packets
        BY <4>1, WorkPacket, SidesFacts
      <4> QED
        BY <3>1, <4>1, <4>2, SidesFacts
    <3>4. ASSUME NEW e \in Sides, Taken(e) PROVE ~Names(wire'["server"], id)
      BY <2>3, <3>4, TakenHas, OtherSide, SidesFacts
    <3>5. ASSUME NEW e \in Sides, Shut(e) PROVE ~Names(wire'["server"], id)
      BY <1>1, <2>3, <3>5, EmptyHas, SidesFacts DEF Shut
    <3> QED
      BY <2>3, <2>4, <3>2, <3>3, <3>4, <3>5, PacketSteps DEF Sides
  <2> QED
    BY <2>5, <2>6
<1> QED
  BY <1>2, <1>3

LEMMA OpenNext ==
    ASSUME ActorTypes, DataTypes, IdsInv, OpenInv, Shapes
    PROVE  OpenInv'
<1>1. ConnectsFirst(wire'["server"])
  BY FirstNext
<1>2. ASSUME NEW id \in Ids, Coming("client", "connect", id)' PROVE ServerLacks(id)'
  BY <1>2, LacksNext
<1>3. ASSUME NEW id \in Ids, AtWork("client", "connect", id)'
      PROVE  (~Names(wire["server"], id) /\ id \notin owned["client"])'
  BY <1>3, UnopenedNext DEF AtWork
<1> QED
  BY <1>1, <1>2, <1>3 DEF OpenInv

\* What a packet under way means is decided when a handler makes it up; the
\* transport adds nothing.
LEMMA CloseComing ==
    ASSUME ActorTypes, DataTypes, Shapes, NEW x \in Sides, NEW id \in Ids,
           Has(wire'[Peer(x)], "close", id)
             \/ (work'[x] # <<>> /\ work'[x][1].pkt.type = "close" /\ work'[x][1].pkt.id = id)
    PROVE  Coming(x, "close", id) \/ Closed(x, id)
<1>1. ASSUME Has(wire'[Peer(x)], "close", id)
      PROVE  Coming(x, "close", id)
  <2>1. CASE UNCHANGED wire
    BY <1>1, <2>1 DEF Coming
  <2>2. ASSUME NEW e \in Sides, Taken(e) PROVE Coming(x, "close", id)
    BY <1>1, <2>2, TakenHas, OtherSide, SidesFacts DEF Coming
  <2>3. ASSUME NEW e \in Sides, NEW p \in Packets, wire' = Sent(e, p),
               p.type = "close" /\ p.id = id => AtWork(e, "close", id)
        PROVE  Coming(x, "close", id)
    <3>1. CASE x = e
      BY <1>1, <2>3, <3>1, SentHas DEF Coming
    <3>2. CASE x = Peer(e)
      BY <1>1, <2>3, <3>2, SentHas, SidesFacts DEF Coming
    <3> QED
      BY <3>1, <3>2, OtherSide
  <2>4. ASSUME NEW e \in Sides, NEW i \in Ids, Wrote(e, i) PROVE Coming(x, "close", id)
    <3>1. PICK p \in Packets : p.type = "data" /\ wire' = Sent(e, p)
      BY <2>4, WroteFacts
    <3> QED
      BY <2>3, <3>1
  <2>5. ASSUME NEW e \in Sides, Opened(e) \/ ToldClose(e) PROVE Coming(x, "close", id)
    <3>1. work[e] # <<>> /\ wire' = Sent(e, work[e][1].pkt)
      BY <2>5 DEF Opened, ToldClose
    <3>2. work[e][1].pkt \in Packets
      BY <3>1, WorkPacket
    <3> QED
      BY <2>3, <3>1, <3>2 DEF AtWork
  <2>6. ASSUME NEW e \in Sides, Shut(e) PROVE Coming(x, "close", id)
    <3>1. wire' = [wire EXCEPT ![e] = <<>>] /\ wire \in [Sides -> Seq(Packets)]
      BY <2>6 DEF Shut, ActorTypes
    <3>2. wire'[Peer(x)] = wire[Peer(x)] \/ wire'[Peer(x)] = <<>>
      BY <3>1, SidesFacts
    <3> QED
      BY <1>1, <3>2, EmptyHas DEF Coming
  <2> QED
    BY <2>1, <2>2, <2>4, <2>5, <2>6, PacketSteps
<1>2. ASSUME work'[x] # <<>>, work'[x][1].pkt.type = "close", work'[x][1].pkt.id = id
      PROVE  Coming(x, "close", id) \/ Closed(x, id)
  <2>1. CASE work'[x] = work[x]
    BY <1>2, <2>1 DEF Coming, AtWork
  <2>2. ASSUME Created PROVE work'[x] = work[x]
    <3>1. Connect(currentId + 1).type # "close"
      BY DEF Connect
    <3> QED
      BY <1>2, <2>2, <3>1, OtherSide, SidesFacts DEF Created, WorkIs
  <2>3. ASSUME NEW e \in Sides, WorkDone(e) PROVE work'[x] = work[x]
    BY <1>2, <2>3, OtherSide, SidesFacts DEF WorkDone
  <2>4. ASSUME NEW e \in Sides, NEW i, WorkIs(e, Close(i, e)), ~(i = id /\ e = x)
        PROVE  work'[x] = work[x]
    <3>1. Close(i, e).id = i
      BY DEF Close
    <3> QED
      BY <1>2, <2>4, <3>1, OtherSide, SidesFacts DEF WorkIs
  <2>5. id # 0
    BY DEF Ids
  <2> QED
    BY <2>1, <2>2, <2>3, <2>4, <2>5, WorkSteps
<1> QED
  BY <1>1, <1>2

LEMMA CloseNext ==
    ASSUME ActorTypes, DataTypes, IdsInv, OpenInv, CloseInv, Shapes
    PROVE  CloseInv'
<1> SUFFICES ASSUME NEW x \in Sides, NEW id \in Ids, Coming(x, "close", id)'
             PROVE  id \notin streams'[x]
  BY DEF CloseInv
<1>1. streams \in [Sides -> SUBSET Ids] /\ currentId \in Nat
  BY DEF ActorTypes
<1>2. Coming(x, "close", id) \/ Closed(x, id)
  BY CloseComing DEF Coming, AtWork
<1>3. CASE Closed(x, id)
  BY <1>1, <1>3 DEF Closed
<1>4. CASE Coming(x, "close", id)
  <2>1. id \notin streams[x]
    BY <1>4 DEF CloseInv
  <2>2. Names(wire[Peer(x)], id) \/ WorkNames(x, id)
    BY <1>4, HasNames DEF Coming, AtWork, WorkNames
  <2>3. CASE Created
    <3>1. id # currentId + 1
      <4> SUFFICES ASSUME id = currentId + 1 PROVE FALSE
        OBVIOUS
      <4>1. Unused(x, id) /\ Unused(Peer(x), id)
        BY <1>1, SidesFacts DEF IdsInv
      <4> QED
        BY <2>2, <4>1 DEF Unused
    <3> QED
      BY <1>1, <2>1, <2>3, <3>1 DEF Created
  <2>4. CASE Added
    <3>1. x = "server" => Head(wire["server"]).id # id
      <4> SUFFICES ASSUME x = "server", Head(wire["server"]).id = id PROVE FALSE
        OBVIOUS
      <4>1. Coming("client", "connect", id)
        BY <2>4, TakenHas, SidesFacts DEF Added, Coming
      <4>2. ServerLacks(id)
        BY <4>1 DEF OpenInv
      <4> QED
        BY <2>2, <4>2, SidesFacts DEF ServerLacks
    <3> QED
      BY <1>1, <2>1, <2>4, <3>1, OtherSide, SidesFacts DEF Added
  <2>5. ASSUME NEW e \in Sides, Left(e) \/ ToldOf(e) \/ Shut(e) \/ \E i \in Ids : Closed(e, i)
        PROVE  id \notin streams'[x]
    BY <1>1, <2>1, <2>5, Shrinking DEF Shrunk
  <2> QED
    BY <2>1, <2>3, <2>4, <2>5, MapSteps
<1> QED
  BY <1>2, <1>3, <1>4

\* While both actors run no packet gets lost.
LEMMA BothRun ==
    ASSUME ActorTypes, LifeInv, Shapes, \A x \in Sides : actor'[x] = "running"
    PROVE  /\ \A x \in Sides : actor[x] = "running"
           /\ \A e \in Sides : ~Left(e) /\ ~Shut(e) /\ ~WriteFailed(e)
<1>1. actor \in [Sides -> {"running", "ending", "ended"}]
  BY DEF ActorTypes
<1>2. \A e \in Sides : ~Left(e) /\ ~Shut(e)
  BY <1>1 DEF Left, Shut
<1>3. \A x \in Sides : actor[x] = "running"
  BY <1>2, MapSteps DEF Created, Added, Closed, ToldOf
<1>4. ASSUME NEW e \in Sides, WriteFailed(e) PROVE FALSE
  <2>1. eof[Peer(Peer(e))] /\ Peer(e) \in Sides
    BY <1>4, SidesFacts DEF WriteFailed
  <2>2. actor[Peer(e)] = "ended"
    BY <2>1 DEF LifeInv
  <2> QED
    BY <1>3, <2>1, <2>2
<1> QED
  BY <1>2, <1>3, <1>4

LEMMA ComingKept ==
    ASSUME ActorTypes, DataTypes, LifeInv, Shapes, \A y \in Sides : actor'[y] = "running",
           NEW x \in Sides, NEW t, NEW id, Coming(x, t, id),
           ~(Received(Peer(x)) /\ Head(wire[Peer(x)]).type = t /\ Head(wire[Peer(x)]).id = id)
    PROVE  Coming(x, t, id)'
<1>1. /\ \A y \in Sides : actor[y] = "running"
      /\ \A e \in Sides : ~Left(e) /\ ~Shut(e) /\ ~WriteFailed(e)
  BY BothRun
<1> SUFFICES \/ Has(wire'[Peer(x)], t, id)
             \/ work'[x] # <<>> /\ work'[x][1].pkt.type = t /\ work'[x][1].pkt.id = id
  BY DEF Coming, AtWork
<1>2. CASE Has(wire[Peer(x)], t, id)
  <2>1. CASE UNCHANGED wire
    BY <1>2, <2>1
  <2>2. ASSUME NEW e \in Sides, Taken(e), Received(e) PROVE Has(wire'[Peer(x)], t, id)
    <3>1. CASE e = x
      BY <1>2, <2>2, <3>1, TakenHas
    <3>2. CASE e = Peer(x)
      BY <1>2, <2>2, <3>2, TakenHas
    <3> QED
      BY <3>1, <3>2, OtherSide
  <2>3. ASSUME NEW e \in Sides, NEW p \in Packets, wire' = Sent(e, p)
        PROVE  Has(wire'[Peer(x)], t, id)
    <3>1. CASE e = x
      BY <1>2, <2>3, <3>1, SentHas
    <3>2. CASE e = Peer(x)
      BY <1>2, <2>3, <3>2, SentHas
    <3> QED
      BY <3>1, <3>2, OtherSide
  <2>4. ASSUME NEW e \in Sides, NEW i \in Ids, Wrote(e, i) PROVE Has(wire'[Peer(x)], t, id)
    BY <2>3, <2>4, WroteFacts
  <2>5. ASSUME NEW e \in Sides, Opened(e) \/ ToldClose(e) PROVE Has(wire'[Peer(x)], t, id)
    BY <2>3, <2>5, WorkPacket DEF Opened, ToldClose
  <2> QED
    BY <1>1, <2>1, <2>2, <2>4, <2>5, PacketSteps
<1>3. CASE AtWork(x, t, id)
  <2>1. work[x] # <<>> /\ work[x][1].pkt.type = t /\ work[x][1].pkt.id = id
    BY <1>3 DEF AtWork
  <2>2. CASE work'[x] = work[x]
    BY <2>1, <2>2
  <2>3. ASSUME NEW e \in Sides, Opened(e) \/ ToldClose(e)
        PROVE  work'[x] = work[x] \/ Has(wire'[Peer(x)], t, id)
    <3>1. CASE e = x
      <4>1. wire' = Sent(x, work[x][1].pkt) /\ work[x][1].pkt \in Packets
        BY <2>1, <2>3, <3>1, WorkPacket DEF Opened, ToldClose
      <4> QED
        BY <1>1, <2>1, <4>1, SentHas, SidesFacts
    <3>2. CASE e = Peer(x)
      BY <2>3, <3>2, SidesFacts DEF Opened, ToldClose, WorkDone
    <3> QED
      BY <3>1, <3>2, OtherSide
  <2>4. ASSUME NEW e \in Sides, Ending(e) \/ \E i \in Ids : Closed(e, i) PROVE work'[x] = work[x]
    BY <2>1, <2>4, OtherSide, SidesFacts DEF Ending, Closed, WorkIs
  <2>5. ASSUME Created PROVE work'[x] = work[x]
    BY <2>1, <2>5, OtherSide, SidesFacts DEF Created, WorkIs
  <2> QED
    BY <1>1, <2>2, <2>3, <2>4, <2>5, WorkSteps
<1> QED
  BY <1>2, <1>3 DEF Coming

LEMMA OrphanNext ==
    ASSUME ActorTypes, DataTypes, LifeInv, IdsInv, OpenInv, CloseInv, OrphanInv, Shapes
    PROVE  OrphanInv'
<1> SUFFICES ASSUME \A x \in Sides : actor'[x] = "running", NEW id \in Ids
             PROVE  /\ id \in streams'["server"] =>
                          id \in streams'["client"] \/ Coming("client", "close", id)'
                    /\ id \in streams'["client"] => \/ id \in streams'["server"]
                                                    \/ Coming("client", "connect", id)'
                                                    \/ Coming("server", "close", id)'
                    /\ Coming("client", "connect", id)' =>
                          id \in streams'["client"] \/ Coming("client", "close", id)'
  BY DEF OrphanInv
<1> DEFINE Goal == /\ id \in streams'["server"] =>
                          id \in streams'["client"] \/ Coming("client", "close", id)'
                   /\ id \in streams'["client"] => \/ id \in streams'["server"]
                                                   \/ Coming("client", "connect", id)'
                                                   \/ Coming("server", "close", id)'
                   /\ Coming("client", "connect", id)' =>
                          id \in streams'["client"] \/ Coming("client", "close", id)'
           Hd(e, t) == Received(e) /\ Head(wire[e]).type = t /\ Head(wire[e]).id = id
<1>1. /\ \A x \in Sides : actor[x] = "running"
      /\ \A e \in Sides : ~Left(e) /\ ~Shut(e) /\ ~WriteFailed(e)
  BY BothRun
<1>2. /\ id \in streams["server"] => id \in streams["client"] \/ Coming("client", "close", id)
      /\ id \in streams["client"] => \/ id \in streams["server"]
                                     \/ Coming("client", "connect", id)
                                     \/ Coming("server", "close", id)
      /\ Coming("client", "connect", id) =>
            id \in streams["client"] \/ Coming("client", "close", id)
  BY <1>1 DEF OrphanInv
<1>3. streams \in [Sides -> SUBSET Ids] /\ currentId \in Nat /\ DOMAIN work = Sides
  BY DEF ActorTypes
<1>4. /\ Coming("client", "close", id) => Coming("client", "close", id)' \/ Hd("server", "close")
      /\ Coming("client", "connect", id) => Coming("client", "connect", id)' \/ Hd("server", "connect")
      /\ Coming("server", "close", id) => Coming("server", "close", id)' \/ Hd("client", "close")
  BY ComingKept, SidesFacts
<1>5. Coming("client", "connect", id)' =>
          Coming("client", "connect", id) \/ (Created /\ id = currentId + 1)
  BY ConnectComing, SidesFacts DEF Coming, AtWork
<1>6. Hd("server", "connect") => Coming("client", "connect", id)
  BY TakenHas, SidesFacts DEF Coming, Received
<1>7. Hd("server", "close") => Coming("client", "close", id)
  BY TakenHas, SidesFacts DEF Coming, Received
<1>8. Hd("client", "close") => Coming("server", "close", id)
  BY TakenHas, SidesFacts DEF Coming, Received
<1>9. Coming("client", "close", id) => id \notin streams["client"]
  BY SidesFacts DEF CloseInv
<1>10. Coming("server", "close", id) => id \notin streams["server"]
  BY SidesFacts DEF CloseInv
<1>11. Coming("client", "connect", id) => id \notin streams["server"] /\ ~Coming("server", "close", id)
  BY HasNames, SidesFacts DEF OpenInv, ServerLacks, Coming, AtWork, WorkNames
\* Nothing of the stream is in front of its CONNECT.
<1>12. Hd("server", "close") => ~Coming("client", "connect", id)'
  <2> SUFFICES ASSUME Taken("server"), Head(wire["server"]).id = id, UNCHANGED work
               PROVE  ~Coming("client", "connect", id)'
    BY DEF Received
  <2>1. ~Has(wire'["server"], "connect", id)
    BY TakenFacts, ConnectsFirstTail, SidesFacts DEF OpenInv
  <2>2. ~AtWork("client", "connect", id)
    BY TakenHas, SidesFacts DEF OpenInv
  <2> QED
    BY <2>1, <2>2, SidesFacts DEF Coming, AtWork
<1>13. ASSUME Created PROVE Goal
  <2>1. UNCHANGED wire /\ work["client"] = <<>> /\ work'["client"] # <<>>
    BY <1>13 DEF Created, WorkIs
  <2>2. \A e, t : ~Hd(e, t)
    BY <2>1 DEF Received
  <2>3. CASE id = currentId + 1
    <3>1. Coming("client", "connect", id)'
      BY <1>13, <2>3, SidesFacts DEF Coming, AtWork, Created, WorkIs, Connect
    <3>2. id \in streams'["client"]
      BY <1>3, <1>13, <2>3, SidesFacts DEF Created
    <3> QED
      BY <3>1, <3>2
  <2>4. CASE id # currentId + 1
    <3>1. /\ id \in streams'["client"] <=> id \in streams["client"]
          /\ id \in streams'["server"] <=> id \in streams["server"]
      BY <1>3, <1>13, <2>4, SidesFacts DEF Created
    <3> QED
      BY <1>2, <1>4, <1>5, <2>2, <2>4, <3>1
  <2> QED
    BY <2>3, <2>4
<1>14. ASSUME NEW e \in Sides, NEW i \in Ids, Closed(e, i) PROVE Goal
  <2>1. work[e] = <<>> /\ work'[e] # <<>> /\ i \in streams[e]
    BY <1>14 DEF Closed, WorkIs
  <2>2. (\A x, t : ~Hd(x, t)) /\ ~Created
    BY <1>3, <1>14, <2>1 DEF Received, Closed, Created
  <2>3. CASE id = i
    <3>1. Coming(e, "close", id)'
      BY <1>14, <2>3 DEF Coming, AtWork, Closed, WorkIs, Close
    <3>2. id \notin streams'[e] /\ streams'[Peer(e)] = streams[Peer(e)]
      BY <1>3, <1>14, <2>3, SidesFacts DEF Closed
    <3>3. CASE e = "client"
      BY <3>1, <3>2, <3>3
    <3>4. CASE e = "server"
      BY <1>5, <1>11, <2>1, <2>2, <2>3, <3>1, <3>2, <3>4
    <3> QED
      BY <3>3, <3>4 DEF Sides
  <2>4. CASE id # i
    <3>1. /\ id \in streams'["client"] <=> id \in streams["client"]
          /\ id \in streams'["server"] <=> id \in streams["server"]
      BY <1>3, <1>14, <2>4, SidesFacts DEF Closed
    <3> QED
      BY <1>2, <1>4, <1>5, <2>2, <3>1
  <2> QED
    BY <2>3, <2>4
<1>15. ASSUME ~Created, \A x \in Sides : ~Received(x), UNCHANGED streams PROVE Goal
  BY <1>2, <1>4, <1>5, <1>15, SidesFacts
<1>16. ASSUME NEW e \in Sides, Received(e) PROVE Goal /\ ~Created
  <2>1. /\ UNCHANGED <<work, owned>> /\ Taken(e)
        /\ \/ e = "server" /\ Added
           \/ Filled(e) \/ ToldOf(e) \/ Ignored(e)
    BY <1>1, <1>16 DEF Received, EndedBy
  <2>2. ~Created
    BY <2>1 DEF Created, WorkIs
  <2>3. ~Received(Peer(e))
    <3>1. wire[Peer(e)] \in Seq(Packets) /\ wire'[Peer(e)] = wire[Peer(e)]
      BY <2>1, TakenFacts, SidesFacts DEF ActorTypes
    <3>2. ASSUME Taken(Peer(e)) PROVE FALSE
      <4>1. wire[Peer(e)] # <<>> /\ wire'[Peer(e)] = Tail(wire[Peer(e)])
        BY <3>2, TakenFacts, SidesFacts
      <4>2. Len(Tail(wire[Peer(e)])) = Len(wire[Peer(e)]) - 1
        BY <3>1, <4>1, TailHas
      <4>3. Len(wire[Peer(e)]) \in Nat
        BY <3>1, LenProperties
      <4>4. Len(wire'[Peer(e)]) = Len(wire[Peer(e)]) - 1
        BY <4>1, <4>2
      <4> QED
        BY <3>1, <4>3, <4>4
    <3> QED
      BY <3>2 DEF Received
  <2>4. CASE Head(wire[e]).id # id
    <3>1. \A x \in Sides : \A t : ~Hd(x, t)
      BY <2>3, <2>4, OtherSide
    <3>2. /\ id \in streams'["client"] <=> id \in streams["client"]
          /\ id \in streams'["server"] <=> id \in streams["server"]
      <4>1. CASE UNCHANGED streams
        BY <4>1
      <4>2. CASE e = "server" /\ Added
        BY <1>3, <2>4, <4>2, SidesFacts DEF Added
      <4>3. CASE ToldOf(e)
        BY <1>3, <2>4, <4>3, SidesFacts DEF ToldOf
      <4> QED
        BY <2>1, <4>1, <4>2, <4>3 DEF Filled, Ignored
    <3> QED
      BY <1>2, <1>4, <1>5, <2>2, <3>1, <3>2, SidesFacts
  <2>5. CASE Head(wire[e]).id = id
    <3>1. CASE e = "server" /\ Added
      <4>1. Hd("server", "connect") /\ ~Hd("server", "close") /\ ~Hd("client", "close")
        BY <1>16, <2>3, <2>5, <3>1, SidesFacts DEF Added
      <4>2. id \in streams'["server"] /\ streams'["client"] = streams["client"]
        BY <1>3, <2>5, <3>1, SidesFacts DEF Added
      <4> QED
        BY <1>2, <1>4, <1>5, <1>6, <2>2, <4>1, <4>2
    <3>2. CASE Filled(e) \/ (Ignored(e) /\ Head(wire[e]).type = "data")
      <4>1. \A t \in {"connect", "close"} : ~Hd("server", t) /\ ~Hd("client", t)
        BY <2>3, <2>5, <3>2, OtherSide, SidesFacts DEF Filled
      <4>2. UNCHANGED streams
        BY <3>2 DEF Filled, Ignored
      <4> QED
        BY <1>2, <1>4, <1>5, <2>2, <4>1, <4>2
    <3>3. CASE ToldOf(e) \/ (Ignored(e) /\ Head(wire[e]).type = "close")
      <4>1. Hd(e, "close") /\ ~Hd(e, "connect") /\ ~Hd(Peer(e), "close") /\ ~Hd(Peer(e), "connect")
        BY <1>16, <2>3, <2>5, <3>3 DEF ToldOf
      <4>2. id \notin streams'[e] /\ streams'[Peer(e)] = streams[Peer(e)]
        BY <1>3, <2>5, <3>3, SidesFacts DEF ToldOf, Ignored
      <4>3. CASE e = "server"
        <5>1. Hd("server", "close")
          BY <4>1, <4>3
        <5>2. id \notin streams["client"] /\ ~Coming("client", "connect", id)'
          BY <1>7, <1>9, <1>12, <5>1
        <5>3. id \notin streams'["server"] /\ streams'["client"] = streams["client"]
          BY <4>2, <4>3, SidesFacts
        <5> QED
          BY <2>2, <5>2, <5>3
      <4>4. CASE e = "client"
        BY <1>2, <1>4, <1>5, <1>8, <1>10, <1>11, <2>2, <4>1, <4>2, <4>4, SidesFacts
      <4> QED
        BY <4>3, <4>4 DEF Sides
    <3> QED
      BY <2>1, <3>1, <3>2, <3>3 DEF Ignored
  <2> QED
    BY <2>2, <2>4, <2>5
<1>17. Goal
  <2>1. CASE \E e \in Sides : Received(e)
    BY <1>16, <2>1
  <2>2. CASE \A e \in Sides : ~Received(e)
    <3>1. ~Added /\ \A e \in Sides : ~ToldOf(e)
      BY <2>2, SidesFacts DEF Received, Added, ToldOf
    <3> QED
      BY <1>1, <1>13, <1>14, <1>15, <2>2, <3>1, MapSteps
  <2> QED
    BY <2>1, <2>2
<1> QED
  BY <1>17

\* The wire to x and the counts of stream id after a step that concerns
\* another stream, or no stream.
LEMMA OrderedKept ==
    ASSUME ActorTypes, DataTypes, Shapes, NEW x \in Sides, NEW id \in Ids,
           NEW first \in Nat, NEW last \in Nat, Ordered(wire[x], id, first, last),
           ~Wrote(Peer(x), id), ~Shut(x),
           Received(x) => ~(Head(wire[x]).type = "data" /\ Head(wire[x]).id = id)
    PROVE  Ordered(wire'[x], id, first, last)
<1>1. wire[x] \in Seq(Packets)
  BY DEF ActorTypes
<1>2. CASE UNCHANGED wire
  BY <1>2
<1>3. ASSUME NEW e \in Sides, NEW p \in Packets, wire' = Sent(e, p),
             e = Peer(x) => p.type # "data" \/ p.id # id
      PROVE  Ordered(wire'[x], id, first, last)
  <2>1. CASE e = x
    BY <1>3, <2>1, SentFacts
  <2>2. CASE e = Peer(x) /\ actor[x] = "running"
    <3>1. wire'[x] = Append(wire[x], p)
      BY <1>3, <2>2, SentFacts, SidesFacts
    <3> QED
      BY <1>1, <1>3, <2>2, <3>1, OrderedAppend
  <2>3. CASE e = Peer(x) /\ actor[x] # "running"
    BY <1>3, <2>3, SentFacts, SidesFacts
  <2> QED
    BY <2>1, <2>2, <2>3, OtherSide
<1>4. ASSUME NEW e \in Sides, NEW i \in Ids, Wrote(e, i) PROVE Ordered(wire'[x], id, first, last)
  <2>1. PICK p \in Packets : p.id = i /\ wire' = Sent(e, p)
    BY <1>4, WroteFacts
  <2> QED
    BY <1>3, <1>4, <2>1
<1>5. ASSUME NEW e \in Sides, Opened(e) \/ ToldClose(e) PROVE Ordered(wire'[x], id, first, last)
  <2>1. work[e] # <<>> /\ wire' = Sent(e, work[e][1].pkt)
    BY <1>5 DEF Opened, ToldClose
  <2>2. work[e][1].pkt \in Packets /\ work[e][1].pkt.type # "data"
    BY <2>1, WorkPacket
  <2> QED
    BY <1>3, <2>1, <2>2
<1>6. ASSUME NEW e \in Sides, Taken(e), Received(e) PROVE Ordered(wire'[x], id, first, last)
  <2>1. CASE e = x
    <3>1. wire[x] # <<>> /\ wire'[x] = Tail(wire[x])
      BY <1>6, <2>1, TakenFacts
    <3>2. ~(Head(wire[x]).type = "data" /\ Head(wire[x]).id = id)
      BY <1>6, <2>1
    <3> QED
      BY <1>1, <3>1, <3>2, OrderedTake
  <2>2. CASE e = Peer(x)
    BY <1>6, <2>2, TakenFacts, SidesFacts
  <2> QED
    BY <2>1, <2>2, OtherSide
<1>7. ASSUME NEW e \in Sides, Shut(e) PROVE Ordered(wire'[x], id, first, last)
  <2>1. e # x
    BY <1>7
  <2>2. wire'[x] = wire[x]
    BY <1>7, <2>1 DEF Shut, ActorTypes
  <2> QED
    BY <2>2
<1> QED
  BY <1>2, <1>4, <1>5, <1>6, <1>7, PacketSteps

\* A stream that is live after a step was live, or was opened by it.
LEMMA LiveBefore ==
    ASSUME ActorTypes, DataTypes, LifeInv, Shapes, NEW x \in Sides, NEW id \in Ids, Live(x, id)'
    PROVE  \/ Live(x, id)
           \/ Created /\ x = "client" /\ id = currentId + 1
           \/ Opened("client") /\ x = "server" /\ work["client"][1].pkt.id = id
<1>1. /\ streams \in [Sides -> SUBSET Ids] /\ actor \in [Sides -> {"running", "ending", "ended"}]
      /\ wire \in [Sides -> Seq(Packets)]
  BY DEF ActorTypes
<1>2. ASSUME id \in streams'[x] PROVE Live(x, id) \/ (Created /\ x = "client" /\ id = currentId + 1)
  <2>1. CASE UNCHANGED streams
    BY <1>2, <2>1 DEF Live
  <2>2. CASE Created
    BY <1>1, <1>2, <2>2, SidesFacts DEF Created, Live
  <2>3. CASE Added
    <3>1. Has(wire["server"], "connect", Head(wire["server"]).id) /\ actor["server"] = "running"
      BY <2>3, TakenHas, SidesFacts DEF Added
    <3> QED
      BY <1>1, <1>2, <2>3, <3>1, SidesFacts DEF Added, Live
  <2>4. ASSUME NEW e \in Sides, Left(e) \/ ToldOf(e) \/ Shut(e) \/ \E i \in Ids : Closed(e, i)
        PROVE  Live(x, id)
    BY <1>1, <1>2, <2>4, Shrinking DEF Shrunk, Live
  <2> QED
    BY <2>1, <2>2, <2>3, <2>4, MapSteps
<1>3. ASSUME x = "server", actor'["server"] = "running", Has(wire'["server"], "connect", id)
      PROVE  Live(x, id) \/ (Opened("client") /\ work["client"][1].pkt.id = id)
  <2>1. actor["server"] = "running"
    BY <1>1, <1>3, MapSteps, SidesFacts DEF Created, Added, Left, Closed, ToldOf, Shut
  <2>2. Has(wire["server"], "connect", id) => Live(x, id)
    BY <1>3, <2>1 DEF Live
  <2>3. CASE UNCHANGED wire
    BY <1>3, <2>2, <2>3
  <2>4. ASSUME NEW e \in Sides, Taken(e) PROVE Live(x, id)
    BY <1>3, <2>2, <2>4, TakenHas, OtherSide, SidesFacts
  <2>5. ASSUME NEW e \in Sides, NEW i \in Ids, Wrote(e, i) PROVE Live(x, id)
    <3>1. PICK p \in Packets : p.type = "data" /\ wire' = Sent(e, p)
      BY <2>5, WroteFacts
    <3> QED
      BY <1>3, <2>2, <3>1, SentHas, OtherSide, SidesFacts
  <2>6. ASSUME NEW e \in Sides, ToldClose(e) PROVE Live(x, id)
    <3>1. wire' = Sent(e, work[e][1].pkt) /\ work[e][1].pkt \in Packets /\ work[e][1].pkt.type # "connect"
      BY <2>6, WorkPacket DEF ToldClose
    <3>2. e = "server" => wire'["server"] = wire["server"]
      BY <3>1, SentHas
    <3>3. e = "client" => Has(wire["server"], "connect", id)
      BY <1>3, <3>1, SentHas, SidesFacts
    <3> QED
      BY <1>3, <2>2, <3>2, <3>3 DEF Sides
  <2>7. ASSUME NEW e \in Sides, Opened(e)
        PROVE  Live(x, id) \/ (Opened("client") /\ work["client"][1].pkt.id = id)
    <3>1. wire' = Sent(e, work[e][1].pkt) /\ work[e][1].pkt \in Packets /\ e = "client"
      BY <2>7, WorkPacket DEF Opened
    <3> QED
      BY <1>3, <2>2, <2>7, <3>1, SentHas, SidesFacts
  <2>8. ASSUME NEW e \in Sides, Shut(e) PROVE Live(x, id)
    <3>1. wire'["server"] = wire["server"] \/ wire'["server"] = <<>>
      BY <1>1, <2>8, SidesFacts DEF Shut
    <3> QED
      BY <1>3, <2>2, <3>1, EmptyHas
  <2> QED
    BY <2>3, <2>4, <2>5, <2>6, <2>7, <2>8, PacketSteps
<1> QED
  BY <1>2, <1>3 DEF Live

\* The steps that move a number of stream id towards x.
LEMMA CountsKept ==
    ASSUME ActorTypes, DataTypes, Shapes, NEW x \in Sides, NEW id \in Ids,
           ~Wrote(Peer(x), id), ~Took(x, id), ~(Filled(x) /\ Head(wire[x]).id = id)
    PROVE  /\ inbox'[x][id] = inbox[x][id] /\ lost'[x][id] = lost[x][id]
           /\ got'[x][id] = got[x][id] /\ sent'[Peer(x)][id] = sent[Peer(x)][id]
<1>1. /\ inbox \in [Sides -> [Ids -> Seq(Nat)]] /\ lost \in [Sides -> [Ids -> Seq(Nat)]]
      /\ sent \in [Sides -> [Ids -> Nat]] /\ got \in [Sides -> [Ids -> Seq(Nat)]]
      /\ Peer(x) \in Sides
  BY SidesFacts DEF DataTypes
<1> DEFINE Queues == inbox'[x][id] = inbox[x][id] /\ lost'[x][id] = lost[x][id]
<1>2. Queues
  <2>1. ASSUME NEW e \in Sides, Filled(e) PROVE Queues
    <3>1. ~(e = x /\ Head(wire[e]).id = id)
      BY <2>1
    <3> DEFINE p == Head(wire[e])
    <3>2. CASE Kept(e, p)
      BY <1>1, <3>1, <3>2 DEF Kept
    <3>3. CASE Refused(e, p)
      BY <1>1, <3>1, <3>3 DEF Refused
    <3> QED
      BY <2>1, <3>2, <3>3 DEF Filled
  <2>2. ASSUME NEW e \in Sides, NEW i \in Ids, Took(e, i) PROVE Queues
    <3>1. ~(e = x /\ i = id)
      BY <2>2
    <3> QED
      BY <1>1, <2>2, <3>1 DEF Took
  <2> QED
    BY <2>1, <2>2, QueueSteps
<1> DEFINE Same == got'[x][id] = got[x][id] /\ sent'[Peer(x)][id] = sent[Peer(x)][id]
<1>3. Same
  <2>1. ASSUME NEW e \in Sides, NEW i \in Ids, Wrote(e, i) PROVE Same
    <3>1. ~(e = Peer(x) /\ i = id)
      BY <2>1
    <3> QED
      BY <1>1, <2>1, <3>1 DEF Wrote
  <2>2. ASSUME NEW e \in Sides, NEW i \in Ids, Took(e, i) PROVE Same
    <3>1. ~(e = x /\ i = id)
      BY <2>2
    <3> QED
      BY <1>1, <2>2, <3>1 DEF Took
  <2> QED
    BY <2>1, <2>2, CountSteps
<1> QED
  BY <1>2, <1>3

\* A stream that is opened starts with nothing under way.
LEMMA OpenedOrdered ==
    ASSUME ActorTypes, DataTypes, IdsInv, OwnedInv, OpenInv, NEW x \in Sides, NEW id \in Ids,
           \/ Created /\ x = "client" /\ id = currentId + 1
           \/ Opened("client") /\ x = "server" /\ work["client"][1].pkt.id = id
    PROVE  Ordered(wire[x], id, Arrived(x, id), sent[Peer(x)][id])
<1>1. /\ id \notin owned[x] /\ id \notin owned[Peer(x)] /\ ~Names(wire[x], id)
      /\ inbox[x][id] = <<>> /\ lost[x][id] = <<>>
  <2>1. CASE Created /\ x = "client" /\ id = currentId + 1
    <3>1. currentId \in Nat
      BY DEF ActorTypes
    <3>2. Unused("client", id) /\ Unused("server", id)
      BY <2>1, <3>1, SidesFacts DEF IdsInv
    <3> QED
      BY <2>1, <3>2, SidesFacts DEF Unused
  <2>2. CASE Opened("client") /\ x = "server" /\ work["client"][1].pkt.id = id
    <3>1. AtWork("client", "connect", id)
      BY <2>2 DEF Opened, AtWork
    <3>2. ServerLacks(id) /\ ~Names(wire["server"], id) /\ id \notin owned["client"]
      BY <3>1 DEF OpenInv, Coming
    <3> QED
      BY <2>2, <3>2, SidesFacts DEF ServerLacks
  <2> QED
    BY <2>1, <2>2
<1>2. got[x][id] = <<>> /\ sent[Peer(x)][id] = 0
  BY <1>1, SidesFacts DEF OwnedInv
<1>3. Given(x, id) = <<>>
  BY <1>1, <1>2, EmptySeq, ConcatEmptySeq DEF Given
<1>4. Arrived(x, id) = 0
  BY <1>1, <1>3, EmptySeq DEF Arrived
<1>5. ~Has(wire[x], "data", id) /\ wire[x] \in Seq(Packets)
  BY <1>1, HasNames DEF ActorTypes
<1>6. Ordered(wire[x], id, 0, 0)
  BY <1>5, OrderedNone
<1> QED
  BY <1>2, <1>4, <1>6

\* The reader takes the first of the queued numbers.
LEMMA NumbersTaken ==
    ASSUME NEW S, NEW q \in Seq(S), q # <<>>, NEW g \in Seq(S)
    PROVE  Append(g, Head(q)) \o Tail(q) = g \o q
<1> DEFINE h == Head(q)
           r == Tail(q)
           a == Append(g, h)
           l == a \o r
           m == g \o q
<1>1. /\ h \in S /\ h = q[1] /\ r \in Seq(S) /\ Len(r) = Len(q) - 1
      /\ \A i \in 1..Len(r) : r[i] = q[i + 1]
  BY HeadTailProperties
<1>2. /\ Append(g, h) \in Seq(S) /\ Len(Append(g, h)) = Len(g) + 1
      /\ Append(g, h)[Len(g) + 1] = h /\ \A i \in 1..Len(g) : Append(g, h)[i] = g[i]
  BY <1>1, AppendProperties
<1>3. Len(q) \in Nat /\ Len(q) # 0 /\ Len(g) \in Nat
  BY LenProperties, EmptySeq
<1>4. /\ m \in Seq(S) /\ Len(m) = Len(g) + Len(q)
      /\ \A i \in 1..Len(g) + Len(q) : m[i] = IF i <= Len(g) THEN g[i] ELSE q[i - Len(g)]
  BY ConcatProperties
<1>5. /\ l \in Seq(S) /\ Len(l) = Len(a) + Len(r)
      /\ \A i \in 1..Len(a) + Len(r) : l[i] = IF i <= Len(a) THEN a[i] ELSE r[i - Len(a)]
  <2>1. a \in Seq(S) /\ r \in Seq(S)
    BY <1>1, <1>2
  <2> HIDE DEF a, r
  <2> QED
    BY <2>1, ConcatProperties
<1> HIDE DEF h, r, l, m, a
<1>6. /\ a \in Seq(S) /\ Len(a) = Len(g) + 1 /\ a[Len(g) + 1] = q[1]
      /\ \A i \in 1..Len(g) : a[i] = g[i]
  BY <1>1, <1>2 DEF a
<1>7. Len(l) = Len(m)
  BY <1>1, <1>3, <1>4, <1>5, <1>6
<1>8. ASSUME NEW i \in 1..Len(l) PROVE l[i] = m[i]
  <2>0. i \in 1..Len(g) + Len(q) /\ i \in 1..Len(a) + Len(r)
    BY <1>4, <1>5, <1>7, <1>8
  <2>1. CASE i <= Len(g)
    <3>1. i \in 1..Len(g) /\ i <= Len(a)
      BY <1>3, <1>6, <2>0, <2>1
    <3>2. l[i] = a[i] /\ m[i] = g[i]
      BY <1>4, <1>5, <2>0, <2>1, <3>1
    <3> QED
      BY <1>6, <3>1, <3>2
  <2>2. CASE i = Len(g) + 1
    BY <1>3, <1>4, <1>5, <1>6, <2>0, <2>2
  <2>3. CASE i > Len(g) + 1
    <3>1. i - Len(a) \in 1..Len(r) /\ (i - Len(a)) + 1 = i - Len(g)
      BY <1>1, <1>3, <1>6, <2>0, <2>3
    <3>2. l[i] = r[i - Len(a)] /\ m[i] = q[i - Len(g)]
      BY <1>3, <1>4, <1>5, <1>6, <2>0, <2>3
    <3> QED
      BY <1>1, <3>1, <3>2
  <2> QED
    BY <1>3, <2>0, <2>1, <2>2, <2>3
<1>9. l = m
  BY <1>4, <1>5, <1>7, <1>8, SeqEqual
<1> QED
  BY <1>9 DEF l, m, a, h, r

LEMMA ConcatAppend ==
    ASSUME NEW g \in Seq(Nat), NEW q \in Seq(Nat), NEW n \in Nat
    PROVE  g \o Append(q, n) = Append(g \o q, n)
<1>1. <<n>> \in Seq(Nat) /\ g \o q \in Seq(Nat)
  BY ConcatProperties
<1>2. Append(q, n) = q \o <<n>> /\ Append(g \o q, n) = (g \o q) \o <<n>>
  BY <1>1, AppendIsConcat
<1> DEFINE u == <<n>>
<1>3. u \in Seq(Nat)
  BY <1>1
<1> HIDE DEF u
<1>4. (g \o q) \o u = g \o (q \o u)
  BY <1>3, ConcatAssociative, SMTT(30)
<1> QED
  BY <1>2, <1>4 DEF u

LEMMA SumExceeds ==
    ASSUME NEW a \in Nat, NEW b \in Nat, NEW c \in Nat, b >= c
    PROVE  a + b + 1 > c
OBVIOUS

\* The next number is given to the channel or refused by it.
LEMMA NumbersPut ==
    ASSUME NEW g \in Seq(Nat), NEW l \in Seq(Nat), Tally(g, l),
           NEW n, n = Len(g) + Len(l) + 1
    PROVE  /\ n \in Nat
           /\ Tally(Append(g, n), l) /\ Len(Append(g, n)) + Len(l) = n
           /\ Tally(g, Append(l, n)) /\ Len(g) + Len(Append(l, n)) = n
<1>1. Len(g) \in Nat /\ Len(l) \in Nat /\ n \in Nat
  BY LenProperties
<1> DEFINE G == Append(g, n)
           L == Append(l, n)
<1>2. /\ Len(G) = Len(g) + 1 /\ G[Len(g) + 1] = n
      /\ \A i \in 1..Len(g) : G[i] = g[i]
      /\ Len(L) = Len(l) + 1 /\ L[Len(l) + 1] = n
      /\ \A i \in 1..Len(l) : L[i] = l[i]
  BY <1>1, AppendProperties
<1>3. /\ \A i, j \in 1..Len(g) : i < j => g[i] < g[j]
      /\ \A k \in 1..Len(g) + Len(l) :
            (\E i \in 1..Len(g) : g[i] = k) \/ (\E i \in 1..Len(l) : l[i] = k)
      /\ \A i \in 1..Len(g) : g[i] <= Len(g) + Len(l) /\ g[i] \in Nat
  BY ElementOfSeq DEF Tally, Account
<1> HIDE DEF G, L
<1>4. /\ 1..Len(G) = (1..Len(g)) \cup {Len(g) + 1}
      /\ 1..Len(L) = (1..Len(l)) \cup {Len(l) + 1}
      /\ 1..n = (1..Len(g) + Len(l)) \cup {n}
  BY <1>1, <1>2
<1>5. Len(G) + Len(l) = n /\ Len(g) + Len(L) = n
  BY <1>1, <1>2
<1>6. Tally(G, l)
  <2>1. ASSUME NEW i \in 1..Len(G), NEW j \in 1..Len(G), i < j PROVE G[i] < G[j]
    <3>1. i \in 1..Len(g)
      BY <1>1, <1>2, <2>1
    <3>2. CASE j = Len(g) + 1
      <4>1. G[i] = g[i] /\ G[j] = n /\ g[i] <= Len(g) + Len(l) /\ g[i] \in Nat
        BY <1>2, <1>3, <3>1, <3>2
      <4> QED
        BY <1>1, <4>1
    <3>3. CASE j # Len(g) + 1
      BY <1>2, <1>3, <1>4, <2>1, <3>1, <3>3
    <3> QED
      BY <3>2, <3>3
  <2>2. ASSUME NEW k \in 1..Len(G) + Len(l)
        PROVE  (\E i \in 1..Len(G) : G[i] = k) \/ (\E i \in 1..Len(l) : l[i] = k)
    <3>1. k \in 1..Len(g) + Len(l) \/ k = n
      BY <1>4, <1>5
    <3>2. CASE k = n
      BY <1>2, <1>4, <3>2
    <3>3. CASE k \in 1..Len(g) + Len(l)
      BY <1>2, <1>3, <1>4, <3>3
    <3> QED
      BY <3>1, <3>2, <3>3
  <2>3. ASSUME NEW i \in 1..Len(G) PROVE G[i] <= Len(G) + Len(l)
    <3>1. CASE i = Len(g) + 1
      <4>1. G[i] = n
        BY <1>2, <3>1
      <4> QED
        BY <1>1, <1>5, <4>1
    <3>2. CASE i \in 1..Len(g)
      <4>1. G[i] = g[i] /\ g[i] <= Len(g) + Len(l) /\ g[i] \in Nat
        BY <1>2, <1>3, <3>2
      <4> QED
        BY <1>1, <1>5, <4>1
    <3> QED
      BY <1>4, <3>1, <3>2
  <2> QED
    BY <2>1, <2>2, <2>3 DEF Tally, Account
<1>7. Tally(g, L)
  <2>1. ASSUME NEW k \in 1..Len(g) + Len(L)
        PROVE  (\E i \in 1..Len(g) : g[i] = k) \/ (\E i \in 1..Len(L) : L[i] = k)
    <3>1. k \in 1..Len(g) + Len(l) \/ k = n
      BY <1>4, <1>5
    <3>2. CASE k = n
      BY <1>2, <1>4, <3>2
    <3>3. CASE k \in 1..Len(g) + Len(l)
      BY <1>2, <1>3, <1>4, <3>3
    <3> QED
      BY <3>1, <3>2, <3>3
  <2>2. \A i \in 1..Len(g) : g[i] <= Len(g) + Len(L)
    BY <1>1, <1>2, <1>3
  <2> QED
    BY <1>3, <2>1, <2>2 DEF Tally, Account
<1> QED
  BY <1>1, <1>5, <1>6, <1>7 DEF G, L

LEMMA OrderNext ==
    ASSUME ActorTypes, DataTypes, DataTypes', LifeInv, IdsInv, OwnedInv, OpenInv, OrderInv, Shapes
    PROVE  OrderInv'
<1> SUFFICES ASSUME NEW x \in Sides, NEW id \in Ids
             PROVE  /\ Delivery(x, id)'
                    /\ Live(x, id)' => Ordered(wire'[x], id, Arrived(x, id)', sent'[Peer(x)][id])
  BY SidesFacts DEF OrderInv
<1> DEFINE Goal == /\ Delivery(x, id)'
                   /\ Live(x, id)' => Ordered(wire'[x], id, Arrived(x, id)', sent'[Peer(x)][id])
<1>1. /\ Delivery(x, id)
      /\ Live(x, id) => Ordered(wire[x], id, Arrived(x, id), sent[Peer(x)][id])
  BY DEF OrderInv
<1>2. /\ inbox \in [Sides -> [Ids -> Seq(Nat)]] /\ lost \in [Sides -> [Ids -> Seq(Nat)]]
      /\ sent \in [Sides -> [Ids -> Nat]] /\ got \in [Sides -> [Ids -> Seq(Nat)]]
      /\ wire[x] \in Seq(Packets) /\ Peer(x) \in Sides
  BY SidesFacts DEF DataTypes, ActorTypes
<1>3. /\ inbox[x][id] \in Seq(Nat) /\ lost[x][id] \in Seq(Nat) /\ got[x][id] \in Seq(Nat)
      /\ Given(x, id) \in Seq(Nat) /\ Len(Given(x, id)) = Len(got[x][id]) + Len(inbox[x][id])
      /\ Len(Given(x, id)) \in Nat /\ Len(lost[x][id]) \in Nat
      /\ Arrived(x, id) \in Nat /\ sent[Peer(x)][id] \in Nat
  <2>1. /\ inbox[x][id] \in Seq(Nat) /\ lost[x][id] \in Seq(Nat) /\ got[x][id] \in Seq(Nat)
        /\ sent[Peer(x)][id] \in Nat
    BY <1>2
  <2>2. Given(x, id) \in Seq(Nat) /\ Len(Given(x, id)) = Len(got[x][id]) + Len(inbox[x][id])
    BY <2>1, ConcatProperties DEF Given
  <2>3. Len(Given(x, id)) \in Nat /\ Len(lost[x][id]) \in Nat
    BY <2>1, <2>2, LenProperties
  <2>4. Len(Given(x, id)) + Len(lost[x][id]) \in Nat
    BY ONLY <2>3
  <2>5. Arrived(x, id) \in Nat
    BY <2>4 DEF Arrived
  <2> QED
    BY <2>1, <2>2, <2>3, <2>5
<1>4. Live(x, id) => actor[x] = "running"
  BY DEF Live, LifeInv
\* Where the books of the stream stand still or sent goes up.
<1>a. ASSUME inbox'[x][id] = inbox[x][id], lost'[x][id] = lost[x][id], got'[x][id] = got[x][id],
             sent'[Peer(x)][id] \in {sent[Peer(x)][id], sent[Peer(x)][id] + 1}
      PROVE  Arrived(x, id)' = Arrived(x, id) /\ Delivery(x, id)'
  <2>1. Given(x, id)' = Given(x, id)
    BY <1>a DEF Given
  <2>2. Arrived(x, id)' = Arrived(x, id)
    BY <1>a, <2>1 DEF Arrived
  <2>3. Arrived(x, id)' <= sent'[Peer(x)][id]
    BY <1>1, <1>3, <1>a, <2>2 DEF Delivery
  <2> QED
    BY <1>1, <1>a, <2>1, <2>2, <2>3 DEF Delivery
<1>5. ASSUME Wrote(Peer(x), id) PROVE Goal
  <2>1. /\ UNCHANGED <<inbox, got, lost, work, currentId>>
        /\ sent'[Peer(x)][id] = sent[Peer(x)][id] + 1
    BY <1>2, <1>5 DEF Wrote
  <2>2. ~Created /\ ~Opened("client")
    BY <2>1, SidesFacts DEF Created, Opened, WorkDone, WorkIs
  <2>3. Live(x, id)' => Live(x, id)
    BY <2>2, LiveBefore
  <2>4. Arrived(x, id)' = Arrived(x, id) /\ Delivery(x, id)'
    BY <1>a, <2>1
  <2>5. ASSUME Live(x, id) PROVE Ordered(wire'[x], id, Arrived(x, id), sent[Peer(x)][id] + 1)
    <3>1. PICK p \in Packets : p = Data(id, sent[Peer(x)][id] + 1) /\ wire' = Sent(Peer(x), p)
      BY <1>2, <1>5, WroteFacts
    <3>2. wire'[x] = Append(wire[x], p)
      <4>1. Peer(x) \in Sides /\ Peer(Peer(x)) = x /\ actor[x] = "running"
        BY <1>4, <2>5, SidesFacts
      <4>2. actor[Peer(Peer(x))] = "running" => wire'[Peer(Peer(x))] = Append(wire[Peer(Peer(x))], p)
        BY <3>1, <4>1, SentFacts
      <4> QED
        BY <4>1, <4>2
    <3> QED
      BY <1>1, <1>2, <1>3, <2>5, <3>1, <3>2, OrderedWrite
  <2> QED
    BY <2>1, <2>3, <2>4, <2>5
<1>6. ASSUME Took(x, id) PROVE Goal
  <2>1. /\ UNCHANGED <<actor, streams, wire, sent, lost>>
        /\ got'[x][id] = Append(got[x][id], Head(inbox[x][id]))
        /\ inbox'[x][id] = Tail(inbox[x][id]) /\ inbox[x][id] # <<>>
    BY <1>2, <1>6 DEF Took
  <2>2. Given(x, id)' = Given(x, id)
    BY <1>3, <2>1, NumbersTaken DEF Given
  <2>3. Arrived(x, id)' = Arrived(x, id)
    BY <2>1, <2>2 DEF Arrived
  <2>4. Delivery(x, id)'
    BY <1>1, <2>1, <2>2, <2>3 DEF Delivery
  <2>5. Live(x, id)' <=> Live(x, id)
    BY <2>1 DEF Live
  <2> QED
    BY <1>1, <2>1, <2>3, <2>4, <2>5
<1>7. ASSUME Filled(x), Head(wire[x]).id = id PROVE Goal
  <2> DEFINE n == Head(wire[x]).arg
  <2>1. /\ UNCHANGED <<actor, streams, sent, got>> /\ id \in streams[x] /\ Head(wire[x]).type = "data"
        /\ wire[x] # <<>> /\ wire'[x] = Tail(wire[x])
        /\ Kept(x, Head(wire[x])) \/ Refused(x, Head(wire[x]))
    BY <1>2, <1>7, TakenFacts DEF Filled
  <2>2. Live(x, id)
    BY <2>1 DEF Live
  <2>3. /\ n = Arrived(x, id) + 1 /\ Arrived(x, id) + 1 <= sent[Peer(x)][id]
        /\ Ordered(Tail(wire[x]), id, Arrived(x, id) + 1, sent[Peer(x)][id])
    BY <1>1, <1>2, <1>3, <1>7, <2>1, <2>2, OrderedTake
  <2>4. n = Len(Given(x, id)) + Len(lost[x][id]) + 1
    BY <2>3 DEF Arrived
  <2>5. Tally(Given(x, id), lost[x][id])
    BY <1>1 DEF Delivery
  <2>6. /\ n \in Nat
        /\ Tally(Append(Given(x, id), n), lost[x][id])
        /\ Len(Append(Given(x, id), n)) + Len(lost[x][id]) = n
        /\ Tally(Given(x, id), Append(lost[x][id], n))
        /\ Len(Given(x, id)) + Len(Append(lost[x][id], n)) = n
    <3>1. Given(x, id) \in Seq(Nat) /\ lost[x][id] \in Seq(Nat)
      BY <1>3
    <3> HIDE DEF n
    <3> QED
      BY <2>4, <2>5, <3>1, NumbersPut, ZenonT(40)
  <2>7. CASE Kept(x, Head(wire[x]))
    <3>1. inbox'[x][id] = Append(inbox[x][id], n) /\ UNCHANGED <<lost, got>>
      BY <1>2, <1>7, <2>1, <2>7 DEF Kept
    <3>2. Given(x, id)' = Append(Given(x, id), n)
      <4>1. Given(x, id)' = got[x][id] \o Append(inbox[x][id], n)
        BY <3>1 DEF Given
      <4>2. got[x][id] \o Append(inbox[x][id], n) = Append(got[x][id] \o inbox[x][id], n)
        <5>1. n \in Nat /\ got[x][id] \in Seq(Nat) /\ inbox[x][id] \in Seq(Nat)
          BY <1>3, <2>6
        <5> HIDE DEF n
        <5> QED
          BY <5>1, ConcatAppend, Zenon
      <4> QED
        BY <4>1, <4>2 DEF Given
    <3>3. Arrived(x, id)' = Arrived(x, id) + 1
      BY <2>3, <2>6, <3>1, <3>2 DEF Arrived
    <3>4. Delivery(x, id)'
      BY <1>1, <2>1, <2>3, <2>6, <3>1, <3>2, <3>3 DEF Delivery
    <3> QED
      BY <2>1, <2>3, <3>3, <3>4
  <2>8. CASE Refused(x, Head(wire[x]))
    <3>1. /\ lost'[x][id] = Append(lost[x][id], n) /\ UNCHANGED <<inbox, got>>
          /\ x = "server" /\ Len(inbox[x][id]) >= Capacity
      BY <1>2, <1>7, <2>1, <2>8 DEF Refused
    <3>2. Given(x, id)' = Given(x, id)
      BY <3>1 DEF Given
    <3>3. Arrived(x, id)' = Arrived(x, id) + 1
      BY <2>3, <2>6, <3>1, <3>2 DEF Arrived
    <3>4. lost'[x][id][1] > Capacity
      <4>1. CASE lost[x][id] = <<>>
        <5>1. lost'[x][id] = <<n>>
          BY <3>1, <4>1
        <5>2. Len(lost[x][id]) = 0 /\ Len(got[x][id]) \in Nat /\ Len(inbox[x][id]) \in Nat
          BY <1>3, <4>1, LenProperties
        <5>3. n > Capacity
          <6> HIDE DEF n
          <6>1. n = Len(got[x][id]) + Len(inbox[x][id]) + 1
            BY <1>3, <2>4, <5>2
          <6>2. Capacity \in Nat /\ Len(inbox[x][id]) >= Capacity
            BY <3>1, MuxConstants
          <6> QED
            BY <5>2, <6>1, <6>2, SumExceeds, Zenon
        <5>4. lost'[x][id][1] = n
          BY <5>1
        <5> QED
          BY <5>3, <5>4
      <4>2. CASE lost[x][id] # <<>>
        <5>1. lost[x][id][1] > Capacity
          BY <1>1, <4>2 DEF Delivery
        <5>2. 1 \in 1..Len(lost[x][id])
          BY <1>3, <4>2, EmptySeq
        <5>3. Append(lost[x][id], n)[1] = lost[x][id][1]
          BY <1>3, <2>6, <5>2, AppendProperties
        <5> QED
          BY <3>1, <5>1, <5>3
      <4> QED
        BY <4>1, <4>2
    <3>5. Delivery(x, id)'
      BY <2>1, <2>3, <2>6, <3>1, <3>2, <3>3, <3>4 DEF Delivery
    <3> QED
      BY <2>1, <2>3, <3>3, <3>5
  <2> QED
    BY <2>1, <2>7, <2>8
<1>8. ASSUME ~Wrote(Peer(x), id), ~Took(x, id), ~(Filled(x) /\ Head(wire[x]).id = id) PROVE Goal
  <2>1. /\ inbox'[x][id] = inbox[x][id] /\ lost'[x][id] = lost[x][id]
        /\ got'[x][id] = got[x][id] /\ sent'[Peer(x)][id] = sent[Peer(x)][id]
    BY <1>8, CountsKept
  <2>2. Arrived(x, id)' = Arrived(x, id) /\ Delivery(x, id)'
    BY <1>a, <2>1
  <2>3. ASSUME Live(x, id)' PROVE Ordered(wire'[x], id, Arrived(x, id), sent[Peer(x)][id])
    <3>1. actor'[x] = "running"
      BY <2>3, LifeNext DEF Live, LifeInv
    <3>2. ~Left(x) /\ ~Shut(x)
      BY <3>1 DEF Left, Shut, ActorTypes
    <3>3. CASE /\ Ordered(wire[x], id, Arrived(x, id), sent[Peer(x)][id])
               /\ Received(x) => ~(Head(wire[x]).type = "data" /\ Head(wire[x]).id = id)
      BY <1>3, <1>8, <3>2, <3>3, OrderedKept
    <3>4. CASE Live(x, id)
      <4>1. ASSUME Received(x), Head(wire[x]).type = "data", Head(wire[x]).id = id PROVE FALSE
        <5>1. id \notin streams[x] /\ Taken(x)
          BY <1>8, <3>2, <4>1, SidesFacts DEF Received, Added, ToldOf, Ignored, EndedBy
        <5>2. x = "server" /\ Has(wire["server"], "connect", id)
          BY <3>4, <5>1 DEF Live
        <5>3. wire["server"] \in Seq(Packets) /\ wire["server"] # <<>>
          BY <5>1, <5>2, TakenFacts
        <5>4. Has(Tail(wire["server"]), "connect", id)
          BY <4>1, <5>2, <5>3, TailHas
        <5> QED
          BY <4>1, <5>2, <5>3, <5>4, ConnectsFirstTail DEF OpenInv
      <4> QED
        BY <1>1, <3>3, <3>4, <4>1
    <3>5. CASE \/ Created /\ x = "client" /\ id = currentId + 1
               \/ Opened("client") /\ x = "server" /\ work["client"][1].pkt.id = id
      <4>1. ~Received(x)
        BY <3>5, SidesFacts DEF Received, Created, Opened, WorkIs, WorkDone
      <4>2. Ordered(wire[x], id, Arrived(x, id), sent[Peer(x)][id])
        BY <3>5, OpenedOrdered
      <4> QED
        BY <3>3, <4>1, <4>2
    <3> QED
      BY <2>3, <3>4, <3>5, LiveBefore
  <2> QED
    BY <1>1, <2>1, <2>2, <2>3
<1> QED
  BY <1>5, <1>6, <1>7, <1>8
-----------------------------------------------------------------------------
(* The theorems.                                                           *)

LEMMA MuxInit ==
    ASSUME Init
    PROVE  MuxInv
<1>1. /\ actor = [e \in Sides |-> "running"] /\ work = [e \in Sides |-> <<>>]
      /\ unset = [e \in Sides |-> {}] /\ streams = [e \in Sides |-> {}]
      /\ currentId = 0 /\ backlog = <<>>
      /\ wire = [e \in Sides |-> <<>>] /\ eof = [e \in Sides |-> FALSE]
      /\ owned = [e \in Sides |-> {}]
      /\ calls = [k \in Calls |-> "none"]
  BY DEF Init
<1>2. /\ inbox = [e \in Sides |-> [id \in Ids |-> <<>>]]
      /\ reason = [e \in Sides |-> [id \in Ids |-> "Unknown"]]
      /\ closing = [e \in Sides |-> [id \in Ids |-> "no"]]
      /\ sent = [e \in Sides |-> [id \in Ids |-> 0]]
      /\ got = [e \in Sides |-> [id \in Ids |-> <<>>]]
      /\ lost = [e \in Sides |-> [id \in Ids |-> <<>>]]
  BY DEF Init, PerStream
<1>3. \A e \in Sides : wire[e] = <<>> /\ work[e] = <<>> /\ streams[e] = {} /\ owned[e] = {} /\ ~eof[e]
  BY <1>1
<1>4. \A e \in Sides, id \in Ids :
         inbox[e][id] = <<>> /\ sent[e][id] = 0 /\ got[e][id] = <<>> /\ lost[e][id] = <<>>
  BY <1>2
<1>5. \A e \in Sides : \A t, id : ~Coming(e, t, id) /\ ~WorkNames(e, id) /\ ~AtWork(e, t, id)
  BY <1>3, EmptyHas, SidesFacts DEF Coming, AtWork, WorkNames
<1>6. ActorTypes
  <2>1. currentId \in 0..MaxId /\ backlog \in Seq(Ids) /\ <<>> \in Seq(Packets)
    BY <1>1, MuxConstants, EmptySeq
  <2>2. wire \in [Sides -> Seq(Packets)] /\ eof \in [Sides -> BOOLEAN]
    BY <1>1, <2>1
  <2> QED
    BY <1>1, <2>1, <2>2 DEF ActorTypes
<1>7. DataTypes
  <2>1. <<>> \in Seq(Nat)
    BY EmptySeq
  <2> QED
    BY <1>2, <2>1 DEF DataTypes
<1>8. AnswerTypes
  BY <1>1, <1>2 DEF AnswerTypes, Reasons
<1>9. LifeInv
  BY <1>3, SidesFacts DEF LifeInv
<1>10. IdsInv
  BY <1>1, <1>3, <1>4, <1>5, EmptyHas DEF IdsInv, Unused
<1>11. OwnedInv
  BY <1>4 DEF OwnedInv
<1>12. OpenInv
  BY <1>3, <1>5, EmptyHas, SidesFacts DEF OpenInv
<1>13. CloseInv
  BY <1>5 DEF CloseInv
<1>14. OrphanInv
  BY <1>3, <1>5, SidesFacts DEF OrphanInv
<1>15. OrderInv
  <2> SUFFICES ASSUME NEW e \in Sides, NEW id \in Ids
               PROVE  Delivery(e, id) /\ ~Live(e, id)
    BY DEF OrderInv
  <2>1. ~Live(e, id)
    BY <1>3, EmptyHas, SidesFacts DEF Live
  <2>2. Given(e, id) = <<>> /\ lost[e][id] = <<>>
    BY <1>4, EmptySeq, ConcatEmptySeq DEF Given
  <2>3. Arrived(e, id) = 0 /\ sent[Peer(e)][id] = 0
    BY <1>4, <2>2, EmptySeq, SidesFacts DEF Arrived
  <2>4. Tally(<<>>, <<>>)
    BY DEF Tally, Account
  <2> QED
    BY <2>1, <2>2, <2>3, <2>4 DEF Delivery
<1> QED
  BY <1>6, <1>7, <1>8, <1>9, <1>10, <1>11, <1>12, <1>13, <1>14, <1>15 DEF MuxInv

LEMMA MuxStep ==
    ASSUME MuxInv, [Next]_vars
    PROVE  MuxInv'
<1> USE DEF MuxInv
<1>1. Shapes
  <2>1. CASE UNCHANGED vars
    BY <2>1 DEF vars, actorVars, appVars, Shapes, Quiet
  <2> QED
    BY <2>1, StepsHaveShapes
<1>2. ActorTypes' /\ DataTypes'
  BY <1>1, ActorTypesNext, DataTypesNext
<1>3. AnswerTypes'
  <2>1. CASE UNCHANGED vars
    BY <2>1 DEF vars, actorVars, appVars, AnswerTypes
  <2> QED
    BY <2>1, AnswerTypesNext
<1>4. LifeInv' /\ IdsInv' /\ OwnedInv' /\ OpenInv' /\ CloseInv'
  BY <1>1, <1>2, LifeNext, IdsNext, OwnedNext, OpenNext, CloseNext
<1>5. OrphanInv' /\ OrderInv'
  BY <1>1, <1>2, OrphanNext, OrderNext
<1> QED
  BY <1>2, <1>3, <1>4, <1>5

LEMMA MuxInvariant == Spec => []MuxInv
<1>1. Init => MuxInv
  BY MuxInit
<1>2. MuxInv /\ [Next]_vars => MuxInv'
  BY MuxStep
<1> QED
  BY <1>1, <1>2, PTL DEF Spec

\* Outgoing is the wire and the handler's packet.
LEMMA OutgoingIs ==
    ASSUME ActorTypes, NEW e \in Sides
    PROVE  \/ work[e] = <<>> /\ Outgoing(e) = wire[Peer(e)]
           \/ work[e] # <<>> /\ Outgoing(e) = Append(wire[Peer(e)], work[e][1].pkt)
<1>1. wire[Peer(e)] \in Seq(Packets)
  BY SidesFacts DEF ActorTypes
<1>2. CASE work[e] = <<>>
  BY <1>1, <1>2, ConcatEmptySeq DEF Outgoing
<1>3. CASE work[e] # <<>>
  <2>1. work[e][1].pkt \in Packets
    BY <1>3, WorkPacket
  <2>2. Outgoing(e) = wire[Peer(e)] \o <<work[e][1].pkt>>
    BY <1>3 DEF Outgoing
  <2> QED
    BY <1>1, <1>3, <2>1, <2>2, AppendIsConcat
<1> QED
  BY <1>2, <1>3

LEMMA UnderwayIs ==
    ASSUME ActorTypes, NEW e \in Sides, NEW t, NEW id
    PROVE  Underway(e, t, id) <=> Coming(e, t, id)
<1>1. Underway(e, t, id) <=> Has(Outgoing(e), t, id)
  BY DEF Underway, Has
<1>2. wire[Peer(e)] \in Seq(Packets)
  BY SidesFacts DEF ActorTypes
<1>3. CASE work[e] = <<>>
  BY <1>1, <1>3, OutgoingIs DEF Coming, AtWork
<1>4. CASE work[e] # <<>>
  <2>1. Outgoing(e) = Append(wire[Peer(e)], work[e][1].pkt) /\ work[e][1].pkt \in Packets
    BY <1>4, OutgoingIs, WorkPacket
  <2>2. Has(Outgoing(e), t, id) <=> Has(wire[Peer(e)], t, id)
            \/ (work[e][1].pkt.type = t /\ work[e][1].pkt.id = id)
    BY <1>2, <2>1, AppendHas
  <2> QED
    BY <1>1, <1>4, <2>2 DEF Coming, AtWork
<1> QED
  BY <1>3, <1>4

\* The type invariant of the multiplexors: a handler has one packet to send at
\* most, and no stream delivers more than was written to it.
THEOREM MuxTypeCorrect == Spec => []TypeOK
<1>1. MuxInv => TypeOK
  <2> SUFFICES ASSUME MuxInv PROVE TypeOK
    OBVIOUS
  <2>1. ASSUME NEW e \in Sides PROVE Len(work[e]) <= 1
    <3>1. work[e] = <<>> \/ Len(work[e]) = 1
      BY DEF MuxInv, ActorTypes
    <3>2. CASE work[e] = <<>>
      BY <3>2
    <3>3. CASE Len(work[e]) = 1
      BY <3>3
    <3> QED
      BY <3>1, <3>2, <3>3
  <2>2. \A e \in Sides, id \in Ids : Arrived(e, id) <= sent[Peer(e)][id]
    BY DEF MuxInv, OrderInv, Delivery
  <2> QED
    BY <2>1, <2>2 DEF MuxInv, ActorTypes, AnswerTypes, TypeOK
<1> QED
  BY <1>1, MuxInvariant, PTL

\* add_stream never replaces a live stream and no packet overtakes the CONNECT
\* of its stream, for any number of streams, closes and writers.
THEOREM ConnectIsFresh == Spec => []FreshConnect
<1>1. MuxInv => FreshConnect
  <2> SUFFICES ASSUME MuxInv, NEW i \in 1..Len(Outgoing("client")),
                      Outgoing("client")[i].type = "connect"
               PROVE  /\ Outgoing("client")[i].id \notin streams["server"]
                      /\ \A j \in 1..i-1 : Outgoing("client")[j].id # Outgoing("client")[i].id
    BY DEF FreshConnect
  <2>1. ActorTypes /\ OpenInv /\ wire["server"] \in Seq(Packets)
    BY SidesFacts DEF MuxInv, ActorTypes
  <2>2. ConnectsFirst(Outgoing("client"))
    <3>1. CASE work["client"] = <<>>
      BY <2>1, <3>1, OutgoingIs, SidesFacts DEF OpenInv
    <3>2. CASE work["client"] # <<>>
      <4>1. work["client"][1].pkt \in Packets
        BY <2>1, <3>2, WorkPacket, SidesFacts
      <4>2. ASSUME work["client"][1].pkt.type = "connect"
            PROVE  ~Names(wire["server"], work["client"][1].pkt.id)
        <5>1. work["client"][1].pkt.id \in Ids
          BY <4>1, <4>2, PacketFields
        <5>2. AtWork("client", "connect", work["client"][1].pkt.id)
          BY <3>2, <4>2 DEF AtWork
        <5> QED
          BY <2>1, <5>1, <5>2 DEF OpenInv
      <4>3. ConnectsFirst(Append(wire["server"], work["client"][1].pkt))
        BY <2>1, <4>1, <4>2, ConnectsFirstAppend DEF OpenInv
      <4> QED
        BY <2>1, <3>2, <4>3, OutgoingIs, SidesFacts
    <3> QED
      BY <3>1, <3>2
  <2>3. Coming("client", "connect", Outgoing("client")[i].id)
    <3>1. Underway("client", "connect", Outgoing("client")[i].id)
      BY DEF Underway
    <3> QED
      BY <2>1, <3>1, UnderwayIs, SidesFacts
  <2>4. Outgoing("client")[i].id \notin streams["server"]
    BY <2>1, <2>3, SidesFacts DEF OpenInv, ServerLacks, ActorTypes
  <2> QED
    BY <2>2, <2>4 DEF ConnectsFirst
<1> QED
  BY <1>1, MuxInvariant, PTL

\* No close is forgotten: while both actors run, a stream that one side only
\* has is being opened or closed by a packet the other side is going to handle.
THEOREM MapsAgree == Spec => []NoOrphan
<1>1. MuxInv => NoOrphan
  <2> SUFFICES ASSUME MuxInv, \A e \in Sides : actor[e] = "running"
               PROVE  /\ \A id \in streams["server"] \ streams["client"] :
                            Underway("client", "close", id)
                      /\ \A id \in streams["client"] \ streams["server"] :
                            Underway("client", "connect", id) \/ Underway("server", "close", id)
    BY DEF NoOrphan
  <2>1. ActorTypes /\ OrphanInv
    BY DEF MuxInv
  <2>2. \A id : /\ Underway("client", "close", id) <=> Coming("client", "close", id)
                /\ Underway("client", "connect", id) <=> Coming("client", "connect", id)
                /\ Underway("server", "close", id) <=> Coming("server", "close", id)
    BY <2>1, UnderwayIs, SidesFacts
  <2>3. streams["server"] \subseteq Ids /\ streams["client"] \subseteq Ids
    BY <2>1, SidesFacts DEF ActorTypes
  <2> QED
    BY <2>1, <2>2, <2>3 DEF OrphanInv
<1> QED
  BY <1>1, MuxInvariant, PTL

\* While a stream is open every DATA packet the peer wrote to it is under way in
\* order, or was given to the application once and in order, or was refused by
\* the server's full channel, which refuses none of the first Capacity: nothing
\* is lost anywhere else, whatever the connection carries beside it.
THEOREM DataInOrder == Spec => []InOrder
<1>1. MuxInv => InOrder
  <2> SUFFICES ASSUME MuxInv, NEW e \in Sides, NEW id \in streams[e]
               PROVE  /\ Account(Given(e, id), lost[e][id])
                      /\ Ordered(wire[e], id, Arrived(e, id), sent[Peer(e)][id])
                      /\ lost[e][id] # <<>> => e = "server" /\ lost[e][id][1] > Capacity
    BY DEF InOrder
  <2>1. id \in Ids /\ Live(e, id)
    BY DEF MuxInv, ActorTypes, Live
  <2> QED
    BY <2>1 DEF MuxInv, OrderInv, Delivery, Tally
<1> QED
  BY <1>1, MuxInvariant, PTL
=============================================================================
