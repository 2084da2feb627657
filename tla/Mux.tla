-------------------------------- MODULE Mux --------------------------------
(***************************************************************************)
(* Streams over one Wisp connection: a client and a server multiplexor     *)
(* (wisp/src/mux) joined by the two directions of a transport, and the     *)
(* applications that create, write, read, close and drop MuxStreams.       *)
(*                                                                         *)
(* Each side has an actor (MuxInner) that alternates between the packets   *)
(* it receives and the events the application queued for it, and owns the  *)
(* stream map.  DATA does not pass through the actor: a MuxStream writes   *)
(* to the shared transport itself.  Flow control is left to FlowControl,   *)
(* the lock on the transport to LockedSink: here a packet is written in    *)
(* one step.  A stream that is dropped without close() is one whose        *)
(* application does nothing more: nothing tells the actor.                 *)
(***************************************************************************)
EXTENDS Integers, Sequences, SequencesExt

CONSTANTS
    MaxId,        \* the last stream id, u32::MAX in the code
    Calls,        \* calls of ClientMux::new_stream
    Capacity,     \* of the server's channel of a stream: ServerMux.buffer_size
    MaxData,      \* bound: DATA packets an application writes to a stream
    Stoppers,     \* bound: sides whose application may close the multiplexor
    Lingering     \* sides whose transport may never complete its close

ASSUME MuxConstants ==
    /\ MaxId \in Nat \ {0}
    /\ Capacity \in Nat \ {0}
    /\ MaxData \in Nat
    /\ Stoppers \subseteq {"client", "server"}
    /\ Lingering \subseteq {"client", "server"}

Ids   == 1..MaxId
Sides == {"client", "server"}
Peer(e) == IF e = "client" THEN "server" ELSE "client"

\* A close reason is told apart by who gave it; CloseReason::Unknown is what a
\* StreamInfo starts with.
Reasons == Sides \cup {"Unknown"}

Connect(id)  == [type |-> "connect", id |-> id, arg |-> 0]
Data(id, n)  == [type |-> "data", id |-> id, arg |-> n]
Close(id, r) == [type |-> "close", id |-> id, arg |-> r]

VARIABLES
    actor,      \* MuxInner::into_future: "running", "ending" (drained), "ended"
    events,     \* the actor's channel (actor_rx)
    work,       \* the packet a handler of the actor is about to send, if any
    unset,      \* streams dropped by close_stream whose set_reason is to come
    streams,    \* ids in MuxInner.streams
    currentId,  \* MuxInner.current_id of the client
    backlog,    \* streams ServerActor put into stream_tx
    listening,  \* the ServerMux, the receiving end of stream_tx, exists
    wire,       \* wire[e]: packets on their way to e
    eof,        \* eof[e]: the transport ends after wire[e]
    owned,      \* streams the application holds
    inbox,      \* packets in a stream's channel
    reason,     \* StreamInfo.close_reason
    calls,      \* outcome of each new_stream
    closing,    \* outcome of close() on each stream
    stopped,    \* the application called "close" or "close_with_reason", or "no"
    sent,       \* history: DATA packets written
    got,        \* history: the DATA packets read
    lost,       \* history: the DATA packets refused by the stream's channel
    seen        \* seen[e][id]: {} or, once poll_next returned None, {the reason then}

actorVars == <<actor, events, work, unset, streams, currentId, backlog, listening, stopped>>
appVars   == <<owned, calls, closing, sent, got, lost, seen>>
vars      == <<actorVars, appVars, wire, eof, inbox, reason>>

PerStream(v) == [e \in Sides |-> [id \in Ids |-> v]]

Init ==
    /\ actor = [e \in Sides |-> "running"]
    /\ events = [e \in Sides |-> <<>>] /\ work = [e \in Sides |-> <<>>]
    /\ unset = [e \in Sides |-> {}] /\ streams = [e \in Sides |-> {}]
    /\ currentId = 0 /\ backlog = <<>> /\ listening = TRUE
    /\ stopped = [e \in Sides |-> "no"]
    /\ wire = [e \in Sides |-> <<>>] /\ eof = [e \in Sides |-> FALSE]
    /\ owned = [e \in Sides |-> {}]
    /\ inbox = PerStream(<<>>) /\ reason = PerStream("Unknown")
    /\ calls = [k \in Calls |-> "none"] /\ closing = PerStream("no")
    /\ sent = PerStream(0) /\ got = PerStream(<<>>) /\ lost = PerStream(<<>>)
    /\ seen = PerStream({})
-----------------------------------------------------------------------------
(* The application.                                                        *)

Queue(e, event) == events' = [events EXCEPT ![e] = Append(@, event)]

\* wire after e has written p: a peer that left its loop reads no more.
Sent(e, p) == IF actor[Peer(e)] = "running" THEN [wire EXCEPT ![Peer(e)] = Append(@, p)]
              ELSE wire

\* ClientMux::new_stream, up to the wait for the answer.
NewStream(k) ==
    /\ calls[k] = "none"
    /\ \/ /\ actor["client"] = "running"
          /\ Queue("client", [type |-> "create", arg |-> k])
          /\ calls' = [calls EXCEPT ![k] = "queued"]
       \/ /\ actor["client"] # "running"
          /\ calls' = [calls EXCEPT ![k] = "failed"]
          /\ UNCHANGED events
    /\ UNCHANGED <<actor, work, unset, streams, currentId, backlog, listening, stopped,
                   owned, closing, sent, got, lost, seen, wire, eof, inbox, reason>>

\* close() of a stream half or a MuxStreamCloser, up to the wait for the answer;
\* closing twice is possible.
CloseStream(e, id) ==
    /\ id \in owned[e] /\ closing[e][id] \in {"no", "closed"}
    /\ \/ /\ actor[e] = "running"
          /\ Queue(e, [type |-> "close", arg |-> id])
          /\ closing' = [closing EXCEPT ![e][id] = "waiting"]
       \/ /\ actor[e] # "running"
          /\ closing' = [closing EXCEPT ![e][id] = "failed"]
          /\ UNCHANGED events
    /\ UNCHANGED <<actor, work, unset, streams, currentId, backlog, listening, stopped,
                   owned, calls, sent, got, lost, seen, wire, eof, inbox, reason>>

\* close or close_with_reason of the multiplexor.
CloseMux(e, withReason) ==
    /\ e \in Stoppers /\ actor[e] = "running" /\ stopped[e] = "no"
    /\ stopped' = [stopped EXCEPT ![e] = IF withReason THEN "close_with_reason" ELSE "close"]
    /\ Queue(e, [type |-> "end", arg |-> withReason])
    /\ UNCHANGED <<actor, work, unset, streams, currentId, backlog, listening,
                   appVars, wire, eof, inbox, reason>>

\* ServerMux::wait_for_stream.
WaitForStream ==
    /\ listening /\ backlog # <<>>
    /\ owned' = [owned EXCEPT !["server"] = @ \cup {Head(backlog)}]
    /\ backlog' = Tail(backlog)
    /\ UNCHANGED <<actor, events, work, unset, streams, currentId, listening, stopped,
                   calls, closing, sent, got, lost, seen, wire, eof, inbox, reason>>

\* The application drops its ServerMux; the actor learns of it from the next
\* CONNECT.
DropServerMux ==
    /\ listening
    /\ listening' = FALSE
    /\ UNCHANGED <<actor, events, work, unset, streams, currentId, backlog, stopped,
                   appVars, wire, eof, inbox, reason>>

\* A DATA packet: poll_ready looks at the actor's channel only, and the packet
\* goes to the transport.
Write(e, id) ==
    /\ id \in owned[e] /\ actor[e] = "running"
    /\ sent[e][id] < MaxData
    /\ sent' = [sent EXCEPT ![e][id] = @ + 1]
    /\ wire' = Sent(e, Data(id, sent[e][id] + 1))
    /\ UNCHANGED <<actorVars, owned, calls, closing, got, lost, seen, eof, inbox, reason>>

\* MuxStreamRead::poll_next: None as soon as the actor dropped its end of the
\* channel (get_close_reason then tells why), else the next packet.
Read(e, id) ==
    /\ id \in owned[e] /\ seen[e][id] = {}
    /\ \/ /\ id \notin streams[e]
          /\ seen' = [seen EXCEPT ![e][id] = {reason[e][id]}]
          /\ UNCHANGED <<got, inbox>>
       \/ /\ id \in streams[e] /\ inbox[e][id] # <<>>
          /\ got' = [got EXCEPT ![e][id] = Append(@, Head(inbox[e][id]))]
          /\ inbox' = [inbox EXCEPT ![e][id] = Tail(@)]
          /\ UNCHANGED seen
    /\ UNCHANGED <<actorVars, owned, calls, closing, sent, lost, wire, eof, reason>>
-----------------------------------------------------------------------------
(* The actor: MuxInner::entry.  It takes up an event or a packet when the  *)
(* handler of the previous one is done.                                    *)

Idle(e) == actor[e] = "running" /\ work[e] = <<>> /\ unset[e] = {}

\* The loop is left: the channel's receiver goes away, the events not handled
\* are lost, and the stream map is drained.
Leave(e) ==
    /\ actor' = [actor EXCEPT ![e] = "ending"]
    /\ streams' = [streams EXCEPT ![e] = {}]
    /\ events' = [events EXCEPT ![e] = <<>>]
    /\ closing' = [closing EXCEPT ![e] =
          [id \in Ids |-> IF @[id] = "waiting" THEN "lost" ELSE @[id]]]
    /\ calls' = IF e = "client"
                THEN [k \in Calls |-> IF calls[k] = "queued" THEN "lost" ELSE calls[k]]
                ELSE calls

Pop(e, type) == /\ Idle(e) /\ events[e] # <<>> /\ Head(events[e]).type = type
                /\ events' = [events EXCEPT ![e] = Tail(@)]

\* close_stream drops the channel's sender, then sets the reason; between the
\* two the readers of other threads run.
Unlink(e, p) ==
    /\ streams' = [streams EXCEPT ![e] = @ \ {p.id}]
    /\ unset' = [unset EXCEPT ![e] = {p}]
    /\ UNCHANGED reason

SetReason(e) ==
    /\ \E p \in unset[e] : reason' = [reason EXCEPT ![e][p.id] = p.arg]
    /\ unset' = [unset EXCEPT ![e] = {}]
    /\ UNCHANGED <<actor, events, work, streams, currentId, backlog, listening, stopped,
                   appVars, wire, eof, inbox>>

\* WsEvent::CreateStream: a new id, a map entry, then the CONNECT is sent.
CreateStreamReusesId ==
    /\ Pop("client", "create")
    /\ LET k == Head(events["client"]).arg
           id == IF streams["client"] = {} THEN 1 ELSE currentId + 1
       IN  /\ id <= MaxId
           /\ currentId' = id
           /\ streams' = [streams EXCEPT !["client"] = @ \cup {id}]
           /\ work' = [work EXCEPT !["client"] = <<[pkt |-> Connect(id), for |-> k]>>]
    /\ UNCHANGED <<actor, unset, backlog, listening, stopped, appVars, wire, eof, inbox, reason>>

CreateStream ==
    /\ Pop("client", "create")
    /\ LET k == Head(events["client"]).arg
           id == currentId + 1
       IN  \/ /\ id <= MaxId
              /\ currentId' = id
              /\ streams' = [streams EXCEPT !["client"] = @ \cup {id}]
              /\ work' = [work EXCEPT !["client"] = <<[pkt |-> Connect(id), for |-> k]>>]
              /\ UNCHANGED calls
           \/ /\ id > MaxId      \* MaxStreamCountReached
              /\ calls' = [calls EXCEPT ![k] = "failed"]
              /\ UNCHANGED <<currentId, streams, work>>
    /\ UNCHANGED <<actor, unset, backlog, listening, stopped, owned, closing, sent, got, lost,
                   seen, wire, eof, inbox, reason>>

\* WsEvent::Close: out of the map, channel dropped, reason set, CLOSE sent; or
\* InvalidStreamId.
CloseEventSilent(e) ==
    /\ Pop(e, "close")
    /\ LET id == Head(events[e]).arg
       IN  /\ Unlink(e, Close(id, e))
           /\ closing' = [closing EXCEPT ![e][id] = "closed"]
    /\ UNCHANGED <<actor, work, currentId, backlog, listening, stopped, owned, calls, sent,
                   got, lost, seen, wire, eof, inbox>>

CloseEventUnanswered(e) ==
    /\ Pop(e, "close")
    /\ LET id == Head(events[e]).arg
       IN  \/ /\ id \in streams[e]
              /\ Unlink(e, Close(id, e))
              /\ work' = [work EXCEPT ![e] = <<[pkt |-> Close(id, e), for |-> id]>>]
           \/ /\ id \notin streams[e]
              /\ UNCHANGED <<streams, unset, reason, work>>
    /\ UNCHANGED <<actor, currentId, backlog, listening, stopped, appVars, wire, eof, inbox>>

CloseEvent(e) ==
    /\ Pop(e, "close")
    /\ LET id == Head(events[e]).arg
       IN  \/ /\ id \in streams[e]
              /\ Unlink(e, Close(id, e))
              /\ work' = [work EXCEPT ![e] = <<[pkt |-> Close(id, e), for |-> id]>>]
              /\ UNCHANGED closing
           \/ /\ id \notin streams[e]
              /\ closing' = [closing EXCEPT ![e][id] = "invalid"]
              /\ UNCHANGED <<streams, unset, reason, work>>
    /\ UNCHANGED <<actor, currentId, backlog, listening, stopped, owned, calls, sent, got,
                   lost, seen, wire, eof, inbox>>

\* WsEvent::EndFut: leave, after a CLOSE of stream 0 if there is a reason.
EndFut(e) ==
    /\ Idle(e) /\ events[e] # <<>> /\ Head(events[e]).type = "end"
    /\ \/ /\ Head(events[e]).arg
          /\ events' = [events EXCEPT ![e] = Tail(@)]
          /\ work' = [work EXCEPT ![e] = <<[pkt |-> Close(0, e), for |-> 0]>>]
          /\ UNCHANGED <<actor, streams, closing, calls>>
       \/ /\ ~Head(events[e]).arg
          /\ Leave(e)
          /\ UNCHANGED work
    /\ UNCHANGED <<unset, currentId, backlog, listening, stopped, owned, sent, got, lost, seen,
                   wire, eof, inbox, reason>>

\* The handler's packet is written and the caller gets its answer; the write
\* may fail once the peer has closed the transport.  A CONNECT that was not
\* written leaves its stream in the map.
SendWork(e) ==
    /\ actor[e] = "running" /\ work[e] # <<>> /\ unset[e] = {}
    /\ work' = [work EXCEPT ![e] = <<>>]
    /\ LET pkt == work[e][1].pkt
           Answer(written) ==
             \/ /\ pkt.type = "connect"
                /\ calls' = [calls EXCEPT ![work[e][1].for] = IF written THEN "opened" ELSE "failed"]
                /\ owned' = IF written THEN [owned EXCEPT ![e] = @ \cup {pkt.id}] ELSE owned
                /\ UNCHANGED <<actor, streams, events, closing>>
             \/ /\ pkt.type = "close" /\ pkt.id # 0
                /\ closing' = [closing EXCEPT ![e][pkt.id] = IF written THEN "closed" ELSE "failed"]
                /\ UNCHANGED <<actor, streams, events, calls, owned>>
             \/ /\ pkt.type = "close" /\ pkt.id = 0
                /\ Leave(e)
                /\ UNCHANGED owned
       IN  \/ wire' = Sent(e, pkt) /\ Answer(TRUE)
           \/ eof[e] /\ Answer(FALSE) /\ UNCHANGED wire
    /\ UNCHANGED <<unset, currentId, backlog, listening, stopped, sent, got, lost, seen, eof,
                   inbox, reason>>

Receive(e, type) == /\ Idle(e) /\ wire[e] # <<>> /\ Head(wire[e]).type = type
                    /\ wire' = [wire EXCEPT ![e] = Tail(@)]

\* handle_packet, Connect: a stream for the application, unless nobody listens,
\* which ends the actor.
RecvConnect ==
    /\ Receive("server", "connect")
    /\ LET id == Head(wire["server"]).id
       IN  \/ /\ listening
              /\ streams' = [streams EXCEPT !["server"] = @ \cup {id}]
              /\ backlog' = Append(backlog, id)
              /\ UNCHANGED <<actor, events, closing, calls>>
           \/ /\ ~listening
              /\ Leave("server")
              /\ UNCHANGED backlog
    /\ UNCHANGED <<work, unset, currentId, listening, stopped, owned, sent, got, lost, seen,
                   eof, inbox, reason>>

\* handle_packet, Data: into the stream's channel, or nowhere.  The server's
\* channel of a stream with flow control is bounded, and what does not fit is
\* thrown away; the channels of the client are not bounded.
RecvDataTwice(e) ==
    /\ Receive(e, "data")
    /\ LET p == Head(wire[e])
           full == e = "server" /\ Len(inbox[e][p.id]) >= Capacity
       IN  \/ /\ p.id \in streams[e] /\ ~full
              /\ inbox' = [inbox EXCEPT ![e][p.id] = @ \o <<p.arg, p.arg>>]
              /\ UNCHANGED lost
           \/ /\ p.id \in streams[e] /\ full
              /\ lost' = [lost EXCEPT ![e][p.id] = Append(@, p.arg)]
              /\ UNCHANGED inbox
           \/ p.id \notin streams[e] /\ UNCHANGED <<inbox, lost>>
    /\ UNCHANGED <<actorVars, owned, calls, closing, sent, got, seen, eof, reason>>

RecvDataSwapped(e) ==
    /\ Receive(e, "data")
    /\ LET p == Head(wire[e])
           full == e = "server" /\ Len(inbox[e][p.id]) >= Capacity
       IN  \/ /\ p.id \in streams[e] /\ ~full
              /\ inbox' = [inbox EXCEPT ![e][p.id] = <<p.arg>> \o @]
              /\ UNCHANGED lost
           \/ /\ p.id \in streams[e] /\ full
              /\ lost' = [lost EXCEPT ![e][p.id] = Append(@, p.arg)]
              /\ UNCHANGED inbox
           \/ p.id \notin streams[e] /\ UNCHANGED <<inbox, lost>>
    /\ UNCHANGED <<actorVars, owned, calls, closing, sent, got, seen, eof, reason>>

RecvData(e) ==
    /\ Receive(e, "data")
    /\ LET p == Head(wire[e])
           full == e = "server" /\ Len(inbox[e][p.id]) >= Capacity
       IN  \/ /\ p.id \in streams[e] /\ ~full
              /\ inbox' = [inbox EXCEPT ![e][p.id] = Append(@, p.arg)]
              /\ UNCHANGED lost
           \/ /\ p.id \in streams[e] /\ full
              /\ lost' = [lost EXCEPT ![e][p.id] = Append(@, p.arg)]
              /\ UNCHANGED inbox
           \/ p.id \notin streams[e] /\ UNCHANGED <<inbox, lost>>
    /\ UNCHANGED <<actorVars, owned, calls, closing, sent, got, seen, eof, reason>>

\* handle_close_packet: stream 0 ends the actor, an unknown id is ignored.
RecvClose(e) ==
    /\ Receive(e, "close")
    /\ LET p == Head(wire[e])
       IN  \/ /\ p.id = 0
              /\ Leave(e)
              /\ UNCHANGED <<unset, reason>>
           \/ /\ p.id \in streams[e]
              /\ Unlink(e, p)
              /\ UNCHANGED <<actor, events, closing, calls>>
           \/ /\ p.id # 0 /\ p.id \notin streams[e]
              /\ UNCHANGED <<actor, events, streams, closing, calls, unset, reason>>
    /\ UNCHANGED <<work, currentId, backlog, listening, stopped, owned, sent, got, lost, seen,
                   eof, inbox>>

\* The transport's read half ends.
RecvEof(e) ==
    /\ Idle(e) /\ wire[e] = <<>> /\ eof[e]
    /\ Leave(e)
    /\ UNCHANGED <<work, unset, currentId, backlog, listening, stopped, owned, sent, got, lost,
                   seen, wire, eof, inbox, reason>>

\* into_future closes the transport; its read half went with the loop.
CloseTransportForgotten(e) ==
    /\ actor[e] = "ending"
    /\ actor' = [actor EXCEPT ![e] = "ended"]
    /\ UNCHANGED <<events, work, unset, streams, currentId, backlog, listening, stopped,
                   appVars, wire, eof, inbox, reason>>

CloseTransport(e) ==
    /\ actor[e] = "ending"
    /\ actor' = [actor EXCEPT ![e] = "ended"]
    /\ eof' = [eof EXCEPT ![Peer(e)] = TRUE]
    /\ wire' = [wire EXCEPT ![e] = <<>>]
    /\ UNCHANGED <<events, work, unset, streams, currentId, backlog, listening, stopped,
                   appVars, inbox, reason>>
-----------------------------------------------------------------------------
HandleEvent(e)  == (e = "client" /\ CreateStream) \/ CloseEvent(e) \/ EndFut(e)
HandlePacket(e) == \/ (e = "server" /\ RecvConnect) \/ RecvData(e) \/ RecvClose(e)
                   \/ RecvEof(e)
RunOn(e)        == SetReason(e) \/ SendWork(e) \/ CloseTransport(e)

Next ==
    \/ \E k \in Calls : NewStream(k)
    \/ WaitForStream \/ DropServerMux
    \/ \E e \in Sides : \/ \E withReason \in BOOLEAN : CloseMux(e, withReason)
                        \/ HandleEvent(e) \/ HandlePacket(e) \/ RunOn(e)
    \/ \E e \in Sides, id \in Ids : \/ CloseStream(e, id) \/ Write(e, id) \/ Read(e, id)

Spec == Init /\ [][Next]_vars

(***************************************************************************)
(* The actor's task runs, and unfair_select polls its two sources in turn, *)
(* so that neither packets nor events can keep the other waiting for ever. *)
(* tx.close() of the iterator transport, the browser's, stores the future  *)
(* that would close the socket and never polls it (ws/unfold.rs), so that  *)
(* a side in Lingering owes no CloseTransport.  Nor do the applications    *)
(* owe anything.                                                           *)
(***************************************************************************)
Fairness ==
    \A e \in Sides : /\ SF_vars(HandleEvent(e)) /\ SF_vars(HandlePacket(e))
                     /\ WF_vars(SetReason(e) \/ SendWork(e))
                     /\ WF_vars(e \notin Lingering /\ CloseTransport(e))

FairSpec == Spec /\ Fairness
-----------------------------------------------------------------------------
\* What poll_next returned and is going to return, and the DATA packets that
\* came off the wire.
Given(e, id)   == got[e][id] \o inbox[e][id]
Arrived(e, id) == Len(Given(e, id)) + Len(lost[e][id])

TypeOK ==
    /\ actor \in [Sides -> {"running", "ending", "ended"}]
    /\ \A e \in Sides : Len(work[e]) <= 1
    /\ streams \in [Sides -> SUBSET Ids] /\ owned \in [Sides -> SUBSET Ids]
    /\ currentId \in 0..MaxId
    /\ reason \in [Sides -> [Ids -> Reasons]]
    /\ calls \in [Calls -> {"none", "queued", "opened", "failed", "lost"}]
    /\ closing \in [Sides -> [Ids -> {"no", "waiting", "closed", "invalid", "failed", "lost"}]]
    /\ \A e \in Sides, id \in Ids : Arrived(e, id) <= sent[Peer(e)][id]

\* Packets e has handed to the transport, or is about to, in their order.
Outgoing(e) == wire[Peer(e)] \o (IF work[e] = <<>> THEN <<>> ELSE <<work[e][1].pkt>>)
Underway(e, type, id) == \E i \in 1..Len(Outgoing(e)) :
                            Outgoing(e)[i].type = type /\ Outgoing(e)[i].id = id

\* The two stream maps agree, up to what is under way: as long as both actors
\* run, a stream that only one side has is being opened or closed by a packet
\* the other side is going to handle.  No close is forgotten, however closes
\* from both sides, data and drops cross.
NoOrphan ==
    (\A e \in Sides : actor[e] = "running") =>
        /\ \A id \in streams["server"] \ streams["client"] : Underway("client", "close", id)
        /\ \A id \in streams["client"] \ streams["server"] :
              Underway("client", "connect", id) \/ Underway("server", "close", id)

\* A CONNECT is the first packet of its stream and names an id the server's
\* map does not hold: add_stream never replaces a live stream, and no DATA
\* overtakes the CONNECT although the two are written by different tasks.
FreshConnect ==
    \A i \in 1..Len(Outgoing("client")) :
        LET p == Outgoing("client")[i]
        IN  p.type = "connect" =>
                /\ p.id \notin streams["server"]
                /\ \A j \in 1..i-1 : Outgoing("client")[j].id # p.id

\* The DATA of stream id in q are numbered first + 1 .. last, in this order.
Ordered(q, id, first, last) ==
    LET datas == {i \in 1..Len(q) : q[i].type = "data" /\ q[i].id = id}
    IN  /\ first <= last
        /\ \A i \in datas : q[i].arg \in first+1..last
        /\ \A n \in first+1..last : \E i \in datas : q[i].arg = n
        /\ \A i, j \in datas : i < j => q[i].arg < q[j].arg

\* The numbers 1 .. n, each once, in two lists, the first of them in order.
Account(given, refused) ==
    /\ \A i, j \in 1..Len(given) : i < j => given[i] < given[j]
    /\ \A n \in 1..Len(given) + Len(refused) :
          (\E i \in 1..Len(given) : given[i] = n) \/ (\E i \in 1..Len(refused) : refused[i] = n)

\* While a stream is open, what the peer wrote to it is under way in order, or
\* was given to the application in order and once, or was refused by a full
\* channel: the client's are never full, and the server's only past Capacity.
InOrder ==
    \A e \in Sides : \A id \in streams[e] :
        /\ Account(Given(e, id), lost[e][id])
        /\ Ordered(wire[e], id, Arrived(e, id), sent[Peer(e)][id])
        /\ lost[e][id] # <<>> => e = "server" /\ lost[e][id][1] > Capacity

\* The close reason an application finds when its read half ends is final.  The
\* code does not keep this: on two threads the read half can end between the
\* drop of the sender and set_reason (README).
ReasonWithEnd ==
    \A e \in Sides, id \in Ids : seen[e][id] \subseteq {reason[e][id]}

\* A CLOSE from the peer does not cut off data that arrived before it.  The code
\* does not keep this: poll_next looks at the sender first (README).
NoTruncation ==
    \A e \in Sides, id \in Ids :
        seen[e][id] = {Peer(e)} => inbox[e][id] = <<>>

\* After close() on a stream has succeeded nothing more is written to it.
\* The code does not keep this: poll_ready asks for the actor only (README).
NoWriteAfterClose ==
    [][\A e \in Sides, id \in Ids :
          closing[e][id] = "closed" => sent'[e][id] = sent[e][id]]_vars

\* get_close_reason of the write half, the closer and the async writer.
WriteHalfReason(e, id) == IF actor[e] = "running" THEN {} ELSE {reason[e][id]}

\* Once close() on a stream has succeeded, the write half tells the reason.
\* The code does not keep this: the closer waits for the actor's end (README).
WriteHalfKnowsReason ==
    \A e \in Sides, id \in Ids :
        closing[e][id] = "closed" => WriteHalfReason(e, id) = {reason[e][id]}

\* Every new_stream and every close() is answered, unless the actor it was
\* queued for ends first.
EveryCallAnswered ==
    /\ \A k \in Calls : calls[k] = "queued" ~> calls[k] # "queued"
    /\ \A e \in Sides, id \in Ids : closing[e][id] = "waiting" ~> closing[e][id] # "waiting"

\* A stream closed on one side is gone on the other in the end, and an actor
\* that ends takes its peer with it.  The exception is close() without a reason
\* over a transport that never completes its close: that peer is not told.
CloseReachesPeer ==
    /\ \A e \in Sides, id \in Ids : closing[e][id] = "closed" ~> id \notin streams[Peer(e)]
    /\ \A e \in Sides : actor[e] # "running" ~>
          \/ actor[Peer(e)] = "ended"
          \/ actor[Peer(e)] = "ending" /\ Peer(e) \in Lingering
          \/ actor[e] = "ending" /\ e \in Lingering /\ stopped[e] = "close"
=============================================================================
