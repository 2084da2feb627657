---------------------------- MODULE FlowControl ----------------------------
(***************************************************************************)
(* Credit-based flow control of one stream, from a client that tracks its  *)
(* credit (FlowControl::EnabledTrackAmount) to a server that advertises    *)
(* buffer space (EnabledSendMessages): StreamInfo in wisp/src/mux/inner.rs,*)
(* the stream halves in wisp/src/stream, and the packet handlers of the    *)
(* two actors.                                                             *)
(*                                                                         *)
(* Four tasks: the client's writer (the application's calls on             *)
(* MuxStreamWrite or MuxStreamAsyncWrite) and actor, the server's actor    *)
(* and reader (calls of MuxStreamRead::poll_next).  DATA packets are       *)
(* counted, not told apart: every queue on the way is FIFO.  A StreamInfo  *)
(* counter is updated by a load and a separate store.                      *)
(***************************************************************************)
EXTENDS Integers, Sequences

CONSTANTS
    BufferSize,    \* buffer_size, the server's and (by the handshake) the client's
    Writers,       \* how the application may write: "send", "feed", "async_write"
    Parallel,      \* the sides whose tasks run in parallel, not one poll at a time
    OtherTraffic,  \* somebody else flushes the server's transport now and then
    MaxAccepted    \* bound: packets the application hands over

ASSUME FlowConstants ==
    /\ BufferSize \in Nat \ {0}
    /\ Writers \subseteq {"send", "feed", "async_write"}
    /\ Parallel \subseteq {"client", "server"} /\ OtherTraffic \in BOOLEAN
    /\ MaxAccepted \in Nat

\* StreamInfo::new: "90%" of the buffer, rounded down.
TargetFlowControl == (BufferSize * 90) \div 100

SaturatingDec(n) == IF n = 0 THEN 0 ELSE n - 1

VARIABLES
    credit,     \* client: StreamInfo.flow_control
    sleeping,   \* client: StreamInfo.flow_waker is Waiter::Sleeping
    writerWoken,\* client: the writer's task was woken and not polled since
    writer,     \* client: where the writer's code stands
    writerThen, \* client: "ready" inside poll_ready, "idle" inside poll_flush
    writerReg,  \* client: value loaded by the writer's flow_sub
    chunk,      \* client: MuxStreamWrite.chunk, 0 or 1
    clientActor,\* client: where the actor stands in handle_continue_packet
    up,         \* DATA packets written to the transport and not handled yet
    space,      \* server: StreamInfo.flow_control
    queue,      \* server: packets in the stream's bounded channel
    serverActor,\* server: where the actor stands in handle_data_packet
    actorReg,   \* server: value loaded by the actor's flow_sub
    reader,     \* server: where the reader stands in poll_next
    readerReg,  \* server: value loaded by the reader's flow_add
    readCnt,    \* server: MuxStreamRead.read_cnt
    unflushed,  \* CONTINUEs given to the transport by start_send, not flushed
    down,       \* CONTINUEs on the wire; history: the packets each one counted
    accepted,   \* history: packets the application handed over
    delivered,  \* history: packets poll_next returned
    dropped,    \* history: packets try_send refused
    causes      \* history: what may have made the client overrun the server

clientVars == <<credit, sleeping, writerWoken, writer, writerThen, writerReg, chunk, clientActor, accepted>>
serverVars == <<space, queue, serverActor, actorReg, reader, readerReg, readCnt,
                delivered, dropped>>
linkVars   == <<up, unflushed, down>>
vars       == <<clientVars, serverVars, linkVars, causes>>

Init ==
    /\ credit = BufferSize /\ space = BufferSize
    /\ sleeping = FALSE /\ writerWoken = FALSE
    /\ writer = "idle" /\ writerThen = "idle" /\ clientActor = "idle"
    /\ serverActor = "idle" /\ reader = "idle"
    /\ writerReg = 0 /\ actorReg = 0 /\ readerReg = 0
    /\ chunk = 0 /\ queue = 0 /\ readCnt = 0
    /\ up = 0 /\ unflushed = <<>> /\ down = <<>>
    /\ accepted = 0 /\ delivered = 0 /\ dropped = 0 /\ causes = {}

(***************************************************************************)
(* A task that is inside a poll keeps its thread; on one thread no other   *)
(* task of that side runs meanwhile.                                       *)
(***************************************************************************)
WriterMidPoll == writer \in {"register", "load", "store"}
WriterMayRun      == "client" \in Parallel \/ clientActor = "idle"
ClientActorMayRun == "client" \in Parallel \/ ~WriterMidPoll
ServerActorMayRun == "server" \in Parallel \/ reader # "add"
ReaderMayRun      == "server" \in Parallel \/ serverActor = "idle"

\* Packets the client has written, and packets the server has taken off the
\* wire; the difference is under way.
Written == accepted - chunk
Taken   == delivered + dropped + queue + (IF reader = "idle" THEN 0 ELSE 1)

(***************************************************************************)
(* History, beside every step: the three ways in which the client can come *)
(* to send more than the server has room for.                              *)
(***************************************************************************)
\* flow_set takes a CONTINUE that does not count what is under way.
Crossed == clientActor = "idle" /\ clientActor' = "wake" /\ Head(down).taken < Written

\* flow_add and the flow_dec after try_send update the counter at once.
Overlapped == reader' = "add" /\ serverActor' # "idle"

\* A packet goes out at no credit (poll_flush), or without using it (poll_write).
Unpaid == up' > up /\ (credit = 0 \/ chunk = 0)

CauseNames == {"crossed", "overlapped", "unpaid"}

Blame == causes' = causes \cup (IF Crossed THEN {"crossed"} ELSE {})
                         \cup (IF Overlapped THEN {"overlapped"} ELSE {})
                         \cup (IF Unpaid THEN {"unpaid"} ELSE {})
-----------------------------------------------------------------------------
(* The client's writer.                                                    *)

\* maybe_write: the chunk goes to the transport, flow_dec is still to come.
WriteChunk(then) ==
    /\ chunk' = 0
    /\ up' = up + 1
    /\ writer' = "load"
    /\ writerThen' = then

\* poll_ready.  With no credit it goes on to register; with credit it writes
\* the chunk an earlier feed left, or is ready at once.  Waiting for the
\* LockedSink on the way starts poll_ready afresh, so it shows as no step.
PollReady ==
    /\ writer \in {"idle", "parked"} /\ WriterMayRun
    /\ Writers \cap {"send", "feed"} # {} /\ accepted < MaxAccepted
    /\ "feed" \in Writers \/ chunk = 0
    /\ writerWoken' = FALSE
    /\ \/ credit = 0 /\ writer' = "register" /\ UNCHANGED <<writerThen, chunk, up>>
       \/ credit > 0 /\ chunk = 1 /\ WriteChunk("ready")
       \/ credit > 0 /\ chunk = 0 /\ writer' = "ready" /\ UNCHANGED <<writerThen, chunk, up>>
    /\ UNCHANGED <<credit, sleeping, writerReg, clientActor, accepted, serverVars, unflushed,
                   down>>

\* flow_register, then Poll::Pending.
FlowRegister ==
    /\ writer = "register"
    /\ sleeping' = TRUE
    /\ writer' = "parked"
    /\ UNCHANGED <<credit, writerWoken, writerThen, writerReg, chunk, clientActor, accepted,
                   serverVars, linkVars>>

\* Sink::start_send, allowed by a ready poll_ready.
StartSend ==
    /\ writer = "ready" /\ WriterMayRun
    /\ chunk' = 1
    /\ accepted' = accepted + 1
    /\ writer' = "idle"
    /\ UNCHANGED <<credit, sleeping, writerWoken, writerThen, writerReg, clientActor, serverVars,
                   linkVars>>

\* Sink::poll_flush writes the chunk whatever the credit.
PollFlush ==
    /\ writer = "idle" /\ WriterMayRun
    /\ chunk = 1
    /\ WriteChunk("idle")
    /\ UNCHANGED <<credit, sleeping, writerWoken, writerReg, clientActor, accepted,
                   serverVars, unflushed, down>>

\* flow_dec on the client: load ...
ClientDecLoad ==
    /\ writer = "load"
    /\ writerReg' = credit
    /\ writer' = "store"
    /\ UNCHANGED <<credit, sleeping, writerWoken, writerThen, chunk, clientActor, accepted,
                   serverVars, linkVars>>

\* ... and store.
ClientDecStoreForgotten ==
    /\ writer = "store"
    /\ writer' = writerThen
    /\ UNCHANGED <<credit, sleeping, writerWoken, writerThen, writerReg, chunk, clientActor,
                   accepted, serverVars, linkVars>>

ClientDecStore ==
    /\ writer = "store"
    /\ credit' = SaturatingDec(writerReg)
    /\ writer' = writerThen
    /\ UNCHANGED <<sleeping, writerWoken, writerThen, writerReg, chunk, clientActor,
                   accepted, serverVars, linkVars>>

\* MuxStreamAsyncWrite::poll_write: a DATA packet, no look at the credit.
PollWrite ==
    /\ writer = "idle" /\ WriterMayRun /\ chunk = 0
    /\ "async_write" \in Writers /\ accepted < MaxAccepted
    /\ up' = up + 1
    /\ accepted' = accepted + 1
    /\ UNCHANGED <<credit, sleeping, writerWoken, writer, writerThen, writerReg, chunk, clientActor,
                   serverVars, unflushed, down>>

Writer == /\ \/ PollReady \/ FlowRegister \/ StartSend \/ PollFlush
             \/ ClientDecLoad \/ ClientDecStore \/ PollWrite
          /\ Blame
-----------------------------------------------------------------------------
(* The client's actor: handle_continue_packet.                             *)

\* flow_set ...
FlowSet ==
    /\ clientActor = "idle" /\ ClientActorMayRun
    /\ down # <<>>
    /\ credit' = Head(down).room
    /\ down' = Tail(down)
    /\ clientActor' = "wake"
    /\ UNCHANGED <<sleeping, writerWoken, writer, writerThen, writerReg, chunk, accepted,
                   serverVars, up, unflushed>>

\* ... and flow_wake, which calls the waker of a sleeping waiter.
FlowWakeLeftOut ==
    /\ clientActor = "wake"
    /\ clientActor' = "idle"
    /\ UNCHANGED <<credit, sleeping, writerWoken, writer, writerThen, writerReg, chunk, accepted,
                   serverVars, linkVars>>

FlowWake ==
    /\ clientActor = "wake"
    /\ sleeping' = FALSE
    /\ writerWoken' = (writerWoken \/ sleeping)
    /\ clientActor' = "idle"
    /\ UNCHANGED <<credit, writer, writerThen, writerReg, chunk, accepted, serverVars, linkVars>>

ClientActor == (FlowSet \/ FlowWake) /\ Blame
-----------------------------------------------------------------------------
(* The server's actor: handle_data_packet.                                 *)

\* try_send puts the packet into the stream's channel or, when it is full,
\* throws it away.
TrySend ==
    /\ serverActor = "idle" /\ ServerActorMayRun
    /\ up > 0
    /\ up' = up - 1
    /\ \/ /\ queue < BufferSize
          /\ queue' = queue + 1
          /\ serverActor' = "load"
          /\ UNCHANGED dropped
       \/ /\ queue = BufferSize
          /\ dropped' = dropped + 1
          /\ UNCHANGED <<queue, serverActor>>
    /\ UNCHANGED <<space, actorReg, reader, readerReg, readCnt, delivered, clientVars,
                   unflushed, down>>

\* flow_dec on the server: load ...
ServerDecLoad ==
    /\ serverActor = "load"
    /\ actorReg' = space
    /\ serverActor' = "store"
    /\ UNCHANGED <<space, queue, reader, readerReg, readCnt, delivered, dropped,
                   clientVars, linkVars>>

\* ... and store.
ServerDecStoreForgotten ==
    /\ serverActor = "store"
    /\ serverActor' = "idle"
    /\ UNCHANGED <<space, queue, actorReg, reader, readerReg, readCnt, delivered, dropped,
                   clientVars, linkVars>>

ServerDecStore ==
    /\ serverActor = "store"
    /\ space' = SaturatingDec(actorReg)
    /\ serverActor' = "idle"
    /\ UNCHANGED <<queue, actorReg, reader, readerReg, readCnt, delivered, dropped,
                   clientVars, linkVars>>

ServerActor == (TrySend \/ ServerDecLoad \/ ServerDecStore) /\ Blame
-----------------------------------------------------------------------------
(* The server's reader: MuxStreamRead::poll_next.                          *)

\* Take a packet from the channel and count it; past the target the packet is
\* kept back until the CONTINUE is written, which waits for the LockedSink.
Receive ==
    /\ reader = "idle" /\ ReaderMayRun
    /\ queue > 0
    /\ queue' = queue - 1
    /\ readCnt' = readCnt + 1
    /\ \/ /\ readCnt' > TargetFlowControl
          /\ reader' = "lock"
          /\ UNCHANGED delivered
       \/ /\ readCnt' <= TargetFlowControl
          /\ delivered' = delivered + 1
          /\ UNCHANGED reader
    /\ UNCHANGED <<space, serverActor, actorReg, readerReg, dropped, clientVars, linkVars>>

\* With the LockedSink locked and ready: flow_add loads ...
AddLoad ==
    /\ reader = "lock" /\ ReaderMayRun
    /\ readerReg' = space
    /\ reader' = "add"
    /\ UNCHANGED <<space, queue, serverActor, actorReg, readCnt, delivered, dropped,
                   clientVars, linkVars>>

Grant(n) == [room |-> n, taken |-> Taken]

\* ... and stores; the CONTINUE carries the sum and is given to the transport
\* but not flushed; the packet kept back is returned.
AddStoreForgetsReset ==
    /\ reader = "add"
    /\ space' = readerReg + readCnt
    /\ unflushed' = Append(unflushed, Grant(readerReg + readCnt))
    /\ delivered' = delivered + 1
    /\ reader' = "idle"
    /\ UNCHANGED <<queue, serverActor, actorReg, readerReg, readCnt, dropped, clientVars,
                   up, down>>

AddStoreAddsTarget ==
    /\ reader = "add"
    /\ space' = readerReg + TargetFlowControl
    /\ unflushed' = Append(unflushed, Grant(readerReg + TargetFlowControl))
    /\ readCnt' = 0
    /\ delivered' = delivered + 1
    /\ reader' = "idle"
    /\ UNCHANGED <<queue, serverActor, actorReg, readerReg, dropped, clientVars, up, down>>

AddStore ==
    /\ reader = "add"
    /\ space' = readerReg + readCnt
    /\ unflushed' = Append(unflushed, Grant(readerReg + readCnt))
    /\ readCnt' = 0
    /\ delivered' = delivered + 1
    /\ reader' = "idle"
    /\ UNCHANGED <<queue, serverActor, actorReg, readerReg, dropped, clientVars, up, down>>

Reader == (Receive \/ AddLoad \/ AddStore) /\ Blame
-----------------------------------------------------------------------------
\* Another stream, or the actor, flushes the transport.
Flush ==
    /\ OtherTraffic
    /\ unflushed # <<>>
    /\ down' = down \o unflushed
    /\ unflushed' = <<>>
    /\ UNCHANGED <<clientVars, serverVars, up, causes>>

\* The application has handed everything over and nothing of it is left.
Finished ==
    /\ delivered + dropped = MaxAccepted
    /\ UNCHANGED vars

Next == Writer \/ ClientActor \/ ServerActor \/ Reader \/ Flush \/ Finished

Spec == Init /\ [][Next]_vars

(***************************************************************************)
(* The application keeps writing on one side and reading on the other, the *)
(* actors run, the executor polls a parked writer once it is woken, and    *)
(* other traffic, if there is any, flushes in the end.  Fairness is strong *)
(* because tasks share a thread: a task is ready again and again, between  *)
(* the polls of others, and the executor's queue gets to it.               *)
(***************************************************************************)
Fairness ==
    /\ SF_vars((writer # "parked" \/ writerWoken) /\ Writer)
    /\ SF_vars(ClientActor) /\ SF_vars(ServerActor) /\ SF_vars(Reader)
    /\ WF_vars(Flush)

FairSpec == Spec /\ Fairness
-----------------------------------------------------------------------------
\* A CONTINUE: the room it advertises and, as history, the packets the server
\* had taken when the room was counted.
Grants == [room : Nat, taken : Nat]

TypeOK ==
    /\ credit \in Nat /\ space \in Nat
    /\ sleeping \in BOOLEAN /\ writerWoken \in BOOLEAN
    /\ writer \in {"idle", "register", "parked", "ready", "load", "store"}
    /\ writerThen \in {"idle", "ready"}
    /\ clientActor \in {"idle", "wake"}
    /\ serverActor \in {"idle", "load", "store"}
    /\ reader \in {"idle", "lock", "add"}
    /\ writerReg \in Nat /\ actorReg \in Nat /\ readerReg \in Nat
    /\ chunk \in {0, 1} /\ queue \in 0..BufferSize /\ readCnt \in 0..TargetFlowControl + 1
    /\ up \in Nat /\ unflushed \in Seq(Grants) /\ down \in Seq(Grants)
    /\ accepted \in 0..MaxAccepted /\ delivered \in Nat /\ dropped \in Nat
    /\ causes \subseteq CauseNames

\* What handing packets to the library promises to whoever reads the comment
\* on FlowControl::EnabledTrackAmount, "track sent amount and wait": none is
\* thrown away by try_send.  The code does not keep this (README).
NoDrop == dropped = 0

\* If try_send throws data away, then for one of three reasons: a CONTINUE was
\* taken that did not count packets under way, which takes a target more than
\* one below the buffer; flow_add and flow_dec overlapped on two threads; or
\* the application writes by feed or through the AsyncWrite adapter, which send
\* without credit.  This holds for every buffer, writer and threading.
LossExplained ==
    dropped > 0 => \/ "crossed" \in causes /\ TargetFlowControl < BufferSize - 1
                   \/ "overlapped" \in causes /\ "server" \in Parallel
                   \/ "unpaid" \in causes /\ Writers # {"send"}

\* What the next CONTINUE would advertise, space + readCnt, comes from a counter
\* that actor and reader update.  It is the room in the stream's channel, until
\* the client overruns the server or the two updates overlap.
AdvertisedSpace ==
    serverActor = "idle" /\ causes = {} => space + readCnt = BufferSize - queue

\* Whatever was dropped and whichever update of the server's counter was lost:
\* a client without credit, all of whose packets were taken and read, has a
\* CONTINUE on its way.  Room is never withheld until nobody asks for it.
CreditReturns ==
    credit = 0 /\ writer \notin {"load", "store"} /\ up = 0 /\ queue = 0 /\ reader = "idle" =>
        unflushed # <<>> \/ down # <<>>

\* A writer asleep for lack of credit has none, or its wake-up is on the way.
NoSleepWithCredit ==
    writer = "parked" /\ credit > 0 => writerWoken \/ clientActor = "wake"

=============================================================================
