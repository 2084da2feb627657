--------------------------- MODULE StreamProvider ---------------------------
(***************************************************************************)
(* The browser client's connection to its Wisp server: the wrapper around *)
(* JavaScript's WebSocket (client/src/ws_wrapper.rs), the iterator         *)
(* transport above it (wisp/src/ws/unfold.rs), and the stream provider,    *)
(* which makes, shares and replaces the multiplexor                        *)
(* (client/src/stream_provider.rs).  Everything runs on JavaScript's one   *)
(* thread: an action is what happens between two awaits, or one callback   *)
(* of the browser.                                                         *)
(***************************************************************************)
EXTENDS Naturals, Sequences, FiniteSets

CONSTANTS
    Calls,         \* concurrent uses of the client
    Mixes,         \* what the calls may be together, as functions to their kinds
    MaxSockets,    \* bound: transports ever made; later attempts are refused
    MaxQueue,      \* bound: messages the wrapper's channel holds unread
    Transports,    \* how the client may be made: "websocket" (a URL), "function"
    None

ASSUME ProviderAssumption ==
    /\ Mixes \subseteq [Calls -> {"fetch", "websocket", "replace"}]
    /\ MaxSockets \in Nat
    /\ MaxQueue \in Nat
    /\ Transports \subseteq {"websocket", "function"}
    /\ None \notin Calls \cup (1 .. MaxSockets)

Sockets == 1 .. MaxSockets

VARIABLES
    transport,     \* how this client was made
    kind,          \* what each call is: "fetch", "websocket" or "replace"
    udpRequired,   \* options.udp_extension_required
    sock,          \* the transports
    reader,        \* the read half of each transport, as its iterator state
    mux,           \* the multiplexor task of each transport
    current,       \* what current_client holds: None or a transport
    holder,        \* the call that holds the mutex of current_client, or None
    stage,         \* where each call is
    via            \* the transport a call makes or asks for a stream, or None

pvars == <<transport, kind, udpRequired, sock, reader, mux, current, holder, stage, via>>

NoSocket == [ready |-> "none", closed |-> FALSE, q |-> <<>>, woke |-> {}]

\* Nobody looks any more at what the socket's callbacks would set; the JavaScript object
\* itself may well be open still.
LeftBehind == [NoSocket EXCEPT !.ready = "left behind"]

ProviderInit ==
    /\ transport \in Transports
    /\ kind \in Mixes
    /\ udpRequired \in BOOLEAN
    /\ sock = [s \in Sockets |-> NoSocket]
    /\ reader = [s \in Sockets |-> "none"]
    /\ mux = [s \in Sockets |-> "none"]
    /\ current = None
    /\ holder = None
    /\ stage = [c \in Calls |-> "idle"]
    /\ via = [c \in Calls |-> None]

-----------------------------------------------------------------------------
(* The wrapper: callbacks of the browser.                                  *)

\* close_event.notify: wakes the reader if it is listening.
NotifyClose(s) ==
    reader' = [reader EXCEPT ![s] = IF @ = "listening" THEN "notified" ELSE @]

\* onopen: notifies until somebody listened (wait_for_open always does).
OnOpen(s) ==
    /\ transport = "websocket" /\ sock[s].ready = "connecting"
    /\ sock' = [sock EXCEPT ![s].ready = "open", ![s].woke = @ \cup {"open"}]
    /\ UNCHANGED <<transport, kind, udpRequired, reader, mux, current, holder, stage, via>>

OnMessage(s) ==
    /\ sock[s].ready = "open" /\ Len(sock[s].q) < MaxQueue
    /\ sock' = [sock EXCEPT ![s].q = Append(@, "message")]
    /\ UNCHANGED <<transport, kind, udpRequired, reader, mux, current, holder, stage, via>>

\* onerror: the error goes into the channel, then closed and both events.
OnError(s) ==
    /\ transport = "websocket" /\ sock[s].ready \in {"connecting", "open"}
    /\ sock' = [sock EXCEPT ![s].ready = "closing", ![s].closed = TRUE,
                   ![s].q = Append(@, "error"), ![s].woke = @ \cup {"error"}]
    /\ NotifyClose(s)
    /\ UNCHANGED <<transport, kind, udpRequired, mux, current, holder, stage, via>>

\* onclose, after onerror or when the connection ends in good order.
OnClose(s) ==
    /\ sock[s].ready \in {"open", "closing"}
    /\ sock' = [sock EXCEPT ![s].ready = "closed", ![s].closed = TRUE]
    /\ NotifyClose(s)
    /\ UNCHANGED <<transport, kind, udpRequired, mux, current, holder, stage, via>>

-----------------------------------------------------------------------------
(* The read half.  Listen: the iterator's closure runs up to its select!;  *)
(* Yields: what a poll of the stream may give.                             *)

\* Mutant: the closed flag is not looked at before the select!.
ListenUnchecked(s) ==
    /\ transport = "websocket" /\ reader[s] = "idle" /\ sock[s].q = <<>>
    /\ reader' = [reader EXCEPT ![s] = "listening"]
    /\ UNCHANGED <<transport, kind, udpRequired, sock, mux, current, holder, stage, via>>

Listen(s) ==
    /\ transport = "websocket" /\ reader[s] = "idle" /\ ~sock[s].closed /\ sock[s].q = <<>>
    /\ reader' = [reader EXCEPT ![s] = "listening"]
    /\ UNCHANGED <<transport, kind, udpRequired, sock, mux, current, holder, stage, via>>

\* "item" (a message), "end" (None) or "error".  A message and the close event may be
\* ready at once, and select! picks either.  The streams of a function are drained first.
Yields(s) ==
    IF transport = "function"
    THEN IF sock[s].q # <<>> THEN {"item"}
         ELSE IF sock[s].ready = "closed" THEN {"end", "error"} ELSE {}
    ELSE IF reader[s] = "idle" /\ sock[s].closed THEN {"error"}
    ELSE (IF sock[s].q # <<>>
          THEN {IF Head(sock[s].q) = "error" THEN "error" ELSE "item"} ELSE {})
         \cup (IF reader[s] = "notified" THEN {"end"} ELSE {})

\* A poll of the read half that gives a message.
ReadItem(s) ==
    /\ "item" \in Yields(s)
    /\ sock' = [sock EXCEPT ![s].q = Tail(@)]
    /\ reader' = [reader EXCEPT ![s] = "idle"]

-----------------------------------------------------------------------------
(* create_client, under the mutex.                                         *)

Return(c, to) ==
    /\ holder' = None
    /\ stage' = [stage EXCEPT ![c] = to]

\* The halves are dropped, and the closures with them; nobody closes the JavaScript socket.
DropHalves(s) ==
    /\ sock' = [sock EXCEPT ![s] = LeftBehind]
    /\ reader' = [reader EXCEPT ![s] = "none"]

\* The generator: WebSocketWrapper::connect, or the call of the user's function.
Generate(c, s) ==
    /\ sock[s].ready = "none" /\ \A o \in Sockets : o < s => sock[o].ready # "none"
    /\ sock' = [sock EXCEPT ![s] = [NoSocket EXCEPT !.ready = "connecting"]]
    /\ holder' = c
    /\ stage' = [stage EXCEPT ![c] = "opening"]
    /\ via' = [via EXCEPT ![c] = s]

\* Mutant: wait_for_open does not listen to the error event.
OpenedOnly(c, s) ==
    /\ "open" \in sock[s].woke
    /\ stage' = [stage EXCEPT ![c] = "handshake"]
    /\ reader' = [reader EXCEPT ![s] = "idle"]
    /\ sock' = [sock EXCEPT ![s].woke = {}]
    /\ UNCHANGED holder

\* wait_for_open returned: TRUE for the open event, FALSE for the error event; with both
\* notified select! picks either.  A socket that has closed again is used all the same.
Opened(c, s) ==
    \/ /\ "open" \in sock[s].woke
       /\ stage' = [stage EXCEPT ![c] = "handshake"]
       /\ reader' = [reader EXCEPT ![s] = "idle"]
       /\ sock' = [sock EXCEPT ![s].woke = {}]
       /\ UNCHANGED holder
    \/ /\ "error" \in sock[s].woke
       /\ DropHalves(s)
       /\ Return(c, "failed")

\* The promise of the user's function settles.
Settled(c, s) ==
    \/ /\ sock' = [sock EXCEPT ![s].ready = "open"]
       /\ stage' = [stage EXCEPT ![c] = "handshake"]
       /\ reader' = [reader EXCEPT ![s] = "idle"]
       /\ UNCHANGED holder
    \/ /\ DropHalves(s)
       /\ Return(c, "failed")

Open(c) ==
    /\ stage[c] = "opening"
    /\ IF transport = "websocket" THEN Opened(c, via[c]) ELSE Settled(c, via[c])
    /\ UNCHANGED <<transport, kind, udpRequired, mux, current, via>>

\* ClientMux::new reads the server's first packet (module Handshake has what follows):
\* it goes well, with or without the UDP extension, or fails.
Handshake(c) ==
    LET s == via[c] IN
    /\ stage[c] = "handshake"
    /\ \/ /\ Yields(s) # {} /\ DropHalves(s) /\ Return(c, "failed")
          /\ UNCHANGED <<mux, current>>
       \/ \E udp \in BOOLEAN :
            /\ ReadItem(s)
            /\ IF udpRequired /\ ~udp
               THEN /\ mux' = [mux EXCEPT ![s] = "refused"]
                    /\ stage' = [stage EXCEPT ![c] = "refusing"]
                    /\ UNCHANGED <<current, holder>>
               ELSE /\ mux' = [mux EXCEPT ![s] = "running"]
                    /\ current' = s
                    /\ Return(c, IF kind[c] = "replace" THEN "done" ELSE "lock")
    /\ UNCHANGED <<transport, kind, udpRequired, via>>

\* with_required_extensions awaits the task it told to end, and reports the mismatch.
Refused(c) ==
    /\ stage[c] = "refusing" /\ mux[via[c]] = "ended"
    /\ mux' = [mux EXCEPT ![via[c]] = "gone"]
    /\ Return(c, "failed")
    /\ UNCHANGED <<transport, kind, udpRequired, sock, reader, current, via>>

-----------------------------------------------------------------------------
(* get_stream and replace_client, from the lock on.                        *)

Disconnected(s) == mux[s] # "running"

Lock(c) ==
    /\ stage[c] = "lock" /\ holder = None
    /\ IF kind[c] = "replace" \/ current = None
       THEN \/ \E s \in Sockets : Generate(c, s)
            \/ stage' = [stage EXCEPT ![c] = "failed"] /\ UNCHANGED <<sock, holder, via>>
       ELSE /\ via' = [via EXCEPT ![c] = current]
            /\ UNCHANGED sock
            /\ IF Disconnected(current)
               THEN Return(c, "failed")
               ELSE holder' = c /\ stage' = [stage EXCEPT ![c] = "requested"]
    /\ UNCHANGED <<transport, kind, udpRequired, reader, mux, current>>

\* The actor opened the stream, or could not.
Answer(c) ==
    /\ stage[c] = "requested" /\ mux[via[c]] = "running"
    /\ \E to \in {"stream", "failed"} : Return(c, to)
    /\ UNCHANGED <<transport, kind, udpRequired, sock, reader, mux, current, via>>

-----------------------------------------------------------------------------
(* The multiplexor's task.                                                 *)

\* The loop ends: read half and event channel are dropped.  A request still queued is
\* dropped with it, or kept by the channel library, and then its caller waits for ever.
LeaveLoop(s) ==
    /\ mux' = [mux EXCEPT ![s] = "closing"]
    /\ LET waiting == {c \in Calls : stage[c] = "requested" /\ via[c] = s} IN
       IF waiting = {} THEN UNCHANGED <<stage, holder>>
       ELSE \E to \in {"failed", "stranded"} :
              /\ stage' = [c \in Calls |-> IF c \in waiting THEN to ELSE stage[c]]
              /\ holder' = IF to = "failed" THEN None ELSE holder
    /\ UNCHANGED <<transport, kind, udpRequired, current, via>>

\* The actor reads: a packet that it handles, one that ends it, the end, or an error.
ActorRead(s) ==
    /\ mux[s] \in {"running", "refused"}
    /\ \/ /\ ReadItem(s)
          /\ UNCHANGED <<transport, kind, udpRequired, mux, current, holder, stage, via>>
       \/ Yields(s) # {} /\ DropHalves(s) /\ LeaveLoop(s)

\* EndFut, queued by with_required_extensions; or nobody is left to ask for anything.
ActorStops(s) ==
    /\ \/ mux[s] = "refused"
       \/ mux[s] = "running" /\ current # s
    /\ DropHalves(s)
    /\ LeaveLoop(s)

\* tx.close().await.  The iterator transport's poll_close makes the future that would
\* close the socket, does not poll it, and returns Pending without a waker: the task is
\* not polled again.  The sink over a JavaScript stream closes it.
PollClose(s) ==
    /\ mux[s] = "closing"
    /\ mux' = [mux EXCEPT ![s] = IF transport = "websocket" THEN "asleep" ELSE "ended"]
    /\ UNCHANGED <<transport, kind, udpRequired, sock, reader, current, holder, stage, via>>

Owned(s) == \E c \in Calls : stage[c] = "refusing" /\ via[c] = s

\* The task that create_client spawned: the multiplexor ended, lock and take.  It takes
\* whatever is there, a newer multiplexor too.
EndTask(s) ==
    /\ mux[s] = "ended" /\ ~Owned(s) /\ holder = None
    /\ mux' = [mux EXCEPT ![s] = "gone"]
    /\ current' = None
    /\ UNCHANGED <<transport, kind, udpRequired, sock, reader, holder, stage, via>>

SocketStep(s) ==
    \/ OnOpen(s) \/ OnMessage(s) \/ OnError(s) \/ OnClose(s)
    \/ Listen(s) \/ ActorRead(s) \/ ActorStops(s) \/ PollClose(s) \/ EndTask(s)

ProviderStep(c) == Lock(c) \/ Open(c) \/ Handshake(c) \/ Refused(c) \/ Answer(c)

\* A multiplexor's task runs when it can, and unfair_select lets it come to a queued
\* event between packets; a socket opens or fails, and one that failed closes; a server
\* that accepted the connection says something or hangs up.  Nothing makes an open
\* socket close.
SocketFairness ==
    \A s \in Sockets :
        /\ WF_pvars(Listen(s) \/ ActorRead(s) \/ PollClose(s) \/ EndTask(s))
        /\ WF_pvars(mux[s] = "refused" /\ ActorStops(s))
        /\ WF_pvars(OnOpen(s) \/ OnError(s))
        /\ WF_pvars(sock[s].ready = "closing" /\ OnClose(s))
        /\ WF_pvars((\E c \in Calls : stage[c] = "handshake" /\ via[c] = s)
                      /\ (OnMessage(s) \/ OnError(s) \/ OnClose(s)))
=============================================================================
