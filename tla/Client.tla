------------------------------- MODULE Client -------------------------------
(***************************************************************************)
(* What JavaScript calls: fetch with its redirects (client/src/lib.rs),    *)
(* websockets through the proxy (client/src/websocket.rs) and              *)
(* replace_stream_provider, over the stream provider.  Headers, bodies,    *)
(* compression and the conversion of values are left out; a URL is its     *)
(* scheme, authority and path.                                             *)
(***************************************************************************)
EXTENDS StreamProvider, SequencesExt

CONSTANTS
    StartUrl,            \* what they are called with
    Locations,           \* values of a Location header; scheme None: only a path
    RedirectLimit,       \* redirect_limit
    MaxEvents            \* bound: handler calls of a websocket before no more frames or sends

ASSUME ClientAssumption ==
    /\ RedirectLimit \in Nat /\ MaxEvents \in Nat
    /\ \A u \in Locations \cup {StartUrl} : u = [scheme |-> u.scheme, auth |-> u.auth, path |-> u.path]
    /\ None \notin Locations

VARIABLES
    url,       \* the URL of the request a call has under way
    follow,    \* whether the redirect option lets a fetch follow
    left,      \* how many more redirects send_req follows
    trail,     \* history: the answers a fetch got, with the URL that gave each
    result,    \* url and redirected of the response fetch resolved to, or None
    events,    \* history: the handlers called, oldest first
    frames,    \* the reader task of a websocket: none, reading, reply, ended
    tx         \* who holds the mutex of a websocket's write half

cvars == <<url, follow, left, trail, result, events, frames, tx>>
vars == <<pvars, cvars>>

Init ==
    /\ ProviderInit
    /\ url = [c \in Calls |-> StartUrl]
    /\ follow \in {f \in [Calls -> BOOLEAN] : \A c \in Calls : kind[c] # "fetch" => f[c]}
    /\ left = [c \in Calls |-> RedirectLimit]
    /\ trail = [c \in Calls |-> <<>>]
    /\ result = [c \in Calls |-> None]
    /\ events = [c \in Calls |-> <<>>]
    /\ frames = [c \in Calls |-> "none"]
    /\ tx = [c \in Calls |-> "free"]

Goto(c, to) == stage' = [stage EXCEPT ![c] = to]
KeepProvider == UNCHANGED <<transport, kind, udpRequired, sock, reader, mux, current, holder, via>>
Call(c, h) == events' = [events EXCEPT ![c] = Append(@, h)]

\* Schemes the service connects; any other URL fails before a stream is asked for.
Served(u) == u.scheme \in {"http", "https", "ws", "wss"}

Connect(c, u) == Goto(c, IF Served(u) THEN "lock" ELSE "failed")

Start(c) ==
    /\ stage[c] = "idle"
    /\ IF kind[c] = "replace" THEN Goto(c, "lock") ELSE Connect(c, url[c])
    /\ KeepProvider /\ UNCHANGED cvars

-----------------------------------------------------------------------------
(* fetch *)

SameOrigin(u, v) == u.scheme = v.scheme /\ u.auth = v.auth

\* UriExt::get_redirect: a location without scheme and authority takes those of the
\* URL that was just asked.
GetRedirect(u, loc) == IF loc.scheme = None THEN [u EXCEPT !.path = loc.path] ELSE loc

\* Mutant: current_url is the target of a redirect also when that was not followed.
SendReqAhead(c, loc) ==
    IF follow[c] /\ loc \in Locations /\ left[c] > 0
    THEN /\ left' = [left EXCEPT ![c] = @ - 1]
         /\ url' = [url EXCEPT ![c] = GetRedirect(@, loc)]
         /\ \/ Connect(c, url'[c])
            \/ SameOrigin(url[c], url'[c]) /\ Goto(c, "stream")
         /\ UNCHANGED result
    ELSE /\ result' = [result EXCEPT ![c] =
              [url |-> IF loc \in Locations THEN GetRedirect(url[c], loc) ELSE url[c],
               redirected |-> left[c] < RedirectLimit]]
         /\ Goto(c, "done")
         /\ UNCHANGED <<url, left>>

\* send_req_inner has a response with header loc (None: no redirect, or a location that
\* does not parse); send_req follows it while its loop lasts, or gives the response back
\* with the URL of the last request it sent.  hyper may still have a connection to the
\* same place; otherwise the request needs a new stream.
SendReq(c, loc) ==
    IF follow[c] /\ loc \in Locations /\ left[c] > 0
    THEN /\ left' = [left EXCEPT ![c] = @ - 1]
         /\ url' = [url EXCEPT ![c] = GetRedirect(@, loc)]
         /\ \/ Connect(c, url'[c])
            \/ SameOrigin(url[c], url'[c]) /\ Goto(c, "stream")
         /\ UNCHANGED result
    ELSE /\ result' = [result EXCEPT ![c] = [url |-> url[c], redirected |-> left[c] < RedirectLimit]]
         /\ Goto(c, "done")
         /\ UNCHANGED <<url, left>>

\* The stream carried the request (after a TLS handshake if the scheme asks for one): a
\* response comes back, or the exchange fails.
Respond(c) ==
    /\ kind[c] = "fetch" /\ stage[c] = "stream"
    /\ \/ \E loc \in Locations \cup {None} :
            /\ SendReq(c, loc)
            /\ trail' = [trail EXCEPT ![c] = Append(@, [url |-> url[c], loc |-> loc])]
       \/ Goto(c, "failed") /\ UNCHANGED <<trail, url, left, result>>
    /\ KeepProvider /\ UNCHANGED <<follow, events, frames, tx>>

-----------------------------------------------------------------------------
(* EpoxyWebSocket *)

\* connect: the upgrade's response is verified, the reader task is spawned, and onopen is
\* called in the same turn; any error calls onerror instead.
Upgrade(c) ==
    /\ kind[c] = "websocket" /\ stage[c] = "stream"
    /\ \/ Call(c, "open") /\ Goto(c, "done") /\ frames' = [frames EXCEPT ![c] = "reading"]
       \/ Call(c, "error") /\ Goto(c, "refused") /\ UNCHANGED frames
    /\ KeepProvider /\ UNCHANGED <<url, follow, left, trail, result, tx>>

\* The provider gave connect an error.
NoStream(c) ==
    /\ kind[c] = "websocket" /\ stage[c] = "failed"
    /\ Call(c, "error") /\ Goto(c, "refused")
    /\ KeepProvider /\ UNCHANGED <<url, follow, left, trail, result, frames, tx>>

\* The reader has a frame with a payload: onmessage, unless it is text and not UTF-8.
Frame(c) ==
    /\ kind[c] = "websocket" /\ frames[c] = "reading" /\ Len(events[c]) < MaxEvents
    /\ Call(c, "message")
    /\ UNCHANGED <<pvars, url, follow, left, trail, result, frames, tx>>

\* A ping or a close frame: read_frame answers it under the write half's mutex.
Reply(c) ==
    /\ kind[c] = "websocket" /\ frames[c] = "reading" /\ tx[c] = "free"
    /\ \E to \in {"pong", "closing"} : frames' = [frames EXCEPT ![c] = to]
    /\ tx' = [tx EXCEPT ![c] = "reader"]
    /\ UNCHANGED <<pvars, url, follow, left, trail, result, events>>

\* Mutant: a close frame calls onclose and the reader goes on.
RepliedGoesOn(c) ==
    /\ kind[c] = "websocket" /\ frames[c] \in {"pong", "closing"}
    /\ tx' = [tx EXCEPT ![c] = "free"]
    /\ events' = IF frames[c] = "pong" THEN events
                 ELSE [events EXCEPT ![c] = Append(@, "close")]
    /\ frames' = [frames EXCEPT ![c] = "reading"]
    /\ UNCHANGED <<pvars, url, follow, left, trail, result>>

\* The answer is written: the reader goes on after a pong, and after a close it leaves
\* its loop and calls onclose.
Replied(c) ==
    /\ kind[c] = "websocket" /\ frames[c] \in {"pong", "closing"}
    /\ tx' = [tx EXCEPT ![c] = "free"]
    /\ IF frames[c] = "pong"
       THEN frames' = [frames EXCEPT ![c] = "reading"] /\ UNCHANGED events
       ELSE frames' = [frames EXCEPT ![c] = "ended"] /\ Call(c, "close")
    /\ UNCHANGED <<pvars, url, follow, left, trail, result>>

\* read_frame fails, while reading or in an answer: onerror, then onclose.
ReadFails(c) ==
    /\ kind[c] = "websocket" /\ frames[c] \in {"reading", "pong", "closing"}
    /\ events' = [events EXCEPT ![c] = @ \o <<"error", "close">>]
    /\ frames' = [frames EXCEPT ![c] = "ended"]
    /\ tx' = [tx EXCEPT ![c] = IF frames[c] = "reading" THEN @ ELSE "free"]
    /\ UNCHANGED <<pvars, url, follow, left, trail, result>>

\* send and close: take the mutex, write one frame; an error goes to onerror too.
Send(c) ==
    /\ kind[c] = "websocket" /\ stage[c] = "done" /\ tx[c] = "free" /\ Len(events[c]) < MaxEvents
    /\ tx' = [tx EXCEPT ![c] = "send"]
    /\ UNCHANGED <<pvars, url, follow, left, trail, result, events, frames>>

Sent(c) ==
    /\ kind[c] = "websocket" /\ tx[c] = "send"
    /\ tx' = [tx EXCEPT ![c] = "free"]
    /\ UNCHANGED events \/ Call(c, "error")
    /\ UNCHANGED <<pvars, url, follow, left, trail, result, frames>>

-----------------------------------------------------------------------------
\* Everything that ends one wait of a call.
Proceed(c) ==
    \/ ProviderStep(c) /\ UNCHANGED cvars
    \/ Respond(c) \/ Upgrade(c) \/ NoStream(c)

WebSocketStep(c) == Frame(c) \/ Reply(c) \/ Replied(c) \/ ReadFails(c) \/ Send(c) \/ Sent(c)

Next ==
    \/ \E s \in Sockets : SocketStep(s) /\ UNCHANGED cvars
    \/ \E c \in Calls : Start(c) \/ Proceed(c) \/ WebSocketStep(c)

Spec == Init /\ [][Next]_vars

\* A call goes on when it can, and an exchange gets an answer or fails.  JavaScript need
\* not call, and nobody need send frames.
FairSpec == Spec /\ SocketFairness /\ \A c \in Calls : WF_vars(Proceed(c))

-----------------------------------------------------------------------------
(* Properties *)

\* Nothing will move the holder of the provider's mutex: its request is kept by a channel
\* nobody reads, or it awaits a multiplexor that sleeps in the transport's poll_close.
Jammed ==
    \E c \in Calls : holder = c /\
        \/ stage[c] = "stranded"
        \/ stage[c] = "refusing" /\ mux[via[c]] = "asleep"

Over(c) == stage[c] \in {"done", "refused"} \cup (IF kind[c] = "websocket" THEN {} ELSE {"failed"})

\* Every call of fetch, connect_websocket and replace_stream_provider comes back, through
\* sockets that fail while they open, handshakes that break off, multiplexors that end with
\* requests queued and others that replace them meanwhile, unless the provider is jammed.
CallsEnd == \A c \in Calls : stage[c] # "idle" ~> Over(c) \/ Jammed

\* A closed socket is noticed however its events fall between the reader's polls; and
\* over a transport that can be closed, a multiplexor that ended does not stay in
\* current_client, where every get_stream would fail with MuxTaskEnded.
DeadClientLetGo ==
    \A s \in Sockets :
        /\ mux[s] = "running" /\ sock[s].ready = "closed" ~> mux[s] # "running"
        /\ transport = "function" /\ current = s /\ Disconnected(s) ~> current # s \/ Jammed

\* What fetch reports is what happened: url is the URL that gave the response, redirected
\* says whether there were others before it, a path-only Location stays with the origin
\* that sent it, and a redirect is handed out only with the option off or the limit used up.
FetchReportsTruth ==
    \A c \in Calls : result[c] # None =>
        LET t == trail[c] IN
        /\ result[c].url = Last(t).url
        /\ result[c].redirected = (Len(t) > 1)
        /\ \A i \in 1 .. Len(t) - 1 : t[i].loc.scheme = None => SameOrigin(t[i].url, t[i + 1].url)
        /\ Last(t).loc \in Locations => Len(t) = IF follow[c] THEN RedirectLimit + 1 ELSE 1

\* The handlers of a websocket are called in the order a JavaScript WebSocket has: onopen
\* first, or one onerror if connecting failed; onclose once, and no onmessage after it.
HandlersOrdered ==
    \A c \in Calls :
        LET e == events[c] IN
        /\ stage[c] = "refused" => e = <<"error">>
        /\ stage[c] # "refused" /\ e # <<>> => e[1] = "open"
        /\ \A i, j \in DOMAIN e : i < j /\ e[i] = "close" => e[j] = "error"
        /\ frames[c] = "ended" => "close" \in ToSet(e)

\* close_with_reason, which with_required_extensions calls when the server lacks the UDP
\* extension, terminates the multiplexor future.
CloseTerminates ==
    \A s \in Sockets : mux[s] = "refused" ~> mux[s] \in {"ended", "gone"}
=============================================================================
