---------------------------- MODULE Client_proofs ----------------------------
(***************************************************************************)
(* Proofs about Client and the StreamProvider below it, for any set of     *)
(* calls, any mix of fetches, websockets and replacements, any number of   *)
(* transports, any redirect limit and any bound on the handlers called.    *)
(***************************************************************************)
EXTENDS Client, SequenceTheorems, TLAPS

\* What a call awaits inside the provider, all of it under its mutex but "lock".
UnderMutex == {"opening", "handshake", "refusing", "requested"}
Waiting == UnderMutex \cup {"lock"}
Stages == Waiting \cup {"idle", "failed", "stranded", "stream", "done", "refused"}

\* The only ways in which the provider and its sockets move a call.
ProviderMoves(c) ==
    \/ stage'[c] = stage[c]
    \/ /\ stage[c] \in Waiting
       /\ \/ stage'[c] \in Waiting \cup {"failed", "stranded", "stream"}
          \/ kind[c] = "replace" /\ stage'[c] = "done"

\* A step of the provider leaves alone calls that wait for something else.
LEMMA ProviderFrame ==
    ASSUME stage \in [Calls -> Stages],
           \/ \E s \in Sockets : SocketStep(s)
           \/ \E c \in Calls : ProviderStep(c)
    PROVE  /\ UNCHANGED kind
           /\ stage' \in [Calls -> Stages]
           /\ \A c \in Calls : ProviderMoves(c)
<1> USE DEF ProviderMoves, Stages, Waiting, UnderMutex
<1>1. ASSUME NEW s \in Sockets, OnOpen(s) \/ OnMessage(s) \/ OnError(s) \/ OnClose(s) \/ Listen(s)
                                \/ PollClose(s) \/ EndTask(s)
      PROVE  UNCHANGED <<kind, stage>>
  BY <1>1 DEF OnOpen, OnMessage, OnError, OnClose, Listen, PollClose, EndTask
<1>2. ASSUME NEW s \in Sockets, LeaveLoop(s)
      PROVE  /\ UNCHANGED kind /\ stage' \in [Calls -> Stages]
             /\ \A c \in Calls : ProviderMoves(c)
  BY <1>2 DEF LeaveLoop
<1>3. ASSUME NEW s \in Sockets, ActorRead(s) \/ ActorStops(s)
      PROVE  UNCHANGED <<kind, stage>> \/ LeaveLoop(s)
  BY <1>3 DEF ActorRead, ActorStops
<1>4. ASSUME NEW c \in Calls, NEW to \in Stages, stage' = [stage EXCEPT ![c] = to], UNCHANGED kind,
             stage[c] \in Waiting,
             \/ to \in Waiting \cup {"failed", "stranded", "stream"}
             \/ kind[c] = "replace" /\ to = "done"
      PROVE  /\ UNCHANGED kind /\ stage' \in [Calls -> Stages]
             /\ \A d \in Calls : ProviderMoves(d)
  BY <1>4
<1>5. ASSUME NEW c \in Calls, ProviderStep(c)
      PROVE  /\ UNCHANGED kind /\ stage[c] \in Waiting
             /\ \E to \in Stages : /\ stage' = [stage EXCEPT ![c] = to]
                                   /\ \/ to \in Waiting \cup {"failed", "stranded", "stream"}
                                      \/ kind[c] = "replace" /\ to = "done"
  <2>1. CASE Lock(c)
    BY <2>1 DEF Lock, Generate, Return
  <2>2. CASE Open(c)
    BY <2>2 DEF Open, Opened, Settled, Return
  <2>3. CASE Handshake(c)
    BY <2>3 DEF Handshake, Return
  <2>4. CASE Refused(c)
    BY <2>4 DEF Refused, Return
  <2>5. CASE Answer(c)
    BY <2>5 DEF Answer, Return
  <2>6. QED
    BY <1>5, <2>1, <2>2, <2>3, <2>4, <2>5 DEF ProviderStep
<1>6. ASSUME UNCHANGED <<kind, stage>>
      PROVE  /\ UNCHANGED kind /\ stage' \in [Calls -> Stages]
             /\ \A c \in Calls : ProviderMoves(c)
  BY <1>6
<1>7. ASSUME NEW s \in Sockets, SocketStep(s)
      PROVE  /\ UNCHANGED kind /\ stage' \in [Calls -> Stages]
             /\ \A c \in Calls : ProviderMoves(c)
  BY <1>1, <1>2, <1>3, <1>6, <1>7 DEF SocketStep
<1>8. ASSUME NEW c \in Calls, ProviderStep(c)
      PROVE  /\ UNCHANGED kind /\ stage' \in [Calls -> Stages]
             /\ \A d \in Calls : ProviderMoves(d)
  BY <1>4, <1>5, <1>8
<1>9. QED
  BY <1>7, <1>8
-----------------------------------------------------------------------------
(***************************************************************************)
(* Websockets.  The strengthening says where a call with handlers called   *)
(* stands, and that onclose is called exactly when the reader ends.        *)
(***************************************************************************)
Handlers == {"open", "error", "message", "close"}

HandlerTypes ==
    /\ stage \in [Calls -> Stages]
    /\ events \in [Calls -> Seq(Handlers)]
    /\ frames \in [Calls -> {"none", "reading", "pong", "closing", "ended"}]
    /\ tx \in [Calls -> {"free", "reader", "send"}]

ReaderStands(c) ==
    /\ frames[c] # "none" => stage[c] = "done" /\ kind[c] = "websocket"
    /\ tx[c] = "send" => stage[c] = "done"
    /\ stage[c] \notin {"done", "refused"} => events[c] = <<>>
    /\ kind[c] # "websocket" => events[c] = <<>> /\ stage[c] # "refused"
    /\ stage[c] = "refused" => events[c] = <<"error">>
    /\ stage[c] = "done" /\ kind[c] = "websocket" => events[c] # <<>> /\ events[c][1] = "open"

NoClose(e) == \A i \in 1 .. Len(e) : e[i] # "close"
HasClose(e) == \E i \in 1 .. Len(e) : e[i] = "close"
ErrorsAfterClose(e) == \A i, j \in 1 .. Len(e) : i < j /\ e[i] = "close" => e[j] = "error"

CloseEnds(c) ==
    /\ frames[c] # "ended" => NoClose(events[c])
    /\ frames[c] = "ended" => HasClose(events[c])
    /\ ErrorsAfterClose(events[c])

HandlerInv == HandlerTypes /\ \A c \in Calls : ReaderStands(c) /\ CloseEnds(c)

\* What one handler call adds to a history; what was there stays.
LEMMA OneMore ==
    ASSUME NEW e \in Seq(Handlers), NEW h \in Handlers
    PROVE  /\ Append(e, h) \in Seq(Handlers)
           /\ Len(e) \in Nat /\ Len(Append(e, h)) = Len(e) + 1
           /\ \A i \in 1 .. Len(e) : Append(e, h)[i] = e[i]
           /\ Append(e, h)[Len(e) + 1] = h
           /\ e # <<>> => Append(e, h) # <<>> /\ Append(e, h)[1] = e[1]
<1>1. /\ Append(e, h) \in Seq(Handlers)
      /\ Len(e) \in Nat /\ Len(Append(e, h)) = Len(e) + 1
      /\ \A i \in 1 .. Len(e) : Append(e, h)[i] = e[i]
      /\ Append(e, h)[Len(e) + 1] = h
  BY AppendProperties, LenProperties
<1>2. e # <<>> => Len(e) >= 1
  BY EmptySeq, <1>1
<1>3. Append(e, h) # <<>>
  BY <1>1, EmptySeq
<1>4. QED
  BY <1>1, <1>2, <1>3

\* How the order of the handlers survives another call.
LEMMA CloseKept ==
    ASSUME NEW e \in Seq(Handlers), NEW h \in Handlers
    PROVE  /\ NoClose(e) /\ h # "close" => NoClose(Append(e, h))
           /\ HasClose(e) \/ h = "close" => HasClose(Append(e, h))
           /\ ErrorsAfterClose(e) /\ (NoClose(e) \/ h = "error") => ErrorsAfterClose(Append(e, h))
<1> DEFINE a == Append(e, h)
<1>1. /\ Len(e) \in Nat /\ Len(a) = Len(e) + 1
      /\ \A i \in 1 .. Len(e) : a[i] = e[i]
      /\ a[Len(e) + 1] = h
  BY OneMore
<1> HIDE DEF a
<1>2. \A i \in 1 .. Len(a) : i \in 1 .. Len(e) \/ i = Len(e) + 1
  BY <1>1
<1>3. \A i \in 1 .. Len(e) : i \in 1 .. Len(a)
  BY <1>1
<1>4. Len(e) + 1 \in 1 .. Len(a)
  BY <1>1
<1>5. \A i, j \in 1 .. Len(a) : i < j => i \in 1 .. Len(e)
  BY <1>1
<1>6. NoClose(e) /\ h # "close" => NoClose(a)
  BY <1>1, <1>2 DEF NoClose
<1>7. HasClose(e) \/ h = "close" => HasClose(a)
  BY <1>1, <1>3, <1>4 DEF HasClose
<1>8. ErrorsAfterClose(e) /\ (NoClose(e) \/ h = "error") => ErrorsAfterClose(a)
  BY <1>1, <1>2, <1>5 DEF ErrorsAfterClose, NoClose
<1>9. QED
  BY <1>6, <1>7, <1>8 DEF a

\* ReadFails calls onerror and then onclose.
LEMMA TwoMore ==
    ASSUME NEW e \in Seq(Handlers)
    PROVE  e \o <<"error", "close">> = Append(Append(e, "error"), "close")
  BY DEF Handlers

LEMMA HandlerInvNext ==
    ASSUME HandlerInv, [Next]_vars
    PROVE  HandlerInv'
<1> USE DEF HandlerInv, HandlerTypes, Stages, Waiting, UnderMutex, Handlers
<1>1. ASSUME UNCHANGED cvars,
             \/ \E s \in Sockets : SocketStep(s)
             \/ \E c \in Calls : ProviderStep(c)
      PROVE  HandlerInv'
  <2>1. /\ UNCHANGED <<kind, events, frames, tx>> /\ stage' \in [Calls -> Stages]
        /\ \A c \in Calls : ProviderMoves(c)
    BY <1>1, ProviderFrame DEF cvars
  <2>2. \A c \in Calls : ReaderStands(c)'
    BY <2>1 DEF ProviderMoves, ReaderStands
  <2>3. \A c \in Calls : CloseEnds(c)'
    BY <2>1 DEF CloseEnds
  <2>4. QED
    BY <2>1, <2>2, <2>3
<1>2. ASSUME NEW c \in Calls, Start(c) PROVE HandlerInv'
  <2>1. /\ UNCHANGED <<kind, events, frames, tx>> /\ stage[c] = "idle"
        /\ \E to \in {"lock", "failed"} : stage' = [stage EXCEPT ![c] = to]
    BY <1>2 DEF Start, Connect, Goto, KeepProvider, cvars
  <2>2. \A d \in Calls : ReaderStands(d)'
    BY <2>1 DEF ReaderStands
  <2>3. \A d \in Calls : CloseEnds(d)'
    BY <2>1 DEF CloseEnds
  <2>4. QED
    BY <2>1, <2>2, <2>3
<1>3. ASSUME NEW c \in Calls, Respond(c) PROVE HandlerInv'
  <2>1. /\ UNCHANGED <<kind, events, frames, tx>> /\ stage[c] = "stream" /\ kind[c] = "fetch"
        /\ \E to \in {"lock", "failed", "stream", "done"} : stage' = [stage EXCEPT ![c] = to]
    BY <1>3 DEF Respond, SendReq, Connect, Goto, KeepProvider
  <2>2. \A d \in Calls : ReaderStands(d)'
    BY <2>1 DEF ReaderStands
  <2>3. \A d \in Calls : CloseEnds(d)'
    BY <2>1 DEF CloseEnds
  <2>4. QED
    BY <2>1, <2>2, <2>3
<1>4. ASSUME NEW c \in Calls, Upgrade(c) \/ NoStream(c) PROVE HandlerInv'
  <2>1. /\ UNCHANGED <<kind, tx>> /\ stage[c] \in {"stream", "failed"} /\ kind[c] = "websocket"
        /\ \/ /\ Call(c, "open") /\ stage' = [stage EXCEPT ![c] = "done"]
              /\ frames' = [frames EXCEPT ![c] = "reading"]
           \/ /\ Call(c, "error") /\ stage' = [stage EXCEPT ![c] = "refused"]
              /\ UNCHANGED frames
    BY <1>4 DEF Upgrade, NoStream, Goto, KeepProvider
  <2>2. events[c] = <<>> /\ frames[c] = "none" /\ tx[c] # "send" /\ NoClose(events[c])
        /\ ErrorsAfterClose(events[c])
    BY <2>1 DEF ReaderStands, CloseEnds
  <2>3. PICK h \in {"open", "error"} :
           /\ events' = [events EXCEPT ![c] = <<h>>]
           /\ h = "open" => /\ stage' = [stage EXCEPT ![c] = "done"]
                            /\ frames' = [frames EXCEPT ![c] = "reading"]
           /\ h = "error" => stage' = [stage EXCEPT ![c] = "refused"] /\ UNCHANGED frames
    BY <2>1, <2>2 DEF Call
  <2>4. <<h>> \in Seq(Handlers) /\ <<h>> # <<>> /\ <<h>>[1] = h /\ Len(<<h>>) = 1
    OBVIOUS
  <2>5. HandlerTypes'
    BY <2>1, <2>3, <2>4
  <2>6. \A d \in Calls \ {c} : /\ events'[d] = events[d] /\ frames'[d] = frames[d]
                               /\ stage'[d] = stage[d]
    BY <2>3
  <2>7. events'[c] = <<h>> /\ stage'[c] = (IF h = "open" THEN "done" ELSE "refused")
        /\ frames'[c] \in {"none", "reading"} /\ (h = "error" => frames'[c] = "none")
    BY <2>2, <2>3
  <2>8. ReaderStands(c)'
    BY <2>1, <2>2, <2>4, <2>7 DEF ReaderStands
  <2>9. CloseEnds(c)'
    BY <2>4, <2>7 DEF CloseEnds, NoClose, ErrorsAfterClose
  <2>10. \A d \in Calls \ {c} : ReaderStands(d)' /\ CloseEnds(d)'
    BY <2>1, <2>6 DEF ReaderStands, CloseEnds
  <2>11. QED
    BY <2>5, <2>8, <2>9, <2>10
<1>5. ASSUME NEW c \in Calls, WebSocketStep(c) PROVE HandlerInv'
  <2>1. /\ UNCHANGED <<kind, stage>> /\ kind[c] = "websocket"
        /\ frames[c] # "none" \/ tx[c] = "send" \/ stage[c] = "done"
    BY <1>5 DEF WebSocketStep, Frame, Reply, Replied, ReadFails, Send, Sent, pvars
  <2>2. stage[c] = "done" /\ events[c] # <<>> /\ events[c][1] = "open"
    BY <2>1 DEF ReaderStands
  <2> DEFINE Live == frames[c] # "ended" /\ frames'[c] # "ended"
  <2>3. \/ events' = events /\ (Live \/ frames'[c] = frames[c])
        \/ Call(c, "message") /\ Live
        \/ Call(c, "error") /\ frames'[c] = frames[c]
        \/ Call(c, "close") /\ frames[c] # "ended" /\ frames'[c] = "ended"
        \/ /\ events' = [events EXCEPT ![c] = @ \o <<"error", "close">>]
           /\ frames[c] # "ended" /\ frames'[c] = "ended"
    <3>1. CASE Frame(c) \/ Reply(c) \/ Send(c)
      BY <3>1 DEF Frame, Reply, Send
    <3>2. CASE Replied(c)
      BY <3>2 DEF Replied
    <3>3. CASE ReadFails(c) \/ Sent(c)
      BY <3>3 DEF ReadFails, Sent
    <3>4. QED
      BY <1>5, <3>1, <3>2, <3>3 DEF WebSocketStep
  <2>4. /\ frames' \in [Calls -> {"none", "reading", "pong", "closing", "ended"}]
        /\ tx' \in [Calls -> {"free", "reader", "send"}]
        /\ \A d \in Calls \ {c} : frames'[d] = frames[d] /\ tx'[d] = tx[d]
    <3>1. CASE Frame(c) \/ Reply(c) \/ Send(c)
      <4>1. CASE Reply(c)
        BY <4>1 DEF Reply
      <4>2. CASE Frame(c) \/ Send(c)
        BY <4>2 DEF Frame, Send
      <4>3. QED
        BY <3>1, <4>1, <4>2
    <3>2. CASE Replied(c)
      BY <3>2 DEF Replied
    <3>3. CASE ReadFails(c) \/ Sent(c)
      BY <3>3 DEF ReadFails, Sent
    <3>4. QED
      BY <1>5, <3>1, <3>2, <3>3 DEF WebSocketStep
  <2>5. PICK e \in Seq(Handlers) : events' = [events EXCEPT ![c] = e]
                                  /\ e # <<>> /\ e[1] = "open"
                                  /\ (frames'[c] # "ended" => NoClose(e))
                                  /\ (frames'[c] = "ended" => HasClose(e))
                                  /\ ErrorsAfterClose(e)
    <3> DEFINE old == events[c]
    <3>1. old \in Seq(Handlers) /\ CloseEnds(c)
      OBVIOUS
    <3>2. CASE events' = events /\ (Live \/ frames'[c] = frames[c])
      <4>1. events' = [events EXCEPT ![c] = old]
        BY <3>2
      <4>2. QED
        BY <2>2, <3>1, <3>2, <4>1 DEF CloseEnds
    <3>3. CASE Call(c, "message") /\ Live
      <4> DEFINE new == Append(old, "message")
      <4>1. new \in Seq(Handlers) /\ new # <<>> /\ new[1] = "open"
        BY <2>2, <3>1, OneMore
      <4>2. NoClose(new) /\ ErrorsAfterClose(new)
        BY <3>1, <3>3, CloseKept DEF CloseEnds
      <4>3. events' = [events EXCEPT ![c] = new]
        BY <3>3 DEF Call
      <4> HIDE DEF new
      <4>4. QED
        BY <3>3, <4>1, <4>2, <4>3
    <3>4. CASE Call(c, "error") /\ frames'[c] = frames[c]
      <4> DEFINE new == Append(old, "error")
      <4>1. new \in Seq(Handlers) /\ new # <<>> /\ new[1] = "open"
        BY <2>2, <3>1, OneMore
      <4>2. (IF frames[c] = "ended" THEN HasClose(new) ELSE NoClose(new)) /\ ErrorsAfterClose(new)
        BY <3>1, <3>4, CloseKept DEF CloseEnds
      <4>3. events' = [events EXCEPT ![c] = new]
        BY <3>4 DEF Call
      <4> HIDE DEF new
      <4>4. QED
        BY <3>4, <4>1, <4>2, <4>3
    <3>5. CASE Call(c, "close") /\ frames[c] # "ended" /\ frames'[c] = "ended"
      <4> DEFINE new == Append(old, "close")
      <4>1. new \in Seq(Handlers) /\ new # <<>> /\ new[1] = "open"
        BY <2>2, <3>1, OneMore
      <4>2. HasClose(new) /\ ErrorsAfterClose(new)
        BY <3>1, <3>5, CloseKept DEF CloseEnds
      <4>3. events' = [events EXCEPT ![c] = new]
        BY <3>5 DEF Call
      <4> HIDE DEF new
      <4>4. QED
        BY <3>5, <4>1, <4>2, <4>3
    <3>6. CASE /\ events' = [events EXCEPT ![c] = @ \o <<"error", "close">>]
               /\ frames[c] # "ended" /\ frames'[c] = "ended"
      <4> DEFINE mid == Append(old, "error")
      <4>1. /\ mid \in Seq(Handlers) /\ mid # <<>> /\ mid[1] = "open"
            /\ NoClose(mid) /\ ErrorsAfterClose(mid)
        BY <2>2, <3>1, <3>6, OneMore, CloseKept DEF CloseEnds
      <4> HIDE DEF mid
      <4>2. LET new == Append(mid, "close") IN
            new \in Seq(Handlers) /\ new # <<>> /\ new[1] = "open" /\ HasClose(new) /\ ErrorsAfterClose(new)
        BY <4>1, OneMore, CloseKept
      <4>3. events' = [events EXCEPT ![c] = Append(mid, "close")]
        BY <3>1, <3>6, TwoMore DEF mid
      <4>4. QED
        BY <3>6, <4>2, <4>3
    <3>7. QED
      BY <2>3, <3>2, <3>3, <3>4, <3>5, <3>6
  <2>6. HandlerTypes'
    BY <2>1, <2>4, <2>5
  <2>7. events'[c] = e /\ \A d \in Calls \ {c} : events'[d] = events[d]
    BY <2>5
  <2>8. ReaderStands(c)' /\ CloseEnds(c)'
    BY <2>1, <2>2, <2>5, <2>7 DEF ReaderStands, CloseEnds
  <2>9. \A d \in Calls \ {c} : ReaderStands(d)' /\ CloseEnds(d)'
    BY <2>1, <2>4, <2>7 DEF ReaderStands, CloseEnds
  <2>10. QED
    BY <2>6, <2>8, <2>9
<1>6. CASE UNCHANGED vars
  BY <1>6 DEF vars, pvars, cvars, ReaderStands, CloseEnds
<1>7. QED
  BY <1>1, <1>2, <1>3, <1>4, <1>5, <1>6 DEF Next, Proceed

\* The handlers of a websocket are called in the order JavaScript expects,
\* whatever the reader task, send, close and the provider do in between.
THEOREM HandlersInOrder == Spec => []HandlersOrdered
<1>1. Init => HandlerInv
  BY DEF Init, ProviderInit, HandlerInv, HandlerTypes, ReaderStands, CloseEnds, NoClose,
         ErrorsAfterClose, Stages, Waiting, UnderMutex, Handlers
<1>2. HandlerInv /\ [Next]_vars => HandlerInv'
  BY HandlerInvNext
<1>3. HandlerInv => HandlersOrdered
  <2> SUFFICES ASSUME HandlerInv, NEW c \in Calls
               PROVE  LET e == events[c] IN
                      /\ stage[c] = "refused" => e = <<"error">>
                      /\ stage[c] # "refused" /\ e # <<>> => e[1] = "open"
                      /\ \A i, j \in DOMAIN e : i < j /\ e[i] = "close" => e[j] = "error"
                      /\ frames[c] = "ended" => "close" \in ToSet(e)
    BY DEF HandlersOrdered
  <2>1. events[c] \in Seq(Handlers) /\ DOMAIN events[c] = 1 .. Len(events[c])
    BY DEF HandlerInv, HandlerTypes
  <2>2. ReaderStands(c) /\ CloseEnds(c)
    BY DEF HandlerInv
  <2>3. frames[c] = "ended" => "close" \in ToSet(events[c])
    BY <2>1, <2>2 DEF CloseEnds, HasClose, ToSet
  <2>4. QED
    BY <2>1, <2>2, <2>3 DEF ReaderStands, CloseEnds, ErrorsAfterClose
<1>4. QED
  BY <1>1, <1>2, <1>3, PTL DEF Spec
-----------------------------------------------------------------------------
(***************************************************************************)
(* fetch.  The strengthening relates the answers a fetch got so far to the *)
(* redirects send_req has left and to the URL of the request under way.    *)
(***************************************************************************)
Known == Locations \cup {StartUrl}
Urls == [scheme : {u.scheme : u \in Known}, auth : {u.auth : u \in Known}, path : {u.path : u \in Known}]
Answers == [url : Urls, loc : Locations \cup {None}]
Results == [url : Urls, redirected : BOOLEAN]

FetchTypes ==
    /\ stage \in [Calls -> Stages]
    /\ url \in [Calls -> Urls]
    /\ follow \in [Calls -> BOOLEAN]
    /\ left \in [Calls -> 0 .. RedirectLimit]
    /\ trail \in [Calls -> Seq(Answers)]
    /\ result \in [Calls -> Results \cup {None}]

Fetched(c) == kind[c] = "fetch" /\ stage[c] = "done"

\* A location that is only a path keeps the origin, from one answer to the next.
PathStays(t) ==
    \A i \in 1 .. Len(t) - 1 : t[i].loc.scheme = None => SameOrigin(t[i].url, t[i + 1].url)

OnTheWay(c) ==
    LET t == trail[c] n == Len(trail[c]) IN
    /\ result[c] = None
    /\ n = RedirectLimit - left[c]
    /\ n > 0 /\ t[n].loc.scheme = None => SameOrigin(t[n].url, url[c])

Arrived(c) ==
    LET t == trail[c] n == Len(trail[c]) IN
    /\ n = RedirectLimit - left[c] + 1
    /\ result[c] = [url |-> t[n].url, redirected |-> n > 1]
    /\ t[n].loc \in Locations /\ follow[c] => left[c] = 0

FetchInv ==
    /\ FetchTypes
    /\ \A c \in Calls : /\ PathStays(trail[c])
                        /\ ~follow[c] => left[c] = RedirectLimit
                        /\ IF Fetched(c) THEN Arrived(c) ELSE OnTheWay(c)

\* get_redirect gives a URL, at the same origin if the location is only a path.
LEMMA RedirectIsUrl ==
    ASSUME NEW u \in Urls, NEW loc \in Locations
    PROVE  /\ GetRedirect(u, loc) \in Urls
           /\ loc.scheme = None => SameOrigin(u, GetRedirect(u, loc))
<1>1. loc = [scheme |-> loc.scheme, auth |-> loc.auth, path |-> loc.path]
  BY ClientAssumption
<1>2. loc.scheme \in {x.scheme : x \in Known} /\ loc.auth \in {x.auth : x \in Known}
      /\ loc.path \in {x.path : x \in Known}
  BY DEF Known
<1>3. loc \in Urls
  BY <1>1, <1>2 DEF Urls
<1>4. CASE loc.scheme = None
  BY <1>2, <1>4 DEF GetRedirect, Urls, SameOrigin
<1>5. CASE loc.scheme # None
  BY <1>3, <1>5 DEF GetRedirect
<1>6. QED
  BY <1>4, <1>5

\* The next answer, from the URL that was asked.
LEMMA OneMoreAnswer ==
    ASSUME NEW t \in Seq(Answers), NEW x \in Answers, PathStays(t),
           Len(t) > 0 /\ t[Len(t)].loc.scheme = None => SameOrigin(t[Len(t)].url, x.url)
    PROVE  /\ Append(t, x) \in Seq(Answers) /\ PathStays(Append(t, x))
           /\ Len(t) \in Nat /\ Len(Append(t, x)) = Len(t) + 1 /\ Append(t, x)[Len(t) + 1] = x
<1> DEFINE a == Append(t, x)
<1>1. /\ a \in Seq(Answers) /\ Len(t) \in Nat /\ Len(a) = Len(t) + 1
      /\ \A i \in 1 .. Len(t) : a[i] = t[i]
      /\ a[Len(t) + 1] = x
  BY AppendProperties, LenProperties
<1> HIDE DEF a
<1>2. ASSUME NEW i \in 1 .. Len(a) - 1, a[i].loc.scheme = None
      PROVE  SameOrigin(a[i].url, a[i + 1].url)
  <2>1. CASE i = Len(t)
    BY <1>1, <1>2, <2>1
  <2>2. CASE i \in 1 .. Len(t) - 1
    <3>1. a[i] = t[i] /\ a[i + 1] = t[i + 1]
      BY <1>1, <2>2
    <3>2. QED
      BY <1>2, <2>2, <3>1 DEF PathStays
  <2>3. QED
    BY <1>1, <2>1, <2>2
<1>3. QED
  BY <1>1, <1>2 DEF PathStays, a

LEMMA FetchInvNext ==
    ASSUME FetchInv, [Next]_vars
    PROVE  FetchInv'
<1> USE ClientAssumption
<1>1. ASSUME UNCHANGED <<kind, url, follow, left, trail, result>>, stage' \in [Calls -> Stages],
             \A c \in Calls : Fetched(c) <=> Fetched(c)'
      PROVE  FetchInv'
  BY <1>1 DEF FetchInv, FetchTypes, Arrived, OnTheWay
<1>2. ASSUME UNCHANGED cvars,
             \/ \E s \in Sockets : SocketStep(s)
             \/ \E c \in Calls : ProviderStep(c)
      PROVE  FetchInv'
  <2>1. /\ UNCHANGED kind /\ stage' \in [Calls -> Stages]
        /\ \A c \in Calls : ProviderMoves(c)
    BY <1>2, ProviderFrame DEF FetchInv, FetchTypes
  <2>2. \A c \in Calls : Fetched(c) <=> Fetched(c)'
    BY <2>1 DEF ProviderMoves, Fetched, Waiting, UnderMutex
  <2>3. QED
    BY <1>1, <1>2, <2>1, <2>2 DEF cvars
<1>3. ASSUME NEW c \in Calls, Start(c) \/ Upgrade(c) \/ NoStream(c) PROVE FetchInv'
  <2>1. /\ UNCHANGED <<kind, url, follow, left, trail, result>>
        /\ stage[c] = "idle" \/ kind[c] = "websocket"
        /\ \E to \in {"lock", "failed", "done", "refused"} :
              stage' = [stage EXCEPT ![c] = to] /\ (kind[c] # "websocket" => to # "done")
    BY <1>3 DEF Start, Connect, Upgrade, NoStream, Goto, KeepProvider, cvars
  <2>2. stage' \in [Calls -> Stages]
    BY <2>1 DEF FetchInv, FetchTypes, Stages, Waiting
  <2>3. \A d \in Calls : Fetched(d) <=> Fetched(d)'
    BY <2>1 DEF Fetched, FetchInv, FetchTypes
  <2>4. QED
    BY <1>1, <2>1, <2>2, <2>3
<1>4. ASSUME NEW c \in Calls, WebSocketStep(c) PROVE FetchInv'
  BY <1>1, <1>4
  DEF WebSocketStep, Frame, Reply, Replied, ReadFails, Send, Sent, pvars, FetchInv, FetchTypes, Fetched
<1>5. ASSUME NEW c \in Calls, Respond(c) PROVE FetchInv'
  <2> USE DEF FetchInv, FetchTypes
  <2>1. kind[c] = "fetch" /\ stage[c] = "stream" /\ UNCHANGED <<kind, follow>> /\ OnTheWay(c)
    BY <1>5 DEF Respond, KeepProvider, Fetched
  <2>2. CASE Goto(c, "failed") /\ UNCHANGED <<trail, url, left, result>>
    <3>1. stage' \in [Calls -> Stages]
      BY <2>2 DEF Goto, Stages
    <3>2. \A d \in Calls : Fetched(d) <=> Fetched(d)'
      BY <2>1, <2>2 DEF Fetched, Goto
    <3>3. QED
      BY <1>1, <2>1, <2>2, <3>1, <3>2
  <2>3. ASSUME NEW loc \in Locations \cup {None}, SendReq(c, loc),
               trail' = [trail EXCEPT ![c] = Append(@, [url |-> url[c], loc |-> loc])]
        PROVE  FetchInv'
    <3> DEFINE x == [url |-> url[c], loc |-> loc]
    <3> DEFINE t == trail[c]
    <3>1. /\ t \in Seq(Answers) /\ x \in Answers /\ PathStays(t) /\ x.url = url[c] /\ x.loc = loc
          /\ Len(t) > 0 /\ t[Len(t)].loc.scheme = None => SameOrigin(t[Len(t)].url, x.url)
      BY <2>1 DEF OnTheWay, Answers
    <3>2. /\ trail'[c] = Append(t, x) /\ Append(t, x) \in Seq(Answers) /\ PathStays(Append(t, x))
          /\ Len(t) \in Nat /\ Len(Append(t, x)) = Len(t) + 1 /\ Append(t, x)[Len(t) + 1] = x
      BY <2>3, <3>1, OneMoreAnswer
    <3>3. /\ trail' \in [Calls -> Seq(Answers)]
          /\ PathStays(trail'[c]) /\ Len(trail'[c]) = Len(t) + 1 /\ trail'[c][Len(t) + 1] = x
          /\ \A d \in Calls \ {c} : trail'[d] = trail[d]
      BY <2>3, <3>2
    <3> HIDE DEF x, t
    <3>4. Len(t) \in Nat /\ Len(t) = RedirectLimit - left[c] /\ result[c] = None
      BY <2>1, <3>2 DEF OnTheWay, t
    <3>5. CASE follow[c] /\ loc \in Locations /\ left[c] > 0
      <4>1. /\ left' = [left EXCEPT ![c] = @ - 1] /\ url' = [url EXCEPT ![c] = GetRedirect(@, loc)]
            /\ UNCHANGED result
            /\ \E to \in {"lock", "failed", "stream"} : stage' = [stage EXCEPT ![c] = to]
        BY <2>3, <3>5 DEF SendReq, Connect, Goto
      <4>2. FetchTypes'
        <5>1. url' \in [Calls -> Urls]
          BY <3>5, <4>1, RedirectIsUrl
        <5>2. left' \in [Calls -> 0 .. RedirectLimit]
          BY <3>5, <4>1
        <5>3. stage' \in [Calls -> Stages]
          BY <4>1 DEF Stages, Waiting
        <5>4. QED
          BY <2>1, <3>3, <4>1, <5>1, <5>2, <5>3
      <4>3. \A d \in Calls \ {c} : /\ stage'[d] = stage[d] /\ left'[d] = left[d] /\ url'[d] = url[d]
                                   /\ result'[d] = result[d]
        BY <4>1
      <4>4. ~Fetched(c)' /\ left'[c] = left[c] - 1 /\ url'[c] = GetRedirect(url[c], loc)
            /\ result'[c] = None
        BY <3>4, <4>1 DEF Fetched
      <4>5. OnTheWay(c)'
        <5>1. Len(trail'[c]) = RedirectLimit - left'[c]
          BY <3>3, <3>4, <4>4
        <5>2. x.loc.scheme = None => SameOrigin(x.url, url'[c])
          BY <3>1, <3>5, <4>4, RedirectIsUrl
        <5>3. QED
          BY <3>3, <4>4, <5>1, <5>2 DEF OnTheWay
      <4>6. ASSUME NEW d \in Calls \ {c}
            PROVE  /\ PathStays(trail'[d]) /\ (~follow'[d] => left'[d] = RedirectLimit)
                   /\ IF Fetched(d)' THEN Arrived(d)' ELSE OnTheWay(d)'
        <5>1. /\ UNCHANGED <<kind[d], stage[d], follow[d], trail[d], left[d], url[d], result[d]>>
              /\ d \in Calls
          BY <2>1, <3>3, <4>3
        <5>2. (Fetched(d) <=> Fetched(d)') /\ (Arrived(d) <=> Arrived(d)') /\ (OnTheWay(d) <=> OnTheWay(d)')
          BY <5>1 DEF Fetched, Arrived, OnTheWay
        <5>3. QED
          BY <5>1, <5>2
      <4>7. QED
        BY <2>1, <3>3, <3>5, <4>2, <4>4, <4>5, <4>6
    <3>6. CASE ~(follow[c] /\ loc \in Locations /\ left[c] > 0)
      <4>1. /\ result' = [result EXCEPT ![c] = [url |-> url[c], redirected |-> left[c] < RedirectLimit]]
            /\ stage' = [stage EXCEPT ![c] = "done"] /\ UNCHANGED <<url, left>>
        BY <2>3, <3>6 DEF SendReq, Goto
      <4>2. FetchTypes'
        <5>1. result' \in [Calls -> Results \cup {None}]
          BY <4>1 DEF Results
        <5>2. stage' \in [Calls -> Stages]
          BY <4>1 DEF Stages
        <5>3. QED
          BY <2>1, <3>3, <4>1, <5>1, <5>2
      <4>3. \A d \in Calls \ {c} : stage'[d] = stage[d] /\ result'[d] = result[d]
        BY <4>1
      <4>4. Fetched(c)' /\ result'[c] = [url |-> url[c], redirected |-> left[c] < RedirectLimit]
        BY <2>1, <4>1 DEF Fetched
      <4>5. Arrived(c)'
        <5>1. Len(trail'[c]) = RedirectLimit - left'[c] + 1 /\ Len(trail'[c]) = Len(t) + 1
          BY <3>3, <3>4, <4>1
        <5>2. (left[c] < RedirectLimit) <=> (Len(t) + 1 > 1)
          BY <3>4
        <5>3. result'[c] = [url |-> x.url, redirected |-> Len(t) + 1 > 1]
          BY <3>1, <4>4, <5>2
        <5>4. x.loc \in Locations /\ follow'[c] => left'[c] = 0
          BY <2>1, <3>1, <3>6, <4>1
        <5>5. QED
          BY <3>3, <5>1, <5>3, <5>4 DEF Arrived
      <4>6. ASSUME NEW d \in Calls \ {c}
            PROVE  /\ PathStays(trail'[d]) /\ (~follow'[d] => left'[d] = RedirectLimit)
                   /\ IF Fetched(d)' THEN Arrived(d)' ELSE OnTheWay(d)'
        <5>1. /\ UNCHANGED <<kind[d], stage[d], follow[d], trail[d], left[d], url[d], result[d]>>
              /\ d \in Calls
          BY <2>1, <3>3, <4>1, <4>3
        <5>2. (Fetched(d) <=> Fetched(d)') /\ (Arrived(d) <=> Arrived(d)') /\ (OnTheWay(d) <=> OnTheWay(d)')
          BY <5>1 DEF Fetched, Arrived, OnTheWay
        <5>3. QED
          BY <5>1, <5>2
      <4>7. QED
        BY <2>1, <3>3, <4>1, <4>2, <4>4, <4>5, <4>6
    <3>7. QED
      BY <3>5, <3>6
  <2>4. QED
    BY <1>5, <2>2, <2>3 DEF Respond
<1>6. CASE UNCHANGED vars
  BY <1>1, <1>6 DEF vars, pvars, cvars, FetchInv, FetchTypes, Fetched
<1>7. QED
  BY <1>2, <1>3, <1>4, <1>5, <1>6 DEF Next, Proceed

\* fetch reports the URL that answered and whether it was redirected, and hands
\* out a redirect only if the option or the limit says so, however many
\* redirects a server sends and whatever their locations.
THEOREM FetchIsTruthful == Spec => []FetchReportsTruth
<1>1. Init => FetchInv
  <2> SUFFICES ASSUME Init PROVE FetchInv
    OBVIOUS
  <2>1. StartUrl \in Urls
    BY ClientAssumption DEF Urls, Known
  <2>2. FetchTypes
    BY <2>1, ClientAssumption DEF Init, ProviderInit, FetchTypes, Stages
  <2>3. \A c \in Calls : PathStays(trail[c]) /\ left[c] = RedirectLimit /\ ~Fetched(c) /\ OnTheWay(c)
    BY ClientAssumption DEF Init, ProviderInit, PathStays, Fetched, OnTheWay
  <2>4. QED
    BY <2>2, <2>3 DEF FetchInv
<1>2. FetchInv /\ [Next]_vars => FetchInv'
  BY FetchInvNext
<1>3. FetchInv => FetchReportsTruth
  <2> SUFFICES ASSUME FetchInv, NEW c \in Calls, result[c] # None
               PROVE  LET t == trail[c] IN
                      /\ result[c].url = Last(t).url
                      /\ result[c].redirected = (Len(t) > 1)
                      /\ \A i \in 1 .. Len(t) - 1 :
                            t[i].loc.scheme = None => SameOrigin(t[i].url, t[i + 1].url)
                      /\ Last(t).loc \in Locations => Len(t) = IF follow[c] THEN RedirectLimit + 1 ELSE 1
    BY DEF FetchReportsTruth
  <2>1. Arrived(c) /\ PathStays(trail[c]) /\ (~follow[c] => left[c] = RedirectLimit)
    BY DEF FetchInv, OnTheWay
  <2>2. follow[c] \in BOOLEAN /\ left[c] \in 0 .. RedirectLimit
    BY DEF FetchInv, FetchTypes
  <2>3. QED
    BY <2>1, <2>2, ClientAssumption DEF Arrived, PathStays, Last
<1>4. QED
  BY <1>1, <1>2, <1>3, PTL DEF Spec
-----------------------------------------------------------------------------
\* current_client's mutex is held by exactly the calls that await under it.
MutexHeld ==
    \A c \in Calls : holder = c <=> stage[c] \in UnderMutex \cup {"stranded"}

\* get_stream and replace_client give the mutex of current_client back on every
\* way out: it is held by the one call that makes a transport, shakes hands,
\* awaits a refused multiplexor or an answer, or is stranded with its request.
THEOREM ProviderMutex == Spec => []MutexHeld
<1> USE DEF Stages, Waiting, UnderMutex
<1>1. Init => stage \in [Calls -> Stages] /\ MutexHeld
  BY ProviderAssumption DEF Init, ProviderInit, MutexHeld
<1>2. stage \in [Calls -> Stages] /\ MutexHeld /\ [Next]_vars => (stage \in [Calls -> Stages] /\ MutexHeld)'
  <2> SUFFICES ASSUME stage \in [Calls -> Stages], MutexHeld, [Next]_vars
               PROVE  stage' \in [Calls -> Stages] /\ MutexHeld'
    OBVIOUS
  <2> DEFINE Good == stage' \in [Calls -> Stages] /\ MutexHeld'
  <2> USE ProviderAssumption
  <2>1. ASSUME UNCHANGED <<holder, stage>> PROVE Good
    BY <2>1 DEF MutexHeld
  <2>2. ASSUME NEW s \in Sockets, LeaveLoop(s) PROVE Good
    <3> DEFINE waiting == {c \in Calls : stage[c] = "requested" /\ via[c] = s}
    <3>1. CASE waiting = {}
      BY <2>1, <2>2, <3>1 DEF LeaveLoop
    <3>2. CASE waiting # {}
      <4>1. PICK c \in Calls : stage[c] = "requested" /\ via[c] = s /\ holder = c
        BY <3>2 DEF MutexHeld
      <4>2. waiting = {c}
        BY <4>1 DEF MutexHeld
      <4>3. PICK to \in {"failed", "stranded"} :
               /\ stage' = [d \in Calls |-> IF d \in waiting THEN to ELSE stage[d]]
               /\ holder' = IF to = "failed" THEN None ELSE holder
        BY <2>2, <3>2 DEF LeaveLoop
      <4>4. stage' = [d \in Calls |-> IF d = c THEN to ELSE stage[d]]
        BY <4>2, <4>3
      <4>5. QED
        BY <4>1, <4>3, <4>4 DEF MutexHeld
    <3>3. QED
      BY <3>1, <3>2
  <2>3. ASSUME NEW s \in Sockets, SocketStep(s) PROVE Good
    <3>1. UNCHANGED <<holder, stage>> \/ LeaveLoop(s)
      BY <2>3 DEF SocketStep, OnOpen, OnMessage, OnError, OnClose, Listen, ActorRead, ActorStops,
                  PollClose, EndTask
    <3>2. QED
      BY <2>1, <2>2, <3>1
  <2>4. ASSUME NEW c \in Calls, NEW to \in Stages, stage' = [stage EXCEPT ![c] = to],
               \/ holder \in {None, c} /\ holder' = None /\ to \notin UnderMutex \cup {"stranded"}
               \/ holder \in {None, c} /\ holder' = c /\ to \in UnderMutex
               \/ UNCHANGED holder /\ stage[c] \notin UnderMutex \cup {"stranded"}
                                   /\ to \notin UnderMutex \cup {"stranded"}
        PROVE  Good
    BY <2>4 DEF MutexHeld
  <2>5. ASSUME NEW c \in Calls, ProviderStep(c) PROVE Good
    <3>1. CASE Lock(c)
      BY <2>4, <3>1 DEF Lock, Generate, Return
    <3>2. CASE Open(c)
      <4>1. holder = c
        BY <3>2 DEF Open, MutexHeld
      <4>2. QED
        BY <2>4, <3>2, <4>1 DEF Open, Opened, Settled, Return
    <3>3. CASE Handshake(c)
      <4>1. holder = c
        BY <3>3 DEF Handshake, MutexHeld
      <4>2. \/ Return(c, "failed") \/ Return(c, "done") \/ Return(c, "lock")
            \/ stage' = [stage EXCEPT ![c] = "refusing"] /\ UNCHANGED holder
        BY <3>3 DEF Handshake
      <4>3. QED
        BY <2>4, <4>1, <4>2 DEF Return
    <3>4. CASE Refused(c)
      <4>1. holder = c /\ Return(c, "failed")
        BY <3>4 DEF Refused, MutexHeld
      <4>2. QED
        BY <2>4, <4>1 DEF Return
    <3>5. CASE Answer(c)
      <4>1. holder = c /\ \E to \in {"stream", "failed"} : Return(c, to)
        BY <3>5 DEF Answer, MutexHeld
      <4>2. QED
        BY <2>4, <4>1 DEF Return
    <3>6. QED
      BY <2>5, <3>1, <3>2, <3>3, <3>4, <3>5 DEF ProviderStep
  <2>6. ASSUME NEW c \in Calls, Start(c) \/ Respond(c) \/ Upgrade(c) \/ NoStream(c) PROVE Good
    <3>1. /\ UNCHANGED holder /\ stage[c] \in {"idle", "stream", "failed"}
          /\ \E to \in {"lock", "failed", "stream", "done", "refused"} : stage' = [stage EXCEPT ![c] = to]
      BY <2>6 DEF Start, Respond, Upgrade, NoStream, SendReq, Connect, Goto, KeepProvider
    <3>2. QED
      BY <2>4, <3>1
  <2>7. ASSUME NEW c \in Calls, WebSocketStep(c) PROVE Good
    BY <2>1, <2>7 DEF WebSocketStep, Frame, Reply, Replied, ReadFails, Send, Sent, pvars
  <2>8. CASE UNCHANGED vars
    BY <2>1, <2>8 DEF vars, pvars
  <2>9. QED
    BY <2>3, <2>5, <2>6, <2>7, <2>8 DEF Next, Proceed
<1>3. QED
  BY <1>1, <1>2, PTL DEF Spec
=============================================================================
