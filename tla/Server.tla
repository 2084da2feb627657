------------------------------- MODULE Server -------------------------------
(***************************************************************************)
(* The tasks of the server and the tables they share: server/src/main.rs,  *)
(* handle/wisp/{mod,wispnet,twisp}.rs, handle/wsproxy.rs and stats.rs.     *)
(*                                                                         *)
(* A connection is one call of main::handle_stream.  A wisp connection     *)
(* spawns a stream task for every CONNECT, a ping task and the actor of    *)
(* its multiplexor; a wispnet connection is a client multiplexor that      *)
(* others route streams through; a wsproxy connection is itself one        *)
(* stream.  CLIENTS and the map inside an entry are always locked in this  *)
(* order, the inner one only under the outer one and neither across a wait *)
(* for anything else, so an access is one step.  WISPNET_SERVERS stays     *)
(* locked while route_wispnet waits for another multiplexor: its holder is *)
(* state.  Connection ids are taken to be unique.                          *)
(***************************************************************************)
EXTENDS Naturals, FiniteSets

CONSTANTS
  Wisp, Net, Proxy,  \* connections, by the handler they are dispatched to
  Tasks,             \* bound: streams ever asked for
  None,
  ProbeBodies        \* bytes a wispnet client sends after the header of a probe

Conns == Wisp \cup Net \cup Proxy

ASSUME ServerAssumption ==
  /\ Wisp \cap Net = {} /\ Wisp \cap Proxy = {} /\ Net \cap Proxy = {}
  /\ Conns \cap Tasks = {} /\ None \notin Conns \cup Tasks
  /\ {"tcp", "pty"} \cap Conns = {} /\ None \notin {"tcp", "pty"}
  /\ ProbeBodies \subseteq Nat

VARIABLES
  conn,       \* where the handler of each connection is
  mux,        \* the actor of its multiplexor; of a wsproxy its websocket
  ping,       \* the ping task of a wisp connection
  task,       \* where each stream task is
  owner,      \* the connection a stream task belongs to
  dest,       \* what it resolved to: a socket, a terminal, a wispnet connection
  stuck,      \* forwarding tasks blocked in a write, which see no end of stream
  told,       \* listeners the shutdown event reached (a connection: its ping)
  present,    \* the keys of CLIENTS
  entries,    \* the streams listed in the entry of each connection
  terms,      \* the map of terminals of each wisp connection
  published,  \* the keys of WISPNET_SERVERS
  tableBy,    \* the task that holds WISPNET_SERVERS
  req,        \* CreateStream requests queued at a wispnet multiplexor
  creating,   \* the request its actor is writing a CONNECT for
  handler,    \* its extension handler, which owns the transport lock if not idle
  answer      \* what new_stream returned to a task that routes

vars == <<conn, mux, ping, task, owner, dest, stuck, told, present, entries,
          terms, published, tableBy, req, creating, handler, answer>>
tableVars == <<published, tableBy, req, creating, handler, answer>>
taskVars == <<task, owner, dest, stuck, terms>>

Of(c) == {t \in Tasks : owner[t] = c}

(* The two selects of handle_stream in which the event is listened to, the *)
(* wait for WISPNET_SERVERS and for new_stream being part of the first.    *)
Resolving == {"resolve", "table", "reply"}
Forwarding == {"enter", "forward"}
Listening(t) == owner[t] \in Wisp /\ task[t] \in Resolving \cup Forwarding

(* What generate_stats lists. *)
Stats == [c \in present |-> entries[c]]

Init ==
  /\ conn = [c \in Conns |-> "none"] /\ mux = [c \in Conns |-> "none"]
  /\ ping = [c \in Wisp |-> "none"]
  /\ task = [t \in Tasks |-> "none"]
  /\ owner = [t \in Tasks |-> None] /\ dest = [t \in Tasks |-> None]
  /\ stuck = {} /\ told = {} /\ terms = [c \in Wisp |-> {}]
  /\ present = {} /\ entries = [c \in Conns |-> {}]
  /\ published = {} /\ tableBy = None
  /\ req = [n \in Net |-> {}] /\ creating = [n \in Net |-> None]
  /\ handler = [n \in Net |-> "idle"] /\ answer = [t \in Tasks |-> "none"]

-----------------------------------------------------------------------------
(* main::handle_stream and the set-up of the handlers. *)

Start(c) ==
  /\ c \in Wisp \cup Net /\ conn[c] = "none"
  /\ conn' = [conn EXCEPT ![c] = "setup"]
  /\ present' = present \cup {c} /\ entries' = [entries EXCEPT ![c] = {}]
  /\ UNCHANGED <<mux, ping, taskVars, told, tableVars>>

(* The names of tasks carry no meaning: the next one is any fixed choice. *)
NewTask(c, s) ==
  /\ \E t \in Tasks : task[t] = "none"
  /\ LET t == CHOOSE x \in Tasks : task[x] = "none"
     IN task' = [task EXCEPT ![t] = s] /\ owner' = [owner EXCEPT ![t] = c]

(* The handler has returned, and the transport and the map of terminals go  *)
(* with it.                                                                 *)
Remove(c) ==
  /\ conn' = [conn EXCEPT ![c] = "gone"] /\ mux' = [mux EXCEPT ![c] = "down"]
  /\ present' = present \ {c} /\ entries' = [entries EXCEPT ![c] = {}]
  /\ terms' = [w \in Wisp |-> IF w = c THEN {} ELSE terms[w]]
  /\ UNCHANGED <<ping, task, owner, dest, stuck, told, tableVars>>

(* The handshake of handle_wisp or handle_wispnet. *)
SetupMux(c) ==
  /\ c \in Wisp \cup Net /\ conn[c] = "setup"
  /\ mux' = [mux EXCEPT ![c] = "up"]
  /\ conn' = [conn EXCEPT ![c] = IF c \in Wisp THEN "serve" ELSE "publish"]
  /\ ping' = [w \in Wisp |-> IF w = c THEN "send" ELSE ping[w]]
  /\ UNCHANGED <<taskVars, told, present, entries, tableVars>>

(* A handshake that fails. *)
SetupFails(c) == conn[c] = "setup" /\ Remove(c)

(* handle_wsproxy gets to its destination without an await; a path or a udp *)
(* request that it refuses leaves everything as it was.                      *)
StartProxy(c) ==
  /\ c \in Proxy /\ conn[c] = "none"
  /\ NewTask(c, "resolve")
  /\ mux' = [mux EXCEPT ![c] = "up"] /\ conn' = [conn EXCEPT ![c] = "join"]
  /\ present' = present \cup {c} /\ entries' = [entries EXCEPT ![c] = {}]
  /\ UNCHANGED <<ping, dest, stuck, told, terms, tableVars>>

(* What the end of a multiplexor's future does to requests it did not take:  *)
(* its end of the channel goes, and whether the channel drops what it holds  *)
(* before the last sender goes, which the table keeps, is up to the library. *)
MuxEnds(c) ==
  /\ mux' = [mux EXCEPT ![c] = "down"]
  /\ \E drops \in IF c \in Net /\ req[c] # {} THEN BOOLEAN ELSE {TRUE} :
       answer' = [t \in Tasks |->
                    IF c \in Net /\ drops /\ task[t] = "reply" /\ t \in req[c]
                    THEN "err" ELSE answer[t]]
  /\ req' = [n \in Net |-> IF n = c THEN {} ELSE req[n]]

(* The transport ends or fails, or the peer's CLOSE ends the actor.  A      *)
(* wispnet actor notices only between two events, and outside its handler. *)
Down(c) ==
  /\ mux[c] = "up"
  /\ c \in Net => creating[c] = None /\ handler[c] = "idle"
  /\ MuxEnds(c)
  /\ UNCHANGED <<conn, ping, taskVars, told, present, entries, published, tableBy,
                 creating, handler>>

-----------------------------------------------------------------------------
(* handle_wisp: its loop over new streams, and its shut-down. *)

(* The actor announces a stream and the loop spawns its task, which runs    *)
(* when it is first polled; streams announced by an actor that has gone     *)
(* since are taken as well.                                                 *)
Connect(c) ==
  /\ c \in Wisp /\ mux[c] = "up"
  /\ NewTask(c, "spawned")
  /\ UNCHANGED <<conn, mux, ping, dest, stuck, told, present, entries, terms, tableVars>>

(* wait_for_stream returns None: close() finds the actor gone, and notify  *)
(* reaches the listeners there are now.                                    *)
Shutdown(c) ==
  /\ c \in Wisp /\ conn[c] = "serve" /\ mux[c] = "down"
  /\ told' = told \cup {t \in Of(c) : Listening(t)}
                  \cup {w \in {c} : ping[w] = "wait"}
  /\ conn' = [conn EXCEPT ![c] = "join"]
  /\ UNCHANGED <<mux, ping, taskVars, present, entries, tableVars>>

(* join_next until the set is empty; handle_wsproxy runs its stream itself. *)
Join(c) ==
  /\ conn[c] = "join" /\ (c \in Wisp => ping[c] = "done")
  /\ Of(c) = {}
  /\ Remove(c)

-----------------------------------------------------------------------------
(* The ping task. *)

PingTo(c, s) ==
  /\ ping' = [ping EXCEPT ![c] = s]
  /\ told' = IF s = "done" THEN told \ {c} ELSE told
  /\ UNCHANGED <<conn, mux, taskVars, present, entries, tableVars>>

\* Mutant: lock_ws does not look at whether the actor is still there.
PingAlways(c) == ping[c] = "send" /\ PingTo(c, "wait")

(* lock_ws fails once the actor is gone; the write may fail by itself. *)
PingSend(c) ==
  /\ ping[c] = "send"
  /\ \E s \in {"wait", "done"} : (mux[c] = "down" => s = "done") /\ PingTo(c, s)
PingTick(c) == ping[c] = "wait" /\ PingTo(c, "send")
PingTold(c) == ping[c] = "wait" /\ c \in told /\ PingTo(c, "done")

-----------------------------------------------------------------------------
(* A stream task: handle_stream of handle/wisp/mod.rs, or handle_wsproxy.   *)

(* A task that has returned belongs to nobody. *)
TaskAs(t, s, d) ==
  /\ task' = [task EXCEPT ![t] = s]
  /\ owner' = IF s = "done" THEN [owner EXCEPT ![t] = None] ELSE owner
  /\ dest' = [dest EXCEPT ![t] = IF s = "done" THEN None ELSE d]
  /\ told' = IF s = "done" THEN told \ {t} ELSE told
  /\ UNCHANGED <<conn, mux, ping, present>>
TaskTo(t, s) == TaskAs(t, s, dest[t])

FirstPoll(t) ==
  /\ task[t] = "spawned" /\ TaskTo(t, "resolve")
  /\ UNCHANGED <<stuck, entries, terms, tableVars>>

(* resolve and connect fail or refuse: the stream is closed with a reason. *)
Refused(t) ==
  /\ task[t] = "resolve" /\ TaskTo(t, "done")
  /\ UNCHANGED <<stuck, entries, terms, tableVars>>

Resolved(t) ==
  /\ task[t] = "resolve"
  /\ \E d \in {"tcp"} \cup (IF owner[t] \in Wisp THEN {"pty"} ELSE {}) \cup Net :
       TaskAs(t, IF d \in Net THEN "table" ELSE "register", d)
  /\ UNCHANGED <<stuck, entries, terms, tableVars>>

(* route_wispnet gets WISPNET_SERVERS.  The server may not be there, which  *)
(* is reported when the stream is forwarded, or its actor may be gone.      *)
RouteTake(t) ==
  /\ task[t] = "table" /\ tableBy = None
  /\ LET n == dest[t]
         there == n \in published
         sent == there /\ mux[n] = "up"
     IN /\ TaskAs(t, IF ~there THEN "register" ELSE IF sent THEN "reply" ELSE "done",
                     IF there THEN n ELSE None)
        /\ tableBy' = IF sent THEN t ELSE None
        /\ req' = IF sent THEN [req EXCEPT ![n] = @ \cup {t}] ELSE req
  /\ UNCHANGED <<stuck, entries, terms, published, creating, handler, answer>>

\* Mutant: the guard of the table lives as long as the stream.
RouteReplyHolds(t) ==
  /\ task[t] = "reply" /\ answer[t] # "none"
  /\ TaskTo(t, IF answer[t] = "ok" THEN "register" ELSE "done")
  /\ tableBy' = tableBy /\ answer' = [answer EXCEPT ![t] = "none"]
  /\ UNCHANGED <<stuck, entries, terms, published, req, creating, handler>>

RouteReply(t) ==
  /\ task[t] = "reply" /\ answer[t] # "none"
  /\ TaskTo(t, IF answer[t] = "ok" THEN "register" ELSE "done")
  /\ tableBy' = None /\ answer' = [answer EXCEPT ![t] = "none"]
  /\ UNCHANGED <<stuck, entries, terms, published, req, creating, handler>>

(* The event wins the first select; a guard held by the dropped future goes. *)
Cancel(t) ==
  /\ t \in told /\ task[t] \in Resolving
  /\ TaskTo(t, "done")
  /\ tableBy' = IF tableBy = t THEN None ELSE tableBy
  /\ answer' = [answer EXCEPT ![t] = "none"]
  /\ UNCHANGED <<stuck, entries, terms, published, req, creating, handler>>

Register(t) ==
  /\ task[t] = "register"
  /\ TaskTo(t, IF dest[t] \in {"tcp", None} THEN "forward" ELSE "enter")
  /\ entries' = IF owner[t] \in present
                THEN [entries EXCEPT ![owner[t]] = @ \cup {t}] ELSE entries
  /\ UNCHANGED <<stuck, terms, tableVars>>

(* The first step of forward_stream: a routed stream is listed at the       *)
(* connection it is routed to as well, a terminal in the map of terminals.  *)
Enter(t) ==
  /\ task[t] = "enter" /\ TaskTo(t, "forward")
  /\ terms' = IF dest[t] = "pty" THEN [terms EXCEPT ![owner[t]] = @ \cup {t}] ELSE terms
  /\ entries' = IF dest[t] \in Net \cap present
                THEN [entries EXCEPT ![dest[t]] = @ \cup {t}] ELSE entries
  /\ UNCHANGED <<stuck, tableVars>>

(* The other end stops taking data, for good as far as this server knows. *)
Block(t) ==
  /\ task[t] = "forward" /\ t \notin stuck /\ mux[owner[t]] = "up" /\ dest[t] # None
  /\ stuck' = stuck \cup {t}
  /\ UNCHANGED <<conn, mux, ping, task, owner, dest, told, present, entries, terms, tableVars>>

\* Mutant: the map keeps the terminal.
LeaveTerm(t) ==
  /\ terms' = terms
  /\ entries' = [n \in Conns |-> IF n = dest[t] THEN entries[n] \ {t} ELSE entries[n]]

(* The last step of forward_stream undoes what Enter did. *)
Leave(t) ==
  /\ terms' = [w \in Wisp |-> terms[w] \ {t}]
  /\ entries' = [n \in Conns |-> IF n = dest[t] THEN entries[n] \ {t} ELSE entries[n]]

(* forward_stream is through.  handle_wsproxy returns at once, and leaves    *)
(* its entry to main::handle_stream, if the wispnet server was not there.    *)
ForwardOver(t) ==
  /\ task[t] = "forward" /\ t \notin stuck
  /\ TaskTo(t, IF dest[t] = None /\ owner[t] \in Proxy THEN "done" ELSE "unregister")
  /\ Leave(t)
  /\ UNCHANGED <<stuck, tableVars>>

(* An end of the stream is seen, or there is nothing to forward. *)
ForwardEof(t) ==
  /\ task[t] = "forward"
  /\ \/ mux[owner[t]] = "down"
     \/ dest[t] \in Net /\ mux[dest[t]] = "down"
     \/ dest[t] = None
  /\ ForwardOver(t)

(* The destination, the program or the stream ends, or an operation fails. *)
ForwardEnd(t) == dest[t] # None /\ ForwardOver(t)

\* Mutant: a forwarding task that is told to stop just returns.
CancelReturns(t) ==
  /\ t \in told /\ task[t] \in Forwarding
  /\ TaskTo(t, "done") /\ stuck' = stuck \ {t}
  /\ UNCHANGED <<entries, terms, tableVars>>

(* The event wins the second select: what Leave would have undone stays. *)
CancelForward(t) ==
  /\ t \in told /\ task[t] \in Forwarding
  /\ TaskTo(t, "unregister") /\ stuck' = stuck \ {t}
  /\ UNCHANGED <<entries, terms, tableVars>>

Unregister(t) ==
  /\ task[t] = "unregister" /\ TaskTo(t, "done")
  /\ entries' = [entries EXCEPT ![owner[t]] = @ \ {t}]
  /\ UNCHANGED <<stuck, terms, tableVars>>

-----------------------------------------------------------------------------
(* handle_wispnet and the actor of its multiplexor. *)

Publish(n) ==
  /\ n \in Net /\ conn[n] = "publish" /\ tableBy = None
  /\ published' = published \cup {n} /\ conn' = [conn EXCEPT ![n] = "serve"]
  /\ UNCHANGED <<mux, ping, taskVars, told, present, entries, tableBy, req, creating, handler, answer>>

Unpublish(n) ==
  /\ n \in Net /\ conn[n] = "serve" /\ mux[n] = "down" /\ tableBy = None
  /\ published' = published \ {n} /\ conn' = [conn EXCEPT ![n] = "remove"]
  /\ UNCHANGED <<mux, ping, taskVars, told, present, entries, tableBy, req, creating, handler, answer>>

NetReturns(n) == n \in Net /\ conn[n] = "remove" /\ Remove(n)

(* The actor takes a request, and writes the CONNECT once it has the       *)
(* transport lock; meanwhile it polls nothing else.                        *)
NetCreate(n) ==
  /\ mux[n] = "up" /\ creating[n] = None
  /\ \E t \in req[n] : /\ creating' = [creating EXCEPT ![n] = t]
                       /\ req' = [req EXCEPT ![n] = @ \ {t}]
  /\ UNCHANGED <<conn, mux, ping, taskVars, told, present, entries, published, tableBy, handler, answer>>

NetCreated(n) ==
  /\ creating[n] # None /\ handler[n] = "idle"
  /\ \E a \in {"ok", "err"} :
       answer' = [t \in Tasks |-> IF t = creating[n] /\ task[t] = "reply" THEN a ELSE answer[t]]
  /\ creating' = [creating EXCEPT ![n] = None]
  /\ UNCHANGED <<conn, mux, ping, taskVars, told, present, entries, published, tableBy, req, handler>>

(* A probe: the header has been taken off, and the handler wants four       *)
(* bytes more.  A short packet is an error, which ends the actor; so does a *)
(* packet the handler dealt with, for which the read stream yields nothing. *)
Probe(n) ==
  /\ mux[n] = "up" /\ creating[n] = None /\ handler[n] = "idle"
  /\ \E body \in ProbeBodies :
       IF body < 4
       THEN MuxEnds(n) /\ UNCHANGED handler
       ELSE handler' = [handler EXCEPT ![n] = "table"] /\ UNCHANGED <<mux, req, answer>>
  /\ UNCHANGED <<conn, ping, taskVars, told, present, entries, published, tableBy, creating>>

ProbeAnswer(n) ==
  /\ handler[n] = "table" /\ creating[n] = None /\ tableBy = None
  /\ handler' = [handler EXCEPT ![n] = "idle"] /\ MuxEnds(n)
  /\ UNCHANGED <<conn, ping, taskVars, told, present, entries, published, tableBy, creating>>

-----------------------------------------------------------------------------
ConnStep(c) ==
  \/ Shutdown(c) \/ Join(c) \/ NetReturns(c) \/ Publish(c) \/ Unpublish(c)
PingStep(c) == PingSend(c) \/ PingTick(c) \/ PingTold(c)
TaskStep(t) ==
  \/ FirstPoll(t) \/ Refused(t) \/ Resolved(t)
  \/ RouteTake(t) \/ RouteReply(t) \/ Cancel(t)
  \/ Register(t) \/ Enter(t) \/ ForwardEof(t) \/ CancelForward(t) \/ Unregister(t)
NetStep(n) == NetCreate(n) \/ NetCreated(n) \/ ProbeAnswer(n)
Environment ==
  \/ \E c \in Conns : Start(c) \/ SetupMux(c) \/ SetupFails(c) \/ StartProxy(c) \/ Connect(c) \/ Down(c)
  \/ \E t \in Tasks : Block(t) \/ ForwardEnd(t)
  \/ \E n \in Net : Probe(n)

Next ==
  \/ \E c \in Conns : ConnStep(c)
  \/ \E c \in Wisp : PingStep(c)
  \/ \E t \in Tasks : TaskStep(t)
  \/ \E n \in Net : NetStep(n)
  \/ Environment

Spec == Init /\ [][Next]_vars

(* Tasks the runtime has are polled when they can go on; resolving a name   *)
(* and connecting to it end, by the time limits of the resolver and of TCP, *)
(* and the interval of the ping task ticks.  Nothing is asked of the peers. *)
FairSpec ==
  /\ Spec
  /\ \A c \in Conns : WF_vars(ConnStep(c))
  /\ \A c \in Wisp : WF_vars(PingStep(c))
  /\ \A t \in Tasks : WF_vars(TaskStep(t))
  /\ \A n \in Net : WF_vars(NetStep(n))

-----------------------------------------------------------------------------
(* Type invariant. *)
TypeOK ==
  /\ conn \in [Conns -> {"none", "setup", "publish", "serve", "join", "remove", "gone"}]
  /\ mux \in [Conns -> {"none", "up", "down"}]
  /\ ping \in [Wisp -> {"none", "send", "wait", "done"}]
  /\ task \in [Tasks -> Resolving \cup Forwarding
                          \cup {"none", "spawned", "register", "unregister", "done"}]
  /\ owner \in [Tasks -> Conns \cup {None}]
  /\ dest \in [Tasks -> {"tcp", "pty", None} \cup Net]
  /\ stuck \subseteq Tasks /\ terms \in [Wisp -> SUBSET Tasks] /\ told \subseteq Tasks \cup Wisp
  /\ present \subseteq Conns /\ entries \in [Conns -> SUBSET Tasks]
  /\ published \subseteq Net /\ tableBy \in Tasks \cup {None}
  /\ req \in [Net -> SUBSET Tasks] /\ creating \in [Net -> Tasks \cup {None}]
  /\ handler \in [Net -> {"idle", "table"}] /\ answer \in [Tasks -> {"none", "ok", "err"}]

(* The statistics of a wisp client list exactly the streams it has open,   *)
(* at whatever moment they are taken: a stream is listed before it carries *)
(* data and until it is through, and its client is listed as long as it    *)
(* has streams.  A client that left CLIENTS has none listed, those routed  *)
(* to it included (handle/wisp/mod.rs:268 and :296, main.rs:368).          *)
StatsExact ==
  /\ \A c \in Wisp :
       LET open == {t \in Of(c) : task[t] \in Forwarding \cup {"unregister"}}
       IN IF c \in DOMAIN Stats THEN Stats[c] = open ELSE open = {}
  /\ \A c \in Conns \ present : entries[c] = {}

(* A resize packet, which is handled while the actor is up, reaches only    *)
(* terminals that are open: no descriptor in the map is one that a finished *)
(* stream has closed, although a cancelled one leaves it there              *)
(* (twisp.rs:77 and :152).                                                  *)
TermMapLive ==
  \A c \in Wisp : mux[c] = "up" =>
    \A t \in terms[c] : owner[t] = c /\ task[t] \in Forwarding

(* The two ways in which a request to a wispnet multiplexor is never        *)
(* answered: its actor ended with the request still queued in a channel     *)
(* that keeps it, or its actor waits for the transport lock, which belongs  *)
(* to its extension handler, which waits for the table (wispnet.rs:127).    *)
Unanswerable ==
  \E t \in Tasks :
    /\ task[t] = "reply" /\ answer[t] = "none"
    /\ \/ mux[dest[t]] = "down"
       \/ creating[dest[t]] # None /\ handler[dest[t]] = "table"

(* A wisp connection whose multiplexor has ended is cleaned up, whatever    *)
(* its destinations do: streams blocked in a write, streams that are being  *)
(* resolved and streams the event does not reach all end, the ping ends,    *)
(* and the client leaves CLIENTS (handle/wisp/mod.rs:400-411); all that     *)
(* keeps it is a request of someone else that is never answered.            *)
ConnectionCleansUp ==
  \A c \in Wisp : []<>~Unanswerable => ((mux[c] = "down") ~> (conn[c] = "gone"))

(* The table of wispnet servers stays locked (wispnet.rs:146) for one of    *)
(* the two reasons above only.                                              *)
TableReleased ==
  \A t \in Tasks : []<>~Unanswerable => ((tableBy = t) ~> (tableBy # t))
=============================================================================
