---------------------------- MODULE Server_proofs ----------------------------
(***************************************************************************)
(* Proofs about Server, for any set of connections and stream tasks.       *)
(***************************************************************************)
EXTENDS Server, TLAPS

TaskStates == Resolving \cup Forwarding \cup {"none", "spawned", "register", "unregister", "done"}
Dests == {"tcp", "pty", None} \cup Net

\* NewTask starts one task that was not there and touches no other.
LEMMA NewTaskIsOne ==
    ASSUME NEW c, NEW s, NewTask(c, s)
    PROVE  \E t \in Tasks : /\ task[t] = "none"
                            /\ task' = [task EXCEPT ![t] = s]
                            /\ owner' = [owner EXCEPT ![t] = c]
  BY DEF NewTask

\* Every table of the server keeps its type; the statistics, the terminals and
\* the wispnet table only ever name connections and stream tasks of their kind.
THEOREM ServerTypeCorrect == Spec => []TypeOK
<1>1. Init => TypeOK
  BY ServerAssumption DEF Init, TypeOK, Conns, Resolving, Forwarding
<1>2. TypeOK /\ [Next]_vars => TypeOK'
  <2> SUFFICES ASSUME TypeOK, [Next]_vars
               PROVE  TypeOK'
    OBVIOUS
  <2> USE ServerAssumption DEF TypeOK, Conns, Resolving, Forwarding, taskVars, tableVars
  <2>1. ASSUME NEW c \in Conns, Start(c) \/ SetupMux(c) PROVE TypeOK'
    <3>1. CASE Start(c)
      BY <3>1 DEF Start
    <3>2. CASE SetupMux(c)
      BY <3>2 DEF SetupMux
    <3>3. QED
      BY <2>1, <3>1, <3>2
  <2>2. ASSUME NEW c \in Conns, SetupFails(c) \/ Join(c) \/ NetReturns(c) PROVE TypeOK'
    <3>1. Remove(c)
      BY <2>2 DEF SetupFails, Join, NetReturns
    <3>2. /\ conn' \in [Conns -> {"none", "setup", "publish", "serve", "join", "remove", "gone"}]
          /\ mux' \in [Conns -> {"none", "up", "down"}]
      BY <3>1 DEF Remove
    <3>3. /\ present' \subseteq Conns /\ entries' \in [Conns -> SUBSET Tasks]
          /\ terms' \in [Wisp -> SUBSET Tasks]
      BY <3>1 DEF Remove
    <3>4. QED
      BY <3>1, <3>2, <3>3 DEF Remove
  <2>3. ASSUME NEW c \in Conns, StartProxy(c) \/ Connect(c) PROVE TypeOK'
    <3>1. \E s \in {"resolve", "spawned"} : NewTask(c, s)
      BY <2>3 DEF StartProxy, Connect
    <3>2. /\ task' \in [Tasks -> TaskStates]
          /\ owner' \in [Tasks -> Conns \cup {None}]
      BY <3>1, NewTaskIsOne DEF TaskStates
    <3>3. /\ conn' \in [Conns -> {"none", "setup", "publish", "serve", "join", "remove", "gone"}]
          /\ mux' \in [Conns -> {"none", "up", "down"}]
          /\ present' \subseteq Conns /\ entries' \in [Conns -> SUBSET Tasks]
      <4>1. CASE StartProxy(c)
        BY <4>1 DEF StartProxy
      <4>2. CASE Connect(c)
        BY <4>2 DEF Connect
      <4>3. QED
        BY <2>3, <4>1, <4>2
    <3>4. UNCHANGED <<ping, dest, stuck, told, terms, tableVars>>
      BY <2>3 DEF StartProxy, Connect
    <3>5. QED
      BY <3>2, <3>3, <3>4 DEF TaskStates
  <2>4. ASSUME NEW c \in Conns, Down(c) PROVE TypeOK'
    BY <2>4 DEF Down, MuxEnds
  <2>5. ASSUME NEW c \in Conns, Shutdown(c) PROVE TypeOK'
    BY <2>5 DEF Shutdown, Of
  <2>6. ASSUME NEW c \in Wisp, PingStep(c) PROVE TypeOK'
    BY <2>6 DEF PingStep, PingSend, PingTick, PingTold, PingTo
  <2>7. ASSUME NEW t \in Tasks, NEW s \in TaskStates, NEW d \in Dests, TaskAs(t, s, d)
        PROVE  /\ task' \in [Tasks -> TaskStates] /\ owner' \in [Tasks -> Conns \cup {None}]
               /\ dest' \in [Tasks -> Dests] /\ told' \subseteq Tasks \cup Wisp
               /\ UNCHANGED <<conn, mux, ping, present>>
    BY <2>7 DEF TaskAs, TaskStates, Dests
  <2>8. ASSUME NEW t \in Tasks, NEW s \in TaskStates, TaskTo(t, s)
        PROVE  /\ task' \in [Tasks -> TaskStates] /\ owner' \in [Tasks -> Conns \cup {None}]
               /\ dest' \in [Tasks -> Dests] /\ told' \subseteq Tasks \cup Wisp
               /\ UNCHANGED <<conn, mux, ping, present>>
    BY <2>7, <2>8 DEF TaskTo, Dests
  <2> USE DEF TaskStates, Dests
  <2>9. ASSUME NEW t \in Tasks, FirstPoll(t) \/ Refused(t) PROVE TypeOK'
    BY <2>8, <2>9 DEF FirstPoll, Refused
  <2>10. ASSUME NEW t \in Tasks, Resolved(t) PROVE TypeOK'
    <3>1. PICK d \in {"tcp", "pty"} \cup Net :
             TaskAs(t, IF d \in Net THEN "table" ELSE "register", d)
      BY <2>10 DEF Resolved
    <3>2. QED
      BY <2>7, <2>10, <3>1 DEF Resolved
  <2>11. ASSUME NEW t \in Tasks, RouteTake(t) PROVE TypeOK'
    <3> DEFINE n == dest[t]
    <3>1. CASE n \notin published
      <4>1. TaskAs(t, "register", None) /\ tableBy' = None /\ req' = req
        BY <2>11, <3>1 DEF RouteTake
      <4>2. /\ task' \in [Tasks -> TaskStates] /\ owner' \in [Tasks -> Conns \cup {None}]
            /\ dest' \in [Tasks -> Dests] /\ told' \subseteq Tasks \cup Wisp
            /\ UNCHANGED <<conn, mux, ping, present>>
        BY <2>7, <4>1
      <4>3. QED
        BY <2>11, <4>1, <4>2 DEF RouteTake
    <3>2. CASE n \in published /\ mux[n] = "up"
      <4>1. TaskAs(t, "reply", n) /\ tableBy' = t /\ req' = [req EXCEPT ![n] = @ \cup {t}]
        BY <2>11, <3>2 DEF RouteTake
      <4>2. req' \in [Net -> SUBSET Tasks]
        BY <3>2, <4>1
      <4>3. /\ task' \in [Tasks -> TaskStates] /\ owner' \in [Tasks -> Conns \cup {None}]
            /\ dest' \in [Tasks -> Dests] /\ told' \subseteq Tasks \cup Wisp
            /\ UNCHANGED <<conn, mux, ping, present>>
        BY <2>7, <3>2, <4>1
      <4>4. QED
        BY <2>11, <4>1, <4>2, <4>3 DEF RouteTake
    <3>3. CASE n \in published /\ mux[n] # "up"
      <4>1. TaskAs(t, "done", n) /\ tableBy' = None /\ req' = req
        BY <2>11, <3>3 DEF RouteTake
      <4>2. /\ task' \in [Tasks -> TaskStates] /\ owner' \in [Tasks -> Conns \cup {None}]
            /\ dest' \in [Tasks -> Dests] /\ told' \subseteq Tasks \cup Wisp
            /\ UNCHANGED <<conn, mux, ping, present>>
        BY <2>7, <4>1
      <4>3. QED
        BY <2>11, <4>1, <4>2 DEF RouteTake
    <3>4. QED
      BY <3>1, <3>2, <3>3
  <2>12. ASSUME NEW t \in Tasks, RouteReply(t) \/ Cancel(t) PROVE TypeOK'
    BY <2>8, <2>12 DEF RouteReply, Cancel
  <2>13. ASSUME NEW t \in Tasks, Register(t) \/ Enter(t) PROVE TypeOK'
    BY <2>8, <2>13 DEF Register, Enter
  <2>14. ASSUME NEW t \in Tasks, ForwardOver(t) PROVE TypeOK'
    BY <2>8, <2>14 DEF ForwardOver, Leave
  <2>15. ASSUME NEW t \in Tasks, CancelForward(t) \/ Unregister(t) PROVE TypeOK'
    <3>1. CASE CancelForward(t)
      BY <2>8, <3>1 DEF CancelForward
    <3>2. CASE Unregister(t)
      <4>1. TaskTo(t, "done") /\ entries' \in [Conns -> SUBSET Tasks]
        BY <3>2 DEF Unregister
      <4>2. QED
        BY <2>8, <3>2, <4>1 DEF Unregister
    <3>3. QED
      BY <2>15, <3>1, <3>2
  <2>16. ASSUME NEW t \in Tasks, Block(t) PROVE TypeOK'
    BY <2>16 DEF Block
  <2>17. ASSUME NEW n \in Conns, Publish(n) \/ Unpublish(n) PROVE TypeOK'
    BY <2>17 DEF Publish, Unpublish
  <2>18. ASSUME NEW n \in Net, NetCreate(n) \/ NetCreated(n) PROVE TypeOK'
    <3>1. CASE NetCreate(n)
      BY <3>1 DEF NetCreate
    <3>2. CASE NetCreated(n)
      BY <3>2 DEF NetCreated
    <3>3. QED
      BY <2>18, <3>1, <3>2
  <2>19. ASSUME NEW n \in Net, Probe(n) \/ ProbeAnswer(n) PROVE TypeOK'
    <3>1. /\ mux' \in [Conns -> {"none", "up", "down"}]
          /\ req' \in [Net -> SUBSET Tasks] /\ answer' \in [Tasks -> {"none", "ok", "err"}]
      <4>1. CASE MuxEnds(n)
        BY <4>1 DEF MuxEnds
      <4>2. CASE UNCHANGED <<mux, req, answer>>
        BY <4>2
      <4>3. QED
        BY <2>19, <4>1, <4>2 DEF Probe, ProbeAnswer
    <3>2. handler' \in [Net -> {"idle", "table"}]
      BY <2>19 DEF Probe, ProbeAnswer
    <3>3. QED
      BY <2>19, <3>1, <3>2 DEF Probe, ProbeAnswer
  <2>20. CASE UNCHANGED vars
    BY <2>20 DEF vars
  <2>21. QED
    BY <2>1, <2>2, <2>3, <2>4, <2>5, <2>6, <2>9, <2>10, <2>11, <2>12, <2>13, <2>14, <2>15,
       <2>16, <2>17, <2>18, <2>19, <2>20
    DEF Next, ConnStep, TaskStep, NetStep, Environment, ForwardEof, ForwardEnd
<1>3. QED
  BY <1>1, <1>2, PTL DEF Spec
-----------------------------------------------------------------------------
(***************************************************************************)
(* The statistics and the terminals.  Both rest on the life of a wisp      *)
(* connection: it has tasks only while its handler is in its loop or joins *)
(* them, its actor is up only in the loop, and the shut-down event is sent *)
(* after the actor has gone.                                               *)
(***************************************************************************)
Open(t) == task[t] \in Forwarding \cup {"unregister"}

\* A task belongs to a connection from its spawning to its return.
Owned ==
  \A t \in Tasks : owner[t] = None <=> task[t] \in {"none", "done"}

\* handle_wisp and handle_wsproxy return after their tasks have.
OwnersThere ==
  /\ \A t \in Tasks : owner[t] \notin Net
  /\ \A t \in Tasks : owner[t] \in Wisp => conn[owner[t]] \in {"serve", "join"}
  /\ \A t \in Tasks : owner[t] \in Proxy => conn[owner[t]] = "join"
  /\ \A c \in Conns : c \in present <=> conn[c] \notin {"none", "gone"}

ActorInLoop ==
  \A c \in Wisp : /\ mux[c] = "up" => conn[c] = "serve"
                  /\ mux[c] = "none" => conn[c] \in {"none", "setup"}

\* What a task resolved to, as far as the tables depend on it.
Destined ==
  \A t \in Tasks : /\ task[t] \in {"table", "reply"} => dest[t] \in Net
                   /\ task[t] = "enter" => dest[t] \in Net \cup {"pty"}
                   /\ dest[t] = "pty" => owner[t] \in Wisp

\* The event reaches tasks of a connection whose actor is gone.
ToldAfterEnd ==
  \A t \in Tasks : t \in told => owner[t] \in Wisp /\ mux[owner[t]] = "down"

Listed ==
  /\ \A c \in Wisp, t \in Tasks : t \in entries[c] <=> owner[t] = c /\ Open(t)
  /\ \A c \in Conns \ present : entries[c] = {}

TermsFresh ==
  \A c \in Wisp : conn[c] \in {"none", "setup"} => terms[c] = {}

LifeInv == Owned /\ OwnersThere /\ ActorInLoop /\ Destined /\ ToldAfterEnd
TableInv == Listed /\ TermsFresh /\ TermMapLive

\* What TaskAs does to the four functions of a task, and to nothing else.
LEMMA TaskAsMoves ==
    ASSUME TypeOK, NEW t \in Tasks, NEW s \in TaskStates, NEW d \in Dests, TaskAs(t, s, d)
    PROVE  /\ UNCHANGED <<conn, mux, ping, present>>
           /\ task'[t] = s
           /\ owner'[t] = (IF s = "done" THEN None ELSE owner[t])
           /\ dest'[t] = (IF s = "done" THEN None ELSE d)
           /\ told' \subseteq told /\ (s = "done" => t \notin told')
           /\ \A u \in Tasks \ {t} :
                task'[u] = task[u] /\ owner'[u] = owner[u] /\ dest'[u] = dest[u]
  BY DEF TaskAs, TypeOK

LEMMA TaskKeepsLife ==
    ASSUME TypeOK, LifeInv,
           NEW t \in Tasks, NEW s \in TaskStates \ {"none"}, NEW d \in Dests, TaskAs(t, s, d),
           task[t] \notin {"none", "done"},
           s \in {"table", "reply"} => d \in Net,
           s = "enter" => d \in Net \cup {"pty"},
           d = "pty" => owner[t] \in Wisp
    PROVE  LifeInv'
<1> USE ServerAssumption DEF LifeInv, TypeOK, Conns
<1>1. /\ UNCHANGED <<conn, mux, ping, present>>
      /\ task'[t] = s
      /\ owner'[t] = (IF s = "done" THEN None ELSE owner[t])
      /\ dest'[t] = (IF s = "done" THEN None ELSE d)
      /\ told' \subseteq told /\ (s = "done" => t \notin told')
      /\ \A u \in Tasks \ {t} :
                task'[u] = task[u] /\ owner'[u] = owner[u] /\ dest'[u] = dest[u]
  BY TaskAsMoves
<1>2. Owned'
  BY <1>1 DEF Owned
<1>3. OwnersThere'
  <2>1. \A u \in Tasks : owner'[u] = owner[u] \/ owner'[u] = None
    BY <1>1
  <2>2. UNCHANGED <<conn, present>>
    BY <1>1
  <2>3. QED
    BY <2>1, <2>2 DEF OwnersThere
<1>4. ActorInLoop'
  BY <1>1 DEF ActorInLoop
<1>5. Destined'
  BY <1>1 DEF Destined
<1>6. ToldAfterEnd'
  BY <1>1 DEF ToldAfterEnd
<1>7. QED
  BY <1>2, <1>3, <1>4, <1>5, <1>6

LEMMA NewTaskKeepsLife ==
    ASSUME TypeOK, LifeInv, NEW c \in Conns, StartProxy(c) \/ Connect(c)
    PROVE  LifeInv'
<1> USE ServerAssumption DEF LifeInv, TypeOK, Conns
<1>1. PICK t \in Tasks, s \in {"resolve", "spawned"} :
         /\ task[t] = "none"
         /\ task' = [task EXCEPT ![t] = s] /\ owner' = [owner EXCEPT ![t] = c]
  <2>1. \E s \in {"resolve", "spawned"} : NewTask(c, s)
    BY DEF StartProxy, Connect
  <2>2. QED
    BY <2>1, NewTaskIsOne
<1>2. owner[t] = None /\ t \notin told /\ dest[t] # "pty"
  BY <1>1 DEF Owned, ToldAfterEnd, Destined
<1>3. /\ UNCHANGED <<dest, told>>
      /\ \A w \in Wisp : conn'[w] = conn[w] /\ mux'[w] = mux[w]
      /\ c \in Wisp => conn[c] = "serve"
      /\ c \in Proxy => conn'[c] = "join"
      /\ c \notin Net
      /\ \A e \in Conns : conn[e] # "none" => conn'[e] = conn[e]
  BY DEF StartProxy, Connect, ActorInLoop
<1>4. Owned'
  BY <1>1 DEF Owned
<1>5. \A e \in Conns : e \in present' <=> conn'[e] \notin {"none", "gone"}
  BY DEF StartProxy, Connect, OwnersThere
<1>6. OwnersThere'
  BY <1>1, <1>3, <1>5 DEF OwnersThere
<1>7. ActorInLoop'
  BY <1>3 DEF ActorInLoop
<1>8. Destined'
  BY <1>1, <1>2, <1>3 DEF Destined
<1>9. ToldAfterEnd'
  BY <1>1, <1>2, <1>3 DEF ToldAfterEnd
<1>10. QED
  BY <1>4, <1>6, <1>7, <1>8, <1>9

LEMMA LifeInvNext ==
    ASSUME TypeOK, LifeInv, [Next]_vars
    PROVE  LifeInv'
<1> USE ServerAssumption DEF TypeOK, Conns
<1>1. ASSUME NEW c \in Conns, \/ Start(c) \/ SetupMux(c) \/ Shutdown(c) \/ Publish(c) \/ Unpublish(c)
      PROVE  LifeInv'
  <2> USE DEF LifeInv, taskVars, tableVars
  <2>1. UNCHANGED <<task, owner, dest>>
    BY <1>1 DEF Start, SetupMux, Shutdown, Publish, Unpublish
  <2>2. Owned' /\ Destined'
    BY <2>1 DEF Owned, Destined
  <2>3. ActorInLoop'
    BY <1>1 DEF ActorInLoop, Start, SetupMux, Shutdown, Publish, Unpublish
  <2>4. OwnersThere'
    BY <1>1, <2>1 DEF OwnersThere, Start, SetupMux, Shutdown, Publish, Unpublish
  <2>5. ToldAfterEnd'
    BY <1>1, <2>1 DEF ToldAfterEnd, OwnersThere, Start, SetupMux, Shutdown, Publish, Unpublish,
                      Of, Listening
  <2>6. QED
    BY <2>2, <2>3, <2>4, <2>5
<1>2. ASSUME NEW c \in Conns, SetupFails(c) \/ Join(c) \/ NetReturns(c)
      PROVE  LifeInv'
  <2> USE DEF LifeInv
  <2>1. Remove(c) /\ (\A t \in Tasks : owner[t] # c)
    BY <1>2 DEF SetupFails, Join, NetReturns, Of, OwnersThere
  <2>2. UNCHANGED <<task, owner, dest, told>>
    BY <2>1 DEF Remove
  <2>3. Owned' /\ Destined'
    BY <2>2 DEF Owned, Destined
  <2>4. ActorInLoop' /\ OwnersThere'
    BY <2>1, <2>2 DEF ActorInLoop, OwnersThere, Remove
  <2>5. ToldAfterEnd'
    BY <2>1, <2>2 DEF ToldAfterEnd, Remove
  <2>6. QED
    BY <2>3, <2>4, <2>5
<1>3. ASSUME NEW c \in Conns, StartProxy(c) \/ Connect(c)
      PROVE  LifeInv'
  BY <1>3, NewTaskKeepsLife
<1>4. ASSUME NEW c \in Conns, mux[c] = "up" \/ c \in Net, mux' = [mux EXCEPT ![c] = "down"] \/ mux' = mux,
             UNCHANGED <<conn, task, owner, dest, told, present>>
      PROVE  LifeInv'
  BY <1>4 DEF LifeInv, Owned, OwnersThere, ActorInLoop, Destined, ToldAfterEnd
<1>5. ASSUME NEW c \in Wisp, PingStep(c)
      PROVE  LifeInv'
  <2>1. /\ UNCHANGED <<conn, mux, task, owner, dest, present>>
        /\ told' \subseteq told
    BY <1>5 DEF PingStep, PingSend, PingTick, PingTold, PingTo, taskVars
  <2>2. QED
    BY <2>1 DEF LifeInv, Owned, OwnersThere, ActorInLoop, Destined, ToldAfterEnd
<1>6. ASSUME NEW t \in Tasks, TaskStep(t) \/ ForwardEnd(t)
      PROVE  LifeInv'
  <2>1. ASSUME NEW s \in TaskStates \ {"none", "table", "reply", "enter"}, TaskTo(t, s),
               task[t] \notin {"none", "done"}
        PROVE  LifeInv'
    BY <2>1, TaskKeepsLife DEF TaskTo, LifeInv, Destined, Dests
  <2> USE DEF TaskStates, Resolving, Forwarding
  <2>2. CASE FirstPoll(t) \/ Refused(t)
    BY <2>1, <2>2 DEF FirstPoll, Refused
  <2>3. CASE Resolved(t)
    <3>1. PICK d \in {"tcp"} \cup (IF owner[t] \in Wisp THEN {"pty"} ELSE {}) \cup Net :
             TaskAs(t, IF d \in Net THEN "table" ELSE "register", d)
      BY <2>3 DEF Resolved
    <3>2. task[t] = "resolve" /\ d \in Dests /\ (d = "pty" => owner[t] \in Wisp)
      BY <2>3 DEF Resolved, Dests
    <3>3. CASE d \in Net
      BY <3>1, <3>2, <3>3, TaskKeepsLife
    <3>4. CASE d \notin Net
      BY <3>1, <3>2, <3>4, TaskKeepsLife
    <3>5. QED
      BY <3>3, <3>4
  <2>4. CASE RouteTake(t)
    <3>1. task[t] = "table" /\ dest[t] \in Net
      BY <2>4 DEF RouteTake, LifeInv, Destined
    <3>2. \/ TaskAs(t, "register", None)
          \/ TaskAs(t, "reply", dest[t]) \/ TaskAs(t, "done", dest[t])
      BY <2>4 DEF RouteTake
    <3>3. dest[t] \in Dests /\ None \in Dests /\ dest[t] # "pty" /\ None # "pty"
      BY <3>1 DEF Dests
    <3>4. QED
      BY <3>1, <3>2, <3>3, TaskKeepsLife
  <2>5. CASE RouteReply(t) \/ Cancel(t)
    BY <2>1, <2>5 DEF RouteReply, Cancel
  <2>6. CASE Register(t)
    <3>1. /\ task[t] = "register" /\ dest[t] \in Dests
          /\ (dest[t] = "pty" => owner[t] \in Wisp)
          /\ TaskAs(t, IF dest[t] \in {"tcp", None} THEN "forward" ELSE "enter", dest[t])
      BY <2>6 DEF Register, LifeInv, Destined, Dests, TaskTo
    <3>2. CASE dest[t] \in {"tcp", None}
      BY <3>1, <3>2, TaskKeepsLife
    <3>3. CASE dest[t] \notin {"tcp", None}
      <4>1. dest[t] \in Net \cup {"pty"}
        BY <3>1, <3>3 DEF Dests
      <4>2. QED
        BY <3>1, <3>3, <4>1, TaskKeepsLife
    <3>4. QED
      BY <3>2, <3>3
  <2>7. CASE Enter(t)
    BY <2>1, <2>7 DEF Enter
  <2>8. CASE ForwardOver(t)
    BY <2>1, <2>8 DEF ForwardOver
  <2>9. CASE CancelForward(t) \/ Unregister(t)
    BY <2>1, <2>9 DEF CancelForward, Unregister
  <2>10. QED
    BY <1>6, <2>2, <2>3, <2>4, <2>5, <2>6, <2>7, <2>8, <2>9 DEF TaskStep, ForwardEof, ForwardEnd
<1>7. ASSUME NEW c \in Conns, Down(c)
      PROVE  LifeInv'
  BY <1>4, <1>7 DEF Down, MuxEnds, taskVars
<1>8. ASSUME NEW n \in Net, NetStep(n) \/ Probe(n)
      PROVE  LifeInv'
  BY <1>4, <1>8 DEF NetStep, NetCreate, NetCreated, Probe, ProbeAnswer, MuxEnds, taskVars
<1>9. ASSUME NEW t \in Tasks, Block(t) PROVE LifeInv'
  BY <1>9 DEF Block, LifeInv, Owned, OwnersThere, ActorInLoop, Destined, ToldAfterEnd
<1>10. CASE UNCHANGED vars
  BY <1>10 DEF vars, LifeInv, Owned, OwnersThere, ActorInLoop, Destined, ToldAfterEnd
<1>11. QED
  BY <1>1, <1>2, <1>3, <1>5, <1>6, <1>7, <1>8, <1>9, <1>10
  DEF Next, ConnStep, Environment

\* A task that is not listed and will not be, or is and will be, moves without
\* a change of the tables.
LEMMA QuietMove ==
    ASSUME TypeOK, LifeInv, TableInv,
           NEW t \in Tasks, NEW s \in TaskStates, NEW d \in Dests, TaskAs(t, s, d),
           UNCHANGED <<entries, terms>>,
           \/ task[t] \notin Forwarding \cup {"unregister"} /\ s \notin Forwarding \cup {"unregister"}
           \/ t \in told /\ task[t] \in Forwarding /\ s = "unregister"
    PROVE  TableInv'
<1> USE ServerAssumption DEF TypeOK, Conns, Forwarding
<1>1. /\ UNCHANGED <<conn, mux, ping, present>>
      /\ task'[t] = s
      /\ owner'[t] = (IF s = "done" THEN None ELSE owner[t])
      /\ \A u \in Tasks \ {t} : task'[u] = task[u] /\ owner'[u] = owner[u]
  BY TaskAsMoves
<1>2. Listed'
  BY <1>1 DEF TableInv, Listed, Open
<1>3. TermsFresh'
  BY <1>1 DEF TableInv, TermsFresh
<1>4. TermMapLive'
  BY <1>1 DEF TableInv, TermMapLive, LifeInv, ToldAfterEnd
<1>5. QED
  BY <1>2, <1>3, <1>4 DEF TableInv

LEMMA TableInvNext ==
    ASSUME TypeOK, LifeInv, TableInv, [Next]_vars
    PROVE  TableInv'
<1> USE ServerAssumption DEF TypeOK, Conns
<1>1. ASSUME NEW c \in Conns, Start(c) \/ SetupMux(c) \/ Shutdown(c)
      PROVE  TableInv'
  <2>1. /\ UNCHANGED <<task, owner, terms>>
        /\ \A u \in Tasks : conn[c] \in {"none", "setup"} => owner[u] # c
    BY <1>1 DEF Start, SetupMux, Shutdown, taskVars, LifeInv, OwnersThere
  <2>2. Listed'
    BY <1>1, <2>1 DEF TableInv, Listed, Open, Start, SetupMux, Shutdown
  <2>3. TermsFresh'
    BY <1>1, <2>1 DEF TableInv, TermsFresh, Start, SetupMux, Shutdown
  <2>4. TermMapLive'
    BY <1>1, <2>1 DEF TableInv, TermMapLive, TermsFresh, Start, SetupMux, Shutdown
  <2>5. QED
    BY <2>2, <2>3, <2>4 DEF TableInv
<1>2. ASSUME NEW c \in Conns, SetupFails(c) \/ Join(c) \/ NetReturns(c)
      PROVE  TableInv'
  <2>1. Remove(c) /\ (\A t \in Tasks : owner[t] # c)
    BY <1>2 DEF SetupFails, Join, NetReturns, Of, LifeInv, OwnersThere
  <2>2. UNCHANGED <<task, owner>>
    BY <2>1 DEF Remove
  <2>3. Listed'
    BY <2>1, <2>2 DEF TableInv, Listed, Open, Remove
  <2>4. TermsFresh'
    BY <2>1 DEF TableInv, TermsFresh, Remove
  <2>5. TermMapLive'
    BY <2>1, <2>2 DEF TableInv, TermMapLive, Remove
  <2>6. QED
    BY <2>3, <2>4, <2>5 DEF TableInv
<1>3. ASSUME NEW c \in Conns, StartProxy(c) \/ Connect(c)
      PROVE  TableInv'
  <2>1. PICK t \in Tasks, s \in {"resolve", "spawned"} :
           /\ task[t] = "none"
           /\ task' = [task EXCEPT ![t] = s] /\ owner' = [owner EXCEPT ![t] = c]
    <3>1. \E s \in {"resolve", "spawned"} : NewTask(c, s)
      BY <1>3 DEF StartProxy, Connect
    <3>2. QED
      BY <3>1, NewTaskIsOne
  <2>2. /\ UNCHANGED terms
        /\ \A w \in Wisp : /\ conn'[w] = conn[w] /\ mux'[w] = mux[w] /\ entries'[w] = entries[w]
        /\ \A e \in Conns \ present' : e \notin present /\ entries'[e] = entries[e]
    BY <1>3 DEF StartProxy, Connect
  <2>3. Listed'
    BY <2>1, <2>2 DEF TableInv, Listed, Open, Forwarding
  <2>4. TermsFresh'
    BY <2>2 DEF TableInv, TermsFresh
  <2>5. TermMapLive'
    BY <2>1, <2>2 DEF TableInv, TermMapLive, Forwarding
  <2>6. QED
    BY <2>3, <2>4, <2>5 DEF TableInv
<1>4. ASSUME UNCHANGED <<task, owner, terms, entries, present>>,
             \A w \in Wisp : mux'[w] = "up" => mux[w] = "up",
             \A w \in Wisp : conn'[w] = conn[w]
      PROVE  TableInv'
  BY <1>4 DEF TableInv, Listed, Open, TermsFresh, TermMapLive
<1>5. ASSUME NEW t \in Tasks, TaskStep(t) \/ ForwardEnd(t)
      PROVE  TableInv'
  <2> USE DEF TaskStates, Resolving, Forwarding, Dests
  <2>1. CASE FirstPoll(t) \/ Refused(t) \/ RouteReply(t) \/ Cancel(t)
    BY <2>1, QuietMove DEF FirstPoll, Refused, RouteReply, Cancel, TaskTo
  <2>2. CASE Resolved(t)
    <3>1. PICK d \in {"tcp", "pty"} \cup Net :
             TaskAs(t, IF d \in Net THEN "table" ELSE "register", d)
      BY <2>2 DEF Resolved
    <3>2. task[t] = "resolve" /\ UNCHANGED <<entries, terms>> /\ d \in Dests
      BY <2>2 DEF Resolved
    <3>3. QED
      BY <3>1, <3>2, QuietMove
  <2>3. CASE RouteTake(t)
    <3>1. \/ TaskAs(t, "register", None)
          \/ TaskAs(t, "reply", dest[t]) \/ TaskAs(t, "done", dest[t])
      BY <2>3 DEF RouteTake
    <3>2. task[t] = "table" /\ UNCHANGED <<entries, terms>> /\ dest[t] \in Dests /\ None \in Dests
      BY <2>3 DEF RouteTake
    <3>3. QED
      BY <3>1, <3>2, QuietMove
  <2>4. CASE CancelForward(t)
    BY <2>4, QuietMove DEF CancelForward, TaskTo
  <2>5. ASSUME NEW s \in {"forward", "enter", "unregister", "done"}, TaskTo(t, s)
        PROVE  /\ UNCHANGED <<conn, mux, ping, present>>
               /\ task'[t] = s
               /\ owner'[t] = (IF s = "done" THEN None ELSE owner[t])
               /\ \A u \in Tasks \ {t} : task'[u] = task[u] /\ owner'[u] = owner[u]
    <3>1. s \in TaskStates /\ dest[t] \in Dests
      BY <2>5
    <3>2. TaskAs(t, s, dest[t])
      BY <2>5 DEF TaskTo
    <3>3. QED
      BY <3>1, <3>2 DEF TaskAs
  <2>6. CASE Register(t)
    <3>1. PICK s \in {"forward", "enter"} : TaskTo(t, s)
      BY <2>6 DEF Register
    <3>2. /\ UNCHANGED <<conn, mux, ping, present, terms>>
          /\ task'[t] = s /\ owner'[t] = owner[t] /\ owner[t] \in present
          /\ \A u \in Tasks \ {t} : task'[u] = task[u] /\ owner'[u] = owner[u]
      BY <2>5, <2>6, <3>1 DEF Register, LifeInv, Owned, OwnersThere
    <3>3. task[t] = "register" /\ entries' = [entries EXCEPT ![owner[t]] = @ \cup {t}]
      BY <2>6, <3>2 DEF Register
    <3>4. Listed'
      BY <3>2, <3>3 DEF TableInv, Listed, Open
    <3>5. TermsFresh' /\ TermMapLive'
      BY <3>2, <3>3 DEF TableInv, TermsFresh, TermMapLive
    <3>6. QED
      BY <3>4, <3>5 DEF TableInv
  <2>7. CASE Enter(t)
    <3>1. /\ UNCHANGED <<conn, mux, ping, present>>
          /\ task'[t] = "forward" /\ owner'[t] = owner[t]
          /\ \A u \in Tasks \ {t} : task'[u] = task[u] /\ owner'[u] = owner[u]
      BY <2>5, <2>7 DEF Enter
    <3>2. /\ task[t] = "enter" /\ dest[t] \in Net \cup {"pty"}
          /\ dest[t] = "pty" => owner[t] \in Wisp /\ conn[owner[t]] \in {"serve", "join"}
      BY <2>7 DEF Enter, LifeInv, Destined, OwnersThere
    <3>3. Listed'
      BY <2>7, <3>1, <3>2 DEF Enter, TableInv, Listed, Open
    <3>4. TermsFresh' /\ TermMapLive'
      BY <2>7, <3>1, <3>2 DEF Enter, TableInv, TermsFresh, TermMapLive
    <3>5. QED
      BY <3>3, <3>4 DEF TableInv
  <2>8. CASE ForwardOver(t)
    <3>1. PICK s \in {"unregister", "done"} :
             TaskTo(t, s) /\ (owner[t] \in Wisp => s = "unregister")
      BY <2>8 DEF ForwardOver
    <3>2. /\ UNCHANGED <<conn, mux, ping, present>>
          /\ task'[t] = s
          /\ owner'[t] = (IF s = "done" THEN None ELSE owner[t])
          /\ \A u \in Tasks \ {t} : task'[u] = task[u] /\ owner'[u] = owner[u]
      BY <2>5, <3>1
    <3>3. task[t] = "forward" /\ Leave(t)
      BY <2>8 DEF ForwardOver
    <3>4. \A w \in Wisp : entries'[w] = entries[w]
      BY <3>3 DEF Leave
    <3>5. Listed'
      BY <3>1, <3>2, <3>3, <3>4 DEF Leave, TableInv, Listed, Open
    <3>6. TermsFresh' /\ TermMapLive'
      BY <3>2, <3>3 DEF Leave, TableInv, TermsFresh, TermMapLive
    <3>7. QED
      BY <3>5, <3>6 DEF TableInv
  <2>9. CASE Unregister(t)
    <3>1. /\ UNCHANGED <<conn, mux, ping, present, terms>>
          /\ task'[t] = "done" /\ owner'[t] = None
          /\ \A u \in Tasks \ {t} : task'[u] = task[u] /\ owner'[u] = owner[u]
      BY <2>5, <2>9 DEF Unregister
    <3>2. task[t] = "unregister" /\ entries' = [entries EXCEPT ![owner[t]] = @ \ {t}]
      BY <2>9 DEF Unregister
    <3>3. Listed'
      BY <3>1, <3>2 DEF TableInv, Listed, Open
    <3>4. TermsFresh' /\ TermMapLive'
      BY <3>1, <3>2 DEF TableInv, TermsFresh, TermMapLive
    <3>5. QED
      BY <3>3, <3>4 DEF TableInv
  <2>10. QED
    BY <1>5, <2>1, <2>2, <2>3, <2>4, <2>6, <2>7, <2>8, <2>9 DEF TaskStep, ForwardEof, ForwardEnd
<1>6. ASSUME NEW c \in Conns, Publish(c) \/ Unpublish(c) \/ Down(c)
      PROVE  TableInv'
  <2>1. UNCHANGED <<task, owner, terms, entries, present>>
    BY <1>6 DEF Publish, Unpublish, Down, taskVars
  <2>2. UNCHANGED mux \/ mux' = [mux EXCEPT ![c] = "down"]
    BY <1>6, Zenon DEF Publish, Unpublish, Down, MuxEnds
  <2>3. \A w \in Wisp : mux'[w] = "up" => mux[w] = "up"
    BY <2>2
  <2>4. \A w \in Wisp : conn'[w] = conn[w]
    BY <1>6 DEF Publish, Unpublish, Down
  <2>5. QED
    BY <1>4, <2>1, <2>3, <2>4
<1>7. ASSUME NEW n \in Net, NetStep(n) \/ Probe(n)
      PROVE  TableInv'
  <2>1. UNCHANGED <<conn, task, owner, terms, entries, present>>
    BY <1>7 DEF NetStep, NetCreate, NetCreated, Probe, ProbeAnswer, taskVars
  <2>2. UNCHANGED mux \/ MuxEnds(n)
    BY <1>7 DEF NetStep, NetCreate, NetCreated, Probe, ProbeAnswer
  <2>3. UNCHANGED mux \/ mux' = [mux EXCEPT ![n] = "down"]
    BY <2>2, Zenon DEF MuxEnds
  <2>4. \A w \in Wisp : mux'[w] = mux[w]
    BY <2>3
  <2>5. QED
    BY <1>4, <2>1, <2>4
<1>8. ASSUME NEW c \in Wisp, PingStep(c)
      PROVE  TableInv'
  BY <1>4, <1>8 DEF PingStep, PingSend, PingTick, PingTold, PingTo, taskVars
<1>9. ASSUME NEW t \in Tasks, Block(t)
      PROVE  TableInv'
  BY <1>4, <1>9 DEF Block
<1>10. CASE UNCHANGED vars
  BY <1>4, <1>10 DEF vars
<1>11. QED
  BY <1>1, <1>2, <1>3, <1>5, <1>6, <1>7, <1>8, <1>9, <1>10
  DEF Next, ConnStep, Environment

LEMMA ServerInvariant == Spec => [](TypeOK /\ LifeInv /\ TableInv)
<1>1. Init => LifeInv /\ TableInv
  BY ServerAssumption
  DEF Init, LifeInv, Owned, OwnersThere, ActorInLoop, Destined, ToldAfterEnd,
      TableInv, Listed, Open, Forwarding, TermsFresh, TermMapLive, Conns
<1>2. TypeOK /\ LifeInv /\ TableInv /\ [Next]_vars => LifeInv' /\ TableInv'
  BY LifeInvNext, TableInvNext
<1>3. QED
  BY <1>1, <1>2, ServerTypeCorrect, PTL DEF Spec

\* generate_stats, whenever it runs, lists exactly the open streams of every
\* wisp client, and nothing of a client that has left CLIENTS.
THEOREM StatisticsExact == Spec => []StatsExact
<1>1. TypeOK /\ LifeInv /\ TableInv => StatsExact
  <2> SUFFICES ASSUME TypeOK, LifeInv, TableInv
               PROVE  StatsExact
    OBVIOUS
  <2> USE ServerAssumption DEF TypeOK, Conns, TableInv, Listed, Open, Of
  <2>1. ASSUME NEW c \in Wisp
        PROVE  entries[c] = {t \in Of(c) : task[t] \in Forwarding \cup {"unregister"}}
    <3>1. entries[c] \subseteq Tasks
      BY <2>1
    <3>2. \A t \in Tasks : t \in entries[c] <=> owner[t] = c /\ task[t] \in Forwarding \cup {"unregister"}
      BY <2>1
    <3>3. QED
      BY <3>1, <3>2
  <2>2. \A c \in Wisp : c \in present => Stats[c] = entries[c]
    BY DEF Stats
  <2>3. DOMAIN Stats = present
    BY DEF Stats
  <2>4. \A c \in Wisp \ present : entries[c] = {}
    OBVIOUS
  <2>5. QED
    BY <2>1, <2>2, <2>3, <2>4 DEF StatsExact
<1>2. QED
  BY <1>1, ServerInvariant, PTL

\* A resize packet never reaches the descriptor of a terminal that is closed.
THEOREM TerminalsLive == Spec => []TermMapLive
<1>1. TableInv => TermMapLive
  BY DEF TableInv
<1>2. QED
  BY <1>1, ServerInvariant, PTL
-----------------------------------------------------------------------------
\* WISPNET_SERVERS is held by the one task that waits for new_stream's answer.
HeldWhileRouting ==
  \A t \in Tasks : tableBy = t <=> task[t] = "reply"

\* The safety half of TableReleased: route_wispnet keeps WISPNET_SERVERS for
\* exactly as long as it waits for an answer, so two streams never wait at
\* once, and a route that is answered, cancelled or refused has let go.
THEOREM TableHeldByOneRoute == Spec => []HeldWhileRouting
<1>1. Init => HeldWhileRouting
  BY ServerAssumption DEF Init, HeldWhileRouting
<1>2. TypeOK /\ HeldWhileRouting /\ [Next]_vars => HeldWhileRouting'
  <2> SUFFICES ASSUME TypeOK, HeldWhileRouting, [Next]_vars
               PROVE  HeldWhileRouting'
    OBVIOUS
  <2> USE ServerAssumption DEF TypeOK, HeldWhileRouting, Resolving, Forwarding
  <2>1. ASSUME NEW c \in Conns, StartProxy(c) \/ Connect(c) PROVE HeldWhileRouting'
    <3>1. PICK t \in Tasks, s \in {"resolve", "spawned"} :
             task[t] = "none" /\ task' = [task EXCEPT ![t] = s]
      <4>1. \E s \in {"resolve", "spawned"} : NewTask(c, s)
        BY <2>1 DEF StartProxy, Connect
      <4>2. QED
        BY <4>1, NewTaskIsOne
    <3>2. QED
      BY <2>1, <3>1 DEF StartProxy, Connect, tableVars
  <2>2. ASSUME NEW t \in Tasks, RouteTake(t) PROVE HeldWhileRouting'
    BY <2>2 DEF RouteTake, TaskAs
  <2>3. ASSUME NEW t \in Tasks, RouteReply(t) \/ Cancel(t) PROVE HeldWhileRouting'
    BY <2>3 DEF RouteReply, Cancel, TaskTo, TaskAs
  <2>4. ASSUME NEW t \in Tasks, NEW s \in TaskStates \ {"reply"}, NEW d, TaskAs(t, s, d),
               task[t] # "reply", UNCHANGED tableBy
        PROVE  HeldWhileRouting'
    BY <2>4 DEF TaskAs
  <2> USE DEF tableVars, TaskTo, TaskStates
  <2>5. ASSUME NEW t \in Tasks, FirstPoll(t) \/ Refused(t) \/ Register(t) \/ Enter(t)
        PROVE  HeldWhileRouting'
    BY <2>4, <2>5 DEF FirstPoll, Refused, Register, Enter
  <2>6. ASSUME NEW t \in Tasks, ForwardOver(t) \/ CancelForward(t) \/ Unregister(t)
        PROVE  HeldWhileRouting'
    BY <2>4, <2>6 DEF ForwardOver, CancelForward, Unregister
  <2>7. ASSUME NEW t \in Tasks, Resolved(t) PROVE HeldWhileRouting'
    <3>1. PICK d : TaskAs(t, IF d \in Net THEN "table" ELSE "register", d)
      BY <2>7 DEF Resolved
    <3>2. QED
      BY <2>4, <2>7, <3>1 DEF Resolved
  <2>8. CASE UNCHANGED <<task, tableBy>>
    BY <2>8
  <2>9. QED
    BY <2>1, <2>2, <2>3, <2>5, <2>6, <2>7, <2>8
    DEF Next, vars, ConnStep, PingStep, TaskStep, NetStep, Environment, taskVars, ForwardEof,
        ForwardEnd, Start, SetupMux, SetupFails, Remove, Down, Shutdown, Join, NetReturns, PingSend,
        PingTick, PingTold, PingTo, Publish, Unpublish, NetCreate, NetCreated, Probe, ProbeAnswer,
        Block
<1>3. QED
  BY <1>1, <1>2, ServerTypeCorrect, PTL DEF Spec
=============================================================================
