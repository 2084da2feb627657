-------------------------- MODULE FlowControl_proofs --------------------------
(***************************************************************************)
(* Proofs about FlowControl for every buffer size, every way of writing    *)
(* and every threading of the server: what may make the server lose data,  *)
(* and that the client gets new credit in spite of it.                     *)
(***************************************************************************)
EXTENDS FlowControl, TLAPS

LEMMA TargetType == TargetFlowControl \in Nat
  BY FlowConstants DEF TargetFlowControl

LEMMA TakeGrant ==
    ASSUME NEW q \in Seq(Grants), q # <<>>
    PROVE  /\ Head(q) = q[1] /\ Head(q) \in Grants
           /\ Head(q).room \in Nat /\ Head(q).taken \in Nat
           /\ Len(q) \in Nat \ {0} /\ Tail(q) \in Seq(Grants) /\ Len(Tail(q)) = Len(q) - 1
           /\ \A i \in 1..Len(Tail(q)) : i + 1 \in 1..Len(q) /\ Tail(q)[i] = q[i + 1]
<1>1. Head(q) \in Grants
  OBVIOUS
<1>2. Head(q).room \in Nat /\ Head(q).taken \in Nat
  BY <1>1 DEF Grants
<1>3. QED
  BY <1>1, <1>2

LEMMA AddGrant ==
    ASSUME NEW q \in Seq(Grants), NEW g \in Grants
    PROVE  /\ Append(q, g) \in Seq(Grants) /\ Append(q, g) # <<>>
           /\ Len(q) \in Nat /\ Len(Append(q, g)) = Len(q) + 1
           /\ \A i \in 1..Len(q) : Append(q, g)[i] = q[i]
           /\ Append(q, g)[Len(q) + 1] = g
  OBVIOUS

Acts == \/ PollReady \/ FlowRegister \/ StartSend \/ PollFlush
        \/ ClientDecLoad \/ ClientDecStore \/ PollWrite
        \/ FlowSet \/ FlowWake
        \/ TrySend \/ ServerDecLoad \/ ServerDecStore
        \/ Receive \/ AddLoad \/ AddStore
Step == Acts \/ Flush \/ UNCHANGED vars

\* Every step is one of the actions; causes only grows, and only by what was
\* the case in a step of a task.
LEMMA Steps ==
    ASSUME [Next]_vars
    PROVE  /\ Step
           /\ (Acts /\ Blame) \/ Flush \/ UNCHANGED vars
           /\ causes \subseteq causes' /\ causes' \subseteq causes \cup CauseNames
<1>1. (Acts /\ Blame) \/ Flush \/ UNCHANGED vars
  BY DEF Acts, Next, Writer, ClientActor, ServerActor, Reader, Finished
<1>2. causes \subseteq causes' /\ causes' \subseteq causes \cup CauseNames
  <2>1. CASE Blame
    <3> DEFINE a == IF Crossed THEN {"crossed"} ELSE {}
               b == IF Overlapped THEN {"overlapped"} ELSE {}
               c == IF Unpaid THEN {"unpaid"} ELSE {}
    <3>1. a \subseteq CauseNames /\ b \subseteq CauseNames /\ c \subseteq CauseNames
      BY DEF CauseNames
    <3>2. causes' = causes \cup a \cup b \cup c
      BY <2>1 DEF Blame
    <3> HIDE DEF a, b, c
    <3>3. QED
      BY <3>1, <3>2
  <2>2. CASE causes' = causes
    BY <2>2
  <2>3. QED
    BY <1>1, <2>1, <2>2 DEF Flush, vars
<1>3. QED
  BY <1>1, <1>2 DEF Step

LEMMA NotBlamed ==
    ASSUME Blame
    PROVE  /\ "crossed" \notin causes' => ~Crossed
           /\ "overlapped" \notin causes' => ~Overlapped
           /\ "unpaid" \notin causes' => ~Unpaid
           /\ "crossed" \in causes' \ causes => Crossed
           /\ "overlapped" \in causes' \ causes => Overlapped
           /\ "unpaid" \in causes' \ causes => Unpaid
  BY DEF Blame

(***************************************************************************)
(* Type correctness needs to know why read_cnt and the number of accepted  *)
(* packets stay within their bounds.                                       *)
(***************************************************************************)
Bounds ==
    /\ reader = "idle" => readCnt <= TargetFlowControl
    /\ writer = "ready" => accepted < MaxAccepted
    /\ writer \in {"load", "store"} /\ writerThen = "ready" => accepted < MaxAccepted

LEMMA FlowTypes == Spec => [](TypeOK /\ Bounds)
<1> USE FlowConstants, TargetType
<1>1. Init => TypeOK /\ Bounds
  <2> SUFFICES ASSUME Init PROVE TypeOK /\ Bounds
    OBVIOUS
  <2>1. unflushed \in Seq(Grants) /\ down \in Seq(Grants)
    BY DEF Init
  <2>2. sleeping \in BOOLEAN /\ writerWoken \in BOOLEAN
    BY DEF Init
  <2>3. QED
    BY <2>1, <2>2 DEF Init, TypeOK, Bounds
<1>2. TypeOK /\ Bounds /\ [Next]_vars => TypeOK' /\ Bounds'
  <2> SUFFICES ASSUME TypeOK, Bounds, [Next]_vars
               PROVE  TypeOK' /\ Bounds'
    OBVIOUS
  <2>0. causes' \subseteq CauseNames
    BY Steps DEF TypeOK
  <2> USE <2>0 DEF TypeOK, Bounds, clientVars, serverVars, linkVars
  <2>1. CASE PollReady
    <3>1. sleeping' \in BOOLEAN /\ writerWoken' \in BOOLEAN
      BY <2>1 DEF PollReady
    <3>2. QED
      BY <2>1, <3>1 DEF PollReady, WriteChunk
  <2>2. CASE FlowRegister
    BY <2>2 DEF FlowRegister
  <2>3. CASE StartSend
    BY <2>3 DEF StartSend
  <2>4. CASE PollFlush
    BY <2>4 DEF PollFlush, WriteChunk
  <2>5. CASE ClientDecLoad
    BY <2>5 DEF ClientDecLoad
  <2>6. CASE ClientDecStore
    BY <2>6 DEF ClientDecStore, SaturatingDec
  <2>7. CASE PollWrite
    BY <2>7 DEF PollWrite
  <2>8. CASE FlowSet
    <3>1. Head(down) \in Grants /\ Tail(down) \in Seq(Grants)
      BY <2>8 DEF FlowSet
    <3>2. Head(down).room \in Nat
      BY <3>1 DEF Grants
    <3>3. QED
      BY <2>8, <3>1, <3>2 DEF FlowSet
  <2>9. CASE FlowWake
    BY <2>9 DEF FlowWake
  <2>10. CASE TrySend
    BY <2>10 DEF TrySend
  <2>11. CASE ServerDecLoad
    BY <2>11 DEF ServerDecLoad
  <2>12. CASE ServerDecStore
    BY <2>12 DEF ServerDecStore, SaturatingDec
  <2>13. CASE Receive
    BY <2>13 DEF Receive
  <2>14. CASE AddLoad
    BY <2>14 DEF AddLoad
  <2>15. CASE AddStore
    <3>1. Taken \in Nat
      BY DEF Taken
    <3>2. Grant(readerReg + readCnt) \in Grants
      BY <3>1 DEF Grant, Grants
    <3>3. QED
      BY <2>15, <3>2 DEF AddStore
  <2>16. CASE Flush
    BY <2>16 DEF Flush
  <2>17. CASE UNCHANGED vars
    BY <2>17 DEF vars
  <2>18. QED
    BY <2>1, <2>2, <2>3, <2>4, <2>5, <2>6, <2>7, <2>8, <2>9,
       <2>10, <2>11, <2>12, <2>13, <2>14, <2>15, <2>16, <2>17, Steps DEF Step, Acts
<1>3. QED
  BY <1>1, <1>2, PTL DEF Spec

\* Every counter stays a natural number within its bound: the bounded channel
\* holds at most BufferSize packets and read_cnt passes the target by at most 1.
THEOREM FlowTypeCorrect == Spec => []TypeOK
  BY FlowTypes, PTL
-----------------------------------------------------------------------------
(***************************************************************************)
(* The client's wake-up, on one thread.  flow_empty and flow_register are  *)
(* one poll, so no CONTINUE comes between them; a parked writer whose      *)
(* waker was used up has been woken.                                       *)
(***************************************************************************)
WakeInv ==
    /\ WriterMidPoll => clientActor = "idle"
    /\ writer = "register" => credit = 0
    /\ writer = "parked" => sleeping \/ writerWoken
    /\ NoSleepWithCredit

\* On one thread a writer never sleeps on with credit in hand, whichever way
\* the application writes and whatever the CONTINUEs carry.
THEOREM NoMissedCredit ==
    ASSUME "client" \notin Parallel
    PROVE  Spec => []NoSleepWithCredit
<1>1. Init => WakeInv
  BY DEF Init, WakeInv, WriterMidPoll, NoSleepWithCredit
<1>2. TypeOK /\ WakeInv /\ [Next]_vars => WakeInv'
  <2> SUFFICES ASSUME TypeOK, WakeInv, [Next]_vars
               PROVE  WakeInv'
    OBVIOUS
  <2> USE DEF TypeOK, WakeInv, WriterMidPoll, NoSleepWithCredit, clientVars, serverVars, linkVars
  <2>1. CASE PollReady
    BY <2>1 DEF PollReady, WriteChunk, WriterMayRun, WriterMidPoll
  <2>2. CASE FlowRegister
    BY <2>2 DEF FlowRegister
  <2>3. CASE StartSend
    BY <2>3 DEF StartSend, WriterMayRun, WriterMidPoll
  <2>4. CASE PollFlush
    BY <2>4 DEF PollFlush, WriteChunk, WriterMayRun, WriterMidPoll
  <2>5. CASE ClientDecLoad
    BY <2>5 DEF ClientDecLoad
  <2>6. CASE ClientDecStore
    BY <2>6 DEF ClientDecStore, SaturatingDec
  <2>7. CASE PollWrite
    BY <2>7 DEF PollWrite, WriterMayRun, WriterMidPoll
  <2>8. CASE FlowSet
    BY <2>8 DEF FlowSet, ClientActorMayRun, WriterMidPoll
  <2>9. CASE FlowWake
    BY <2>9 DEF FlowWake
  <2>10. CASE TrySend
    BY <2>10 DEF TrySend, ServerActorMayRun
  <2>11. CASE ServerDecLoad
    BY <2>11 DEF ServerDecLoad
  <2>12. CASE ServerDecStore
    BY <2>12 DEF ServerDecStore, SaturatingDec
  <2>13. CASE Receive
    BY <2>13 DEF Receive, ReaderMayRun
  <2>14. CASE AddLoad
    BY <2>14 DEF AddLoad, ReaderMayRun
  <2>15. CASE AddStore
    BY <2>15 DEF AddStore
  <2>16. CASE Flush
    BY <2>16 DEF Flush
  <2>17. CASE UNCHANGED vars
    BY <2>17 DEF vars
  <2>18. QED
    BY <2>1, <2>2, <2>3, <2>4, <2>5, <2>6, <2>7, <2>8, <2>9,
       <2>10, <2>11, <2>12, <2>13, <2>14, <2>15, <2>16, <2>17, Steps DEF Step, Acts
<1>3. WakeInv => NoSleepWithCredit
  BY DEF WakeInv
<1>4. QED
  BY <1>1, <1>2, <1>3, FlowTypeCorrect, PTL DEF Spec
-----------------------------------------------------------------------------
(***************************************************************************)
(* Credit comes back.  Credit, packets under way and queued and packets    *)
(* counted by the reader are more than the target together, or a CONTINUE  *)
(* is being made or under way: what the counter of the server says plays   *)
(* no part, because a CONTINUE carries the packets just read at least.     *)
(***************************************************************************)
Owed == IF writer \in {"load", "store"} THEN SaturatingDec(credit) ELSE credit

ReturnInv ==
    /\ WriterMidPoll => clientActor = "idle"
    /\ writer = "store" => writerReg = credit
    /\ reader # "idle" => readCnt = TargetFlowControl + 1
    /\ \A i \in 1..Len(down) : down[i].room > TargetFlowControl
    /\ \A i \in 1..Len(unflushed) : unflushed[i].room > TargetFlowControl
    /\ \/ unflushed # <<>> \/ down # <<>> \/ reader # "idle"
       \/ Owed + up + queue + readCnt > TargetFlowControl

LEMMA TargetBelow == TargetFlowControl < BufferSize
  BY FlowConstants DEF TargetFlowControl

\* The server's two tasks may run in parallel and lose updates of the counter,
\* the client may overrun the server by any way of writing: a client with all
\* its packets taken and read is not left without credit.
THEOREM CreditIsReturned ==
    ASSUME "client" \notin Parallel
    PROVE  Spec => []CreditReturns
<1> USE FlowConstants, TargetType, TargetBelow
<1>1. Init => ReturnInv
  BY DEF Init, ReturnInv, Owed, WriterMidPoll
<1>2. TypeOK /\ Bounds /\ ReturnInv /\ [Next]_vars => ReturnInv'
  <2> SUFFICES ASSUME TypeOK, Bounds, ReturnInv, [Next]_vars
               PROVE  ReturnInv'
    OBVIOUS
  <2> USE DEF TypeOK, Bounds, ReturnInv, Owed, SaturatingDec, WriterMidPoll, Grants,
              clientVars, serverVars, linkVars
  <2>1. CASE PollReady
    BY <2>1 DEF PollReady, WriteChunk, WriterMayRun, WriterMidPoll
  <2>2. CASE FlowRegister
    BY <2>2 DEF FlowRegister
  <2>3. CASE StartSend
    BY <2>3 DEF StartSend, WriterMayRun, WriterMidPoll
  <2>4. CASE PollFlush
    BY <2>4 DEF PollFlush, WriteChunk, WriterMayRun, WriterMidPoll
  <2>5. CASE ClientDecLoad
    BY <2>5 DEF ClientDecLoad
  <2>6. CASE ClientDecStore
    BY <2>6 DEF ClientDecStore, SaturatingDec
  <2>7. CASE PollWrite
    BY <2>7 DEF PollWrite, WriterMayRun, WriterMidPoll
  <2>8. CASE FlowSet
    <3>1. down # <<>> /\ down' = Tail(down) /\ credit' = Head(down).room
      BY <2>8 DEF FlowSet
    <3>2. Head(down).room \in Nat /\ Head(down).room > TargetFlowControl
      BY <3>1, TakeGrant
    <3>3. \A i \in 1..Len(down') : down'[i].room > TargetFlowControl
      BY <3>1, TakeGrant
    <3>4. writer \notin {"load", "store"} /\ ~WriterMidPoll
      BY <2>8 DEF FlowSet, ClientActorMayRun
    <3>5. UNCHANGED <<writer, writerReg, serverVars, up, unflushed>>
      BY <2>8 DEF FlowSet
    <3>6. Owed' + up' + queue' + readCnt' > TargetFlowControl
      BY <3>1, <3>2, <3>4, <3>5, SMTT(30)
    <3>7. QED
      BY <3>3, <3>4, <3>5, <3>6
  <2>9. CASE FlowWake
    BY <2>9 DEF FlowWake
  <2>10. CASE TrySend
    BY <2>10 DEF TrySend, ServerActorMayRun
  <2>11. CASE ServerDecLoad
    BY <2>11 DEF ServerDecLoad
  <2>12. CASE ServerDecStore
    BY <2>12 DEF ServerDecStore, SaturatingDec
  <2>13. CASE Receive
    BY <2>13 DEF Receive, ReaderMayRun
  <2>14. CASE AddLoad
    BY <2>14 DEF AddLoad, ReaderMayRun
  <2>15. CASE AddStore
    <3>1. reader' = "idle"
      BY <2>15 DEF AddStore
    <3>2. unflushed' # <<>> /\ \A i \in 1..Len(unflushed') : unflushed'[i].room > TargetFlowControl
      <4> DEFINE g == Grant(readerReg + readCnt)
      <4>1. g \in Grants /\ g.room > TargetFlowControl
        <5>1. Taken \in Nat
          BY DEF Taken
        <5>2. QED
          BY <2>15, <5>1 DEF AddStore, Grant
      <4>2. unflushed' = Append(unflushed, g)
        BY <2>15 DEF AddStore
      <4> HIDE DEF g
      <4>3. QED
        BY <4>1, <4>2, AddGrant, SMTT(30)
    <3>3. UNCHANGED <<clientVars, down>>
      BY <2>15 DEF AddStore
    <3>4. QED
      BY <3>1, <3>2, <3>3
  <2>16. CASE Flush
    BY <2>16 DEF Flush
  <2>17. CASE UNCHANGED vars
    BY <2>17 DEF vars
  <2>18. QED
    BY <2>1, <2>2, <2>3, <2>4, <2>5, <2>6, <2>7, <2>8, <2>9,
       <2>10, <2>11, <2>12, <2>13, <2>14, <2>15, <2>16, <2>17, Steps DEF Step, Acts
<1>3. TypeOK /\ Bounds /\ ReturnInv => CreditReturns
  BY DEF TypeOK, Bounds, ReturnInv, Owed, CreditReturns
<1>4. QED
  BY <1>1, <1>2, <1>3, FlowTypes, PTL DEF Spec
-----------------------------------------------------------------------------
(***************************************************************************)
(* The books: every packet written is under way or taken, and no CONTINUE  *)
(* counts more packets than were taken.                                    *)
(***************************************************************************)
BooksInv ==
    /\ writer \in {"ready", "load", "store"} => chunk = 0
    /\ reader # "idle" => readCnt = TargetFlowControl + 1
    /\ Written = up + Taken
    /\ \A i \in 1..Len(down) : down[i].room >= 1 /\ down[i].taken <= Taken
    /\ \A i \in 1..Len(unflushed) : unflushed[i].room >= 1 /\ unflushed[i].taken <= Taken
    /\ reader = "add" /\ serverActor # "idle" => "server" \in Parallel
    /\ "overlapped" \in causes => "server" \in Parallel

LEMMA BooksNext ==
    ASSUME TypeOK, Bounds, BooksInv, [Next]_vars
    PROVE  BooksInv'
<1> USE FlowConstants, TargetType
<1> USE DEF TypeOK, BooksInv, Written, Taken, clientVars, serverVars, linkVars
<1>1. CASE Acts /\ Blame
  <2>0. "overlapped" \in causes' \ causes => Overlapped
    BY <1>1, NotBlamed
  <2> USE <2>0 DEF Overlapped
  <2>1. CASE PollReady
    <3>1. UNCHANGED <<serverVars, down, unflushed, accepted>>
      BY <2>1 DEF PollReady
    <3>2. \/ UNCHANGED <<chunk, up>> /\ (writer' = "ready" => chunk = 0)
          \/ chunk = 1 /\ chunk' = 0 /\ up' = up + 1
      BY <2>1 DEF PollReady, WriteChunk
    <3>3. writer' \notin {"load", "store"} \/ chunk' = 0
      BY <2>1 DEF PollReady, WriteChunk
    <3>4. Taken' = Taken
      BY <3>1
    <3>5. Written' = up' + Taken'
      <4>1. Taken \in Nat /\ accepted - chunk = up + Taken
        BY SMTT(30)
      <4>2. accepted' - chunk' = up' + Taken
        <5> HIDE DEF BooksInv, Taken
        <5>1. QED
          BY <3>1, <3>2, <4>1
      <4> HIDE DEF BooksInv, Taken
      <4>3. QED
        BY <3>4, <4>2
    <3>6. writer' \in {"ready", "load", "store"} => chunk' = 0
      BY <3>2, <3>3
    <3> HIDE DEF Written, Taken
    <3>7. QED
      BY <3>1, <3>4, <3>5, <3>6
  <2>2. CASE FlowRegister
    BY <2>2 DEF FlowRegister
  <2>3. CASE StartSend
    BY <2>3 DEF StartSend, WriterMayRun, WriterMidPoll
  <2>4. CASE PollFlush
    BY <2>4 DEF PollFlush, WriteChunk, WriterMayRun, WriterMidPoll
  <2>5. CASE ClientDecLoad
    BY <2>5 DEF ClientDecLoad
  <2>6. CASE ClientDecStore
    BY <2>6 DEF ClientDecStore, SaturatingDec
  <2>7. CASE PollWrite
    BY <2>7 DEF PollWrite, WriterMayRun, WriterMidPoll
  <2>8. CASE FlowSet
    <3>1. down # <<>> /\ down' = Tail(down)
      BY <2>8 DEF FlowSet
    <3>2. UNCHANGED <<writer, chunk, accepted, serverVars, up, unflushed>>
      BY <2>8 DEF FlowSet
    <3>3. \A i \in 1..Len(down') : down'[i].room >= 1 /\ down'[i].taken <= Taken
      BY <3>1, TakeGrant, SMTT(30)
    <3>4. QED
      BY <3>2, <3>3
  <2>9. CASE FlowWake
    BY <2>9 DEF FlowWake
  <2>10. CASE TrySend
    <3>1. UNCHANGED <<clientVars, down, unflushed, delivered, reader, readCnt>>
      BY <2>10 DEF TrySend
    <3>2. up' = up - 1
      BY <2>10 DEF TrySend
    <3>3. Taken \in Nat
      OBVIOUS
    <3>4. Taken' = Taken + 1
      <4>1. CASE queue' = queue + 1 /\ dropped' = dropped
        <5>1. delivered \in Nat /\ queue \in Nat /\ dropped \in Nat
          OBVIOUS
        <5> HIDE DEF TypeOK, BooksInv
        <5>2. QED
          BY <3>1, <4>1, <5>1
      <4>2. CASE dropped' = dropped + 1 /\ queue' = queue
        <5>1. delivered \in Nat /\ queue \in Nat /\ dropped \in Nat
          OBVIOUS
        <5> HIDE DEF TypeOK, BooksInv
        <5>2. QED
          BY <3>1, <4>2, <5>1
      <4>3. QED
        BY <2>10, <4>1, <4>2 DEF TrySend
    <3>5. Written' = Written /\ Written \in Int /\ Taken \in Nat
      BY <3>1
    <3>6. Written' = up' + Taken'
      BY <3>2, <3>4, <3>5
    <3>7. reader = "add" => "server" \in Parallel
      BY <2>10 DEF TrySend, ServerActorMayRun
    <3> HIDE DEF Written, Taken
    <3>8. \A i \in 1..Len(down) : down[i].taken <= Taken + 1
      <4> SUFFICES ASSUME NEW i \in 1..Len(down) PROVE down[i].taken <= Taken + 1
        OBVIOUS
      <4>1. down[i] \in Grants
        OBVIOUS
      <4>2. QED
        BY <3>5, <4>1 DEF Grants
    <3>9. \A i \in 1..Len(unflushed) : unflushed[i].taken <= Taken + 1
      <4> SUFFICES ASSUME NEW i \in 1..Len(unflushed) PROVE unflushed[i].taken <= Taken + 1
        OBVIOUS
      <4>1. unflushed[i] \in Grants
        OBVIOUS
      <4>2. QED
        BY <3>5, <4>1 DEF Grants
    <3>10. QED
      BY <3>1, <3>4, <3>6, <3>7, <3>8, <3>9
  <2>11. CASE ServerDecLoad
    BY <2>11 DEF ServerDecLoad
  <2>12. CASE ServerDecStore
    BY <2>12 DEF ServerDecStore, SaturatingDec
  <2>13. CASE Receive
    <3>1. UNCHANGED <<clientVars, linkVars, serverActor>>
      BY <2>13 DEF Receive
    <3>2. reader' # "add" /\ (reader' # "idle" => readCnt' = TargetFlowControl + 1)
      <4>1. reader = "idle" /\ readCnt' = readCnt + 1 /\ (reader' = "lock" \/ reader' = "idle")
        BY <2>13 DEF Receive
      <4>2. readCnt + 1 > TargetFlowControl \/ reader' = "idle"
        BY <2>13 DEF Receive
      <4>3. readCnt <= TargetFlowControl + 1
        OBVIOUS
      <4>4. readCnt \in Nat /\ (readCnt <= TargetFlowControl)
        BY <4>1 DEF Bounds
      <4>5. QED
        BY <4>1, <4>2, <4>4
    <3>3. Taken' = Taken
      <4>1. CASE reader' = "lock" /\ delivered' = delivered
        BY <2>13, <4>1 DEF Receive
      <4>2. CASE reader' = "idle" /\ delivered' = delivered + 1
        BY <2>13, <4>2 DEF Receive
      <4>3. QED
        BY <2>13, <4>1, <4>2 DEF Receive
    <3>4. Written' = Written
      BY <3>1
    <3> HIDE DEF Written, Taken
    <3>5. QED
      BY <3>1, <3>2, <3>3, <3>4
  <2>14. CASE AddLoad
    BY <2>14 DEF AddLoad, ReaderMayRun
  <2>15. CASE AddStore
    <3> DEFINE g == Grant(readerReg + readCnt)
    <3>1. unflushed' = Append(unflushed, g) /\ Taken' = Taken
      BY <2>15 DEF AddStore
    <3>2. g \in Grants /\ g.room >= 1 /\ g.taken <= Taken
      BY <2>15 DEF AddStore, Grant, Grants
    <3>3. UNCHANGED <<writer, chunk, accepted, up, down, serverActor>> /\ reader' = "idle"
      BY <2>15 DEF AddStore
    <3> HIDE DEF g
    <3>4. \A i \in 1..Len(unflushed') : unflushed'[i].room >= 1 /\ unflushed'[i].taken <= Taken
      BY <3>1, <3>2, AddGrant
    <3>5. QED
      BY <3>1, <3>3, <3>4
  <2>16. QED
    BY <1>1, <2>1, <2>2, <2>3, <2>4, <2>5, <2>6, <2>7, <2>8, <2>9,
       <2>10, <2>11, <2>12, <2>13, <2>14, <2>15 DEF Acts
<1>2. CASE Flush
  BY <1>2 DEF Flush
<1>3. CASE UNCHANGED vars
  BY <1>3 DEF vars
<1>4. QED
  BY <1>1, <1>2, <1>3, Steps
-----------------------------------------------------------------------------
(***************************************************************************)
(* An application that only sends never writes without credit.             *)
(***************************************************************************)
SendInv ==
    Writers = {"send"} =>
        /\ "unpaid" \notin causes
        /\ chunk = 1 => writer = "idle" /\ credit > 0
        /\ writer = "ready" => credit > 0
        /\ writer \in {"load", "store"} => writerThen = "idle"

LEMMA SendNext ==
    ASSUME TypeOK, BooksInv, SendInv, [Next]_vars
    PROVE  SendInv'
<1> USE FlowConstants
<1> SUFFICES ASSUME Writers = {"send"} PROVE SendInv'
  BY DEF SendInv
<1>0. /\ "unpaid" \notin causes
      /\ chunk = 1 => writer = "idle" /\ credit > 0
      /\ writer = "ready" => credit > 0
      /\ writer \in {"load", "store"} => writerThen = "idle" /\ chunk = 0
      /\ credit \in Nat /\ chunk \in {0, 1} /\ up \in Nat
      /\ writerThen \in {"idle", "ready"}
      /\ "feed" \notin Writers /\ "async_write" \notin Writers
  BY DEF SendInv, BooksInv, TypeOK
<1> USE <1>0 DEF clientVars, serverVars, linkVars
<1> SUFFICES /\ "unpaid" \notin causes'
             /\ chunk' = 1 => writer' = "idle" /\ credit' > 0
             /\ writer' = "ready" => credit' > 0
             /\ writer' \in {"load", "store"} => writerThen' = "idle"
  BY DEF SendInv
<1>1. CASE Acts /\ Blame
  <2>0. "unpaid" \in causes' => up' > up /\ (credit = 0 \/ chunk = 0)
    BY <1>1, NotBlamed DEF Unpaid
  <2> USE <2>0
  <2>1. CASE PollReady
    BY <2>1 DEF PollReady, WriteChunk
  <2>2. CASE FlowRegister
    BY <2>2 DEF FlowRegister
  <2>3. CASE StartSend
    BY <2>3 DEF StartSend
  <2>4. CASE PollFlush
    BY <2>4 DEF PollFlush, WriteChunk
  <2>5. CASE ClientDecLoad
    BY <2>5 DEF ClientDecLoad
  <2>6. CASE ClientDecStore
    BY <2>6 DEF ClientDecStore
  <2>7. CASE PollWrite
    BY <2>7 DEF PollWrite
  <2>8. CASE FlowSet
    <3>1. credit' >= 1
      <4>1. down # <<>> /\ down \in Seq(Grants) /\ credit' = Head(down).room
        BY <2>8 DEF FlowSet, TypeOK
      <4>2. Len(down) \in Nat \ {0} /\ Head(down) = down[1]
        BY <4>1, TakeGrant
      <4>3. down[1].room >= 1
        BY <4>2 DEF BooksInv
      <4>4. QED
        BY <4>1, <4>2, <4>3
    <3>2. UNCHANGED <<chunk, up, writer, writerThen>>
      BY <2>8 DEF FlowSet
    <3>3. credit' \in Nat
      BY <2>8, TakeGrant DEF FlowSet, TypeOK
    <3>4. QED
      BY <3>1, <3>2, <3>3
  <2>9. CASE FlowWake
    BY <2>9 DEF FlowWake
  <2>10. CASE TrySend
    BY <2>10 DEF TrySend
  <2>11. CASE ServerDecLoad
    BY <2>11 DEF ServerDecLoad
  <2>12. CASE ServerDecStore
    BY <2>12 DEF ServerDecStore
  <2>13. CASE Receive
    BY <2>13 DEF Receive
  <2>14. CASE AddLoad
    BY <2>14 DEF AddLoad
  <2>15. CASE AddStore
    BY <2>15 DEF AddStore
  <2>16. QED
    BY <1>1, <2>1, <2>2, <2>3, <2>4, <2>5, <2>6, <2>7, <2>8, <2>9,
       <2>10, <2>11, <2>12, <2>13, <2>14, <2>15 DEF Acts
<1>2. CASE Flush
  BY <1>2 DEF Flush
<1>3. CASE UNCHANGED vars
  BY <1>3 DEF vars
<1>4. QED
  BY <1>1, <1>2, <1>3, Steps
-----------------------------------------------------------------------------
(***************************************************************************)
(* Before anything goes wrong the server's counter and the channel agree   *)
(* (except for a packet put there and not counted yet), and the client's   *)
(* credit, less a packet written and not paid for yet, fits into the room  *)
(* left by all that is under way, queued and counted by the reader; so     *)
(* does a CONTINUE that counts everything the server took.                 *)
(***************************************************************************)
Pending   == IF writer \in {"load", "store"} THEN 1 ELSE 0
Uncounted == IF serverActor = "idle" THEN 0 ELSE 1

CleanNumbers ==
    /\ dropped = 0
    /\ reader = "add" => serverActor = "idle" /\ readerReg = space
    /\ serverActor = "store" => actorReg = space
    /\ space + readCnt + queue = BufferSize + Uncounted
    /\ credit >= Pending
    /\ credit + up + queue + readCnt <= BufferSize + Pending
    /\ writer = "store" =>
           writerReg >= 1 /\ writerReg + up + queue + readCnt <= BufferSize + 1

CleanGrants ==
    /\ \A i \in 1..Len(down) :
           down[i].taken = Taken => down[i].room + queue + readCnt <= BufferSize
    /\ \A i \in 1..Len(unflushed) :
           unflushed[i].taken = Taken => unflushed[i].room + queue + readCnt <= BufferSize

CleanInv == causes = {} => CleanNumbers /\ CleanGrants

LEMMA SumsShrink ==
    ASSUME NEW n \in Nat, NEW m \in Nat, NEW a \in Nat, NEW b \in Nat, NEW c \in Nat,
           NEW d \in Nat, c + d <= a + b, n + a + b <= m
    PROVE  n + c + d <= m
  OBVIOUS

\* Packets queued and counted do not grow while the server takes none.
LEMMA GrantsStay ==
    ASSUME TypeOK, CleanGrants, UNCHANGED <<down, unflushed>>, Taken' = Taken,
           queue' \in Nat, readCnt' \in Nat, queue' + readCnt' <= queue + readCnt
    PROVE  CleanGrants'
<1>1. queue \in Nat /\ readCnt \in Nat /\ BufferSize \in Nat
  BY FlowConstants, TargetType DEF TypeOK
<1>2. ASSUME NEW n \in Nat, n + queue + readCnt <= BufferSize
      PROVE  n + queue' + readCnt' <= BufferSize
  BY ONLY <1>1, <1>2, SumsShrink, queue' \in Nat, readCnt' \in Nat,
          queue' + readCnt' <= queue + readCnt
<1>3. /\ \A i \in 1..Len(down) : down[i] \in Grants
      /\ \A i \in 1..Len(unflushed) : unflushed[i] \in Grants
  BY SMTT(30) DEF TypeOK
<1>4. /\ \A i \in 1..Len(down) : down[i].room \in Nat
      /\ \A i \in 1..Len(unflushed) : unflushed[i].room \in Nat
  BY <1>3 DEF Grants
<1>5. QED
  BY <1>2, <1>4 DEF CleanGrants

LEMMA CleanNext ==
    ASSUME TypeOK, Bounds, BooksInv, CleanInv, [Next]_vars
    PROVE  CleanInv'
<1> SUFFICES ASSUME causes' = {} PROVE CleanNumbers' /\ CleanGrants'
  BY DEF CleanInv
<1>a. causes = {} /\ CleanNumbers /\ CleanGrants
  BY Steps DEF CleanInv
<1>b. /\ credit \in Nat /\ space \in Nat /\ up \in Nat /\ queue \in Nat /\ readCnt \in Nat
      /\ writerReg \in Nat /\ actorReg \in Nat /\ readerReg \in Nat /\ BufferSize \in Nat
      /\ writer \in {"idle", "register", "parked", "ready", "load", "store"}
      /\ writerThen \in {"idle", "ready"} /\ chunk \in {0, 1}
      /\ serverActor \in {"idle", "load", "store"} /\ reader \in {"idle", "lock", "add"}
      /\ delivered \in Nat /\ dropped \in Nat
  BY FlowConstants, TargetType DEF TypeOK
<1>c. /\ dropped = 0
      /\ reader = "add" => serverActor = "idle" /\ readerReg = space
      /\ serverActor = "store" => actorReg = space
      /\ serverActor = "idle" => space + readCnt + queue = BufferSize
      /\ serverActor # "idle" => space + readCnt + queue = BufferSize + 1
      /\ writer \in {"load", "store"} =>
             credit >= 1 /\ credit + up + queue + readCnt <= BufferSize + 1
      /\ writer \notin {"load", "store"} => credit + up + queue + readCnt <= BufferSize
      /\ writer = "store" =>
             writerReg >= 1 /\ writerReg + up + queue + readCnt <= BufferSize + 1
  BY <1>a, <1>b DEF CleanNumbers, Pending, Uncounted
<1> DEFINE NewNumbers ==
      /\ dropped' = 0
      /\ reader' = "add" => serverActor' = "idle" /\ readerReg' = space'
      /\ serverActor' = "store" => actorReg' = space'
      /\ serverActor' = "idle" => space' + readCnt' + queue' = BufferSize
      /\ serverActor' # "idle" => space' + readCnt' + queue' = BufferSize + 1
      /\ writer' \in {"load", "store"} =>
             credit' >= 1 /\ credit' + up' + queue' + readCnt' <= BufferSize + 1
      /\ writer' \notin {"load", "store"} => credit' + up' + queue' + readCnt' <= BufferSize
      /\ writer' = "store" =>
             writerReg' >= 1 /\ writerReg' + up' + queue' + readCnt' <= BufferSize + 1
<1>d. CASE Acts /\ Blame
  <2>0. /\ ~Crossed
        /\ reader' = "add" => serverActor' = "idle"
        /\ up' > up => credit # 0 /\ chunk # 0
    BY <1>d, NotBlamed, <1>b DEF Overlapped, Unpaid
  <2>types. TypeOK' => credit' \in Nat
    BY DEF TypeOK
  <2>z. ASSUME NewNumbers, credit' \in Nat PROVE CleanNumbers'
    BY <2>z, <1>b DEF CleanNumbers, Pending, Uncounted
  <2> HIDE DEF NewNumbers
  <2>1. CASE PollReady
    <3>1. UNCHANGED <<credit, serverVars, unflushed, down>>
      BY <2>1 DEF PollReady
    <3>2. \/ writer' \in {"register", "ready"} /\ up' = up
          \/ writer' = "load" /\ up' = up + 1 /\ credit > 0
      BY <2>1 DEF PollReady, WriteChunk
    <3>3. NewNumbers
      BY <3>1, <3>2, <2>1, <1>b, <1>c DEF NewNumbers, serverVars, PollReady
    <3>4. QED
      BY <1>a, <1>b, <2>z, <3>1, <3>3, GrantsStay DEF serverVars, Taken
  <2>2. CASE FlowRegister
    <3>1. NewNumbers /\ UNCHANGED <<credit, serverVars, unflushed, down>>
      BY <2>2, <1>b, <1>c DEF NewNumbers, FlowRegister, serverVars, linkVars
    <3>2. QED
      BY <1>a, <1>b, <2>z, <3>1, GrantsStay DEF serverVars, Taken
  <2>3. CASE StartSend
    <3>1. NewNumbers /\ UNCHANGED <<credit, serverVars, unflushed, down>>
      BY <2>3, <1>b, <1>c DEF NewNumbers, StartSend, serverVars, linkVars
    <3>2. QED
      BY <1>a, <1>b, <2>z, <3>1, GrantsStay DEF serverVars, Taken
  <2>4. CASE PollFlush
    <3>1. UNCHANGED <<credit, serverVars, unflushed, down>>
      BY <2>4 DEF PollFlush
    <3>2. NewNumbers
      BY <3>1, <2>0, <2>4, <1>b, <1>c DEF NewNumbers, serverVars, PollFlush, WriteChunk
    <3>3. QED
      BY <1>a, <1>b, <2>z, <3>1, <3>2, GrantsStay DEF serverVars, Taken
  <2>5. CASE ClientDecLoad
    <3>1. NewNumbers /\ UNCHANGED <<credit, serverVars, unflushed, down>>
      BY <2>5, <1>b, <1>c DEF NewNumbers, ClientDecLoad, serverVars, linkVars
    <3>2. QED
      BY <1>a, <1>b, <2>z, <3>1, GrantsStay DEF serverVars, Taken
  <2>6. CASE ClientDecStore
    <3>1. /\ UNCHANGED <<serverVars, unflushed, down, up>> /\ writer = "store"
          /\ writer' \in {"idle", "ready"}
      BY <2>6, <1>b DEF ClientDecStore, linkVars
    <3>2. credit' = writerReg - 1
      BY <2>6, <1>b, <1>c DEF ClientDecStore, SaturatingDec
    <3>3. NewNumbers /\ credit' \in Nat
      BY <3>1, <3>2, <1>b, <1>c DEF NewNumbers, serverVars
    <3>4. QED
      BY <1>a, <1>b, <2>z, <3>1, <3>3, GrantsStay DEF serverVars, Taken
  <2>7. CASE PollWrite
    BY <2>0, <2>7, <1>b DEF PollWrite
  <2>8. CASE FlowSet
    <3>1. /\ down # <<>> /\ down \in Seq(Grants) /\ down' = Tail(down)
          /\ credit' = Head(down).room
          /\ UNCHANGED <<writer, writerReg, serverVars, up, unflushed, accepted, chunk>>
          /\ clientActor = "idle" /\ clientActor' = "wake"
      BY <2>8 DEF FlowSet, TypeOK
    <3>2. /\ Head(down) = down[1] /\ 1 \in 1..Len(down) /\ down[1].room \in Nat
          /\ down[1].taken \in Nat
      BY <3>1, TakeGrant
    <3>3. down[1].room >= 1 /\ down[1].taken <= Taken /\ Written = up + Taken
      BY <3>2 DEF BooksInv
    <3>4. Taken \in Nat /\ Written \in Int
      BY <1>b DEF Taken, Written, TypeOK
    <3>5. down[1].taken >= Written
      BY <2>0, <3>1, <3>2, <3>4 DEF Crossed
    <3>6. up = 0 /\ down[1].taken = Taken
      BY <3>2, <3>3, <3>4, <3>5, <1>b
    <3>7. down[1].room + queue + readCnt <= BufferSize
      BY <1>a, <3>2, <3>6 DEF CleanGrants
    <3>8. NewNumbers /\ credit' \in Nat
      <4> HIDE DEF Taken, Written
      <4>1. credit' = down[1].room /\ credit' \in Nat
        BY <3>1, <3>2
      <4>2. credit' >= 1 /\ credit' + queue + readCnt <= BufferSize
        BY <4>1, <3>3, <3>7
      <4>3. /\ up' = 0 /\ UNCHANGED <<writer, writerReg, queue, readCnt, dropped, space, reader,
                                       readerReg, serverActor, actorReg>>
        BY <3>1, <3>6 DEF serverVars
      <4>4. credit' + up' + queue' + readCnt' <= BufferSize
        BY <4>1, <4>2, <4>3, <1>b
      <4>5. credit' + up' + queue' + readCnt' <= BufferSize + 1
        BY <4>1, <4>3, <4>4, <1>b
      <4>6. writer' = "store" =>
                writerReg' >= 1 /\ writerReg' + up' + queue' + readCnt' <= BufferSize + 1
        BY <3>1, <4>3, <1>b, <1>c
      <4>7. QED
        BY <4>1, <4>2, <4>3, <4>4, <4>5, <4>6, <1>c DEF NewNumbers
    <3>9. CleanGrants'
      <4>1. Taken' = Taken /\ UNCHANGED <<queue, readCnt, unflushed>>
        BY <3>1 DEF Taken, serverVars
      <4>2. \A i \in 1..Len(down') : i + 1 \in 1..Len(down) /\ down'[i] = down[i + 1]
        BY <3>1, TakeGrant
      <4>3. QED
        BY <4>1, <4>2, <1>a DEF CleanGrants
    <3>10. QED
      BY <2>z, <3>8, <3>9
  <2>9. CASE FlowWake
    <3>1. NewNumbers /\ UNCHANGED <<credit, serverVars, unflushed, down>>
      BY <2>9, <1>b, <1>c DEF NewNumbers, FlowWake, serverVars, linkVars
    <3>2. QED
      BY <1>a, <1>b, <2>z, <3>1, GrantsStay DEF serverVars, Taken
  <2>10. CASE TrySend
    <3>1. /\ up > 0 /\ up' = up - 1 /\ serverActor = "idle"
          /\ UNCHANGED <<space, actorReg, reader, readerReg, readCnt, delivered, clientVars,
                         unflushed, down>>
      BY <2>10 DEF TrySend
    <3>2. queue < BufferSize
      BY <3>1, <1>b, <1>c
    <3>3. queue' = queue + 1 /\ serverActor' = "load" /\ dropped' = dropped
      BY <2>10, <3>2, <1>b DEF TrySend
    <3>4. NewNumbers
      BY <3>1, <3>3, <2>0, <1>b, <1>c DEF NewNumbers, clientVars
    <3>5. CleanGrants'
      <4>1. Taken' = Taken + 1 /\ Taken \in Nat
        BY <3>1, <3>3, <1>b DEF Taken
      <4> HIDE DEF Taken
      <4>2. /\ \A i \in 1..Len(down) : down[i] \in Grants /\ down[i].taken <= Taken
            /\ \A i \in 1..Len(unflushed) : unflushed[i] \in Grants /\ unflushed[i].taken <= Taken
        BY SMTT(30) DEF TypeOK, BooksInv
      <4>3. /\ \A i \in 1..Len(down) : down[i].taken \in Nat /\ down[i].taken <= Taken
            /\ \A i \in 1..Len(unflushed) : unflushed[i].taken \in Nat /\ unflushed[i].taken <= Taken
        BY <4>2 DEF Grants
      <4>4. QED
        BY <3>1, <4>1, <4>3 DEF CleanGrants
    <3>6. QED
      BY <2>z, <3>1, <3>4, <3>5, <1>b DEF clientVars
  <2>11. CASE ServerDecLoad
    <3>1. NewNumbers /\ UNCHANGED <<credit, delivered, dropped, queue, reader, readCnt, unflushed, down>>
      BY <2>11, <1>b, <1>c DEF NewNumbers, ServerDecLoad, clientVars, linkVars
    <3>2. QED
      BY <1>a, <1>b, <2>z, <3>1, GrantsStay DEF Taken
  <2>12. CASE ServerDecStore
    <3>1. /\ UNCHANGED <<clientVars, linkVars, queue, actorReg, reader, readerReg, readCnt,
                         delivered, dropped>>
          /\ serverActor = "store" /\ serverActor' = "idle"
      BY <2>12 DEF ServerDecStore
    <3>2. space >= 1 /\ actorReg = space
      BY <3>1, <1>b, <1>c
    <3>3. space' = space - 1
      BY <2>12, <3>2, <1>b DEF ServerDecStore, SaturatingDec
    <3>4. NewNumbers
      BY <3>1, <3>3, <1>b, <1>c DEF NewNumbers, clientVars, linkVars
    <3>5. QED
      BY <1>a, <1>b, <2>z, <3>1, <3>4, GrantsStay DEF Taken, clientVars, linkVars
  <2>13. CASE Receive
    <3>1. /\ UNCHANGED <<space, serverActor, actorReg, readerReg, dropped, clientVars, linkVars>>
          /\ reader = "idle" /\ queue > 0 /\ queue' = queue - 1 /\ readCnt' = readCnt + 1
      BY <2>13 DEF Receive
    <3>2. \/ reader' = "lock" /\ delivered' = delivered
          \/ reader' = "idle" /\ delivered' = delivered + 1
      BY <2>13 DEF Receive
    <3>3. NewNumbers
      BY <3>1, <3>2, <1>b, <1>c DEF NewNumbers, clientVars, linkVars
    <3>4. Taken' = Taken /\ queue' \in Nat /\ readCnt' \in Nat /\ queue' + readCnt' = queue + readCnt
      <4>1. queue' \in Nat /\ readCnt' \in Nat /\ queue' + readCnt' = queue + readCnt
        BY <3>1, <1>b
      <4>2. CASE reader' = "lock" /\ delivered' = delivered
        BY <3>1, <4>2, <1>b DEF Taken
      <4>3. CASE reader' = "idle" /\ delivered' = delivered + 1
        BY <3>1, <4>3, <1>b DEF Taken
      <4>4. QED
        BY <3>2, <4>1, <4>2, <4>3
    <3>5. queue' + readCnt' <= queue + readCnt
      BY <3>1, <1>b
    <3>6. QED
      BY <1>a, <1>b, <2>z, <3>1, <3>3, <3>4, <3>5, GrantsStay DEF clientVars, linkVars
  <2>14. CASE AddLoad
    <3>1. NewNumbers /\ UNCHANGED <<credit, unflushed, down, queue, readCnt>> /\ Taken' = Taken
      BY <2>0, <2>14, <1>b, <1>c DEF NewNumbers, AddLoad, clientVars, linkVars, Taken
    <3>2. QED
      BY <1>a, <1>b, <2>z, <3>1, GrantsStay
  <2>15. CASE AddStore
    <3>1. /\ reader = "add" /\ reader' = "idle" /\ readCnt' = 0 /\ space' = readerReg + readCnt
          /\ unflushed' = Append(unflushed, Grant(readerReg + readCnt))
          /\ delivered' = delivered + 1
          /\ UNCHANGED <<queue, serverActor, actorReg, readerReg, dropped, clientVars, up, down>>
      BY <2>15 DEF AddStore
    <3>2. readerReg + readCnt + queue = BufferSize
      BY <3>1, <1>b, <1>c
    <3>3. NewNumbers
      BY <3>1, <3>2, <1>b, <1>c DEF NewNumbers, clientVars
    <3>4. Taken' = Taken
      BY <3>1, <1>b DEF Taken
    <3>5. CleanGrants'
      <4> DEFINE g == Grant(readerReg + readCnt)
      <4>1. g \in Grants /\ g.room + queue = BufferSize
        <5>1. Taken \in Nat /\ readerReg + readCnt \in Nat
          BY <1>b DEF Taken
        <5>2. QED
          BY <3>2, <5>1 DEF Grant, Grants
      <4> HIDE DEF g
      <4>2. /\ Len(unflushed') = Len(unflushed) + 1 /\ Len(unflushed) \in Nat
            /\ \A i \in 1..Len(unflushed) : unflushed'[i] = unflushed[i]
            /\ unflushed'[Len(unflushed) + 1] = g
        BY <3>1, <4>1, AddGrant DEF TypeOK, g
      <4>3. /\ \A i \in 1..Len(down) : down[i] \in Grants
            /\ \A i \in 1..Len(unflushed) : unflushed[i] \in Grants
        BY DEF TypeOK
      <4>4. /\ \A i \in 1..Len(down) : down[i].room \in Nat
            /\ \A i \in 1..Len(unflushed) : unflushed[i].room \in Nat
        BY <4>3 DEF Grants
      <4>5. \A n \in Nat : n + queue + readCnt <= BufferSize => n + queue <= BufferSize
        BY <1>b
      <4>6. g.room \in Nat /\ g.room + queue + 0 <= BufferSize
        BY <4>1, <1>b DEF Grants
      <4>7. /\ \A i \in 1..Len(down) : down[i].taken = Taken => down[i].room + queue <= BufferSize
            /\ \A i \in 1..Len(unflushed) :
                   unflushed[i].taken = Taken => unflushed[i].room + queue <= BufferSize
        BY <4>4, <4>5, <1>a DEF CleanGrants
      <4>8. \A i \in 1..Len(unflushed') :
               unflushed'[i].taken = Taken => unflushed'[i].room + queue <= BufferSize
        <5> SUFFICES ASSUME NEW i \in 1..Len(unflushed'), unflushed'[i].taken = Taken
                     PROVE  unflushed'[i].room + queue <= BufferSize
          OBVIOUS
        <5>1. CASE i = Len(unflushed) + 1
          BY <5>1, <4>1, <4>2, <1>b
        <5>2. CASE i \in 1..Len(unflushed)
          BY <5>2, <4>2, <4>7
        <5>3. QED
          BY <4>2, <5>1, <5>2
      <4>9. \A n \in Nat : n + queue + 0 = n + queue
        BY <1>b
      <4>10. \A i \in 1..Len(unflushed') : unflushed'[i].room \in Nat
        <5> SUFFICES ASSUME NEW i \in 1..Len(unflushed') PROVE unflushed'[i].room \in Nat
          OBVIOUS
        <5>1. CASE i = Len(unflushed) + 1
          BY <5>1, <4>2, <4>6
        <5>2. CASE i \in 1..Len(unflushed)
          BY <5>2, <4>2, <4>4
        <5>3. QED
          BY <4>2, <5>1, <5>2
      <4>11. UNCHANGED <<down, queue>> /\ readCnt' = 0 /\ Taken' = Taken
        BY <3>1, <3>4
      <4> HIDE DEF Taken
      <4>12. QED
        BY <4>4, <4>7, <4>8, <4>9, <4>10, <4>11 DEF CleanGrants
    <3>6. QED
      BY <2>z, <3>1, <3>3, <3>5, <1>b DEF clientVars
  <2>16. QED
    BY <1>d, <2>1, <2>2, <2>3, <2>4, <2>5, <2>6, <2>7, <2>8, <2>9,
       <2>10, <2>11, <2>12, <2>13, <2>14, <2>15 DEF Acts
<1>e. CASE Flush
  <2>1. /\ down' = down \o unflushed /\ unflushed' = <<>> /\ UNCHANGED <<clientVars, serverVars, up>>
        /\ down \in Seq(Grants) /\ unflushed \in Seq(Grants)
    BY <1>e DEF Flush, TypeOK
  <2>2. CleanNumbers'
    BY <1>a, <2>1 DEF CleanNumbers, Pending, Uncounted, clientVars, serverVars
  <2>3. /\ Len(down') = Len(down) + Len(unflushed) /\ Len(down) \in Nat /\ Len(unflushed) \in Nat
        /\ \A i \in 1..Len(down') : down'[i] = IF i <= Len(down) THEN down[i]
                                                               ELSE unflushed[i - Len(down)]
        /\ Len(unflushed') = 0
    BY <2>1
  <2>4. \A i \in 1..Len(down') : \/ i \in 1..Len(down) /\ down'[i] = down[i]
                                 \/ i - Len(down) \in 1..Len(unflushed)
                                    /\ down'[i] = unflushed[i - Len(down)]
    BY <2>3
  <2>5. UNCHANGED <<queue, readCnt, Taken>>
    BY <2>1 DEF serverVars, Taken
  <2>6. CleanGrants'
    <3>1. ASSUME NEW i \in 1..Len(down'), down'[i].taken = Taken
          PROVE  down'[i].room + queue + readCnt <= BufferSize
      BY <1>a, <2>4, <3>1 DEF CleanGrants
    <3>2. 1..Len(unflushed') = {}
      BY <2>3
    <3> HIDE DEF Taken
    <3>3. QED
      BY <2>5, <3>1, <3>2 DEF CleanGrants
  <2>7. QED
    BY <2>2, <2>6
<1>f. CASE UNCHANGED vars
  BY <1>a, <1>f DEF vars, clientVars, serverVars, linkVars, CleanNumbers, CleanGrants, Pending,
                    Uncounted, Taken
<1>g. QED
  BY <1>d, <1>e, <1>f, Steps
-----------------------------------------------------------------------------
(***************************************************************************)
(* When the target is one below the buffer, a CONTINUE is only made when   *)
(* the client has used up its credit and nothing is under way: there is    *)
(* one at a time and it crosses nothing.                                   *)
(***************************************************************************)
Quiet ==
    /\ credit = Pending /\ up = 0 /\ queue = 0 /\ readCnt = 0
    /\ writer = "store" => writerReg = 1

OneGrant ==
    /\ Len(down) + Len(unflushed) <= 1
    /\ down # <<>> => Quiet /\ down[1].taken = Taken
    /\ unflushed # <<>> => Quiet /\ unflushed[1].taken = Taken

SmallInv ==
    TargetFlowControl = BufferSize - 1 /\ "overlapped" \notin causes /\ "unpaid" \notin causes =>
        "crossed" \notin causes /\ OneGrant

LEMMA SmallNext ==
    ASSUME TypeOK, Bounds, BooksInv, CleanInv, SmallInv, [Next]_vars
    PROVE  SmallInv'
<1> SUFFICES ASSUME TargetFlowControl = BufferSize - 1, "overlapped" \notin causes',
                    "unpaid" \notin causes'
             PROVE  "crossed" \notin causes' /\ OneGrant'
  BY DEF SmallInv, TargetFlowControl
<1>a. "crossed" \notin causes /\ OneGrant /\ CleanNumbers
  <2>1. "overlapped" \notin causes /\ "unpaid" \notin causes
    BY Steps
  <2>2. "crossed" \notin causes /\ OneGrant
    BY <2>1 DEF SmallInv
  <2>3. causes = {}
    BY <2>1, <2>2 DEF TypeOK, CauseNames
  <2>4. QED
    BY <2>2, <2>3 DEF CleanInv
<1>b. /\ credit \in Nat /\ up \in Nat /\ queue \in Nat /\ readCnt \in Nat
      /\ writerReg \in Nat /\ BufferSize \in Nat \ {0}
      /\ writer \in {"idle", "register", "parked", "ready", "load", "store"}
      /\ writerThen \in {"idle", "ready"}
      /\ serverActor \in {"idle", "load", "store"} /\ reader \in {"idle", "lock", "add"}
      /\ delivered \in Nat /\ dropped \in Nat /\ Taken \in Nat
      /\ down \in Seq(Grants) /\ unflushed \in Seq(Grants)
  BY FlowConstants, TargetType DEF TypeOK, Taken
<1>d. CASE Acts /\ Blame
  <2>0. /\ "crossed" \in causes' => Crossed
        /\ up' > up => credit # 0 /\ chunk # 0
    BY <1>a, <1>b, <1>d, NotBlamed DEF Unpaid
  <2>z. ASSUME UNCHANGED <<down, unflushed, clientActor>>, Taken' = Taken, Quiet => Quiet'
        PROVE  "crossed" \notin causes' /\ OneGrant'
    BY <1>a, <2>0, <2>z DEF OneGrant, Crossed
  <2>y. ASSUME UNCHANGED <<down, unflushed, clientActor>>, ~Quiet
        PROVE  "crossed" \notin causes' /\ OneGrant'
    BY <1>a, <2>0, <2>y DEF OneGrant, Crossed
  <2>1. CASE PollReady
    <3>1. UNCHANGED <<down, unflushed, clientActor, credit, writerReg, serverVars>>
      BY <2>1 DEF PollReady
    <3>2. Taken' = Taken
      BY <3>1 DEF Taken, serverVars
    <3>3. Quiet => credit = 0
      BY <2>1, <1>b DEF Quiet, Pending, PollReady
    <3>4. Quiet => writer' = "register" /\ up' = up
      BY <2>1, <3>3 DEF PollReady
    <3>5. Quiet => Quiet'
      BY <3>1, <3>3, <3>4 DEF Quiet, Pending, serverVars
    <3>6. QED
      BY <2>z, <3>1, <3>2, <3>5
  <2>2. CASE FlowRegister
    BY <2>2, <2>z DEF FlowRegister, Quiet, Pending, Taken, serverVars, linkVars
  <2>3. CASE StartSend
    BY <2>3, <2>z DEF StartSend, Quiet, Pending, Taken, serverVars, linkVars
  <2>4. CASE PollFlush
    <3>1. ~Quiet
      BY <2>0, <2>4, <1>b DEF PollFlush, WriteChunk, Quiet, Pending
    <3>2. QED
      BY <2>4, <2>y, <3>1 DEF PollFlush
  <2>5. CASE ClientDecLoad
    BY <2>5, <2>z DEF ClientDecLoad, Quiet, Pending, Taken, serverVars, linkVars
  <2>6. CASE ClientDecStore
    <3>1. Quiet => credit' = 0
      BY <2>6 DEF ClientDecStore, SaturatingDec, Quiet
    <3>2. Quiet => Quiet'
      BY <2>6, <3>1, <1>b DEF ClientDecStore, Quiet, Pending, serverVars, linkVars
    <3>3. QED
      BY <2>6, <2>z, <3>2 DEF ClientDecStore, Taken, serverVars, linkVars
  <2>7. CASE PollWrite
    BY <2>0, <2>7, <1>b DEF PollWrite
  <2>8. CASE FlowSet
    <3>1. down # <<>> /\ down' = Tail(down) /\ unflushed' = unflushed
      BY <2>8 DEF FlowSet
    <3>2. Quiet /\ down[1].taken = Taken
      BY <1>a, <3>1 DEF OneGrant
    <3>3. Head(down) = down[1] /\ Len(down) \in Nat \ {0} /\ Len(down') = Len(down) - 1
      BY <1>b, <3>1, TakeGrant
    <3>4. Len(unflushed) \in Nat /\ Len(unflushed) = 0 /\ Len(down') = 0
      BY <1>a, <1>b, <3>3 DEF OneGrant
    <3>5. unflushed' = <<>> /\ down' = <<>>
      BY <1>b, <3>1, <3>4
    <3>6. ~Crossed
      <4>1. Written = up + Taken /\ up = 0
        BY <3>2 DEF BooksInv, Quiet
      <4>2. Written = Taken
        BY <4>1, <1>b
      <4>3. QED
        BY <3>2, <3>3, <4>2, <1>b DEF Crossed
    <3>7. QED
      BY <2>0, <3>5, <3>6 DEF OneGrant
  <2>9. CASE FlowWake
    <3>1. ~Crossed /\ UNCHANGED <<down, unflushed>> /\ Taken' = Taken /\ (Quiet => Quiet')
      BY <2>9 DEF FlowWake, Crossed, Quiet, Pending, Taken, serverVars, linkVars
    <3>2. QED
      BY <1>a, <2>0, <3>1 DEF OneGrant
  <2>10. CASE TrySend
    <3>1. ~Quiet
      BY <2>10 DEF TrySend, Quiet
    <3>2. QED
      BY <2>10, <2>y, <3>1 DEF TrySend, clientVars
  <2>11. CASE ServerDecLoad
    BY <2>11, <2>z DEF ServerDecLoad, Quiet, Pending, Taken, clientVars, linkVars
  <2>12. CASE ServerDecStore
    BY <2>12, <2>z DEF ServerDecStore, Quiet, Pending, Taken, clientVars, linkVars
  <2>13. CASE Receive
    <3>1. ~Quiet
      BY <2>13 DEF Receive, Quiet
    <3>2. QED
      BY <2>13, <2>y, <3>1 DEF Receive, clientVars, linkVars
  <2>14. CASE AddLoad
    BY <2>14, <2>z DEF AddLoad, Quiet, Pending, Taken, clientVars, linkVars
  <2>15. CASE AddStore
    <3>1. /\ reader = "add" /\ readCnt' = 0 /\ reader' = "idle" /\ delivered' = delivered + 1
          /\ unflushed' = Append(unflushed, Grant(readerReg + readCnt))
          /\ UNCHANGED <<queue, dropped, clientVars, up, down>>
      BY <2>15 DEF AddStore
    <3>2. readCnt = BufferSize
      BY <3>1, <1>b DEF BooksInv
    <3>3. ~Quiet
      BY <3>2, <1>b DEF Quiet
    <3>4. down = <<>> /\ unflushed = <<>>
      BY <1>a, <3>3 DEF OneGrant
    <3>5. credit = Pending /\ up = 0 /\ queue = 0 /\ (writer = "store" => writerReg = 1)
      BY <1>a, <1>b, <3>2 DEF CleanNumbers, Pending
    <3>6. Quiet'
      BY <3>1, <3>5 DEF Quiet, Pending, clientVars
    <3>7. Taken' = Taken
      BY <3>1, <1>b DEF Taken
    <3>8. unflushed' = <<Grant(readerReg + readCnt)>> /\ Grant(readerReg + readCnt).taken = Taken
      BY <3>1, <3>4 DEF Grant
    <3>9. down' = <<>> /\ Len(unflushed') = 1 /\ unflushed'[1].taken = Taken
      BY <3>1, <3>4, <3>8 DEF clientVars
    <3>10. "crossed" \notin causes'
      BY <2>0, <3>1 DEF Crossed, clientVars
    <3>11. QED
      BY <3>6, <3>7, <3>9, <3>10 DEF OneGrant
  <2>16. QED
    BY <1>d, <2>1, <2>2, <2>3, <2>4, <2>5, <2>6, <2>7, <2>8, <2>9,
       <2>10, <2>11, <2>12, <2>13, <2>14, <2>15 DEF Acts
<1>e. CASE Flush
  <2>1. /\ down' = down \o unflushed /\ unflushed' = <<>> /\ unflushed # <<>> /\ causes' = causes
        /\ UNCHANGED <<clientVars, serverVars, up>>
    BY <1>e DEF Flush
  <2>2. Len(down) \in Nat /\ Len(unflushed) \in Nat \ {0}
    BY <1>b, <2>1
  <2>3. Len(down) = 0
    BY <1>a, <2>2 DEF OneGrant
  <2>4. down = <<>> /\ down' = unflushed
    BY <1>b, <2>1, <2>3
  <2>5. Quiet' = Quiet /\ Taken' = Taken
    BY <2>1 DEF Quiet, Pending, Taken, clientVars, serverVars
  <2>6. Len(unflushed') = 0
    BY <2>1
  <2>7. QED
    BY <1>a, <2>1, <2>2, <2>4, <2>5, <2>6 DEF OneGrant
<1>f. CASE UNCHANGED vars
  BY <1>a, <1>f DEF vars, clientVars, serverVars, linkVars, OneGrant, Quiet, Pending, Taken
<1>g. QED
  BY <1>d, <1>e, <1>f, Steps
-----------------------------------------------------------------------------
LEMMA FlowInvariants ==
    Spec => [](TypeOK /\ Bounds /\ BooksInv /\ SendInv /\ CleanInv /\ SmallInv)
<1>1. Init => BooksInv /\ SendInv /\ CleanInv /\ SmallInv
  <2> SUFFICES ASSUME Init PROVE BooksInv /\ SendInv /\ CleanInv /\ SmallInv
    OBVIOUS
  <2>1. 1..Len(down) = {} /\ 1..Len(unflushed) = {} /\ Len(down) = 0 /\ Len(unflushed) = 0
    BY DEF Init
  <2> USE FlowConstants, <2>1 DEF Init
  <2>2. BooksInv
    BY DEF BooksInv, Written, Taken
  <2>3. SendInv
    BY DEF SendInv
  <2>4. CleanInv
    BY DEF CleanInv, CleanNumbers, CleanGrants, Pending, Uncounted
  <2>5. SmallInv
    BY DEF SmallInv, OneGrant
  <2>6. QED
    BY <2>2, <2>3, <2>4, <2>5
<1>2. TypeOK /\ Bounds /\ BooksInv /\ SendInv /\ CleanInv /\ SmallInv /\ [Next]_vars =>
          BooksInv' /\ SendInv' /\ CleanInv' /\ SmallInv'
  BY BooksNext, SendNext, CleanNext, SmallNext
<1>3. QED
  BY <1>1, <1>2, FlowTypes, PTL DEF Spec

\* Data is only thrown away after a CONTINUE that missed packets under way, with
\* a target more than one below the buffer; after an overlap of the two updates
\* on two threads; or when the application wrote without credit.  For every
\* buffer, every way of writing and every threading of both sides.
THEOREM LossIsExplained == Spec => []LossExplained
<1>1. TypeOK /\ BooksInv /\ SendInv /\ CleanInv /\ SmallInv => LossExplained
  <2> SUFFICES ASSUME TypeOK, BooksInv, SendInv, CleanInv, SmallInv, dropped > 0
               PROVE  \/ "crossed" \in causes /\ TargetFlowControl < BufferSize - 1
                      \/ "overlapped" \in causes /\ "server" \in Parallel
                      \/ "unpaid" \in causes /\ Writers # {"send"}
    BY DEF LossExplained
  <2>1. causes # {}
    BY DEF CleanInv, CleanNumbers
  <2>2. "crossed" \in causes \/ "overlapped" \in causes \/ "unpaid" \in causes
    BY <2>1 DEF TypeOK, CauseNames
  <2>3. "overlapped" \in causes => "server" \in Parallel
    BY DEF BooksInv
  <2>4. "unpaid" \in causes => Writers # {"send"}
    BY DEF SendInv
  <2>5. "crossed" \in causes /\ "overlapped" \notin causes /\ "unpaid" \notin causes =>
            TargetFlowControl # BufferSize - 1
    BY DEF SmallInv
  <2>6. TargetFlowControl < BufferSize /\ TargetFlowControl \in Nat /\ BufferSize \in Nat
    BY FlowConstants, TargetBelow, TargetType
  <2>7. TargetFlowControl # BufferSize - 1 => TargetFlowControl < BufferSize - 1
    BY <2>6
  <2>8. QED
    BY <2>2, <2>3, <2>4, <2>5, <2>7
<1>2. QED
  BY <1>1, FlowInvariants, PTL

\* Until then the room the server would advertise is exactly the room in the
\* stream's channel: the counter and the queue agree, for every buffer, every
\* way of writing and every threading.
THEOREM RoomIsExact == Spec => []AdvertisedSpace
<1>1. TypeOK /\ CleanInv => AdvertisedSpace
  <2> SUFFICES ASSUME TypeOK, CleanInv, serverActor = "idle", causes = {}
               PROVE  space + readCnt = BufferSize - queue
    BY DEF AdvertisedSpace
  <2>1. space + readCnt + queue = BufferSize
    BY FlowConstants DEF CleanInv, CleanNumbers, Uncounted
  <2>2. space \in Nat /\ readCnt \in Nat /\ queue \in Nat /\ BufferSize \in Nat
    BY FlowConstants, TargetType DEF TypeOK
  <2>3. QED
    BY <2>1, <2>2
<1>2. QED
  BY <1>1, FlowInvariants, PTL
=============================================================================
