------------------------- MODULE MqChatServerProofs -------------------------
(***************************************************************************)
(* Proofs about the message-queue chat server, for any number of client    *)
(* slots, any queue length and any number of messages.                     *)
(***************************************************************************)
EXTENDS MqChatServer, TLAPS

-----------------------------------------------------------------------------
(* What the queue operators return.                                        *)

\* Putting a message in a queue gives a queue (mq_send, server.c:283).
LEMMA PutType ==
  ASSUME NEW M, NEW q \in [Prio -> Seq(M)], NEW p \in Prio, NEW m \in M
  PROVE  Put(q, p, m) \in [Prio -> Seq(M)]
BY DEF Put

\* The reported priority is one whose sequence is not empty
\* (mq_receive, server.c:247).
LEMMA TopPrioType ==
  ASSUME NEW M, NEW q \in [Prio -> Seq(M)], ~NoMessage(q)
  PROVE  TopPrio(q) \in Prio /\ q[TopPrio(q)] # << >>
BY DEF NoMessage, TopPrio, Prio, PRIO_REGULAR_MSG, PRIO_SERVICE_MSG

\* Receiving returns one of the queue's messages and leaves a queue
\* (mq_receive, server.c:247).
LEMMA FrontRestType ==
  ASSUME NEW M, NEW q \in [Prio -> Seq(M)], ~NoMessage(q)
  PROVE  Front(q) \in M /\ Rest(q) \in [Prio -> Seq(M)]
<1> DEFINE p == TopPrio(q)
<1>1. p \in Prio /\ q[p] # << >>
  BY TopPrioType
<1>2. q[p] \in Seq(M)
  BY <1>1
<1>3. Head(q[p]) \in M /\ Tail(q[p]) \in Seq(M)
  BY <1>1, <1>2
<1> HIDE DEF p
<1>4. [q EXCEPT ![p] = Tail(@)] \in [Prio -> Seq(M)]
  BY <1>1, <1>3
<1> QED
  BY <1>3, <1>4 DEF Front, Rest, p

\* What appending does to the elements.
LEMMA AppendElems ==
  ASSUME NEW M, NEW s \in Seq(M), NEW m \in M
  PROVE  /\ DOMAIN s = 1 .. Len(s) /\ Len(s) \in Nat
         /\ DOMAIN Append(s, m) = 1 .. Len(s) + 1
         /\ \A k \in DOMAIN s : Append(s, m)[k] = s[k] /\ s[k] \in M
         /\ Append(s, m)[Len(s) + 1] = m
OBVIOUS

\* What removing the head does to the elements.
LEMMA TailElems ==
  ASSUME NEW M, NEW s \in Seq(M), s # << >>
  PROVE  /\ DOMAIN s = 1 .. Len(s) /\ Len(s) \in Nat \ {0}
         /\ DOMAIN Tail(s) = 1 .. Len(s) - 1
         /\ \A k \in DOMAIN Tail(s) : Tail(s)[k] = s[k + 1]
         /\ Head(s) = s[1] /\ 1 \in DOMAIN s
OBVIOUS

\* Putting a message of one priority leaves the other alone.
LEMMA PutElems ==
  ASSUME NEW M, NEW q \in [Prio -> Seq(M)], NEW m \in M
  PROVE  /\ Put(q, PRIO_REGULAR_MSG, m)[PRIO_REGULAR_MSG]
              = Append(q[PRIO_REGULAR_MSG], m)
         /\ Put(q, PRIO_REGULAR_MSG, m)[PRIO_SERVICE_MSG]
              = q[PRIO_SERVICE_MSG]
         /\ Put(q, PRIO_SERVICE_MSG, m)[PRIO_REGULAR_MSG]
              = q[PRIO_REGULAR_MSG]
BY DEF Put, Prio, PRIO_REGULAR_MSG, PRIO_SERVICE_MSG

\* A regular message is received before any service message.
LEMMA RestElems ==
  ASSUME NEW M, NEW q \in [Prio -> Seq(M)], q[PRIO_REGULAR_MSG] # << >>
  PROVE  /\ TopPrio(q) = PRIO_REGULAR_MSG
         /\ Front(q) = Head(q[PRIO_REGULAR_MSG])
         /\ Rest(q)[PRIO_REGULAR_MSG] = Tail(q[PRIO_REGULAR_MSG])
         /\ Rest(q)[PRIO_SERVICE_MSG] = q[PRIO_SERVICE_MSG]
BY DEF TopPrio, Front, Rest, Prio, PRIO_REGULAR_MSG, PRIO_SERVICE_MSG

\* Without a regular message the service ones are next.
LEMMA RestService ==
  ASSUME NEW M, NEW q \in [Prio -> Seq(M)], q[PRIO_REGULAR_MSG] = << >>
  PROVE  /\ TopPrio(q) = PRIO_SERVICE_MSG
         /\ Rest(q)[PRIO_REGULAR_MSG] = q[PRIO_REGULAR_MSG]
BY DEF TopPrio, Rest, Prio, PRIO_REGULAR_MSG, PRIO_SERVICE_MSG

-----------------------------------------------------------------------------
(* Type correctness.                                                       *)

\* An incoming and an outgoing queue exist for every slot (server.c:117-126).
LEMMA QueueNumbers ==
  \A t \in Slot : In(t) \in Queue /\ Out(t) \in Queue
BY ClientsAssumption DEF Slot, Queue, In, Out

\* A message a client sends is a message (client.c:119, 204).
LEMMA RegularType == \A c \in Slot, k \in Nat : RegularMsg(c, k) \in Message
BY DEF RegularMsg, Message, Tail256

\* The initial state is well typed.
LEMMA TypeInit == ServerSideInit => ServerTypeOK
BY ClientsAssumption DEF ServerSideInit, ServerInit, ClientsInit, ServerTypeOK,
   ThreadPc, Slot, Queue, EmptyQueue, Prio, PRIO_SERVICE_MSG, PRIO_REGULAR_MSG,
   NoPrio

\* Every step of a thread, of main and of a client keeps the types.
LEMMA ServerTypeStep ==
  ServerTypeOK /\ NoStaleDispatch /\ [ServerSideNext]_serverSideVars
    => ServerTypeOK'
<1> SUFFICES ASSUME ServerTypeOK, NoStaleDispatch,
                    [ServerSideNext]_serverSideVars
             PROVE  ServerTypeOK'
  OBVIOUS
<1> USE DEF ServerTypeOK, ThreadPc, infoVars, mainVars, threadVars, envVars,
            Goto
<1>1. ASSUME NEW t \in Slot, Thread(t), UNCHANGED envVars PROVE ServerTypeOK'
  <2>1. CASE Check(t)
    BY <1>1, <2>1 DEF Check
  <2>2. CASE TryLock(t)
    BY <1>1, <2>2 DEF TryLock
  <2>3. CASE Receive(t)
    <3> DEFINE q == ques[In(t)]
    <3>1. q \in [Prio -> Seq(Message)] /\ ~NoMessage(q)
      BY <2>3, QueueNumbers DEF Receive
    <3>2. /\ Front(q) \in Message /\ Rest(q) \in [Prio -> Seq(Message)]
          /\ TopPrio(q) \in Prio
      BY <3>1, FrontRestType, TopPrioType
    <3>3. PICK tl \in TailAfterReceive(t) :
            msg_buff' = [msg_buff EXCEPT ![t] = [Front(q) EXCEPT !.tail = tl]]
      BY <2>3 DEF Receive
    <3>4. tl \in Tail256
      BY ServerAssumption DEF TailAfterReceive, Tail256
    <3>5. [Front(q) EXCEPT !.tail = tl] \in Message
      BY <3>2, <3>4 DEF Message
    <3>6. ques' \in [Queue -> [Prio -> Seq(Message)]]
      BY <2>3, <3>2 DEF Receive
    <3>7. msg_buff' \in [Slot -> Message \cup {NoMsg}]
      BY <3>3, <3>5
    <3>8. prio' \in [Slot -> Prio \cup {NoPrio}]
      BY <2>3, <3>2 DEF Receive
    <3> QED
      BY <1>1, <2>3, <3>6, <3>7, <3>8 DEF Receive
  <2>4. CASE ReceiveEmpty(t)
    BY <1>1, <2>4 DEF ReceiveEmpty
  <2>5. CASE Unlock(t)
    BY <1>1, <2>5 DEF Unlock
  <2>6. CASE Service(t)
    <3>1. flag_connect[t] \in {0, 1}
      OBVIOUS
    <3>2. NextFlag(t) \in {0, 1}
      <4> HIDE DEF ServerTypeOK
      <4> QED
        BY <3>1 DEF NextFlag
    <3> QED
      BY <1>1, <2>6, <3>2 DEF Service
  <2>7. CASE StoreCount(t)
    BY <1>1, <2>7 DEF StoreCount
  <2>8. CASE Regular(t)
    BY <1>1, <2>8 DEF Regular
  <2>9. CASE SkipOwn(t)
    BY <1>1, <2>9 DEF SkipOwn, NextQue
  <2>10. CASE LockOut(t)
    BY <1>1, <2>10 DEF LockOut
  <2>11. CASE SendOut(t)
    <3>1. msg_buff[t] \in Message
      BY <2>11 DEF SendOut, NoStaleDispatch
    <3>2. ASSUME que_no[t] \in Queue
          PROVE  Put(ques[que_no[t]], PRIO_REGULAR_MSG, msg_buff[t])
                   \in [Prio -> Seq(Message)]
      <4> PRIO_REGULAR_MSG \in Prio
        BY DEF Prio
      <4> ques[que_no[t]] \in [Prio -> Seq(Message)]
        BY <3>2
      <4> HIDE DEF ServerTypeOK
      <4> QED
        BY <3>1, PutType
    <3>3. ques' \in [Queue -> [Prio -> Seq(Message)]]
      BY <2>11, <3>2 DEF SendOut
    <3>4. pc' \in [Slot -> ThreadPc]
      BY <2>11 DEF SendOut, ThreadPc
    <3> QED
      BY <1>1, <2>11, <3>3, <3>4 DEF SendOut
  <2>12. CASE UnlockOut(t)
    <3>1. que_no' \in [Slot -> Nat]
      BY <2>12 DEF UnlockOut, NextQue
    <3> QED
      BY <1>1, <2>12, <3>1 DEF UnlockOut
  <2>13. CASE EndBroadcast(t)
    BY <1>1, <2>13 DEF EndBroadcast
  <2>14. CASE ClearBuff(t)
    BY <1>1, <2>14 DEF ClearBuff
  <2> QED
    BY <1>1, <2>1, <2>2, <2>3, <2>4, <2>5, <2>6, <2>7, <2>8, <2>9, <2>10,
       <2>11, <2>12, <2>13, <2>14 DEF Thread
<1>2. ASSUME ServerMain, UNCHANGED envVars PROVE ServerTypeOK'
  BY <1>2 DEF ServerMain, ServerInterrupt, ServerStopThreads, Cleanup
<1>3. ASSUME NEW c \in Slot, AnyClient(c) PROVE ServerTypeOK'
  <2>1. CASE ClientSays(c)
    <3> DEFINE m == RegularMsg(c, sent[c] + 1)
    <3>1. m \in Message
      BY RegularType
    <3>2. Put(ques[In(c)], PRIO_REGULAR_MSG, m) \in [Prio -> Seq(Message)]
      BY <3>1, QueueNumbers, PutType DEF Prio
    <3> HIDE DEF m
    <3>3. ques' = [ques EXCEPT ![In(c)] = Put(@, PRIO_REGULAR_MSG, m)]
      BY <2>1 DEF ClientSays, m
    <3>4. ques' \in [Queue -> [Prio -> Seq(Message)]]
      BY <3>2, <3>3
    <3> QED
      BY <2>1, <3>4 DEF ClientSays, serverVars
  <2>2. CASE ClientAnnounces(c)
    <3>1. ServiceMsg(c) \in Message
      BY RegularType DEF ServiceMsg
    <3>2. Put(ques[In(c)], PRIO_SERVICE_MSG, ServiceMsg(c))
            \in [Prio -> Seq(Message)]
      BY <3>1, QueueNumbers, PutType DEF Prio
    <3>3. ques' \in [Queue -> [Prio -> Seq(Message)]]
      BY <2>2, <3>2 DEF ClientAnnounces
    <3> QED
      BY <2>2, <3>3 DEF ClientAnnounces, serverVars
  <2>3. CASE ClientHears(c)
    <3> DEFINE q == ques[Out(c)]
    <3>1. Front(q) \in Message /\ Rest(q) \in [Prio -> Seq(Message)]
      BY <2>3, QueueNumbers, FrontRestType DEF ClientHears
    <3>2. Front(q).from \in Slot /\ Front(q).n \in Nat
      BY <3>1 DEF Message
    <3> QED
      BY <2>3, <3>1, <3>2 DEF ClientHears, serverVars
  <2> QED
    BY <1>3, <2>1, <2>2, <2>3 DEF AnyClient
<1>4. CASE UNCHANGED serverSideVars
  BY <1>4 DEF serverSideVars, serverVars
<1> QED
  BY <1>1, <1>2, <1>3, <1>4 DEF ServerSideNext, Server

-----------------------------------------------------------------------------
(* The mutexes.                                                            *)

\* The loop of a broadcast visits odd queues only (server.c:279), so it never
\* locks an incoming queue; while it holds a mutex it is inside the loop, at
\* another slot's queue.
Odd     == {2 * k + 1 : k \in Nat}
LoopInv == \A t \in Slot :
             /\ que_no[t] \in Odd
             /\ pc[t] \in {"send", "unlock_out"} =>
                  InLoop(t) /\ IsTarget(t, que_no[t])

\* Once main is past its joins every thread is over (server.c:178-183).
JoinInv == main_pc = "exit" => \A t \in Slot : pc[t] = "done"

\* The inductive invariant.
ServerIInv == ServerTypeOK /\ LoopInv /\ MutexInv /\ NoStaleDispatch /\ JoinInv

\* An odd number below 2 * MAX_CLIENTS is a queue and no slot's incoming one.
LEMMA OddQueue ==
  ASSUME NEW i \in Odd
  PROVE  /\ i + 2 \in Odd
         /\ i < 2 * MAX_CLIENTS => i \in Queue
         /\ \A t \in Slot : In(t) # i
<1>1. PICK k \in Nat : i = 2 * k + 1
  BY DEF Odd
<1>2. i + 2 = 2 * (k + 1) + 1 /\ k + 1 \in Nat
  BY <1>1
<1>3. i + 2 \in Odd
  BY <1>2 DEF Odd
<1>4. ASSUME NEW t \in Slot PROVE In(t) # i
  BY <1>1, ClientsAssumption DEF Slot, In
<1>5. i < 2 * MAX_CLIENTS => i \in Queue
  BY <1>1, ClientsAssumption DEF Queue
<1> QED
  BY <1>3, <1>4, <1>5

\* Initially nobody holds a mutex or has received anything.
LEMMA ServerInvInit == ServerSideInit => ServerIInv
<1> SUFFICES ASSUME ServerSideInit PROVE ServerIInv
  OBVIOUS
<1>1. ServerTypeOK
  BY TypeInit
<1>2. 1 \in Odd
  <2>1. 1 = 2 * 0 + 1
    OBVIOUS
  <2> QED
    BY <2>1 DEF Odd
<1>3. LoopInv /\ NoStaleDispatch /\ JoinInv
  BY <1>2 DEF ServerSideInit, ServerInit, LoopInv, NoStaleDispatch, JoinInv
<1>4. MutexInv
  BY DEF ServerSideInit, ServerInit, MutexInv, Holds, Slot, Nobody
<1> QED
  BY <1>1, <1>3, <1>4 DEF ServerIInv

\* The loop variable of a broadcast stays odd and in range.
LEMMA LoopStep ==
  ServerTypeOK /\ LoopInv /\ [ServerSideNext]_serverSideVars => LoopInv'
<1> SUFFICES ASSUME ServerTypeOK, LoopInv, [ServerSideNext]_serverSideVars
             PROVE  LoopInv'
  OBVIOUS
<1> USE DEF LoopInv, InLoop, IsTarget, Out
<1>1. ASSUME NEW t \in Slot, Thread(t) PROVE LoopInv'
  <2>1. 1 \in Odd /\ que_no[t] + 2 \in Odd
    <3>1. que_no[t] \in Odd
      OBVIOUS
    <3>2. 1 = 2 * 0 + 1
      OBVIOUS
    <3>3. 1 \in Odd
      BY <3>2 DEF Odd
    <3> QED
      BY ONLY <3>1, <3>3, OddQueue
  <2>2. pc \in [Slot -> ThreadPc] /\ que_no \in [Slot -> Nat]
    BY DEF ServerTypeOK
  <2> QED
    BY <1>1, <2>1, <2>2
       DEF Thread, Check, TryLock, Receive, ReceiveEmpty, Unlock, Service,
           StoreCount, Regular, SkipOwn, LockOut, SendOut, UnlockOut,
           EndBroadcast, ClearBuff, Goto, NextQue
<1>2. ASSUME UNCHANGED threadVars PROVE LoopInv'
  BY <1>2 DEF threadVars
<1> QED
  BY <1>1, <1>2 DEF ServerSideNext, Server, ServerMain, ServerInterrupt,
     ServerStopThreads, Cleanup, AnyClient, ClientSays, ClientAnnounces,
     ClientHears, serverSideVars, serverVars

\* A mutex is free, or held by the one thread between its lock and unlock.
LEMMA MutexStep ==
  ServerTypeOK /\ LoopInv /\ MutexInv /\ [ServerSideNext]_serverSideVars
    => MutexInv'
<1> SUFFICES ASSUME ServerTypeOK, LoopInv, MutexInv,
                    [ServerSideNext]_serverSideVars
             PROVE  MutexInv'
  OBVIOUS
<1>0. /\ pc \in [Slot -> ThreadPc] /\ que_no \in [Slot -> Nat]
      /\ mutex_ques \in [Queue -> Slot \cup {Nobody}]
      /\ Nobody \notin Slot
  BY DEF ServerTypeOK, Nobody, Slot
<1>1. ASSUME NEW t \in Slot, Thread(t) PROVE MutexInv'
  <2> SUFFICES ASSUME NEW q \in Queue, NEW u \in Slot
               PROVE  (mutex_ques[q] = u <=> Holds(u, q))'
    BY DEF MutexInv
  <2>1. mutex_ques[q] = u <=> Holds(u, q)
    BY DEF MutexInv
  <2>2. mutex_ques[q] = t <=> Holds(t, q)
    BY DEF MutexInv
  <2>3. In(t) \in Queue /\ (q = In(u) /\ q = In(t) => u = t)
    BY QueueNumbers DEF In, Slot
  <2>4. pc[t] \in {"send", "unlock_out"} => que_no[t] \in Queue
    BY OddQueue DEF LoopInv, InLoop
  <2>5. InLoop(t) => que_no[t] \in Queue
    BY OddQueue DEF LoopInv, InLoop
  <2>6. que_no[t] # In(t)
    BY OddQueue DEF LoopInv
  <2> USE <1>0, <2>1, <2>2, <2>3 DEF Holds, Goto
  <2>7. CASE Check(t)
    BY <2>7 DEF Check
  <2>8. CASE TryLock(t)
    BY <2>8 DEF TryLock
  <2>9. CASE Receive(t)
    BY <2>9 DEF Receive
  <2>10. CASE ReceiveEmpty(t)
    BY <2>10 DEF ReceiveEmpty
  <2>11. CASE Unlock(t)
    BY <2>11 DEF Unlock
  <2>12. CASE Service(t) \/ StoreCount(t) \/ Regular(t)
    BY <2>12 DEF Service, StoreCount, Regular
  <2>13. CASE SkipOwn(t) \/ EndBroadcast(t) \/ ClearBuff(t)
    BY <2>13 DEF SkipOwn, NextQue, EndBroadcast, ClearBuff
  <2>14. CASE LockOut(t)
    BY <2>5, <2>14 DEF LockOut
  <2>15. CASE SendOut(t)
    BY <2>15 DEF SendOut
  <2>16. CASE UnlockOut(t)
    BY <2>4, <2>16 DEF UnlockOut, NextQue
  <2> QED
    BY <1>1, <2>7, <2>8, <2>9, <2>10, <2>11, <2>12, <2>13, <2>14, <2>15,
       <2>16 DEF Thread
<1>2. ASSUME UNCHANGED <<threadVars, mutex_ques>> PROVE MutexInv'
  BY <1>2 DEF threadVars, MutexInv, Holds
<1> QED
  BY <1>1, <1>2 DEF ServerSideNext, Server, ServerMain, ServerInterrupt,
     ServerStopThreads, Cleanup, AnyClient, ClientSays, ClientAnnounces,
     ClientHears, serverSideVars, serverVars

\* Nobody but a slot's own thread ever holds its incoming queue's mutex, so the
\* trylock at server.c:245 never fails.
LEMMA TryLockSucceeds ==
  ASSUME ServerTypeOK, LoopInv, MutexInv, NEW t \in Slot, pc[t] = "trylock"
  PROVE  mutex_ques[In(t)] = Nobody
<1>1. ASSUME NEW u \in Slot, mutex_ques[In(t)] = u PROVE FALSE
  <2>1. Holds(u, In(t))
    BY <1>1, QueueNumbers DEF MutexInv
  <2>2. que_no[u] # In(t)
    BY OddQueue DEF LoopInv
  <2>3. In(u) = In(t) => u = t
    BY DEF In, Slot
  <2> QED
    BY <2>1, <2>2, <2>3 DEF Holds
<1> QED
  BY <1>1, QueueNumbers DEF ServerTypeOK

\* Nothing stale is dispatched: a trylock that fails would need somebody else
\* to hold an incoming queue's mutex, and only odd ones are ever contended.
LEMMA StaleStep ==
  ServerTypeOK /\ LoopInv /\ MutexInv /\ NoStaleDispatch
    /\ [ServerSideNext]_serverSideVars => NoStaleDispatch'
<1> SUFFICES ASSUME ServerTypeOK, LoopInv, MutexInv, NoStaleDispatch,
                    [ServerSideNext]_serverSideVars
             PROVE  NoStaleDispatch'
  OBVIOUS
<1>0. /\ pc \in [Slot -> ThreadPc]
      /\ msg_buff \in [Slot -> Message \cup {NoMsg}]
  BY DEF ServerTypeOK
<1> USE <1>0 DEF NoStaleDispatch, Goto
<1>1. ASSUME NEW t \in Slot, Thread(t) PROVE NoStaleDispatch'
  <2>1. CASE TryLock(t)
    <3>2. mutex_ques[In(t)] = Nobody
      BY <2>1, TryLockSucceeds DEF TryLock
    <3> QED
      BY <2>1, <3>2 DEF TryLock
  <2>2. CASE Receive(t)
    <3> DEFINE q == ques[In(t)]
    <3>1. q \in [Prio -> Seq(Message)] /\ ~NoMessage(q)
      BY <2>2, QueueNumbers DEF Receive, ServerTypeOK
    <3>2. Front(q) \in Message
      BY <3>1, FrontRestType
    <3>3. PICK tl \in TailAfterReceive(t) :
            msg_buff' = [msg_buff EXCEPT ![t] = [Front(q) EXCEPT !.tail = tl]]
      BY <2>2 DEF Receive
    <3>4. tl \in Tail256
      BY ServerAssumption DEF TailAfterReceive, Tail256
    <3>5. [Front(q) EXCEPT !.tail = tl] \in Message
      BY <3>2, <3>4 DEF Message
    <3> QED
      BY <2>2, <3>3, <3>5 DEF Receive
  <2>3. CASE \/ Check(t) \/ ReceiveEmpty(t) \/ Unlock(t) \/ Service(t)
             \/ StoreCount(t) \/ Regular(t)
    BY <2>3 DEF Check, ReceiveEmpty, Unlock, Service, StoreCount, Regular
  <2>4. CASE \/ SkipOwn(t) \/ LockOut(t) \/ SendOut(t) \/ UnlockOut(t)
             \/ EndBroadcast(t) \/ ClearBuff(t)
    BY <2>4 DEF SkipOwn, LockOut, SendOut, UnlockOut, EndBroadcast, ClearBuff
  <2> QED
    BY <1>1, <2>1, <2>2, <2>3, <2>4 DEF Thread
<1>2. ASSUME UNCHANGED threadVars PROVE NoStaleDispatch'
  BY <1>2 DEF threadVars
<1> QED
  BY <1>1, <1>2 DEF ServerSideNext, Server, ServerMain, ServerInterrupt,
     ServerStopThreads, Cleanup, AnyClient, ClientSays, ClientAnnounces,
     ClientHears, serverSideVars, serverVars

\* After its joins main finds no thread that could take another step.
LEMMA JoinStep ==
  ServerTypeOK /\ JoinInv /\ [ServerSideNext]_serverSideVars => JoinInv'
<1> SUFFICES ASSUME ServerTypeOK, JoinInv, [ServerSideNext]_serverSideVars
             PROVE  JoinInv'
  OBVIOUS
<1> USE DEF JoinInv
<1>1. ASSUME NEW t \in Slot, Thread(t) PROVE JoinInv'
  BY <1>1
     DEF Thread, Check, TryLock, Receive, ReceiveEmpty, Unlock, Service,
         StoreCount, Regular, SkipOwn, LockOut, SendOut, UnlockOut,
         EndBroadcast, ClearBuff, mainVars
<1>2. ASSUME ServerMain PROVE JoinInv'
  BY <1>2 DEF ServerMain, ServerInterrupt, ServerStopThreads, Cleanup,
     ServerJoined, threadVars
<1>3. ASSUME UNCHANGED serverVars PROVE JoinInv'
  BY <1>3 DEF serverVars, mainVars, threadVars
<1> QED
  BY <1>1, <1>2, <1>3 DEF ServerSideNext, Server, AnyClient, ClientSays,
     ClientAnnounces, ClientHears, serverSideVars

\* The invariant is inductive.
LEMMA ServerInvStep ==
  ServerIInv /\ [ServerSideNext]_serverSideVars => ServerIInv'
BY ServerTypeStep, LoopStep, MutexStep, StaleStep, JoinStep DEF ServerIInv

\* The invariant holds in every reachable state.
LEMMA ServerInvariance == ServerSideSpec => []ServerIInv
BY ServerInvInit, ServerInvStep, PTL DEF ServerSideSpec

-----------------------------------------------------------------------------
(* The theorems.                                                           *)

\* Every variable of the server (server.c) keeps its type; in particular only
\* whole messages are ever put in a queue.
THEOREM ServerTypeCorrect == ServerSideSpec => []ServerTypeOK
<1>1. ServerIInv => ServerTypeOK
  BY DEF ServerIInv
<1> QED
  BY ServerInvariance, <1>1, PTL

\* A mutex of mutex_ques is held exactly by the thread between its lock and
\* its unlock of that queue (server.c:245-254, 282-284).
THEOREM MutualExclusion == ServerSideSpec => []MutexInv
<1>1. ServerIInv => MutexInv
  BY DEF ServerIInv
<1> QED
  BY ServerInvariance, <1>1, PTL

\* The dispatch after a trylock (server.c:245-287) never sees an old message.
THEOREM NothingStale == ServerSideSpec => []NoStaleDispatch
<1>1. ServerIInv => NoStaleDispatch
  BY DEF ServerIInv
<1> QED
  BY ServerInvariance, <1>1, PTL

\* When main destroys the mutexes and removes the queues (server.c:185-217)
\* no thread runs and no mutex is held.
THEOREM SafeCleanup == ServerSideSpec => []CleanupIsSafe
<1>1. ServerIInv => CleanupIsSafe
  <2> SUFFICES ASSUME ServerIInv, main_pc = "exit" PROVE CleanupIsSafe
    BY DEF CleanupIsSafe
  <2>1. \A t \in Slot : pc[t] = "done"
    BY DEF ServerIInv, JoinInv
  <2>2. ASSUME NEW q \in Queue PROVE mutex_ques[q] = Nobody
    <3>1. \A t \in Slot : mutex_ques[q] # t
      BY <2>1 DEF ServerIInv, MutexInv, Holds
    <3> QED
      BY <3>1 DEF ServerIInv, ServerTypeOK
  <2> QED
    BY <2>1, <2>2 DEF CleanupIsSafe
<1> QED
  BY ServerInvariance, <1>1, PTL

-----------------------------------------------------------------------------
(***************************************************************************)
(* The server implements the common room (ChatRoom): the numbers of a      *)
(* client's messages only fall along their way through its queue, its      *)
(* thread's buffer, the others' queues and what the others have heard      *)
(* (FifoInv).  With the same facts about the queues, a slot's connected    *)
(* flag follows its service messages (FlagIsParity).                       *)
(***************************************************************************)
(* The queues, slot by slot.                                               *)

\* Every slot has its own two queues.
LEMMA QueuesDistinct ==
  ASSUME NEW i \in Slot, NEW j \in Slot
  PROVE  /\ In(i) \in Queue /\ Out(i) \in Queue
         /\ In(i) # Out(j)
         /\ In(i) = In(j) => i = j
         /\ Out(i) = Out(j) => i = j
BY ClientsAssumption DEF Slot, Queue, In, Out

\* The queues' contents, by slot.
LEMMA RegularsType ==
  ASSUME ServerTypeOK, NEW i \in Slot
  PROVE  /\ ques[In(i)] \in [Prio -> Seq(Message)]
         /\ ques[Out(i)] \in [Prio -> Seq(Message)]
         /\ Regulars(In(i)) \in Seq(Message)
         /\ Regulars(Out(i)) \in Seq(Message)
<1>1. ques \in [Queue -> [Prio -> Seq(Message)]]
  BY DEF ServerTypeOK
<1>2. /\ ques[In(i)] \in [Prio -> Seq(Message)]
      /\ ques[Out(i)] \in [Prio -> Seq(Message)]
  BY <1>1, QueuesDistinct
<1>3. PRIO_REGULAR_MSG \in Prio
  BY DEF Prio
<1> QED
  BY <1>2, <1>3 DEF Regulars

\* The numbers of messages are numbers.
LEMMA PastType ==
  ASSUME ServerTypeOK, NEW i \in Slot, NEW j \in Slot, NEW n \in Past(i, j)
  PROVE  n \in Nat
<1> DEFINE s == Regulars(Out(j))
<1>1. s \in Seq(Message)
  BY RegularsType
<1>2. \A k \in DOMAIN s : s[k].n \in Nat
  <2> HIDE DEF s
  <2>1. \A k \in DOMAIN s : s[k] \in Message
    BY <1>1
  <2> QED
    BY <2>1 DEF Message
<1>3. heard[j][i] \in Nat
  BY DEF ServerTypeOK
<1> QED
  BY <1>2, <1>3 DEF Past

\* A queue a broadcast sends to is another slot's outgoing one.
LEMMA TargetQueue ==
  ASSUME LoopInv, NEW t \in Slot, pc[t] = "send"
  PROVE  \E j \in Slot : que_no[t] = Out(j) /\ j # t
<1>1. que_no[t] \in Odd /\ que_no[t] < 2 * MAX_CLIENTS /\ que_no[t] # Out(t)
  BY DEF LoopInv, InLoop, IsTarget
<1>2. PICK k \in Nat : que_no[t] = 2 * k + 1
  BY <1>1 DEF Odd
<1>3. k \in Slot /\ que_no[t] = Out(k)
  BY <1>1, <1>2, ClientsAssumption DEF Slot, Out
<1> QED
  BY <1>1, <1>3

-----------------------------------------------------------------------------
(* FifoInv is inductive.                                                   *)

\* A broadcast is of an ordinary message (server.c:274).
HandInv == \A t \in Slot :
             pc[t] \in {"broadcast", "send", "unlock_out"} => InHand(t)

\* Only the dispatch of an ordinary message leads to a broadcast.
LEMMA HandInit == ServerSideInit => HandInv
BY DEF ServerSideInit, ServerInit, HandInv

\* ... and the priority is kept until the next mq_receive().
LEMMA HandStep ==
  ServerTypeOK /\ HandInv /\ [ServerSideNext]_serverSideVars => HandInv'
<1> SUFFICES ASSUME ServerTypeOK, HandInv, [ServerSideNext]_serverSideVars
             PROVE  HandInv'
  OBVIOUS
<1>0. /\ pc \in [Slot -> ThreadPc]
      /\ prio \in [Slot -> Prio \cup {NoPrio}]
  BY DEF ServerTypeOK
<1> USE <1>0 DEF HandInv, InHand
<1>1. ASSUME NEW t \in Slot, Thread(t) PROVE HandInv'
  BY <1>1
     DEF Thread, Check, TryLock, Receive, ReceiveEmpty, Unlock, Service,
         StoreCount, Regular, SkipOwn, LockOut, SendOut, UnlockOut,
         EndBroadcast, ClearBuff, Goto
<1>2. ASSUME UNCHANGED threadVars PROVE HandInv'
  BY <1>2 DEF threadVars
<1> QED
  BY <1>1, <1>2 DEF ServerSideNext, Server, ServerMain, ServerInterrupt,
     ServerStopThreads, Cleanup, AnyClient, ClientSays, ClientAnnounces,
     ClientHears, serverSideVars, serverVars

\* Initially all is empty.
LEMMA FifoInit == ServerSideInit => FifoInv
<1> SUFFICES ASSUME ServerSideInit PROVE FifoInv
  OBVIOUS
<1>1. \A i \in Slot : /\ Regulars(In(i)) = << >> /\ Regulars(Out(i)) = << >>
                      /\ ques[Out(i)][PRIO_SERVICE_MSG] = << >>
  BY QueuesDistinct DEF ServerSideInit, ClientsInit, EmptyQueue, Regulars, Prio
<1>2. \A i \in Slot : ~InHand(i)
  BY DEF ServerSideInit, ServerInit, InHand
<1>3. \A i, j \in Slot : Past(i, j) = {0} /\ sent[i] = 0
  BY <1>1 DEF Past, ServerSideInit, ClientsInit
<1> QED
  BY <1>1, <1>2, <1>3
     DEF FifoInv, InOrdered, HandOrdered, OutOrdered, PastOrdered

\* A step that moves no message keeps the order: it may drop the message in a
\* thread's buffer or advance its loop, and nothing else.
LEMMA QuietStep ==
  ASSUME FifoInv, UNCHANGED <<ques, sent, heard>>,
         \A i \in Slot : InHand(i)' => InHand(i) /\ msg_buff'[i] = msg_buff[i],
         \A i, j \in Slot : InHand(i)' /\ Given(i, j) => Given(i, j)'
  PROVE  FifoInv'
<1>1. \A q \in Queue : Regulars(q)' = Regulars(q)
  BY DEF Regulars
<1>2. \A i, j \in Slot : Past(i, j)' = Past(i, j)
  BY <1>1, QueuesDistinct DEF Past
<1>3. InOrdered'
  BY <1>1, QueuesDistinct DEF FifoInv, InOrdered
<1>4. HandOrdered'
  BY <1>1, QueuesDistinct DEF FifoInv, HandOrdered
<1>5. OutOrdered'
  BY <1>1, QueuesDistinct DEF FifoInv, OutOrdered
<1>6. PastOrdered'
  BY <1>1, <1>2, QueuesDistinct DEF FifoInv, PastOrdered
<1> QED
  BY <1>3, <1>4, <1>5, <1>6 DEF FifoInv

\* mq_receive() by the thread (server.c:247): the head of the slot's queue
\* becomes the message in hand.
LEMMA ReceiveStep ==
  ASSUME ServerTypeOK, FifoInv, NEW t \in Slot, Receive(t), UNCHANGED envVars
  PROVE  FifoInv'
<1> DEFINE q == ques[In(t)]
           s == Regulars(In(t))
<1>1. /\ q \in [Prio -> Seq(Message)] /\ s \in Seq(Message)
      /\ s = q[PRIO_REGULAR_MSG]
  BY RegularsType DEF Regulars
<1>2. UNCHANGED <<sent, heard>>
  BY DEF envVars
<1>3. /\ ques' = [ques EXCEPT ![In(t)] = Rest(q)]
      /\ ques \in [Queue -> [Prio -> Seq(Message)]]
  BY DEF Receive, ServerTypeOK
<1>4. \A i \in Slot : /\ ques'[Out(i)] = ques[Out(i)]
                      /\ Regulars(Out(i))' = Regulars(Out(i))
                      /\ i # t => Regulars(In(i))' = Regulars(In(i))
  BY <1>3, QueuesDistinct DEF Regulars
<1>5. \A i, j \in Slot : Past(i, j)' = Past(i, j)
  BY <1>2, <1>4 DEF Past
<1>6. /\ pc' = [pc EXCEPT ![t] = "unlock"] /\ pc \in [Slot -> ThreadPc]
      /\ prio' = [prio EXCEPT ![t] = TopPrio(q)]
      /\ prio \in [Slot -> Prio \cup {NoPrio}]
      /\ msg_buff \in [Slot -> Message \cup {NoMsg}]
      /\ que_no' = que_no
  BY DEF Receive, Goto, ServerTypeOK
<1>7. PICK tl \in TailAfterReceive(t) :
        msg_buff' = [msg_buff EXCEPT ![t] = [Front(q) EXCEPT !.tail = tl]]
  BY DEF Receive
<1>8. \A i \in Slot : i # t => /\ InHand(i)' <=> InHand(i)
                               /\ msg_buff'[i] = msg_buff[i]
                               /\ \A j \in Slot : Given(i, j)' <=> Given(i, j)
  BY <1>6, <1>7 DEF InHand, Given
<1>9. OutOrdered'
  BY <1>2, <1>4 DEF FifoInv, OutOrdered
<1>10. CASE s = << >>
  <2>1. TopPrio(q) = PRIO_SERVICE_MSG /\ Regulars(In(t))' = s
    <3>1. TopPrio(q) = PRIO_SERVICE_MSG
           /\ Rest(q)[PRIO_REGULAR_MSG] = q[PRIO_REGULAR_MSG]
      BY <1>1, <1>10, RestService
    <3> QED
      BY <1>1, <1>3, <3>1, QueuesDistinct DEF Regulars
  <2>2. ~InHand(t)'
    BY <1>6, <2>1 DEF InHand, PRIO_SERVICE_MSG, PRIO_REGULAR_MSG
  <2>3. \A i \in Slot : Regulars(In(i))' = Regulars(In(i))
    BY <1>4, <2>1
  <2>4. InOrdered'
    BY <1>2, <2>3 DEF FifoInv, InOrdered
  <2>5. HandOrdered'
    BY <1>2, <1>8, <2>2, <2>3 DEF FifoInv, HandOrdered
  <2>6. PastOrdered'
    BY <1>2, <1>5, <1>8, <2>2, <2>3 DEF FifoInv, PastOrdered
  <2> QED
    BY <1>9, <2>4, <2>5, <2>6 DEF FifoInv
<1>11. CASE s # << >>
  <2>1. /\ Front(q) = Head(s) /\ Regulars(In(t))' = Tail(s)
    <3>1. Front(q) = Head(s) /\ Rest(q)[PRIO_REGULAR_MSG] = Tail(s)
      BY <1>1, <1>11, RestElems
    <3> QED
      BY <1>3, <3>1, QueuesDistinct DEF Regulars
  <2>2. /\ DOMAIN s = 1 .. Len(s) /\ Len(s) \in Nat \ {0}
        /\ DOMAIN Tail(s) = 1 .. Len(s) - 1
        /\ \A k \in DOMAIN Tail(s) : Tail(s)[k] = s[k + 1]
        /\ Head(s) = s[1] /\ 1 \in DOMAIN s
    BY <1>1, <1>11, TailElems
  <2>3. \A k \in DOMAIN Tail(s) : k + 1 \in DOMAIN s /\ 1 < k + 1
    BY <2>2
  <2>4. /\ \A k \in DOMAIN s :
             s[k].from = t /\ s[k].n <= sent[t] /\ 0 < s[k].n
        /\ \A k, l \in DOMAIN s : k < l => s[k].n < s[l].n
    BY DEF FifoInv, InOrdered
  <2>5. Front(q) \in Message
    BY <1>1, <2>1, <2>2
  <2>6. msg_buff'[t].from = s[1].from /\ msg_buff'[t].n = s[1].n
    BY <1>6, <1>7, <2>1, <2>2, <2>5 DEF Message
  <2> HIDE DEF s, q
  <2>7. InOrdered'
    <3>1. /\ \A k \in DOMAIN Tail(s) : /\ Tail(s)[k].from = t
                                       /\ Tail(s)[k].n <= sent[t]
                                       /\ 0 < Tail(s)[k].n
          /\ \A k, l \in DOMAIN Tail(s) :
               k < l => Tail(s)[k].n < Tail(s)[l].n
      BY <2>2, <2>3, <2>4
    <3> QED
      BY <1>2, <1>4, <2>1, <3>1 DEF FifoInv, InOrdered
  <2>8. HandOrdered'
    <3>1. /\ msg_buff'[t].from = t /\ msg_buff'[t].n <= sent[t]
          /\ 0 < msg_buff'[t].n
          /\ \A k \in DOMAIN Tail(s) : msg_buff'[t].n < Tail(s)[k].n
      BY <2>2, <2>3, <2>4, <2>6
    <3> QED
      BY <1>2, <1>4, <1>8, <2>1, <3>1 DEF FifoInv, HandOrdered
  <2>9. PastOrdered'
    <3> SUFFICES ASSUME NEW i \in Slot, NEW j \in Slot, NEW n \in Past(i, j)
                 PROVE  /\ n <= sent[i]
                        /\ \A k \in DOMAIN Regulars(In(i))' :
                             n < Regulars(In(i))'[k].n
                        /\ InHand(i)' =>
                             /\ n <= msg_buff'[i].n
                             /\ ~Given(i, j)' => n < msg_buff'[i].n
      BY <1>2, <1>5 DEF PastOrdered
    <3>1. /\ n <= sent[i]
          /\ \A k \in DOMAIN Regulars(In(i)) : n < Regulars(In(i))[k].n
          /\ InHand(i) => /\ n <= msg_buff[i].n
                          /\ ~Given(i, j) => n < msg_buff[i].n
      BY DEF FifoInv, PastOrdered
    <3>2. CASE i # t
      BY <1>4, <1>8, <3>1, <3>2
    <3>3. CASE i = t
      <4>1. \A k \in DOMAIN s : n < s[k].n
        BY <3>1, <3>3 DEF s
      <4>2. \A k \in DOMAIN Tail(s) : n < Tail(s)[k].n
        BY <2>2, <2>3, <4>1
      <4>3. n < msg_buff'[t].n
        BY <2>2, <2>6, <4>1
      <4>4. msg_buff'[t].n \in Int /\ n \in Int
        <5>1. s[1].n \in Nat
          BY <2>1, <2>2, <2>5 DEF Message
        <5>2. n \in Nat
          BY PastType
        <5> QED
          BY <2>6, <5>1, <5>2
      <4>5. Regulars(In(i))' = Tail(s) /\ msg_buff'[i].n = msg_buff'[t].n
        BY <2>1, <3>3 DEF Regulars
      <4> QED
        BY <3>1, <3>3, <4>2, <4>3, <4>4, <4>5
    <3> QED
      BY <3>2, <3>3
  <2> QED
    BY <1>9, <2>7, <2>8, <2>9 DEF FifoInv
<1> QED
  BY <1>10, <1>11

\* mq_send() to another slot's queue (server.c:283).
LEMMA SendStep ==
  ASSUME ServerTypeOK, NoStaleDispatch, LoopInv, FifoInv, NEW t \in Slot,
         pc[t] = "send" => InHand(t), SendOut(t), UNCHANGED envVars
  PROVE  FifoInv'
<1>1. PICK u \in Slot : que_no[t] = Out(u) /\ u # t
  BY TargetQueue DEF SendOut
<1> DEFINE m == msg_buff[t]
           s == Regulars(Out(u))
<1>2. /\ UNCHANGED <<sent, heard, msg_buff, prio, que_no>>
      /\ pc' = [pc EXCEPT ![t] = "unlock_out"] /\ pc \in [Slot -> ThreadPc]
      /\ pc[t] = "send"
  BY DEF envVars, SendOut, Goto, ServerTypeOK
<1>3. InHand(t) /\ ~Given(t, u) /\ m \in Message
  BY <1>1, <1>2, QueuesDistinct DEF Given, NoStaleDispatch, Out, Slot
<1>4. \A i \in Slot : InHand(i)' <=> InHand(i)
  BY <1>2, <1>3 DEF InHand
<1>5. \A i, j \in Slot : Given(i, j) => Given(i, j)'
  BY <1>2 DEF Given
<1>6. CASE ques' = ques
  BY <1>2, <1>4, <1>5, <1>6, QuietStep
<1>7. CASE ques' # ques
  <2>1. ques' = [ques EXCEPT ![Out(u)] = Put(@, PRIO_REGULAR_MSG, m)]
    BY <1>1, <1>7 DEF SendOut
  <2>2. /\ ques \in [Queue -> [Prio -> Seq(Message)]]
        /\ ques[Out(u)] \in [Prio -> Seq(Message)] /\ s \in Seq(Message)
        /\ s = ques[Out(u)][PRIO_REGULAR_MSG]
    BY RegularsType DEF Regulars, ServerTypeOK
  <2>3. /\ Regulars(Out(u))' = Append(s, m)
        /\ ques'[Out(u)][PRIO_SERVICE_MSG] = ques[Out(u)][PRIO_SERVICE_MSG]
    <3> DEFINE q == ques[Out(u)]
    <3>1. /\ Put(q, PRIO_REGULAR_MSG, m)[PRIO_REGULAR_MSG] = Append(s, m)
          /\ Put(q, PRIO_REGULAR_MSG, m)[PRIO_SERVICE_MSG]
                = q[PRIO_SERVICE_MSG]
      <4> HIDE DEF q, m
      <4> QED
        BY <1>3, <2>2, PutElems DEF q
    <3>2. ques'[Out(u)] = Put(q, PRIO_REGULAR_MSG, m)
      BY <2>1, <2>2, QueuesDistinct
    <3> QED
      BY <3>1, <3>2 DEF Regulars
  <2>4. \A i \in Slot : /\ Regulars(In(i))' = Regulars(In(i))
                        /\ i # u => /\ ques'[Out(i)] = ques[Out(i)]
                                    /\ Regulars(Out(i))' = Regulars(Out(i))
    BY <2>1, <2>2, QueuesDistinct DEF Regulars
  <2>5. /\ DOMAIN s = 1 .. Len(s) /\ Len(s) \in Nat
        /\ DOMAIN Append(s, m) = 1 .. Len(s) + 1
        /\ \A k \in DOMAIN s : Append(s, m)[k] = s[k] /\ s[k] \in Message
        /\ Append(s, m)[Len(s) + 1] = m
    BY <1>3, <2>2, AppendElems
  <2>6. m.from = t /\ m.n <= sent[t] /\ 0 < m.n
        /\ \A k \in DOMAIN Regulars(In(t)) : m.n < Regulars(In(t))[k].n
    BY <1>3 DEF FifoInv, HandOrdered
  <2>7. \A n \in Past(t, u) : n < m.n
    BY <1>3 DEF FifoInv, PastOrdered
  <2>8. \A i, j \in Slot : \A n \in Past(i, j)' :
          n \in Past(i, j) \/ (i = t /\ j = u /\ n = m.n)
    <3> SUFFICES ASSUME NEW i \in Slot, NEW j \in Slot, NEW n \in Past(i, j)'
                 PROVE  n \in Past(i, j) \/ (i = t /\ j = u /\ n = m.n)
      OBVIOUS
    <3>1. CASE j # u
      BY <1>2, <2>4, <3>1 DEF Past
    <3>2. CASE j = u
      <4>0. Regulars(Out(j))' = Append(s, m) /\ Regulars(Out(j)) = s
        BY <2>3, <3>2 DEF Regulars
      <4>1. \/ n = heard[j][i]
            \/ \E k \in DOMAIN Append(s, m) :
                 Append(s, m)[k].from = i /\ n = Append(s, m)[k].n
        BY <1>2, <4>0 DEF Past
      <4>2. \A k \in DOMAIN Append(s, m) : k \in DOMAIN s \/ k = Len(s) + 1
        BY <2>5
      <4> HIDE DEF s, m
      <4> QED
        BY <2>5, <2>6, <3>2, <4>0, <4>1, <4>2 DEF Past
    <3> QED
      BY <3>1, <3>2
  <2>9. InOrdered'
    BY <1>2, <2>4 DEF FifoInv, InOrdered
  <2>10. HandOrdered'
    BY <1>2, <1>4, <2>4 DEF FifoInv, HandOrdered
  <2>11. OutOrdered'
    <3>1. /\ \A k \in DOMAIN s : s[k].from # u /\ heard[u][s[k].from] < s[k].n
          /\ \A k, l \in DOMAIN s :
               k < l /\ s[k].from = s[l].from => s[k].n < s[l].n
      BY DEF FifoInv, OutOrdered
    <3>2. \A k \in DOMAIN s : s[k].from = t => s[k].n < m.n
      BY <2>7 DEF Past
    <3>3. heard[u][t] < m.n
      BY <2>7 DEF Past
    <3> HIDE DEF s, m
    <3>4. /\ \A k \in DOMAIN Append(s, m) :
               /\ Append(s, m)[k].from # u
               /\ heard[u][Append(s, m)[k].from] < Append(s, m)[k].n
          /\ \A k, l \in DOMAIN Append(s, m) :
               k < l /\ Append(s, m)[k].from = Append(s, m)[l].from
                 => Append(s, m)[k].n < Append(s, m)[l].n
      <4>1. \A k \in DOMAIN Append(s, m) : k \in DOMAIN s \/ k = Len(s) + 1
        BY <2>5
      <4>2. \A k \in DOMAIN s : k < Len(s) + 1
        BY <2>5
      <4>3. \A k, l \in DOMAIN Append(s, m) :
              k < l => k \in DOMAIN s
        BY <2>5
      <4> QED
        BY <1>1, <2>5, <2>6, <3>1, <3>2, <3>3, <4>1, <4>2, <4>3
    <3>5. ques[Out(u)][PRIO_SERVICE_MSG] = << >>
      BY DEF FifoInv, OutOrdered
    <3> QED
      BY <1>2, <2>3, <2>4, <3>4, <3>5 DEF FifoInv, OutOrdered
  <2>12. PastOrdered'
    <3> SUFFICES ASSUME NEW i \in Slot, NEW j \in Slot, NEW n \in Past(i, j)'
                 PROVE  /\ n <= sent[i]
                        /\ \A k \in DOMAIN Regulars(In(i)) :
                             n < Regulars(In(i))[k].n
                        /\ InHand(i) =>
                             /\ n <= msg_buff[i].n
                             /\ ~Given(i, j)' => n < msg_buff[i].n
      BY <1>2, <1>4, <2>4 DEF PastOrdered
    <3>1. CASE n \in Past(i, j)
      BY <1>5, <3>1 DEF FifoInv, PastOrdered
    <3>2. CASE i = t /\ j = u /\ n = m.n
      <4>1. Given(t, u)'
        BY <1>1, <1>2 DEF Given
      <4>2. m.n \in Nat
        BY <1>3 DEF Message
      <4>3. Given(i, j)'
        BY <3>2, <4>1 DEF Given
      <4> QED
        BY <2>6, <3>2, <4>2, <4>3
    <3> QED
      BY <2>8, <3>1, <3>2
  <2> QED
    BY <2>9, <2>10, <2>11, <2>12 DEF FifoInv
<1> QED
  BY <1>6, <1>7

\* A client's mq_send() of an ordinary message (client.c:204).
LEMMA SaysStep ==
  ASSUME ServerTypeOK, FifoInv, NEW c \in Slot, ClientSays(c)
  PROVE  FifoInv'
<1> DEFINE m == RegularMsg(c, sent[c] + 1)
           s == Regulars(In(c))
<1>1. /\ UNCHANGED <<heard, msg_buff, prio, que_no, pc>>
      /\ sent' = [sent EXCEPT ![c] = @ + 1] /\ sent \in [Slot -> Nat]
      /\ ques' = [ques EXCEPT ![In(c)] = Put(@, PRIO_REGULAR_MSG, m)]
      /\ ques \in [Queue -> [Prio -> Seq(Message)]]
  BY DEF ClientSays, serverVars, threadVars, ServerTypeOK
<1>2. m \in Message /\ m.from = c /\ m.n = sent[c] + 1
  BY <1>1, RegularType DEF RegularMsg
<1>3. /\ ques[In(c)] \in [Prio -> Seq(Message)] /\ s \in Seq(Message)
      /\ s = ques[In(c)][PRIO_REGULAR_MSG]
  BY RegularsType DEF Regulars
<1>4. Regulars(In(c))' = Append(s, m)
  <2> DEFINE q == ques[In(c)]
  <2>1. Put(q, PRIO_REGULAR_MSG, m)[PRIO_REGULAR_MSG] = Append(s, m)
    <3> HIDE DEF q, m
    <3> QED
      BY <1>2, <1>3, PutElems DEF q
  <2>2. ques'[In(c)] = Put(q, PRIO_REGULAR_MSG, m)
    BY <1>1, QueuesDistinct
  <2> QED
    BY <2>1, <2>2 DEF Regulars
<1>5. \A i \in Slot : /\ ques'[Out(i)] = ques[Out(i)]
                      /\ Regulars(Out(i))' = Regulars(Out(i))
                      /\ i # c => Regulars(In(i))' = Regulars(In(i))
  BY <1>1, QueuesDistinct DEF Regulars
<1>6. /\ DOMAIN s = 1 .. Len(s) /\ Len(s) \in Nat
      /\ DOMAIN Append(s, m) = 1 .. Len(s) + 1
      /\ \A k \in DOMAIN s : Append(s, m)[k] = s[k] /\ s[k] \in Message
      /\ Append(s, m)[Len(s) + 1] = m
  BY <1>2, <1>3, AppendElems
<1>7. \A i \in Slot : InHand(i)' <=> InHand(i)
  BY <1>1 DEF InHand
<1>7a. \A i, j \in Slot : Given(i, j)' <=> Given(i, j)
  BY <1>1 DEF Given
<1>7b. \A i, j \in Slot : Past(i, j)' = Past(i, j)
  BY <1>1, <1>5 DEF Past
<1>8. \A i \in Slot : /\ sent[i] \in Nat /\ sent'[i] \in Nat
                      /\ sent[i] <= sent'[i]
  BY <1>1
<1>9. \A k \in DOMAIN Append(s, m) : k \in DOMAIN s \/ k = Len(s) + 1
  BY <1>6
<1>10. \A k, l \in DOMAIN Append(s, m) : k < l => k \in DOMAIN s
  BY <1>6
<1>11. sent'[c] = sent[c] + 1
  BY <1>1
<1> HIDE DEF s, m
<1>12. InOrdered'
  <2>1. /\ \A k \in DOMAIN s : /\ s[k].from = c /\ s[k].n <= sent[c]
                                /\ 0 < s[k].n
        /\ \A k, l \in DOMAIN s : k < l => s[k].n < s[l].n
    BY DEF FifoInv, InOrdered, s
  <2>2. \A k \in DOMAIN s : s[k].n \in Nat
    BY <1>6 DEF Message
  <2>3. /\ \A k \in DOMAIN Append(s, m) :
             /\ Append(s, m)[k].from = c /\ Append(s, m)[k].n <= sent'[c]
             /\ 0 < Append(s, m)[k].n
        /\ \A k, l \in DOMAIN Append(s, m) :
             k < l => Append(s, m)[k].n < Append(s, m)[l].n
    BY <1>2, <1>6, <1>8, <1>9, <1>10, <1>11, <2>1, <2>2
  <2>4. ASSUME NEW i \in Slot, i # c, NEW k \in DOMAIN Regulars(In(i))
        PROVE  Regulars(In(i))[k].n <= sent'[i]
    <3>1. Regulars(In(i))[k].n <= sent[i]
      BY DEF FifoInv, InOrdered
    <3> QED
      BY <1>1, <2>4, <3>1
  <2> QED
    BY <1>4, <1>5, <2>3, <2>4 DEF FifoInv, InOrdered
<1>13. HandOrdered'
  <2> SUFFICES ASSUME NEW i \in Slot, InHand(i)
               PROVE  /\ msg_buff[i].from = i /\ msg_buff[i].n <= sent'[i]
                      /\ 0 < msg_buff[i].n
                      /\ \A k \in DOMAIN Regulars(In(i))' :
                           msg_buff[i].n < Regulars(In(i))'[k].n
    BY <1>1, <1>7 DEF HandOrdered
  <2>1. /\ msg_buff[i].from = i /\ msg_buff[i].n <= sent[i]
        /\ 0 < msg_buff[i].n
        /\ \A k \in DOMAIN Regulars(In(i)) :
             msg_buff[i].n < Regulars(In(i))[k].n
    BY DEF FifoInv, HandOrdered
  <2>2. msg_buff[i].n \in Int
    BY DEF ServerTypeOK, Message, NoMsg
  <2>3. CASE i # c
    BY <1>1, <1>5, <2>1, <2>3
  <2>4. CASE i = c
    <3>1. Regulars(In(i))' = Append(s, m) /\ Regulars(In(i)) = s
      BY <1>4, <2>4 DEF Regulars, s
    <3> QED
      BY <1>2, <1>6, <1>8, <1>9, <1>11, <2>1, <2>2, <2>4, <3>1
  <2> QED
    BY <2>3, <2>4
<1>14. OutOrdered'
  BY <1>1, <1>5 DEF FifoInv, OutOrdered
<1>15. PastOrdered'
  <2> SUFFICES ASSUME NEW i \in Slot, NEW j \in Slot, NEW n \in Past(i, j)
               PROVE  /\ n <= sent'[i]
                      /\ \A k \in DOMAIN Regulars(In(i))' :
                           n < Regulars(In(i))'[k].n
                      /\ InHand(i) => /\ n <= msg_buff[i].n
                                      /\ ~Given(i, j) => n < msg_buff[i].n
    <3>1. msg_buff' = msg_buff
      BY <1>1
    <3> QED
      BY <1>7, <1>7a, <1>7b, <3>1 DEF PastOrdered
  <2>1. /\ n <= sent[i]
        /\ \A k \in DOMAIN Regulars(In(i)) : n < Regulars(In(i))[k].n
        /\ InHand(i) => /\ n <= msg_buff[i].n
                        /\ ~Given(i, j) => n < msg_buff[i].n
    BY DEF FifoInv, PastOrdered
  <2>2. n \in Nat
    BY PastType
  <2>3. CASE i # c
    BY <1>1, <1>5, <2>1, <2>3
  <2>4. CASE i = c
    <3>1. Regulars(In(i))' = Append(s, m) /\ Regulars(In(i)) = s
      BY <1>4, <2>4 DEF Regulars, s
    <3> QED
      BY <1>2, <1>6, <1>8, <1>9, <1>11, <2>1, <2>2, <2>4, <3>1
  <2> QED
    BY <2>3, <2>4
<1> QED
  BY <1>12, <1>13, <1>14, <1>15 DEF FifoInv

\* A client's mq_send() of a service message (client.c:119, 150): the ordinary
\* messages are where they were.
LEMMA AnnouncesStep ==
  ASSUME ServerTypeOK, FifoInv, NEW c \in Slot, ClientAnnounces(c)
  PROVE  FifoInv'
<1>1. /\ UNCHANGED <<sent, heard, msg_buff, prio, que_no, pc>>
      /\ ques' = [ques EXCEPT ![In(c)] =
                     Put(@, PRIO_SERVICE_MSG, ServiceMsg(c))]
      /\ ques \in [Queue -> [Prio -> Seq(Message)]]
  BY DEF ClientAnnounces, serverVars, threadVars, ServerTypeOK
<1>2. Regulars(In(c))' = Regulars(In(c))
  <2> DEFINE q == ques[In(c)]
             m == ServiceMsg(c)
  <2>1. m \in Message /\ q \in [Prio -> Seq(Message)]
    BY RegularType, RegularsType DEF ServiceMsg
  <2>2. Put(q, PRIO_SERVICE_MSG, m)[PRIO_REGULAR_MSG] = q[PRIO_REGULAR_MSG]
    <3> HIDE DEF q, m
    <3> QED
      BY <2>1, PutElems
  <2>3. ques'[In(c)] = Put(q, PRIO_SERVICE_MSG, m)
    BY <1>1, QueuesDistinct
  <2> QED
    BY <2>2, <2>3 DEF Regulars
<1>3. \A i \in Slot : /\ ques'[Out(i)] = ques[Out(i)]
                      /\ Regulars(Out(i))' = Regulars(Out(i))
                      /\ Regulars(In(i))' = Regulars(In(i))
  BY <1>1, <1>2, QueuesDistinct DEF Regulars
<1>4. \A i \in Slot : InHand(i)' <=> InHand(i)
  BY <1>1 DEF InHand
<1>4a. \A i, j \in Slot : Given(i, j)' <=> Given(i, j)
  BY <1>1 DEF Given
<1>4b. \A i, j \in Slot : Past(i, j)' = Past(i, j)
  BY <1>1, <1>3 DEF Past
<1>5. InOrdered'
  BY <1>1, <1>3 DEF FifoInv, InOrdered
<1>6. HandOrdered'
  BY <1>1, <1>3, <1>4 DEF FifoInv, HandOrdered
<1>7. OutOrdered'
  BY <1>1, <1>3 DEF FifoInv, OutOrdered
<1>8. PastOrdered'
  <2>1. msg_buff' = msg_buff /\ sent' = sent
    BY <1>1
  <2> QED
    BY <1>3, <1>4, <1>4a, <1>4b, <2>1 DEF FifoInv, PastOrdered
<1> QED
  BY <1>5, <1>6, <1>7, <1>8 DEF FifoInv

\* A client's mq_receive() returns an ordinary message of another client.
LEMMA HeardMessage ==
  ASSUME ServerTypeOK, FifoInv, NEW j \in Slot, ~NoMessage(ques[Out(j)])
  PROVE  LET s == Regulars(Out(j))
         IN /\ s # << >> /\ Front(ques[Out(j)]) = s[1] /\ 1 \in DOMAIN s
            /\ Rest(ques[Out(j)])[PRIO_REGULAR_MSG] = Tail(s)
            /\ Rest(ques[Out(j)])[PRIO_SERVICE_MSG] = << >>
            /\ s[1].from \in Slot /\ s[1].n \in Nat
<1> DEFINE q == ques[Out(j)]
           s == Regulars(Out(j))
<1>1. q \in [Prio -> Seq(Message)] /\ s = q[PRIO_REGULAR_MSG]
      /\ s \in Seq(Message)
  BY RegularsType DEF Regulars
<1>2. q[PRIO_SERVICE_MSG] = << >>
  BY DEF FifoInv, OutOrdered
<1>3. s # << >>
  BY <1>1, <1>2 DEF NoMessage, Prio
<1> HIDE DEF q, s
<1>4. /\ Front(q) = Head(s) /\ Rest(q)[PRIO_REGULAR_MSG] = Tail(s)
      /\ Rest(q)[PRIO_SERVICE_MSG] = q[PRIO_SERVICE_MSG]
  BY <1>1, <1>3, RestElems
<1>5. Head(s) = s[1] /\ 1 \in DOMAIN s
  BY <1>1, <1>3, TailElems
<1>6. s[1] \in Message
  BY <1>1, <1>5
<1>7. s[1].from \in Slot /\ s[1].n \in Nat
  BY <1>6 DEF Message
<1> QED
  BY <1>2, <1>3, <1>4, <1>5, <1>7 DEF q, s

\* A client's mq_receive() (client.c:240).
LEMMA HearsStep ==
  ASSUME ServerTypeOK, FifoInv, NEW j \in Slot, ClientHears(j)
  PROVE  FifoInv'
<1> DEFINE s == Regulars(Out(j))
           m == s[1]
<1>1. /\ UNCHANGED <<sent, msg_buff, prio, que_no, pc>>
      /\ heard' = [heard EXCEPT ![j][Front(ques[Out(j)]).from]
                               = Front(ques[Out(j)]).n]
      /\ heard \in [Slot -> [Slot -> Nat]]
      /\ ques' = [ques EXCEPT ![Out(j)] = Rest(@)]
      /\ ques \in [Queue -> [Prio -> Seq(Message)]]
      /\ ~NoMessage(ques[Out(j)])
  BY DEF ClientHears, serverVars, threadVars, ServerTypeOK
<1>2. /\ s # << >> /\ Front(ques[Out(j)]) = m /\ 1 \in DOMAIN s
      /\ Rest(ques[Out(j)])[PRIO_REGULAR_MSG] = Tail(s)
      /\ Rest(ques[Out(j)])[PRIO_SERVICE_MSG] = << >>
      /\ m.from \in Slot /\ m.n \in Nat
  BY <1>1, HeardMessage
<1>3. s \in Seq(Message)
  BY RegularsType
<1>4. Regulars(Out(j))' = Tail(s) /\ ques'[Out(j)][PRIO_SERVICE_MSG] = << >>
  BY <1>1, <1>2, QueuesDistinct DEF Regulars
<1>5. \A i \in Slot : /\ Regulars(In(i))' = Regulars(In(i))
                      /\ i # j => /\ ques'[Out(i)] = ques[Out(i)]
                                  /\ Regulars(Out(i))' = Regulars(Out(i))
  BY <1>1, QueuesDistinct DEF Regulars
<1>6. /\ DOMAIN s = 1 .. Len(s) /\ Len(s) \in Nat \ {0}
      /\ DOMAIN Tail(s) = 1 .. Len(s) - 1
      /\ \A k \in DOMAIN Tail(s) : Tail(s)[k] = s[k + 1]
  BY <1>2, <1>3, TailElems
<1>7. \A k \in DOMAIN Tail(s) : k + 1 \in DOMAIN s /\ 1 < k + 1
  BY <1>6
<1>8. /\ \A u, c \in Slot : u # j \/ c # m.from => heard'[u][c] = heard[u][c]
      /\ heard'[j][m.from] = m.n
  BY <1>1, <1>2
<1>9. /\ \A k \in DOMAIN s : s[k].from # j /\ heard[j][s[k].from] < s[k].n
      /\ \A k, l \in DOMAIN s :
           k < l /\ s[k].from = s[l].from => s[k].n < s[l].n
  BY DEF FifoInv, OutOrdered
<1>10. \A k \in DOMAIN s : s[k].from \in Slot
  <2> HIDE DEF s
  <2>1. \A k \in DOMAIN s : s[k] \in Message
    BY <1>3
  <2> QED
    BY <2>1 DEF Message
<1>11. \A i \in Slot : /\ InHand(i)' <=> InHand(i)
                       /\ \A u \in Slot : Given(i, u)' <=> Given(i, u)
  BY <1>1 DEF InHand, Given
<1>12. \A i, u \in Slot : Past(i, u)' \subseteq Past(i, u)
  <2> SUFFICES ASSUME NEW i \in Slot, NEW u \in Slot, NEW n \in Past(i, u)'
               PROVE  n \in Past(i, u)
    OBVIOUS
  <2>1. CASE u # j
    BY <1>5, <1>8, <2>1 DEF Past
  <2>2. CASE u = j
    <3>1. Regulars(Out(u))' = Tail(s) /\ Regulars(Out(u)) = s
      BY <1>4, <2>2 DEF Regulars
    <3>2. \/ n = heard'[j][i]
          \/ \E k \in DOMAIN Tail(s) : Tail(s)[k].from = i /\ n = Tail(s)[k].n
      BY <2>2, <3>1 DEF Past
    <3>3. \/ n = heard[j][i]
          \/ \E k \in DOMAIN s : s[k].from = i /\ n = s[k].n
      <4> HIDE DEF s
      <4> QED
        BY <1>2, <1>6, <1>7, <1>8, <3>2
    <3> QED
      BY <2>2, <3>1, <3>3 DEF Past
  <2> QED
    BY <2>1, <2>2
<1>13. InOrdered'
  BY <1>1, <1>5 DEF FifoInv, InOrdered
<1>14. HandOrdered'
  BY <1>1, <1>5, <1>11 DEF FifoInv, HandOrdered
<1>15. OutOrdered'
  <2>1. /\ \A k \in DOMAIN Tail(s) :
             /\ Tail(s)[k].from # j
             /\ heard'[j][Tail(s)[k].from] < Tail(s)[k].n
        /\ \A k, l \in DOMAIN Tail(s) :
             k < l /\ Tail(s)[k].from = Tail(s)[l].from
               => Tail(s)[k].n < Tail(s)[l].n
    <3> HIDE DEF s
    <3> QED
      BY <1>2, <1>6, <1>7, <1>8, <1>9, <1>10
  <2>2. ASSUME NEW u \in Slot, u # j, NEW k \in DOMAIN Regulars(Out(u))
        PROVE  heard'[u][Regulars(Out(u))[k].from] < Regulars(Out(u))[k].n
    <3>1. heard[u][Regulars(Out(u))[k].from] < Regulars(Out(u))[k].n
      BY DEF FifoInv, OutOrdered
    <3>2. heard'[u] = heard[u]
      BY <1>1, <2>2
    <3> QED
      BY <3>1, <3>2
  <2> QED
    BY <1>4, <1>5, <2>1, <2>2 DEF FifoInv, OutOrdered
<1>16. PastOrdered'
  <2>1. msg_buff' = msg_buff /\ sent' = sent
    BY <1>1
  <2> QED
    BY <1>5, <1>11, <1>12, <2>1 DEF FifoInv, PastOrdered
<1> QED
  BY <1>13, <1>14, <1>15, <1>16 DEF FifoInv

\* Every step keeps the order.
LEMMA FifoStep ==
  ServerIInv /\ FifoInv /\ HandInv /\ [ServerSideNext]_serverSideVars
    => FifoInv'
<1> SUFFICES ASSUME ServerIInv, FifoInv, HandInv,
                    [ServerSideNext]_serverSideVars
             PROVE  FifoInv'
  OBVIOUS
<1>0. /\ ServerTypeOK /\ LoopInv /\ MutexInv /\ NoStaleDispatch
      /\ pc \in [Slot -> ThreadPc] /\ que_no \in [Slot -> Nat]
  BY DEF ServerIInv, ServerTypeOK
<1>1. ASSUME NEW t \in Slot, Thread(t), UNCHANGED envVars PROVE FifoInv'
  <2>1. CASE Receive(t)
    BY <1>0, <1>1, <2>1, ReceiveStep
  <2>2. CASE SendOut(t)
    BY <1>0, <1>1, <2>2, SendStep DEF HandInv
  <2>3. CASE ~Receive(t) /\ ~SendOut(t)
    <3>1. UNCHANGED <<ques, sent, heard>>
      BY <1>1, <2>3
         DEF Thread, Check, TryLock, ReceiveEmpty, Unlock, Service, StoreCount,
             Regular, SkipOwn, LockOut, UnlockOut, EndBroadcast, ClearBuff,
             envVars
    <3>2. \A i \in Slot :
            InHand(i)' => InHand(i) /\ msg_buff'[i] = msg_buff[i]
      <4>1. pc[t] = "trylock" => mutex_ques[In(t)] = Nobody
        BY <1>0, TryLockSucceeds
      <4>2. msg_buff \in [Slot -> Message \cup {NoMsg}]
        BY <1>0 DEF ServerTypeOK
      <4>3. CASE Check(t) \/ TryLock(t) \/ ReceiveEmpty(t) \/ Unlock(t)
        BY <1>0, <4>1, <4>2, <4>3
           DEF Check, TryLock, ReceiveEmpty, Unlock, Goto, InHand
      <4>4. CASE Service(t) \/ StoreCount(t) \/ Regular(t)
        BY <1>0, <4>2, <4>4 DEF Service, StoreCount, Regular, Goto, InHand
      <4>5. CASE SkipOwn(t) \/ LockOut(t) \/ UnlockOut(t)
        BY <1>0, <4>2, <4>5 DEF SkipOwn, LockOut, UnlockOut, Goto, InHand
      <4>6. CASE EndBroadcast(t) \/ ClearBuff(t)
        BY <1>0, <4>2, <4>6 DEF EndBroadcast, ClearBuff, Goto, InHand
      <4> QED
        BY <1>1, <2>3, <4>3, <4>4, <4>5, <4>6 DEF Thread
    <3>3. \A i, j \in Slot : InHand(i)' /\ Given(i, j) => Given(i, j)'
      <4>1. CASE Check(t) \/ TryLock(t) \/ ReceiveEmpty(t) \/ Unlock(t)
        BY <1>0, <4>1
           DEF Check, TryLock, ReceiveEmpty, Unlock, Goto, InHand, Given
      <4>2. CASE Service(t) \/ StoreCount(t) \/ Regular(t)
        BY <1>0, <4>2
           DEF Service, StoreCount, Regular, Goto, InHand, Given
      <4>3. CASE SkipOwn(t) \/ LockOut(t) \/ UnlockOut(t)
        <5> SUFFICES ASSUME NEW i \in Slot, NEW j \in Slot, Given(i, j)
                     PROVE  Given(i, j)'
          OBVIOUS
        <5>1. Out(j) \in Int /\ que_no[i] \in Int
          BY <1>0 DEF Out, Slot
        <5>2. /\ i # t => pc'[i] = pc[i] /\ que_no'[i] = que_no[i]
              /\ que_no'[t] \in {que_no[t], que_no[t] + 2}
              /\ pc'[t] \in {"broadcast", "send"}
              /\ pc[t] = "unlock_out" => que_no'[t] = que_no[t] + 2
          BY <1>0, <4>3 DEF SkipOwn, LockOut, UnlockOut, NextQue, Goto
        <5> HIDE DEF Out
        <5> QED
          BY <5>1, <5>2 DEF Given
      <4>4. CASE EndBroadcast(t) \/ ClearBuff(t)
        BY <1>0, <4>4 DEF EndBroadcast, ClearBuff, Goto, InHand, Given
      <4> QED
        BY <1>1, <2>3, <4>1, <4>2, <4>3, <4>4 DEF Thread
    <3> QED
      BY <3>1, <3>2, <3>3, QuietStep
  <2> QED
    BY <2>1, <2>2, <2>3
<1>2. ASSUME UNCHANGED <<ques, envVars, threadVars>> PROVE FifoInv'
  <2>1. UNCHANGED <<ques, sent, heard, msg_buff, pc, prio, que_no>>
    BY <1>2 DEF envVars, threadVars
  <2> QED
    BY <2>1, QuietStep DEF InHand, Given
<1>3. ASSUME NEW c \in Slot, AnyClient(c) PROVE FifoInv'
  BY <1>0, <1>3, SaysStep, AnnouncesStep, HearsStep DEF AnyClient
<1> QED
  BY <1>1, <1>2, <1>3 DEF ServerSideNext, Server, ServerMain, ServerInterrupt,
     ServerStopThreads, Cleanup, serverSideVars, serverVars

-----------------------------------------------------------------------------
(* The theorems.                                                           *)

\* The order of messages holds in every reachable state.
THEOREM FifoCorrect == ServerSideSpec => []FifoInv
<1>1. ServerSideInit => FifoInv /\ HandInv
  BY FifoInit, HandInit
<1>2. ServerIInv /\ FifoInv /\ HandInv /\ [ServerSideNext]_serverSideVars
        => FifoInv' /\ HandInv'
  BY FifoStep, HandStep DEF ServerIInv
<1> QED
  BY ServerInvariance, <1>1, <1>2, PTL DEF ServerSideSpec

\* The server implements the common room: a client's mq_send() is a Say, its
\* mq_receive() a Hear, and no other step of the program (server.c:228-294) is
\* seen by the room.
THEOREM ServerImplementsChatRoom == ServerSideSpec => IsChatRoom
<1>1. ServerSideInit => Room!Init
  BY DEF ServerSideInit, ClientsInit, Room!Init
<1>2. ServerIInv /\ FifoInv /\ [ServerSideNext]_serverSideVars
        => [Room!Next]_<<sent, heard>>
  <2> SUFFICES ASSUME ServerIInv, FifoInv, [ServerSideNext]_serverSideVars
               PROVE  Room!Next \/ UNCHANGED <<sent, heard>>
    OBVIOUS
  <2>1. ASSUME NEW c \in Slot, ClientSays(c) PROVE Room!Next
    BY <2>1 DEF ClientSays, Room!Next, Room!Say
  <2>2. ASSUME NEW c \in Slot, ClientAnnounces(c)
        PROVE  UNCHANGED <<sent, heard>>
    BY <2>2 DEF ClientAnnounces
  <2>3. ASSUME NEW j \in Slot, ClientHears(j) PROVE Room!Next
    <3> DEFINE m == Regulars(Out(j))[1]
    <3>1. ServerTypeOK
      BY DEF ServerIInv
    <3>2. /\ Front(ques[Out(j)]) = m /\ 1 \in DOMAIN Regulars(Out(j))
          /\ m.from \in Slot /\ m.n \in Nat
      BY <2>3, <3>1, HeardMessage DEF ClientHears
    <3>3. m.from # j /\ heard[j][m.from] < m.n
      BY <3>2 DEF FifoInv, OutOrdered
    <3>4. m.n \in Past(m.from, j)
      BY <3>2 DEF Past
    <3>5. m.n <= sent[m.from]
      BY <3>2, <3>4 DEF FifoInv, PastOrdered
    <3>6. heard[j][m.from] \in Nat /\ sent[m.from] \in Nat
      BY <3>1, <3>2 DEF ServerTypeOK
    <3>7. m.n \in heard[j][m.from] + 1 .. sent[m.from]
      BY <3>2, <3>3, <3>5, <3>6
    <3>8. heard' = [heard EXCEPT ![j][m.from] = m.n] /\ UNCHANGED sent
      BY <2>3, <3>2 DEF ClientHears
    <3>9. Room!Hear(j, m.from)
      BY <3>3, <3>7, <3>8 DEF Room!Hear
    <3> QED
      BY <3>2, <3>9 DEF Room!Next
  <2> QED
    BY <2>1, <2>2, <2>3 DEF ServerSideNext, AnyClient, envVars, serverSideVars
<1> QED
  BY ServerInvariance, FifoCorrect, <1>1, <1>2, PTL
     DEF ServerSideSpec, IsChatRoom, Room!Spec
-----------------------------------------------------------------------------
(* The connected flag.                                                     *)

\* Service messages in a slot's incoming queue, and one in its thread's hand.
Services(t) == Len(ques[In(t)][PRIO_SERVICE_MSG])
Carried(t)  == pc[t] \in {"unlock", "dispatch"} /\ prio[t] = PRIO_SERVICE_MSG

\* What is not applied is queued or in the thread's hand.
LEMMA UnappliedIs ==
  ASSUME ServerTypeOK, NEW t \in Slot
  PROVE  /\ Services(t) \in Nat /\ announced[t] \in Nat
         /\ Unapplied(t) \in Nat
         /\ Carried(t) => Unapplied(t) = Services(t) + 1
         /\ ~Carried(t) => Unapplied(t) = Services(t)
<1>1. ques[In(t)][PRIO_SERVICE_MSG] \in Seq(Message)
  BY RegularsType DEF Prio
<1>2. Services(t) \in Nat /\ announced[t] \in Nat
  BY <1>1 DEF Services, ServerTypeOK
<1>3. Unapplied(t) = Services(t) + (IF Carried(t) THEN 1 ELSE 0)
  BY DEF Unapplied, Services, Carried
<1> QED
  BY <1>2, <1>3

\* One more service message applied is the other flag (server.c:259-268).
LEMMA Toggle ==
  ASSUME NEW d \in Int PROVE (d + 1) % 2 = 1 - (d % 2)
OBVIOUS

\* Those that the thread has applied to the flag.
Applied(t) == announced[t] - Unapplied(t)

\* A step that moves no service message applies none.
LEMMA QuietApplied ==
  ASSUME UNCHANGED announced,
         \A t \in Slot : Services(t)' = Services(t)
                         /\ (Carried(t)' <=> Carried(t))
  PROVE  \A t \in Slot : Applied(t)' = Applied(t)
BY DEF Applied, Unapplied, Services, Carried

\* mq_receive() by the thread (server.c:247): a service message it returns
\* passes from the queue to the hand.
LEMMA ReceiveApplied ==
  ASSUME ServerTypeOK, NEW t \in Slot, Receive(t), UNCHANGED envVars
  PROVE  \A u \in Slot : Applied(u)' = Applied(u)
<1> DEFINE q == ques[In(t)]
<1>1. /\ q \in [Prio -> Seq(Message)] /\ ~NoMessage(q)
      /\ pc[t] = "receive"
      /\ ques' = [ques EXCEPT ![In(t)] = Rest(q)]
      /\ prio' = [prio EXCEPT ![t] = TopPrio(q)]
      /\ pc' = [pc EXCEPT ![t] = "unlock"]
      /\ UNCHANGED announced
  BY RegularsType DEF Receive, Goto, envVars
<1>2. /\ ques \in [Queue -> [Prio -> Seq(Message)]]
      /\ pc \in [Slot -> ThreadPc] /\ prio \in [Slot -> Prio \cup {NoPrio}]
  BY DEF ServerTypeOK
<1>3. /\ ques'[In(t)] = Rest(q) /\ pc'[t] = "unlock"
      /\ prio'[t] = TopPrio(q)
      /\ \A u \in Slot : u # t => /\ ques'[In(u)] = ques[In(u)]
                                  /\ pc'[u] = pc[u] /\ prio'[u] = prio[u]
  BY <1>1, <1>2, QueuesDistinct
<1>4. ~Carried(t)
  BY <1>1 DEF Carried
<1>5. Unapplied(t)' = Unapplied(t)
  <2>1. CASE q[PRIO_REGULAR_MSG] # << >>
    <3>1. /\ TopPrio(q) = PRIO_REGULAR_MSG
          /\ Rest(q)[PRIO_SERVICE_MSG] = q[PRIO_SERVICE_MSG]
      BY <1>1, <2>1, RestElems
    <3>2. ~Carried(t)' /\ Services(t)' = Services(t)
      BY <1>3, <3>1 DEF Carried, Services, PRIO_REGULAR_MSG, PRIO_SERVICE_MSG
    <3> QED
      BY <1>4, <3>2 DEF Unapplied, Services, Carried
  <2>2. CASE q[PRIO_REGULAR_MSG] = << >>
    <3>1. TopPrio(q) = PRIO_SERVICE_MSG
      BY <2>2 DEF TopPrio
    <3>2. q[PRIO_SERVICE_MSG] \in Seq(Message) /\ q[PRIO_SERVICE_MSG] # << >>
      BY <1>1, <2>2 DEF NoMessage, Prio
    <3>3. Rest(q)[PRIO_SERVICE_MSG] = Tail(q[PRIO_SERVICE_MSG])
      BY <1>1, <3>1 DEF Rest, Prio
    <3>4. Len(Tail(q[PRIO_SERVICE_MSG])) = Len(q[PRIO_SERVICE_MSG]) - 1
      BY <3>2
    <3>5. Carried(t)' /\ Services(t)' = Services(t) - 1
      BY <1>3, <3>1, <3>3, <3>4 DEF Carried, Services
    <3>6. Services(t) \in Nat /\ Unapplied(t) = Services(t)
      BY <1>4, UnappliedIs
    <3>7. Unapplied(t)' = Services(t)' + 1
      BY <3>5 DEF Unapplied, Services, Carried
    <3> QED
      BY <3>5, <3>6, <3>7
  <2> QED
    BY <2>1, <2>2
<1>6. \A u \in Slot : u # t => Unapplied(u)' = Unapplied(u)
  BY <1>3 DEF Unapplied
<1> QED
  BY <1>1, <1>5, <1>6 DEF Applied

\* The dispatch of a service message (server.c:257-272) applies the one in
\* hand.
LEMMA ServiceApplied ==
  ASSUME ServerTypeOK, NEW t \in Slot, Service(t), UNCHANGED envVars
  PROVE  /\ Applied(t) \in Int /\ Applied(t)' = Applied(t) + 1
         /\ \A u \in Slot : u # t => Applied(u)' = Applied(u)
<1>1. /\ pc[t] = "dispatch" /\ prio[t] = PRIO_SERVICE_MSG
      /\ pc' = [pc EXCEPT ![t] = "count"] /\ pc \in [Slot -> ThreadPc]
      /\ UNCHANGED <<ques, prio, announced>>
  BY DEF Service, Goto, envVars, ServerTypeOK
<1>2. \A u \in Slot : u # t => pc'[u] = pc[u]
  BY <1>1
<1>3. \A u \in Slot : u # t => Unapplied(u)' = Unapplied(u)
  BY <1>1, <1>2 DEF Unapplied
<1>4. Carried(t) /\ ~Carried(t)' /\ Services(t)' = Services(t)
  BY <1>1 DEF Carried, Services
<1>5. /\ Services(t) \in Nat /\ announced[t] \in Nat
      /\ Unapplied(t) = Services(t) + 1
  BY <1>4, UnappliedIs
<1>6. Unapplied(t)' = Services(t)
  <2>1. Unapplied(t)' = Services(t)' + (IF Carried(t)' THEN 1 ELSE 0)
    BY DEF Unapplied, Services, Carried
  <2> QED
    BY <1>4, <1>5, <2>1
<1> QED
  BY <1>1, <1>3, <1>5, <1>6 DEF Applied

\* A client's service message (client.c:119, 160) is counted as it is queued.
LEMMA AnnounceApplied ==
  ASSUME ServerTypeOK, NEW c \in Slot, ClientAnnounces(c)
  PROVE  \A u \in Slot : Applied(u)' = Applied(u)
<1>1. /\ ques' = [ques EXCEPT ![In(c)] = Put(@, PRIO_SERVICE_MSG,
                                             ServiceMsg(c))]
      /\ announced' = [announced EXCEPT ![c] = @ + 1]
      /\ ques \in [Queue -> [Prio -> Seq(Message)]]
      /\ announced \in [Slot -> Nat]
      /\ UNCHANGED <<pc, prio>>
  BY DEF ClientAnnounces, ServerTypeOK, serverVars, threadVars
<1>2. \A u \in Slot : u # c => /\ ques'[In(u)] = ques[In(u)]
                               /\ announced'[u] = announced[u]
  BY <1>1, QueuesDistinct
<1>3. \A u \in Slot : u # c => Unapplied(u)' = Unapplied(u)
  BY <1>1, <1>2 DEF Unapplied
<1>4. /\ ques[In(c)] \in [Prio -> Seq(Message)]
      /\ ques'[In(c)] = Put(ques[In(c)], PRIO_SERVICE_MSG, ServiceMsg(c))
      /\ ServiceMsg(c) \in Message
  BY <1>1, QueuesDistinct, RegularType DEF ServiceMsg
<1>5. ques'[In(c)][PRIO_SERVICE_MSG]
        = Append(ques[In(c)][PRIO_SERVICE_MSG], ServiceMsg(c))
  BY <1>4 DEF Put, Prio
<1>6. Services(c)' = Services(c) + 1
  BY <1>4, <1>5 DEF Services, Prio
<1>7. Carried(c)' <=> Carried(c)
  BY <1>1 DEF Carried
<1>8. /\ Services(c) \in Nat /\ Unapplied(c) \in Nat /\ announced[c] \in Nat
      /\ Unapplied(c)' = Unapplied(c) + 1 /\ announced'[c] = announced[c] + 1
  <2>1. Services(c) \in Nat /\ Unapplied(c) \in Nat /\ announced[c] \in Nat
    BY UnappliedIs
  <2>2. /\ Unapplied(c) = Services(c) + (IF Carried(c) THEN 1 ELSE 0)
        /\ Unapplied(c)' = Services(c)' + (IF Carried(c)' THEN 1 ELSE 0)
    BY DEF Unapplied, Services, Carried
  <2>3. announced'[c] = announced[c] + 1
    BY <1>1
  <2> QED
    BY <1>6, <1>7, <2>1, <2>2, <2>3
<1>9. announced'[c] - Unapplied(c)' = announced[c] - Unapplied(c)
  BY <1>8
<1> QED
  BY <1>2, <1>3, <1>9 DEF Applied

\* Every other step moves no service message: a trylock that fails would let
\* the thread apply its last one again, and it never fails.
LEMMA AppliedStep ==
  ASSUME ServerIInv, [ServerSideNext]_serverSideVars,
         \A t \in Slot : ~(Service(t) /\ UNCHANGED envVars)
  PROVE  \A u \in Slot : /\ Applied(u)' = Applied(u)
                         /\ flag_connect'[u] = flag_connect[u]
<1> DEFINE Kept == \A u \in Slot : /\ Applied(u)' = Applied(u)
                                   /\ flag_connect'[u] = flag_connect[u]
<1>0. /\ ServerTypeOK /\ LoopInv /\ MutexInv
      /\ ques \in [Queue -> [Prio -> Seq(Message)]]
      /\ pc \in [Slot -> ThreadPc] /\ prio \in [Slot -> Prio \cup {NoPrio}]
  BY DEF ServerIInv, ServerTypeOK
<1>1. ASSUME NEW t \in Slot, Thread(t), UNCHANGED envVars PROVE Kept
  <2>1. CASE \/ Check(t) \/ TryLock(t) \/ ReceiveEmpty(t) \/ Unlock(t)
             \/ StoreCount(t) \/ Regular(t) \/ SkipOwn(t) \/ LockOut(t)
             \/ UnlockOut(t) \/ EndBroadcast(t) \/ ClearBuff(t)
    <3>1. UNCHANGED <<ques, flag_connect, announced, prio>>
      BY <1>1, <2>1
         DEF Check, TryLock, ReceiveEmpty, Unlock, StoreCount, Regular,
             SkipOwn, LockOut, UnlockOut, EndBroadcast, ClearBuff, infoVars,
             envVars
    <3>2. \A u \in Slot : u # t => pc'[u] = pc[u]
      BY <1>0, <2>1
         DEF Check, TryLock, ReceiveEmpty, Unlock, StoreCount, Regular,
             SkipOwn, LockOut, UnlockOut, EndBroadcast, ClearBuff, Goto
    <3>3. TryLock(t) => mutex_ques[In(t)] = Nobody
      BY <1>0, TryLockSucceeds DEF TryLock
    <3>4. Carried(t)' <=> Carried(t)
      BY <1>0, <2>1, <3>1, <3>3
         DEF Check, TryLock, ReceiveEmpty, Unlock, StoreCount, Regular,
             SkipOwn, LockOut, UnlockOut, EndBroadcast, ClearBuff, Goto,
             Carried
    <3> QED
      BY <1>0, <3>1, <3>2, <3>4, QuietApplied DEF Services, Carried
  <2>2. CASE SendOut(t)
    <3>1. PICK u \in Slot : que_no[t] = Out(u) /\ u # t
      BY <1>0, <2>2, TargetQueue DEF SendOut
    <3>2. /\ UNCHANGED <<flag_connect, announced, prio>>
          /\ pc[t] = "send" /\ pc' = [pc EXCEPT ![t] = "unlock_out"]
          /\ \E x : ques' = [ques EXCEPT ![Out(u)] = x]
      <4>1. \/ ques' = [ques EXCEPT ![Out(u)] = ques[Out(u)]]
            \/ ques' = [ques EXCEPT ![Out(u)] =
                          Put(ques[Out(u)], PRIO_REGULAR_MSG, msg_buff[t])]
        BY <1>0, <2>2, <3>1 DEF SendOut
      <4> QED
        BY <1>1, <2>2, <4>1 DEF SendOut, Goto, infoVars, envVars
    <3>3. \A v \in Slot : ques'[In(v)] = ques[In(v)]
      BY <1>0, <3>2, QueuesDistinct
    <3>4. \A v \in Slot : Carried(v)' <=> Carried(v)
      BY <1>0, <3>2 DEF Carried
    <3> QED
      BY <1>0, <3>2, <3>3, <3>4, QuietApplied DEF Services
  <2> QED
    <3>1. Receive(t) => UNCHANGED flag_connect
      BY DEF Receive, infoVars
    <3>2. Receive(t) => Kept
      BY <1>0, <1>1, <3>1, ReceiveApplied
    <3>3. ~Service(t)
      BY <1>1
    <3> QED
      BY <1>1, <2>1, <2>2, <3>2, <3>3 DEF Thread
<1>2. CASE ServerMain /\ UNCHANGED envVars
  <2>1. UNCHANGED <<ques, flag_connect, announced, prio, pc>>
    BY <1>2 DEF ServerMain, ServerInterrupt, ServerStopThreads, Cleanup,
       threadVars, infoVars, envVars
  <2> QED
    BY <1>0, <2>1, QuietApplied DEF Services, Carried
<1>3. ASSUME NEW c \in Slot, ClientSays(c) PROVE Kept
  <2>1. /\ UNCHANGED <<flag_connect, announced, prio, pc>>
        /\ ques' = [ques EXCEPT ![In(c)] =
                      Put(ques[In(c)], PRIO_REGULAR_MSG,
                          RegularMsg(c, sent[c] + 1))]
    BY <1>3 DEF ClientSays, serverVars, threadVars, infoVars
  <2>2. \A v \in Slot : v # c => ques'[In(v)] = ques[In(v)]
    BY <1>0, <2>1, QueuesDistinct
  <2>3. ques[In(c)] \in [Prio -> Seq(Message)] /\ In(c) \in Queue
    BY <1>0, QueuesDistinct
  <2>4. ques'[In(c)][PRIO_SERVICE_MSG] = ques[In(c)][PRIO_SERVICE_MSG]
    BY <1>0, <2>1, <2>3
       DEF Put, Prio, PRIO_REGULAR_MSG, PRIO_SERVICE_MSG
  <2>5. \A v \in Slot : Services(v)' = Services(v)
    BY <2>2, <2>4 DEF Services
  <2> QED
    BY <1>0, <2>1, <2>5, QuietApplied DEF Carried
<1>4. ASSUME NEW c \in Slot, ClientHears(c) PROVE Kept
  <2>1. /\ UNCHANGED <<flag_connect, announced, prio, pc>>
        /\ ques' = [ques EXCEPT ![Out(c)] = Rest(ques[Out(c)])]
    BY <1>4 DEF ClientHears, serverVars, threadVars, infoVars
  <2>2. \A v \in Slot : ques'[In(v)] = ques[In(v)]
    BY <1>0, <2>1, QueuesDistinct
  <2> QED
    BY <1>0, <2>1, <2>2, QuietApplied DEF Services, Carried
<1>5. CASE UNCHANGED serverSideVars
  BY <1>0, <1>5, QuietApplied DEF serverSideVars, serverVars, threadVars,
     infoVars, envVars, Services, Carried
<1>6. ASSUME NEW c \in Slot, ClientAnnounces(c) PROVE Kept
  <2>1. UNCHANGED flag_connect
    BY <1>6 DEF ClientAnnounces, serverVars, infoVars
  <2> QED
    BY <1>0, <1>6, <2>1, AnnounceApplied
<1> QED
  BY <1>1, <1>2, <1>3, <1>4, <1>5, <1>6
     DEF ServerSideNext, Server, AnyClient

\* So the flag is toggled as often as a service message is applied.
LEMMA ParityStep ==
  ServerIInv /\ FlagIsParity /\ [ServerSideNext]_serverSideVars
    => FlagIsParity'
<1> SUFFICES ASSUME ServerIInv, FlagIsParity, [ServerSideNext]_serverSideVars
             PROVE  FlagIsParity'
  OBVIOUS
<1>1. /\ ServerTypeOK /\ flag_connect \in [Slot -> {0, 1}]
      /\ \A u \in Slot : flag_connect[u] = Applied(u) % 2
  BY DEF ServerIInv, ServerTypeOK, FlagIsParity, Applied
<1>2. ASSUME NEW t \in Slot, Service(t), UNCHANGED envVars
      PROVE  \A u \in Slot : flag_connect'[u] = Applied(u)' % 2
  <2>1. /\ Applied(t) \in Int /\ Applied(t)' = Applied(t) + 1
        /\ \A u \in Slot : u # t => Applied(u)' = Applied(u)
    BY <1>1, <1>2, ServiceApplied
  <2>2. /\ flag_connect'[t] = 1 - flag_connect[t]
        /\ \A u \in Slot : u # t => flag_connect'[u] = flag_connect[u]
    BY <1>1, <1>2 DEF Service, NextFlag
  <2> HIDE DEF Applied
  <2>3. (Applied(t) + 1) % 2 = 1 - (Applied(t) % 2)
    BY <2>1, Toggle
  <2> QED
    BY <1>1, <2>1, <2>2, <2>3
<1>3. ASSUME \A t \in Slot : ~(Service(t) /\ UNCHANGED envVars)
      PROVE  \A u \in Slot : flag_connect'[u] = Applied(u)' % 2
  BY <1>1, <1>3, AppliedStep
<1>4. \A u \in Slot : flag_connect'[u] = Applied(u)' % 2
  BY <1>1, <1>2, <1>3
<1> QED
  BY <1>4 DEF FlagIsParity, Applied

\* Whatever overtakes them, the service messages the kernel accepts for a slot
\* are applied to its flag once each (server.c:257-272).
THEOREM FlagFollows == ServerSideSpec => []FlagIsParity
<1>1. ServerSideInit => FlagIsParity
  <2> SUFFICES ASSUME ServerSideInit, NEW t \in Slot
               PROVE  flag_connect[t] = (announced[t] - Unapplied(t)) % 2
    BY DEF FlagIsParity
  <2>1. flag_connect[t] = 0 /\ announced[t] = 0 /\ pc[t] = "check"
    BY DEF ServerSideInit, ServerInit, ClientsInit
  <2>2. ques[In(t)][PRIO_SERVICE_MSG] = << >>
    BY QueuesDistinct DEF ServerSideInit, ClientsInit, EmptyQueue, Prio
  <2>3. Unapplied(t) = 0
    BY <2>1, <2>2 DEF Unapplied
  <2> QED
    BY <2>1, <2>3
<1> QED
  BY <1>1, ServerInvariance, ParityStep, PTL DEF ServerSideSpec
-----------------------------------------------------------------------------
(***************************************************************************)
(* What an uninitialised receive buffer can spoil.  A thread's buffer is   *)
(* dirty until it has handled its first message.  That this message is its *)
(* client's first word, and comes before any service message was applied,  *)
(* needs that a queue holds the words up to the last one sent without a    *)
(* gap (Gapless): with nothing received yet, it holds all of them.         *)
(***************************************************************************)

\* The thread has no message.
Idle(t) == pc[t] \in {"check", "trylock", "receive", "done"}

\* Nothing is missing between the words in a queue and the last one sent.
Gapless == \A t \in Slot : LET s == Regulars(In(t)) IN
             \A k \in DOMAIN s : s[k].n = sent[t] - Len(s) + k

\* An idle thread with a dirty buffer has received nothing at all.
Untouched == \A t \in Slot : dirty[t] /\ Idle(t) =>
               Len(Regulars(In(t))) = sent[t] /\ Applied(t) = 0

\* The word in hand is whole, or the first message of all.
HandFirst == \A t \in Slot : InHand(t) =>
               IF dirty[t] THEN msg_buff[t].n = 1 /\ Applied(t) = 0
                           ELSE msg_buff[t].tail = "clean"

\* A damaged copy is one of a first word.
OutFirst == \A j \in Slot : \A k \in DOMAIN Regulars(Out(j)) :
              Regulars(Out(j))[k].tail # "clean" => Regulars(Out(j))[k].n = 1

FirstInv == Gapless /\ Untouched /\ HandFirst /\ OutFirst

\* What a step does to a slot's incoming queue: nothing, its client's mq_send()
\* of a word, or its thread's mq_receive() of one (client.c:204, server.c:247).
InSame(u) == Regulars(In(u))' = Regulars(In(u)) /\ sent'[u] = sent[u]
InSaid(u) == /\ Regulars(In(u))' =
                  Append(Regulars(In(u)), RegularMsg(u, sent[u] + 1))
             /\ sent'[u] = sent[u] + 1
             /\ UNCHANGED threadVars
InTaken(u) == /\ Receive(u) /\ Regulars(In(u)) # << >>
              /\ Regulars(In(u))' = Tail(Regulars(In(u)))
              /\ sent'[u] = sent[u]
              /\ msg_buff'[u].n = Regulars(In(u))[1].n

\* mq_receive() by the slot's own thread.
LEMMA TakeMoves ==
  ASSUME ServerTypeOK, NEW t \in Slot, Receive(t), UNCHANGED envVars,
         NEW u \in Slot
  PROVE  \/ InSame(u) /\ (u = t => prio'[u] = PRIO_SERVICE_MSG)
         \/ InTaken(u)
<1> DEFINE q == ques[In(t)]
           s == Regulars(In(t))
<1>1. /\ q \in [Prio -> Seq(Message)] /\ s \in Seq(Message)
      /\ s = q[PRIO_REGULAR_MSG]
  BY RegularsType DEF Regulars
<1>2. /\ ques' = [ques EXCEPT ![In(t)] = Rest(q)]
      /\ ques \in [Queue -> [Prio -> Seq(Message)]]
      /\ prio' = [prio EXCEPT ![t] = TopPrio(q)]
      /\ prio \in [Slot -> Prio \cup {NoPrio}]
      /\ msg_buff \in [Slot -> Message \cup {NoMsg}]
      /\ sent' = sent
  BY DEF Receive, ServerTypeOK, envVars
<1>3. CASE u # t
  BY <1>2, <1>3, QueuesDistinct DEF InSame, Regulars
<1>4. CASE u = t /\ s = << >>
  <2>1. /\ TopPrio(q) = PRIO_SERVICE_MSG
        /\ Rest(q)[PRIO_REGULAR_MSG] = q[PRIO_REGULAR_MSG]
    BY <1>1, <1>4, RestService
  <2>2. Regulars(In(t))' = s
    BY <1>1, <1>2, <2>1, QueuesDistinct DEF Regulars
  <2> QED
    BY <1>2, <1>4, <2>1, <2>2 DEF InSame
<1>5. CASE u = t /\ s # << >>
  <2>1. Front(q) = Head(s) /\ Rest(q)[PRIO_REGULAR_MSG] = Tail(s)
    BY <1>1, <1>5, RestElems
  <2>2. Regulars(In(t))' = Tail(s)
    BY <1>2, <2>1, QueuesDistinct DEF Regulars
  <2>3. Head(s) = s[1] /\ Head(s) \in Message
    BY <1>1, <1>5, TailElems
  <2>4. PICK tl \in TailAfterReceive(t) :
          msg_buff' = [msg_buff EXCEPT ![t] = [Front(q) EXCEPT !.tail = tl]]
    BY DEF Receive
  <2>5. msg_buff'[t].n = s[1].n
    BY <1>2, <2>1, <2>3, <2>4 DEF Message
  <2> QED
    BY <1>2, <1>5, <2>2, <2>5 DEF InTaken
<1> QED
  BY <1>3, <1>4, <1>5

\* A client's mq_send() of a word, or of a service message.
LEMMA SaidMoves ==
  ASSUME ServerTypeOK, NEW c \in Slot, ClientSays(c) \/ ClientAnnounces(c),
         NEW u \in Slot
  PROVE  InSame(u) \/ InSaid(u)
<1> DEFINE q == ques[In(c)]
           s == Regulars(In(c))
           m == RegularMsg(c, sent[c] + 1)
<1>1. /\ q \in [Prio -> Seq(Message)] /\ s = q[PRIO_REGULAR_MSG]
      /\ ques \in [Queue -> [Prio -> Seq(Message)]] /\ sent \in [Slot -> Nat]
      /\ UNCHANGED threadVars
  BY RegularsType
     DEF Regulars, ServerTypeOK, ClientSays, ClientAnnounces, serverVars
<1>2. m \in Message /\ ServiceMsg(c) \in Message
  BY <1>1, RegularType DEF ServiceMsg
<1>3. CASE ClientSays(c)
  <2>1. /\ ques' = [ques EXCEPT ![In(c)] = Put(q, PRIO_REGULAR_MSG, m)]
        /\ sent' = [sent EXCEPT ![c] = @ + 1]
    BY <1>3 DEF ClientSays
  <2>2. Put(q, PRIO_REGULAR_MSG, m)[PRIO_REGULAR_MSG] = Append(s, m)
    <3> HIDE DEF q, m
    <3> QED
      BY <1>1, <1>2, PutElems DEF q
  <2>3. CASE u = c
    BY <1>1, <2>1, <2>2, <2>3, QueuesDistinct DEF InSaid, Regulars
  <2>4. CASE u # c
    BY <1>1, <2>1, <2>4, QueuesDistinct DEF InSame, Regulars
  <2> QED
    BY <2>3, <2>4
<1>4. CASE ClientAnnounces(c)
  <2> DEFINE v == ServiceMsg(c)
  <2>1. /\ ques' = [ques EXCEPT ![In(c)] = Put(q, PRIO_SERVICE_MSG, v)]
        /\ sent' = sent
    BY <1>4 DEF ClientAnnounces
  <2>2. Put(q, PRIO_SERVICE_MSG, v)[PRIO_REGULAR_MSG] = s
    <3> HIDE DEF q, v
    <3> QED
      BY <1>1, <1>2, PutElems DEF q, v
  <2> QED
    BY <1>1, <2>1, <2>2, QueuesDistinct DEF InSame, Regulars
<1> QED
  BY <1>3, <1>4

\* Every step.
LEMMA InMoves ==
  ASSUME ServerIInv, [ServerSideNext]_serverSideVars, NEW u \in Slot
  PROVE  \/ InSame(u) /\ (Receive(u) => prio'[u] = PRIO_SERVICE_MSG)
         \/ InSaid(u)
         \/ InTaken(u)
<1>0. /\ ServerTypeOK /\ LoopInv
      /\ ques \in [Queue -> [Prio -> Seq(Message)]]
      /\ pc \in [Slot -> ThreadPc]
  BY DEF ServerIInv, ServerTypeOK
<1>1. Receive(u) => pc[u] = "receive" /\ pc'[u] = "unlock"
  BY <1>0 DEF Receive, Goto
<1>2. ASSUME NEW t \in Slot, Receive(t), UNCHANGED envVars
      PROVE  \/ InSame(u) /\ (Receive(u) => prio'[u] = PRIO_SERVICE_MSG)
             \/ InTaken(u)
  <2>1. u # t => ~Receive(u)
    BY <1>0, <1>1, <1>2 DEF Receive, Goto
  <2> QED
    BY <1>0, <1>2, <2>1, TakeMoves
<1>3. ASSUME NEW t \in Slot, Thread(t), ~Receive(t), UNCHANGED envVars
      PROVE  InSame(u) /\ ~Receive(u)
  <2>1. ~Receive(u)
    <3>1. u # t => pc'[u] = pc[u]
      BY <1>0, <1>3
         DEF Thread, Check, TryLock, ReceiveEmpty, Unlock, Service, StoreCount,
             Regular, SkipOwn, LockOut, SendOut, UnlockOut, EndBroadcast,
             ClearBuff, Goto
    <3> QED
      BY <1>1, <1>3, <3>1
  <2>2. CASE SendOut(t)
    <3>1. PICK v \in Slot : que_no[t] = Out(v) /\ v # t
      BY <1>0, <2>2, TargetQueue DEF SendOut
    <3>2. \/ ques' = ques
          \/ ques' = [ques EXCEPT ![Out(v)] =
                        Put(ques[Out(v)], PRIO_REGULAR_MSG, msg_buff[t])]
      BY <2>2, <3>1 DEF SendOut
    <3>3. ques'[In(u)] = ques[In(u)]
      BY <1>0, <3>2, QueuesDistinct
    <3> QED
      BY <1>3, <2>1, <3>3 DEF InSame, Regulars, envVars
  <2>3. CASE ~SendOut(t)
    <3>1. UNCHANGED <<ques, sent>>
      BY <1>3, <2>3
         DEF Thread, Check, TryLock, ReceiveEmpty, Unlock, Service, StoreCount,
             Regular, SkipOwn, LockOut, UnlockOut, EndBroadcast, ClearBuff,
             envVars
    <3> QED
      BY <2>1, <3>1 DEF InSame, Regulars
  <2> QED
    BY <2>2, <2>3
<1>4. ASSUME UNCHANGED <<ques, envVars, threadVars>>
      PROVE  InSame(u) /\ ~Receive(u)
  BY <1>1, <1>4 DEF InSame, Regulars, envVars, threadVars
<1>5. ASSUME NEW c \in Slot, AnyClient(c)
      PROVE  (InSame(u) /\ ~Receive(u)) \/ InSaid(u)
  <2>1. ~Receive(u)
    <3>1. pc' = pc
      BY <1>5 DEF AnyClient, ClientSays, ClientAnnounces, ClientHears,
         serverVars, threadVars
    <3> QED
      BY <1>1, <3>1
  <2>2. CASE ClientHears(c)
    <3>1. /\ ques' = [ques EXCEPT ![Out(c)] = Rest(ques[Out(c)])]
          /\ sent' = sent
      BY <2>2 DEF ClientHears
    <3> QED
      BY <1>0, <2>1, <3>1, QueuesDistinct DEF InSame, Regulars
  <2> QED
    BY <1>0, <1>5, <2>1, <2>2, SaidMoves DEF AnyClient
<1> QED
  BY <1>2, <1>3, <1>4, <1>5 DEF ServerSideNext, Server, ServerMain,
     ServerInterrupt, ServerStopThreads, Cleanup, serverSideVars, serverVars

\* What a step does to a slot's outgoing queue: nothing, another thread's
\* mq_send() of the word in its hand, or the client's mq_receive()
\* (server.c:283, client.c:240).
LEMMA OutMoves ==
  ASSUME ServerIInv, FifoInv, HandInv, [ServerSideNext]_serverSideVars,
         NEW j \in Slot
  PROVE  LET s == Regulars(Out(j)) IN
         \/ Regulars(Out(j))' = s
         \/ \E t \in Slot : /\ InHand(t) /\ msg_buff[t] \in Message
                            /\ Regulars(Out(j))' = Append(s, msg_buff[t])
         \/ s # << >> /\ Regulars(Out(j))' = Tail(s)
<1> DEFINE s == Regulars(Out(j))
<1>0. /\ ServerTypeOK /\ LoopInv /\ NoStaleDispatch
      /\ ques \in [Queue -> [Prio -> Seq(Message)]]
      /\ ques[Out(j)] \in [Prio -> Seq(Message)]
      /\ s = ques[Out(j)][PRIO_REGULAR_MSG]
  BY RegularsType DEF ServerIInv, ServerTypeOK, Regulars
<1>1. ASSUME NEW t \in Slot, SendOut(t)
      PROVE  \/ Regulars(Out(j))' = s
             \/ /\ InHand(t) /\ msg_buff[t] \in Message
                /\ Regulars(Out(j))' = Append(s, msg_buff[t])
  <2>1. PICK v \in Slot : que_no[t] = Out(v) /\ v # t
    BY <1>0, <1>1, TargetQueue DEF SendOut
  <2>2. InHand(t) /\ msg_buff[t] \in Message
    BY <1>0, <1>1 DEF SendOut, HandInv, NoStaleDispatch
  <2>3. \/ ques' = ques
        \/ ques' = [ques EXCEPT ![Out(v)] =
                      Put(ques[Out(v)], PRIO_REGULAR_MSG, msg_buff[t])]
    BY <1>1, <2>1 DEF SendOut
  <2>4. CASE ques' = ques \/ v # j
    BY <1>0, <2>3, <2>4, QueuesDistinct DEF Regulars
  <2>5. CASE ques' # ques /\ v = j
    <3> DEFINE q == ques[Out(j)]
               m == msg_buff[t]
    <3>1. ques'[Out(j)] = Put(q, PRIO_REGULAR_MSG, m)
      BY <1>0, <2>3, <2>5, QueuesDistinct
    <3>2. /\ q \in [Prio -> Seq(Message)] /\ m \in Message
          /\ s = q[PRIO_REGULAR_MSG]
      BY <1>0, <2>2
    <3>3. Put(q, PRIO_REGULAR_MSG, m)[PRIO_REGULAR_MSG] = Append(s, m)
      <4> HIDE DEF q, m, s
      <4> QED
        BY <3>2, PutElems
    <3> QED
      BY <2>2, <3>1, <3>3 DEF Regulars
  <2> QED
    BY <2>4, <2>5
<1>2. ASSUME NEW t \in Slot, Thread(t), ~SendOut(t), UNCHANGED envVars
      PROVE  Regulars(Out(j))' = s
  <2>1. CASE Receive(t)
    <3>1. ques' = [ques EXCEPT ![In(t)] = Rest(ques[In(t)])]
      BY <2>1 DEF Receive
    <3> QED
      BY <1>0, <3>1, QueuesDistinct DEF Regulars
  <2>2. CASE ~Receive(t)
    <3>1. UNCHANGED ques
      BY <1>2, <2>2
         DEF Thread, Check, TryLock, ReceiveEmpty, Unlock, Service, StoreCount,
             Regular, SkipOwn, LockOut, UnlockOut, EndBroadcast, ClearBuff
    <3> QED
      BY <3>1 DEF Regulars
  <2> QED
    BY <2>1, <2>2
<1>3. ASSUME UNCHANGED ques PROVE Regulars(Out(j))' = s
  BY <1>3 DEF Regulars
<1>4. ASSUME NEW c \in Slot, ClientSays(c) \/ ClientAnnounces(c)
      PROVE  Regulars(Out(j))' = s
  BY <1>0, <1>4, QueuesDistinct DEF ClientSays, ClientAnnounces, Regulars
<1>5. ASSUME NEW c \in Slot, ClientHears(c)
      PROVE  \/ Regulars(Out(j))' = s
             \/ s # << >> /\ Regulars(Out(j))' = Tail(s)
  <2>1. /\ ques' = [ques EXCEPT ![Out(c)] = Rest(ques[Out(c)])]
        /\ ~NoMessage(ques[Out(c)])
    BY <1>5 DEF ClientHears
  <2>2. CASE c # j
    BY <1>0, <2>1, <2>2, QueuesDistinct DEF Regulars
  <2>3. CASE c = j
    <3>1. s # << >> /\ Rest(ques[Out(j)])[PRIO_REGULAR_MSG] = Tail(s)
      BY <1>0, <2>1, <2>3, HeardMessage
    <3> QED
      BY <1>0, <2>1, <2>3, <3>1, QueuesDistinct DEF Regulars
  <2> QED
    BY <2>2, <2>3
<1> QED
  BY <1>1, <1>2, <1>3, <1>4, <1>5 DEF ServerSideNext, Server, ServerMain,
     ServerInterrupt, ServerStopThreads, Cleanup, AnyClient, serverSideVars,
     serverVars

\* What a step does to a thread's buffer.  That a trylock never fails is used
\* here: a thread without a message cannot get to the dispatch.
LEMMA BufferMoves ==
  ASSUME ServerIInv, [ServerSideNext]_serverSideVars, NEW t \in Slot
  PROVE  /\ Idle(t)' => Idle(t) \/ ~dirty'[t]
         /\ InHand(t)' => \/ Receive(t)
                          \/ InHand(t) /\ msg_buff'[t] = msg_buff[t]
         /\ InHand(t)' => dirty'[t] = dirty[t]
         /\ dirty'[t] => dirty[t]
         /\ Receive(t) => Idle(t) /\ ~Idle(t)'
         /\ Receive(t) /\ ~dirty[t] => msg_buff'[t].tail = "clean"
         /\ Idle(t)' \/ InHand(t)' => ~(Service(t) /\ UNCHANGED envVars)
<1> DEFINE Moves ==
      /\ Idle(t)' => Idle(t) \/ ~dirty'[t]
      /\ InHand(t)' => \/ Receive(t)
                       \/ InHand(t) /\ msg_buff'[t] = msg_buff[t]
      /\ InHand(t)' => dirty'[t] = dirty[t]
      /\ dirty'[t] => dirty[t]
<1>0. /\ ServerTypeOK /\ LoopInv /\ MutexInv
      /\ pc \in [Slot -> ThreadPc] /\ prio \in [Slot -> Prio \cup {NoPrio}]
      /\ dirty \in [Slot -> BOOLEAN]
      /\ msg_buff \in [Slot -> Message \cup {NoMsg}]
  BY DEF ServerIInv, ServerTypeOK
<1>1. ASSUME Thread(t) PROVE Moves
  <2>1. pc[t] = "trylock" => mutex_ques[In(t)] = Nobody
    BY <1>0, TryLockSucceeds
  <2>2. CASE Check(t) \/ TryLock(t) \/ ReceiveEmpty(t) \/ Unlock(t)
    BY <1>0, <2>1, <2>2
       DEF Check, TryLock, ReceiveEmpty, Unlock, Goto, InHand, Idle
  <2>3. CASE Receive(t)
    BY <1>0, <2>3 DEF Receive, Goto, InHand, Idle
  <2>4. CASE Service(t) \/ StoreCount(t) \/ Regular(t)
    BY <1>0, <2>4 DEF Service, StoreCount, Regular, Goto, InHand, Idle
  <2>5. CASE SkipOwn(t) \/ LockOut(t) \/ SendOut(t) \/ UnlockOut(t)
    BY <1>0, <2>5
       DEF SkipOwn, LockOut, SendOut, UnlockOut, Goto, InHand, Idle
  <2>6. CASE EndBroadcast(t)
    BY <1>0, <2>6 DEF EndBroadcast, Goto, InHand, Idle
  <2>7. CASE ClearBuff(t)
    BY <1>0, <2>7 DEF ClearBuff, Goto, InHand, Idle
  <2> QED
    BY <1>1, <2>2, <2>3, <2>4, <2>5, <2>6, <2>7 DEF Thread
<1>2. ASSUME UNCHANGED <<pc[t], prio[t], dirty[t], msg_buff[t]>> PROVE Moves
  BY <1>2 DEF InHand, Idle
<1>3. ASSUME NEW u \in Slot, Thread(u), u # t
      PROVE  UNCHANGED <<pc[t], prio[t], dirty[t], msg_buff[t]>>
  BY <1>0, <1>3
     DEF Thread, Check, TryLock, Receive, ReceiveEmpty, Unlock, Service,
         StoreCount, Regular, SkipOwn, LockOut, SendOut, UnlockOut,
         EndBroadcast, ClearBuff, Goto
<1>4. Moves
  BY <1>1, <1>2, <1>3 DEF ServerSideNext, Server, ServerMain, ServerInterrupt,
     ServerStopThreads, Cleanup, AnyClient, ClientSays, ClientAnnounces,
     ClientHears, serverSideVars, serverVars, threadVars
<1>5. Receive(t) => Idle(t) /\ ~Idle(t)'
  BY <1>0 DEF Receive, Goto, Idle
<1>6. ASSUME Receive(t), ~dirty[t] PROVE msg_buff'[t].tail = "clean"
  <2>1. Front(ques[In(t)]) \in Message
    BY <1>0, <1>6, RegularsType, FrontRestType DEF Receive
  <2>2. msg_buff'[t] = [Front(ques[In(t)]) EXCEPT !.tail = "clean"]
    BY <1>0, <1>6 DEF Receive, TailAfterReceive
  <2> QED
    BY <2>1, <2>2 DEF Message
<1>7. Service(t) => ~Idle(t)' /\ ~InHand(t)'
  BY <1>0 DEF Service, Goto, Idle, InHand
<1> QED
  BY <1>4, <1>5, <1>6, <1>7

\* Initially nothing has been sent.
LEMMA FirstInit == ServerSideInit => FirstInv
<1> SUFFICES ASSUME ServerSideInit PROVE FirstInv
  OBVIOUS
<1>1. \A i \in Slot : /\ Regulars(In(i)) = << >> /\ Regulars(Out(i)) = << >>
                      /\ ques[In(i)][PRIO_SERVICE_MSG] = << >>
  BY QueuesDistinct DEF ServerSideInit, ClientsInit, EmptyQueue, Regulars, Prio
<1>2. \A i \in Slot : /\ pc[i] = "check" /\ sent[i] = 0 /\ announced[i] = 0
                      /\ ~InHand(i)
  BY DEF ServerSideInit, ServerInit, ClientsInit, InHand
<1>3. ASSUME NEW i \in Slot PROVE Applied(i) = 0
  <2>1. /\ pc[i] = "check" /\ announced[i] = 0
        /\ ques[In(i)][PRIO_SERVICE_MSG] = << >>
    BY <1>1, <1>2
  <2>2. Unapplied(i) = 0
    BY <2>1 DEF Unapplied
  <2> QED
    BY <2>1, <2>2 DEF Applied
<1> QED
  BY <1>1, <1>2, <1>3
     DEF FirstInv, Gapless, Untouched, HandFirst, OutFirst

\* A queue grows by the next word and loses its first.
LEMMA GaplessStep ==
  ASSUME ServerIInv, Gapless, [ServerSideNext]_serverSideVars
  PROVE  Gapless'
<1> SUFFICES ASSUME NEW u \in Slot
             PROVE  LET s == Regulars(In(u)) IN
                    \A k \in DOMAIN s' : s'[k].n = sent'[u] - Len(s') + k
  BY DEF Gapless
<1> DEFINE s == Regulars(In(u))
           N == sent[u]
<1>1. s \in Seq(Message) /\ N \in Nat
  BY RegularsType DEF ServerIInv, ServerTypeOK
<1>2. \A k \in DOMAIN s : s[k].n = N - Len(s) + k
  BY DEF Gapless
<1>3. CASE InSame(u)
  BY <1>2, <1>3 DEF InSame
<1>4. CASE InSaid(u)
  <2> DEFINE m == RegularMsg(u, N + 1)
  <2>1. m \in Message /\ m.n = N + 1
    BY <1>1, RegularType DEF RegularMsg
  <2>2. s' = Append(s, m) /\ sent'[u] = N + 1
    BY <1>4 DEF InSaid
  <2> HIDE DEF s, m, N
  <2>3. /\ DOMAIN s = 1 .. Len(s) /\ Len(s) \in Nat
        /\ DOMAIN Append(s, m) = 1 .. Len(s) + 1
        /\ Len(Append(s, m)) = Len(s) + 1
        /\ \A k \in DOMAIN s : Append(s, m)[k] = s[k]
        /\ Append(s, m)[Len(s) + 1] = m
    BY <1>1, <2>1, AppendElems
  <2>4. ASSUME NEW k \in DOMAIN s'
        PROVE  s'[k].n = sent'[u] - Len(s') + k
    <3>1. CASE k = Len(s) + 1
      BY <1>1, <2>1, <2>2, <2>3, <3>1
    <3>2. CASE k # Len(s) + 1
      <4>1. k \in DOMAIN s /\ k \in Int
        BY <2>2, <2>3, <2>4, <3>2
      <4>2. s'[k].n = N - Len(s) + k
        BY <1>2, <2>2, <2>3, <4>1
      <4> QED
        BY <1>1, <2>2, <2>3, <4>1, <4>2
    <3> QED
      BY <3>1, <3>2
  <2> QED
    BY <2>4 DEF s
<1>5. CASE InTaken(u)
  <2>1. s # << >> /\ s' = Tail(s) /\ sent'[u] = N
    BY <1>5 DEF InTaken
  <2> HIDE DEF s, N
  <2>2. /\ DOMAIN s = 1 .. Len(s) /\ Len(s) \in Nat \ {0}
        /\ DOMAIN Tail(s) = 1 .. Len(s) - 1
        /\ Len(Tail(s)) = Len(s) - 1
        /\ \A k \in DOMAIN Tail(s) : Tail(s)[k] = s[k + 1]
    BY <1>1, <2>1, TailElems
  <2>3. ASSUME NEW k \in DOMAIN s'
        PROVE  s'[k].n = sent'[u] - Len(s') + k
    <3>1. k \in Nat /\ k + 1 \in DOMAIN s /\ s'[k] = s[k + 1]
      BY <2>1, <2>2
    <3>2. s'[k].n = N - Len(s) + (k + 1)
      BY <1>2, <3>1
    <3> QED
      BY <1>1, <2>1, <2>2, <3>1, <3>2
  <2> QED
    BY <2>3 DEF s
<1> QED
  BY <1>3, <1>4, <1>5, InMoves

\* A thread applies a service message only by its own dispatch.
LEMMA AppliedMoves ==
  ASSUME ServerIInv, [ServerSideNext]_serverSideVars, NEW u \in Slot,
         ~(Service(u) /\ UNCHANGED envVars)
  PROVE  Applied(u)' = Applied(u)
<1>1. ASSUME NEW t \in Slot, Service(t), UNCHANGED envVars
      PROVE  Applied(u)' = Applied(u)
  BY <1>1, ServiceApplied DEF ServerIInv
<1>2. ASSUME \A t \in Slot : ~(Service(t) /\ UNCHANGED envVars)
      PROVE  Applied(u)' = Applied(u)
  BY <1>2, AppliedStep
<1> QED
  BY <1>1, <1>2

\* A thread that has received nothing leaves all its client sent in the queue.
LEMMA UntouchedStep ==
  ASSUME ServerIInv, Untouched, [ServerSideNext]_serverSideVars
  PROVE  Untouched'
<1> SUFFICES ASSUME NEW t \in Slot, dirty'[t], Idle(t)'
             PROVE  Len(Regulars(In(t)))' = sent'[t] /\ Applied(t)' = 0
  BY DEF Untouched
<1> DEFINE s == Regulars(In(t))
<1>1. /\ dirty[t] /\ Idle(t) /\ ~Receive(t)
      /\ ~(Service(t) /\ UNCHANGED envVars)
  BY BufferMoves
<1>2. Len(s) = sent[t] /\ Applied(t)' = 0
  BY <1>1, AppliedMoves DEF Untouched
<1>3. s \in Seq(Message) /\ sent[t] \in Nat
  BY RegularsType DEF ServerIInv, ServerTypeOK
<1>4. CASE InSame(t)
  BY <1>2, <1>4 DEF InSame
<1>5. CASE InSaid(t)
  <2> DEFINE m == RegularMsg(t, sent[t] + 1)
  <2>1. m \in Message /\ s' = Append(s, m) /\ sent'[t] = sent[t] + 1
    BY <1>3, <1>5, RegularType DEF InSaid
  <2> HIDE DEF s, m
  <2>2. Len(Append(s, m)) = Len(s) + 1
    BY <1>3, <2>1
  <2> QED
    BY <1>2, <2>1, <2>2 DEF s
<1> QED
  BY <1>1, <1>4, <1>5, InMoves DEF InTaken

\* A thread with a dirty buffer that receives a word receives the first one.
LEMMA HandFirstStep ==
  ASSUME ServerIInv, FirstInv, [ServerSideNext]_serverSideVars
  PROVE  HandFirst'
<1> SUFFICES ASSUME NEW t \in Slot, InHand(t)'
             PROVE  IF dirty'[t]
                      THEN msg_buff'[t].n = 1 /\ Applied(t)' = 0
                      ELSE msg_buff'[t].tail = "clean"
  BY DEF HandFirst
<1> DEFINE s == Regulars(In(t))
<1>1. /\ dirty'[t] = dirty[t]
      /\ Receive(t) \/ (InHand(t) /\ msg_buff'[t] = msg_buff[t])
      /\ ~(Service(t) /\ UNCHANGED envVars)
  BY BufferMoves
<1>2. Applied(t)' = Applied(t)
  BY <1>1, AppliedMoves
<1>3. CASE ~Receive(t)
  BY <1>1, <1>2, <1>3 DEF FirstInv, HandFirst
<1>4. CASE Receive(t)
  <2>1. pc[t] = "receive" /\ pc'[t] = "unlock" /\ Idle(t)
    BY <1>4 DEF Receive, Goto, Idle, ServerIInv, ServerTypeOK
  <2>2. InTaken(t)
    <3>1. prio'[t] # PRIO_SERVICE_MSG
      BY DEF InHand, PRIO_SERVICE_MSG, PRIO_REGULAR_MSG
    <3>2. ~InSaid(t)
      BY <2>1 DEF InSaid, threadVars
    <3> QED
      BY <1>4, <3>1, <3>2, InMoves
  <2>3. CASE dirty[t]
    <3>1. Len(s) = sent[t] /\ Applied(t) = 0
      BY <2>1, <2>3 DEF FirstInv, Untouched
    <3>2. s \in Seq(Message) /\ s # << >> /\ sent[t] \in Nat
      BY <2>2, RegularsType DEF InTaken, ServerIInv, ServerTypeOK
    <3>3. 1 \in DOMAIN s
      <4> HIDE DEF s
      <4> QED
        BY <3>2, TailElems
    <3>4. s[1].n = sent[t] - Len(s) + 1
      BY <3>3 DEF FirstInv, Gapless
    <3>5. msg_buff'[t].n = 1
      BY <2>2, <3>1, <3>2, <3>4 DEF InTaken
    <3> QED
      BY <1>1, <1>2, <2>3, <3>1, <3>5
  <2>4. CASE ~dirty[t]
    BY <1>1, <1>4, <2>4, BufferMoves
  <2> QED
    BY <2>3, <2>4
<1> QED
  BY <1>3, <1>4

\* Copies are made of words in hand.
LEMMA OutFirstStep ==
  ASSUME ServerIInv, FifoInv, HandInv, FirstInv,
         [ServerSideNext]_serverSideVars
  PROVE  OutFirst'
<1> SUFFICES ASSUME NEW j \in Slot
             PROVE  LET s == Regulars(Out(j)) IN
                    \A k \in DOMAIN s' : s'[k].tail # "clean" => s'[k].n = 1
  BY DEF OutFirst
<1> DEFINE s == Regulars(Out(j))
<1>1. s \in Seq(Message)
  BY RegularsType DEF ServerIInv
<1>2. \A k \in DOMAIN s : s[k].tail # "clean" => s[k].n = 1
  BY DEF FirstInv, OutFirst
<1>3. CASE s' = s
  BY <1>2, <1>3
<1>4. ASSUME NEW t \in Slot, InHand(t), msg_buff[t] \in Message,
             s' = Append(s, msg_buff[t])
      PROVE  \A k \in DOMAIN s' : s'[k].tail # "clean" => s'[k].n = 1
  <2> DEFINE m == msg_buff[t]
  <2>1. m.tail # "clean" => m.n = 1
    BY <1>4 DEF FirstInv, HandFirst
  <2>2. m \in Message /\ s' = Append(s, m)
    BY <1>4
  <2> HIDE DEF s, m
  <2>3. /\ DOMAIN s = 1 .. Len(s) /\ Len(s) \in Nat
        /\ DOMAIN Append(s, m) = 1 .. Len(s) + 1
        /\ \A k \in DOMAIN s : Append(s, m)[k] = s[k]
        /\ Append(s, m)[Len(s) + 1] = m
    BY <1>1, <2>2, AppendElems
  <2>4. \A k \in DOMAIN Append(s, m) : k \in DOMAIN s \/ k = Len(s) + 1
    BY <2>3
  <2> QED
    BY <1>2, <2>1, <2>2, <2>3, <2>4
<1>5. CASE s # << >> /\ s' = Tail(s)
  <2> HIDE DEF s
  <2>1. /\ DOMAIN s = 1 .. Len(s) /\ Len(s) \in Nat \ {0}
        /\ DOMAIN Tail(s) = 1 .. Len(s) - 1
        /\ \A k \in DOMAIN Tail(s) : Tail(s)[k] = s[k + 1]
    BY <1>1, <1>5, TailElems
  <2>2. \A k \in DOMAIN Tail(s) : k + 1 \in DOMAIN s
    BY <2>1
  <2>3. \A k \in DOMAIN s' : s'[k].tail # "clean" => s'[k].n = 1
    BY <1>2, <1>5, <2>1, <2>2
  <2> QED
    BY <2>3 DEF s
<1> QED
  BY <1>3, <1>4, <1>5, OutMoves

\* Every step keeps it.
LEMMA FirstStep ==
  ServerIInv /\ FifoInv /\ HandInv /\ FirstInv
    /\ [ServerSideNext]_serverSideVars => FirstInv'
BY GaplessStep, UntouchedStep, HandFirstStep, OutFirstStep DEF FirstInv

\* What the property says of a damaged word.
LEMMA FirstImplies ==
  ServerTypeOK /\ FirstInv => LeftoverOnlyFirst
<1> SUFFICES ASSUME ServerTypeOK, FirstInv PROVE LeftoverOnlyFirst
  OBVIOUS
<1>1. ASSUME NEW t \in Slot, InHand(t), msg_buff[t].tail # "clean"
      PROVE  msg_buff[t].n = 1 /\ Unapplied(t) = announced[t]
  <2>1. msg_buff[t].n = 1 /\ Applied(t) = 0
    BY <1>1 DEF FirstInv, HandFirst
  <2>2. Unapplied(t) \in Nat /\ announced[t] \in Nat
    BY UnappliedIs
  <2> QED
    BY <2>1, <2>2 DEF Applied
<1> QED
  BY <1>1 DEF LeftoverOnlyFirst, FirstInv, OutFirst

\* The memset at server.c:289 is enough: whatever the stack held when a slot's
\* thread began, it can spoil or block its client's first word and no other.
THEOREM LeftoverHarmsFirst == ServerSideSpec => []LeftoverOnlyFirst
<1>1. ServerSideInit => FirstInv /\ HandInv
  BY FirstInit, HandInit
<1>2. ServerIInv /\ FifoInv /\ HandInv /\ FirstInv
        /\ [ServerSideNext]_serverSideVars => HandInv' /\ FirstInv'
  BY HandStep, FirstStep DEF ServerIInv
<1>3. ServerIInv /\ FirstInv => LeftoverOnlyFirst
  BY FirstImplies DEF ServerIInv
<1> QED
  BY ServerInvariance, FifoCorrect, <1>1, <1>2, <1>3, PTL DEF ServerSideSpec
=============================================================================
