---------------------------- MODULE MqChatProofs ----------------------------
(***************************************************************************)
(* Proofs about the message-queue chat as a whole, for any number of       *)
(* clients, words and launches and any queue length.  Each program does to *)
(* the queues only what the other one's module assumes of its environment  *)
(* (ServerView, ClientView).  Neither view can be proved before the other: *)
(* the server keeps the order of words that enter its queues numbered, the *)
(* clients number them, and the bounds of the environments hold because a  *)
(* client types and is launched so often.  So one invariant joins those of *)
(* the two programs (ChatInv), and every step of the chat is a step of     *)
(* both environments' modules from a state that satisfies it.  What was    *)
(* proved of each program alone then holds of the chat.                    *)
(***************************************************************************)
EXTENDS MqChat, MqChatServerProofs, MqChatClientProofs

-----------------------------------------------------------------------------
(* The invariant.                                                          *)

\* A client announces its start once a launch and its end once after it, and
\* the server removes the queues' names when it exits, not before.
BoundInv ==
  /\ \A c \in Slot :
       /\ typed[c] <= MaxTyped[c] /\ runs[c] <= MaxRuns[c]
       /\ announced[c] <= 2 * runs[c]
       /\ client_pc[c] = "connect" => announced[c] + 2 <= 2 * runs[c]
       /\ client_pc[c] = "loop" => announced[c] + 1 <= 2 * runs[c]
  /\ main_pc # "exit" => open

\* What the two programs keep, each in the environment of the other.
ChatInv == /\ ServerIInv /\ FifoInv /\ HandInv
           /\ ClientIInv
           /\ BoundInv

\* The chat starts as both modules' initial states say.
LEMMA ChatStarts == Init => ServerSideInit /\ ClientSideInit /\ BoundInv
<1> SUFFICES ASSUME Init PROVE ServerSideInit /\ ClientSideInit /\ BoundInv
  OBVIOUS
<1>1. ServerSideInit
  BY DEF Init, ServerSideInit, ClientsInit, ClientInit
<1>2. ClientSideInit
  BY DEF Init, ClientSideInit, ServerInit, ServerEnvInit
<1>3. BoundInv
  BY ClientAssumption DEF Init, BoundInv, ServerInit, ClientInit
<1> QED
  BY <1>1, <1>2, <1>3

\* What the invariants of the two programs say of a word and of the buffers.
LEMMA ChatTypes ==
  ASSUME ChatInv, NEW c \in Slot
  PROVE  /\ ServerTypeOK /\ ClientTypeOK
         /\ sent[c] \in Nat /\ announced[c] \in Nat /\ runs[c] \in Nat
         /\ typed[c] \in Nat /\ MaxTyped[c] \in Nat /\ MaxRuns[c] \in Nat
         /\ MaxRegular[c] \in Nat /\ MaxService[c] \in Nat
         /\ sent[c] <= MaxTyped[c]
<1>1. ServerTypeOK /\ ClientTypeOK
  BY DEF ChatInv, ServerIInv, ClientIInv
<1>2. /\ sent[c] \in Nat /\ announced[c] \in Nat /\ runs[c] \in Nat
      /\ typed[c] \in Nat
  BY <1>1 DEF ClientTypeOK
<1>3. /\ MaxTyped[c] \in Nat /\ MaxRuns[c] \in Nat
      /\ MaxRegular[c] \in Nat /\ MaxService[c] \in Nat
  BY ServerAssumption, ClientAssumption
<1>4. typed[c] = sent[c] \/ typed[c] = sent[c] + 1
  BY DEF ChatInv, ClientIInv, WordInv
<1>5. typed[c] <= MaxTyped[c]
  BY DEF ChatInv, BoundInv
<1> QED
  BY <1>1, <1>2, <1>3, <1>4, <1>5

-----------------------------------------------------------------------------
(* What the server sees of the clients.                                    *)

\* mq_send() of a word (client.c:204): it is the one after those sent, and the
\* client has typed it.
LEMMA PostIsSay ==
  ASSUME ChatInv, NEW c \in Slot, SendPost(c), UNCHANGED serverVars
  PROVE  ClientSays(c)
<1>1. send_pc[c] = "send"
  BY DEF SendPost
<1>2. /\ client_pc[c] \notin Ended /\ WordInHand(c)
      /\ typed[c] = sent[c] + 1 /\ msg_buff_send[c] = typed[c]
  BY <1>1 DEF ChatInv, ClientIInv, LifeInv, FlagInv, WordInv, WordInHand
<1>3. typed[c] <= MaxTyped[c] /\ MaxTyped[c] <= MaxRegular[c]
  BY ChatAssumption DEF ChatInv, BoundInv
<1>4. sent[c] < MaxRegular[c]
  BY <1>2, <1>3, ChatTypes
<1> QED
  BY <1>2, <1>4 DEF SendPost, ClientSays

\* The start and the end of a run are announced once each (client.c:119, 150).
LEMMA AnnounceIsService ==
  ASSUME ChatInv, NEW c \in Slot, Announce(c), ~Full(ques[In(c)]),
         client_pc[c] \in {"connect", "loop"},
         UNCHANGED <<serverVars, sent, heard>>
  PROVE  ClientAnnounces(c)
<1>1. announced[c] + 1 <= 2 * runs[c] /\ runs[c] <= MaxRuns[c]
  BY ChatTypes DEF ChatInv, BoundInv
<1>2. 2 * MaxRuns[c] <= MaxService[c]
  BY ChatAssumption
<1>3. announced[c] < MaxService[c]
  BY <1>1, <1>2, ChatTypes
<1> QED
  BY <1>3 DEF Announce, ClientAnnounces

\* A step of the chat is, for the server, a step of its own or of the clients
\* that its module assumes.
LEMMA ServerSees ==
  ChatInv /\ [Next]_vars => [ServerSideNext]_serverSideVars
<1> SUFFICES ASSUME ChatInv, [Next]_vars
             PROVE  ServerSideNext \/ UNCHANGED serverSideVars
  OBVIOUS
<1>1. CASE Server /\ UNCHANGED clientVars
  BY <1>1 DEF ServerSideNext, clientVars, historyVars, envVars
<1>2. ASSUME NEW c \in Slot, Client(c), UNCHANGED serverVars
      PROVE  ServerSideNext \/ UNCHANGED serverSideVars
  <2>1. CASE SendPost(c)
    BY <1>2, <2>1, PostIsSay DEF ServerSideNext, AnyClient
  <2>2. CASE Connect(c)
    <3>1. ClientAnnounces(c)
      BY <1>2, <2>2, AnnounceIsService DEF Connect
    <3> QED
      BY <3>1 DEF ServerSideNext, AnyClient
  <2>3. CASE Disconnect(c)
    <3>1. CASE Full(ques[In(c)])
      BY <1>2, <2>3, <3>1 DEF Disconnect, serverSideVars, envVars
    <3>2. CASE ~Full(ques[In(c)])
      <4>1. ClientAnnounces(c)
        BY <1>2, <2>3, <3>2, AnnounceIsService DEF Disconnect
      <4> QED
        BY <4>1 DEF ServerSideNext, AnyClient
    <3> QED
      BY <3>1, <3>2
  <2>4. CASE RecvTake(c)
    BY <1>2, <2>4 DEF RecvTake, ClientHears, ServerSideNext, AnyClient
  <2>5. CASE User(c) \/ ConnectFails(c) \/ ClientStopThreads(c) \/ End(c)
    BY <1>2, <2>5
       DEF User, Launch, ClientInterrupt, Type, ConnectFails,
           ClientStopThreads, End, historyVars, serverSideVars, envVars
  <2>6. CASE SendThread(c) /\ ~SendPost(c)
    BY <1>2, <2>6
       DEF SendThread, SendCheck, SendIdle, SendTake, SendRefused, SendClear,
           SendRelease, historyVars, serverSideVars, envVars
  <2>7. CASE ScanfThread(c) \/ RecvCheck(c) \/ RecvEmpty(c)
    BY <1>2, <2>7
       DEF ScanfThread, ScanfCheck, ScanfPoll, ScanfRaise, RecvCheck,
           RecvEmpty, historyVars, serverSideVars, envVars
  <2> QED
    BY <1>2, <2>1, <2>2, <2>3, <2>4, <2>5, <2>6, <2>7
       DEF Client, ClientMain, RecvThread
<1>3. CASE UNCHANGED vars
  BY <1>3 DEF vars, clientVars, historyVars, serverSideVars, envVars
<1> QED
  BY <1>1, <1>2, <1>3 DEF Next

-----------------------------------------------------------------------------
(* What a client sees of the server.                                       *)

\* mq_send() of a copy (server.c:283): it is newer than all its sender's
\* messages that have reached the other slot.
LEMMA SendIsGive ==
  ASSUME ChatInv, NEW t \in Slot, SendOut(t), ~SendFails(t),
         UNCHANGED clientVars
  PROVE  \E u \in Slot : ServerGives(u, t)
<1>1. ServerTypeOK /\ LoopInv /\ NoStaleDispatch /\ pc[t] = "send"
  BY DEF ChatInv, ServerIInv, SendOut
<1>2. PICK u \in Slot : que_no[t] = Out(u) /\ u # t
  BY <1>1, TargetQueue
<1> DEFINE m == msg_buff[t]
<1>3. m \in Message /\ InHand(t) /\ ~Given(t, u)
  BY <1>1, <1>2
     DEF NoStaleDispatch, ChatInv, HandInv, Given, Out, Slot
<1>4. m.from = t /\ m.n <= sent[t] /\ 0 < m.n
  BY <1>3 DEF ChatInv, FifoInv, HandOrdered
<1>5. \A n \in Past(t, u) : n < m.n
  BY <1>3 DEF ChatInv, FifoInv, PastOrdered
<1>6. m.n \in 1 .. MaxGiven
  <2>1. m.n \in Nat
    BY <1>3 DEF Message
  <2>2. sent[t] <= MaxTyped[t] /\ MaxTyped[t] <= MaxGiven
    BY ChatTypes, ChatAssumption
  <2> QED
    BY <1>4, <2>1, <2>2, ChatTypes, ClientAssumption
<1>7. ~Full(ques[Out(u)]) /\ m.tail \in {"clean", "garbage"}
  BY <1>2, <1>3 DEF SendFails, Message, Tail256
<1>8. ques' = [ques EXCEPT ![Out(u)] = Put(@, PRIO_REGULAR_MSG, m)]
  BY <1>2 DEF SendOut
<1>9. [RegularMsg(t, m.n) EXCEPT !.tail = m.tail] = m
  BY <1>3, <1>4 DEF RegularMsg, Message
<1>10. UNCHANGED <<open, clientVars>>
  BY DEF SendOut, mainVars
<1> HIDE DEF m
<1>11. ServerGives(u, t)
  BY <1>2, <1>5, <1>6, <1>7, <1>8, <1>9, <1>10
     DEF ServerGives, Past, Regulars
<1> QED
  BY <1>11

\* A step of the chat is, for the clients, a step of theirs or of the server
\* that their module assumes.
LEMMA ClientSees ==
  ChatInv /\ [Next]_vars => [ClientSideNext]_clientSideVars
<1> SUFFICES ASSUME ChatInv, [Next]_vars
             PROVE  ClientSideNext \/ UNCHANGED clientSideVars
  OBVIOUS
<1>1. ASSUME NEW t \in Slot, Thread(t), UNCHANGED clientVars
      PROVE  ClientSideNext \/ UNCHANGED clientSideVars
  <2>1. CASE Receive(t)
    <3>1. ServerTakes(t)
      BY <1>1, <2>1 DEF Receive, ServerTakes, mainVars
    <3> QED
      BY <3>1 DEF ClientSideNext, Env
  <2>2. CASE SendOut(t) /\ ~SendFails(t)
    BY <1>1, <2>2, SendIsGive DEF ClientSideNext, Env
  <2>3. CASE SendOut(t) /\ SendFails(t)
    BY <1>1, <2>3 DEF SendOut, mainVars, clientSideVars
  <2>4. CASE ~Receive(t) /\ ~SendOut(t)
    BY <1>1, <2>4
       DEF Thread, Check, TryLock, ReceiveEmpty, Unlock, Service, StoreCount,
           Regular, SkipOwn, LockOut, UnlockOut, EndBroadcast, ClearBuff,
           mainVars, clientSideVars
  <2> QED
    BY <2>1, <2>2, <2>3, <2>4
<1>2. CASE ServerMain /\ UNCHANGED clientVars
  <2>1. CASE Cleanup
    <3>1. open
      BY <2>1 DEF Cleanup, ChatInv, BoundInv
    <3>2. ServerEnds
      BY <1>2, <2>1, <3>1 DEF Cleanup, ServerEnds
    <3> QED
      BY <3>2 DEF ClientSideNext, Env
  <2>2. CASE ServerInterrupt \/ ServerStopThreads
    BY <1>2, <2>2 DEF ServerInterrupt, ServerStopThreads, clientSideVars
  <2> QED
    BY <1>2, <2>1, <2>2 DEF ServerMain
<1>3. ASSUME NEW c \in Slot, Client(c), UNCHANGED serverVars
      PROVE  ClientSideNext
  BY <1>3 DEF ClientSideNext, serverVars, mainVars
<1>4. CASE UNCHANGED vars
  BY <1>4 DEF vars, serverVars, mainVars, clientSideVars
<1> QED
  BY <1>1, <1>2, <1>3, <1>4 DEF Next, Server

-----------------------------------------------------------------------------
(* The invariant holds.                                                    *)

\* Every step keeps the bounds.
LEMMA BoundStep == ChatInv /\ [Next]_vars => BoundInv'
<1> SUFFICES ASSUME ChatInv, [Next]_vars PROVE BoundInv'
  OBVIOUS
<1>0. BoundInv /\ \A c \in Slot : /\ MaxTyped[c] \in Nat /\ MaxRuns[c] \in Nat
                                  /\ sent[c] <= MaxTyped[c]
  BY ChatTypes DEF ChatInv
<1>1. CASE UNCHANGED clientVars /\ (Server \/ UNCHANGED serverVars)
  <2>1. UNCHANGED <<typed, runs, announced, client_pc>>
    BY <1>1 DEF clientVars, procVars, historyVars
  <2>2. (main_pc # "exit" => open)'
    <3>1. ASSUME NEW t \in Slot, Thread(t) PROVE UNCHANGED mainVars
      BY <3>1 DEF Thread, Check, TryLock, Receive, ReceiveEmpty, Unlock,
         Service, StoreCount, Regular, SkipOwn, LockOut, SendOut, UnlockOut,
         EndBroadcast, ClearBuff
    <3>2. CASE ServerMain
      BY <1>0, <3>2 DEF ServerMain, ServerInterrupt, ServerStopThreads,
         Cleanup, BoundInv
    <3> QED
      BY <1>0, <1>1, <3>1, <3>2 DEF Server, serverVars, mainVars, BoundInv
  <2> QED
    BY <1>0, <2>1, <2>2 DEF BoundInv
<1>2. ASSUME NEW c \in Slot, Client(c), UNCHANGED serverVars PROVE BoundInv'
  <2>0. /\ \A d \in Slot : /\ announced[d] \in Nat /\ runs[d] \in Nat
                           /\ typed[d] \in Nat
        /\ DOMAIN announced = Slot /\ DOMAIN runs = Slot
        /\ DOMAIN typed = Slot /\ DOMAIN client_pc = Slot
        /\ UNCHANGED <<main_pc, open>>
    BY <1>2, ChatTypes
       DEF ChatInv, ClientIInv, ClientTypeOK, serverVars, mainVars
  <2> USE <1>0, <2>0 DEF BoundInv
  <2>1. CASE Launch(c)
    BY <2>1 DEF Launch, Ended
  <2>2. CASE Type(c)
    BY <2>2 DEF Type, procVars
  <2>3. CASE Connect(c)
    BY <2>3 DEF Connect, Announce
  <2>4. CASE Disconnect(c)
    BY <2>4 DEF Disconnect, Announce
  <2>5. CASE End(c)
    BY <2>5 DEF End
  <2>6. CASE ConnectFails(c) \/ ClientInterrupt(c) \/ ClientStopThreads(c)
    BY <2>6 DEF ConnectFails, ClientInterrupt, ClientStopThreads, historyVars
  <2>7. CASE SendThread(c)
    BY <2>7 DEF SendThread, SendCheck, SendIdle, SendTake, SendPost,
       SendRefused, SendClear, SendRelease, procVars, historyVars
  <2>8. CASE ScanfThread(c) \/ RecvThread(c)
    BY <2>8 DEF ScanfThread, ScanfCheck, ScanfPoll, ScanfRaise, RecvThread,
       RecvCheck, RecvTake, RecvEmpty, procVars, historyVars
  <2> QED
    BY <1>2, <2>1, <2>2, <2>3, <2>4, <2>5, <2>6, <2>7, <2>8
       DEF Client, User, ClientMain
<1> QED
  BY <1>1, <1>2 DEF Next, vars

\* Every step keeps the joint invariant: it is a step of both modules.
LEMMA ChatStep == ChatInv /\ [Next]_vars => ChatInv'
BY ServerSees, ClientSees, BoundStep, ServerInvStep, FifoStep, HandStep,
   ClientInvStep DEF ChatInv, ServerIInv

\* The joint invariant holds in every reachable state of the chat.
THEOREM ChatInvariance == Spec => []ChatInv
<1>1. Init => ChatInv
  BY ChatStarts, ServerInvInit, FifoInit, HandInit, ClientInvInit DEF ChatInv
<1> QED
  BY <1>1, ChatStep, PTL DEF Spec

-----------------------------------------------------------------------------
(* The theorems.                                                           *)

\* The clients (client.c) do to the queues only what MqChatServer assumes of
\* its environment: words numbered 1, 2, 3... and at most two announcements a
\* launch.
THEOREM ServerSeesClients == Spec => ServerView
<1>1. Init => ServerSideInit
  BY ChatStarts
<1> QED
  BY <1>1, ChatInvariance, ServerSees, PTL
     DEF Spec, ServerView, ServerSideSpec

\* The server (server.c) does to the queues only what MqChatClient assumes of
\* its environment: each slot's words reach another in order, none twice.
THEOREM ClientSeesServer == Spec => ClientView
<1>1. Init => ClientSideInit
  BY ChatStarts
<1> QED
  BY <1>1, ChatInvariance, ClientSees, PTL
     DEF Spec, ClientView, ClientSideSpec

\* Server and real clients together are a common room: a word is heard in the
\* order in which it was posted, by others only and never twice.
THEOREM ChatIsChatRoom == Spec => IsChatRoom
BY ServerSeesClients, ServerImplementsChatRoom DEF ServerView

\* The flag of a slot is the parity of its client's applied announcements,
\* whatever the real clients do.
THEOREM ChatFlag == Spec => []FlagIsParity
BY ServerSeesClients, FlagFollows DEF ServerView

\* Against the real server, too, a client's two threads never use msg_scanf
\* together and its words enter its queue each once and in order
\* (client.c:194-228).
THEOREM ChatClientsCorrect == Spec => [](HandOff /\ EachWordOnce)
BY ClientSeesServer, HandOffWorks, PostsEachOnce, PTL DEF ClientView
=============================================================================
