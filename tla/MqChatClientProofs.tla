------------------------- MODULE MqChatClientProofs -------------------------
(***************************************************************************)
(* Proofs about the message-queue chat client, for any number of slots,    *)
(* words and launches and any queue length: the hand-off of a word from    *)
(* the keyboard thread to the sending thread, and its way into the queue.  *)
(***************************************************************************)
EXTENDS MqChatClient, TLAPS

\* A client that does not run has no threads, and a new one has no word.
LifeInv ==
  \A c \in Slot :
    /\ client_pc[c] \in Ended \cup {"connect"} =>
         send_pc[c] = "none" /\ recv_pc[c] = "none" /\ scanf_pc[c] = "none"
    /\ client_pc[c] = "connect" => scanf_flag[c] = 0

\* The flag says which of the two threads may use msg_scanf.
FlagInv ==
  \A c \in Slot :
    /\ scanf_pc[c] \in {"scan", "raise"} => scanf_flag[c] = 0
    /\ send_pc[c] \in {"send", "clear", "release"} => scanf_flag[c] = 1

\* Whether a word was typed and not yet posted.
WordInHand(c) ==
  \/ scanf_pc[c] = "raise"
  \/ scanf_flag[c] = 1 /\ send_pc[c] \notin {"clear", "release"}

\* The word in hand is the one after those posted: it is in msg_scanf, and in
\* msg_buff_send from the first attempt to send it to the last.
WordInv ==
  \A c \in Slot :
    /\ client_pc[c] \in Ended => typed[c] = sent[c]
    /\ client_pc[c] \notin Ended /\ ~WordInHand(c) =>
         typed[c] = sent[c] /\ mq_send_res[c] = 0
    /\ client_pc[c] \notin Ended /\ WordInHand(c) =>
         /\ typed[c] = sent[c] + 1
         /\ msg_scanf[c] = typed[c]
         /\ scanf_pc[c] = "raise" => mq_send_res[c] = 0
         /\ mq_send_res[c] = -1 \/ send_pc[c] = "send" =>
              msg_buff_send[c] = typed[c]

\* The words in the queue are the last ones posted, in order.
Words(c)  == ques[In(c)][PRIO_REGULAR_MSG]
QueuedInv == \A c \in Slot : \A k \in DOMAIN Words(c) :
               Words(c)[k] = RegularMsg(c, sent[c] - Len(Words(c)) + k)

ClientIInv == ClientTypeOK /\ LifeInv /\ FlagInv /\ WordInv /\ QueuedInv

-----------------------------------------------------------------------------
(* The queues.                                                             *)

\* Putting a message in a queue gives a queue (client.c:119, 204).
LEMMA PutIsQueue ==
  ASSUME NEW q \in [Prio -> Seq(Message)], NEW p \in Prio, NEW m \in Message
  PROVE  Put(q, p, m) \in [Prio -> Seq(Message)]
BY DEF Put

\* Receiving gives a message and leaves a queue (client.c:242).
LEMMA FrontRestTypes ==
  ASSUME NEW q \in [Prio -> Seq(Message)], ~NoMessage(q)
  PROVE  Front(q) \in Message /\ Rest(q) \in [Prio -> Seq(Message)]
<1>1. PICK p \in Prio : p = TopPrio(q) /\ q[p] # << >>
  BY DEF NoMessage, TopPrio, Prio, PRIO_REGULAR_MSG, PRIO_SERVICE_MSG
<1>2. Head(q[p]) \in Message /\ Tail(q[p]) \in Seq(Message)
  BY <1>1
<1>3. [q EXCEPT ![p] = Tail(@)] \in [Prio -> Seq(Message)]
  BY <1>2
<1> QED BY <1>1, <1>2, <1>3 DEF Front, Rest

\* Every slot has its own two queues, and what is sent is a message.
LEMMA QueueTypes ==
  /\ \A c \in Slot : In(c) \in Queue /\ Out(c) \in Queue
  /\ \A c, d \in Slot : In(c) # Out(d) /\ (In(c) = In(d) => c = d)
  /\ \A c \in Slot, n \in Nat : RegularMsg(c, n) \in Message
  /\ \A c \in Slot : ServiceMsg(c) \in Message
  /\ PRIO_SERVICE_MSG \in Prio /\ PRIO_REGULAR_MSG \in Prio
BY ClientsAssumption DEF Slot, Queue, In, Out, RegularMsg, ServiceMsg, Message,
   Tail256, Prio

-----------------------------------------------------------------------------
(* The invariant.                                                          *)

\* The initial state satisfies the invariant.
LEMMA ClientInvInit == ClientSideInit => ClientIInv
<1> SUFFICES ASSUME ClientSideInit PROVE ClientIInv
  OBVIOUS
<1> USE ClientsAssumption DEF ClientSideInit, ClientInit, ServerEnvInit
<1>1. ClientTypeOK
  BY DEF ClientTypeOK, EmptyQueue, Ended, Nothing
<1>2. LifeInv /\ FlagInv /\ WordInv
  BY DEF LifeInv, FlagInv, WordInv, WordInHand, Ended
<1>3. QueuedInv
  BY QueueTypes DEF QueuedInv, Words, EmptyQueue
<1> QED BY <1>1, <1>2, <1>3 DEF ClientIInv

\* Every step keeps the types.
LEMMA ClientTypeStep ==
  ClientIInv /\ [ClientSideNext]_clientSideVars => ClientTypeOK'
<1> SUFFICES ASSUME ClientIInv, [ClientSideNext]_clientSideVars
             PROVE  ClientTypeOK'
  OBVIOUS
<1> USE DEF ClientIInv
<1>1. CASE Env
  <2>1. CASE ServerEnds
    BY <2>1 DEF ServerEnds, clientVars, procVars, sendVars, scanfVars,
       historyVars, ClientTypeOK
  <2>2. ASSUME NEW c \in Slot, ServerTakes(c) PROVE ClientTypeOK'
    <3>1. Rest(ques[In(c)]) \in [Prio -> Seq(Message)]
      BY <2>2, QueueTypes, FrontRestTypes DEF ServerTakes, ClientTypeOK
    <3> QED BY <2>2, <3>1 DEF ServerTakes, clientVars, procVars, sendVars,
               scanfVars, historyVars, ClientTypeOK
  <2>3. ASSUME NEW j \in Slot, NEW d \in Slot, ServerGives(j, d)
        PROVE  ClientTypeOK'
    <3>1. PICK n \in 1 .. MaxGiven, tl \in {"clean", "garbage"} :
            ques' = [ques EXCEPT ![Out(j)] =
                       Put(@, PRIO_REGULAR_MSG,
                           [RegularMsg(d, n) EXCEPT !.tail = tl])]
      BY <2>3 DEF ServerGives
    <3>2. [RegularMsg(d, n) EXCEPT !.tail = tl] \in Message
      BY DEF RegularMsg, Message, Tail256
    <3>3. ques' \in [Queue -> [Prio -> Seq(Message)]]
      BY <3>1, <3>2, QueueTypes, PutIsQueue DEF ClientTypeOK
    <3> QED BY <2>3, <3>3 DEF ServerGives, clientVars, procVars, sendVars,
               scanfVars, historyVars, ClientTypeOK
  <2> QED BY <1>1, <2>1, <2>2, <2>3 DEF Env
<1>2. ASSUME NEW c \in Slot, Client(c) PROVE ClientTypeOK'
  <2>1. CASE Launch(c)
    BY <2>1, SMTT(15) DEF Launch, Nothing, ClientTypeOK, Ended
  <2>2. CASE ClientInterrupt(c)
    BY <2>2 DEF ClientInterrupt, sendVars, scanfVars, historyVars,
       ClientTypeOK, Ended
  <2>3. CASE Type(c)
    BY <2>3, SMTT(15) DEF Type, procVars, sendVars, ScanfGoto, ClientTypeOK,
       Ended
  <2>4. CASE Connect(c)
    <3>1. ques' \in [Queue -> [Prio -> Seq(Message)]]
      BY <2>4, QueueTypes, PutIsQueue DEF Connect, Announce, ClientTypeOK
    <3>2. announced' \in [Slot -> Nat]
      BY <2>4 DEF Connect, Announce, ClientTypeOK
    <3> QED BY <2>4, <3>1, <3>2 DEF Connect, ClientTypeOK, Ended
  <2>5. CASE ConnectFails(c)
    BY <2>5 DEF ConnectFails, sendVars, scanfVars, historyVars, ClientTypeOK,
       Ended
  <2>6. CASE Disconnect(c)
    <3>1. CASE Full(ques[In(c)])
      BY <2>6, <3>1 DEF Disconnect, Full, sendVars, scanfVars, ClientTypeOK,
         Ended
    <3>2. CASE ~Full(ques[In(c)])
      <4>1. Announce(c)
        BY <2>6, <3>2, Zenon DEF Disconnect
      <4>2. ques' \in [Queue -> [Prio -> Seq(Message)]]
        BY <4>1, QueueTypes, PutIsQueue DEF Announce, ClientTypeOK
      <4>3. announced' \in [Slot -> Nat]
        BY <4>1 DEF Announce, ClientTypeOK
      <4> QED BY <2>6, <4>2, <4>3 DEF Disconnect, sendVars, scanfVars,
         ClientTypeOK, Ended
    <3> QED BY <3>1, <3>2
  <2>7. CASE ClientStopThreads(c)
    BY <2>7 DEF ClientStopThreads, sendVars, scanfVars, historyVars,
       ClientTypeOK, Ended
  <2>8. CASE End(c)
    BY <2>8 DEF End, ClientTypeOK, Ended
  <2>9. CASE SendCheck(c)
    BY <2>9 DEF SendCheck, procVars, scanfVars, historyVars, SendGoto,
       ClientTypeOK, Ended
  <2>10. CASE SendIdle(c)
    BY <2>10 DEF SendIdle, procVars, scanfVars, historyVars, SendGoto,
       ClientTypeOK, Ended
  <2>11. CASE SendTake(c)
    BY <2>11 DEF SendTake, procVars, scanfVars, historyVars, SendGoto,
       ClientTypeOK, Ended
  <2>12. CASE SendPost(c)
    <3>1. ques' \in [Queue -> [Prio -> Seq(Message)]]
      BY <2>12, QueueTypes, PutIsQueue DEF SendPost, ClientTypeOK
    <3>2. sent' \in [Slot -> Nat]
      BY <2>12 DEF SendPost, ClientTypeOK
    <3> QED BY <2>12, <3>1, <3>2 DEF SendPost, SendGoto, procVars, scanfVars,
       ClientTypeOK
  <2>13. CASE SendRefused(c)
    BY <2>13 DEF SendRefused, procVars, scanfVars, historyVars, SendGoto,
       ClientTypeOK, Ended
  <2>14. CASE SendClear(c)
    BY <2>14 DEF SendClear, Nothing, procVars, historyVars, SendGoto,
       ClientTypeOK, Ended
  <2>15. CASE SendRelease(c)
    BY <2>15 DEF SendRelease, procVars, historyVars, SendGoto, ClientTypeOK,
       Ended
  <2>16. CASE ScanfCheck(c)
    BY <2>16 DEF ScanfCheck, procVars, sendVars, historyVars, ScanfGoto,
       ClientTypeOK, Ended
  <2>17. CASE ScanfPoll(c)
    BY <2>17 DEF ScanfPoll, procVars, sendVars, historyVars, ScanfGoto,
       ClientTypeOK, Ended
  <2>18. CASE ScanfRaise(c)
    BY <2>18 DEF ScanfRaise, procVars, sendVars, historyVars, ScanfGoto,
       ClientTypeOK, Ended
  <2>19. CASE RecvCheck(c)
    BY <2>19 DEF RecvCheck, procVars, sendVars, scanfVars, historyVars,
       ClientTypeOK, Ended
  <2>20. CASE RecvTake(c)
    <3>1. /\ Rest(ques[Out(c)]) \in [Prio -> Seq(Message)]
          /\ Front(ques[Out(c)]) \in Message
      BY <2>20, QueueTypes, FrontRestTypes DEF RecvTake, ClientTypeOK
    <3>2. PICK m \in Message : heard' = [heard EXCEPT ![c][m.from] = m.n]
      BY <2>20, <3>1 DEF RecvTake
    <3>3. m.from \in Slot /\ m.n \in Nat
      BY DEF Message
    <3>4. heard' \in [Slot -> [Slot -> Nat]]
      BY <3>2, <3>3 DEF ClientTypeOK
    <3> QED BY <2>20, <3>1, <3>4 DEF RecvTake, procVars, sendVars, scanfVars,
       ClientTypeOK
  <2>21. CASE RecvEmpty(c)
    BY <2>21 DEF RecvEmpty, procVars, sendVars, scanfVars, historyVars,
       ClientTypeOK, Ended
  <2> QED BY <1>2, <2>1, <2>2, <2>3, <2>4, <2>5, <2>6, <2>7, <2>8, <2>9,
     <2>10, <2>11, <2>12, <2>13, <2>14, <2>15, <2>16, <2>17, <2>18, <2>19,
     <2>20, <2>21
     DEF Client, User, ClientMain, SendThread, ScanfThread, RecvThread
<1>3. CASE UNCHANGED clientSideVars
  BY <1>3 DEF clientSideVars, clientVars, procVars, sendVars, scanfVars,
     historyVars, ClientTypeOK, Ended
<1> QED BY <1>1, <1>2, <1>3 DEF ClientSideNext

\* Every step keeps that threads belong to a client that runs.
LEMMA LifeStep == ClientIInv /\ [ClientSideNext]_clientSideVars => LifeInv'
<1> SUFFICES ASSUME ClientIInv, [ClientSideNext]_clientSideVars PROVE LifeInv'
  OBVIOUS
<1> USE DEF ClientIInv
<1>1. CASE Env
  BY <1>1 DEF Env, ServerEnds, ServerTakes, ServerGives, clientVars, procVars,
     sendVars, scanfVars, ClientTypeOK, LifeInv, Ended
<1>2. ASSUME NEW c \in Slot, Client(c) PROVE LifeInv'
  <2>1. CASE Launch(c)
    BY <2>1 DEF Launch, Nothing, ClientTypeOK, LifeInv, Ended
  <2>2. CASE ClientInterrupt(c)
    BY <2>2 DEF ClientInterrupt, sendVars, scanfVars, ClientTypeOK, LifeInv,
       Ended
  <2>3. CASE Type(c)
    BY <2>3 DEF Type, procVars, sendVars, ScanfGoto, ClientTypeOK, LifeInv,
       Ended
  <2>4. CASE Connect(c)
    BY <2>4 DEF Connect, ClientTypeOK, LifeInv, Ended
  <2>5. CASE ConnectFails(c)
    BY <2>5 DEF ConnectFails, sendVars, scanfVars, ClientTypeOK, LifeInv, Ended
  <2>6. CASE Disconnect(c)
    BY <2>6 DEF Disconnect, sendVars, scanfVars, ClientTypeOK, LifeInv, Ended
  <2>7. CASE ClientStopThreads(c)
    BY <2>7 DEF ClientStopThreads, sendVars, scanfVars, ClientTypeOK, LifeInv,
       Ended
  <2>8. CASE End(c)
    BY <2>8 DEF End, ClientTypeOK, LifeInv, Ended
  <2>9. CASE SendCheck(c)
    BY <2>9 DEF SendCheck, procVars, scanfVars, SendGoto, ClientTypeOK,
       LifeInv, Ended
  <2>10. CASE SendIdle(c)
    BY <2>10 DEF SendIdle, procVars, scanfVars, SendGoto, ClientTypeOK,
       LifeInv, Ended
  <2>11. CASE SendTake(c)
    BY <2>11 DEF SendTake, procVars, scanfVars, SendGoto, ClientTypeOK,
       LifeInv, Ended
  <2>12. CASE SendPost(c)
    BY <2>12 DEF SendPost, procVars, scanfVars, SendGoto, ClientTypeOK,
       LifeInv, Ended
  <2>13. CASE SendRefused(c)
    BY <2>13 DEF SendRefused, procVars, scanfVars, SendGoto, ClientTypeOK,
       LifeInv, Ended
  <2>14. CASE SendClear(c)
    BY <2>14 DEF SendClear, Nothing, procVars, SendGoto, ClientTypeOK, LifeInv,
       Ended
  <2>15. CASE SendRelease(c)
    BY <2>15 DEF SendRelease, procVars, SendGoto, ClientTypeOK, LifeInv, Ended
  <2>16. CASE ScanfCheck(c)
    BY <2>16 DEF ScanfCheck, procVars, sendVars, ScanfGoto, ClientTypeOK,
       LifeInv, Ended
  <2>17. CASE ScanfPoll(c)
    BY <2>17 DEF ScanfPoll, procVars, sendVars, ScanfGoto, ClientTypeOK,
       LifeInv, Ended
  <2>18. CASE ScanfRaise(c)
    BY <2>18 DEF ScanfRaise, procVars, sendVars, ScanfGoto, ClientTypeOK,
       LifeInv, Ended
  <2>19. CASE RecvCheck(c)
    BY <2>19 DEF RecvCheck, procVars, sendVars, scanfVars, ClientTypeOK,
       LifeInv, Ended
  <2>20. CASE RecvTake(c)
    BY <2>20 DEF RecvTake, procVars, sendVars, scanfVars, ClientTypeOK,
       LifeInv, Ended
  <2>21. CASE RecvEmpty(c)
    BY <2>21 DEF RecvEmpty, procVars, sendVars, scanfVars, ClientTypeOK,
       LifeInv, Ended
  <2> QED BY <1>2, <2>1, <2>2, <2>3, <2>4, <2>5, <2>6, <2>7, <2>8, <2>9,
     <2>10, <2>11, <2>12, <2>13, <2>14, <2>15, <2>16, <2>17, <2>18, <2>19,
     <2>20, <2>21
     DEF Client, User, ClientMain, SendThread, ScanfThread, RecvThread
<1>3. CASE UNCHANGED clientSideVars
  BY <1>3 DEF clientSideVars, clientVars, procVars, sendVars, scanfVars,
     ClientTypeOK, LifeInv, Ended
<1> QED BY <1>1, <1>2, <1>3 DEF ClientSideNext

\* Every step keeps what the flag says.
LEMMA FlagStep == ClientIInv /\ [ClientSideNext]_clientSideVars => FlagInv'
<1> SUFFICES ASSUME ClientIInv, [ClientSideNext]_clientSideVars PROVE FlagInv'
  OBVIOUS
<1> USE DEF ClientIInv
<1>1. CASE Env
  BY <1>1 DEF Env, ServerEnds, ServerTakes, ServerGives, clientVars, procVars,
     sendVars, scanfVars, ClientTypeOK, LifeInv, FlagInv, Ended
<1>2. ASSUME NEW c \in Slot, Client(c) PROVE FlagInv'
  <2>1. CASE Launch(c)
    BY <2>1 DEF Launch, Nothing, ClientTypeOK, LifeInv, FlagInv, Ended
  <2>2. CASE ClientInterrupt(c)
    BY <2>2 DEF ClientInterrupt, sendVars, scanfVars, ClientTypeOK, LifeInv,
       FlagInv, Ended
  <2>3. CASE Type(c)
    BY <2>3 DEF Type, procVars, sendVars, ScanfGoto, ClientTypeOK, LifeInv,
       FlagInv, Ended
  <2>4. CASE Connect(c)
    BY <2>4 DEF Connect, ClientTypeOK, LifeInv, FlagInv, Ended
  <2>5. CASE ConnectFails(c)
    BY <2>5 DEF ConnectFails, sendVars, scanfVars, ClientTypeOK, LifeInv,
       FlagInv, Ended
  <2>6. CASE Disconnect(c)
    BY <2>6 DEF Disconnect, sendVars, scanfVars, ClientTypeOK, LifeInv,
       FlagInv, Ended
  <2>7. CASE ClientStopThreads(c)
    BY <2>7 DEF ClientStopThreads, sendVars, scanfVars, ClientTypeOK, LifeInv,
       FlagInv, Ended
  <2>8. CASE End(c)
    BY <2>8 DEF End, ClientTypeOK, LifeInv, FlagInv, Ended
  <2>9. CASE SendCheck(c)
    BY <2>9 DEF SendCheck, procVars, scanfVars, SendGoto, ClientTypeOK,
       LifeInv, FlagInv, Ended
  <2>10. CASE SendIdle(c)
    BY <2>10 DEF SendIdle, procVars, scanfVars, SendGoto, ClientTypeOK,
       LifeInv, FlagInv, Ended
  <2>11. CASE SendTake(c)
    BY <2>11 DEF SendTake, procVars, scanfVars, SendGoto, ClientTypeOK,
       LifeInv, FlagInv, Ended
  <2>12. CASE SendPost(c)
    BY <2>12 DEF SendPost, procVars, scanfVars, SendGoto, ClientTypeOK,
       LifeInv, FlagInv, Ended
  <2>13. CASE SendRefused(c)
    BY <2>13 DEF SendRefused, procVars, scanfVars, SendGoto, ClientTypeOK,
       LifeInv, FlagInv, Ended
  <2>14. CASE SendClear(c)
    BY <2>14 DEF SendClear, Nothing, procVars, SendGoto, ClientTypeOK, LifeInv,
       FlagInv, Ended
  <2>15. CASE SendRelease(c)
    BY <2>15 DEF SendRelease, procVars, SendGoto, ClientTypeOK, LifeInv,
       FlagInv, Ended
  <2>16. CASE ScanfCheck(c)
    BY <2>16 DEF ScanfCheck, procVars, sendVars, ScanfGoto, ClientTypeOK,
       LifeInv, FlagInv, Ended
  <2>17. CASE ScanfPoll(c)
    BY <2>17 DEF ScanfPoll, procVars, sendVars, ScanfGoto, ClientTypeOK,
       LifeInv, FlagInv, Ended
  <2>18. CASE ScanfRaise(c)
    BY <2>18 DEF ScanfRaise, procVars, sendVars, ScanfGoto, ClientTypeOK,
       LifeInv, FlagInv, Ended
  <2>19. CASE RecvCheck(c)
    BY <2>19 DEF RecvCheck, procVars, sendVars, scanfVars, ClientTypeOK,
       LifeInv, FlagInv, Ended
  <2>20. CASE RecvTake(c)
    BY <2>20 DEF RecvTake, procVars, sendVars, scanfVars, ClientTypeOK,
       LifeInv, FlagInv, Ended
  <2>21. CASE RecvEmpty(c)
    BY <2>21 DEF RecvEmpty, procVars, sendVars, scanfVars, ClientTypeOK,
       LifeInv, FlagInv, Ended
  <2> QED BY <1>2, <2>1, <2>2, <2>3, <2>4, <2>5, <2>6, <2>7, <2>8, <2>9,
     <2>10, <2>11, <2>12, <2>13, <2>14, <2>15, <2>16, <2>17, <2>18, <2>19,
     <2>20, <2>21
     DEF Client, User, ClientMain, SendThread, ScanfThread, RecvThread
<1>3. CASE UNCHANGED clientSideVars
  BY <1>3 DEF clientSideVars, clientVars, procVars, sendVars, scanfVars,
     ClientTypeOK, LifeInv, FlagInv, Ended
<1> QED BY <1>1, <1>2, <1>3 DEF ClientSideNext

\* Every step keeps where the word in hand is.
LEMMA WordStep == ClientIInv /\ [ClientSideNext]_clientSideVars => WordInv'
<1> SUFFICES ASSUME ClientIInv, [ClientSideNext]_clientSideVars PROVE WordInv'
  OBVIOUS
<1>0. /\ DOMAIN client_pc = Slot /\ DOMAIN send_pc = Slot
      /\ DOMAIN scanf_pc = Slot /\ DOMAIN mq_send_res = Slot
      /\ DOMAIN msg_buff_send = Slot /\ DOMAIN msg_scanf = Slot
      /\ DOMAIN scanf_flag = Slot /\ DOMAIN typed = Slot
      /\ DOMAIN sent = Slot
  BY DEF ClientIInv, ClientTypeOK
<1> USE <1>0 DEF ClientIInv
<1>1. CASE Env
  BY <1>1 DEF Env, ServerEnds, ServerTakes, ServerGives, clientVars, procVars,
     sendVars, scanfVars, historyVars, LifeInv, FlagInv, WordInv,
     WordInHand, Ended
<1>2. ASSUME NEW c \in Slot, Client(c) PROVE WordInv'
  <2>1. CASE Launch(c)
    BY <2>1 DEF Launch, Nothing, LifeInv, FlagInv, WordInv, WordInHand,
       Ended
  <2>2. CASE ClientInterrupt(c)
    BY <2>2 DEF ClientInterrupt, sendVars, scanfVars, historyVars, LifeInv,
       FlagInv, WordInv, WordInHand, Ended
  <2>3. CASE Type(c)
    <3>1. /\ scanf_pc[c] = "scan" /\ scanf_flag[c] = 0
          /\ client_pc[c] \notin Ended
          /\ typed[c] = sent[c] /\ mq_send_res[c] = 0
          /\ send_pc[c] # "send"
      BY <2>3 DEF Type, LifeInv, FlagInv, WordInv, WordInHand
    <3>2. /\ typed' = [typed EXCEPT ![c] = sent[c] + 1]
          /\ msg_scanf' = [msg_scanf EXCEPT ![c] = sent[c] + 1]
          /\ scanf_pc' = [scanf_pc EXCEPT ![c] = "raise"]
          /\ UNCHANGED <<client_pc, sent, scanf_flag, send_pc, mq_send_res>>
          /\ UNCHANGED msg_buff_send
      BY <2>3, <3>1 DEF Type, ScanfGoto, procVars, sendVars
    <3> QED BY <3>1, <3>2 DEF WordInv, WordInHand
  <2>4. CASE Connect(c)
    BY <2>4 DEF Connect, LifeInv, FlagInv, WordInv, WordInHand, Ended
  <2>5. CASE ConnectFails(c)
    BY <2>5 DEF ConnectFails, sendVars, scanfVars, historyVars, LifeInv,
       FlagInv, WordInv, WordInHand, Ended
  <2>6. CASE Disconnect(c)
    BY <2>6 DEF Disconnect, sendVars, scanfVars, LifeInv, FlagInv,
       WordInv, WordInHand, Ended
  <2>7. CASE ClientStopThreads(c)
    BY <2>7 DEF ClientStopThreads, sendVars, scanfVars, historyVars,
       LifeInv, FlagInv, WordInv, WordInHand, Ended
  <2>8. CASE End(c)
    BY <2>8 DEF End, LifeInv, FlagInv, WordInv, WordInHand, Ended
  <2>9. CASE SendCheck(c)
    BY <2>9 DEF SendCheck, procVars, scanfVars, historyVars, SendGoto,
       LifeInv, FlagInv, WordInv, WordInHand, Ended
  <2>10. CASE SendIdle(c)
    BY <2>10 DEF SendIdle, procVars, scanfVars, historyVars, SendGoto,
       LifeInv, FlagInv, WordInv, WordInHand, Ended
  <2>11. CASE SendTake(c)
    <3>1. /\ WordInHand(c) /\ client_pc[c] \notin Ended
          /\ msg_scanf[c] = typed[c]
          /\ mq_send_res[c] = -1 => msg_buff_send[c] = typed[c]
      BY <2>11 DEF SendTake, LifeInv, WordInv, WordInHand
    <3>2. /\ send_pc' = [send_pc EXCEPT ![c] = "send"]
          /\ UNCHANGED <<client_pc, sent, scanf_flag, scanf_pc, mq_send_res>>
          /\ UNCHANGED <<typed, msg_scanf>>
          /\ msg_buff_send' = [msg_buff_send EXCEPT ![c] = typed[c]]
      BY <2>11, <3>1 DEF SendTake, ClientTypeOK, SendGoto, procVars, scanfVars,
         historyVars
    <3>3. \A d \in Slot : WordInHand(d)' => WordInHand(d)
      BY <2>11, <3>2 DEF SendTake, WordInHand
    <3> QED BY <2>11, <3>1, <3>2, <3>3 DEF SendTake, WordInv, WordInHand
  <2>12. CASE SendPost(c)
    BY <2>12 DEF SendPost, procVars, scanfVars, SendGoto, LifeInv,
       FlagInv, WordInv, WordInHand, Ended
  <2>13. CASE SendRefused(c)
    BY <2>13 DEF SendRefused, procVars, scanfVars, historyVars, SendGoto,
       LifeInv, FlagInv, WordInv, WordInHand, Ended
  <2>14. CASE SendClear(c)
    BY <2>14 DEF SendClear, Nothing, procVars, historyVars, SendGoto,
       LifeInv, FlagInv, WordInv, WordInHand, Ended
  <2>15. CASE SendRelease(c)
    BY <2>15 DEF SendRelease, procVars, historyVars, SendGoto, LifeInv,
       FlagInv, WordInv, WordInHand, Ended
  <2>16. CASE ScanfCheck(c)
    BY <2>16 DEF ScanfCheck, procVars, sendVars, historyVars, ScanfGoto,
       LifeInv, FlagInv, WordInv, WordInHand, Ended
  <2>17. CASE ScanfPoll(c)
    BY <2>17 DEF ScanfPoll, procVars, sendVars, historyVars, ScanfGoto,
       LifeInv, FlagInv, WordInv, WordInHand, Ended
  <2>18. CASE ScanfRaise(c)
    BY <2>18 DEF ScanfRaise, procVars, sendVars, historyVars, ScanfGoto,
       LifeInv, FlagInv, WordInv, WordInHand, Ended
  <2>19. CASE RecvCheck(c)
    BY <2>19 DEF RecvCheck, procVars, sendVars, scanfVars, historyVars,
       LifeInv, FlagInv, WordInv, WordInHand, Ended
  <2>20. CASE RecvTake(c)
    BY <2>20 DEF RecvTake, procVars, sendVars, scanfVars, LifeInv,
       FlagInv, WordInv, WordInHand, Ended
  <2>21. CASE RecvEmpty(c)
    BY <2>21 DEF RecvEmpty, procVars, sendVars, scanfVars, historyVars,
       LifeInv, FlagInv, WordInv, WordInHand, Ended
  <2> QED BY <1>2, <2>1, <2>2, <2>3, <2>4, <2>5, <2>6, <2>7, <2>8, <2>9,
     <2>10, <2>11, <2>12, <2>13, <2>14, <2>15, <2>16, <2>17, <2>18, <2>19,
     <2>20, <2>21
     DEF Client, User, ClientMain, SendThread, ScanfThread, RecvThread
<1>3. CASE UNCHANGED clientSideVars
  BY <1>3 DEF clientSideVars, clientVars, procVars, sendVars, scanfVars,
     historyVars, LifeInv, FlagInv, WordInv, WordInHand, Ended
<1> QED BY <1>1, <1>2, <1>3 DEF ClientSideNext

\* A step that neither posts nor takes a word of a client keeps the queue.
LEMMA QueuedKept ==
  ASSUME QueuedInv, UNCHANGED sent, \A c \in Slot : Words(c)' = Words(c)
  PROVE  QueuedInv'
BY DEF QueuedInv

\* The next word goes behind the others (client.c:204).
LEMMA QueuedPost ==
  ASSUME ClientIInv, NEW c \in Slot, SendPost(c)
  PROVE  QueuedInv'
<1> DEFINE s == Words(c)
           m == RegularMsg(c, msg_buff_send[c])
<1>1. /\ s \in Seq(Message) /\ ques \in [Queue -> [Prio -> Seq(Message)]]
      /\ sent \in [Slot -> Nat]
  BY QueueTypes DEF ClientIInv, ClientTypeOK, Words
<1>2. msg_buff_send[c] = sent[c] + 1
  BY <1>1 DEF ClientIInv, SendPost, ClientTypeOK, LifeInv, FlagInv, WordInv,
     WordInHand
<1>3. sent' = [sent EXCEPT ![c] = @ + 1]
  BY DEF SendPost
<1>4. Words(c)' = Append(s, m)
  BY <1>1, QueueTypes DEF SendPost, Words, Put
<1>5. \A d \in Slot : d # c => Words(d)' = Words(d)
  BY <1>1, QueueTypes DEF SendPost, Words
<1>6. /\ DOMAIN s = 1 .. Len(s) /\ Len(s) \in Nat
      /\ DOMAIN Append(s, m) = 1 .. Len(s) + 1
      /\ Len(Append(s, m)) = Len(s) + 1
      /\ \A k \in DOMAIN s : Append(s, m)[k] = s[k]
      /\ Append(s, m)[Len(s) + 1] = m
  BY <1>1
<1>7. \A k \in DOMAIN s : s[k] = RegularMsg(c, sent[c] - Len(s) + k)
  BY DEF ClientIInv, QueuedInv
<1> HIDE DEF s
<1>8. \A k \in DOMAIN Append(s, m) :
        Append(s, m)[k] = RegularMsg(c, sent'[c] - (Len(s) + 1) + k)
  <2> SUFFICES ASSUME NEW k \in 1 .. Len(s) + 1
               PROVE  Append(s, m)[k]
                        = RegularMsg(c, sent'[c] - (Len(s) + 1) + k)
    BY <1>6
  <2>1. sent'[c] = sent[c] + 1 /\ sent[c] \in Nat
    BY <1>1, <1>3
  <2>2. CASE k = Len(s) + 1
    <3>1. sent'[c] - (Len(s) + 1) + k = sent[c] + 1
      BY <1>6, <2>1, <2>2
    <3> QED BY <1>2, <1>6, <2>2, <3>1
  <2>3. CASE k \in 1 .. Len(s)
    <3>1. sent'[c] - (Len(s) + 1) + k = sent[c] - Len(s) + k
      BY <1>6, <2>1, <2>3
    <3> QED BY <1>6, <1>7, <2>3, <3>1
  <2> QED BY <1>6, <2>2, <2>3
<1>9. ASSUME NEW d \in Slot, d # c, NEW k \in DOMAIN Words(d)
      PROVE  Words(d)[k] = RegularMsg(d, sent'[d] - Len(Words(d)) + k)
  BY <1>1, <1>3, <1>9 DEF ClientIInv, QueuedInv
<1> QED BY <1>4, <1>5, <1>6, <1>8, <1>9 DEF QueuedInv

\* The server takes the oldest word, or a service message when there is no
\* word (server.c:247).
LEMMA QueuedTake ==
  ASSUME ClientIInv, NEW c \in Slot, ServerTakes(c)
  PROVE  QueuedInv'
<1> DEFINE s == Words(c)
<1>1. /\ s \in Seq(Message) /\ ques \in [Queue -> [Prio -> Seq(Message)]]
      /\ sent \in [Slot -> Nat]
  BY QueueTypes DEF ClientIInv, ClientTypeOK, Words
<1>2. sent' = sent /\ \A d \in Slot : d # c => Words(d)' = Words(d)
  BY <1>1, QueueTypes DEF ServerTakes, Words, clientVars, historyVars
<1>3. \A k \in DOMAIN s : s[k] = RegularMsg(c, sent[c] - Len(s) + k)
  BY DEF ClientIInv, QueuedInv
<1>4. CASE s = << >>
  <2>1. Words(c)' = s
    BY <1>1, <1>4, QueueTypes
       DEF ServerTakes, Words, Rest, TopPrio, PRIO_SERVICE_MSG,
           PRIO_REGULAR_MSG
  <2> QED BY <1>2, <2>1, QueuedKept DEF ClientIInv
<1>5. CASE s # << >>
  <2>1. Words(c)' = Tail(s)
    BY <1>1, <1>5, QueueTypes DEF ServerTakes, Words, Rest, TopPrio
  <2> HIDE DEF s
  <2>2. /\ DOMAIN s = 1 .. Len(s) /\ Len(s) \in Nat \ {0}
        /\ DOMAIN Tail(s) = 1 .. Len(s) - 1
        /\ Len(Tail(s)) = Len(s) - 1
        /\ \A k \in DOMAIN Tail(s) : Tail(s)[k] = s[k + 1]
    BY <1>1, <1>5
  <2>3. ASSUME NEW k \in DOMAIN Tail(s)
        PROVE  Tail(s)[k] = RegularMsg(c, sent[c] - Len(Tail(s)) + k)
    <3>1. k + 1 \in DOMAIN s /\ k \in Nat /\ sent[c] \in Nat
      BY <1>1, <2>2
    <3>2. sent[c] - Len(s) + (k + 1) = sent[c] - Len(Tail(s)) + k
      BY <2>2, <3>1
    <3> QED BY <1>3, <2>2, <3>1, <3>2
  <2> QED BY <1>2, <2>1, <2>3 DEF ClientIInv, QueuedInv
<1> QED BY <1>4, <1>5

\* Every step keeps that the words in the queue are the last ones posted.
LEMMA QueuedStep == ClientIInv /\ [ClientSideNext]_clientSideVars => QueuedInv'
<1> SUFFICES ASSUME ClientIInv, [ClientSideNext]_clientSideVars
             PROVE  QueuedInv'
  OBVIOUS
<1>0. ques \in [Queue -> [Prio -> Seq(Message)]] /\ QueuedInv
  BY DEF ClientIInv, ClientTypeOK
<1>1. CASE Env
  <2>1. CASE ServerEnds
    BY <1>0, <2>1, QueuedKept DEF ServerEnds, Words, clientVars, historyVars
  <2>2. ASSUME NEW j \in Slot, NEW d \in Slot, ServerGives(j, d)
        PROVE  QueuedInv'
    <3>1. PICK x : ques' = [ques EXCEPT ![Out(j)] = x]
      BY <2>2 DEF ServerGives
    <3>2. \A c \in Slot : Words(c)' = Words(c)
      BY <1>0, <3>1, QueueTypes DEF Words
    <3> QED BY <1>0, <2>2, <3>2, QueuedKept
            DEF ServerGives, clientVars, historyVars
  <2> QED BY <1>1, <2>1, <2>2, QueuedTake DEF Env
<1>2. ASSUME NEW c \in Slot, Client(c) PROVE QueuedInv'
  <2>1. CASE SendPost(c)
    BY <2>1, QueuedPost
  <2>2. CASE RecvTake(c)
    <3>1. ques' = [ques EXCEPT ![Out(c)] = Rest(@)] /\ UNCHANGED sent
      BY <2>2 DEF RecvTake
    <3>2. \A d \in Slot : Words(d)' = Words(d)
      BY <1>0, <3>1, QueueTypes DEF Words
    <3> QED BY <1>0, <3>1, <3>2, QueuedKept
  <2>3. CASE Connect(c) \/ Disconnect(c)
    <3>1. UNCHANGED sent /\ (Announce(c) \/ UNCHANGED ques)
      BY <2>3 DEF Connect, Disconnect
    <3>2. ASSUME Announce(c), NEW d \in Slot PROVE Words(d)' = Words(d)
      BY <1>0, <3>2, QueueTypes
         DEF Announce, Words, Put, PRIO_SERVICE_MSG, PRIO_REGULAR_MSG
    <3>3. ASSUME UNCHANGED ques, NEW d \in Slot PROVE Words(d)' = Words(d)
      BY <3>3 DEF Words
    <3> QED BY <1>0, <3>1, <3>2, <3>3, QueuedKept
  <2>4. CASE ~SendPost(c) /\ ~RecvTake(c) /\ ~Connect(c) /\ ~Disconnect(c)
    <3>1. UNCHANGED <<ques, sent>>
      <4>1. CASE User(c) \/ ConnectFails(c) \/ ClientStopThreads(c) \/ End(c)
        BY <4>1 DEF User, Launch, ClientInterrupt, Type, ConnectFails,
           ClientStopThreads, End, historyVars
      <4>2. CASE SendThread(c)
        BY <2>4, <4>2 DEF SendThread, SendCheck, SendIdle, SendTake,
           SendRefused, SendClear, SendRelease, historyVars
      <4>3. CASE ScanfThread(c) \/ RecvThread(c)
        BY <2>4, <4>3 DEF ScanfThread, ScanfCheck, ScanfPoll, ScanfRaise,
           RecvThread, RecvCheck, RecvEmpty, historyVars
      <4> QED BY <1>2, <2>4, <4>1, <4>2, <4>3 DEF Client, ClientMain
    <3> QED BY <1>0, <3>1, QueuedKept DEF Words
  <2> QED BY <2>1, <2>2, <2>3, <2>4
<1>3. CASE UNCHANGED clientSideVars
  BY <1>0, <1>3, QueuedKept DEF clientSideVars, clientVars, historyVars, Words
<1> QED BY <1>1, <1>2, <1>3 DEF ClientSideNext

\* The invariant is inductive.
LEMMA ClientInvStep ==
  ClientIInv /\ [ClientSideNext]_clientSideVars => ClientIInv'
BY ClientTypeStep, LifeStep, FlagStep, WordStep, QueuedStep DEF ClientIInv

\* The invariant holds in every reachable state.
THEOREM ClientInvariance == ClientSideSpec => []ClientIInv
BY ClientInvInit, ClientInvStep, PTL DEF ClientSideSpec

-----------------------------------------------------------------------------
(* The properties.                                                         *)

\* The variables keep their types.
THEOREM ClientTypeCorrect == ClientSideSpec => []ClientTypeOK
<1>1. ClientIInv => ClientTypeOK
  BY DEF ClientIInv
<1> QED BY <1>1, ClientInvariance, PTL

\* The two threads never use msg_scanf together, although no lock protects it.
THEOREM HandOffWorks == ClientSideSpec => []HandOff
<1>1. ClientIInv => HandOff
  BY DEF ClientIInv, FlagInv, HandOff
<1> QED BY <1>1, ClientInvariance, PTL

\* The words posted are those typed, in order and each once.
THEOREM PostsEachOnce == ClientSideSpec => []EachWordOnce
<1>1. ClientIInv => EachWordOnce
  <2> SUFFICES ASSUME ClientIInv PROVE EachWordOnce
    OBVIOUS
  <2>1. ASSUME NEW c \in Slot PROVE typed[c] - sent[c] \in {0, 1}
    <3>1. sent[c] \in Nat
      BY DEF ClientIInv, ClientTypeOK
    <3>2. typed[c] = sent[c] \/ typed[c] = sent[c] + 1
      BY DEF ClientIInv, WordInv
    <3> QED BY <3>1, <3>2
  <2> QED BY <2>1 DEF EachWordOnce, ClientIInv, QueuedInv, Words
<1> QED BY <1>1, ClientInvariance, PTL
=============================================================================
