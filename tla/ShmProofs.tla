----------------------------- MODULE ShmProofs ------------------------------
(***************************************************************************)
(* Theorems about the shared-memory chat, ShmChat: for every number of     *)
(* clients, of words and of launches.                                      *)
(*                                                                         *)
(* TypeOK, InExclusive and NeverDry are not inductive: a thread that       *)
(* copies must be inside its loop (LoopInv), a client that is off must     *)
(* have no thread left inside a critical section (OffInv), and main zeroes *)
(* the regions before there are threads and so before any takes a message  *)
(* (BootInv).  For the mailbox, MailInv says what a client copies (OutInv) *)
(* and what is in an incoming region (TextInv: the text is newer than what *)
(* was taken; WholeInv: once something was taken main zeroes no more, and  *)
(* the message is whole unless the client is just copying it) and that a   *)
(* connected client's new message is whole and was not yet passed on       *)
(* (PassInv).                                                              *)
(***************************************************************************)
EXTENDS ShmChat, TLAPS

LoopInv == \A t \in Slot : /\ pc[t] = "copy" => region_no[t] \in Region
                           /\ locked[t] => pc[t] = "copy"

OffInv == \A c \in Slot : client_pc[c] = "off" =>
            /\ send_pc[c] \in {"none", "done"}
            /\ recv_pc[c] \in {"none", "done"}

BootInv == main_pc = "zero" => \A t \in Slot : pc[t] = "none" /\ times[t] = 0

Copying(c) == MainIn(c) \/ send_pc[c] = "copy"

OutInv == \A c \in Slot : Copying(c) =>
            /\ Whole(msg_out[c]) /\ msg_out[c].text # NoText
            /\ msg_out[c].text.n = written[c] /\ taken[c] < written[c]

TextInv == \A c \in Slot :
             /\ taken[c] <= written[c]
             /\ \/ shmem[In(c)].text = NoText
                \/ /\ shmem[In(c)].text.n > taken[c]
                   /\ shmem[In(c)].text.n <= written[c]

WholeInv == \A c \in Slot : times[c] > 0 =>
              /\ ~Copying(c) => Whole(shmem[In(c)])
              /\ Copying(c) => \A f \in Field \ out_todo[c] :
                                 shmem[In(c)][f] = msg_out[c][f]

PassInv == \A t \in Slot :
             /\ passed[t] <= taken[t]
             /\ flag_connect[t] = 1 => times[t] > 0
             /\ pc[t] \in {"leave", "handle"} =>
                  /\ msg_from_cli[t] # Zero => times[t] > 0
                  /\ IsNew(t) => /\ whole[t] /\ passed[t] < taken[t]
                                 /\ msg_from_cli[t].text.n = taken[t]

MailInv == OutInv /\ TextInv /\ WholeInv /\ PassInv

IInv == TypeOK /\ InExclusive /\ NeverDry /\ LoopInv /\ OffInv /\ BootInv
          /\ MailInv

-----------------------------------------------------------------------------
(* A message is made of a text and a flag, and stays one when the flag is  *)
(* changed: Zero is the empty one.                                         *)
LEMMA MessageTypes ==
  /\ Zero \in Message
  /\ \A m \in Message : m.text.n \in Nat /\ m.flag \in Nat
  /\ \A m \in Message, n \in Nat : [m EXCEPT !.flag = n] \in Message
BY DEF Message, Text, Zero, NoText

(* A message stays one when a field is copied from another.               *)
LEMMA FieldCopied ==
  ASSUME NEW m \in Message, NEW w \in Message, NEW f \in Field
  PROVE  [m EXCEPT ![f] = w[f]] \in Message
BY DEF Message, Text, NoText, Field

(* The regions of two slots, and the two regions of a slot, are different. *)
LEMMA Regions ==
  /\ \A c \in Slot : In(c) \in Region /\ Out(c) \in Region
  /\ \A c, d \in Slot : /\ In(c) # Out(d)
                        /\ In(c) = In(d) => c = d
                        /\ Out(c) = Out(d) => c = d
BY ShmAssumption DEF Slot, Region, In, Out

(* A client that enters its incoming region makes a message in msg_out.    *)
LEMMA EnterInType ==
  ASSUME TypeOK, NEW c \in Slot, NEW f \in Nat,
         NEW kind \in {"connect", "disconnect", "word"}, EnterIn(c, kind, f)
  PROVE  /\ sems' \in [Region -> Nat]
         /\ msg_out' \in [Slot -> Message]
         /\ out_todo' \in [Slot -> SUBSET Field]
         /\ written' \in [Slot -> Nat]
<1>1. [text |-> [kind |-> kind, from |-> c, n |-> written[c] + 1,
                 flag |-> f], flag |-> f] \in Message
  BY DEF Message, Text, TypeOK
<1>2. msg_out' \in [Slot -> Message]
  BY <1>1 DEF EnterIn, TypeOK
<1>3. sems' \in [Region -> Nat]
  BY Regions DEF EnterIn, Wait, TypeOK
<1> QED
  BY <1>2, <1>3 DEF EnterIn, TypeOK

(* A field it copies leaves messages in the regions.                       *)
LEMMA PutInType ==
  ASSUME TypeOK, NEW c \in Slot, PutIn(c)
  PROVE  /\ shmem' \in [Region -> Message]
         /\ out_todo' \in [Slot -> SUBSET Field]
<1>1. PICK f \in out_todo[c] :
        /\ shmem' = [shmem EXCEPT ![In(c)][f] = msg_out[c][f]]
        /\ out_todo' = [out_todo EXCEPT ![c] = @ \ {f}]
  BY DEF PutIn
<1>2. f \in Field
  BY <1>1 DEF TypeOK
<1>3. shmem' \in [Region -> Message]
  BY <1>1, <1>2, FieldCopied DEF TypeOK
<1> QED
  BY <1>1, <1>3 DEF TypeOK

(* A thread's loop variable: inside the loop it is the number of an        *)
(* outgoing region, and two regions further it has its type again.         *)
LEMMA LoopVariable ==
  ASSUME NEW r \in {Out(c) : c \in Slot} \cup {Out(max_clients)}
  PROVE  /\ r \in Nat
         /\ r < 2 * max_clients <=> \E c \in Slot : r = Out(c)
         /\ r \in Region <=> \E c \in Slot : r = Out(c)
         /\ r \in Region =>
              r + 2 \in {Out(c) : c \in Slot} \cup {Out(max_clients)}
         /\ \A c \in Slot : r # In(c)
<1>1. r \in Nat
  BY ShmAssumption DEF Slot, Out
<1>2. CASE r = Out(max_clients)
  BY <1>2, ShmAssumption DEF Slot, Region, In, Out
<1>3. ASSUME NEW c \in Slot, r = Out(c)
      PROVE  /\ r \in Region /\ r < 2 * max_clients
             /\ r + 2 = Out(c + 1)
             /\ c + 1 \in Slot \/ c + 1 = max_clients
  BY <1>3, ShmAssumption DEF Slot, Region, Out
<1>4. \A c \in Slot : r # In(c)
  BY ShmAssumption DEF Slot, In, Out
<1> QED
  BY <1>1, <1>2, <1>3, <1>4

-----------------------------------------------------------------------------
(* Every step keeps the types.                                             *)
LEMMA TypeStep ==
  ASSUME TypeOK, LoopInv, [Next]_vars
  PROVE  TypeOK'
<1> USE MessageTypes, Regions, ShmAssumption, BoundAssumption
    DEF TypeOK, ServerPc, ClientPc, mainVars, zeroVars, infoVars, threadVars,
        outVars, serverVars, procVars, scanfVars, recvVars, clientVars,
        mailVars, Goto, CGoto, SGoto, KGoto, RGoto, Wait, Post, EndRound
<1>1. CASE UNCHANGED vars
  BY <1>1 DEF vars
<1>2. CASE Main \/ Interrupt
  <2>1. CASE ZeroRegion
    <3>1. PICK f \in zero_todo :
            /\ shmem' = [shmem EXCEPT ![zeroed][f] = Zero[f]]
            /\ \/ zero_todo' = zero_todo \ {f} /\ UNCHANGED zeroed
               \/ zero_todo' = Field /\ zeroed' = zeroed + 1
      BY <2>1 DEF ZeroRegion
    <3>2. f \in Field /\ zeroed \in Region
      BY <2>1, <3>1 DEF ZeroRegion, Region
    <3>3. shmem' \in [Region -> Message]
      BY <3>1, <3>2, FieldCopied
    <3>4. zeroed' \in 0 .. 2 * max_clients /\ zero_todo' \subseteq Field
      BY <2>1, <3>1 DEF ZeroRegion
    <3> QED
      BY <2>1, <3>3, <3>4 DEF ZeroRegion
  <2>2. CASE CreateThreads
    BY <2>2 DEF CreateThreads
  <2>3. CASE Interrupt
    BY <2>3 DEF Interrupt
  <2>4. CASE StopThreads
    BY <2>4 DEF StopThreads
  <2>5. CASE Cleanup
    BY <2>5 DEF Cleanup
  <2> QED
    BY <1>2, <2>1, <2>2, <2>3, <2>4, <2>5 DEF Main
<1>3. ASSUME NEW t \in Slot, Thread(t)
      PROVE  TypeOK'
  <2>1. CASE Check(t)
    BY <2>1 DEF Check
  <2>2. CASE Enter(t)
    BY <2>2 DEF Enter
  <2>3. CASE Take(t)
    <3>1. shmem' \in [Region -> Message] /\ shmem[In(t)] \in Message
      BY <2>3 DEF Take, LeftBehind
    <3>2. shmem[In(t)].text.n \in Nat
      BY <3>1, MessageTypes
    <3>3. taken' \in [Slot -> Nat] /\ times' \in [Slot -> Nat]
      BY <2>3, <3>2 DEF Take
    <3>4. whole' \in [Slot -> BOOLEAN]
      BY <2>3 DEF Take, Whole
    <3> QED
      BY <2>3, <3>1, <3>3, <3>4 DEF Take
  <2>4. CASE Leave(t)
    BY <2>4 DEF Leave
  <2>5. CASE Connect(t)
    BY <2>5 DEF Connect
  <2>6. CASE Disconnect(t)
    BY <2>6 DEF Disconnect
  <2>7. CASE Accept(t)
    <3>1. passed' \in [Slot -> Nat]
      BY <2>7 DEF Accept
    <3> QED
      BY <2>7, <3>1 DEF Accept
  <2>8. CASE Ignore(t)
    BY <2>8 DEF Ignore
  <2>9. CASE TryWait(t)
    <3>1. sems' \in [Region -> Nat]
      <4> DEFINE r == region_no[t]
      <4>1. CASE r \in Region /\ sems[r] > 0
        BY <2>9, <4>1 DEF TryWait
      <4>2. CASE r \in Region /\ ~(sems[r] > 0)
        BY <2>9, <4>2 DEF TryWait
      <4>3. CASE r \notin Region
        BY <2>9, <4>3 DEF TryWait
      <4> QED
        BY <4>1, <4>2, <4>3
    <3>2. locked' \in [Slot -> BOOLEAN]
      BY <2>9 DEF TryWait
    <3> QED
      BY <2>9, <3>1, <3>2 DEF TryWait
  <2>10. CASE Copy(t)
    <3>1. PICK f \in todo[t] :
            /\ shmem' = [shmem EXCEPT ![region_no[t]][f] = msg_to_cli[t][f]]
            /\ todo' = [todo EXCEPT ![t] = @ \ {f}]
      BY <2>10 DEF Copy
    <3>2. f \in Field
      BY <3>1
    <3>3. region_no[t] \in Region
      BY <2>10 DEF Copy, LoopInv
    <3>4. shmem' \in [Region -> Message]
      BY <3>1, <3>2, <3>3, FieldCopied
    <3> QED
      BY <2>10, <3>1, <3>4 DEF Copy
  <2>11. CASE PostOut(t)
    <3> DEFINE R == {Out(c) : c \in Slot} \cup {Out(max_clients)}
    <3>1. region_no \in [Slot -> R] /\ region_no[t] \in Region
      BY <2>11 DEF PostOut, LoopInv
    <3>2. region_no[t] + 2 \in R
      BY <3>1, LoopVariable
    <3>3. region_no' \in [Slot -> R]
      BY <2>11, <3>1, <3>2 DEF PostOut, NextRegion
    <3>4. sems[region_no[t]] + 1 \in Nat
      BY <3>1
    <3>5. sems' = [sems EXCEPT ![region_no[t]] = @ + 1]
      BY <2>11 DEF PostOut
    <3>6. sems' \in [Region -> Nat]
      BY <3>1, <3>4, <3>5
    <3> QED
      BY <2>11, <3>3, <3>6 DEF PostOut
  <2>12. CASE EndBroadcast(t)
    <3>1. 1 = Out(0) /\ 0 \in Slot
      BY DEF Slot, Out
    <3> QED
      BY <2>12, <3>1 DEF EndBroadcast
  <2> QED
    BY <1>3, <2>1, <2>2, <2>3, <2>4, <2>5, <2>6, <2>7, <2>8, <2>9, <2>10,
       <2>11, <2>12 DEF Thread
<1>4. ASSUME NEW c \in Slot, Launch(c) \/ InterruptClient(c) \/ MainClient(c)
      PROVE  TypeOK'
  <2>1. CASE Launch(c)
    BY <2>1 DEF Launch, Started
  <2>2. CASE InterruptClient(c)
    BY <2>2 DEF InterruptClient
  <2>3. CASE EnterConnect(c)
    <3>1. /\ EnterIn(c, "connect", Pid(c)) /\ Pid(c) \in Nat
          /\ "connect" \in {"connect", "disconnect", "word"}
      BY <2>3 DEF EnterConnect, Pid
    <3>2. /\ sems' \in [Region -> Nat] /\ msg_out' \in [Slot -> Message]
          /\ out_todo' \in [Slot -> SUBSET Field]
          /\ written' \in [Slot -> Nat]
          /\ UNCHANGED <<taken, times, whole, passed>>
      BY <3>1, EnterInType DEF EnterIn
    <3> QED
      BY <2>3, <3>2 DEF EnterConnect
  <2>4. CASE EnterDisconnect(c)
    <3>1. /\ EnterIn(c, "disconnect", msg_out[c].flag)
          /\ msg_out[c].flag \in Nat
          /\ "disconnect" \in {"connect", "disconnect", "word"}
      BY <2>4 DEF EnterDisconnect
    <3>2. /\ sems' \in [Region -> Nat] /\ msg_out' \in [Slot -> Message]
          /\ out_todo' \in [Slot -> SUBSET Field]
          /\ written' \in [Slot -> Nat]
          /\ UNCHANGED <<taken, times, whole, passed>>
      BY <3>1, EnterInType DEF EnterIn
    <3> QED
      BY <2>4, <3>2 DEF EnterDisconnect
  <2>5. CASE MainWrite(c)
    <3>1. /\ shmem' \in [Region -> Message]
          /\ out_todo' \in [Slot -> SUBSET Field]
      BY <2>5, PutInType DEF MainWrite
    <3> QED
      BY <2>5, <3>1 DEF MainWrite
  <2>6. CASE MainPost(c)
    BY <2>6 DEF MainPost
  <2>7. CASE EndLoop(c)
    BY <2>7 DEF EndLoop
  <2>8. CASE StopClient(c)
    BY <2>8 DEF StopClient
  <2>9. CASE EndClient(c)
    BY <2>9 DEF EndClient
  <2> QED
    BY <1>4, <2>1, <2>2, <2>3, <2>4, <2>5, <2>6, <2>7, <2>8, <2>9
       DEF MainClient, MainWait
<1>5. ASSUME NEW c \in Slot, SendThread(c)
      PROVE  TypeOK'
  <2>1. CASE SendCheck(c)
    BY <2>1 DEF SendCheck
  <2>2. CASE SendPoll(c)
    BY <2>2 DEF SendPoll
  <2>3. CASE SendTry(c)
    <3>1. /\ EnterIn(c, "word", 1)
          /\ "word" \in {"connect", "disconnect", "word"} /\ 1 \in Nat
      BY <2>3 DEF SendTry
    <3>2. /\ sems' \in [Region -> Nat] /\ msg_out' \in [Slot -> Message]
          /\ out_todo' \in [Slot -> SUBSET Field]
          /\ written' \in [Slot -> Nat]
          /\ UNCHANGED <<taken, times, whole, passed>>
      BY <3>1, EnterInType DEF EnterIn
    <3> QED
      BY <2>3, <3>2 DEF SendTry
  <2>4. CASE SendTryFails(c)
    BY <2>4 DEF SendTryFails
  <2>5. CASE SendWrite(c)
    <3>1. /\ shmem' \in [Region -> Message]
          /\ out_todo' \in [Slot -> SUBSET Field]
      BY <2>5, PutInType DEF SendWrite
    <3> QED
      BY <2>5, <3>1 DEF SendWrite
  <2>6. CASE SendWord(c)
    BY <2>6 DEF SendWord
  <2>7. CASE SendPost(c)
    BY <2>7 DEF SendPost
  <2> QED
    BY <1>5, <2>1, <2>2, <2>3, <2>4, <2>5, <2>6, <2>7 DEF SendThread
<1>6. ASSUME NEW c \in Slot, ScanfThread(c) \/ Type(c)
      PROVE  TypeOK'
  <2>1. CASE ScanfCheck(c)
    BY <2>1 DEF ScanfCheck
  <2>2. CASE ScanfPoll(c)
    BY <2>2 DEF ScanfPoll
  <2>3. CASE Type(c)
    BY <2>3 DEF Type
  <2>4. CASE ScanfRaise(c)
    BY <2>4 DEF ScanfRaise
  <2> QED
    BY <1>6, <2>1, <2>2, <2>3, <2>4 DEF ScanfThread
<1>7. ASSUME NEW c \in Slot, RecvThread(c)
      PROVE  TypeOK'
  <2>1. CASE RecvCheck(c)
    BY <2>1 DEF RecvCheck
  <2>2. CASE RecvTry(c)
    BY <2>2 DEF RecvTry
  <2>3. CASE RecvTryFails(c)
    BY <2>3 DEF RecvTryFails
  <2>4. CASE RecvCopy(c)
    <3>1. PICK f \in recv_todo[c] :
            /\ msg_in' = [msg_in EXCEPT ![c][f] = shmem[Out(c)][f]]
            /\ recv_todo' = [recv_todo EXCEPT ![c] = @ \ {f}]
      BY <2>4 DEF RecvCopy
    <3>2. f \in Field
      BY <3>1
    <3>3. msg_in' \in [Slot -> Message]
      BY <3>1, <3>2, FieldCopied
    <3> QED
      BY <2>4, <3>1, <3>3 DEF RecvCopy
  <2>5. CASE RecvNew(c)
    BY <2>5 DEF RecvNew
  <2>6. CASE RecvWrite(c)
    <3>1. PICK f \in recv_todo[c] :
            /\ shmem' = [shmem EXCEPT ![Out(c)][f] = msg_in[c][f]]
            /\ recv_todo' = [recv_todo EXCEPT ![c] = @ \ {f}]
      BY <2>6 DEF RecvWrite
    <3>2. f \in Field
      BY <3>1
    <3>3. shmem' \in [Region -> Message]
      BY <3>1, <3>2, FieldCopied
    <3> QED
      BY <2>6, <3>1, <3>3 DEF RecvWrite
  <2>7. CASE RecvPost(c)
    BY <2>7 DEF RecvPost
  <2> QED
    BY <1>7, <2>1, <2>2, <2>3, <2>4, <2>5, <2>6, <2>7 DEF RecvThread
<1> QED
  BY <1>1, <1>2, <1>3, <1>4, <1>5, <1>6, <1>7 DEF Next, Client
-----------------------------------------------------------------------------
(* No step lets two threads into the section of an incoming region: one   *)
(* that enters takes the semaphore, which is 1 only while nobody is        *)
(* inside, and one that leaves gives it back.                              *)
LEMMA ExclusiveStep ==
  ASSUME TypeOK, InExclusive, OffInv, BootInv, [Next]_vars
  PROVE  InExclusive'
<1> USE Regions
    DEF InExclusive, ServerIn, MainIn, SendIn, One,
        mainVars, zeroVars, infoVars, threadVars, outVars,
        serverVars, procVars, scanfVars, recvVars, clientVars, mailVars,
        Goto, CGoto, SGoto, Wait, Post, EndRound
<1> /\ sems \in [Region -> Nat] /\ pc \in [Slot -> ServerPc]
    /\ DOMAIN client_pc = Slot /\ DOMAIN send_pc = Slot
  BY DEF TypeOK
<1>a. \A t, c \in Slot : region_no[t] # In(c)
  BY LoopVariable DEF TypeOK
<1>1. CASE UNCHANGED vars
  BY <1>1 DEF vars
<1>2. CASE Main \/ Interrupt
  <2>1. CASE ZeroRegion
    BY <2>1 DEF ZeroRegion
  <2>2. CASE CreateThreads
    BY <2>2 DEF CreateThreads, BootInv
  <2>3. CASE Interrupt
    BY <2>3 DEF Interrupt
  <2>4. CASE StopThreads
    BY <2>4 DEF StopThreads
  <2>5. CASE Cleanup
    BY <2>5 DEF Cleanup
  <2> QED
    BY <1>2, <2>1, <2>2, <2>3, <2>4, <2>5 DEF Main
<1>3. ASSUME NEW t \in Slot, Thread(t)
      PROVE  InExclusive'
  <2>1. CASE Check(t)
    BY <2>1 DEF Check
  <2>2. CASE Enter(t)
    BY <2>2 DEF Enter
  <2>3. CASE Take(t)
    BY <2>3 DEF Take
  <2>4. CASE Leave(t)
    BY <2>4 DEF Leave
  <2>5. CASE Connect(t)
    BY <2>5 DEF Connect
  <2>6. CASE Disconnect(t)
    BY <2>6 DEF Disconnect
  <2>7. CASE Accept(t)
    BY <2>7 DEF Accept
  <2>8. CASE Ignore(t)
    BY <2>8 DEF Ignore
  <2>9. CASE TryWait(t)
    BY <2>9, <1>a DEF TryWait
  <2>10. CASE Copy(t)
    BY <2>10 DEF Copy
  <2>11. CASE PostOut(t)
    BY <2>11, <1>a DEF PostOut
  <2>12. CASE EndBroadcast(t)
    BY <2>12 DEF EndBroadcast
  <2> QED
    BY <1>3, <2>1, <2>2, <2>3, <2>4, <2>5, <2>6, <2>7, <2>8, <2>9, <2>10,
       <2>11, <2>12 DEF Thread
<1>4. ASSUME NEW t \in Slot,
             Launch(t) \/ InterruptClient(t) \/ MainClient(t)
      PROVE  InExclusive'
  <2>1. CASE Launch(t)
    BY <2>1 DEF Launch, Started, OffInv
  <2>2. CASE InterruptClient(t)
    BY <2>2 DEF InterruptClient
  <2>3. CASE EnterConnect(t)
    BY <2>3 DEF EnterConnect, EnterIn
  <2>4. CASE EnterDisconnect(t)
    BY <2>4 DEF EnterDisconnect, EnterIn
  <2>5. CASE MainWrite(t)
    BY <2>5 DEF MainWrite, PutIn
  <2>6. CASE MainPost(t)
    BY <2>6 DEF MainPost
  <2>7. CASE EndLoop(t)
    BY <2>7 DEF EndLoop
  <2>8. CASE StopClient(t)
    BY <2>8 DEF StopClient
  <2>9. CASE EndClient(t)
    BY <2>9 DEF EndClient
  <2> QED
    BY <1>4, <2>1, <2>2, <2>3, <2>4, <2>5, <2>6, <2>7, <2>8, <2>9
       DEF MainClient, MainWait
<1>5. ASSUME NEW t \in Slot, SendThread(t)
      PROVE  InExclusive'
  <2>1. CASE SendCheck(t)
    BY <2>1 DEF SendCheck
  <2>2. CASE SendPoll(t)
    BY <2>2 DEF SendPoll
  <2>3. CASE SendTry(t)
    BY <2>3 DEF SendTry, EnterIn
  <2>4. CASE SendTryFails(t)
    BY <2>4 DEF SendTryFails
  <2>5. CASE SendWrite(t)
    BY <2>5 DEF SendWrite, PutIn
  <2>6. CASE SendWord(t)
    BY <2>6 DEF SendWord
  <2>7. CASE SendPost(t)
    BY <2>7 DEF SendPost
  <2> QED
    BY <1>5, <2>1, <2>2, <2>3, <2>4, <2>5, <2>6, <2>7 DEF SendThread
<1>6. ASSUME NEW t \in Slot, ScanfThread(t) \/ Type(t)
      PROVE  InExclusive'
  <2>1. CASE ScanfCheck(t)
    BY <2>1 DEF ScanfCheck
  <2>2. CASE ScanfPoll(t)
    BY <2>2 DEF ScanfPoll
  <2>3. CASE Type(t)
    BY <2>3 DEF Type
  <2>4. CASE ScanfRaise(t)
    BY <2>4 DEF ScanfRaise
  <2> QED
    BY <1>6, <2>1, <2>2, <2>3, <2>4 DEF ScanfThread
<1>7. ASSUME NEW t \in Slot, RecvThread(t)
      PROVE  InExclusive'
  <2>1. CASE RecvCheck(t)
    BY <2>1 DEF RecvCheck
  <2>2. CASE RecvTry(t)
    BY <2>2 DEF RecvTry
  <2>3. CASE RecvTryFails(t)
    BY <2>3 DEF RecvTryFails
  <2>4. CASE RecvCopy(t)
    BY <2>4 DEF RecvCopy
  <2>5. CASE RecvNew(t)
    BY <2>5 DEF RecvNew
  <2>6. CASE RecvWrite(t)
    BY <2>6 DEF RecvWrite
  <2>7. CASE RecvPost(t)
    BY <2>7 DEF RecvPost
  <2> QED
    BY <1>7, <2>1, <2>2, <2>3, <2>4, <2>5, <2>6, <2>7 DEF RecvThread
<1> QED
  BY <1>1, <1>2, <1>3, <1>4, <1>5, <1>6, <1>7 DEF Next, Client

(* No step lets the semaphore of an outgoing region run dry: only a thread *)
(* that notes what it got takes it, and it gives it back before it moves   *)
(* on to the next region.                                                  *)
LEMMA DryStep ==
  ASSUME TypeOK, NeverDry, LoopInv, OffInv, [Next]_vars
  PROVE  NeverDry'
<1> USE Regions
    DEF NeverDry, LoopInv, OffInv, mainVars, zeroVars, infoVars,
        threadVars, outVars,
        serverVars, procVars, scanfVars, recvVars, clientVars, mailVars,
        Goto, CGoto, RGoto, Wait, Post, EndRound
<1> /\ sems \in [Region -> Nat] /\ DOMAIN pc = Slot /\ DOMAIN locked = Slot
    /\ DOMAIN region_no = Slot /\ DOMAIN recv_pc = Slot
  BY DEF TypeOK
<1>1. CASE UNCHANGED vars
  BY <1>1 DEF vars
<1>2. CASE Main \/ Interrupt
  <2>1. CASE ZeroRegion
    BY <2>1 DEF ZeroRegion
  <2>2. CASE CreateThreads
    BY <2>2 DEF CreateThreads
  <2>3. CASE Interrupt
    BY <2>3 DEF Interrupt
  <2>4. CASE StopThreads
    BY <2>4 DEF StopThreads
  <2>5. CASE Cleanup
    BY <2>5 DEF Cleanup
  <2> QED
    BY <1>2, <2>1, <2>2, <2>3, <2>4, <2>5 DEF Main
<1>3. ASSUME NEW t \in Slot, Thread(t)
      PROVE  NeverDry'
  <2>1. CASE Check(t)
    BY <2>1 DEF Check
  <2>2. CASE Enter(t)
    BY <2>2 DEF Enter
  <2>3. CASE Take(t)
    BY <2>3 DEF Take
  <2>4. CASE Leave(t)
    BY <2>4 DEF Leave
  <2>5. CASE Connect(t)
    BY <2>5 DEF Connect
  <2>6. CASE Disconnect(t)
    BY <2>6 DEF Disconnect
  <2>7. CASE Accept(t)
    BY <2>7 DEF Accept
  <2>8. CASE Ignore(t)
    BY <2>8 DEF Ignore
  <2>9. CASE TryWait(t)
    BY <2>9 DEF TryWait
  <2>10. CASE Copy(t)
    BY <2>10 DEF Copy
  <2>11. CASE PostOut(t)
    BY <2>11 DEF PostOut, NextRegion
  <2>12. CASE EndBroadcast(t)
    BY <2>12 DEF EndBroadcast
  <2> QED
    BY <1>3, <2>1, <2>2, <2>3, <2>4, <2>5, <2>6, <2>7, <2>8, <2>9, <2>10,
       <2>11, <2>12 DEF Thread
<1>4. ASSUME NEW t \in Slot,
             Launch(t) \/ InterruptClient(t) \/ MainClient(t)
      PROVE  NeverDry'
  <2>1. CASE Launch(t)
    BY <2>1 DEF Launch
  <2>2. CASE InterruptClient(t)
    BY <2>2 DEF InterruptClient
  <2>3. CASE EnterConnect(t)
    BY <2>3 DEF EnterConnect, EnterIn
  <2>4. CASE EnterDisconnect(t)
    BY <2>4 DEF EnterDisconnect, EnterIn
  <2>5. CASE MainWrite(t)
    BY <2>5 DEF MainWrite, PutIn
  <2>6. CASE MainPost(t)
    BY <2>6 DEF MainPost
  <2>7. CASE EndLoop(t)
    BY <2>7 DEF EndLoop
  <2>8. CASE StopClient(t)
    BY <2>8 DEF StopClient
  <2>9. CASE EndClient(t)
    BY <2>9 DEF EndClient
  <2> QED
    BY <1>4, <2>1, <2>2, <2>3, <2>4, <2>5, <2>6, <2>7, <2>8, <2>9
       DEF MainClient, MainWait
<1>5. ASSUME NEW t \in Slot, SendThread(t)
      PROVE  NeverDry'
  <2>1. CASE SendCheck(t)
    BY <2>1 DEF SendCheck
  <2>2. CASE SendPoll(t)
    BY <2>2 DEF SendPoll
  <2>3. CASE SendTry(t)
    BY <2>3 DEF SendTry, EnterIn
  <2>4. CASE SendTryFails(t)
    BY <2>4 DEF SendTryFails
  <2>5. CASE SendWrite(t)
    BY <2>5 DEF SendWrite, PutIn
  <2>6. CASE SendWord(t)
    BY <2>6 DEF SendWord
  <2>7. CASE SendPost(t)
    BY <2>7 DEF SendPost
  <2> QED
    BY <1>5, <2>1, <2>2, <2>3, <2>4, <2>5, <2>6, <2>7 DEF SendThread
<1>6. ASSUME NEW t \in Slot, ScanfThread(t) \/ Type(t)
      PROVE  NeverDry'
  <2>1. CASE ScanfCheck(t)
    BY <2>1 DEF ScanfCheck
  <2>2. CASE ScanfPoll(t)
    BY <2>2 DEF ScanfPoll
  <2>3. CASE Type(t)
    BY <2>3 DEF Type
  <2>4. CASE ScanfRaise(t)
    BY <2>4 DEF ScanfRaise
  <2> QED
    BY <1>6, <2>1, <2>2, <2>3, <2>4 DEF ScanfThread
<1>7. ASSUME NEW t \in Slot, RecvThread(t)
      PROVE  NeverDry'
  <2>1. CASE RecvCheck(t)
    BY <2>1 DEF RecvCheck
  <2>2. CASE RecvTry(t)
    BY <2>2 DEF RecvTry
  <2>3. CASE RecvTryFails(t)
    BY <2>3 DEF RecvTryFails
  <2>4. CASE RecvCopy(t)
    BY <2>4 DEF RecvCopy
  <2>5. CASE RecvNew(t)
    BY <2>5 DEF RecvNew
  <2>6. CASE RecvWrite(t)
    BY <2>6 DEF RecvWrite
  <2>7. CASE RecvPost(t)
    BY <2>7 DEF RecvPost
  <2> QED
    BY <1>7, <2>1, <2>2, <2>3, <2>4, <2>5, <2>6, <2>7 DEF RecvThread
<1> QED
  BY <1>1, <1>2, <1>3, <1>4, <1>5, <1>6, <1>7 DEF Next, Client

(* Every step keeps what LoopInv, OffInv and BootInv say of where the      *)
(* threads are.                                                            *)
LEMMA PlaceStep ==
  ASSUME TypeOK, LoopInv, OffInv, BootInv, [Next]_vars
  PROVE  LoopInv' /\ OffInv' /\ BootInv'
<1> USE DEF LoopInv, OffInv, BootInv, mainVars, zeroVars, infoVars,
        threadVars, outVars,
        serverVars, procVars, scanfVars, recvVars, clientVars, mailVars,
        Goto, CGoto, SGoto, KGoto, RGoto, EndRound
<1> /\ DOMAIN pc = Slot /\ DOMAIN locked = Slot /\ DOMAIN region_no = Slot
    /\ DOMAIN client_pc = Slot /\ DOMAIN send_pc = Slot
    /\ DOMAIN recv_pc = Slot
  BY DEF TypeOK
<1>a. \A t \in Slot : InLoop(t) <=> region_no[t] \in Region
  BY LoopVariable DEF TypeOK, InLoop
<1>1. CASE UNCHANGED vars
  BY <1>1 DEF vars
<1>2. CASE Main \/ Interrupt
  <2>1. CASE ZeroRegion
    BY <2>1 DEF ZeroRegion
  <2>2. CASE CreateThreads
    BY <2>2 DEF CreateThreads
  <2>3. CASE Interrupt
    BY <2>3 DEF Interrupt
  <2>4. CASE StopThreads
    BY <2>4 DEF StopThreads
  <2>5. CASE Cleanup
    BY <2>5 DEF Cleanup
  <2> QED
    BY <1>2, <2>1, <2>2, <2>3, <2>4, <2>5 DEF Main
<1>3. ASSUME NEW t \in Slot, Thread(t)
      PROVE  LoopInv' /\ OffInv' /\ BootInv'
  <2>1. CASE Check(t)
    BY <2>1 DEF Check
  <2>2. CASE Enter(t)
    BY <2>2 DEF Enter
  <2>3. CASE Take(t)
    BY <2>3 DEF Take
  <2>4. CASE Leave(t)
    BY <2>4 DEF Leave
  <2>5. CASE Connect(t)
    BY <2>5 DEF Connect
  <2>6. CASE Disconnect(t)
    BY <2>6 DEF Disconnect
  <2>7. CASE Accept(t)
    BY <2>7 DEF Accept
  <2>8. CASE Ignore(t)
    BY <2>8 DEF Ignore
  <2>9. CASE TryWait(t)
    BY <2>9, <1>a DEF TryWait
  <2>10. CASE Copy(t)
    BY <2>10 DEF Copy
  <2>11. CASE PostOut(t)
    BY <2>11 DEF PostOut, NextRegion
  <2>12. CASE EndBroadcast(t)
    BY <2>12 DEF EndBroadcast
  <2> QED
    BY <1>3, <2>1, <2>2, <2>3, <2>4, <2>5, <2>6, <2>7, <2>8, <2>9, <2>10,
       <2>11, <2>12 DEF Thread
<1>4. ASSUME NEW t \in Slot,
             Launch(t) \/ InterruptClient(t) \/ MainClient(t)
      PROVE  LoopInv' /\ OffInv' /\ BootInv'
  <2>1. CASE Launch(t)
    BY <2>1 DEF Launch
  <2>2. CASE InterruptClient(t)
    BY <2>2 DEF InterruptClient
  <2>3. CASE EnterConnect(t)
    BY <2>3 DEF EnterConnect, EnterIn
  <2>4. CASE EnterDisconnect(t)
    BY <2>4 DEF EnterDisconnect, EnterIn
  <2>5. CASE MainWrite(t)
    BY <2>5 DEF MainWrite, PutIn
  <2>6. CASE MainPost(t)
    BY <2>6 DEF MainPost
  <2>7. CASE EndLoop(t)
    BY <2>7 DEF EndLoop
  <2>8. CASE StopClient(t)
    BY <2>8 DEF StopClient
  <2>9. CASE EndClient(t)
    BY <2>9 DEF EndClient
  <2> QED
    BY <1>4, <2>1, <2>2, <2>3, <2>4, <2>5, <2>6, <2>7, <2>8, <2>9
       DEF MainClient, MainWait
<1>5. ASSUME NEW t \in Slot, SendThread(t)
      PROVE  LoopInv' /\ OffInv' /\ BootInv'
  <2>1. CASE SendCheck(t)
    BY <2>1 DEF SendCheck
  <2>2. CASE SendPoll(t)
    BY <2>2 DEF SendPoll
  <2>3. CASE SendTry(t)
    BY <2>3 DEF SendTry, EnterIn
  <2>4. CASE SendTryFails(t)
    BY <2>4 DEF SendTryFails
  <2>5. CASE SendWrite(t)
    BY <2>5 DEF SendWrite, PutIn
  <2>6. CASE SendWord(t)
    BY <2>6 DEF SendWord
  <2>7. CASE SendPost(t)
    BY <2>7 DEF SendPost
  <2> QED
    BY <1>5, <2>1, <2>2, <2>3, <2>4, <2>5, <2>6, <2>7 DEF SendThread
<1>6. ASSUME NEW t \in Slot, ScanfThread(t) \/ Type(t)
      PROVE  LoopInv' /\ OffInv' /\ BootInv'
  <2>1. CASE ScanfCheck(t)
    BY <2>1 DEF ScanfCheck
  <2>2. CASE ScanfPoll(t)
    BY <2>2 DEF ScanfPoll
  <2>3. CASE Type(t)
    BY <2>3 DEF Type
  <2>4. CASE ScanfRaise(t)
    BY <2>4 DEF ScanfRaise
  <2> QED
    BY <1>6, <2>1, <2>2, <2>3, <2>4 DEF ScanfThread
<1>7. ASSUME NEW t \in Slot, RecvThread(t)
      PROVE  LoopInv' /\ OffInv' /\ BootInv'
  <2>1. CASE RecvCheck(t)
    BY <2>1 DEF RecvCheck
  <2>2. CASE RecvTry(t)
    BY <2>2 DEF RecvTry
  <2>3. CASE RecvTryFails(t)
    BY <2>3 DEF RecvTryFails
  <2>4. CASE RecvCopy(t)
    BY <2>4 DEF RecvCopy
  <2>5. CASE RecvNew(t)
    BY <2>5 DEF RecvNew
  <2>6. CASE RecvWrite(t)
    BY <2>6 DEF RecvWrite
  <2>7. CASE RecvPost(t)
    BY <2>7 DEF RecvPost
  <2> QED
    BY <1>7, <2>1, <2>2, <2>3, <2>4, <2>5, <2>6, <2>7 DEF RecvThread
<1> QED
  BY <1>1, <1>2, <1>3, <1>4, <1>5, <1>6, <1>7 DEF Next, Client

-----------------------------------------------------------------------------
(* A client that enters its incoming region makes a message that is newer  *)
(* than all before it: a Write of the channel.                             *)
LEMMA EnterMail ==
  ASSUME TypeOK, MailInv, NEW t \in Slot, NEW f \in Nat,
         NEW kind \in {"connect", "disconnect", "word"}, EnterIn(t, kind, f),
         Copying(t)', \A c \in Slot : c # t => (Copying(c)' <=> Copying(c)),
         UNCHANGED <<shmem, pc, flag_connect, msg_from_cli>>
  PROVE  MailInv' /\ Channel!Next
<1>1. /\ written \in [Slot -> Nat] /\ taken \in [Slot -> Nat]
      /\ DOMAIN msg_out = Slot /\ DOMAIN out_todo = Slot
  BY DEF TypeOK
<1>2. /\ msg_out'[t].text = [kind |-> kind, from |-> t,
                             n |-> written[t] + 1, flag |-> f]
      /\ msg_out'[t].flag = f /\ out_todo'[t] = Field
      /\ written'[t] = written[t] + 1
      /\ \A c \in Slot : c # t => /\ msg_out'[c] = msg_out[c]
                                  /\ out_todo'[c] = out_todo[c]
                                  /\ written'[c] = written[c]
      /\ UNCHANGED <<taken, times, whole, passed>>
  BY <1>1 DEF EnterIn
<1>3. OutInv'
  BY <1>1, <1>2 DEF MailInv, OutInv, TextInv, Whole, NoText
<1>4. TextInv'
  <2>1. \A c \in Slot : written[c] <= written'[c]
    BY <1>1, <1>2
  <2>2. \A c \in Slot : In(c) \in Region /\ shmem[In(c)].text.n \in Nat
    BY Regions, MessageTypes DEF TypeOK
  <2> QED
    BY <1>1, <1>2, <2>1, <2>2 DEF MailInv, TextInv, EnterIn, TypeOK
<1>5. WholeInv'
  BY <1>2 DEF MailInv, WholeInv
<1>6. PassInv'
  BY <1>2 DEF MailInv, PassInv, IsNew
<1>7. Channel!Write(t)
  BY DEF EnterIn, Channel!Write
<1> QED
  BY <1>3, <1>4, <1>5, <1>6, <1>7 DEF MailInv, Channel!Next

(* A field it copies brings what is in the region nearer to that message.  *)
LEMMA CopyMail ==
  ASSUME TypeOK, MailInv, NEW t \in Slot, PutIn(t), Copying(t),
         UNCHANGED <<client_pc, send_pc, msg_out, pc, flag_connect,
                     msg_from_cli, mailVars>>
  PROVE  MailInv' /\ UNCHANGED mailVars
<1> USE DEF mailVars
<1>1. /\ shmem \in [Region -> Message] /\ DOMAIN out_todo = Slot
      /\ msg_out \in [Slot -> Message] /\ out_todo[t] \subseteq Field
  BY DEF TypeOK
<1>2. PICK f \in out_todo[t] :
        /\ shmem' = [shmem EXCEPT ![In(t)][f] = msg_out[t][f]]
        /\ out_todo' = [out_todo EXCEPT ![t] = @ \ {f}]
  BY DEF PutIn
<1>3. /\ \A c \in Slot : c # t => /\ shmem'[In(c)] = shmem[In(c)]
                                  /\ out_todo'[c] = out_todo[c]
      /\ out_todo'[t] = out_todo[t] \ {f}
      /\ shmem'[In(t)] = [shmem[In(t)] EXCEPT ![f] = msg_out[t][f]]
  BY <1>1, <1>2, Regions
<1>4. \A c \in Slot : Copying(c)' <=> Copying(c)
  BY DEF Copying, MainIn
<1>5. OutInv'
  BY <1>4 DEF MailInv, OutInv
<1>6. TextInv'
  <2>1. /\ shmem[In(t)] \in Message /\ msg_out[t] \in Message
        /\ f \in {"text", "flag"}
    BY <1>1, <1>2, Regions DEF Field
  <2>2. shmem'[In(t)].text \in {shmem[In(t)].text, msg_out[t].text}
    BY <1>3, <2>1 DEF Message
  <2>3. \/ shmem'[In(t)].text = NoText
        \/ /\ shmem'[In(t)].text.n > taken[t]
           /\ shmem'[In(t)].text.n <= written[t]
    BY <2>2, <2>1, MessageTypes DEF MailInv, OutInv, TextInv, TypeOK
  <2> QED
    BY <1>3, <2>3 DEF MailInv, TextInv
<1>7. WholeInv'
  <2>1. ASSUME NEW g \in Field \ out_todo'[t], times[t] > 0
        PROVE  shmem'[In(t)][g] = msg_out[t][g]
    <3>1. /\ shmem[In(t)] \in Message /\ DOMAIN shmem[In(t)] = Field
      BY <1>1, Regions DEF Message, Field
    <3>2. CASE g = f
      BY <1>3, <2>1, <3>1, <3>2
    <3>3. CASE g # f
      BY <1>3, <2>1, <3>1, <3>3 DEF MailInv, WholeInv
    <3> QED
      BY <3>2, <3>3
  <2>2. ASSUME NEW c \in Slot, c # t, times[c] > 0
        PROVE  /\ ~Copying(c) => Whole(shmem'[In(c)])
               /\ Copying(c) => \A g \in Field \ out_todo'[c] :
                                  shmem'[In(c)][g] = msg_out[c][g]
    BY <1>3, <2>2 DEF MailInv, WholeInv
  <2> QED
    BY <1>4, <2>1, <2>2 DEF WholeInv
<1>8. PassInv'
  BY DEF MailInv, PassInv, IsNew
<1> QED
  BY <1>5, <1>6, <1>7, <1>8 DEF MailInv

(* What a client has copied completely is whole.                           *)
LEMMA CopiedWhole ==
  ASSUME TypeOK, MailInv, NEW t \in Slot, Copying(t), out_todo[t] = {},
         times[t] > 0
  PROVE  Whole(shmem[In(t)])
<1>1. /\ shmem[In(t)].text = msg_out[t].text
      /\ shmem[In(t)].flag = msg_out[t].flag
  BY DEF MailInv, WholeInv, Field
<1> QED
  BY <1>1 DEF MailInv, OutInv, Whole

(* Before there are threads main may zero a field of any region.           *)
LEMMA ZeroMail ==
  ASSUME TypeOK, BootInv, MailInv, ZeroRegion
  PROVE  MailInv' /\ UNCHANGED mailVars
<1> USE DEF ZeroRegion, infoVars, threadVars, clientVars, procVars, outVars,
        mailVars
<1>1. shmem \in [Region -> Message] /\ zeroed \in Region
  BY ShmAssumption DEF TypeOK, Region
<1>2. PICK f \in Field : shmem' = [shmem EXCEPT ![zeroed][f] = Zero[f]]
  BY DEF TypeOK
<1>3. \A c \in Slot : shmem'[In(c)].text \in {shmem[In(c)].text, NoText}
  <2> TAKE c \in Slot
  <2>1. In(c) \in Region /\ shmem[In(c)] \in Message
    BY <1>1, Regions
  <2> QED
    BY <1>1, <1>2, <2>1 DEF Message, Field, Zero
<1>4. OutInv'
  BY DEF MailInv, OutInv, Copying, MainIn
<1>5. TextInv'
  BY <1>3 DEF MailInv, TextInv
<1>6. WholeInv'
  <2>1. \A c \in Slot : times'[c] = 0
    BY DEF BootInv
  <2> QED
    BY <2>1 DEF WholeInv
<1>7. PassInv'
  BY DEF MailInv, PassInv, IsNew
<1> QED
  BY <1>4, <1>5, <1>6, <1>7 DEF MailInv

(* What a thread takes is nothing, a message that is newer than all it     *)
(* took before or, the first time, remains.                                *)
LEMMA TakeMail ==
  ASSUME TypeOK, InExclusive, MailInv, NEW t \in Slot, Take(t)
  PROVE  MailInv' /\ [Channel!Next]_mailVars
<1> DEFINE m == shmem[In(t)]
<1>1. /\ shmem \in [Region -> Message] /\ written \in [Slot -> Nat]
      /\ taken \in [Slot -> Nat] /\ times \in [Slot -> Nat]
      /\ whole \in [Slot -> BOOLEAN] /\ passed \in [Slot -> Nat]
      /\ pc \in [Slot -> ServerPc] /\ DOMAIN msg_from_cli = Slot
      /\ client_pc \in [Slot -> ClientPc] /\ DOMAIN send_pc = Slot
  BY DEF TypeOK
<1>2. /\ m \in Message /\ m.text.n \in Nat /\ m.flag \in Nat
  BY <1>1, Regions, MessageTypes
<1>3. ~Copying(t)
  <2>1. pc[t] = "take" /\ sems[In(t)] \in Nat
    BY Regions DEF Take, TypeOK
  <2>2. ~MainIn(t) /\ ~SendIn(t)
    BY <2>1 DEF InExclusive, ServerIn, One
  <2> QED
    BY <2>2 DEF Copying, SendIn
<1>4. \A c \in Slot : Copying(c)' <=> Copying(c)
  BY DEF Take, Copying, MainIn, clientVars, procVars
<1>5. times[t] > 0 => Whole(m)
  BY <1>3 DEF MailInv, WholeInv
<1>6. m.text = NoText \/ (m.text.n > taken[t] /\ m.text.n <= written[t])
  BY <1>1, <1>2 DEF MailInv, TextInv
<1>7. Whole(m) /\ m.text = NoText => m = Zero
  BY <1>2 DEF Whole, Message, NoText, Zero
<1>8. /\ shmem'[In(t)] = Zero /\ msg_from_cli'[t] = m /\ pc'[t] = "leave"
      /\ \A c \in Slot : c # t => /\ shmem'[In(c)] = shmem[In(c)]
                                  /\ msg_from_cli'[c] = msg_from_cli[c]
                                  /\ pc'[c] = pc[c]
                                  /\ taken'[c] = taken[c]
                                  /\ times'[c] = times[c]
                                  /\ whole'[c] = whole[c]
      /\ UNCHANGED <<written, passed, msg_out, out_todo, flag_connect>>
  BY <1>1, Regions DEF Take, LeftBehind, Goto, clientVars, outVars, infoVars
<1>9. /\ taken' = IF m.text = NoText THEN taken
                                     ELSE [taken EXCEPT ![t] = m.text.n]
      /\ times' = IF m = Zero THEN times ELSE [times EXCEPT ![t] = @ + 1]
      /\ whole' = IF m = Zero THEN whole ELSE [whole EXCEPT ![t] = Whole(m)]
  BY DEF Take
<1> HIDE DEF m
<1>10. /\ taken'[t] = IF m.text = NoText THEN taken[t] ELSE m.text.n
       /\ times'[t] = IF m = Zero THEN times[t] ELSE times[t] + 1
       /\ whole'[t] = IF m = Zero THEN whole[t] ELSE Whole(m)
  BY <1>1, <1>9
<1>11. OutInv'
  BY <1>3, <1>4, <1>8 DEF MailInv, OutInv
<1>12. TextInv'
  <2>1. taken'[t] <= written[t] /\ shmem'[In(t)].text = NoText
    BY <1>6, <1>8, <1>10 DEF MailInv, TextInv, Zero
  <2> QED
    BY <1>8, <2>1 DEF MailInv, TextInv
<1>13. WholeInv'
  <2>1. Whole(shmem'[In(t)])
    BY <1>8 DEF Whole, Zero, NoText
  <2> QED
    BY <1>3, <1>4, <1>8, <2>1 DEF MailInv, WholeInv
<1>14. PassInv'
  <2>1. passed[t] <= taken[t] /\ taken[t] <= taken'[t]
    BY <1>1, <1>2, <1>6, <1>10 DEF MailInv, PassInv
  <2>2. /\ flag_connect[t] = 1 => times'[t] > 0
        /\ m # Zero => times'[t] > 0
    BY <1>1, <1>10 DEF MailInv, PassInv
  <2>3. ASSUME m.flag = 1, flag_connect[t] = 1
        PROVE  whole'[t] /\ passed[t] < taken'[t] /\ m.text.n = taken'[t]
    <3>1. Whole(m)
      BY <1>5, <2>3 DEF MailInv, PassInv
    <3>2. m # Zero /\ m.text # NoText
      BY <2>3, <3>1 DEF Whole, Zero, NoText
    <3> QED
      BY <1>1, <1>2, <1>6, <1>10, <2>1, <3>1, <3>2
  <2>4. passed'[t] <= taken'[t]
    BY <1>1, <1>2, <1>8, <1>10, <2>1
  <2> QED
    BY <1>8, <2>2, <2>3, <2>4 DEF MailInv, PassInv, IsNew
<1>15. [Channel!Next]_mailVars
  <2>1. CASE m = Zero
    BY <1>8, <1>9, <2>1 DEF Zero, mailVars
  <2>2. CASE m # Zero /\ Whole(m)
    <3>1. m.text # NoText /\ m.text.n \in taken[t] + 1 .. written[t]
      BY <1>1, <1>2, <1>6, <1>7, <2>2
    <3>2. Channel!Take(t)
      BY <1>8, <1>9, <2>2, <3>1 DEF Channel!Take
    <3> QED
      BY <3>2 DEF Channel!Next
  <2>3. CASE m # Zero /\ ~Whole(m)
    <3>1. times[t] = 0
      BY <1>1, <1>5, <2>3
    <3>2. \E n \in taken[t] .. written[t] :
            taken' = [taken EXCEPT ![t] = n]
      <4>1. CASE m.text = NoText
        <5>1. taken' = [taken EXCEPT ![t] = taken[t]]
          BY <1>1, <1>9, <4>1
        <5>2. taken[t] \in taken[t] .. written[t]
          BY <1>1 DEF MailInv, TextInv
        <5> QED
          BY <5>1, <5>2
      <4>2. CASE m.text # NoText
        <5>1. m.text.n \in taken[t] .. written[t]
          BY <1>1, <1>2, <1>6, <4>2
        <5> QED
          BY <1>9, <4>2, <5>1
      <4> QED
        BY <4>1, <4>2
    <3>3. Channel!TakeRemains(t)
      <4>1. whole' = [whole EXCEPT ![t] = FALSE]
        BY <1>9, <2>3 DEF Whole
      <4> QED
        BY <1>8, <1>9, <2>3, <3>1, <3>2, <4>1 DEF Channel!TakeRemains
    <3> QED
      BY <3>3 DEF Channel!Next
  <2> QED
    BY <2>1, <2>2, <2>3
<1> QED
  BY <1>11, <1>12, <1>13, <1>14, <1>15 DEF MailInv

(* Every step of the chat writes to the channel, takes from it, passes on  *)
(* what was taken or leaves the channel alone, and keeps MailInv.          *)
LEMMA MailStep ==
  ASSUME IInv, [Next]_vars
  PROVE  MailInv' /\ [Channel!Next]_mailVars
<1> TypeOK /\ InExclusive /\ OffInv /\ BootInv /\ MailInv
  BY DEF IInv
<1> USE Regions
    DEF mainVars, infoVars, threadVars, serverVars, procVars, scanfVars,
        recvVars, outVars, clientVars, mailVars, Copying, MainIn, IsNew
<1>a. /\ shmem \in [Region -> Message] /\ written \in [Slot -> Nat]
      /\ taken \in [Slot -> Nat] /\ times \in [Slot -> Nat]
      /\ pc \in [Slot -> ServerPc] /\ passed \in [Slot -> Nat]
      /\ DOMAIN client_pc = Slot /\ DOMAIN send_pc = Slot
      /\ DOMAIN msg_out = Slot /\ DOMAIN msg_from_cli = Slot
      /\ DOMAIN flag_connect = Slot
  BY DEF TypeOK
<1>b. \A t, c \in Slot : region_no[t] # In(c)
  BY LoopVariable DEF TypeOK
<1>1. CASE UNCHANGED vars
  BY <1>1 DEF vars, MailInv, OutInv, TextInv,
       WholeInv, PassInv
<1>2. CASE Main \/ Interrupt
  <2>1. CASE ZeroRegion
    BY <2>1, ZeroMail
  <2>2. CASE CreateThreads
    BY <2>2 DEF CreateThreads, MailInv, OutInv, TextInv,
       WholeInv, PassInv
  <2>3. CASE Interrupt
    BY <2>3 DEF Interrupt, MailInv, OutInv, TextInv,
       WholeInv, PassInv
  <2>4. CASE StopThreads
    BY <2>4 DEF StopThreads, MailInv, OutInv, TextInv,
       WholeInv, PassInv
  <2>5. CASE Cleanup
    BY <2>5 DEF Cleanup, MailInv, OutInv, TextInv,
       WholeInv, PassInv
  <2> QED
    BY <1>2, <2>1, <2>2, <2>3, <2>4, <2>5 DEF Main
<1>3. ASSUME NEW t \in Slot, Thread(t)
      PROVE  MailInv' /\ [Channel!Next]_mailVars
  <2>1. CASE Check(t)
    BY <2>1, <1>a DEF Check, Goto, EndRound, MailInv, OutInv, TextInv,
       WholeInv, PassInv
  <2>2. CASE Enter(t)
    BY <2>2, <1>a DEF Enter, Goto, EndRound, MailInv, OutInv, TextInv,
       WholeInv, PassInv
  <2>3. CASE Take(t)
    BY <2>3, TakeMail
  <2>4. CASE Leave(t)
    BY <2>4, <1>a DEF Leave, Goto, EndRound, MailInv, OutInv, TextInv,
       WholeInv, PassInv
  <2>5. CASE Connect(t)
    BY <2>5, <1>a DEF Connect, Says, Zero, NoText, Goto, EndRound, MailInv,
       OutInv, TextInv, WholeInv, PassInv
  <2>6. CASE Disconnect(t)
    BY <2>6, <1>a DEF Disconnect, Goto, EndRound, MailInv, OutInv, TextInv,
       WholeInv, PassInv
  <2>7. CASE Accept(t)
    <3>1. /\ whole[t] /\ passed[t] < taken[t]
          /\ msg_from_cli[t].text.n = taken[t]
      BY <2>7 DEF Accept, MailInv, PassInv
    <3>2. Channel!Pass(t)
      BY <2>7, <3>1 DEF Accept, Channel!Pass
    <3>3. MailInv'
      BY <2>7, <1>a, <3>1 DEF Accept, Goto, MailInv, OutInv, TextInv, WholeInv,
         PassInv
    <3> QED
      BY <3>2, <3>3 DEF Channel!Next
  <2>8. CASE Ignore(t)
    BY <2>8, <1>a DEF Ignore, Goto, EndRound, MailInv, OutInv, TextInv,
       WholeInv, PassInv
  <2>9. CASE TryWait(t)
    BY <2>9, <1>a DEF TryWait, Goto, EndRound, MailInv, OutInv, TextInv,
       WholeInv, PassInv
  <2>10. CASE Copy(t)
    BY <2>10, <1>a, <1>b DEF Copy, Goto, MailInv, OutInv, TextInv,
       WholeInv, PassInv
  <2>11. CASE PostOut(t)
    BY <2>11, <1>a DEF PostOut, Goto, EndRound, MailInv, OutInv, TextInv,
       WholeInv, PassInv
  <2>12. CASE EndBroadcast(t)
    BY <2>12, <1>a DEF EndBroadcast, Goto, EndRound, MailInv, OutInv, TextInv,
       WholeInv, PassInv
  <2> QED
    BY <1>3, <2>1, <2>2, <2>3, <2>4, <2>5, <2>6, <2>7, <2>8, <2>9, <2>10,
       <2>11, <2>12 DEF Thread
<1>4. ASSUME NEW t \in Slot,
             Launch(t) \/ InterruptClient(t) \/ MainClient(t)
      PROVE  MailInv' /\ [Channel!Next]_mailVars
  <2>1. CASE Launch(t)
    BY <2>1, <1>a DEF Launch, CGoto, Started, OffInv, MailInv, OutInv, TextInv,
       WholeInv, PassInv
  <2>2. CASE InterruptClient(t)
    BY <2>2 DEF InterruptClient, MailInv, OutInv, TextInv,
       WholeInv, PassInv
  <2>3. CASE EnterConnect(t)
    <3>1. /\ EnterIn(t, "connect", Pid(t)) /\ Pid(t) \in Nat
          /\ UNCHANGED <<shmem, pc, flag_connect, msg_from_cli, send_pc>>
          /\ client_pc' = [client_pc EXCEPT ![t] = "connect_write"]
          /\ "connect" \in {"connect", "disconnect", "word"}
      BY <2>3 DEF EnterConnect, CGoto, Pid, TypeOK
    <3>2. /\ Copying(t)'
          /\ \A c \in Slot : c # t => (Copying(c)' <=> Copying(c))
      BY <1>a, <3>1
    <3> QED
      BY <3>1, <3>2, EnterMail
  <2>4. CASE EnterDisconnect(t)
    <3>1. /\ EnterIn(t, "disconnect", msg_out[t].flag)
          /\ msg_out[t].flag \in Nat
          /\ UNCHANGED <<shmem, pc, flag_connect, msg_from_cli, send_pc>>
          /\ client_pc' = [client_pc EXCEPT ![t] = "disconnect_write"]
          /\ "disconnect" \in {"connect", "disconnect", "word"}
      BY <2>4, MessageTypes DEF EnterDisconnect, CGoto, TypeOK
    <3>2. /\ Copying(t)'
          /\ \A c \in Slot : c # t => (Copying(c)' <=> Copying(c))
      BY <1>a, <3>1
    <3> QED
      BY <3>1, <3>2, EnterMail
  <2>5. CASE MainWrite(t)
    BY <2>5, CopyMail DEF MainWrite
  <2>6. CASE MainPost(t)
    <3>1. times[t] > 0 => Whole(shmem[In(t)])
      BY <2>6, CopiedWhole DEF MainPost
    <3>2. ASSUME NEW c \in Slot
          PROVE  Copying(c)' => Copying(c)
      BY <2>6, <1>a DEF MainPost, CGoto
    <3>3. ASSUME NEW c \in Slot, c # t
          PROVE  Copying(c)' <=> Copying(c)
      BY <2>6, <1>a, <3>3 DEF MainPost, CGoto
    <3>4. /\ UNCHANGED <<shmem, msg_out, out_todo, mailVars>>
          /\ UNCHANGED <<pc, flag_connect, msg_from_cli>>
      BY <2>6 DEF MainPost
    <3> HIDE DEF Copying
    <3> QED
      BY <3>1, <3>2, <3>3, <3>4 DEF MailInv, OutInv, TextInv, WholeInv,
         PassInv
  <2>7. CASE EndLoop(t)
    BY <2>7, <1>a DEF EndLoop, CGoto, MailInv, OutInv, TextInv,
       WholeInv, PassInv
  <2>8. CASE StopClient(t)
    BY <2>8, <1>a DEF StopClient, CGoto, MailInv, OutInv, TextInv,
       WholeInv, PassInv
  <2>9. CASE EndClient(t)
    BY <2>9, <1>a DEF EndClient, CGoto, MailInv, OutInv, TextInv,
       WholeInv, PassInv
  <2> QED
    BY <1>4, <2>1, <2>2, <2>3, <2>4, <2>5, <2>6, <2>7, <2>8, <2>9
       DEF MainClient, MainWait
<1>5. ASSUME NEW t \in Slot, SendThread(t)
      PROVE  MailInv' /\ [Channel!Next]_mailVars
  <2>1. CASE SendCheck(t)
    BY <2>1, <1>a DEF SendCheck, SGoto, MailInv, OutInv, TextInv,
       WholeInv, PassInv
  <2>2. CASE SendPoll(t)
    BY <2>2, <1>a DEF SendPoll, SGoto, MailInv, OutInv, TextInv,
       WholeInv, PassInv
  <2>3. CASE SendTry(t)
    <3>1. /\ EnterIn(t, "word", 1) /\ 1 \in Nat
          /\ UNCHANGED <<shmem, pc, flag_connect, msg_from_cli, client_pc>>
          /\ send_pc' = [send_pc EXCEPT ![t] = "copy"]
          /\ "word" \in {"connect", "disconnect", "word"}
      BY <2>3 DEF SendTry, SGoto
    <3>2. /\ Copying(t)'
          /\ \A c \in Slot : c # t => (Copying(c)' <=> Copying(c))
      BY <1>a, <3>1
    <3> QED
      BY <3>1, <3>2, EnterMail
  <2>4. CASE SendTryFails(t)
    BY <2>4, <1>a DEF SendTryFails, SGoto, MailInv, OutInv, TextInv,
       WholeInv, PassInv
  <2>5. CASE SendWrite(t)
    BY <2>5, CopyMail DEF SendWrite
  <2>6. CASE SendWord(t)
    <3>1. times[t] > 0 => Whole(shmem[In(t)])
      BY <2>6, CopiedWhole DEF SendWord
    <3>2. ~Copying(t)'
      BY <2>6, <1>a DEF SendWord, SGoto, InExclusive, ServerIn, SendIn, One,
         TypeOK
    <3>3. ASSUME NEW c \in Slot, c # t
          PROVE  (Copying(c)' <=> Copying(c)) /\ msg_out'[c] = msg_out[c]
      BY <2>6, <1>a, <3>3 DEF SendWord, SGoto
    <3>4. /\ UNCHANGED <<shmem, out_todo, mailVars>>
          /\ UNCHANGED <<pc, flag_connect, msg_from_cli>>
      BY <2>6 DEF SendWord
    <3> HIDE DEF Copying
    <3> QED
      BY <3>1, <3>2, <3>3, <3>4 DEF MailInv, OutInv, TextInv, WholeInv,
         PassInv
  <2>7. CASE SendPost(t)
    BY <2>7, <1>a DEF SendPost, SGoto, MailInv, OutInv, TextInv,
       WholeInv, PassInv
  <2> QED
    BY <1>5, <2>1, <2>2, <2>3, <2>4, <2>5, <2>6, <2>7 DEF SendThread
<1>6. ASSUME NEW t \in Slot, ScanfThread(t) \/ Type(t)
      PROVE  MailInv' /\ [Channel!Next]_mailVars
  <2>1. CASE ScanfCheck(t)
    BY <2>1 DEF ScanfCheck, MailInv, OutInv, TextInv,
       WholeInv, PassInv
  <2>2. CASE ScanfPoll(t)
    BY <2>2 DEF ScanfPoll, MailInv, OutInv, TextInv,
       WholeInv, PassInv
  <2>3. CASE Type(t)
    BY <2>3 DEF Type, MailInv, OutInv, TextInv,
       WholeInv, PassInv
  <2>4. CASE ScanfRaise(t)
    BY <2>4 DEF ScanfRaise, MailInv, OutInv, TextInv,
       WholeInv, PassInv
  <2> QED
    BY <1>6, <2>1, <2>2, <2>3, <2>4 DEF ScanfThread
<1>7. ASSUME NEW t \in Slot, RecvThread(t)
      PROVE  MailInv' /\ [Channel!Next]_mailVars
  <2>1. CASE RecvCheck(t)
    BY <2>1 DEF RecvCheck, MailInv, OutInv, TextInv,
       WholeInv, PassInv
  <2>2. CASE RecvTry(t)
    BY <2>2 DEF RecvTry, MailInv, OutInv, TextInv,
       WholeInv, PassInv
  <2>3. CASE RecvTryFails(t)
    BY <2>3 DEF RecvTryFails, MailInv, OutInv, TextInv,
       WholeInv, PassInv
  <2>4. CASE RecvCopy(t)
    BY <2>4 DEF RecvCopy, MailInv, OutInv, TextInv,
       WholeInv, PassInv
  <2>5. CASE RecvNew(t)
    BY <2>5 DEF RecvNew, MailInv, OutInv, TextInv,
       WholeInv, PassInv
  <2>6. CASE RecvWrite(t)
    BY <2>6, <1>a DEF RecvWrite, MailInv, OutInv, TextInv,
       WholeInv, PassInv
  <2>7. CASE RecvPost(t)
    BY <2>7 DEF RecvPost, MailInv, OutInv, TextInv,
       WholeInv, PassInv
  <2> QED
    BY <1>7, <2>1, <2>2, <2>3, <2>4, <2>5, <2>6, <2>7 DEF RecvThread
<1> QED
  BY <1>1, <1>2, <1>3, <1>4, <1>5, <1>6, <1>7 DEF Next, Client

-----------------------------------------------------------------------------
(* What IInv says holds in every state the two programs reach.             *)
LEMMA Invariant == Spec => []IInv
<1>1. Init => IInv
  <2> SUFFICES ASSUME Init PROVE IInv
    OBVIOUS
  <2> USE DEF Init
  <2>1. TypeOK
    <3>1. 1 = Out(0) /\ 0 \in Slot
      BY ShmAssumption DEF Slot, Out
    <3> QED
      BY <3>1, ShmAssumption, MessageTypes DEF TypeOK, ServerPc, ClientPc
  <2>2. InExclusive
    BY Regions DEF InExclusive, ServerIn, MainIn, SendIn, One
  <2>3. NeverDry
    BY Regions DEF NeverDry
  <2>4. LoopInv /\ OffInv /\ BootInv
    BY DEF LoopInv, OffInv, BootInv
  <2>5. MailInv
    BY Regions DEF MailInv, OutInv, TextInv, WholeInv, PassInv, Copying,
       MainIn, Whole, Zero, NoText
  <2> QED
    BY <2>1, <2>2, <2>3, <2>4, <2>5 DEF IInv
<1>2. IInv /\ [Next]_vars => IInv'
  BY TypeStep, ExclusiveStep, DryStep, PlaceStep, MailStep DEF IInv
<1> QED
  BY <1>1, <1>2, PTL DEF Spec

(* Every variable of the two programs keeps its type.                      *)
THEOREM TypeCorrect == Spec => []TypeOK
BY Invariant, PTL DEF IInv

(* server.c:304-311 and client.c:240-245, 258-262, 314-327: with any       *)
(* number of clients that come and go, the server's thread and the         *)
(* client's two writers are never inside the same incoming region          *)
(* together, and its semaphore is back at 1 when nobody is.                *)
THEOREM IncomingExclusive == Spec => []InExclusive
BY Invariant, PTL DEF IInv

(* server.c:350-359 and client.c:351-358: although the server posts the    *)
(* semaphore of an outgoing region without having it, the semaphore is     *)
(* never lost.                                                             *)
THEOREM SemaphoreKept == Spec => []NeverDry
BY Invariant, PTL DEF IInv

(* server.c:200-202, 304-349 and client.c:240-262, 314-327: the incoming   *)
(* regions are a channel that loses messages but keeps their order and     *)
(* gives none twice.  Although main zeroes the regions without their       *)
(* semaphores, only the first thing a thread takes may be the remains of a *)
(* message, and what is passed on to the other clients is whole.           *)
THEOREM ServerImplementsMailbox == Spec => IsMailbox
<1>1. Init => Channel!Init
  BY DEF Init, Channel!Init
<1>2. IInv /\ [Next]_vars =>
        [Channel!Next]_<<written, taken, times, whole, passed>>
  BY MailStep DEF IInv, mailVars
<1> QED
  BY <1>1, <1>2, Invariant, PTL DEF Spec, IsMailbox, Channel!Spec
=============================================================================
