---------------------------- MODULE MqChatServer ----------------------------
(***************************************************************************)
(* The message-queue chat server, msg_queues_18July/                       *)
(* chat_with_common_room_queues/working_version/server.c.                  *)
(*                                                                         *)
(* One thread per client slot polls the slot's incoming queue (number 2t), *)
(* keeps the slot's connected flag, and copies every ordinary message into *)
(* the outgoing queue (number 2u+1) of every other slot u.  The main       *)
(* thread waits for CTRL + C, stops the threads and removes the queues.    *)
(*                                                                         *)
(* The clients are the environment: ClientSays, ClientAnnounces and        *)
(* ClientHears do what the client program does to the queues.  MqChat      *)
(* replaces them by the real client.                                       *)
(***************************************************************************)
EXTENDS MqChatQueues, FiniteSets

CONSTANTS MaxRegular,   \* bound: ordinary messages each client sends
          MaxService,   \* bound: connect/disconnect messages each sends
          MayStop,      \* bound: whether the server gets its CTRL + C
          Leftover      \* what an uninitialised buffer may hold

ASSUME ServerAssumption == /\ MaxRegular \in [Slot -> Nat]
                           /\ MaxService \in [Slot -> Nat]
                           /\ MayStop \in BOOLEAN
                           /\ Leftover \subseteq Tail256

NoPrio  == 0            \* `prio' before the first mq_receive() sets it

VARIABLES
  mutex_ques,                   \* which thread holds the mutex of a queue
  flag_connect,                 \* clients_info[t].flag_connect
  clients_connected_count,
  main_while_var, stop_threads, \* the two stop flags
  main_pc,                      \* the main thread
  pc, msg_buff, prio, que_no,   \* thread t: control, buffer, priority, loop i
  count_read,                   \* the count a thread has loaded to change it
  dirty                         \* thread t has not yet cleared its buffer

threadVars     == <<pc, msg_buff, prio, que_no, count_read, dirty>>
mainVars       == <<main_while_var, stop_threads, main_pc, open>>
infoVars       == <<flag_connect, clients_connected_count>>
serverVars     == <<mutex_ques, infoVars, mainVars, threadVars>>
envVars        == <<sent, announced, heard>>
serverSideVars == <<ques, serverVars, envVars>>

ServerInit ==
  /\ mutex_ques = [q \in Queue |-> Nobody]
  /\ flag_connect = [t \in Slot |-> 0]
  /\ clients_connected_count = 0
  /\ main_while_var = 1 /\ stop_threads = 0
  /\ main_pc = "loop" /\ open = TRUE
  /\ pc = [t \in Slot |-> "check"]
  /\ msg_buff = [t \in Slot |-> NoMsg]
  /\ prio = [t \in Slot |-> NoPrio]
  /\ que_no = [t \in Slot |-> 1]
  /\ count_read = [t \in Slot |-> 0]
  /\ dirty = [t \in Slot |-> TRUE]

-----------------------------------------------------------------------------
(* The thread of slot t: func_thread_client                                *)

Goto(t, l) == pc' = [pc EXCEPT ![t] = l]

\* Mutant: while (stop_threads), the condition the wrong way round.
CheckInverted(t) ==
  /\ pc[t] = "check"
  /\ Goto(t, IF stop_threads = 0 THEN "done" ELSE "trylock")
  /\ UNCHANGED <<ques, mutex_ques, infoVars, mainVars, msg_buff, prio, que_no,
                 count_read, dirty>>

\* while (stop_threads != 1)
Check(t) ==
  /\ pc[t] = "check"
  /\ Goto(t, IF stop_threads = 1 THEN "done" ELSE "trylock")
  /\ UNCHANGED <<ques, mutex_ques, infoVars, mainVars, msg_buff, prio, que_no,
                 count_read, dirty>>

\* A failed trylock skips the receive and falls through to the dispatch.
TryLock(t) ==
  /\ pc[t] = "trylock"
  /\ LET free == mutex_ques[In(t)] = Nobody IN
       /\ mutex_ques' = IF free THEN [mutex_ques EXCEPT ![In(t)] = t]
                                ELSE mutex_ques
       /\ Goto(t, IF free THEN "receive" ELSE "dispatch")
  /\ UNCHANGED <<ques, infoVars, mainVars, msg_buff, prio, que_no, count_read,
                 dirty>>

\* Until its first memset the buffer holds whatever the stack held.
TailAfterReceive(t) == IF dirty[t] THEN Leftover ELSE {"clean"}

Receive(t) ==
  /\ pc[t] = "receive"
  /\ ~NoMessage(ques[In(t)])
  /\ \E tl \in TailAfterReceive(t) :
       msg_buff' = [msg_buff EXCEPT ![t] =
                      [Front(ques[In(t)]) EXCEPT !.tail = tl]]
  /\ prio' = [prio EXCEPT ![t] = TopPrio(ques[In(t)])]
  /\ ques' = [ques EXCEPT ![In(t)] = Rest(@)]
  /\ Goto(t, "unlock")
  /\ UNCHANGED <<mutex_ques, infoVars, mainVars, que_no, count_read, dirty>>

\* Mutant: without the `continue', a failed receive is dispatched.
ReceiveEmptyFallsThrough(t) ==
  /\ pc[t] = "receive"
  /\ NoMessage(ques[In(t)])
  /\ mutex_ques' = [mutex_ques EXCEPT ![In(t)] = Nobody]
  /\ Goto(t, "dispatch")
  /\ UNCHANGED <<ques, infoVars, mainVars, msg_buff, prio, que_no, count_read,
                 dirty>>

\* mq_receive() failed with EAGAIN: unlock and continue.
ReceiveEmpty(t) ==
  /\ pc[t] = "receive"
  /\ NoMessage(ques[In(t)])
  /\ mutex_ques' = [mutex_ques EXCEPT ![In(t)] = Nobody]
  /\ Goto(t, "check")
  /\ UNCHANGED <<ques, infoVars, mainVars, msg_buff, prio, que_no, count_read,
                 dirty>>

Unlock(t) ==
  /\ pc[t] = "unlock"
  /\ mutex_ques' = [mutex_ques EXCEPT ![In(t)] = Nobody]
  /\ Goto(t, "dispatch")
  /\ UNCHANGED <<ques, infoVars, mainVars, msg_buff, prio, que_no, count_read,
                 dirty>>

\* Mutant: the flag is not set.
NextFlagKept(t) == flag_connect[t]

NextFlag(t) == 1 - flag_connect[t]

\* A service message toggles the slot's flag, then the thread loads the
\* shared count, which no lock protects, to change it by one.
Service(t) ==
  /\ pc[t] = "dispatch"
  /\ prio[t] = PRIO_SERVICE_MSG
  /\ flag_connect' = [flag_connect EXCEPT ![t] = NextFlag(t)]
  /\ count_read' = [count_read EXCEPT ![t] = clients_connected_count]
  /\ Goto(t, "count")
  /\ UNCHANGED <<ques, mutex_ques, clients_connected_count, mainVars, msg_buff,
                 prio, que_no, dirty>>

\* clients_connected_count++ or --: the store of the changed count.
StoreCount(t) ==
  /\ pc[t] = "count"
  /\ clients_connected_count' =
       count_read[t] + (IF flag_connect[t] = 1 THEN 1 ELSE -1)
  /\ count_read' = [count_read EXCEPT ![t] = 0]
  /\ Goto(t, "clear")
  /\ UNCHANGED <<ques, mutex_ques, flag_connect, mainVars, msg_buff, prio,
                 que_no, dirty>>

Regular(t) ==
  /\ pc[t] = "dispatch"
  /\ prio[t] # PRIO_SERVICE_MSG
  /\ que_no' = [que_no EXCEPT ![t] = 1]
  /\ Goto(t, IF prio[t] = PRIO_REGULAR_MSG THEN "broadcast" ELSE "clear")
  /\ UNCHANGED <<ques, mutex_ques, infoVars, mainVars, msg_buff, prio,
                 count_read, dirty>>

\* Mutants: the sender's own queue is not left out; i++ for i += 2.
IsTargetAll(t, i) == TRUE
NextQueByOne(t)   == que_no' = [que_no EXCEPT ![t] = @ + 1]

\* for (i = 1; i < MAX_CLIENTS * 2; i += 2) if (i != num_que_in + 1)
InLoop(t)      == que_no[t] < 2 * MAX_CLIENTS
IsTarget(t, i) == i # Out(t)
NextQue(t)     == que_no' = [que_no EXCEPT ![t] = @ + 2]

SkipOwn(t) ==
  /\ pc[t] = "broadcast" /\ InLoop(t)
  /\ ~IsTarget(t, que_no[t])
  /\ NextQue(t)
  /\ UNCHANGED <<ques, mutex_ques, infoVars, mainVars, pc, msg_buff, prio,
                 count_read, dirty>>

LockOut(t) ==
  /\ pc[t] = "broadcast" /\ InLoop(t)
  /\ IsTarget(t, que_no[t])
  /\ mutex_ques[que_no[t]] = Nobody
  /\ mutex_ques' = [mutex_ques EXCEPT ![que_no[t]] = t]
  /\ Goto(t, "send")
  /\ UNCHANGED <<ques, infoVars, mainVars, msg_buff, prio, que_no, count_read,
                 dirty>>

\* The result of mq_send() is ignored: a full queue (EAGAIN) and a text
\* longer than mq_msgsize (EMSGSIZE) lose the message.
SendFails(t) == Full(ques[que_no[t]]) \/ msg_buff[t].tail = "overlong"

SendOut(t) ==
  /\ pc[t] = "send"
  /\ ques' = IF SendFails(t) THEN ques
             ELSE [ques EXCEPT ![que_no[t]] =
                     Put(@, PRIO_REGULAR_MSG, msg_buff[t])]
  /\ Goto(t, "unlock_out")
  /\ UNCHANGED <<mutex_ques, infoVars, mainVars, msg_buff, prio, que_no,
                 count_read, dirty>>

UnlockOut(t) ==
  /\ pc[t] = "unlock_out"
  /\ mutex_ques' = [mutex_ques EXCEPT ![que_no[t]] = Nobody]
  /\ NextQue(t)
  /\ Goto(t, "broadcast")
  /\ UNCHANGED <<ques, infoVars, mainVars, msg_buff, prio, count_read, dirty>>

EndBroadcast(t) ==
  /\ pc[t] = "broadcast" /\ ~InLoop(t)
  /\ que_no' = [que_no EXCEPT ![t] = 1]
  /\ Goto(t, "clear")
  /\ UNCHANGED <<ques, mutex_ques, infoVars, mainVars, msg_buff, prio,
                 count_read, dirty>>

\* Mutant: without the memset the next text is followed by the last one.
ClearBuffNot(t) ==
  /\ pc[t] = "clear"
  /\ Goto(t, "check")
  /\ UNCHANGED <<ques, mutex_ques, infoVars, mainVars, msg_buff, prio, que_no,
                 count_read, dirty>>

\* memset(msg_buff, 0, Q_SIZE); `prio' keeps its value.
ClearBuff(t) ==
  /\ pc[t] = "clear"
  /\ msg_buff' = [msg_buff EXCEPT ![t] = NoMsg]
  /\ dirty' = [dirty EXCEPT ![t] = FALSE]
  /\ Goto(t, "check")
  /\ UNCHANGED <<ques, mutex_ques, infoVars, mainVars, prio, que_no,
                 count_read>>

Thread(t) ==
  \/ Check(t) \/ TryLock(t) \/ Receive(t) \/ ReceiveEmpty(t) \/ Unlock(t)
  \/ Service(t) \/ StoreCount(t) \/ Regular(t)
  \/ SkipOwn(t) \/ LockOut(t) \/ SendOut(t) \/ UnlockOut(t) \/ EndBroadcast(t)
  \/ ClearBuff(t)

-----------------------------------------------------------------------------
(* The main thread.                                                        *)

\* my_handler_CTRL_C
ServerInterrupt ==
  /\ MayStop
  /\ main_pc = "loop" /\ main_while_var = 1
  /\ main_while_var' = 0
  /\ UNCHANGED <<ques, mutex_ques, infoVars, stop_threads, main_pc, open,
                 threadVars>>

\* Mutant: the threads are not told.
ServerStopThreadsNot ==
  /\ main_pc = "loop" /\ main_while_var = 0
  /\ main_pc' = "join"
  /\ UNCHANGED <<ques, mutex_ques, infoVars, main_while_var, stop_threads,
                 open, threadVars>>

ServerStopThreads ==
  /\ main_pc = "loop" /\ main_while_var = 0
  /\ stop_threads' = 1
  /\ main_pc' = "join"
  /\ UNCHANGED <<ques, mutex_ques, infoVars, main_while_var, open, threadVars>>

ServerJoined == \A t \in Slot : pc[t] = "done"

\* All threads joined: destroy the mutexes, close and unlink the queues, free.
Cleanup ==
  /\ main_pc = "join"
  /\ ServerJoined
  /\ open' = FALSE
  /\ main_pc' = "exit"
  /\ UNCHANGED <<ques, mutex_ques, infoVars, main_while_var, stop_threads,
                 threadVars>>

ServerMain == ServerInterrupt \/ ServerStopThreads \/ Cleanup

Server == ServerMain \/ \E t \in Slot : Thread(t)

-----------------------------------------------------------------------------
(***************************************************************************)
(* The environment: clients that send into their slot's incoming queue,    *)
(* numbering their ordinary messages, and receive from its outgoing one.   *)
(***************************************************************************)
ClientsInit == /\ ques = [q \in Queue |-> EmptyQueue]
               /\ sent = [c \in Slot |-> 0]
               /\ announced = [c \in Slot |-> 0]
               /\ heard = [j \in Slot |-> [c \in Slot |-> 0]]

ClientSays(c) ==
  /\ sent[c] < MaxRegular[c]
  /\ ~Full(ques[In(c)])
  /\ ques' = [ques EXCEPT ![In(c)] = Put(@, PRIO_REGULAR_MSG,
                                         RegularMsg(c, sent[c] + 1))]
  /\ sent' = [sent EXCEPT ![c] = @ + 1]
  /\ UNCHANGED <<serverVars, announced, heard>>

ClientAnnounces(c) ==
  /\ announced[c] < MaxService[c]
  /\ ~Full(ques[In(c)])
  /\ ques' = [ques EXCEPT ![In(c)] = Put(@, PRIO_SERVICE_MSG, ServiceMsg(c))]
  /\ announced' = [announced EXCEPT ![c] = @ + 1]
  /\ UNCHANGED <<serverVars, sent, heard>>

ClientHears(j) ==
  /\ ~NoMessage(ques[Out(j)])
  /\ LET m == Front(ques[Out(j)]) IN heard' = [heard EXCEPT ![j][m.from] = m.n]
  /\ ques' = [ques EXCEPT ![Out(j)] = Rest(@)]
  /\ UNCHANGED <<serverVars, sent, announced>>

AnyClient(c) == ClientSays(c) \/ ClientAnnounces(c) \/ ClientHears(c)

-----------------------------------------------------------------------------
ServerSideInit == ServerInit /\ ClientsInit

ServerSideNext == \/ Server /\ UNCHANGED envVars
                  \/ \E c \in Slot : AnyClient(c)

ServerSideSpec == ServerSideInit /\ [][ServerSideNext]_serverSideVars

(***************************************************************************)
(* Every thread of the server is scheduled; pthread_mutex_lock() returns   *)
(* once the mutex stays free.  CTRL + C and the clients owe nothing.       *)
(***************************************************************************)
ServerFairness ==
  /\ WF_serverSideVars((ServerStopThreads \/ Cleanup) /\ UNCHANGED envVars)
  /\ \A t \in Slot : WF_serverSideVars(Thread(t) /\ UNCHANGED envVars)

ServerSideFairSpec == ServerSideSpec /\ ServerFairness

-----------------------------------------------------------------------------
(* Properties.                                                             *)

ThreadPc == {"check", "trylock", "receive", "unlock", "dispatch", "count",
             "broadcast", "send", "unlock_out", "clear", "done"}

\* Every variable has its type.
ServerTypeOK ==
  /\ ques \in [Queue -> [Prio -> Seq(Message)]]
  /\ mutex_ques \in [Queue -> Slot \cup {Nobody}]
  /\ flag_connect \in [Slot -> {0, 1}]
  /\ clients_connected_count \in Int
  /\ main_while_var \in {0, 1} /\ stop_threads \in {0, 1}
  /\ main_pc \in {"loop", "join", "exit"} /\ open \in BOOLEAN
  /\ pc \in [Slot -> ThreadPc]
  /\ msg_buff \in [Slot -> Message \cup {NoMsg}]
  /\ prio \in [Slot -> Prio \cup {NoPrio}]
  /\ que_no \in [Slot -> Nat]
  /\ count_read \in [Slot -> Int]
  /\ dirty \in [Slot -> BOOLEAN]
  /\ sent \in [Slot -> Nat] /\ announced \in [Slot -> Nat]
  /\ heard \in [Slot -> [Slot -> Nat]]

Holds(t, q) == \/ q = In(t) /\ pc[t] \in {"receive", "unlock"}
               \/ q = que_no[t] /\ pc[t] \in {"send", "unlock_out"}

\* A mutex of mutex_ques is held exactly by the thread that is between its
\* lock and its unlock of that queue; in particular no two threads are ever
\* both inside the critical section of one queue (server.c:245-254, 282-284).
MutexInv == \A q \in Queue, t \in Slot : mutex_ques[q] = t <=> Holds(t, q)

\* A thread dispatches and copies only a message it has received.  The code
\* dispatches `prio' and `msg_buff' even when its trylock fails (server.c:245,
\* 257), so this rests on nobody else ever holding an incoming queue's mutex.
NoStaleDispatch ==
  \A t \in Slot :
    pc[t] \in {"unlock", "dispatch", "broadcast", "send", "unlock_out"} =>
      msg_buff[t] \in Message

\* Service messages a slot's thread has not applied to the flag yet.
Unapplied(t) ==
  Len(ques[In(t)][PRIO_SERVICE_MSG])
    + (IF pc[t] \in {"unlock", "dispatch"} /\ prio[t] = PRIO_SERVICE_MSG
         THEN 1 ELSE 0)

\* The connected flag is the parity of the service messages the kernel has
\* accepted for the slot, whatever ordinary messages overtook them by their
\* higher priority: none is lost and none applied twice (server.c:257-272).
FlagIsParity ==
  \A t \in Slot : flag_connect[t] = (announced[t] - Unapplied(t)) % 2

\* When main destroys the mutexes, unlinks the queues and frees the arrays
\* (server.c:185-217), no thread runs and no mutex is held.
CleanupIsSafe ==
  main_pc = "exit" => /\ \A t \in Slot : pc[t] = "done"
                      /\ \A q \in Queue : mutex_ques[q] = Nobody

(***************************************************************************)
(* Why the order of a client's messages survives its thread, the queues    *)
(* and the others' threads: along the way from the client's queue through  *)
(* the thread's buffer to another client, numbers only fall.               *)
(***************************************************************************)
Regulars(q) == ques[q][PRIO_REGULAR_MSG]

\* Thread i holds an ordinary message it has not finished copying.
InHand(i) ==
  /\ pc[i] \in {"unlock", "dispatch", "broadcast", "send", "unlock_out"}
  /\ prio[i] = PRIO_REGULAR_MSG

\* Only the first message a slot's thread receives can carry bytes that its
\* client did not send, or be too long to be copied: it is the client's first
\* word, and no service message was applied before it (server.c:236-247, 289).
LeftoverOnlyFirst ==
  /\ \A t \in Slot : InHand(t) /\ msg_buff[t].tail # "clean" =>
       msg_buff[t].n = 1 /\ Unapplied(t) = announced[t]
  /\ \A j \in Slot : \A k \in DOMAIN Regulars(Out(j)) :
       Regulars(Out(j))[k].tail # "clean" => Regulars(Out(j))[k].n = 1

\* It has already tried to put that message in j's queue.
Given(i, j) == /\ pc[i] \in {"broadcast", "send", "unlock_out"}
               /\ \/ Out(j) < que_no[i]
                  \/ Out(j) = que_no[i] /\ pc[i] = "unlock_out"

\* The numbers of i's messages that j has queued, and of the last received.
Past(i, j) ==
  LET s == Regulars(Out(j))
  IN {heard[j][i]} \cup {s[k].n : k \in {l \in DOMAIN s : s[l].from = i}}

\* A slot's incoming queue holds its client's messages in order (mq_send at
\* client.c:204, mq_receive at server.c:247).
InOrdered ==
  \A i \in Slot : LET s == Regulars(In(i)) IN
    /\ \A k \in DOMAIN s : s[k].from = i /\ s[k].n <= sent[i] /\ 0 < s[k].n
    /\ \A k, l \in DOMAIN s : k < l => s[k].n < s[l].n

\* The message in a thread's buffer is older than those in its queue.
HandOrdered ==
  \A i \in Slot : InHand(i) =>
    /\ msg_buff[i].from = i /\ msg_buff[i].n <= sent[i] /\ 0 < msg_buff[i].n
    /\ \A k \in DOMAIN Regulars(In(i)) :
         msg_buff[i].n < Regulars(In(i))[k].n

\* An outgoing queue holds only the others' messages, each sender's in order
\* and none already received (server.c:279-284).
OutOrdered ==
  \A j \in Slot : LET s == Regulars(Out(j)) IN
    /\ ques[Out(j)][PRIO_SERVICE_MSG] = << >>
    /\ \A k \in DOMAIN s : s[k].from # j /\ heard[j][s[k].from] < s[k].n
    /\ \A k, l \in DOMAIN s :
         k < l /\ s[k].from = s[l].from => s[k].n < s[l].n

\* What has reached j is older than what i's thread and queue still hold.
PastOrdered ==
  \A i, j \in Slot : \A n \in Past(i, j) :
    /\ n <= sent[i]
    /\ \A k \in DOMAIN Regulars(In(i)) : n < Regulars(In(i))[k].n
    /\ InHand(i) => /\ n <= msg_buff[i].n
                    /\ ~Given(i, j) => n < msg_buff[i].n

FifoInv == InOrdered /\ HandOrdered /\ OutOrdered /\ PastOrdered

\* The server, for its clients, is a common room: each hears the others'
\* messages in the order they were sent, none twice, none of its own.
Room == INSTANCE ChatRoom WITH Member <- Slot, said <- sent
IsChatRoom == Room!Spec

\* CTRL + C ends the server: no thread is left waiting for a mutex or reading
\* its queue for ever, so main's joins return (server.c:174-183).
\* (Neither condition ends once it holds: this is main_while_var = 0 ~> exit.)
ShutdownCompletes == []<>(main_while_var = 1 \/ main_pc = "exit")

\* Every slot's queue is drained, service messages included, until the server
\* is told to stop: no broadcast blocks a thread for ever.
QueueIsServed ==
  \A t \in Slot : []<>(NoMessage(ques[In(t)]) \/ stop_threads = 1)
=============================================================================
