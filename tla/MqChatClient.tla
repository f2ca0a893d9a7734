---------------------------- MODULE MqChatClient ----------------------------
(***************************************************************************)
(* The message-queue chat client, msg_queues_18July/                       *)
(* chat_with_common_room_queues/working_version/client.c.                  *)
(*                                                                         *)
(* The main thread announces the client with a service message, starts     *)
(* three threads and, after CTRL + C, announces the end with a second one. *)
(* The keyboard thread hands one word at a time to the sending thread      *)
(* through msg_scanf and scanf_flag; the sending thread retries a full     *)
(* queue; the receiving thread prints what arrives.                        *)
(*                                                                         *)
(* One client per slot, which may be launched again after it ended.  The   *)
(* server is the environment: ServerTakes, ServerGives and ServerEnds do   *)
(* to the queues what the server does.  MqChat replaces them by the real   *)
(* server.                                                                 *)
(***************************************************************************)
EXTENDS MqChatQueues, FiniteSets

CONSTANTS MaxTyped,     \* bound: words typed in each slot
          MaxRuns,      \* bound: times the client of a slot is launched
          Stopper,      \* bound: the slots whose user presses CTRL + C
          MaxGiven      \* bound: messages the server puts in an Out queue

ASSUME ClientAssumption == /\ MaxTyped \in [Slot -> Nat]
                           /\ MaxRuns \in [Slot -> Nat]
                           /\ Stopper \subseteq Slot
                           /\ MaxGiven \in Nat

VARIABLES
  client_pc,                            \* main thread of each client
  client_while_var, client_stop_threads, \* its main_while_var, stop_threads
  send_pc, msg_buff_send, mq_send_res,  \* func_thread_send
  scanf_pc, msg_scanf, scanf_flag,      \* func_thread_scanf and its hand-off
  recv_pc,                              \* func_thread_receive
  runs,                                 \* launches so far
  typed                                 \* words typed and not lost by an end

procVars       == <<client_pc, client_while_var, client_stop_threads>>
sendVars       == <<send_pc, msg_buff_send, mq_send_res>>
scanfVars      == <<scanf_pc, msg_scanf, scanf_flag>>
historyVars    == <<runs, typed, sent, announced, heard>>
clientVars     == <<procVars, sendVars, scanfVars, recv_pc, historyVars>>
clientSideVars == <<ques, open, clientVars>>

Nothing  == 0                   \* an empty msg_scanf or msg_buff_send
Ended    == {"off", "crashed", "killed", "exited"}

ClientInit ==
  /\ client_pc = [c \in Slot |-> "off"]
  /\ client_while_var = [c \in Slot |-> 1]
  /\ client_stop_threads = [c \in Slot |-> 0]
  /\ send_pc = [c \in Slot |-> "none"]
  /\ msg_buff_send = [c \in Slot |-> Nothing]
  /\ mq_send_res = [c \in Slot |-> 0]
  /\ scanf_pc = [c \in Slot |-> "none"]
  /\ msg_scanf = [c \in Slot |-> Nothing]
  /\ scanf_flag = [c \in Slot |-> 0]
  /\ recv_pc = [c \in Slot |-> "none"]
  /\ runs = [c \in Slot |-> 0]
  /\ typed = [c \in Slot |-> 0]
  /\ sent = [c \in Slot |-> 0]
  /\ announced = [c \in Slot |-> 0]
  /\ heard = [j \in Slot |-> [c \in Slot |-> 0]]

-----------------------------------------------------------------------------
(* The main thread.                                                        *)

\* A new process; mq_open() of both queues, which fails without a server.
Launch(c) ==
  /\ client_pc[c] \in Ended
  /\ runs[c] < MaxRuns[c]
  /\ open
  /\ runs' = [runs EXCEPT ![c] = @ + 1]
  /\ client_pc' = [client_pc EXCEPT ![c] = "connect"]
  /\ client_while_var' = [client_while_var EXCEPT ![c] = 1]
  /\ client_stop_threads' = [client_stop_threads EXCEPT ![c] = 0]
  /\ mq_send_res' = [mq_send_res EXCEPT ![c] = 0]
  /\ msg_buff_send' = [msg_buff_send EXCEPT ![c] = Nothing]
  /\ msg_scanf' = [msg_scanf EXCEPT ![c] = Nothing]
  /\ scanf_flag' = [scanf_flag EXCEPT ![c] = 0]
  /\ UNCHANGED <<ques, open, send_pc, scanf_pc, recv_pc, typed, sent,
                 announced, heard>>

Announce(c) ==
  /\ ques' = [ques EXCEPT ![In(c)] = Put(@, PRIO_SERVICE_MSG, ServiceMsg(c))]
  /\ announced' = [announced EXCEPT ![c] = @ + 1]

\* The connect message is accepted and the three threads are created.
Connect(c) ==
  /\ client_pc[c] = "connect"
  /\ ~Full(ques[In(c)])
  /\ Announce(c)
  /\ client_pc' = [client_pc EXCEPT ![c] = "loop"]
  /\ send_pc' = [send_pc EXCEPT ![c] = "check"]
  /\ recv_pc' = [recv_pc EXCEPT ![c] = "check"]
  /\ scanf_pc' = [scanf_pc EXCEPT ![c] = "check"]
  /\ UNCHANGED <<open, client_while_var, client_stop_threads, msg_buff_send,
                 mq_send_res, msg_scanf, scanf_flag, runs, typed, sent,
                 heard>>

\* The connect message is refused: END joins threads that were never created,
\* and the process dies in pthread_join() of a zero pthread_t.
ConnectFails(c) ==
  /\ client_pc[c] = "connect"
  /\ Full(ques[In(c)])
  /\ client_pc' = [client_pc EXCEPT ![c] = "crashed"]
  /\ UNCHANGED <<ques, open, client_while_var, client_stop_threads, sendVars,
                 scanfVars, recv_pc, historyVars>>

\* my_handler_CTRL_C
ClientInterrupt(c) ==
  /\ c \in Stopper
  /\ client_pc[c] = "loop" /\ client_while_var[c] = 1
  /\ client_while_var' = [client_while_var EXCEPT ![c] = 0]
  /\ UNCHANGED <<ques, open, client_pc, client_stop_threads, sendVars,
                 scanfVars, recv_pc, historyVars>>

\* The result of the disconnect message is printed and otherwise ignored.
Disconnect(c) ==
  /\ client_pc[c] = "loop" /\ client_while_var[c] = 0
  /\ IF Full(ques[In(c)]) THEN UNCHANGED <<ques, announced>> ELSE Announce(c)
  /\ client_pc' = [client_pc EXCEPT ![c] = "stop"]
  /\ UNCHANGED <<open, client_while_var, client_stop_threads, sendVars,
                 scanfVars, recv_pc, runs, typed, sent, heard>>

ClientStopThreads(c) ==
  /\ client_pc[c] = "stop"
  /\ client_stop_threads' = [client_stop_threads EXCEPT ![c] = 1]
  /\ client_pc' = [client_pc EXCEPT ![c] = "join"]
  /\ UNCHANGED <<ques, open, client_while_var, sendVars, scanfVars, recv_pc,
                 historyVars>>

\* Mutant: the keyboard thread is joined like the others.
JoinedAll(c) == \A p \in {send_pc, recv_pc, scanf_pc} : p[c] = "done"

ClientJoined(c) == send_pc[c] = "done" /\ recv_pc[c] = "done"

\* pthread_kill(thread_scanf, SIGTERM): the program has no handler for it, so
\* it ends the whole process, unless the keyboard thread is over already; then
\* main goes on to mq_close() and exit().  The word in hand is lost.
End(c) ==
  /\ client_pc[c] = "join"
  /\ ClientJoined(c)
  /\ client_pc' = [client_pc EXCEPT ![c] =
                   IF scanf_pc[c] = "done" THEN "exited" ELSE "killed"]
  /\ send_pc' = [send_pc EXCEPT ![c] = "none"]
  /\ recv_pc' = [recv_pc EXCEPT ![c] = "none"]
  /\ scanf_pc' = [scanf_pc EXCEPT ![c] = "none"]
  /\ typed' = [typed EXCEPT ![c] = sent[c]]
  /\ UNCHANGED <<ques, open, client_while_var, client_stop_threads,
                 msg_buff_send, mq_send_res, msg_scanf, scanf_flag, runs,
                 sent, announced, heard>>

ClientMain(c) == \/ Connect(c) \/ ConnectFails(c) \/ Disconnect(c)
                 \/ ClientStopThreads(c) \/ End(c)

-----------------------------------------------------------------------------
(* func_thread_send                                                        *)

SendGoto(c, l) == send_pc' = [send_pc EXCEPT ![c] = l]

SendCheck(c) ==
  /\ send_pc[c] = "check"
  /\ SendGoto(c, IF client_stop_threads[c] = 1 THEN "done" ELSE "poll")
  /\ UNCHANGED <<ques, open, procVars, msg_buff_send, mq_send_res, scanfVars,
                 recv_pc, historyVars>>

\* Nothing to send: sleep(1).
SendIdle(c) ==
  /\ send_pc[c] = "poll" /\ scanf_flag[c] = 0
  /\ SendGoto(c, "check")
  /\ UNCHANGED <<ques, open, procVars, msg_buff_send, mq_send_res, scanfVars,
                 recv_pc, historyVars>>

\* Take the word, unless the last mq_send() failed: then the buffer has it.
SendTake(c) ==
  /\ send_pc[c] = "poll" /\ scanf_flag[c] = 1
  /\ msg_buff_send' = IF mq_send_res[c] = -1 THEN msg_buff_send
                      ELSE [msg_buff_send EXCEPT ![c] = msg_scanf[c]]
  /\ SendGoto(c, "send")
  /\ UNCHANGED <<ques, open, procVars, mq_send_res, scanfVars, recv_pc,
                 historyVars>>

SendPost(c) ==
  /\ send_pc[c] = "send"
  /\ ~Full(ques[In(c)])
  /\ ques' = [ques EXCEPT ![In(c)] = Put(@, PRIO_REGULAR_MSG,
                                         RegularMsg(c, msg_buff_send[c]))]
  /\ sent' = [sent EXCEPT ![c] = @ + 1]
  /\ mq_send_res' = [mq_send_res EXCEPT ![c] = 0]
  /\ SendGoto(c, "clear")
  /\ UNCHANGED <<open, procVars, msg_buff_send, scanfVars, recv_pc, runs,
                 typed, announced, heard>>

\* Mutant: the word is given up.
SendRefusedDrops(c) ==
  /\ send_pc[c] = "send"
  /\ Full(ques[In(c)])
  /\ mq_send_res' = [mq_send_res EXCEPT ![c] = 0]
  /\ scanf_flag' = [scanf_flag EXCEPT ![c] = 0]
  /\ SendGoto(c, "check")
  /\ UNCHANGED <<ques, open, procVars, msg_buff_send, scanf_pc, msg_scanf,
                 recv_pc, historyVars>>

SendRefused(c) ==
  /\ send_pc[c] = "send"
  /\ Full(ques[In(c)])
  /\ mq_send_res' = [mq_send_res EXCEPT ![c] = -1]
  /\ SendGoto(c, "check")
  /\ UNCHANGED <<ques, open, procVars, msg_buff_send, scanfVars, recv_pc,
                 historyVars>>

\* memset() of both buffers
SendClear(c) ==
  /\ send_pc[c] = "clear"
  /\ msg_buff_send' = [msg_buff_send EXCEPT ![c] = Nothing]
  /\ msg_scanf' = [msg_scanf EXCEPT ![c] = Nothing]
  /\ SendGoto(c, "release")
  /\ UNCHANGED <<ques, open, procVars, mq_send_res, scanf_pc, scanf_flag,
                 recv_pc, historyVars>>

\* Mutant: the flag stays up after the word was sent.
SendReleaseNot(c) ==
  /\ send_pc[c] = "release"
  /\ SendGoto(c, "check")
  /\ UNCHANGED <<ques, open, procVars, msg_buff_send, mq_send_res, scanf_pc,
                 msg_scanf, scanf_flag, recv_pc, historyVars>>

SendRelease(c) ==
  /\ send_pc[c] = "release"
  /\ scanf_flag' = [scanf_flag EXCEPT ![c] = 0]
  /\ SendGoto(c, "check")
  /\ UNCHANGED <<ques, open, procVars, msg_buff_send, mq_send_res, scanf_pc,
                 msg_scanf, recv_pc, historyVars>>

SendThread(c) == \/ SendCheck(c) \/ SendIdle(c) \/ SendTake(c) \/ SendPost(c)
                 \/ SendRefused(c) \/ SendClear(c) \/ SendRelease(c)

-----------------------------------------------------------------------------
(* func_thread_scanf                                                       *)

ScanfGoto(c, l) == scanf_pc' = [scanf_pc EXCEPT ![c] = l]

ScanfCheck(c) ==
  /\ scanf_pc[c] = "check"
  /\ ScanfGoto(c, IF client_stop_threads[c] = 1 THEN "done" ELSE "poll")
  /\ UNCHANGED <<ques, open, procVars, sendVars, msg_scanf, scanf_flag,
                 recv_pc, historyVars>>

\* Mutant: the keyboard thread does not wait for the flag.
ScanfPollAlways(c) ==
  /\ scanf_pc[c] = "poll"
  /\ ScanfGoto(c, "scan")
  /\ UNCHANGED <<ques, open, procVars, sendVars, msg_scanf, scanf_flag,
                 recv_pc, historyVars>>

ScanfPoll(c) ==
  /\ scanf_pc[c] = "poll"
  /\ ScanfGoto(c, IF scanf_flag[c] = 0 THEN "scan" ELSE "check")
  /\ UNCHANGED <<ques, open, procVars, sendVars, msg_scanf, scanf_flag,
                 recv_pc, historyVars>>

\* The user types a word and scanf() returns.
Type(c) ==
  /\ scanf_pc[c] = "scan"
  /\ typed[c] < MaxTyped[c]
  /\ typed' = [typed EXCEPT ![c] = @ + 1]
  /\ msg_scanf' = [msg_scanf EXCEPT ![c] = typed[c] + 1]
  /\ ScanfGoto(c, "raise")
  /\ UNCHANGED <<ques, open, procVars, sendVars, scanf_flag, recv_pc, runs,
                 sent, announced, heard>>

ScanfRaise(c) ==
  /\ scanf_pc[c] = "raise"
  /\ scanf_flag' = [scanf_flag EXCEPT ![c] = 1]
  /\ ScanfGoto(c, "check")
  /\ UNCHANGED <<ques, open, procVars, sendVars, msg_scanf, recv_pc,
                 historyVars>>

ScanfThread(c) == ScanfCheck(c) \/ ScanfPoll(c) \/ ScanfRaise(c)

-----------------------------------------------------------------------------
(* func_thread_receive                                                     *)

RecvCheck(c) ==
  /\ recv_pc[c] = "check"
  /\ recv_pc' = [recv_pc EXCEPT ![c] =
                   IF client_stop_threads[c] = 1 THEN "done" ELSE "receive"]
  /\ UNCHANGED <<ques, open, procVars, sendVars, scanfVars, historyVars>>

RecvTake(c) ==
  /\ recv_pc[c] = "receive"
  /\ ~NoMessage(ques[Out(c)])
  /\ LET m == Front(ques[Out(c)]) IN heard' = [heard EXCEPT ![c][m.from] = m.n]
  /\ ques' = [ques EXCEPT ![Out(c)] = Rest(@)]
  /\ recv_pc' = [recv_pc EXCEPT ![c] = "check"]
  /\ UNCHANGED <<open, procVars, sendVars, scanfVars, runs, typed, sent,
                 announced>>

RecvEmpty(c) ==
  /\ recv_pc[c] = "receive"
  /\ NoMessage(ques[Out(c)])
  /\ recv_pc' = [recv_pc EXCEPT ![c] = "check"]
  /\ UNCHANGED <<ques, open, procVars, sendVars, scanfVars, historyVars>>

RecvThread(c) == RecvCheck(c) \/ RecvTake(c) \/ RecvEmpty(c)

User(c) == Launch(c) \/ ClientInterrupt(c) \/ Type(c)

Client(c) == \/ User(c) \/ ClientMain(c) \/ SendThread(c) \/ ScanfThread(c)
             \/ RecvThread(c)

-----------------------------------------------------------------------------
(* The environment: a server that takes from the slot's incoming queue and *)
(* gives another slot's words to its outgoing one.                         *)

ServerEnvInit == /\ ques = [q \in Queue |-> EmptyQueue]
                 /\ open = TRUE

ServerTakes(c) ==
  /\ ~NoMessage(ques[In(c)])
  /\ ques' = [ques EXCEPT ![In(c)] = Rest(@)]
  /\ UNCHANGED <<open, clientVars>>

\* The words of slot d reach slot j in order: each larger than the last.
ServerGives(j, d) ==
  /\ j # d
  /\ ~Full(ques[Out(j)])
  /\ LET inQueue == ques[Out(j)][PRIO_REGULAR_MSG]
         past == {heard[j][d]} \cup
                 {inQueue[k].n : k \in {i \in DOMAIN inQueue :
                                          inQueue[i].from = d}}
     IN \E n \in 1 .. MaxGiven, tl \in {"clean", "garbage"} :
          /\ \A p \in past : p < n
          /\ ques' = [ques EXCEPT ![Out(j)] =
                        Put(@, PRIO_REGULAR_MSG,
                            [RegularMsg(d, n) EXCEPT !.tail = tl])]
  /\ UNCHANGED <<open, clientVars>>

\* The server is over and has removed the queues' names.
ServerEnds == open /\ open' = FALSE /\ UNCHANGED <<ques, clientVars>>

Env == \/ ServerEnds
       \/ \E c \in Slot : \/ ServerTakes(c)
                          \/ \E d \in Slot : ServerGives(c, d)

-----------------------------------------------------------------------------
ClientSideInit == ClientInit /\ ServerEnvInit

ClientSideNext == \/ Env
                  \/ \E c \in Slot : Client(c) /\ UNCHANGED open

ClientSideSpec == ClientSideInit /\ [][ClientSideNext]_clientSideVars

\* The threads of a client are scheduled; the user and the server owe nothing.
ClientFairness(c) ==
  /\ WF_clientSideVars(ClientMain(c) /\ UNCHANGED open)
  /\ WF_clientSideVars(SendThread(c) /\ UNCHANGED open)
  /\ WF_clientSideVars(ScanfThread(c) /\ UNCHANGED open)
  /\ WF_clientSideVars(RecvThread(c) /\ UNCHANGED open)

ClientSideFairSpec == ClientSideSpec /\ \A c \in Slot : ClientFairness(c)

-----------------------------------------------------------------------------
(* Properties.                                                             *)

\* Every variable has its type.
ClientTypeOK ==
  /\ ques \in [Queue -> [Prio -> Seq(Message)]]
  /\ open \in BOOLEAN
  /\ client_pc \in [Slot -> Ended \cup {"connect", "loop", "stop", "join"}]
  /\ client_while_var \in [Slot -> {0, 1}]
  /\ client_stop_threads \in [Slot -> {0, 1}]
  /\ send_pc \in [Slot -> {"none", "check", "poll", "send", "clear",
                           "release", "done"}]
  /\ msg_buff_send \in [Slot -> Nat] /\ mq_send_res \in [Slot -> {-1, 0}]
  /\ scanf_pc \in [Slot -> {"none", "check", "poll", "scan", "raise", "done"}]
  /\ msg_scanf \in [Slot -> Nat] /\ scanf_flag \in [Slot -> {0, 1}]
  /\ recv_pc \in [Slot -> {"none", "check", "receive", "done"}]
  /\ runs \in [Slot -> Nat] /\ typed \in [Slot -> Nat]
  /\ sent \in [Slot -> Nat] /\ announced \in [Slot -> Nat]
  /\ heard \in [Slot -> [Slot -> Nat]]

\* While the keyboard thread fills msg_scanf, the sending thread is not using
\* it: scanf_flag alone passes the buffer from one to the other, with no lock
\* (client.c:196-211, 224-226).
HandOff ==
  \A c \in Slot : scanf_pc[c] \in {"scan", "raise"} =>
    /\ scanf_flag[c] = 0
    /\ send_pc[c] \notin {"send", "clear", "release"}

\* Whatever the queue refuses and however often the client is launched, the
\* words a client posts are those typed, in order, each once, and at most one
\* is in hand (client.c:196-212: the retry keeps the word, a success drops it):
\* the n-th word that enters the queue is word n, so those in the queue are the
\* last ones posted.
EachWordOnce ==
  \A c \in Slot :
    /\ typed[c] - sent[c] \in {0, 1}
    /\ LET s == ques[In(c)][PRIO_REGULAR_MSG]
       IN \A k \in DOMAIN s : s[k] = RegularMsg(c, sent[c] - Len(s) + k)

\* CTRL + C ends the client even if the user never types again, although the
\* keyboard thread then sits in scanf() for ever (client.c:158-169).
ClientEnds ==
  \A c \in Slot : client_while_var[c] = 0 ~> client_pc[c] \in Ended

\* A word that was typed is sent, unless the client is told to end or the
\* queue is full from then on: the retry loop does not lose it.
WordIsPosted ==
  \A c \in Slot : (typed[c] > sent[c]) ~>
                    \/ typed[c] = sent[c]
                    \/ client_while_var[c] = 0
                    \/ [](Full(ques[In(c)]))
=============================================================================
