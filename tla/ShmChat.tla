------------------------------ MODULE ShmChat -------------------------------
(***************************************************************************)
(* The shared-memory chat, shmem_and_sem_19July/                           *)
(* chat_with_common_room_shmem_sem/{server,client}.c, both programs.       *)
(*                                                                         *)
(* Slot c has an incoming region (number 2c, client to server) and an      *)
(* outgoing one (2c+1), each with a semaphore that starts at 1 and holds   *)
(* one message.  The slot's server thread takes what is in the incoming    *)
(* region, keeps the slot's connected flag and copies an ordinary message  *)
(* of a connected client into everybody else's outgoing region.  A         *)
(* client's main thread writes "connect" and "disconnect", its sending     *)
(* thread the words its keyboard thread reads, and its receiving thread    *)
(* prints what is new in the outgoing region and marks it old.             *)
(*                                                                         *)
(* A copy from or to a region is one step per field of the message, in any *)
(* order, and so is main's memset of a region, which takes no semaphore.   *)
(* One step is only the server thread's own memcpy and memset of its       *)
(* incoming region: there are no threads until main has zeroed everything, *)
(* and whoever else comes there holds the semaphore (InExclusive).         *)
(***************************************************************************)
EXTENDS Integers, FiniteSets

CONSTANTS max_clients,
          MaxTyped,     \* bound: words each user types
          MaxRuns,      \* bound: times the client of a slot is launched
          Talker,       \* bound: slots with a keyboard and a sending thread
          Listener,     \* bound: slots with a receiving thread
          Stopper,      \* bound: slots whose user presses CTRL + C
          MayStop       \* bound: whether the server gets its CTRL + C

ASSUME ShmAssumption == /\ max_clients \in Nat \ {0}
                        /\ MayStop \in BOOLEAN

Slot   == 0 .. max_clients - 1
Region == 0 .. 2 * max_clients - 1
In(c)  == 2 * c
Out(c) == 2 * c + 1

ASSUME BoundAssumption ==
  /\ MaxTyped \in [Slot -> Nat] /\ MaxRuns \in [Slot -> Nat]
  /\ Talker \subseteq Slot /\ Listener \subseteq Slot /\ Stopper \subseteq Slot

(***************************************************************************)
(* A message: a text and a flag, which is 1 in an ordinary message that is *)
(* new and the sender's pid in "connect".  A text of which main has zeroed *)
(* a byte is NoText: like the empty one it is neither "connect" nor        *)
(* "disconnect", and no longer what was written.  For the properties a     *)
(* text also tells from whom it is, its number among those its client      *)
(* wrote and with which flag it was written.                               *)
(***************************************************************************)
Field    == {"text", "flag"}
NoText   == [kind |-> "none", from |-> -1, n |-> 0, flag |-> 0]
Text     == [kind : {"connect", "disconnect", "word"}, from : Slot, n : Nat,
             flag : Nat] \cup {NoText}
Message  == [text : Text, flag : Nat]
Zero     == [text |-> NoText, flag |-> 0]
Whole(m) == m.flag = m.text.flag

VARIABLES
  sems, shmem,                          \* per region
  \* the server
  main_pc, main_while_var, stop_threads,
  zeroed, zero_todo,                    \* regions main has zeroed; fields of
                                        \* the next one it has yet to zero
  flag_connect, client_pid,             \* clients_info
  pc, msg_from_cli, msg_to_cli,         \* func_thread_client
  region_no,                            \* its loop variable i
  todo,                                 \* fields its memcpy has yet to copy
  locked,                               \* what its sem_trywait returned
  \* the clients
  client_pc, client_while_var, client_stop_threads,
  msg_out, out_todo,                    \* its buffer; fields yet to copy
  send_pc, scanf_pc, scanf_flag,
  recv_pc, msg_in, recv_todo,
  runs, typed,                          \* launches; words typed
  written, taken, times, whole, passed  \* see Mailbox

zeroVars   == <<zeroed, zero_todo>>
mainVars   == <<main_pc, main_while_var, stop_threads, zeroVars>>
infoVars   == <<flag_connect, client_pid>>
threadVars == <<pc, msg_from_cli, msg_to_cli, region_no, todo, locked>>
serverVars == <<mainVars, infoVars, threadVars>>
procVars   == <<client_pc, client_while_var, client_stop_threads, runs>>
scanfVars  == <<scanf_pc, scanf_flag, typed>>
recvVars   == <<recv_pc, msg_in, recv_todo>>
outVars    == <<msg_out, out_todo>>
clientVars == <<procVars, outVars, send_pc, scanfVars, recvVars>>
mailVars   == <<written, taken, times, whole, passed>>
vars       == <<sems, shmem, serverVars, clientVars, mailVars>>

Init ==
  /\ sems = [q \in Region |-> 1]
  /\ shmem = [q \in Region |-> Zero]
  /\ main_pc = "zero" /\ main_while_var = 1 /\ stop_threads = 0
  /\ zeroed = 0 /\ zero_todo = Field
  /\ flag_connect = [t \in Slot |-> 0]
  /\ client_pid = [t \in Slot |-> 0]
  /\ pc = [t \in Slot |-> "none"]
  /\ msg_from_cli = [t \in Slot |-> Zero]
  /\ msg_to_cli = [t \in Slot |-> Zero]
  /\ region_no = [t \in Slot |-> 1]
  /\ todo = [t \in Slot |-> {}]
  /\ locked = [t \in Slot |-> FALSE]
  /\ client_pc = [c \in Slot |-> "off"]
  /\ client_while_var = [c \in Slot |-> 1]
  /\ client_stop_threads = [c \in Slot |-> 0]
  /\ msg_out = [c \in Slot |-> Zero]
  /\ out_todo = [c \in Slot |-> {}]
  /\ send_pc = [c \in Slot |-> "none"]
  /\ scanf_pc = [c \in Slot |-> "none"]
  /\ scanf_flag = [c \in Slot |-> 0]
  /\ recv_pc = [c \in Slot |-> "none"]
  /\ msg_in = [c \in Slot |-> Zero]
  /\ recv_todo = [c \in Slot |-> {}]
  /\ runs = [c \in Slot |-> 0]
  /\ typed = [c \in Slot |-> 0]
  /\ written = [c \in Slot |-> 0]
  /\ taken = [c \in Slot |-> 0]
  /\ times = [c \in Slot |-> 0]
  /\ whole = [c \in Slot |-> TRUE]
  /\ passed = [c \in Slot |-> 0]

-----------------------------------------------------------------------------
(* sem_wait (also a sem_trywait that succeeds) and sem_post.               *)
Wait(q) == /\ sems[q] > 0
           /\ sems' = [sems EXCEPT ![q] = @ - 1]

Post(q) == sems' = [sems EXCEPT ![q] = @ + 1]

-----------------------------------------------------------------------------
(* The server's main thread.                                               *)

\* One field of memset(shmem_ptr[i], 0, SHMEM_SIZE), without the semaphore:
\* clients may already be there and in the middle of a copy.
ZeroRegion ==
  /\ main_pc = "zero" /\ zeroed < 2 * max_clients
  /\ \E f \in zero_todo :
       /\ shmem' = [shmem EXCEPT ![zeroed][f] = Zero[f]]
       /\ \/ zero_todo # {f} /\ zero_todo' = zero_todo \ {f}
                              /\ UNCHANGED zeroed
          \/ zero_todo = {f} /\ zero_todo' = Field
                              /\ zeroed' = zeroed + 1
  /\ UNCHANGED <<sems, main_pc, main_while_var, stop_threads, infoVars,
                 threadVars, clientVars, mailVars>>

CreateThreads ==
  /\ main_pc = "zero" /\ zeroed = 2 * max_clients
  /\ pc' = [t \in Slot |-> "check"]
  /\ main_pc' = "loop"
  /\ UNCHANGED <<sems, shmem, main_while_var, stop_threads, zeroVars, infoVars,
                 msg_from_cli, msg_to_cli, region_no, todo, locked,
                 clientVars, mailVars>>

\* my_handler_CTRL_C
Interrupt ==
  /\ MayStop
  /\ main_pc \in {"zero", "loop"} /\ main_while_var = 1
  /\ main_while_var' = 0
  /\ UNCHANGED <<sems, shmem, main_pc, stop_threads, zeroVars, infoVars,
                 threadVars, clientVars, mailVars>>

StopThreads ==
  /\ main_pc = "loop" /\ main_while_var = 0
  /\ stop_threads' = 1
  /\ main_pc' = "join"
  /\ UNCHANGED <<sems, shmem, main_while_var, zeroVars, infoVars, threadVars,
                 clientVars, mailVars>>

\* All threads joined: unmap, unlink and free everything.
Cleanup ==
  /\ main_pc = "join"
  /\ \A t \in Slot : pc[t] = "done"
  /\ main_pc' = "exit"
  /\ UNCHANGED <<sems, shmem, main_while_var, stop_threads, zeroVars, infoVars,
                 threadVars, clientVars, mailVars>>

Main == ZeroRegion \/ CreateThreads \/ StopThreads \/ Cleanup

-----------------------------------------------------------------------------
(* The server's thread of slot t: func_thread_client.                      *)

Goto(t, l) == pc' = [pc EXCEPT ![t] = l]

Check(t) ==
  /\ pc[t] = "check"
  /\ Goto(t, IF stop_threads = 1 THEN "done" ELSE "wait")
  /\ UNCHANGED <<sems, shmem, mainVars, infoVars, msg_from_cli, msg_to_cli,
                 region_no, todo, locked, clientVars, mailVars>>

Enter(t) ==
  /\ pc[t] = "wait"
  /\ Wait(In(t))
  /\ Goto(t, "take")
  /\ UNCHANGED <<shmem, mainVars, infoVars, msg_from_cli, msg_to_cli,
                 region_no, todo, locked, clientVars, mailVars>>

\* Mutant: the region is not zeroed.
LeavesBehind(t) == shmem[In(t)]

\* The memset after the memcpy.
LeftBehind(t) == Zero

Take(t) ==
  /\ pc[t] = "take"
  /\ LET m == shmem[In(t)] IN
       /\ msg_from_cli' = [msg_from_cli EXCEPT ![t] = m]
       /\ taken' = IF m.text = NoText THEN taken
                                      ELSE [taken EXCEPT ![t] = m.text.n]
       /\ times' = IF m = Zero THEN times ELSE [times EXCEPT ![t] = @ + 1]
       /\ whole' = IF m = Zero THEN whole ELSE [whole EXCEPT ![t] = Whole(m)]
  /\ shmem' = [shmem EXCEPT ![In(t)] = LeftBehind(t)]
  /\ Goto(t, "leave")
  /\ UNCHANGED <<sems, mainVars, infoVars, msg_to_cli, region_no, todo,
                 locked, clientVars, written, passed>>

Leave(t) ==
  /\ pc[t] = "leave"
  /\ Post(In(t))
  /\ Goto(t, "handle")
  /\ UNCHANGED <<shmem, mainVars, infoVars, msg_from_cli, msg_to_cli,
                 region_no, todo, locked, clientVars, mailVars>>

\* The last memset of a round.
EndRound(t) ==
  /\ msg_from_cli' = [msg_from_cli EXCEPT ![t] = Zero]
  /\ Goto(t, "check")

Says(t, kind) == msg_from_cli[t].text.kind = kind

Connect(t) ==
  /\ pc[t] = "handle"
  /\ Says(t, "connect") /\ flag_connect[t] = 0
  /\ client_pid' = [client_pid EXCEPT ![t] = msg_from_cli[t].flag]
  /\ flag_connect' = [flag_connect EXCEPT ![t] = 1]
  /\ EndRound(t)
  /\ UNCHANGED <<sems, shmem, mainVars, msg_to_cli, region_no, todo, locked,
                 clientVars, mailVars>>

Disconnect(t) ==
  /\ pc[t] = "handle"
  /\ Says(t, "disconnect") /\ flag_connect[t] = 1
  /\ client_pid' = [client_pid EXCEPT ![t] = 0]
  /\ flag_connect' = [flag_connect EXCEPT ![t] = 0]
  /\ EndRound(t)
  /\ UNCHANGED <<sems, shmem, mainVars, msg_to_cli, region_no, todo, locked,
                 clientVars, mailVars>>

\* A new ordinary message of a connected client.
IsNew(t) == msg_from_cli[t].flag = 1 /\ flag_connect[t] = 1

Accept(t) ==
  /\ pc[t] = "handle"
  /\ ~Says(t, "connect") /\ ~Says(t, "disconnect") /\ IsNew(t)
  /\ msg_to_cli' = [msg_to_cli EXCEPT ![t] = msg_from_cli[t]]
  /\ msg_from_cli' = [msg_from_cli EXCEPT ![t].flag = 0]
  /\ passed' = [passed EXCEPT ![t] = msg_from_cli[t].text.n]
  /\ Goto(t, "broadcast")
  /\ UNCHANGED <<sems, shmem, mainVars, infoVars, region_no, todo, locked,
                 clientVars, written, taken, times, whole>>

\* Nothing there, a second "connect" or anything of a client not connected.
Ignore(t) ==
  /\ pc[t] = "handle"
  /\ ~(Says(t, "connect") /\ flag_connect[t] = 0)
  /\ ~(Says(t, "disconnect") /\ flag_connect[t] = 1)
  /\ ~IsNew(t)
  /\ EndRound(t)
  /\ UNCHANGED <<sems, shmem, mainVars, infoVars, msg_to_cli, region_no, todo,
                 locked, clientVars, mailVars>>

NextRegion(t) == region_no' = [region_no EXCEPT ![t] = @ + 2]

InLoop(t)   == region_no[t] < 2 * max_clients
IsTarget(t) == region_no[t] # Out(t)

\* sem_trywait(), whose result is ignored.
TryWait(t) ==
  /\ pc[t] = "broadcast" /\ InLoop(t)
  /\ locked' = [locked EXCEPT ![t] = sems[region_no[t]] > 0]
  /\ sems' = [sems EXCEPT ![region_no[t]] = IF @ > 0 THEN @ - 1 ELSE 0]
  /\ todo' = [todo EXCEPT ![t] = IF IsTarget(t) THEN Field ELSE {}]
  /\ Goto(t, "copy")
  /\ UNCHANGED <<shmem, mainVars, infoVars, msg_from_cli, msg_to_cli,
                 region_no, clientVars, mailVars>>

\* One field of memcpy(shmem_ptr[i], msg_to_cli[t], ...).
Copy(t) ==
  /\ pc[t] = "copy"
  /\ \E f \in todo[t] :
       /\ shmem' = [shmem EXCEPT ![region_no[t]][f] = msg_to_cli[t][f]]
       /\ todo' = [todo EXCEPT ![t] = @ \ {f}]
  /\ UNCHANGED <<sems, mainVars, infoVars, pc, msg_from_cli, msg_to_cli,
                 region_no, locked, clientVars, mailVars>>

\* Mutant: sem_post() is inside the `if'.
PostOutTarget(t) ==
  /\ pc[t] = "copy" /\ todo[t] = {}
  /\ IF IsTarget(t) THEN Post(region_no[t]) ELSE UNCHANGED sems
  /\ locked' = [locked EXCEPT ![t] = FALSE]
  /\ NextRegion(t)
  /\ Goto(t, "broadcast")
  /\ UNCHANGED <<shmem, mainVars, infoVars, msg_from_cli, msg_to_cli, todo,
                 clientVars, mailVars>>

PostOut(t) ==
  /\ pc[t] = "copy" /\ todo[t] = {}
  /\ Post(region_no[t])
  /\ locked' = [locked EXCEPT ![t] = FALSE]
  /\ NextRegion(t)
  /\ Goto(t, "broadcast")
  /\ UNCHANGED <<shmem, mainVars, infoVars, msg_from_cli, msg_to_cli, todo,
                 clientVars, mailVars>>

EndBroadcast(t) ==
  /\ pc[t] = "broadcast" /\ ~InLoop(t)
  /\ region_no' = [region_no EXCEPT ![t] = 1]
  /\ EndRound(t)
  /\ UNCHANGED <<sems, shmem, mainVars, infoVars, msg_to_cli, todo, locked,
                 clientVars, mailVars>>

Thread(t) ==
  \/ Check(t) \/ Enter(t) \/ Take(t) \/ Leave(t)
  \/ Connect(t) \/ Disconnect(t) \/ Accept(t) \/ Ignore(t)
  \/ TryWait(t) \/ Copy(t) \/ PostOut(t) \/ EndBroadcast(t)

-----------------------------------------------------------------------------
(* A client's main thread.                                                 *)

CGoto(c, l) == client_pc' = [client_pc EXCEPT ![c] = l]

Started(S, c) == IF c \in S THEN "check" ELSE "none"

\* A new process: open everything, create the three threads.
Launch(c) ==
  /\ client_pc[c] = "off" /\ runs[c] < MaxRuns[c]
  /\ main_pc # "exit"
  /\ runs' = [runs EXCEPT ![c] = @ + 1]
  /\ client_while_var' = [client_while_var EXCEPT ![c] = 1]
  /\ client_stop_threads' = [client_stop_threads EXCEPT ![c] = 0]
  /\ send_pc' = [send_pc EXCEPT ![c] = Started(Talker, c)]
  /\ scanf_pc' = [scanf_pc EXCEPT ![c] = Started(Talker, c)]
  /\ scanf_flag' = [scanf_flag EXCEPT ![c] = 0]
  /\ recv_pc' = [recv_pc EXCEPT ![c] = Started(Listener, c)]
  /\ msg_in' = [msg_in EXCEPT ![c] = Zero]
  /\ msg_out' = [msg_out EXCEPT ![c] = Zero]
  /\ CGoto(c, "connect")
  /\ UNCHANGED <<sems, shmem, serverVars, out_todo, typed, recv_todo,
                 mailVars>>

\* my_handler_CTRL_C
InterruptClient(c) ==
  /\ c \in Stopper
  /\ client_pc[c] \in {"connect", "connect_write", "loop"}
  /\ client_while_var[c] = 1
  /\ client_while_var' = [client_while_var EXCEPT ![c] = 0]
  /\ UNCHANGED <<sems, shmem, serverVars, client_pc, client_stop_threads,
                 runs, outVars, send_pc, scanfVars, recvVars, mailVars>>

\* sem_wait() before "connect" and "disconnect" or a successful sem_trywait()
\* before a word; then the message is made in msg_out, which nobody else uses
\* without the semaphore.
EnterIn(c, kind, f) ==
  /\ Wait(In(c))
  /\ written' = [written EXCEPT ![c] = @ + 1]
  /\ msg_out' = [msg_out EXCEPT ![c] =
                   [text |-> [kind |-> kind, from |-> c, n |-> written[c] + 1,
                              flag |-> f],
                    flag |-> f]]
  /\ out_todo' = [out_todo EXCEPT ![c] = Field]
  /\ UNCHANGED <<taken, times, whole, passed>>

\* One field of memcpy(shmem_ptr_out, msg_out, ...), over what the server has
\* not taken.
PutIn(c) ==
  \E f \in out_todo[c] :
    /\ shmem' = [shmem EXCEPT ![In(c)][f] = msg_out[c][f]]
    /\ out_todo' = [out_todo EXCEPT ![c] = @ \ {f}]

\* getpid() of the client's run; 1 is init.
Pid(c) == 1 + runs[c]

EnterConnect(c) ==
  /\ client_pc[c] = "connect"
  /\ EnterIn(c, "connect", Pid(c))
  /\ CGoto(c, "connect_write")
  /\ UNCHANGED <<shmem, serverVars, client_while_var, client_stop_threads,
                 runs, send_pc, scanfVars, recvVars>>

\* The flag stays: the pid, or 0 if a word was sent since.
EnterDisconnect(c) ==
  /\ client_pc[c] = "disconnect"
  /\ EnterIn(c, "disconnect", msg_out[c].flag)
  /\ CGoto(c, "disconnect_write")
  /\ UNCHANGED <<shmem, serverVars, client_while_var, client_stop_threads,
                 runs, send_pc, scanfVars, recvVars>>

MainWait(c) == EnterConnect(c) \/ EnterDisconnect(c)

MainWrite(c) ==
  /\ client_pc[c] \in {"connect_write", "disconnect_write"}
  /\ PutIn(c)
  /\ UNCHANGED <<sems, serverVars, procVars, msg_out, send_pc, scanfVars,
                 recvVars, mailVars>>

\* Mutant: the semaphore is not given back after "disconnect".
MainPostForgets(c) ==
  /\ client_pc[c] \in {"connect_write", "disconnect_write"}
  /\ out_todo[c] = {}
  /\ IF client_pc[c] = "connect_write" THEN Post(In(c)) ELSE UNCHANGED sems
  /\ CGoto(c, IF client_pc[c] = "connect_write" THEN "loop" ELSE "stop")
  /\ UNCHANGED <<shmem, serverVars, client_while_var, client_stop_threads,
                 runs, outVars, send_pc, scanfVars, recvVars, mailVars>>

MainPost(c) ==
  /\ client_pc[c] \in {"connect_write", "disconnect_write"}
  /\ out_todo[c] = {}
  /\ Post(In(c))
  /\ CGoto(c, IF client_pc[c] = "connect_write" THEN "loop" ELSE "stop")
  /\ UNCHANGED <<shmem, serverVars, client_while_var, client_stop_threads,
                 runs, outVars, send_pc, scanfVars, recvVars, mailVars>>

EndLoop(c) ==
  /\ client_pc[c] = "loop" /\ client_while_var[c] = 0
  /\ CGoto(c, "disconnect")
  /\ UNCHANGED <<sems, shmem, serverVars, client_while_var,
                 client_stop_threads, runs, outVars, send_pc, scanfVars,
                 recvVars, mailVars>>

\* Mutant: the threads are not told.
StopClientNot(c) ==
  /\ client_pc[c] = "stop"
  /\ CGoto(c, "join")
  /\ UNCHANGED <<sems, shmem, serverVars, client_while_var,
                 client_stop_threads, runs, outVars, send_pc, scanfVars,
                 recvVars, mailVars>>

StopClient(c) ==
  /\ client_pc[c] = "stop"
  /\ client_stop_threads' = [client_stop_threads EXCEPT ![c] = 1]
  /\ CGoto(c, "join")
  /\ UNCHANGED <<sems, shmem, serverVars, client_while_var, runs, outVars,
                 send_pc, scanfVars, recvVars, mailVars>>

\* All three threads joined: unmap, close, exit.
EndClient(c) ==
  /\ client_pc[c] = "join"
  /\ {send_pc[c], scanf_pc[c], recv_pc[c]} \subseteq {"none", "done"}
  /\ CGoto(c, "off")
  /\ UNCHANGED <<sems, shmem, serverVars, client_while_var,
                 client_stop_threads, runs, outVars, send_pc, scanfVars,
                 recvVars, mailVars>>

MainClient(c) ==
  \/ MainWait(c) \/ MainWrite(c) \/ MainPost(c)
  \/ EndLoop(c) \/ StopClient(c) \/ EndClient(c)

-----------------------------------------------------------------------------
(* A client's sending thread: func_thread_send.                            *)

SGoto(c, l) == send_pc' = [send_pc EXCEPT ![c] = l]

SendCheck(c) ==
  /\ send_pc[c] = "check"
  /\ SGoto(c, IF client_stop_threads[c] = 1 THEN "done" ELSE "poll")
  /\ UNCHANGED <<sems, shmem, serverVars, procVars, outVars, scanfVars,
                 recvVars, mailVars>>

SendPoll(c) ==
  /\ send_pc[c] = "poll"
  /\ SGoto(c, IF scanf_flag[c] = 1 THEN "try" ELSE "check")
  /\ UNCHANGED <<sems, shmem, serverVars, procVars, outVars, scanfVars,
                 recvVars, mailVars>>

SendTry(c) ==
  /\ send_pc[c] = "try"
  /\ EnterIn(c, "word", 1)
  /\ SGoto(c, "copy")
  /\ UNCHANGED <<shmem, serverVars, procVars, scanfVars, recvVars>>

\* Mutant: the result of sem_trywait() is ignored, as in the server.
SendTryIgnored(c) ==
  /\ send_pc[c] = "try"
  /\ sems[In(c)] = 0
  /\ SGoto(c, "copy")
  /\ UNCHANGED <<sems, shmem, serverVars, procVars, outVars, scanfVars,
                 recvVars, mailVars>>

SendTryFails(c) ==
  /\ send_pc[c] = "try"
  /\ sems[In(c)] = 0
  /\ SGoto(c, "check")
  /\ UNCHANGED <<sems, shmem, serverVars, procVars, outVars, scanfVars,
                 recvVars, mailVars>>

SendWrite(c) ==
  /\ send_pc[c] = "copy"
  /\ PutIn(c)
  /\ UNCHANGED <<sems, serverVars, procVars, msg_out, send_pc, scanfVars,
                 recvVars, mailVars>>

\* The word is sent: free the keyboard thread, then zero msg_out.
SendWord(c) ==
  /\ send_pc[c] = "copy" /\ out_todo[c] = {}
  /\ scanf_flag' = [scanf_flag EXCEPT ![c] = 0]
  /\ msg_out' = [msg_out EXCEPT ![c] = Zero]
  /\ SGoto(c, "post")
  /\ UNCHANGED <<sems, shmem, serverVars, procVars, out_todo, scanf_pc, typed,
                 recvVars, mailVars>>

SendPost(c) ==
  /\ send_pc[c] = "post"
  /\ Post(In(c))
  /\ SGoto(c, "check")
  /\ UNCHANGED <<shmem, serverVars, procVars, outVars, scanfVars, recvVars,
                 mailVars>>

SendThread(c) == \/ SendCheck(c) \/ SendPoll(c) \/ SendTry(c)
                 \/ SendTryFails(c) \/ SendWrite(c) \/ SendWord(c)
                 \/ SendPost(c)

-----------------------------------------------------------------------------
(* A client's keyboard thread: func_thread_scanf.                          *)

KGoto(c, l) == scanf_pc' = [scanf_pc EXCEPT ![c] = l]

ScanfCheck(c) ==
  /\ scanf_pc[c] = "check"
  /\ KGoto(c, IF client_stop_threads[c] = 1 THEN "done" ELSE "poll")
  /\ UNCHANGED <<sems, shmem, serverVars, procVars, outVars, send_pc,
                 scanf_flag, typed, recvVars, mailVars>>

ScanfPoll(c) ==
  /\ scanf_pc[c] = "poll"
  /\ KGoto(c, IF scanf_flag[c] = 0 THEN "read" ELSE "check")
  /\ UNCHANGED <<sems, shmem, serverVars, procVars, outVars, send_pc,
                 scanf_flag, typed, recvVars, mailVars>>

\* The user types a word and scanf() returns.
Type(c) ==
  /\ scanf_pc[c] = "read" /\ typed[c] < MaxTyped[c]
  /\ typed' = [typed EXCEPT ![c] = @ + 1]
  /\ KGoto(c, "raise")
  /\ UNCHANGED <<sems, shmem, serverVars, procVars, outVars, send_pc,
                 scanf_flag, recvVars, mailVars>>

ScanfRaise(c) ==
  /\ scanf_pc[c] = "raise"
  /\ scanf_flag' = [scanf_flag EXCEPT ![c] = 1]
  /\ KGoto(c, "check")
  /\ UNCHANGED <<sems, shmem, serverVars, procVars, outVars, send_pc, typed,
                 recvVars, mailVars>>

ScanfThread(c) == ScanfCheck(c) \/ ScanfPoll(c) \/ ScanfRaise(c)

-----------------------------------------------------------------------------
(* A client's receiving thread: func_thread_receive.                       *)

RGoto(c, l) == recv_pc' = [recv_pc EXCEPT ![c] = l]

RecvCheck(c) ==
  /\ recv_pc[c] = "check"
  /\ RGoto(c, IF client_stop_threads[c] = 1 THEN "done" ELSE "try")
  /\ UNCHANGED <<sems, shmem, serverVars, procVars, outVars, send_pc,
                 scanfVars, msg_in, recv_todo, mailVars>>

RecvTry(c) ==
  /\ recv_pc[c] = "try"
  /\ Wait(Out(c))
  /\ recv_todo' = [recv_todo EXCEPT ![c] = Field]
  /\ RGoto(c, "read")
  /\ UNCHANGED <<shmem, serverVars, procVars, outVars, send_pc, scanfVars,
                 msg_in, mailVars>>

RecvTryFails(c) ==
  /\ recv_pc[c] = "try"
  /\ sems[Out(c)] = 0
  /\ RGoto(c, "check")
  /\ UNCHANGED <<sems, shmem, serverVars, procVars, outVars, send_pc,
                 scanfVars, msg_in, recv_todo, mailVars>>

\* One field of memcpy(msg_in, shmem_ptr_in, ...).
RecvCopy(c) ==
  /\ recv_pc[c] = "read"
  /\ \E f \in recv_todo[c] :
       /\ msg_in' = [msg_in EXCEPT ![c][f] = shmem[Out(c)][f]]
       /\ recv_todo' = [recv_todo EXCEPT ![c] = @ \ {f}]
  /\ UNCHANGED <<sems, shmem, serverVars, procVars, outVars, send_pc,
                 scanfVars, recv_pc, mailVars>>

\* A message whose flag is 1 is printed and will be written back as old.
RecvNew(c) ==
  /\ recv_pc[c] = "read" /\ recv_todo[c] = {}
  /\ msg_in[c].flag = 1
  /\ msg_in' = [msg_in EXCEPT ![c].flag = 0]
  /\ recv_todo' = [recv_todo EXCEPT ![c] = Field]
  /\ RGoto(c, "write")
  /\ UNCHANGED <<sems, shmem, serverVars, procVars, outVars, send_pc,
                 scanfVars, mailVars>>

\* One field of memcpy(shmem_ptr_in, msg_in, ...).
RecvWrite(c) ==
  /\ recv_pc[c] = "write"
  /\ \E f \in recv_todo[c] :
       /\ shmem' = [shmem EXCEPT ![Out(c)][f] = msg_in[c][f]]
       /\ recv_todo' = [recv_todo EXCEPT ![c] = @ \ {f}]
  /\ UNCHANGED <<sems, serverVars, procVars, outVars, send_pc, scanfVars,
                 recv_pc, msg_in, mailVars>>

RecvPost(c) ==
  /\ \/ recv_pc[c] = "read" /\ msg_in[c].flag # 1
     \/ recv_pc[c] = "write"
  /\ recv_todo[c] = {}
  /\ Post(Out(c))
  /\ RGoto(c, "check")
  /\ UNCHANGED <<shmem, serverVars, procVars, outVars, send_pc, scanfVars,
                 msg_in, recv_todo, mailVars>>

RecvThread(c) ==
  \/ RecvCheck(c) \/ RecvTry(c) \/ RecvTryFails(c)
  \/ RecvCopy(c) \/ RecvNew(c) \/ RecvWrite(c) \/ RecvPost(c)

-----------------------------------------------------------------------------
Client(c) == \/ Launch(c) \/ InterruptClient(c) \/ MainClient(c)
             \/ SendThread(c) \/ ScanfThread(c) \/ Type(c) \/ RecvThread(c)

Next == \/ Main \/ Interrupt
        \/ \E t \in Slot : Thread(t) \/ Client(t)

Spec == Init /\ [][Next]_vars

(***************************************************************************)
(* Every thread is scheduled, and a client's main thread blocked in        *)
(* sem_wait() gets the semaphore if the server's thread gives it back      *)
(* again and again: it takes and returns it all the time, and without this *)
(* a "connect" might wait for ever.  Users owe nothing.  The subscripts    *)
(* name what every step of the thread changes.                             *)
(***************************************************************************)
Fairness ==
  /\ WF_<<main_pc, zeroVars>>(Main)
  /\ \A c \in Slot : /\ WF_<<pc, todo>>(Thread(c))
                     /\ SF_<<client_pc, out_todo>>(MainClient(c))
                     /\ WF_<<send_pc, out_todo>>(SendThread(c))
                     /\ WF_scanf_pc(ScanfThread(c))
                     /\ WF_<<recv_pc, recv_todo>>(RecvThread(c))

FairSpec == Spec /\ Fairness

-----------------------------------------------------------------------------
(* Properties.                                                             *)

ServerPc == {"none", "check", "wait", "take", "leave", "handle", "broadcast",
             "copy", "done"}
ClientPc == {"off", "connect", "connect_write", "loop", "disconnect",
             "disconnect_write", "stop", "join"}

\* Every variable has its type; a thread that copies is inside its loop.
TypeOK ==
  /\ sems \in [Region -> Nat] /\ shmem \in [Region -> Message]
  /\ main_pc \in {"zero", "loop", "join", "exit"}
  /\ main_while_var \in {0, 1} /\ stop_threads \in {0, 1}
  /\ zeroed \in 0 .. 2 * max_clients /\ zero_todo \subseteq Field
  /\ flag_connect \in [Slot -> {0, 1}] /\ client_pid \in [Slot -> Nat]
  /\ pc \in [Slot -> ServerPc]
  /\ msg_from_cli \in [Slot -> Message] /\ msg_to_cli \in [Slot -> Message]
  /\ region_no \in [Slot -> {Out(c) : c \in Slot} \cup {Out(max_clients)}]
  /\ todo \in [Slot -> SUBSET Field] /\ locked \in [Slot -> BOOLEAN]
  /\ client_pc \in [Slot -> ClientPc]
  /\ client_while_var \in [Slot -> {0, 1}]
  /\ client_stop_threads \in [Slot -> {0, 1}]
  /\ msg_out \in [Slot -> Message] /\ out_todo \in [Slot -> SUBSET Field]
  /\ send_pc \in [Slot -> {"none", "check", "poll", "try", "copy", "post",
                           "done"}]
  /\ scanf_pc \in [Slot -> {"none", "check", "poll", "read", "raise", "done"}]
  /\ scanf_flag \in [Slot -> {0, 1}]
  /\ recv_pc \in [Slot -> {"none", "check", "try", "read", "write", "done"}]
  /\ msg_in \in [Slot -> Message] /\ recv_todo \in [Slot -> SUBSET Field]
  /\ runs \in [Slot -> Nat] /\ typed \in [Slot -> Nat]
  /\ written \in [Slot -> Nat] /\ taken \in [Slot -> Nat]
  /\ times \in [Slot -> Nat] /\ whole \in [Slot -> BOOLEAN]
  /\ passed \in [Slot -> Nat]

One(b) == IF b THEN 1 ELSE 0

ServerIn(c) == pc[c] \in {"take", "leave"}
MainIn(c)   == client_pc[c] \in {"connect_write", "disconnect_write"}
SendIn(c)   == send_pc[c] \in {"copy", "post"}

\* The critical sections of an incoming region exclude each other, and while
\* nobody is inside the semaphore is 1: the server's thread, the client's main
\* thread and its sending thread, all three over one region and two of them
\* over one msg_out (server.c:304-311; client.c:240-245, 258-262, 314-327).
InExclusive ==
  \A c \in Slot :
    sems[In(c)] + One(ServerIn(c)) + One(MainIn(c)) + One(SendIn(c)) = 1

\* What the slots' threads take from the incoming regions is what their
\* clients wrote, in order and none twice, although a client may overwrite
\* what was not taken yet; only the first thing a thread takes may be the
\* remains of a message main was zeroing meanwhile, and such remains are never
\* passed on to the other clients (server.c:201, 307-309, 335-342).
Channel == INSTANCE Mailbox
IsMailbox == Channel!Spec

\* The semaphore of an outgoing region never runs dry: it is not 0 unless
\* somebody who took it is still inside (server.c:352-358, client.c:351-358).
NeverDry ==
  \A c \in Slot :
    \/ sems[Out(c)] > 0
    \/ \E t \in Slot : region_no[t] = Out(c) /\ locked[t]
    \/ recv_pc[c] \in {"read", "write"}

\* server.c:351 "critical section" (in Russian): at most one thread is between
\* sem_trywait() and sem_post() of an outgoing region.
OneInOut ==
  \A c \in Slot :
    Cardinality({t \in Slot : pc[t] = "copy" /\ region_no[t] = Out(c)})
      + One(recv_pc[c] \in {"read", "write"}) <= 1

\* CTRL + C ends the client, its "disconnect" written, unless its keyboard
\* thread for ever waits for a word (client.c:258-280, 340).
ClientEnds ==
  \A c \in Slot :
    \/ []<>(client_while_var[c] = 1 \/ client_pc[c] = "off")
    \/ <>[](scanf_pc[c] = "read")

\* CTRL + C ends the server: no client keeps a slot's thread waiting for the
\* semaphore of its incoming region (server.c:216-237, 305).
ServerEnds == []<>(main_while_var = 1 \/ main_pc = "exit")
=============================================================================
