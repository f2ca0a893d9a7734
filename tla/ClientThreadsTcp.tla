-------------------------- MODULE ClientThreadsTcp --------------------------
(***************************************************************************)
(* The TCP server with one thread for each client,                         *)
(* sockets_highload_services_27July/server_one_thread_for_one_client_tcp.c *)
(***************************************************************************)
EXTENDS ClientThreads

VARIABLES
  clients_fd,       \* the connection accepted in each round
  pthread_args      \* the round whose connection a thread serves

fdVars == <<clients_fd, pthread_args>>

TcpInit ==
  /\ clients_fd = [e \in Index |-> None]
  /\ pthread_args = [t \in Index |-> 0]

Fd(t) == clients_fd[pthread_args[t]]

Listen ==
  /\ main_pc = "loop"
  /\ IF main_while_var = 1
     THEN main_pc' = "accept" /\ listening' = TRUE
     ELSE main_pc' = "stop" /\ UNCHANGED listening
  /\ UNCHANGED <<sock, waiting, said, open, inbox, answered, stopVars,
                 countVars, pc, fdVars>>

\* Mutant: the argument is the number of the thread.
AcceptForThread ==
  /\ main_pc = "accept"
  /\ \E s \in waiting :
       /\ waiting' = waiting \ {s} /\ open' = open \cup {s}
       /\ clients_fd' = [clients_fd EXCEPT ![count] = s]
  /\ pthread_args' = [pthread_args EXCEPT ![count_threads] = count_threads]
  /\ main_pc' = "create"
  /\ UNCHANGED <<sock, listening, said, inbox, answered, stopVars, countVars,
                 pc>>

Accept ==
  /\ main_pc = "accept"
  /\ \E s \in waiting :
       /\ waiting' = waiting \ {s} /\ open' = open \cup {s}
       /\ clients_fd' = [clients_fd EXCEPT ![count] = s]
  /\ pthread_args' = [pthread_args EXCEPT ![count_threads] = count]
  /\ main_pc' = "create"
  /\ UNCHANGED <<sock, listening, said, inbox, answered, stopVars, countVars,
                 pc>>

\* -1 goes to an entry that no thread is given.
AcceptFails ==
  /\ main_pc = "accept" /\ waiting # {} /\ CanFail
  /\ Round
  /\ UNCHANGED <<netVars, stopVars, count_threads, pc, fdVars>>

Main ==
  \/ Listen \/ Accept \/ AcceptFails
  \/ Create("recv") /\ UNCHANGED fdVars
  \/ CreateFails /\ UNCHANGED fdVars
  \/ Stop /\ UNCHANGED <<netVars, countVars, pc, fdVars>>
  \/ Join /\ UNCHANGED fdVars
  \/ Exit /\ UNCHANGED <<countVars, pc, fdVars>>

-----------------------------------------------------------------------------
(* func_thread_client                                                      *)

Recv(t) ==
  /\ pc[t] = "recv" /\ Arrived(Fd(t))
  /\ GotoT(t, "send")
  /\ UNCHANGED <<netVars, main_pc, stopVars, countVars, fdVars>>

\* Mutant: the first exchange is left to the loop.
SendNothing(t) ==
  /\ pc[t] = "send"
  /\ GotoT(t, "loop")
  /\ UNCHANGED <<netVars, main_pc, stopVars, countVars, fdVars>>

Send(t) ==
  /\ pc[t] = "send"
  /\ answered' = answered \cup {Fd(t)}
  /\ GotoT(t, "loop")
  /\ UNCHANGED <<sock, listening, waiting, said, open, inbox, main_pc,
                 stopVars, countVars, fdVars>>

\* res_recv is 0 from the start: the loop ends in its first round, if the
\* server is told to stop even before it.
Loop(t) ==
  /\ pc[t] = "loop"
  /\ open' = open \ {Fd(t)}
  /\ GotoT(t, "done")
  /\ UNCHANGED <<sock, listening, waiting, said, inbox, answered, main_pc,
                 stopVars, countVars, fdVars>>

Thread(t) == Recv(t) \/ Send(t) \/ Loop(t)

\* A client that holds up its thread.
SilentAt(t) == pc[t] = "recv" /\ ~Arrived(Fd(t))
=============================================================================
