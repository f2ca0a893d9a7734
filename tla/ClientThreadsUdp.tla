-------------------------- MODULE ClientThreadsUdp --------------------------
(***************************************************************************)
(* The UDP server with one thread for each client,                         *)
(* sockets_highload_services_27July/server_one_thread_for_one_client_udp.c *)
(***************************************************************************)
EXTENDS ClientThreads

VARIABLES
  addr_clients,     \* the sender of the datagram of each round
  args              \* the copy of it that a thread gets

addrVars == <<addr_clients, args>>

UdpInit ==
  /\ addr_clients = [e \in Index |-> None]
  /\ args = [t \in Index |-> None]

Loop ==
  /\ main_pc = "loop"
  /\ main_pc' = IF main_while_var = 1 THEN "recvfrom" ELSE "stop"
  /\ UNCHANGED <<netVars, stopVars, countVars, pc, addrVars>>

RecvFrom ==
  /\ main_pc = "recvfrom"
  /\ \E s \in inbox :
       /\ inbox' = inbox \ {s}
       /\ addr_clients' = [addr_clients EXCEPT ![count] = s]
       /\ args' = [args EXCEPT ![count_threads] = s]
  /\ main_pc' = "create"
  /\ UNCHANGED <<sock, listening, waiting, said, open, answered, stopVars,
                 countVars, pc>>

RecvFromFails ==
  /\ main_pc = "recvfrom" /\ inbox # {} /\ CanFail
  /\ Round
  /\ UNCHANGED <<netVars, stopVars, count_threads, pc, addrVars>>

Main ==
  \/ Loop \/ RecvFrom \/ RecvFromFails
  \/ Create("sendto") /\ UNCHANGED addrVars
  \/ CreateFails /\ UNCHANGED addrVars
  \/ Stop /\ UNCHANGED <<netVars, countVars, pc, addrVars>>
  \/ Join /\ UNCHANGED addrVars
  \/ Exit /\ UNCHANGED <<countVars, pc, addrVars>>

-----------------------------------------------------------------------------
(* func_thread_client                                                      *)

SendTo(t) ==
  /\ pc[t] = "sendto"
  /\ answered' = answered \cup {args[t]}
  /\ GotoT(t, "loop")
  /\ UNCHANGED <<sock, listening, waiting, said, open, inbox, main_pc,
                 stopVars, countVars, addrVars>>

\* Having answered, the thread sleeps until the server is told to stop.
Sleep(t) ==
  /\ pc[t] = "loop" /\ stop_threads = 1
  /\ GotoT(t, "done")
  /\ UNCHANGED <<netVars, main_pc, stopVars, countVars, addrVars>>

Thread(t) == SendTo(t) \/ Sleep(t)
=============================================================================
