----------------------------- MODULE EchoServer -----------------------------
(***************************************************************************)
(* The server for TCP and UDP clients over select(),                       *)
(* sockets_highload_services_27July/server_doubleflow_echo_tcp_udp.c       *)
(*                                                                         *)
(* For each event main creates a thread and joins it at once; the threads  *)
(* share two buffers.  The TCP socket is not told to listen before the     *)
(* first TCP thread: until then select() reports it as ready.              *)
(***************************************************************************)
EXTENDS LoadServer

CONSTANT MaxAcceptErrors        \* bound: how often accept() fails

VARIABLES
  fd_in,            \* the sockets select() has reported and main not served
  tcp_pc, udp_pc,   \* the threads
  fd_client_tcp, addr_client_udp,
  accept_errors

echoVars == <<fd_in, tcp_pc, udp_pc, fd_client_tcp, addr_client_udp,
              accept_errors>>

EchoInit ==
  /\ fd_in = {}
  /\ tcp_pc = "none" /\ udp_pc = "none"
  /\ fd_client_tcp = None /\ addr_client_udp = None
  /\ accept_errors = 0

\* What select() finds to read.
Events == {e \in {"tcp", "udp"} : IF e = "tcp" THEN ~listening \/ waiting # {}
                                               ELSE inbox # {}}

Loop ==
  /\ main_pc = "loop"
  /\ main_pc' = IF main_while_var = 1 THEN "select" ELSE "stop"
  /\ UNCHANGED <<netVars, stopVars, echoVars>>

Select ==
  /\ main_pc = "select" /\ Events # {}
  /\ fd_in' = Events
  /\ main_pc' = "tcp"
  /\ UNCHANGED <<netVars, stopVars, tcp_pc, udp_pc, fd_client_tcp,
                 addr_client_udp, accept_errors>>

SelectTimeout ==
  /\ main_pc = "select" /\ Events = {}
  /\ main_pc' = "loop"
  /\ UNCHANGED <<netVars, stopVars, echoVars>>

CreateTcp ==
  /\ main_pc = "tcp"
  /\ IF "tcp" \in fd_in THEN tcp_pc' = "listen" /\ main_pc' = "join_tcp"
                        ELSE main_pc' = "udp" /\ UNCHANGED tcp_pc
  /\ UNCHANGED <<netVars, stopVars, fd_in, udp_pc, fd_client_tcp,
                 addr_client_udp, accept_errors>>

\* Mutant: main does not wait for the thread.
JoinTcpNot ==
  /\ main_pc = "join_tcp"
  /\ main_pc' = "udp"
  /\ UNCHANGED <<netVars, stopVars, echoVars>>

JoinTcp ==
  /\ main_pc = "join_tcp" /\ tcp_pc = "done"
  /\ main_pc' = "udp"
  /\ UNCHANGED <<netVars, stopVars, echoVars>>

CreateUdp ==
  /\ main_pc = "udp"
  /\ IF "udp" \in fd_in THEN udp_pc' = "recvfrom" /\ main_pc' = "join_udp"
                        ELSE main_pc' = "loop" /\ UNCHANGED udp_pc
  /\ UNCHANGED <<netVars, stopVars, fd_in, tcp_pc, fd_client_tcp,
                 addr_client_udp, accept_errors>>

JoinUdp ==
  /\ main_pc = "join_udp" /\ udp_pc = "done"
  /\ main_pc' = "loop"
  /\ UNCHANGED <<netVars, stopVars, echoVars>>

\* No client's thread is left to be joined here.
NoJoin ==
  /\ main_pc = "join"
  /\ main_pc' = "join_shutdown"
  /\ UNCHANGED <<netVars, stopVars, echoVars>>

Main ==
  \/ Loop \/ Select \/ SelectTimeout
  \/ CreateTcp \/ JoinTcp \/ CreateUdp \/ JoinUdp \/ NoJoin
  \/ Stop /\ UNCHANGED <<netVars, echoVars>>
  \/ Exit /\ UNCHANGED echoVars

-----------------------------------------------------------------------------
(* func_thread_client_tcp                                                  *)

Listen ==
  /\ tcp_pc = "listen"
  /\ listening' = TRUE
  /\ tcp_pc' = "accept"
  /\ UNCHANGED <<sock, waiting, said, open, inbox, answered, main_pc, stopVars,
                 fd_in, udp_pc, fd_client_tcp, addr_client_udp, accept_errors>>

Accept ==
  /\ tcp_pc = "accept"
  /\ \E s \in waiting : /\ waiting' = waiting \ {s} /\ open' = open \cup {s}
                        /\ fd_client_tcp' = s
  /\ tcp_pc' = "recv"
  /\ UNCHANGED <<sock, listening, said, inbox, answered, main_pc, stopVars,
                 fd_in, udp_pc, addr_client_udp, accept_errors>>

\* The calls that follow fail, too.
AcceptFails ==
  /\ tcp_pc = "accept" /\ waiting # {}
  /\ accept_errors < MaxAcceptErrors /\ accept_errors' = accept_errors + 1
  /\ tcp_pc' = "done"
  /\ UNCHANGED <<netVars, main_pc, stopVars, fd_in, udp_pc, fd_client_tcp,
                 addr_client_udp>>

Recv ==
  /\ tcp_pc = "recv" /\ Arrived(fd_client_tcp)
  /\ tcp_pc' = "send"
  /\ UNCHANGED <<netVars, main_pc, stopVars, fd_in, udp_pc, fd_client_tcp,
                 addr_client_udp, accept_errors>>

Send ==
  /\ tcp_pc = "send"
  /\ answered' = answered \cup {fd_client_tcp}
  /\ tcp_pc' = "close"
  /\ UNCHANGED <<sock, listening, waiting, said, open, inbox, main_pc,
                 stopVars, fd_in, udp_pc, fd_client_tcp, addr_client_udp,
                 accept_errors>>

Close ==
  /\ tcp_pc = "close"
  /\ open' = open \ {fd_client_tcp}
  /\ tcp_pc' = "done"
  /\ UNCHANGED <<sock, listening, waiting, said, inbox, answered, main_pc,
                 stopVars, fd_in, udp_pc, fd_client_tcp, addr_client_udp,
                 accept_errors>>

ThreadTcp == Listen \/ Accept \/ AcceptFails \/ Recv \/ Send \/ Close

-----------------------------------------------------------------------------
(* func_thread_client_udp                                                  *)

RecvFrom ==
  /\ udp_pc = "recvfrom"
  /\ \E s \in inbox : inbox' = inbox \ {s} /\ addr_client_udp' = s
  /\ udp_pc' = "sendto"
  /\ UNCHANGED <<sock, listening, waiting, said, open, answered, main_pc,
                 stopVars, fd_in, tcp_pc, fd_client_tcp, accept_errors>>

SendTo ==
  /\ udp_pc = "sendto"
  /\ answered' = answered \cup {addr_client_udp}
  /\ udp_pc' = "done"
  /\ UNCHANGED <<sock, listening, waiting, said, open, inbox, main_pc,
                 stopVars, fd_in, tcp_pc, fd_client_tcp, addr_client_udp,
                 accept_errors>>

ThreadUdp == RecvFrom \/ SendTo
=============================================================================
