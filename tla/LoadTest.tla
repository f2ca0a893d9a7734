------------------------------ MODULE LoadTest ------------------------------
(***************************************************************************)
(* A load test: the user starts one of the three servers and some          *)
(* processes of the load-test client with a protocol it serves.            *)
(*                                                                         *)
(* The servers are different programs with the same names for the same     *)
(* things, so the variables of the one that runs are those of the test.    *)
(***************************************************************************)
EXTENDS Sockets

CONSTANTS START_ALLOC, MaxErrors, MaxAcceptErrors, MayFail,
          Steady,           \* processes that nobody suspends
          Impatient,        \* bound: processes whose user presses CTRL + C
          MaxTurns          \* bound: sockets of a process before the user
                            \* suspends it for good

ASSUME TestAssumption == /\ START_ALLOC \in Nat \ {0, 1}
                         /\ MaxErrors \in Nat /\ MaxAcceptErrors \in Nat
                         /\ MayFail \subseteq Socket
                         /\ Steady \subseteq Client
                         /\ Impatient \subseteq Client
                         /\ MaxTurns \in [Client -> Nat]
                         /\ \A c \in Steady : MaxTurns[c] >= size_alloc

VARIABLES
  server,                                           \* which one was started
  main_pc, main_while_var, stop_threads, shutdown_pc,   \* LoadServer
  count, count_threads, error_flag, pc,                 \* ClientThreads
  clients_fd, pthread_args, addr_clients, args,         \* TCP, UDP
  fd_in, tcp_pc, udp_pc, fd_client_tcp, addr_client_udp, accept_errors,
  protocol, load_pc, i, counted          \* LoadTestClient

Tcp  == INSTANCE ClientThreadsTcp
Udp  == INSTANCE ClientThreadsUdp
Echo == INSTANCE EchoServer
Load == INSTANCE LoadTestClient

Thread == 0 .. START_ALLOC - 1

perClientVars == <<count, count_threads, error_flag, pc>>
arrayVars  == <<clients_fd, pthread_args, addr_clients, args>>
echoVars   == <<fd_in, tcp_pc, udp_pc, fd_client_tcp, addr_client_udp,
                accept_errors>>
stopVars   == <<main_while_var, stop_threads, shutdown_pc>>
serverVars == <<main_pc, stopVars, perClientVars, arrayVars, echoVars>>
loadVars   == <<protocol, load_pc, i, counted>>
vars == <<server, netVars, serverVars, loadVars>>

Protocols(srv) == IF srv = "echo" THEN {"tcp", "udp"} ELSE {srv}

Init ==
  /\ server \in {"tcp", "udp", "echo"}
  /\ NetInit
  /\ Tcp!ServerInit /\ Tcp!ThreadsInit /\ Tcp!TcpInit /\ Udp!UdpInit
  /\ Echo!EchoInit
  /\ Load!LoadInit(Protocols(server))

TcpMain == /\ server = "tcp" /\ Tcp!Main
           /\ UNCHANGED <<server, addr_clients, args, echoVars, loadVars>>
TcpThread(t) == /\ server = "tcp" /\ Tcp!Thread(t)
                /\ UNCHANGED <<server, addr_clients, args, echoVars, loadVars>>

UdpMain ==
  /\ server = "udp" /\ Udp!Main
  /\ UNCHANGED <<server, clients_fd, pthread_args, echoVars, loadVars>>
UdpThread(t) ==
  /\ server = "udp" /\ Udp!Thread(t)
  /\ UNCHANGED <<server, clients_fd, pthread_args, echoVars, loadVars>>

EchoMain == /\ server = "echo" /\ Echo!Main
            /\ UNCHANGED <<server, perClientVars, arrayVars, loadVars>>
EchoTcp  == /\ server = "echo" /\ Echo!ThreadTcp
            /\ UNCHANGED <<server, perClientVars, arrayVars, loadVars>>
EchoUdp  == /\ server = "echo" /\ Echo!ThreadUdp
            /\ UNCHANGED <<server, perClientVars, arrayVars, loadVars>>

ShutdownThread ==
  /\ Tcp!ShutdownCheck
  /\ UNCHANGED <<server, netVars, perClientVars, arrayVars, echoVars,
                 loadVars>>

User ==
  /\ Tcp!User
  /\ UNCHANGED <<server, netVars, perClientVars, arrayVars, echoVars,
                 loadVars>>

\* Datagrams are kept as long as the server has its UDP socket.
Serving == server # "tcp" /\ main_pc # "exit"

Process(c) == /\ i[c] < MaxTurns[c]
              /\ Load!Process(c, Serving) /\ UNCHANGED <<server, serverVars>>

Interrupt(c) == Load!Interrupt(c) /\ UNCHANGED <<server, serverVars>>

Main   == TcpMain \/ UdpMain \/ EchoMain
Worker == EchoTcp \/ EchoUdp \/ \E t \in Thread : TcpThread(t) \/ UdpThread(t)

Next == \/ Main \/ Worker \/ ShutdownThread \/ User
        \/ \E c \in Client : Process(c)
        \/ \E c \in Impatient : Interrupt(c)

Spec == Init /\ [][Next]_vars

\* The threads of the server are scheduled, and the clients that nobody
\* suspends; nobody has to type or to press CTRL + C.
Fairness ==
  /\ WF_vars(Main) /\ WF_vars(EchoTcp \/ EchoUdp)
  /\ \A t \in Thread : WF_vars(TcpThread(t) \/ UdpThread(t))
  /\ WF_vars(ShutdownThread)
  /\ \A c \in Steady : WF_vars(Process(c))

FairSpec == Spec /\ Fairness
-----------------------------------------------------------------------------
(* Properties.                                                             *)

\* What the kernel keeps has its types ...
NetTypeOK ==
  /\ sock \in [Socket -> {"none", "open", "connected", "closed"}]
  /\ listening \in BOOLEAN
  /\ waiting \subseteq Socket /\ said \subseteq Socket
  /\ open \subseteq Socket /\ inbox \subseteq Socket
  /\ answered \subseteq Socket

\* ... and the main threads ...
MainTypeOK ==
  /\ server \in {"tcp", "udp", "echo"}
  /\ main_pc \in {"loop", "accept", "recvfrom", "create", "select", "tcp",
                  "join_tcp", "udp", "join_udp", "stop", "join",
                  "join_shutdown", "exit"}
  /\ main_while_var \in {0, 1} /\ stop_threads \in {0, 1}
  /\ shutdown_pc \in {"check", "scanf", "done"}

\* ... the rounds, which never use an entry behind the arrays (line 142 of the
\* TCP server) ...
RoundsTypeOK ==
  /\ count \in 0 .. START_ALLOC - 1 /\ count_threads \in 0 .. START_ALLOC - 1
  /\ error_flag \in Nat
  /\ pc \in [Thread -> {"none", "recv", "send", "sendto", "loop", "done"}]
  /\ clients_fd \in [Thread -> Socket \cup {None}]
  /\ pthread_args \in [Thread -> Thread]
  /\ addr_clients \in [Thread -> Socket \cup {None}]
  /\ args \in [Thread -> Socket \cup {None}]

\* ... the echo server ...
EchoTypeOK ==
  /\ fd_in \subseteq {"tcp", "udp"}
  /\ tcp_pc \in {"none", "listen", "accept", "recv", "send", "close", "done"}
  /\ udp_pc \in {"none", "recvfrom", "sendto", "done"}
  /\ fd_client_tcp \in Socket \cup {None}
  /\ addr_client_udp \in Socket \cup {None}
  /\ accept_errors \in Nat

\* ... and the clients.
LoadTypeOK ==
  /\ protocol \in [Client -> {"tcp", "udp"}]
  /\ load_pc \in [Client -> {"socket", "connect", "send", "recv", "sendto",
                             "poll", "close", "overrun", "done"}]
  /\ i \in [Client -> 0 .. size_alloc - 1]
  /\ counted \subseteq Socket

\* The variables keep their types.
TypeOK ==
  NetTypeOK /\ MainTypeOK /\ RoundsTypeOK /\ EchoTypeOK /\ LoadTypeOK

Created(t) == pc[t] # "none"
Alive(t)   == pc[t] \notin {"none", "done"}

\* Whom a thread serves, as it reads it through its argument.
Serves(t) == IF server = "tcp" THEN Tcp!Fd(t) ELSE args[t]

\* Each thread serves a client of its own, although failing calls make the
\* numbers of rounds and threads differ and an argument is written again after
\* a pthread_create() that failed (tcp 128-136, udp 132-144).  A TCP thread's
\* connection stays open until it closes it.
OwnClient ==
  /\ \A t, u \in Thread :
       Created(t) /\ Created(u) /\ t # u => Serves(t) # Serves(u)
  /\ \A t \in Thread : server = "tcp" /\ Alive(t) => Serves(t) \in open

\* No thread is left to use the arrays and the sockets that main gives back at
\* its end (tcp 153-170).
AloneAtExit ==
  main_pc = "exit" => /\ \A t \in Thread : ~Alive(t)
                      /\ tcp_pc \in {"none", "done"}
                      /\ udp_pc \in {"none", "done"}
                      /\ shutdown_pc = "done"

\* The threads of the echo server share buff_input and buff_output without a
\* lock: one thread uses them, and main waits for it (144-167).
OneAtATime ==
  /\ tcp_pc \notin {"none", "done"} =>
       main_pc = "join_tcp" /\ udp_pc \in {"none", "done"}
  /\ udp_pc \notin {"none", "done"} =>
       main_pc = "join_udp" /\ tcp_pc \in {"none", "done"}

\* What main has taken and not yet given to a thread.
Taken == IF server = "tcp" THEN open
                           ELSE {addr_clients[e] : e \in Thread} \ {None}
InHand == {IF server = "tcp" THEN clients_fd[count] ELSE addr_clients[count]}

HasThread(s) == \E t \in Thread : Created(t) /\ Serves(t) = s

\* A server that ends with EXIT_SUCCESS (tcp 174) has given every client it
\* took to a thread; no connection stays open without one.
NobodyForgotten ==
  server # "echo" /\ error_flag = 0 =>
    \A s \in Taken : HasThread(s) \/ (main_pc = "create" /\ s \in InHand)

\* What the load-test client counts as a connection was served: the server
\* does not close before it has answered.  Only its end makes recv() return
\* 0, which counts as well (load-test client 123-131).
CountedWasAnswered ==
  \A s \in counted : s \in answered \/ main_pc = "exit"

\* A client that keeps main of the echo server in pthread_join(): there is
\* none to accept, or it says nothing.
TcpHoldsUp == \/ tcp_pc = "accept" /\ waiting = {}
              \/ tcp_pc = "recv" /\ ~Arrived(fd_client_tcp)

\* A client whose pthread_create() failed.
Dropped(s) == /\ server # "echo" /\ ~HasThread(s)
              /\ s \notin waiting \cup inbox /\ main_pc # "create"

\* A client that has asked is answered, whatever others do, unless its thread
\* could not be created or the server ends; but a UDP client of the echo
\* server has to wait for a TCP client that says nothing, and for the first
\* TCP client to come (echo 150, 189).
IsServed ==
  \A s \in Socket : s \in (open \cap said) \cup inbox ~>
    s \in answered \/ Dropped(s) \/ stop_threads = 1 \/ []TcpHoldsUp

\* The server ends once it is told to, or its arrays are used up, unless for
\* ever it waits for another client, for a silent one, or, in the latter case,
\* for a word of the user (tcp 119, 160, 195, 239).
StopsUnlessWaiting ==
  main_while_var = 0 \/ stop_threads = 1 ~>
    \/ main_pc = "exit"
    \/ [](\/ main_pc \in {"accept", "recvfrom"} \/ TcpHoldsUp
          \/ \E t \in Thread : server = "tcp" /\ Tcp!SilentAt(t))
    \/ [](shutdown_pc = "scanf")

\* The load test ends, unless the server neither serves nor refuses: its arrays
\* are used up and it waits for the user, or for a silent client, or the
\* client's thread could not be created (tcp 131, 142, 160).
Hangs(c) == /\ load_pc[c] \in {"connect", "recv"}
            /\ \/ main_pc \in {"join", "join_shutdown"} \/ TcpHoldsUp
               \/ Dropped(Load!Mine(c))

TestEnds ==
  \A c \in Steady : \/ <>(load_pc[c] \in {"overrun", "done"})
                    \/ <>[]Hangs(c)
=============================================================================
