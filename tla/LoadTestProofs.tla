--------------------------- MODULE LoadTestProofs ---------------------------
(***************************************************************************)
(* Proofs about LoadTest, for any number of processes, sockets and array   *)
(* entries: the threads and their arguments, and what is counted.          *)
(*                                                                         *)
(* The heart of it: a socket is used once (Behind), so what waits, what    *)
(* main has in its arrays and what a thread serves are different sockets.  *)
(***************************************************************************)
EXTENDS LoadTest, TLAPS

\* The process has made its connection or sent its datagram over s.
Behind(s) == \/ s[2] < i[s[1]]
             \/ s[2] = i[s[1]]
                /\ load_pc[s[1]] \notin {"socket", "connect", "sendto"}

Rounds == {"loop", "accept", "recvfrom", "create"}

\* The numbers of rounds and threads; without an error they are the same.
CountInv ==
  /\ main_pc \in Rounds => count < START_ALLOC - 1
  /\ count_threads <= count
  /\ \A t \in Thread : Created(t) <=> t < count_threads
  /\ error_flag = 0 => count_threads = count
  /\ server = "echo" => count = 0

\* Of the threads of the echo server main waits for the one that runs, and
\* that one has its client.
EchoInv ==
  /\ tcp_pc \notin {"none", "done"} => main_pc = "join_tcp"
  /\ udp_pc \notin {"none", "done"} => main_pc = "join_udp"
  /\ tcp_pc \in {"recv", "send", "close"} => fd_client_tcp \in Socket
  /\ udp_pc = "sendto" => addr_client_udp \in Socket

\* main has joined everybody before the end.
JoinInv ==
  /\ server = "echo" => \A t \in Thread : pc[t] = "none"
  /\ main_pc \in {"join_shutdown", "exit"} => \A t \in Thread : ~Alive(t)
  /\ main_pc = "exit" => shutdown_pc = "done"

\* Nothing is used that was not sent, and nothing that waits was taken.
NetInv ==
  /\ \A s \in waiting \cup inbox : Behind(s)
  /\ \A e \in Thread : /\ clients_fd[e] \in Socket => Behind(clients_fd[e])
                       /\ clients_fd[e] \notin waiting
                       /\ args[e] \in Socket => Behind(args[e])
                       /\ args[e] \notin inbox

\* The TCP server: the entries of the array are different connections ...
EntryInv ==
  \A e, f \in Thread :
    clients_fd[e] \in Socket /\ e # f => clients_fd[e] # clients_fd[f]

\* ... the threads' entries ascend ...
ArgsInv ==
  /\ \A t \in Thread : t < count_threads =>
       pthread_args[t] < count /\ clients_fd[pthread_args[t]] \in Socket
  /\ \A t, u \in Thread :
       t < u /\ u < count_threads => pthread_args[t] < pthread_args[u]
  /\ main_pc = "create" => /\ pthread_args[count_threads] = count
                           /\ clients_fd[count] \in Socket \cap open
  /\ error_flag = 0 =>
       \A t \in Thread : t < count_threads => pthread_args[t] = t

\* ... a thread's connection is open until it was answered ...
ThreadInv ==
  \A t \in Thread : /\ Alive(t) => Tcp!Fd(t) \in open
                    /\ pc[t] = "loop" => Tcp!Fd(t) \in answered

\* ... and every open connection is in an entry.
OpenInv ==
  \A s \in open : \E e \in Thread :
    /\ clients_fd[e] = s
    /\ e < count \/ (e = count /\ main_pc = "create")

TcpInv == server = "tcp" => EntryInv /\ ArgsInv /\ ThreadInv /\ OpenInv

\* The UDP server: the arguments are different clients ...
UdpArgsInv ==
  /\ \A t \in Thread : t < count_threads => args[t] \in Socket
  /\ \A t, u \in Thread : t < u /\ u < count_threads => args[t] # args[u]
  /\ main_pc = "create" =>
       /\ args[count_threads] \in Socket
       /\ args[count_threads] = addr_clients[count]
       /\ \A t \in Thread : t < count_threads => args[t] # args[count_threads]
  /\ error_flag = 0 =>
       \A t \in Thread : t < count_threads => args[t] = addr_clients[t]

\* ... and only rounds that main has begun have an entry.
UdpEntryInv ==
  \A e \in Thread : \/ e < count \/ addr_clients[e] = None
                    \/ e = count /\ main_pc = "create"

UdpInv == server = "udp" => UdpArgsInv /\ UdpEntryInv

\* A connection is open until its client was answered.
ServedInv ==
  /\ server = "echo" /\ tcp_pc = "close" => fd_client_tcp \in answered
  /\ \A c \in Client : load_pc[c] \in {"send", "recv"} =>
       Load!Mine(c) \in waiting \cup open \cup answered \/ main_pc = "exit"

IInv == /\ TypeOK /\ CountInv /\ EchoInv /\ JoinInv /\ NetInv /\ TcpInv
        /\ UdpInv /\ ServedInv /\ CountedWasAnswered

-----------------------------------------------------------------------------
(* The state at the start and the types.                                   *)

\* The modules of the servers and the client define these sets alike.
LEMMA SameNames ==
  /\ None \notin Socket
  /\ Tcp!None = None /\ Udp!None = None /\ Echo!None = None
  /\ Tcp!Index = Thread /\ Udp!Index = Thread
  /\ Tcp!Socket = Socket /\ Echo!Socket = Socket /\ Load!Socket = Socket
BY DEF None, Tcp!None, Udp!None, Echo!None, Thread, Tcp!Index, Udp!Index,
       Socket, Tcp!Socket, Echo!Socket, Load!Socket

\* The initial state satisfies the invariant.
LEMMA InitInv == Init => IInv
<1> SUFFICES ASSUME Init PROVE IInv
  OBVIOUS
<1> USE SameNames, TestAssumption, SocketsAssumption
    DEF Init, NetInit, Tcp!ServerInit, Tcp!ThreadsInit, Tcp!TcpInit,
        Udp!UdpInit, Echo!EchoInit, Load!LoadInit, Thread
<1>1. TypeOK
  <2>1. NetTypeOK /\ MainTypeOK
    BY DEF NetTypeOK, MainTypeOK
  <2>2. RoundsTypeOK
    BY DEF RoundsTypeOK
  <2>3. EchoTypeOK
    BY DEF EchoTypeOK
  <2>4. Protocols(server) \subseteq {"tcp", "udp"}
    BY DEF Protocols
  <2>5. LoadTypeOK
    BY <2>4 DEF LoadTypeOK
  <2> QED BY <2>1, <2>2, <2>3, <2>5 DEF TypeOK
<1>2. CountInv /\ EchoInv /\ JoinInv
  BY DEF CountInv, EchoInv, JoinInv, Created, Alive
<1>3. NetInv
  <2>1. None \notin Socket
    BY DEF None, Socket
  <2> QED BY <2>1 DEF NetInv
<1>4. TcpInv
  BY DEF TcpInv, EntryInv, ArgsInv, ThreadInv, OpenInv, Alive
<1>5. UdpInv
  BY DEF UdpInv, UdpArgsInv, UdpEntryInv
<1>6. ServedInv /\ CountedWasAnswered
  BY DEF ServedInv, CountedWasAnswered
<1> QED BY <1>1, <1>2, <1>3, <1>4, <1>5, <1>6 DEF IInv

\* The socket that a process uses is one of Socket.
LEMMA MineType == TypeOK => \A c \in Client : Load!Mine(c) \in Socket
BY DEF TypeOK, LoadTypeOK, Load!Mine, Socket

\* Every step keeps the types of what the kernel has.
LEMMA NetType == IInv /\ [Next]_vars => NetTypeOK'
<1> SUFFICES ASSUME IInv, [Next]_vars PROVE NetTypeOK'
  OBVIOUS
<1> USE SameNames, MineType, TestAssumption, SocketsAssumption DEF IInv, TypeOK
<1>1. CASE TcpMain
  <2>1. CASE Tcp!Listen
    BY <1>1, <2>1 DEF TcpMain, Tcp!Listen, Tcp!netVars, Tcp!fdVars, echoVars,
       loadVars, NetTypeOK, RoundsTypeOK, EchoTypeOK, LoadTypeOK,
       Load!netVars, EchoInv, TcpInv, ThreadInv, UdpInv, UdpArgsInv, CountInv,
       Created, Alive, Tcp!Fd
  <2>2. CASE Tcp!Accept
    BY <1>1, <2>2 DEF TcpMain, Tcp!Accept, Tcp!netVars, Tcp!fdVars, echoVars,
       loadVars, NetTypeOK, RoundsTypeOK, EchoTypeOK, LoadTypeOK,
       Load!netVars, EchoInv, TcpInv, ThreadInv, UdpInv, UdpArgsInv, CountInv,
       Created, Alive, Tcp!Fd
  <2>3. CASE Tcp!AcceptFails
    BY <1>1, <2>3 DEF TcpMain, Tcp!AcceptFails, Tcp!Round, Tcp!CanFail,
       Tcp!netVars, Tcp!fdVars, echoVars, loadVars, NetTypeOK, RoundsTypeOK,
       EchoTypeOK, LoadTypeOK, Load!netVars, EchoInv, TcpInv, ThreadInv,
       UdpInv, UdpArgsInv, CountInv, Created, Alive, Tcp!Fd
  <2>4. CASE Tcp!Create("recv") /\ UNCHANGED Tcp!fdVars
    BY <1>1, <2>4 DEF TcpMain, Tcp!Create, Tcp!Round, Tcp!GotoT, Tcp!netVars,
       Tcp!fdVars, echoVars, loadVars, NetTypeOK, RoundsTypeOK, EchoTypeOK,
       LoadTypeOK, Load!netVars, EchoInv, TcpInv, ThreadInv, UdpInv,
       UdpArgsInv, CountInv, Created, Alive, Tcp!Fd
  <2>5. CASE Tcp!CreateFails /\ UNCHANGED Tcp!fdVars
    BY <1>1, <2>5 DEF TcpMain, Tcp!CreateFails, Tcp!Round, Tcp!CanFail,
       Tcp!netVars, Tcp!fdVars, echoVars, loadVars, NetTypeOK, RoundsTypeOK,
       EchoTypeOK, LoadTypeOK, Load!netVars, EchoInv, TcpInv, ThreadInv,
       UdpInv, UdpArgsInv, CountInv, Created, Alive, Tcp!Fd
  <2>6. CASE /\ Tcp!Stop
             /\ UNCHANGED <<Tcp!netVars, Tcp!countVars, pc, Tcp!fdVars>>
    BY <1>1, <2>6 DEF TcpMain, Tcp!Stop, Tcp!netVars, Tcp!fdVars, echoVars,
       loadVars, NetTypeOK, RoundsTypeOK, EchoTypeOK, LoadTypeOK,
       Load!netVars, EchoInv, TcpInv, ThreadInv, UdpInv, UdpArgsInv, CountInv,
       Created, Alive, Tcp!Fd
  <2>7. CASE Tcp!Join /\ UNCHANGED Tcp!fdVars
    BY <1>1, <2>7 DEF TcpMain, Tcp!Join, Tcp!netVars, Tcp!fdVars, echoVars,
       loadVars, NetTypeOK, RoundsTypeOK, EchoTypeOK, LoadTypeOK,
       Load!netVars, EchoInv, TcpInv, ThreadInv, UdpInv, UdpArgsInv, CountInv,
       Created, Alive, Tcp!Fd
  <2>8. CASE Tcp!Exit /\ UNCHANGED <<Tcp!countVars, pc, Tcp!fdVars>>
    BY <1>1, <2>8 DEF TcpMain, Tcp!Exit, Tcp!CloseServer, Tcp!netVars,
       Tcp!fdVars, echoVars, loadVars, NetTypeOK, RoundsTypeOK, EchoTypeOK,
       LoadTypeOK, Load!netVars, EchoInv, TcpInv, ThreadInv, UdpInv,
       UdpArgsInv, CountInv, Created, Alive, Tcp!Fd
  <2> QED BY <1>1, <2>1, <2>2, <2>3, <2>4, <2>5, <2>6, <2>7, <2>8 DEF TcpMain,
     Tcp!Main
<1>2. CASE \E t \in Thread : TcpThread(t)
  <2> PICK t \in Thread : TcpThread(t)
    BY <1>2
  <2> QED BY DEF TcpThread, Tcp!Thread, Tcp!Recv, Tcp!GotoT, Tcp!Send,
     Tcp!Loop, Tcp!netVars, Tcp!fdVars, echoVars, loadVars, NetTypeOK,
     RoundsTypeOK, EchoTypeOK, LoadTypeOK, Load!netVars, EchoInv, TcpInv,
     ThreadInv, UdpInv, UdpArgsInv, CountInv, Created, Alive, Tcp!Fd
<1>3. CASE UdpMain
  <2>1. CASE Udp!Loop
    BY <1>3, <2>1 DEF UdpMain, Udp!Loop, Udp!netVars, Udp!addrVars, echoVars,
       loadVars, NetTypeOK, RoundsTypeOK, EchoTypeOK, LoadTypeOK,
       Load!netVars, EchoInv, TcpInv, ThreadInv, UdpInv, UdpArgsInv, CountInv,
       Created, Alive, Tcp!Fd
  <2>2. CASE Udp!RecvFrom
    BY <1>3, <2>2 DEF UdpMain, Udp!RecvFrom, Udp!netVars, Udp!addrVars,
       echoVars, loadVars, NetTypeOK, RoundsTypeOK, EchoTypeOK, LoadTypeOK,
       Load!netVars, EchoInv, TcpInv, ThreadInv, UdpInv, UdpArgsInv, CountInv,
       Created, Alive, Tcp!Fd
  <2>3. CASE Udp!RecvFromFails
    BY <1>3, <2>3 DEF UdpMain, Udp!RecvFromFails, Udp!Round, Udp!CanFail,
       Udp!netVars, Udp!addrVars, echoVars, loadVars, NetTypeOK, RoundsTypeOK,
       EchoTypeOK, LoadTypeOK, Load!netVars, EchoInv, TcpInv, ThreadInv,
       UdpInv, UdpArgsInv, CountInv, Created, Alive, Tcp!Fd
  <2>4. CASE Udp!Create("sendto") /\ UNCHANGED Udp!addrVars
    BY <1>3, <2>4 DEF UdpMain, Udp!Create, Udp!Round, Udp!GotoT, Udp!netVars,
       Udp!addrVars, echoVars, loadVars, NetTypeOK, RoundsTypeOK, EchoTypeOK,
       LoadTypeOK, Load!netVars, EchoInv, TcpInv, ThreadInv, UdpInv,
       UdpArgsInv, CountInv, Created, Alive, Tcp!Fd
  <2>5. CASE Udp!CreateFails /\ UNCHANGED Udp!addrVars
    BY <1>3, <2>5 DEF UdpMain, Udp!CreateFails, Udp!Round, Udp!CanFail,
       Udp!netVars, Udp!addrVars, echoVars, loadVars, NetTypeOK, RoundsTypeOK,
       EchoTypeOK, LoadTypeOK, Load!netVars, EchoInv, TcpInv, ThreadInv,
       UdpInv, UdpArgsInv, CountInv, Created, Alive, Tcp!Fd
  <2>6. CASE /\ Udp!Stop
             /\ UNCHANGED <<Udp!netVars, Udp!countVars, pc, Udp!addrVars>>
    BY <1>3, <2>6 DEF UdpMain, Udp!Stop, Udp!netVars, Udp!addrVars, echoVars,
       loadVars, NetTypeOK, RoundsTypeOK, EchoTypeOK, LoadTypeOK,
       Load!netVars, EchoInv, TcpInv, ThreadInv, UdpInv, UdpArgsInv, CountInv,
       Created, Alive, Tcp!Fd
  <2>7. CASE Udp!Join /\ UNCHANGED Udp!addrVars
    BY <1>3, <2>7 DEF UdpMain, Udp!Join, Udp!netVars, Udp!addrVars, echoVars,
       loadVars, NetTypeOK, RoundsTypeOK, EchoTypeOK, LoadTypeOK,
       Load!netVars, EchoInv, TcpInv, ThreadInv, UdpInv, UdpArgsInv, CountInv,
       Created, Alive, Tcp!Fd
  <2>8. CASE Udp!Exit /\ UNCHANGED <<Udp!countVars, pc, Udp!addrVars>>
    BY <1>3, <2>8 DEF UdpMain, Udp!Exit, Udp!CloseServer, Udp!netVars,
       Udp!addrVars, echoVars, loadVars, NetTypeOK, RoundsTypeOK, EchoTypeOK,
       LoadTypeOK, Load!netVars, EchoInv, TcpInv, ThreadInv, UdpInv,
       UdpArgsInv, CountInv, Created, Alive, Tcp!Fd
  <2> QED BY <1>3, <2>1, <2>2, <2>3, <2>4, <2>5, <2>6, <2>7, <2>8 DEF UdpMain,
     Udp!Main
<1>4. CASE \E t \in Thread : UdpThread(t)
  <2> PICK t \in Thread : UdpThread(t)
    BY <1>4
  <2> QED BY DEF UdpThread, Udp!Thread, Udp!SendTo, Udp!GotoT, Udp!Sleep,
     Udp!netVars, Udp!addrVars, echoVars, loadVars, NetTypeOK, RoundsTypeOK,
     EchoTypeOK, LoadTypeOK, Load!netVars, EchoInv, TcpInv, ThreadInv, UdpInv,
     UdpArgsInv, CountInv, Created, Alive, Tcp!Fd
<1>5. CASE EchoMain
  BY <1>5 DEF EchoMain, Echo!Main, Echo!Loop, Echo!Select, Echo!Events,
     Echo!SelectTimeout, Echo!CreateTcp, Echo!JoinTcp, Echo!CreateUdp,
     Echo!JoinUdp, Echo!NoJoin, Echo!Stop, Echo!Exit, Echo!CloseServer,
     Echo!netVars, Echo!echoVars, perClientVars, arrayVars, loadVars,
     NetTypeOK, RoundsTypeOK, EchoTypeOK, LoadTypeOK, Load!netVars, EchoInv,
     TcpInv, ThreadInv, UdpInv, UdpArgsInv, CountInv, Created, Alive, Tcp!Fd
<1>6. CASE EchoTcp
  <2>1. CASE Echo!Listen
    BY <1>6, <2>1 DEF EchoTcp, Echo!Listen, Echo!netVars, Echo!echoVars,
       perClientVars, arrayVars, loadVars, NetTypeOK, RoundsTypeOK,
       EchoTypeOK, LoadTypeOK, Load!netVars, EchoInv, TcpInv, ThreadInv,
       UdpInv, UdpArgsInv, CountInv, Created, Alive, Tcp!Fd
  <2>2. CASE Echo!Accept
    BY <1>6, <2>2 DEF EchoTcp, Echo!Accept, Echo!netVars, Echo!echoVars,
       perClientVars, arrayVars, loadVars, NetTypeOK, RoundsTypeOK,
       EchoTypeOK, LoadTypeOK, Load!netVars, EchoInv, TcpInv, ThreadInv,
       UdpInv, UdpArgsInv, CountInv, Created, Alive, Tcp!Fd
  <2>3. CASE Echo!AcceptFails
    BY <1>6, <2>3 DEF EchoTcp, Echo!AcceptFails, Echo!netVars, Echo!echoVars,
       perClientVars, arrayVars, loadVars, NetTypeOK, RoundsTypeOK,
       EchoTypeOK, LoadTypeOK, Load!netVars, EchoInv, TcpInv, ThreadInv,
       UdpInv, UdpArgsInv, CountInv, Created, Alive, Tcp!Fd
  <2>4. CASE Echo!Recv
    BY <1>6, <2>4 DEF EchoTcp, Echo!Recv, Echo!netVars, Echo!echoVars,
       perClientVars, arrayVars, loadVars, NetTypeOK, RoundsTypeOK,
       EchoTypeOK, LoadTypeOK, Load!netVars, EchoInv, TcpInv, ThreadInv,
       UdpInv, UdpArgsInv, CountInv, Created, Alive, Tcp!Fd
  <2>5. CASE Echo!Send
    BY <1>6, <2>5 DEF EchoTcp, Echo!Send, Echo!netVars, Echo!echoVars,
       perClientVars, arrayVars, loadVars, NetTypeOK, RoundsTypeOK,
       EchoTypeOK, LoadTypeOK, Load!netVars, EchoInv, TcpInv, ThreadInv,
       UdpInv, UdpArgsInv, CountInv, Created, Alive, Tcp!Fd
  <2>6. CASE Echo!Close
    BY <1>6, <2>6 DEF EchoTcp, Echo!Close, Echo!netVars, Echo!echoVars,
       perClientVars, arrayVars, loadVars, NetTypeOK, RoundsTypeOK,
       EchoTypeOK, LoadTypeOK, Load!netVars, EchoInv, TcpInv, ThreadInv,
       UdpInv, UdpArgsInv, CountInv, Created, Alive, Tcp!Fd
  <2> QED BY <1>6, <2>1, <2>2, <2>3, <2>4, <2>5, <2>6 DEF EchoTcp,
     Echo!ThreadTcp
<1>7. CASE EchoUdp
  BY <1>7 DEF EchoUdp, Echo!ThreadUdp, Echo!RecvFrom, Echo!SendTo,
     Echo!netVars, Echo!echoVars, perClientVars, arrayVars, loadVars,
     NetTypeOK, RoundsTypeOK, EchoTypeOK, LoadTypeOK, Load!netVars, EchoInv,
     TcpInv, ThreadInv, UdpInv, UdpArgsInv, CountInv, Created, Alive, Tcp!Fd
<1>8. CASE ShutdownThread \/ User
  BY <1>8 DEF ShutdownThread, User, Tcp!User, Tcp!ShutdownCheck, Tcp!TypeS,
     Tcp!TypeOther, netVars, perClientVars, arrayVars, echoVars, loadVars,
     NetTypeOK, RoundsTypeOK, EchoTypeOK, LoadTypeOK, Load!netVars, EchoInv,
     TcpInv, ThreadInv, UdpInv, UdpArgsInv, CountInv, Created, Alive, Tcp!Fd
<1>9. CASE \E c \in Client : Process(c)
  <2> PICK c \in Client : Process(c)
    BY <1>9
  <2> QED BY DEF Process, Load!Process, Load!MakeSocket, Load!Goto,
     Load!SocketFails, Load!GoOn, Load!Connect, Load!Refused, Load!Send,
     Load!Recv, Load!EndTurn, Load!RecvFails, Load!SendTo, Load!RecvFrom,
     Load!PollTimeout, Load!Close, Load!CloseSockets, Load!netVars,
     serverVars, perClientVars, arrayVars, echoVars, NetTypeOK, RoundsTypeOK,
     EchoTypeOK, LoadTypeOK, EchoInv, TcpInv, ThreadInv, UdpInv, UdpArgsInv,
     CountInv, Created, Alive, Tcp!Fd
<1>10. CASE \E c \in Impatient : Interrupt(c)
  <2> PICK c \in Impatient : Interrupt(c)
    BY <1>10
  <2> QED BY DEF Interrupt, Load!Interrupt, Load!CloseSockets, Load!Goto,
     Load!netVars, serverVars, perClientVars, arrayVars, echoVars, NetTypeOK,
     RoundsTypeOK, EchoTypeOK, LoadTypeOK, EchoInv, TcpInv, ThreadInv, UdpInv,
     UdpArgsInv, CountInv, Created, Alive, Tcp!Fd
<1>11. CASE UNCHANGED vars
  BY <1>11 DEF vars, netVars, serverVars, perClientVars, arrayVars, echoVars,
     loadVars, NetTypeOK, RoundsTypeOK, EchoTypeOK, LoadTypeOK, Load!netVars,
     EchoInv, TcpInv, ThreadInv, UdpInv, UdpArgsInv, CountInv, Created, Alive,
     Tcp!Fd
<1> QED BY <1>1, <1>2, <1>3, <1>4, <1>5, <1>6, <1>7, <1>8, <1>9, <1>10, <1>11
   DEF Next, Main, Worker

\* Every step keeps the types of the variables of main and of its stop.
LEMMA MainType == IInv /\ [Next]_vars => MainTypeOK'
<1> SUFFICES ASSUME IInv, [Next]_vars PROVE MainTypeOK'
  OBVIOUS
<1> USE SameNames, MineType, TestAssumption, SocketsAssumption DEF IInv, TypeOK
<1>1. CASE TcpMain
  BY <1>1 DEF TcpMain, Tcp!Main, Tcp!Listen, Tcp!Accept, Tcp!AcceptFails,
     Tcp!Round, Tcp!CanFail, Tcp!Create, Tcp!GotoT, Tcp!CreateFails, Tcp!Stop,
     Tcp!Join, Tcp!Exit, Tcp!CloseServer, Tcp!stopVars, MainTypeOK
<1>2. CASE \E t \in Thread : TcpThread(t)
  <2> PICK t \in Thread : TcpThread(t)
    BY <1>2
  <2> QED BY DEF TcpThread, Tcp!Thread, Tcp!Recv, Tcp!GotoT, Tcp!Send,
     Tcp!Loop, Tcp!stopVars, MainTypeOK
<1>3. CASE UdpMain
  BY <1>3 DEF UdpMain, Udp!Main, Udp!Loop, Udp!RecvFrom, Udp!RecvFromFails,
     Udp!Round, Udp!CanFail, Udp!Create, Udp!GotoT, Udp!CreateFails, Udp!Stop,
     Udp!Join, Udp!Exit, Udp!CloseServer, Udp!stopVars, MainTypeOK
<1>4. CASE \E t \in Thread : UdpThread(t)
  <2> PICK t \in Thread : UdpThread(t)
    BY <1>4
  <2> QED BY DEF UdpThread, Udp!Thread, Udp!SendTo, Udp!GotoT, Udp!Sleep,
     Udp!stopVars, MainTypeOK
<1>5. CASE EchoMain
  BY <1>5 DEF EchoMain, Echo!Main, Echo!Loop, Echo!Select, Echo!Events,
     Echo!SelectTimeout, Echo!CreateTcp, Echo!JoinTcp, Echo!CreateUdp,
     Echo!JoinUdp, Echo!NoJoin, Echo!Stop, Echo!Exit, Echo!CloseServer,
     Echo!stopVars, MainTypeOK
<1>6. CASE EchoTcp
  BY <1>6 DEF EchoTcp, Echo!ThreadTcp, Echo!Listen, Echo!Accept,
     Echo!AcceptFails, Echo!Recv, Echo!Send, Echo!Close, Echo!stopVars,
     MainTypeOK
<1>7. CASE EchoUdp
  BY <1>7 DEF EchoUdp, Echo!ThreadUdp, Echo!RecvFrom, Echo!SendTo,
     Echo!stopVars, MainTypeOK
<1>8. CASE ShutdownThread \/ User
  BY <1>8 DEF ShutdownThread, User, Tcp!User, Tcp!ShutdownCheck, Tcp!TypeS,
     Tcp!TypeOther, MainTypeOK
<1>9. CASE \E c \in Client : Process(c)
  <2> PICK c \in Client : Process(c)
    BY <1>9
  <2> QED BY DEF Process, Load!Process, Load!MakeSocket, Load!Goto,
     Load!SocketFails, Load!GoOn, Load!Connect, Load!Refused, Load!Send,
     Load!Recv, Load!EndTurn, Load!RecvFails, Load!SendTo, Load!RecvFrom,
     Load!PollTimeout, Load!Close, Load!CloseSockets, serverVars, stopVars,
     MainTypeOK
<1>10. CASE \E c \in Impatient : Interrupt(c)
  <2> PICK c \in Impatient : Interrupt(c)
    BY <1>10
  <2> QED BY DEF Interrupt, Load!Interrupt, Load!CloseSockets, Load!Goto,
     serverVars, stopVars, MainTypeOK
<1>11. CASE UNCHANGED vars
  BY <1>11 DEF vars, serverVars, stopVars, MainTypeOK
<1> QED BY <1>1, <1>2, <1>3, <1>4, <1>5, <1>6, <1>7, <1>8, <1>9, <1>10, <1>11
   DEF Next, Main, Worker

\* Every step keeps the types of the rounds, the arrays and the threads.
LEMMA RoundsType == IInv /\ [Next]_vars => RoundsTypeOK'
<1> SUFFICES ASSUME IInv, [Next]_vars PROVE RoundsTypeOK'
  OBVIOUS
<1> USE SameNames, MineType, TestAssumption, SocketsAssumption DEF IInv, TypeOK
<1>1. CASE TcpMain
  <2>1. CASE Tcp!Listen
    BY <1>1, <2>1 DEF TcpMain, Tcp!Listen, Tcp!countVars, Tcp!fdVars,
       RoundsTypeOK, NetTypeOK, CountInv, Rounds, Thread
  <2>2. CASE Tcp!Accept
    <3>1. count \in Thread /\ count_threads \in Thread
      BY DEF RoundsTypeOK, Thread
    <3> QED BY <1>1, <2>2, <3>1 DEF TcpMain, Tcp!Accept, Tcp!countVars,
       NetTypeOK, RoundsTypeOK
  <2>3. CASE Tcp!AcceptFails
    BY <1>1, <2>3 DEF TcpMain, Tcp!AcceptFails, Tcp!Round, Tcp!CanFail,
       Tcp!countVars, Tcp!fdVars, RoundsTypeOK, NetTypeOK, CountInv, Rounds,
       Thread
  <2>4. CASE Tcp!Create("recv") /\ UNCHANGED Tcp!fdVars
    <3>1. /\ count' = count + 1 /\ count_threads' = count_threads + 1
          /\ pc' = [pc EXCEPT ![count_threads] = "recv"]
          /\ UNCHANGED <<error_flag, addr_clients, args, clients_fd,
                         pthread_args>>
          /\ count < START_ALLOC - 1 /\ count_threads <= count
      BY <1>1, <2>4 DEF TcpMain, Tcp!Create, Tcp!Round, Tcp!GotoT, Tcp!fdVars,
         CountInv, Rounds
    <3> QED BY <3>1 DEF RoundsTypeOK, Thread
  <2>5. CASE Tcp!CreateFails /\ UNCHANGED Tcp!fdVars
    BY <1>1, <2>5 DEF TcpMain, Tcp!CreateFails, Tcp!Round, Tcp!CanFail,
       Tcp!countVars, Tcp!fdVars, RoundsTypeOK, NetTypeOK, CountInv, Rounds,
       Thread
  <2>6. CASE /\ Tcp!Stop
             /\ UNCHANGED <<Tcp!netVars, Tcp!countVars, pc, Tcp!fdVars>>
    BY <1>1, <2>6 DEF TcpMain, Tcp!Stop, Tcp!countVars, Tcp!fdVars,
       RoundsTypeOK, NetTypeOK, CountInv, Rounds, Thread
  <2>7. CASE Tcp!Join /\ UNCHANGED Tcp!fdVars
    BY <1>1, <2>7 DEF TcpMain, Tcp!Join, Tcp!countVars, Tcp!fdVars,
       RoundsTypeOK, NetTypeOK, CountInv, Rounds, Thread
  <2>8. CASE Tcp!Exit /\ UNCHANGED <<Tcp!countVars, pc, Tcp!fdVars>>
    BY <1>1, <2>8 DEF TcpMain, Tcp!Exit, Tcp!CloseServer, Tcp!countVars,
       Tcp!fdVars, RoundsTypeOK, NetTypeOK, CountInv, Rounds, Thread
  <2> QED BY <1>1, <2>1, <2>2, <2>3, <2>4, <2>5, <2>6, <2>7, <2>8 DEF TcpMain,
     Tcp!Main
<1>2. CASE \E t \in Thread : TcpThread(t)
  <2> PICK t \in Thread : TcpThread(t)
    BY <1>2
  <2> QED BY DEF TcpThread, Tcp!Thread, Tcp!Recv, Tcp!GotoT, Tcp!Send,
     Tcp!Loop, Tcp!countVars, Tcp!fdVars, RoundsTypeOK, NetTypeOK, CountInv,
     Rounds, Thread
<1>3. CASE UdpMain
  <2>1. CASE Udp!Loop
    BY <1>3, <2>1 DEF UdpMain, Udp!Loop, Udp!countVars, Udp!addrVars,
       RoundsTypeOK, NetTypeOK, CountInv, Rounds, Thread
  <2>2. CASE Udp!RecvFrom
    <3>1. count \in Thread /\ count_threads \in Thread
      BY DEF RoundsTypeOK, Thread
    <3> QED BY <1>3, <2>2, <3>1 DEF UdpMain, Udp!RecvFrom, Udp!countVars,
       NetTypeOK, RoundsTypeOK
  <2>3. CASE Udp!RecvFromFails
    BY <1>3, <2>3 DEF UdpMain, Udp!RecvFromFails, Udp!Round, Udp!CanFail,
       Udp!countVars, Udp!addrVars, RoundsTypeOK, NetTypeOK, CountInv, Rounds,
       Thread
  <2>4. CASE Udp!Create("sendto") /\ UNCHANGED Udp!addrVars
    <3>1. /\ count' = count + 1 /\ count_threads' = count_threads + 1
          /\ pc' = [pc EXCEPT ![count_threads] = "sendto"]
          /\ UNCHANGED <<error_flag, addr_clients, args, clients_fd,
                         pthread_args>>
          /\ count < START_ALLOC - 1 /\ count_threads <= count
      BY <1>3, <2>4 DEF UdpMain, Udp!Create, Udp!Round, Udp!GotoT,
         Udp!addrVars, CountInv, Rounds
    <3> QED BY <3>1 DEF RoundsTypeOK, Thread
  <2>5. CASE Udp!CreateFails /\ UNCHANGED Udp!addrVars
    BY <1>3, <2>5 DEF UdpMain, Udp!CreateFails, Udp!Round, Udp!CanFail,
       Udp!countVars, Udp!addrVars, RoundsTypeOK, NetTypeOK, CountInv, Rounds,
       Thread
  <2>6. CASE /\ Udp!Stop
             /\ UNCHANGED <<Udp!netVars, Udp!countVars, pc, Udp!addrVars>>
    BY <1>3, <2>6 DEF UdpMain, Udp!Stop, Udp!countVars, Udp!addrVars,
       RoundsTypeOK, NetTypeOK, CountInv, Rounds, Thread
  <2>7. CASE Udp!Join /\ UNCHANGED Udp!addrVars
    BY <1>3, <2>7 DEF UdpMain, Udp!Join, Udp!countVars, Udp!addrVars,
       RoundsTypeOK, NetTypeOK, CountInv, Rounds, Thread
  <2>8. CASE Udp!Exit /\ UNCHANGED <<Udp!countVars, pc, Udp!addrVars>>
    BY <1>3, <2>8 DEF UdpMain, Udp!Exit, Udp!CloseServer, Udp!countVars,
       Udp!addrVars, RoundsTypeOK, NetTypeOK, CountInv, Rounds, Thread
  <2> QED BY <1>3, <2>1, <2>2, <2>3, <2>4, <2>5, <2>6, <2>7, <2>8 DEF UdpMain,
     Udp!Main
<1>4. CASE \E t \in Thread : UdpThread(t)
  <2> PICK t \in Thread : UdpThread(t)
    BY <1>4
  <2> QED BY DEF UdpThread, Udp!Thread, Udp!SendTo, Udp!GotoT, Udp!Sleep,
     Udp!countVars, Udp!addrVars, RoundsTypeOK, NetTypeOK, CountInv, Rounds,
     Thread
<1>5. CASE EchoMain
  BY <1>5 DEF EchoMain, Echo!Main, Echo!Loop, Echo!Select, Echo!Events,
     Echo!SelectTimeout, Echo!CreateTcp, Echo!JoinTcp, Echo!CreateUdp,
     Echo!JoinUdp, Echo!NoJoin, Echo!Stop, Echo!Exit, Echo!CloseServer,
     perClientVars, arrayVars, RoundsTypeOK, NetTypeOK, CountInv, Rounds,
     Thread
<1>6. CASE EchoTcp
  BY <1>6 DEF EchoTcp, Echo!ThreadTcp, Echo!Listen, Echo!Accept,
     Echo!AcceptFails, Echo!Recv, Echo!Send, Echo!Close, perClientVars,
     arrayVars, RoundsTypeOK, NetTypeOK, CountInv, Rounds, Thread
<1>7. CASE EchoUdp
  BY <1>7 DEF EchoUdp, Echo!ThreadUdp, Echo!RecvFrom, Echo!SendTo,
     perClientVars, arrayVars, RoundsTypeOK, NetTypeOK, CountInv, Rounds,
     Thread
<1>8. CASE ShutdownThread \/ User
  BY <1>8 DEF ShutdownThread, User, Tcp!User, Tcp!ShutdownCheck, Tcp!TypeS,
     Tcp!TypeOther, perClientVars, arrayVars, RoundsTypeOK, NetTypeOK,
     CountInv, Rounds, Thread
<1>9. CASE \E c \in Client : Process(c)
  <2> PICK c \in Client : Process(c)
    BY <1>9
  <2> QED BY DEF Process, Load!Process, Load!MakeSocket, Load!Goto,
     Load!SocketFails, Load!GoOn, Load!Connect, Load!Refused, Load!Send,
     Load!Recv, Load!EndTurn, Load!RecvFails, Load!SendTo, Load!RecvFrom,
     Load!PollTimeout, Load!Close, Load!CloseSockets, serverVars,
     perClientVars, arrayVars, RoundsTypeOK, NetTypeOK, CountInv, Rounds,
     Thread
<1>10. CASE \E c \in Impatient : Interrupt(c)
  <2> PICK c \in Impatient : Interrupt(c)
    BY <1>10
  <2> QED BY DEF Interrupt, Load!Interrupt, Load!CloseSockets, Load!Goto,
     serverVars, perClientVars, arrayVars, RoundsTypeOK, NetTypeOK, CountInv,
     Rounds, Thread
<1>11. CASE UNCHANGED vars
  BY <1>11 DEF vars, serverVars, perClientVars, arrayVars, RoundsTypeOK,
     NetTypeOK, CountInv, Rounds, Thread
<1> QED BY <1>1, <1>2, <1>3, <1>4, <1>5, <1>6, <1>7, <1>8, <1>9, <1>10, <1>11
   DEF Next, Main, Worker

\* Every step keeps the types of the variables of the echo server.
LEMMA EchoType == IInv /\ [Next]_vars => EchoTypeOK'
<1> SUFFICES ASSUME IInv, [Next]_vars PROVE EchoTypeOK'
  OBVIOUS
<1> USE SameNames, MineType, TestAssumption, SocketsAssumption DEF IInv, TypeOK
<1>1. CASE TcpMain
  BY <1>1 DEF TcpMain, Tcp!Main, Tcp!Listen, Tcp!Accept, Tcp!AcceptFails,
     Tcp!Round, Tcp!CanFail, Tcp!Create, Tcp!GotoT, Tcp!CreateFails, Tcp!Stop,
     Tcp!Join, Tcp!Exit, Tcp!CloseServer, echoVars, EchoTypeOK, NetTypeOK
<1>2. CASE \E t \in Thread : TcpThread(t)
  <2> PICK t \in Thread : TcpThread(t)
    BY <1>2
  <2> QED BY DEF TcpThread, Tcp!Thread, Tcp!Recv, Tcp!GotoT, Tcp!Send,
     Tcp!Loop, echoVars, EchoTypeOK, NetTypeOK
<1>3. CASE UdpMain
  BY <1>3 DEF UdpMain, Udp!Main, Udp!Loop, Udp!RecvFrom, Udp!RecvFromFails,
     Udp!Round, Udp!CanFail, Udp!Create, Udp!GotoT, Udp!CreateFails, Udp!Stop,
     Udp!Join, Udp!Exit, Udp!CloseServer, echoVars, EchoTypeOK, NetTypeOK
<1>4. CASE \E t \in Thread : UdpThread(t)
  <2> PICK t \in Thread : UdpThread(t)
    BY <1>4
  <2> QED BY DEF UdpThread, Udp!Thread, Udp!SendTo, Udp!GotoT, Udp!Sleep,
     echoVars, EchoTypeOK, NetTypeOK
<1>5. CASE EchoMain
  BY <1>5 DEF EchoMain, Echo!Main, Echo!Loop, Echo!Select, Echo!Events,
     Echo!SelectTimeout, Echo!CreateTcp, Echo!JoinTcp, Echo!CreateUdp,
     Echo!JoinUdp, Echo!NoJoin, Echo!Stop, Echo!Exit, Echo!CloseServer,
     Echo!echoVars, EchoTypeOK, NetTypeOK
<1>6. CASE EchoTcp
  <2>1. CASE Echo!Listen
    BY <1>6, <2>1 DEF EchoTcp, Echo!Listen, Echo!echoVars, EchoTypeOK,
       NetTypeOK
  <2>2. CASE Echo!Accept
    BY <1>6, <2>2 DEF EchoTcp, Echo!Accept, Echo!echoVars, EchoTypeOK,
       NetTypeOK
  <2>3. CASE Echo!AcceptFails
    BY <1>6, <2>3 DEF EchoTcp, Echo!AcceptFails, Echo!echoVars, EchoTypeOK,
       NetTypeOK
  <2>4. CASE Echo!Recv
    BY <1>6, <2>4 DEF EchoTcp, Echo!Recv, Echo!echoVars, EchoTypeOK, NetTypeOK
  <2>5. CASE Echo!Send
    BY <1>6, <2>5 DEF EchoTcp, Echo!Send, Echo!echoVars, EchoTypeOK, NetTypeOK
  <2>6. CASE Echo!Close
    BY <1>6, <2>6 DEF EchoTcp, Echo!Close, Echo!echoVars, EchoTypeOK,
       NetTypeOK
  <2> QED BY <1>6, <2>1, <2>2, <2>3, <2>4, <2>5, <2>6 DEF EchoTcp,
     Echo!ThreadTcp
<1>7. CASE EchoUdp
  BY <1>7 DEF EchoUdp, Echo!ThreadUdp, Echo!RecvFrom, Echo!SendTo,
     Echo!echoVars, EchoTypeOK, NetTypeOK
<1>8. CASE ShutdownThread \/ User
  BY <1>8 DEF ShutdownThread, User, Tcp!User, Tcp!ShutdownCheck, Tcp!TypeS,
     Tcp!TypeOther, echoVars, EchoTypeOK, NetTypeOK
<1>9. CASE \E c \in Client : Process(c)
  <2> PICK c \in Client : Process(c)
    BY <1>9
  <2> QED BY DEF Process, Load!Process, Load!MakeSocket, Load!Goto,
     Load!SocketFails, Load!GoOn, Load!Connect, Load!Refused, Load!Send,
     Load!Recv, Load!EndTurn, Load!RecvFails, Load!SendTo, Load!RecvFrom,
     Load!PollTimeout, Load!Close, Load!CloseSockets, serverVars, echoVars,
     EchoTypeOK, NetTypeOK
<1>10. CASE \E c \in Impatient : Interrupt(c)
  <2> PICK c \in Impatient : Interrupt(c)
    BY <1>10
  <2> QED BY DEF Interrupt, Load!Interrupt, Load!CloseSockets, Load!Goto,
     serverVars, echoVars, EchoTypeOK, NetTypeOK
<1>11. CASE UNCHANGED vars
  BY <1>11 DEF vars, serverVars, echoVars, EchoTypeOK, NetTypeOK
<1> QED BY <1>1, <1>2, <1>3, <1>4, <1>5, <1>6, <1>7, <1>8, <1>9, <1>10, <1>11
   DEF Next, Main, Worker

\* Every step keeps the types of the variables of the load-test client.
LEMMA LoadType == IInv /\ [Next]_vars => LoadTypeOK'
<1> SUFFICES ASSUME IInv, [Next]_vars PROVE LoadTypeOK'
  OBVIOUS
<1> USE SameNames, MineType, TestAssumption, SocketsAssumption DEF IInv, TypeOK
<1>1. CASE TcpMain
  BY <1>1 DEF TcpMain, Tcp!Main, Tcp!Listen, Tcp!Accept, Tcp!AcceptFails,
     Tcp!Round, Tcp!CanFail, Tcp!Create, Tcp!GotoT, Tcp!CreateFails, Tcp!Stop,
     Tcp!Join, Tcp!Exit, Tcp!CloseServer, loadVars, LoadTypeOK, Socket
<1>2. CASE \E t \in Thread : TcpThread(t)
  <2> PICK t \in Thread : TcpThread(t)
    BY <1>2
  <2> QED BY DEF TcpThread, Tcp!Thread, Tcp!Recv, Tcp!GotoT, Tcp!Send,
     Tcp!Loop, loadVars, LoadTypeOK, Socket
<1>3. CASE UdpMain
  BY <1>3 DEF UdpMain, Udp!Main, Udp!Loop, Udp!RecvFrom, Udp!RecvFromFails,
     Udp!Round, Udp!CanFail, Udp!Create, Udp!GotoT, Udp!CreateFails, Udp!Stop,
     Udp!Join, Udp!Exit, Udp!CloseServer, loadVars, LoadTypeOK, Socket
<1>4. CASE \E t \in Thread : UdpThread(t)
  <2> PICK t \in Thread : UdpThread(t)
    BY <1>4
  <2> QED BY DEF UdpThread, Udp!Thread, Udp!SendTo, Udp!GotoT, Udp!Sleep,
     loadVars, LoadTypeOK, Socket
<1>5. CASE EchoMain
  BY <1>5 DEF EchoMain, Echo!Main, Echo!Loop, Echo!Select, Echo!Events,
     Echo!SelectTimeout, Echo!CreateTcp, Echo!JoinTcp, Echo!CreateUdp,
     Echo!JoinUdp, Echo!NoJoin, Echo!Stop, Echo!Exit, Echo!CloseServer,
     loadVars, LoadTypeOK, Socket
<1>6. CASE EchoTcp
  BY <1>6 DEF EchoTcp, Echo!ThreadTcp, Echo!Listen, Echo!Accept,
     Echo!AcceptFails, Echo!Recv, Echo!Send, Echo!Close, loadVars, LoadTypeOK,
     Socket
<1>7. CASE EchoUdp
  BY <1>7 DEF EchoUdp, Echo!ThreadUdp, Echo!RecvFrom, Echo!SendTo, loadVars,
     LoadTypeOK, Socket
<1>8. CASE ShutdownThread \/ User
  BY <1>8 DEF ShutdownThread, User, Tcp!User, Tcp!ShutdownCheck, Tcp!TypeS,
     Tcp!TypeOther, loadVars, LoadTypeOK, Socket
<1>9. CASE \E c \in Client : Process(c)
  <2> PICK c \in Client : Process(c)
    BY <1>9
  <2> QED BY DEF Process, Load!Process, Load!MakeSocket, Load!Goto,
     Load!SocketFails, Load!GoOn, Load!Connect, Load!Refused, Load!Send,
     Load!Recv, Load!EndTurn, Load!RecvFails, Load!SendTo, Load!RecvFrom,
     Load!PollTimeout, Load!Close, Load!CloseSockets, LoadTypeOK, Socket
<1>10. CASE \E c \in Impatient : Interrupt(c)
  <2> PICK c \in Impatient : Interrupt(c)
    BY <1>10
  <2> QED BY DEF Interrupt, Load!Interrupt, Load!CloseSockets, Load!Goto,
     LoadTypeOK, Socket
<1>11. CASE UNCHANGED vars
  BY <1>11 DEF vars, loadVars, LoadTypeOK, Socket
<1> QED BY <1>1, <1>2, <1>3, <1>4, <1>5, <1>6, <1>7, <1>8, <1>9, <1>10, <1>11
   DEF Next, Main, Worker

\* Every step keeps the numbers of rounds and threads.
LEMMA CountStep == IInv /\ [Next]_vars => CountInv'
<1> SUFFICES ASSUME IInv, [Next]_vars PROVE CountInv'
  OBVIOUS
<1> USE SameNames, MineType, TestAssumption, SocketsAssumption DEF IInv, TypeOK
<1>1. CASE TcpMain
  <2>1. CASE Tcp!Listen
    BY <1>1, <2>1 DEF TcpMain, Tcp!Listen, Tcp!countVars, CountInv, Rounds,
       Thread, Created, MainTypeOK, RoundsTypeOK
  <2>2. CASE Tcp!Accept
    BY <1>1, <2>2 DEF TcpMain, Tcp!Accept, Tcp!countVars, CountInv, Rounds,
       Thread, Created, MainTypeOK, RoundsTypeOK
  <2>3. CASE Tcp!AcceptFails
    BY <1>1, <2>3 DEF TcpMain, Tcp!AcceptFails, Tcp!Round, Tcp!CanFail,
       Tcp!countVars, CountInv, Rounds, Thread, Created, MainTypeOK,
       RoundsTypeOK
  <2>4. CASE Tcp!Create("recv") /\ UNCHANGED Tcp!fdVars
    <3>1. /\ count' = count + 1 /\ count_threads' = count_threads + 1
          /\ pc' = [pc EXCEPT ![count_threads] = "recv"]
          /\ UNCHANGED <<error_flag, server>>
          /\ main_pc' = IF count + 1 = START_ALLOC - 1 THEN "stop" ELSE "loop"
          /\ count < START_ALLOC - 1 /\ server # "echo"
      BY <1>1, <2>4 DEF TcpMain, Tcp!Create, Tcp!Round, Tcp!GotoT, CountInv,
         Rounds
    <3>2. /\ count \in Nat /\ count_threads \in Thread
          /\ count_threads <= count /\ count' < START_ALLOC
          /\ \A t \in Thread :
               t < count_threads + 1 <=> t < count_threads \/ t = count_threads
      BY <3>1 DEF RoundsTypeOK, CountInv, Thread
    <3>3. \A t \in Thread : Created(t)' <=> Created(t) \/ t = count_threads
      BY <3>1, <3>2 DEF RoundsTypeOK, Created
    <3>4. main_pc' \in Rounds => count' < START_ALLOC - 1
      BY <3>1, <3>2 DEF Rounds
    <3>5. \A t \in Thread : Created(t)' <=> t < count_threads'
      BY <3>1, <3>2, <3>3 DEF CountInv
    <3>6. /\ count_threads' <= count'
          /\ error_flag' = 0 => count_threads' = count'
      BY <3>1, <3>2 DEF CountInv, Thread
    <3> QED BY <3>1, <3>4, <3>5, <3>6 DEF CountInv
  <2>5. CASE Tcp!CreateFails /\ UNCHANGED Tcp!fdVars
    BY <1>1, <2>5 DEF TcpMain, Tcp!CreateFails, Tcp!Round, Tcp!CanFail,
       Tcp!countVars, CountInv, Rounds, Thread, Created, MainTypeOK,
       RoundsTypeOK
  <2>6. CASE /\ Tcp!Stop
             /\ UNCHANGED <<Tcp!netVars, Tcp!countVars, pc, Tcp!fdVars>>
    BY <1>1, <2>6 DEF TcpMain, Tcp!Stop, Tcp!countVars, CountInv, Rounds,
       Thread, Created, MainTypeOK, RoundsTypeOK
  <2>7. CASE Tcp!Join /\ UNCHANGED Tcp!fdVars
    BY <1>1, <2>7 DEF TcpMain, Tcp!Join, Tcp!countVars, CountInv, Rounds,
       Thread, Created, MainTypeOK, RoundsTypeOK
  <2>8. CASE Tcp!Exit /\ UNCHANGED <<Tcp!countVars, pc, Tcp!fdVars>>
    BY <1>1, <2>8 DEF TcpMain, Tcp!Exit, Tcp!CloseServer, Tcp!countVars,
       CountInv, Rounds, Thread, Created, MainTypeOK, RoundsTypeOK
  <2> QED BY <1>1, <2>1, <2>2, <2>3, <2>4, <2>5, <2>6, <2>7, <2>8 DEF TcpMain,
     Tcp!Main
<1>2. CASE \E t \in Thread : TcpThread(t)
  <2> PICK t \in Thread : TcpThread(t)
    BY <1>2
  <2>1. CASE Tcp!Recv(t)
    BY <2>1 DEF TcpThread, Tcp!Recv, Tcp!GotoT, Tcp!countVars, CountInv,
       Rounds, Thread, Created, MainTypeOK, RoundsTypeOK
  <2>2. CASE Tcp!Send(t)
    BY <2>2 DEF TcpThread, Tcp!Send, Tcp!GotoT, Tcp!countVars, CountInv,
       Rounds, Thread, Created, MainTypeOK, RoundsTypeOK
  <2>3. CASE Tcp!Loop(t)
    BY <2>3 DEF TcpThread, Tcp!Loop, Tcp!GotoT, Tcp!countVars, CountInv,
       Rounds, Thread, Created, MainTypeOK, RoundsTypeOK
  <2> QED BY <2>1, <2>2, <2>3 DEF TcpThread, Tcp!Thread
<1>3. CASE UdpMain
  <2>1. CASE Udp!Loop
    BY <1>3, <2>1 DEF UdpMain, Udp!Loop, Udp!countVars, CountInv, Rounds,
       Thread, Created, MainTypeOK, RoundsTypeOK
  <2>2. CASE Udp!RecvFrom
    BY <1>3, <2>2 DEF UdpMain, Udp!RecvFrom, Udp!countVars, CountInv, Rounds,
       Thread, Created, MainTypeOK, RoundsTypeOK
  <2>3. CASE Udp!RecvFromFails
    BY <1>3, <2>3 DEF UdpMain, Udp!RecvFromFails, Udp!Round, Udp!CanFail,
       Udp!countVars, CountInv, Rounds, Thread, Created, MainTypeOK,
       RoundsTypeOK
  <2>4. CASE Udp!Create("sendto") /\ UNCHANGED Udp!addrVars
    <3>1. /\ count' = count + 1 /\ count_threads' = count_threads + 1
          /\ pc' = [pc EXCEPT ![count_threads] = "sendto"]
          /\ UNCHANGED <<error_flag, server>>
          /\ main_pc' = IF count + 1 = START_ALLOC - 1 THEN "stop" ELSE "loop"
          /\ count < START_ALLOC - 1 /\ server # "echo"
      BY <1>3, <2>4 DEF UdpMain, Udp!Create, Udp!Round, Udp!GotoT, CountInv,
         Rounds
    <3>2. /\ count \in Nat /\ count_threads \in Thread
          /\ count_threads <= count /\ count' < START_ALLOC
          /\ \A t \in Thread :
               t < count_threads + 1 <=> t < count_threads \/ t = count_threads
      BY <3>1 DEF RoundsTypeOK, CountInv, Thread
    <3>3. \A t \in Thread : Created(t)' <=> Created(t) \/ t = count_threads
      BY <3>1, <3>2 DEF RoundsTypeOK, Created
    <3>4. main_pc' \in Rounds => count' < START_ALLOC - 1
      BY <3>1, <3>2 DEF Rounds
    <3>5. \A t \in Thread : Created(t)' <=> t < count_threads'
      BY <3>1, <3>2, <3>3 DEF CountInv
    <3>6. /\ count_threads' <= count'
          /\ error_flag' = 0 => count_threads' = count'
      BY <3>1, <3>2 DEF CountInv, Thread
    <3> QED BY <3>1, <3>4, <3>5, <3>6 DEF CountInv
  <2>5. CASE Udp!CreateFails /\ UNCHANGED Udp!addrVars
    BY <1>3, <2>5 DEF UdpMain, Udp!CreateFails, Udp!Round, Udp!CanFail,
       Udp!countVars, CountInv, Rounds, Thread, Created, MainTypeOK,
       RoundsTypeOK
  <2>6. CASE /\ Udp!Stop
             /\ UNCHANGED <<Udp!netVars, Udp!countVars, pc, Udp!addrVars>>
    BY <1>3, <2>6 DEF UdpMain, Udp!Stop, Udp!countVars, CountInv, Rounds,
       Thread, Created, MainTypeOK, RoundsTypeOK
  <2>7. CASE Udp!Join /\ UNCHANGED Udp!addrVars
    BY <1>3, <2>7 DEF UdpMain, Udp!Join, Udp!countVars, CountInv, Rounds,
       Thread, Created, MainTypeOK, RoundsTypeOK
  <2>8. CASE Udp!Exit /\ UNCHANGED <<Udp!countVars, pc, Udp!addrVars>>
    BY <1>3, <2>8 DEF UdpMain, Udp!Exit, Udp!CloseServer, Udp!countVars,
       CountInv, Rounds, Thread, Created, MainTypeOK, RoundsTypeOK
  <2> QED BY <1>3, <2>1, <2>2, <2>3, <2>4, <2>5, <2>6, <2>7, <2>8 DEF UdpMain,
     Udp!Main
<1>4. CASE \E t \in Thread : UdpThread(t)
  <2> PICK t \in Thread : UdpThread(t)
    BY <1>4
  <2>1. CASE Udp!SendTo(t)
    BY <2>1 DEF UdpThread, Udp!SendTo, Udp!GotoT, Udp!countVars, CountInv,
       Rounds, Thread, Created, MainTypeOK, RoundsTypeOK
  <2>2. CASE Udp!Sleep(t)
    BY <2>2 DEF UdpThread, Udp!Sleep, Udp!GotoT, Udp!countVars, CountInv,
       Rounds, Thread, Created, MainTypeOK, RoundsTypeOK
  <2> QED BY <2>1, <2>2 DEF UdpThread, Udp!Thread
<1>5. CASE EchoMain
  BY <1>5 DEF EchoMain, Echo!Main, Echo!Loop, Echo!Select, Echo!Events,
     Echo!SelectTimeout, Echo!CreateTcp, Echo!JoinTcp, Echo!CreateUdp,
     Echo!JoinUdp, Echo!NoJoin, Echo!Stop, Echo!Exit, Echo!CloseServer,
     perClientVars, CountInv, Rounds, Thread, Created, MainTypeOK,
     RoundsTypeOK
<1>6. CASE EchoTcp
  BY <1>6 DEF EchoTcp, Echo!ThreadTcp, Echo!Listen, Echo!Accept,
     Echo!AcceptFails, Echo!Recv, Echo!Send, Echo!Close, perClientVars,
     CountInv, Rounds, Thread, Created, MainTypeOK, RoundsTypeOK
<1>7. CASE EchoUdp
  BY <1>7 DEF EchoUdp, Echo!ThreadUdp, Echo!RecvFrom, Echo!SendTo,
     perClientVars, CountInv, Rounds, Thread, Created, MainTypeOK,
     RoundsTypeOK
<1>8. CASE ShutdownThread \/ User
  BY <1>8 DEF ShutdownThread, User, Tcp!User, Tcp!ShutdownCheck, Tcp!TypeS,
     Tcp!TypeOther, perClientVars, CountInv, Rounds, Thread, Created,
     MainTypeOK, RoundsTypeOK
<1>9. CASE \E c \in Client : Process(c)
  <2> PICK c \in Client : Process(c)
    BY <1>9
  <2> QED BY DEF Process, Load!Process, Load!MakeSocket, Load!Goto,
     Load!SocketFails, Load!GoOn, Load!Connect, Load!Refused, Load!Send,
     Load!Recv, Load!EndTurn, Load!RecvFails, Load!SendTo, Load!RecvFrom,
     Load!PollTimeout, Load!Close, Load!CloseSockets, serverVars,
     perClientVars, CountInv, Rounds, Thread, Created, MainTypeOK,
     RoundsTypeOK
<1>10. CASE \E c \in Impatient : Interrupt(c)
  <2> PICK c \in Impatient : Interrupt(c)
    BY <1>10
  <2> QED BY DEF Interrupt, Load!Interrupt, Load!CloseSockets, Load!Goto,
     serverVars, perClientVars, CountInv, Rounds, Thread, Created, MainTypeOK,
     RoundsTypeOK
<1>11. CASE UNCHANGED vars
  BY <1>11 DEF vars, serverVars, perClientVars, CountInv, Rounds, Thread,
     Created, MainTypeOK, RoundsTypeOK
<1> QED BY <1>1, <1>2, <1>3, <1>4, <1>5, <1>6, <1>7, <1>8, <1>9, <1>10, <1>11
   DEF Next, Main, Worker

\* Every step keeps one thread of the echo server running at most.
LEMMA EchoStep == IInv /\ [Next]_vars => EchoInv'
<1> SUFFICES ASSUME IInv, [Next]_vars PROVE EchoInv'
  OBVIOUS
<1> USE SameNames, MineType, TestAssumption, SocketsAssumption DEF IInv, TypeOK
<1>1. CASE TcpMain
  BY <1>1 DEF TcpMain, Tcp!Main, Tcp!Listen, Tcp!Accept, Tcp!AcceptFails,
     Tcp!Round, Tcp!CanFail, Tcp!Create, Tcp!GotoT, Tcp!CreateFails, Tcp!Stop,
     Tcp!Join, Tcp!Exit, Tcp!CloseServer, echoVars, EchoInv, NetTypeOK,
     EchoTypeOK, MainTypeOK
<1>2. CASE \E t \in Thread : TcpThread(t)
  <2> PICK t \in Thread : TcpThread(t)
    BY <1>2
  <2> QED BY DEF TcpThread, Tcp!Thread, Tcp!Recv, Tcp!GotoT, Tcp!Send,
     Tcp!Loop, echoVars, EchoInv, NetTypeOK, EchoTypeOK, MainTypeOK
<1>3. CASE UdpMain
  BY <1>3 DEF UdpMain, Udp!Main, Udp!Loop, Udp!RecvFrom, Udp!RecvFromFails,
     Udp!Round, Udp!CanFail, Udp!Create, Udp!GotoT, Udp!CreateFails, Udp!Stop,
     Udp!Join, Udp!Exit, Udp!CloseServer, echoVars, EchoInv, NetTypeOK,
     EchoTypeOK, MainTypeOK
<1>4. CASE \E t \in Thread : UdpThread(t)
  <2> PICK t \in Thread : UdpThread(t)
    BY <1>4
  <2> QED BY DEF UdpThread, Udp!Thread, Udp!SendTo, Udp!GotoT, Udp!Sleep,
     echoVars, EchoInv, NetTypeOK, EchoTypeOK, MainTypeOK
<1>5. CASE EchoMain
  BY <1>5 DEF EchoMain, Echo!Main, Echo!Loop, Echo!Select, Echo!Events,
     Echo!SelectTimeout, Echo!CreateTcp, Echo!JoinTcp, Echo!CreateUdp,
     Echo!JoinUdp, Echo!NoJoin, Echo!Stop, Echo!Exit, Echo!CloseServer,
     Echo!echoVars, EchoInv, NetTypeOK, EchoTypeOK, MainTypeOK
<1>6. CASE EchoTcp
  BY <1>6 DEF EchoTcp, Echo!ThreadTcp, Echo!Listen, Echo!Accept,
     Echo!AcceptFails, Echo!Recv, Echo!Send, Echo!Close, Echo!echoVars,
     EchoInv, NetTypeOK, EchoTypeOK, MainTypeOK
<1>7. CASE EchoUdp
  BY <1>7 DEF EchoUdp, Echo!ThreadUdp, Echo!RecvFrom, Echo!SendTo,
     Echo!echoVars, EchoInv, NetTypeOK, EchoTypeOK, MainTypeOK
<1>8. CASE ShutdownThread \/ User
  BY <1>8 DEF ShutdownThread, User, Tcp!User, Tcp!ShutdownCheck, Tcp!TypeS,
     Tcp!TypeOther, echoVars, EchoInv, NetTypeOK, EchoTypeOK, MainTypeOK
<1>9. CASE \E c \in Client : Process(c)
  <2> PICK c \in Client : Process(c)
    BY <1>9
  <2> QED BY DEF Process, Load!Process, Load!MakeSocket, Load!Goto,
     Load!SocketFails, Load!GoOn, Load!Connect, Load!Refused, Load!Send,
     Load!Recv, Load!EndTurn, Load!RecvFails, Load!SendTo, Load!RecvFrom,
     Load!PollTimeout, Load!Close, Load!CloseSockets, serverVars, echoVars,
     EchoInv, NetTypeOK, EchoTypeOK, MainTypeOK
<1>10. CASE \E c \in Impatient : Interrupt(c)
  <2> PICK c \in Impatient : Interrupt(c)
    BY <1>10
  <2> QED BY DEF Interrupt, Load!Interrupt, Load!CloseSockets, Load!Goto,
     serverVars, echoVars, EchoInv, NetTypeOK, EchoTypeOK, MainTypeOK
<1>11. CASE UNCHANGED vars
  BY <1>11 DEF vars, serverVars, echoVars, EchoInv, NetTypeOK, EchoTypeOK,
     MainTypeOK
<1> QED BY <1>1, <1>2, <1>3, <1>4, <1>5, <1>6, <1>7, <1>8, <1>9, <1>10, <1>11
   DEF Next, Main, Worker

\* Every step keeps that the threads are joined before the end.
LEMMA JoinStep == IInv /\ [Next]_vars => JoinInv'
<1> SUFFICES ASSUME IInv, [Next]_vars PROVE JoinInv'
  OBVIOUS
<1> USE SameNames, MineType, TestAssumption, SocketsAssumption DEF IInv, TypeOK
<1>1. CASE TcpMain
  BY <1>1 DEF TcpMain, Tcp!Main, Tcp!Listen, Tcp!Accept, Tcp!AcceptFails,
     Tcp!Round, Tcp!CanFail, Tcp!Create, Tcp!GotoT, Tcp!CreateFails, Tcp!Stop,
     Tcp!Join, Tcp!Exit, Tcp!CloseServer, Tcp!stopVars, JoinInv, CountInv,
     EchoInv, Created, Alive, MainTypeOK, RoundsTypeOK, Thread
<1>2. CASE \E t \in Thread : TcpThread(t)
  <2> PICK t \in Thread : TcpThread(t)
    BY <1>2
  <2> QED BY DEF TcpThread, Tcp!Thread, Tcp!Recv, Tcp!GotoT, Tcp!Send,
     Tcp!Loop, Tcp!stopVars, JoinInv, CountInv, EchoInv, Created, Alive,
     MainTypeOK, RoundsTypeOK, Thread
<1>3. CASE UdpMain
  BY <1>3 DEF UdpMain, Udp!Main, Udp!Loop, Udp!RecvFrom, Udp!RecvFromFails,
     Udp!Round, Udp!CanFail, Udp!Create, Udp!GotoT, Udp!CreateFails, Udp!Stop,
     Udp!Join, Udp!Exit, Udp!CloseServer, Udp!stopVars, JoinInv, CountInv,
     EchoInv, Created, Alive, MainTypeOK, RoundsTypeOK, Thread
<1>4. CASE \E t \in Thread : UdpThread(t)
  <2> PICK t \in Thread : UdpThread(t)
    BY <1>4
  <2> QED BY DEF UdpThread, Udp!Thread, Udp!SendTo, Udp!GotoT, Udp!Sleep,
     Udp!stopVars, JoinInv, CountInv, EchoInv, Created, Alive, MainTypeOK,
     RoundsTypeOK, Thread
<1>5. CASE EchoMain
  BY <1>5 DEF EchoMain, Echo!Main, Echo!Loop, Echo!Select, Echo!Events,
     Echo!SelectTimeout, Echo!CreateTcp, Echo!JoinTcp, Echo!CreateUdp,
     Echo!JoinUdp, Echo!NoJoin, Echo!Stop, Echo!Exit, Echo!CloseServer,
     Echo!stopVars, perClientVars, JoinInv, CountInv, EchoInv, Created, Alive,
     MainTypeOK, RoundsTypeOK, Thread
<1>6. CASE EchoTcp
  BY <1>6 DEF EchoTcp, Echo!ThreadTcp, Echo!Listen, Echo!Accept,
     Echo!AcceptFails, Echo!Recv, Echo!Send, Echo!Close, Echo!stopVars,
     perClientVars, JoinInv, CountInv, EchoInv, Created, Alive, MainTypeOK,
     RoundsTypeOK, Thread
<1>7. CASE EchoUdp
  BY <1>7 DEF EchoUdp, Echo!ThreadUdp, Echo!RecvFrom, Echo!SendTo,
     Echo!stopVars, perClientVars, JoinInv, CountInv, EchoInv, Created, Alive,
     MainTypeOK, RoundsTypeOK, Thread
<1>8. CASE ShutdownThread \/ User
  BY <1>8 DEF ShutdownThread, User, Tcp!User, Tcp!ShutdownCheck, Tcp!TypeS,
     Tcp!TypeOther, perClientVars, JoinInv, CountInv, EchoInv, Created, Alive,
     MainTypeOK, RoundsTypeOK, Thread
<1>9. CASE \E c \in Client : Process(c)
  <2> PICK c \in Client : Process(c)
    BY <1>9
  <2> QED BY DEF Process, Load!Process, Load!MakeSocket, Load!Goto,
     Load!SocketFails, Load!GoOn, Load!Connect, Load!Refused, Load!Send,
     Load!Recv, Load!EndTurn, Load!RecvFails, Load!SendTo, Load!RecvFrom,
     Load!PollTimeout, Load!Close, Load!CloseSockets, serverVars, stopVars,
     perClientVars, JoinInv, CountInv, EchoInv, Created, Alive, MainTypeOK,
     RoundsTypeOK, Thread
<1>10. CASE \E c \in Impatient : Interrupt(c)
  <2> PICK c \in Impatient : Interrupt(c)
    BY <1>10
  <2> QED BY DEF Interrupt, Load!Interrupt, Load!CloseSockets, Load!Goto,
     serverVars, stopVars, perClientVars, JoinInv, CountInv, EchoInv, Created,
     Alive, MainTypeOK, RoundsTypeOK, Thread
<1>11. CASE UNCHANGED vars
  BY <1>11 DEF vars, serverVars, stopVars, perClientVars, JoinInv, CountInv,
     EchoInv, Created, Alive, MainTypeOK, RoundsTypeOK, Thread
<1> QED BY <1>1, <1>2, <1>3, <1>4, <1>5, <1>6, <1>7, <1>8, <1>9, <1>10, <1>11
   DEF Next, Main, Worker

\* What a process has done over a socket stays done.
LEMMA BehindKept ==
  ASSUME IInv, [Next]_vars, NEW s \in Socket, Behind(s)
  PROVE  Behind(s)'
<1> PICK d \in Client, k \in 0 .. size_alloc - 1 : s = <<d, k>>
  BY DEF Socket
<1> USE SocketsAssumption DEF IInv, TypeOK, LoadTypeOK, Behind
<1>1. CASE \E c \in Client : Process(c)
  <2> PICK c \in Client : Process(c)
    BY <1>1
  <2>1. CASE Load!MakeSocket(c)
    BY <2>1 DEF Load!MakeSocket, Load!Goto, Load!Mine
  <2>2. CASE Load!SocketFails(c)
    BY <2>2 DEF Load!SocketFails, Load!Goto, Load!GoOn, Load!Mine
  <2>3. CASE Load!Connect(c)
    BY <2>3 DEF Load!Connect, Load!Goto, Load!Mine
  <2>4. CASE Load!Refused(c)
    BY <2>4 DEF Load!Refused, Load!Goto, Load!Mine
  <2>5. CASE Load!Send(c)
    BY <2>5 DEF Load!Send, Load!Goto, Load!Mine
  <2>6. CASE Load!Recv(c)
    BY <2>6 DEF Load!Recv, Load!EndTurn, Load!Goto, Load!GoOn, Load!Mine
  <2>7. CASE Load!RecvFails(c)
    BY <2>7 DEF Load!RecvFails, Load!Goto, Load!Mine
  <2>8. CASE Load!SendTo(c, Serving)
    BY <2>8 DEF Load!SendTo, Load!Goto, Load!Mine
  <2>9. CASE Load!RecvFrom(c)
    BY <2>9 DEF Load!RecvFrom, Load!EndTurn, Load!Goto, Load!GoOn, Load!Mine
  <2>10. CASE Load!PollTimeout(c)
    BY <2>10 DEF Load!PollTimeout, Load!EndTurn, Load!Goto, Load!GoOn,
       Load!Mine
  <2>11. CASE Load!Close(c)
    BY <2>11 DEF Load!Close, Load!CloseSockets, Load!Goto, Load!Mine
  <2> QED BY <2>1, <2>2, <2>3, <2>4, <2>5, <2>6, <2>7, <2>8, <2>9, <2>10,
     <2>11 DEF Process, Load!Process
<1>2. CASE \E c \in Impatient : Interrupt(c)
  BY <1>2, TestAssumption DEF Interrupt, Load!Interrupt, Load!CloseSockets,
     Load!Goto
<1>3. CASE UNCHANGED <<i, load_pc>>
  BY <1>3
<1>4. CASE Main \/ Worker \/ ShutdownThread \/ User \/ UNCHANGED vars
  BY <1>3, <1>4 DEF Main, Worker, TcpMain, TcpThread, UdpMain, UdpThread,
     EchoMain, EchoTcp, EchoUdp, ShutdownThread, User, loadVars, vars
<1> QED BY <1>1, <1>2, <1>4 DEF Next

\* Every step keeps a socket from being used twice.
LEMMA NetStep == IInv /\ [Next]_vars => NetInv'
<1> SUFFICES ASSUME IInv, [Next]_vars PROVE NetInv'
  OBVIOUS
<1>0. \A s \in Socket : Behind(s) => Behind(s)'
  BY BehindKept
<1> USE SameNames, MineType, TestAssumption, SocketsAssumption, <1>0
    DEF IInv, TypeOK
<1>1. CASE TcpMain
  <2>1. CASE Tcp!Listen
    BY <1>1, <2>1 DEF TcpMain, Tcp!Listen, Tcp!netVars, Tcp!fdVars, loadVars,
       NetInv, NetTypeOK, RoundsTypeOK, CountInv, Rounds, Thread
  <2>2. CASE Tcp!Accept
    BY <1>1, <2>2 DEF TcpMain, Tcp!Accept, Tcp!netVars, Tcp!fdVars, loadVars,
       NetInv, NetTypeOK, RoundsTypeOK, CountInv, Rounds, Thread
  <2>3. CASE Tcp!AcceptFails
    BY <1>1, <2>3 DEF TcpMain, Tcp!AcceptFails, Tcp!Round, Tcp!CanFail,
       Tcp!netVars, Tcp!fdVars, loadVars, NetInv, NetTypeOK, RoundsTypeOK,
       CountInv, Rounds, Thread
  <2>4. CASE Tcp!Create("recv") /\ UNCHANGED Tcp!fdVars
    BY <1>1, <2>4 DEF TcpMain, Tcp!Create, Tcp!Round, Tcp!GotoT, Tcp!netVars,
       Tcp!fdVars, loadVars, NetInv, NetTypeOK, RoundsTypeOK, CountInv,
       Rounds, Thread
  <2>5. CASE Tcp!CreateFails /\ UNCHANGED Tcp!fdVars
    BY <1>1, <2>5 DEF TcpMain, Tcp!CreateFails, Tcp!Round, Tcp!CanFail,
       Tcp!netVars, Tcp!fdVars, loadVars, NetInv, NetTypeOK, RoundsTypeOK,
       CountInv, Rounds, Thread
  <2>6. CASE /\ Tcp!Stop
             /\ UNCHANGED <<Tcp!netVars, Tcp!countVars, pc, Tcp!fdVars>>
    BY <1>1, <2>6 DEF TcpMain, Tcp!Stop, Tcp!netVars, Tcp!fdVars, loadVars,
       NetInv, NetTypeOK, RoundsTypeOK, CountInv, Rounds, Thread
  <2>7. CASE Tcp!Join /\ UNCHANGED Tcp!fdVars
    BY <1>1, <2>7 DEF TcpMain, Tcp!Join, Tcp!netVars, Tcp!fdVars, loadVars,
       NetInv, NetTypeOK, RoundsTypeOK, CountInv, Rounds, Thread
  <2>8. CASE Tcp!Exit /\ UNCHANGED <<Tcp!countVars, pc, Tcp!fdVars>>
    BY <1>1, <2>8 DEF TcpMain, Tcp!Exit, Tcp!CloseServer, Tcp!netVars,
       Tcp!fdVars, loadVars, NetInv, NetTypeOK, RoundsTypeOK, CountInv,
       Rounds, Thread
  <2> QED BY <1>1, <2>1, <2>2, <2>3, <2>4, <2>5, <2>6, <2>7, <2>8 DEF TcpMain,
     Tcp!Main
<1>2. CASE \E t \in Thread : TcpThread(t)
  <2> PICK t \in Thread : TcpThread(t)
    BY <1>2
  <2> QED BY DEF TcpThread, Tcp!Thread, Tcp!Recv, Tcp!GotoT, Tcp!Send,
     Tcp!Loop, Tcp!netVars, Tcp!fdVars, loadVars, NetInv, NetTypeOK,
     RoundsTypeOK, CountInv, Rounds, Thread
<1>3. CASE UdpMain
  <2>1. CASE Udp!Loop
    BY <1>3, <2>1 DEF UdpMain, Udp!Loop, Udp!netVars, Udp!addrVars, loadVars,
       NetInv, NetTypeOK, RoundsTypeOK, CountInv, Rounds, Thread
  <2>2. CASE Udp!RecvFrom
    <3>1. PICK s \in inbox :
            /\ inbox' = inbox \ {s}
            /\ addr_clients' = [addr_clients EXCEPT ![count] = s]
            /\ args' = [args EXCEPT ![count_threads] = s]
            /\ UNCHANGED <<waiting, clients_fd>>
      BY <1>3, <2>2 DEF UdpMain, Udp!RecvFrom
    <3>2. Behind(s)'
      BY <3>1 DEF NetInv, NetTypeOK
    <3> QED BY <3>1, <3>2 DEF NetInv, NetTypeOK, RoundsTypeOK
  <2>3. CASE Udp!RecvFromFails
    BY <1>3, <2>3 DEF UdpMain, Udp!RecvFromFails, Udp!Round, Udp!CanFail,
       Udp!netVars, Udp!addrVars, loadVars, NetInv, NetTypeOK, RoundsTypeOK,
       CountInv, Rounds, Thread
  <2>4. CASE Udp!Create("sendto") /\ UNCHANGED Udp!addrVars
    BY <1>3, <2>4 DEF UdpMain, Udp!Create, Udp!Round, Udp!GotoT, Udp!netVars,
       Udp!addrVars, loadVars, NetInv, NetTypeOK, RoundsTypeOK, CountInv,
       Rounds, Thread
  <2>5. CASE Udp!CreateFails /\ UNCHANGED Udp!addrVars
    BY <1>3, <2>5 DEF UdpMain, Udp!CreateFails, Udp!Round, Udp!CanFail,
       Udp!netVars, Udp!addrVars, loadVars, NetInv, NetTypeOK, RoundsTypeOK,
       CountInv, Rounds, Thread
  <2>6. CASE /\ Udp!Stop
             /\ UNCHANGED <<Udp!netVars, Udp!countVars, pc, Udp!addrVars>>
    BY <1>3, <2>6 DEF UdpMain, Udp!Stop, Udp!netVars, Udp!addrVars, loadVars,
       NetInv, NetTypeOK, RoundsTypeOK, CountInv, Rounds, Thread
  <2>7. CASE Udp!Join /\ UNCHANGED Udp!addrVars
    BY <1>3, <2>7 DEF UdpMain, Udp!Join, Udp!netVars, Udp!addrVars, loadVars,
       NetInv, NetTypeOK, RoundsTypeOK, CountInv, Rounds, Thread
  <2>8. CASE Udp!Exit /\ UNCHANGED <<Udp!countVars, pc, Udp!addrVars>>
    BY <1>3, <2>8 DEF UdpMain, Udp!Exit, Udp!CloseServer, Udp!netVars,
       Udp!addrVars, loadVars, NetInv, NetTypeOK, RoundsTypeOK, CountInv,
       Rounds, Thread
  <2> QED BY <1>3, <2>1, <2>2, <2>3, <2>4, <2>5, <2>6, <2>7, <2>8 DEF UdpMain,
     Udp!Main
<1>4. CASE \E t \in Thread : UdpThread(t)
  <2> PICK t \in Thread : UdpThread(t)
    BY <1>4
  <2> QED BY DEF UdpThread, Udp!Thread, Udp!SendTo, Udp!GotoT, Udp!Sleep,
     Udp!netVars, Udp!addrVars, loadVars, NetInv, NetTypeOK, RoundsTypeOK,
     CountInv, Rounds, Thread
<1>5. CASE EchoMain
  BY <1>5 DEF EchoMain, Echo!Main, Echo!Loop, Echo!Select, Echo!Events,
     Echo!SelectTimeout, Echo!CreateTcp, Echo!JoinTcp, Echo!CreateUdp,
     Echo!JoinUdp, Echo!NoJoin, Echo!Stop, Echo!Exit, Echo!CloseServer,
     Echo!netVars, arrayVars, loadVars, NetInv, NetTypeOK, RoundsTypeOK,
     CountInv, Rounds, Thread
<1>6. CASE EchoTcp
  BY <1>6 DEF EchoTcp, Echo!ThreadTcp, Echo!Listen, Echo!Accept,
     Echo!AcceptFails, Echo!Recv, Echo!Send, Echo!Close, Echo!netVars,
     arrayVars, loadVars, NetInv, NetTypeOK, RoundsTypeOK, CountInv, Rounds,
     Thread
<1>7. CASE EchoUdp
  BY <1>7 DEF EchoUdp, Echo!ThreadUdp, Echo!RecvFrom, Echo!SendTo,
     Echo!netVars, arrayVars, loadVars, NetInv, NetTypeOK, RoundsTypeOK,
     CountInv, Rounds, Thread
<1>8. CASE ShutdownThread \/ User
  BY <1>8 DEF ShutdownThread, User, Tcp!User, Tcp!ShutdownCheck, Tcp!TypeS,
     Tcp!TypeOther, netVars, arrayVars, loadVars, NetInv, NetTypeOK,
     RoundsTypeOK, CountInv, Rounds, Thread
<1>9. CASE \E c \in Client : Process(c)
  <2> PICK c \in Client : Process(c)
    BY <1>9
  <2>1. CASE Load!Connect(c)
    <3>1. PICK s \in Socket : s = Load!Mine(c)
      OBVIOUS
    <3>2. ~Behind(s) /\ Behind(s)'
      BY <2>1, <3>1 DEF LoadTypeOK, Behind, Load!Connect, Load!Goto, Load!Mine
    <3> QED BY <2>1, <3>1, <3>2 DEF NetInv, NetTypeOK, RoundsTypeOK, Process,
               serverVars, arrayVars, Load!Connect
  <2>2. CASE Load!SendTo(c, Serving)
    <3>1. PICK s \in Socket : s = Load!Mine(c)
      OBVIOUS
    <3>2. ~Behind(s) /\ Behind(s)'
      BY <2>2, <3>1 DEF LoadTypeOK, Behind, Load!SendTo, Load!Goto, Load!Mine
    <3> QED BY <2>2, <3>1, <3>2 DEF NetInv, NetTypeOK, RoundsTypeOK, Process,
               serverVars, arrayVars, Load!SendTo
  <2>3. CASE UNCHANGED <<waiting, inbox>>
    BY <2>3 DEF NetInv, NetTypeOK, RoundsTypeOK, Process, serverVars, arrayVars
  <2> QED BY <2>1, <2>2, <2>3 DEF Process, Load!Process, Load!netVars,
             Load!MakeSocket, Load!SocketFails, Load!Refused, Load!Send,
             Load!Recv, Load!RecvFails, Load!RecvFrom, Load!PollTimeout,
             Load!Close, Load!CloseSockets
<1>10. CASE \E c \in Impatient : Interrupt(c)
  <2> PICK c \in Impatient : Interrupt(c)
    BY <1>10
  <2> QED BY DEF Interrupt, Load!Interrupt, Load!CloseSockets, Load!Goto,
     Load!netVars, serverVars, arrayVars, NetInv, NetTypeOK, RoundsTypeOK,
     CountInv, Rounds, Thread
<1>11. CASE UNCHANGED vars
  BY <1>11 DEF vars, netVars, serverVars, arrayVars, loadVars, NetInv,
     NetTypeOK, RoundsTypeOK, CountInv, Rounds, Thread
<1> QED BY <1>1, <1>2, <1>3, <1>4, <1>5, <1>6, <1>7, <1>8, <1>9, <1>10, <1>11
   DEF Next, Main, Worker

\* A step of the TCP server's main thread keeps its parts.
LEMMA TcpMainStep == IInv /\ TcpMain => TcpInv'
<1> SUFFICES ASSUME IInv, TcpMain PROVE TcpInv'
  OBVIOUS
<1> USE SameNames
<1>0. /\ server = "tcp" /\ EntryInv /\ ArgsInv /\ ThreadInv /\ OpenInv
      /\ START_ALLOC \in Nat /\ count \in Nat /\ count_threads \in Nat
      /\ count < START_ALLOC /\ count_threads <= count
      /\ clients_fd \in [Thread -> Socket \cup {None}]
      /\ pthread_args \in [Thread -> Thread]
      /\ open \subseteq Socket /\ None \notin Socket
      /\ error_flag \in Nat /\ DOMAIN pc = Thread
      /\ \A t \in Thread : Created(t) <=> t < count_threads
  BY TestAssumption DEF IInv, TypeOK, NetTypeOK, RoundsTypeOK, CountInv,
     TcpInv, TcpMain, Thread
<1>1. CASE Tcp!Accept
  <2>1. PICK s \in waiting : /\ open' = open \cup {s}
                           /\ clients_fd' = [clients_fd EXCEPT ![count] = s]
    BY <1>1 DEF Tcp!Accept
  <2>2. /\ s \in Socket /\ \A e \in Thread : clients_fd[e] # s
        /\ count < START_ALLOC - 1 /\ count \in Thread
        /\ count_threads \in Thread
    BY <1>0, <1>1 DEF IInv, TypeOK, NetTypeOK, NetInv, CountInv, Rounds,
       Thread, Tcp!Accept
  <2>3. /\ pthread_args' = [pthread_args EXCEPT ![count_threads] = count]
        /\ UNCHANGED <<count, count_threads, error_flag, pc, answered>>
        /\ main_pc = "accept" /\ main_pc' = "create"
    BY <1>1 DEF Tcp!Accept, Tcp!countVars
  <2>4. EntryInv'
    BY <1>0, <2>1, <2>2 DEF EntryInv
  <2>5. \A t \in Thread : t < count_threads =>
          /\ pthread_args'[t] = pthread_args[t]
          /\ pthread_args[t] \in Thread /\ pthread_args[t] < count
          /\ clients_fd[pthread_args[t]] \in Socket
          /\ clients_fd'[pthread_args[t]] = clients_fd[pthread_args[t]]
    BY <1>0, <2>1, <2>2, <2>3 DEF ArgsInv, Thread
  <2>6. ArgsInv'
    <3>1. /\ pthread_args'[count_threads] = count
          /\ clients_fd'[count] = s /\ s \in open'
      BY <1>0, <2>1, <2>2, <2>3
    <3>2. error_flag = 0 =>
            \A t \in Thread : t < count_threads => pthread_args'[t] = t
      BY <1>0, <2>5 DEF ArgsInv
    <3>3. \A t, u \in Thread : t < u /\ u < count_threads =>
            pthread_args'[t] < pthread_args'[u]
      <4> SUFFICES ASSUME NEW t \in Thread, NEW u \in Thread,
                          t < u, u < count_threads
                   PROVE  pthread_args'[t] < pthread_args'[u]
        OBVIOUS
      <4>1. t < count_threads
        BY <1>0 DEF Thread
      <4> QED BY <1>0, <2>5, <4>1 DEF ArgsInv
    <3> QED BY <2>2, <2>3, <2>5, <3>1, <3>2, <3>3 DEF ArgsInv
  <2>7. ThreadInv'
    <3> SUFFICES ASSUME NEW t \in Thread, Alive(t)
                 PROVE  /\ Tcp!Fd(t)' \in open'
                        /\ pc[t] = "loop" => Tcp!Fd(t)' \in answered
      BY <2>3 DEF ThreadInv, Alive
    <3>1. Tcp!Fd(t)' = Tcp!Fd(t)
      BY <1>0, <2>5 DEF Created, Alive, Tcp!Fd
    <3> QED BY <1>0, <2>1, <3>1 DEF ThreadInv
  <2>8. OpenInv'
    BY <1>0, <2>1, <2>2, <2>3 DEF OpenInv, Thread
  <2> QED BY <2>4, <2>6, <2>7, <2>8 DEF TcpInv
<1>2. CASE Tcp!AcceptFails \/ (Tcp!CreateFails /\ UNCHANGED Tcp!fdVars)
  <2>1. /\ UNCHANGED <<clients_fd, pthread_args, count_threads, pc, open>>
        /\ UNCHANGED answered
        /\ count' = count + 1 /\ main_pc' # "create"
        /\ error_flag' = error_flag + 1
    BY <1>2 DEF Tcp!AcceptFails, Tcp!CreateFails, Tcp!Round, Tcp!CanFail,
       Tcp!netVars, Tcp!fdVars
  <2>2. EntryInv'
    BY <1>0, <2>1 DEF EntryInv
  <2>3. ArgsInv'
    <3>1. error_flag' # 0 /\ main_pc' # "create" /\ count' = count + 1
      BY <1>0, <2>1
    <3>2. \A t \in Thread : t < count_threads =>
            pthread_args[t] < count'
      <4> SUFFICES ASSUME NEW t \in Thread, t < count_threads
                   PROVE  pthread_args[t] < count'
        OBVIOUS
      <4>1. pthread_args[t] < count
        BY <1>0 DEF ArgsInv
      <4>2. pthread_args[t] \in Nat
        BY <1>0 DEF Thread
      <4> QED BY <1>0, <3>1, <4>1, <4>2
    <3> QED BY <1>0, <2>1, <3>1, <3>2 DEF ArgsInv
  <2>4. ThreadInv'
    BY <1>0, <2>1 DEF ThreadInv, Tcp!Fd, Alive
  <2>5. OpenInv'
    BY <1>0, <2>1 DEF OpenInv, Thread
  <2> QED BY <2>2, <2>3, <2>4, <2>5 DEF TcpInv
<1>3. CASE Tcp!Create("recv") /\ UNCHANGED Tcp!fdVars
  <2>1. /\ UNCHANGED <<clients_fd, pthread_args, error_flag, open>>
        /\ UNCHANGED answered
        /\ count' = count + 1 /\ count_threads' = count_threads + 1
        /\ main_pc = "create" /\ main_pc' # "create"
        /\ pc' = [pc EXCEPT ![count_threads] = "recv"]
    BY <1>3 DEF Tcp!Create, Tcp!Round, Tcp!GotoT, Tcp!netVars, Tcp!fdVars
  <2>2. EntryInv'
    BY <1>0, <2>1 DEF EntryInv
  <2>3. ArgsInv'
    <3>1. \A t \in Thread : t < count_threads' =>
             /\ pthread_args[t] < count'
             /\ clients_fd[pthread_args[t]] \in Socket
      <4> SUFFICES ASSUME NEW t \in Thread, t < count_threads'
                   PROVE  /\ pthread_args[t] < count'
                          /\ clients_fd[pthread_args[t]] \in Socket
        OBVIOUS
      <4>1. t < count_threads \/ t = count_threads
        BY <1>0, <2>1 DEF Thread
      <4>2. /\ pthread_args[t] < count \/ pthread_args[t] = count
            /\ clients_fd[pthread_args[t]] \in Socket
        BY <1>0, <2>1, <4>1 DEF ArgsInv
      <4>3. pthread_args[t] \in Nat
        BY <1>0 DEF Thread
      <4> QED BY <1>0, <2>1, <4>2, <4>3
    <3>2. \A t, u \in Thread : t < u /\ u < count_threads' =>
            pthread_args[t] < pthread_args[u]
      <4> SUFFICES ASSUME NEW t \in Thread, NEW u \in Thread,
                          t < u, u < count_threads'
                   PROVE  pthread_args[t] < pthread_args[u]
        OBVIOUS
      <4>1. t < count_threads /\ (u < count_threads \/ u = count_threads)
        BY <1>0, <2>1 DEF Thread
      <4> QED BY <1>0, <2>1, <4>1 DEF ArgsInv
    <3>3. error_flag' = 0 =>
            \A t \in Thread : t < count_threads' => pthread_args[t] = t
      <4> SUFFICES ASSUME error_flag = 0, NEW t \in Thread,
                          t < count_threads'
                   PROVE  pthread_args[t] = t
        BY <2>1
      <4>1. count_threads = count
        BY DEF IInv, CountInv
      <4>2. t < count_threads \/ t = count_threads
        BY <1>0, <2>1 DEF Thread
      <4> QED BY <1>0, <2>1, <4>1, <4>2 DEF ArgsInv
    <3> QED BY <2>1, <3>1, <3>2, <3>3 DEF ArgsInv
  <2>4. ThreadInv'
    <3>1. Tcp!Fd(count_threads) \in open
      BY <1>0, <2>1 DEF ArgsInv, Tcp!Fd
    <3> QED BY <1>0, <2>1, <3>1 DEF ThreadInv, Tcp!Fd, Alive
  <2>5. OpenInv'
    BY <1>0, <2>1 DEF OpenInv, Thread
  <2> QED BY <2>2, <2>3, <2>4, <2>5 DEF TcpInv
<1>4. CASE Tcp!Exit /\ UNCHANGED <<Tcp!countVars, pc, Tcp!fdVars>>
  <2>1. /\ UNCHANGED <<clients_fd, pthread_args, count, count_threads, pc>>
        /\ UNCHANGED <<answered, error_flag>>
        /\ open' = {} /\ main_pc' = "exit"
    BY <1>4 DEF Tcp!Exit, Tcp!CloseServer, Tcp!countVars, Tcp!fdVars
  <2>2. \A t \in Thread : ~Alive(t)
    BY <1>4 DEF IInv, JoinInv, Tcp!Exit
  <2>3. EntryInv'
    BY <1>0, <2>1 DEF EntryInv
  <2>4. ArgsInv'
    BY <1>0, <2>1 DEF ArgsInv
  <2>5. ThreadInv'
    BY <2>1, <2>2 DEF ThreadInv, Alive
  <2>6. OpenInv'
    BY <2>1 DEF OpenInv
  <2> QED BY <2>3, <2>4, <2>5, <2>6 DEF TcpInv
<1>5. CASE \/ Tcp!Listen
           \/ Tcp!Stop /\ UNCHANGED <<Tcp!netVars, Tcp!countVars, pc,
                                     Tcp!fdVars>>
           \/ Tcp!Join /\ UNCHANGED Tcp!fdVars
  <2>1. /\ UNCHANGED <<clients_fd, pthread_args, count, count_threads, pc>>
        /\ UNCHANGED <<answered, error_flag, open>>
        /\ main_pc # "create" /\ main_pc' # "create"
    BY <1>5 DEF Tcp!Listen, Tcp!Stop, Tcp!Join, Tcp!netVars, Tcp!countVars,
       Tcp!fdVars
  <2> QED BY <1>0, <2>1 DEF TcpInv, EntryInv, ArgsInv, ThreadInv, OpenInv,
     Alive, Tcp!Fd
<1> QED BY <1>1, <1>2, <1>3, <1>4, <1>5 DEF TcpMain, Tcp!Main

\* A step of the UDP server's main thread keeps its parts.
LEMMA UdpMainStep == IInv /\ UdpMain => UdpInv'
<1> SUFFICES ASSUME IInv, UdpMain PROVE UdpInv'
  OBVIOUS
<1> USE SameNames
<1>0. /\ server = "udp" /\ UdpArgsInv /\ UdpEntryInv
      /\ START_ALLOC \in Nat /\ count \in Nat /\ count_threads \in Nat
      /\ count < START_ALLOC /\ count_threads <= count
      /\ addr_clients \in [Thread -> Socket \cup {None}]
      /\ args \in [Thread -> Socket \cup {None}]
      /\ error_flag \in Nat
      /\ error_flag = 0 => count_threads = count
  BY TestAssumption DEF IInv, TypeOK, RoundsTypeOK, CountInv, UdpInv, UdpMain,
     Thread
<1>1. CASE Udp!RecvFrom
  <2>1. PICK s \in inbox :
          /\ addr_clients' = [addr_clients EXCEPT ![count] = s]
          /\ args' = [args EXCEPT ![count_threads] = s]
    BY <1>1 DEF Udp!RecvFrom
  <2>2. /\ s \in Socket /\ \A t \in Thread : args[t] # s
        /\ count \in Thread /\ count_threads \in Thread
    BY <1>0, <1>1 DEF IInv, TypeOK, NetTypeOK, NetInv, CountInv, Rounds,
       Thread, Udp!RecvFrom
  <2>3. /\ UNCHANGED <<count, count_threads, error_flag>>
        /\ main_pc = "recvfrom" /\ main_pc' = "create"
    BY <1>1 DEF Udp!RecvFrom, Udp!countVars
  <2>4. \A t \in Thread : t < count_threads =>
          /\ args'[t] = args[t]
          /\ error_flag = 0 => addr_clients'[t] = addr_clients[t]
    BY <1>0, <2>1, <2>2 DEF Thread
  <2>5. UdpArgsInv'
    <3>1. /\ args'[count_threads] = s /\ addr_clients'[count] = s
      BY <1>0, <2>1, <2>2
    <3>2. \A t, u \in Thread :
            t < u /\ u < count_threads => args'[t] # args'[u]
      <4> SUFFICES ASSUME NEW t \in Thread, NEW u \in Thread,
                          t < u, u < count_threads
                   PROVE  args'[t] # args'[u]
        OBVIOUS
      <4>1. t < count_threads
        BY <1>0 DEF Thread
      <4> QED BY <1>0, <2>4, <4>1 DEF UdpArgsInv
    <3> QED BY <1>0, <2>2, <2>3, <2>4, <3>1, <3>2 DEF UdpArgsInv
  <2>6. UdpEntryInv'
    BY <1>0, <2>1, <2>2, <2>3 DEF UdpEntryInv, Thread
  <2> QED BY <2>5, <2>6 DEF UdpInv
<1>2. CASE Udp!RecvFromFails \/ (Udp!CreateFails /\ UNCHANGED Udp!addrVars)
  <2>1. /\ UNCHANGED <<addr_clients, args, count_threads>>
        /\ count' = count + 1 /\ main_pc' # "create"
        /\ error_flag' = error_flag + 1
    BY <1>2 DEF Udp!RecvFromFails, Udp!CreateFails, Udp!Round, Udp!CanFail,
       Udp!addrVars
  <2>2. UdpArgsInv'
    BY <1>0, <2>1 DEF UdpArgsInv
  <2>3. UdpEntryInv'
    BY <1>0, <2>1 DEF UdpEntryInv, Thread
  <2> QED BY <2>2, <2>3 DEF UdpInv
<1>3. CASE Udp!Create("sendto") /\ UNCHANGED Udp!addrVars
  <2>1. /\ UNCHANGED <<addr_clients, args, error_flag>>
        /\ count' = count + 1 /\ count_threads' = count_threads + 1
        /\ main_pc = "create" /\ main_pc' # "create"
    BY <1>3 DEF Udp!Create, Udp!Round, Udp!addrVars
  <2>2. \A t \in Thread : t < count_threads' =>
                         t < count_threads \/ t = count_threads
    BY <1>0, <2>1 DEF Thread
  <2>3. UdpArgsInv'
    <3>1. \A t \in Thread : t < count_threads' => args[t] \in Socket
      BY <1>0, <2>1, <2>2 DEF UdpArgsInv
    <3>2. \A t, u \in Thread : t < u /\ u < count_threads' => args[t] # args[u]
      <4> SUFFICES ASSUME NEW t \in Thread, NEW u \in Thread,
                          t < u, u < count_threads'
                   PROVE  args[t] # args[u]
        OBVIOUS
      <4>1. t < count_threads
        BY <1>0, <2>1 DEF Thread
      <4> QED BY <1>0, <2>1, <2>2, <4>1 DEF UdpArgsInv
    <3>3. error_flag = 0 => \A t \in Thread : t < count_threads' =>
                              args[t] = addr_clients[t]
      BY <1>0, <2>1, <2>2 DEF UdpArgsInv
    <3> QED BY <2>1, <3>1, <3>2, <3>3 DEF UdpArgsInv
  <2>4. UdpEntryInv'
    BY <1>0, <2>1 DEF UdpEntryInv, Thread
  <2> QED BY <2>3, <2>4 DEF UdpInv
<1>4. CASE \/ Udp!Loop
           \/ Udp!Stop /\ UNCHANGED <<Udp!netVars, Udp!countVars, pc,
                                     Udp!addrVars>>
           \/ Udp!Join /\ UNCHANGED Udp!addrVars
           \/ Udp!Exit /\ UNCHANGED <<Udp!countVars, pc, Udp!addrVars>>
  <2>1. /\ UNCHANGED <<addr_clients, args, count, count_threads, error_flag>>
        /\ main_pc # "create" /\ main_pc' # "create"
    BY <1>4 DEF Udp!Loop, Udp!Stop, Udp!Join, Udp!Exit, Udp!countVars,
       Udp!addrVars
  <2> QED BY <1>0, <2>1 DEF UdpInv, UdpArgsInv, UdpEntryInv
<1> QED BY <1>1, <1>2, <1>3, <1>4 DEF UdpMain, Udp!Main

\* Every step keeps what is said of the TCP server.
LEMMA TcpStep == IInv /\ [Next]_vars => TcpInv'
<1> SUFFICES ASSUME IInv, [Next]_vars PROVE TcpInv'
  OBVIOUS
<1> USE SameNames, MineType, TestAssumption, SocketsAssumption DEF IInv, TypeOK
<1>1. CASE TcpMain
  BY <1>1, TcpMainStep
<1>2. CASE \E t \in Thread : TcpThread(t)
  <2> PICK t \in Thread : TcpThread(t)
    BY <1>2
  <2> USE DEF TcpThread, NetTypeOK, RoundsTypeOK, CountInv, Thread, Created,
          Alive, Tcp!netVars, Tcp!stopVars, Tcp!countVars, Tcp!fdVars
  <2>0. server = "tcp" /\ EntryInv /\ ArgsInv /\ ThreadInv /\ OpenInv
    BY DEF TcpInv
  <2>1. CASE Tcp!Recv(t)
    BY <2>0, <2>1 DEF Tcp!Recv, Tcp!GotoT, TcpInv, EntryInv, ArgsInv,
       ThreadInv, OpenInv, Tcp!Fd
  <2>2. CASE Tcp!Send(t)
    BY <2>0, <2>2 DEF Tcp!Send, Tcp!GotoT, TcpInv, EntryInv, ArgsInv,
       ThreadInv, OpenInv, Tcp!Fd
  <2>3. CASE Tcp!Loop(t)
    <3>1. /\ UNCHANGED <<clients_fd, pthread_args, count, count_threads>>
          /\ UNCHANGED <<main_pc, answered, error_flag>>
          /\ pc[t] = "loop" /\ pc' = [pc EXCEPT ![t] = "done"]
          /\ open' = open \ {Tcp!Fd(t)}
      BY <2>3 DEF Tcp!Loop, Tcp!GotoT
    <3>2. EntryInv'
      BY <2>0, <3>1 DEF EntryInv
    <3>3. \A u \in Thread \ {t} : Created(u) => Tcp!Fd(u) # Tcp!Fd(t)
      BY <2>0, <3>1 DEF EntryInv, ArgsInv, Tcp!Fd
    <3>4. main_pc = "create" => clients_fd[count] # Tcp!Fd(t)
      BY <2>0, <3>1 DEF EntryInv, ArgsInv, Tcp!Fd, Rounds
    <3>5. ArgsInv'
      BY <2>0, <3>1, <3>4 DEF ArgsInv
    <3>6. ThreadInv'
      BY <2>0, <3>1, <3>3 DEF ThreadInv, Tcp!Fd
    <3>7. OpenInv'
      BY <2>0, <3>1 DEF OpenInv
    <3> QED BY <3>2, <3>5, <3>6, <3>7 DEF TcpInv
  <2> QED BY <2>1, <2>2, <2>3 DEF Tcp!Thread
<1>3. CASE UdpMain
  BY <1>3 DEF UdpMain, TcpInv
<1>4. CASE \E t \in Thread : UdpThread(t)
  BY <1>4 DEF UdpThread, TcpInv
<1>5. CASE EchoMain
  BY <1>5 DEF EchoMain, TcpInv
<1>6. CASE EchoTcp
  BY <1>6 DEF EchoTcp, TcpInv
<1>7. CASE EchoUdp
  BY <1>7 DEF EchoUdp, TcpInv
<1>8. CASE ShutdownThread \/ User
  BY <1>8 DEF ShutdownThread, User, Tcp!User, Tcp!ShutdownCheck, Tcp!TypeS,
     Tcp!TypeOther, netVars, perClientVars, arrayVars, TcpInv, EntryInv,
     ArgsInv, ThreadInv, OpenInv, Alive, Tcp!Fd
<1>9. CASE \E c \in Client : Process(c)
  <2> PICK c \in Client : Process(c)
    BY <1>9
  <2> QED BY DEF Process, Load!Process, Load!MakeSocket, Load!Goto,
     Load!SocketFails, Load!GoOn, Load!Connect, Load!Refused, Load!Send,
     Load!Recv, Load!EndTurn, Load!RecvFails, Load!SendTo, Load!RecvFrom,
     Load!PollTimeout, Load!Close, Load!CloseSockets, Load!netVars,
     serverVars, perClientVars, arrayVars, TcpInv, EntryInv, ArgsInv,
     ThreadInv, OpenInv, Alive, Tcp!Fd
<1>10. CASE \E c \in Impatient : Interrupt(c)
  <2> PICK c \in Impatient : Interrupt(c)
    BY <1>10
  <2> QED BY DEF Interrupt, Load!Interrupt, Load!CloseSockets, Load!Goto,
     Load!netVars, serverVars, perClientVars, arrayVars, TcpInv, EntryInv,
     ArgsInv, ThreadInv, OpenInv, Alive, Tcp!Fd
<1>11. CASE UNCHANGED vars
  BY <1>11 DEF vars, netVars, serverVars, perClientVars, arrayVars, TcpInv,
     EntryInv, ArgsInv, ThreadInv, OpenInv, Alive, Tcp!Fd
<1> QED BY <1>1, <1>2, <1>3, <1>4, <1>5, <1>6, <1>7, <1>8, <1>9, <1>10, <1>11
   DEF Next, Main, Worker

\* Every step keeps what is said of the UDP server.
LEMMA UdpStep == IInv /\ [Next]_vars => UdpInv'
<1> SUFFICES ASSUME IInv, [Next]_vars PROVE UdpInv'
  OBVIOUS
<1> USE DEF IInv
<1>1. CASE TcpMain
  BY <1>1 DEF TcpMain, UdpInv
<1>2. CASE \E t \in Thread : TcpThread(t)
  BY <1>2 DEF TcpThread, UdpInv
<1>3. CASE UdpMain
  BY <1>3, UdpMainStep
<1>4. CASE \E t \in Thread : UdpThread(t)
  <2> PICK t \in Thread : UdpThread(t)
    BY <1>4
  <2> QED BY DEF UdpThread, Udp!Thread, Udp!SendTo, Udp!GotoT, Udp!Sleep,
     Udp!countVars, Udp!addrVars, UdpInv, UdpArgsInv, UdpEntryInv
<1>5. CASE EchoMain
  BY <1>5 DEF EchoMain, UdpInv
<1>6. CASE EchoTcp
  BY <1>6 DEF EchoTcp, UdpInv
<1>7. CASE EchoUdp
  BY <1>7 DEF EchoUdp, UdpInv
<1>8. CASE ShutdownThread \/ User
  BY <1>8 DEF ShutdownThread, User, Tcp!User, Tcp!ShutdownCheck, Tcp!TypeS,
     Tcp!TypeOther, perClientVars, arrayVars, UdpInv, UdpArgsInv, UdpEntryInv,
     Udp!countVars
<1>9. CASE \E c \in Client : Process(c)
  <2> PICK c \in Client : Process(c)
    BY <1>9
  <2> QED BY DEF Process, Load!Process, Load!MakeSocket, Load!Goto,
     Load!SocketFails, Load!GoOn, Load!Connect, Load!Refused, Load!Send,
     Load!Recv, Load!EndTurn, Load!RecvFails, Load!SendTo, Load!RecvFrom,
     Load!PollTimeout, Load!Close, Load!CloseSockets, serverVars,
     perClientVars, arrayVars, UdpInv, UdpArgsInv, UdpEntryInv, Udp!countVars
<1>10. CASE \E c \in Impatient : Interrupt(c)
  <2> PICK c \in Impatient : Interrupt(c)
    BY <1>10
  <2> QED BY DEF Interrupt, Load!Interrupt, Load!CloseSockets, Load!Goto,
     serverVars, perClientVars, arrayVars, UdpInv, UdpArgsInv, UdpEntryInv,
     Udp!countVars
<1>11. CASE UNCHANGED vars
  BY <1>11 DEF vars, serverVars, perClientVars, arrayVars, UdpInv, UdpArgsInv,
     UdpEntryInv, Udp!countVars
<1> QED BY <1>1, <1>2, <1>3, <1>4, <1>5, <1>6, <1>7, <1>8, <1>9, <1>10, <1>11
   DEF Next, Main, Worker

\* Every step keeps that what is counted was answered.
LEMMA CountedStep == IInv /\ [Next]_vars => CountedWasAnswered'
<1> SUFFICES ASSUME IInv, [Next]_vars PROVE CountedWasAnswered'
  OBVIOUS
<1> USE SameNames, MineType, TestAssumption, SocketsAssumption DEF IInv, TypeOK
<1>1. CASE TcpMain
  BY <1>1 DEF TcpMain, Tcp!Main, Tcp!Listen, Tcp!Accept, Tcp!AcceptFails,
     Tcp!Round, Tcp!CanFail, Tcp!Create, Tcp!GotoT, Tcp!CreateFails, Tcp!Stop,
     Tcp!Join, Tcp!Exit, Tcp!CloseServer, Tcp!netVars, echoVars, loadVars,
     CountedWasAnswered, ServedInv, Load!Gone, Load!netVars, Echo!netVars
<1>2. CASE \E t \in Thread : TcpThread(t)
  <2> PICK t \in Thread : TcpThread(t)
    BY <1>2
  <2> QED BY DEF TcpThread, Tcp!Thread, Tcp!Recv, Tcp!GotoT, Tcp!Send,
     Tcp!Loop, Tcp!netVars, echoVars, loadVars, CountedWasAnswered, ServedInv,
     Load!Gone, Load!netVars, Echo!netVars
<1>3. CASE UdpMain
  BY <1>3 DEF UdpMain, Udp!Main, Udp!Loop, Udp!RecvFrom, Udp!RecvFromFails,
     Udp!Round, Udp!CanFail, Udp!Create, Udp!GotoT, Udp!CreateFails, Udp!Stop,
     Udp!Join, Udp!Exit, Udp!CloseServer, Udp!netVars, echoVars, loadVars,
     CountedWasAnswered, ServedInv, Load!Gone, Load!netVars, Echo!netVars
<1>4. CASE \E t \in Thread : UdpThread(t)
  <2> PICK t \in Thread : UdpThread(t)
    BY <1>4
  <2> QED BY DEF UdpThread, Udp!Thread, Udp!SendTo, Udp!GotoT, Udp!Sleep,
     Udp!netVars, echoVars, loadVars, CountedWasAnswered, ServedInv,
     Load!Gone, Load!netVars, Echo!netVars
<1>5. CASE EchoMain
  BY <1>5 DEF EchoMain, Echo!Main, Echo!Loop, Echo!Select, Echo!Events,
     Echo!SelectTimeout, Echo!CreateTcp, Echo!JoinTcp, Echo!CreateUdp,
     Echo!JoinUdp, Echo!NoJoin, Echo!Stop, Echo!Exit, Echo!CloseServer,
     Echo!netVars, Echo!echoVars, loadVars, CountedWasAnswered, ServedInv,
     Load!Gone, Load!netVars
<1>6. CASE EchoTcp
  BY <1>6 DEF EchoTcp, Echo!ThreadTcp, Echo!Listen, Echo!Accept,
     Echo!AcceptFails, Echo!Recv, Echo!Send, Echo!Close, Echo!netVars,
     Echo!echoVars, loadVars, CountedWasAnswered, ServedInv, Load!Gone,
     Load!netVars
<1>7. CASE EchoUdp
  BY <1>7 DEF EchoUdp, Echo!ThreadUdp, Echo!RecvFrom, Echo!SendTo,
     Echo!netVars, Echo!echoVars, loadVars, CountedWasAnswered, ServedInv,
     Load!Gone, Load!netVars
<1>8. CASE ShutdownThread \/ User
  BY <1>8 DEF ShutdownThread, User, Tcp!User, Tcp!ShutdownCheck, Tcp!TypeS,
     Tcp!TypeOther, netVars, echoVars, loadVars, CountedWasAnswered,
     ServedInv, Load!Gone, Load!netVars, Echo!netVars
<1>9. CASE \E c \in Client : Process(c)
  <2> PICK c \in Client : Process(c)
    BY <1>9
  <2> QED BY DEF Process, Load!Process, Load!MakeSocket, Load!Goto,
     Load!SocketFails, Load!GoOn, Load!Connect, Load!Refused, Load!Send,
     Load!Recv, Load!EndTurn, Load!RecvFails, Load!SendTo, Load!RecvFrom,
     Load!PollTimeout, Load!Close, Load!CloseSockets, Load!netVars,
     serverVars, echoVars, CountedWasAnswered, ServedInv, Load!Gone,
     Echo!netVars
<1>10. CASE \E c \in Impatient : Interrupt(c)
  <2> PICK c \in Impatient : Interrupt(c)
    BY <1>10
  <2> QED BY DEF Interrupt, Load!Interrupt, Load!CloseSockets, Load!Goto,
     Load!netVars, serverVars, echoVars, CountedWasAnswered, ServedInv,
     Load!Gone, Echo!netVars
<1>11. CASE UNCHANGED vars
  BY <1>11 DEF vars, netVars, serverVars, echoVars, loadVars,
     CountedWasAnswered, ServedInv, Load!Gone, Load!netVars, Echo!netVars
<1> QED BY <1>1, <1>2, <1>3, <1>4, <1>5, <1>6, <1>7, <1>8, <1>9, <1>10, <1>11
   DEF Next, Main, Worker

\* Every step keeps that a connection is open until its client was answered.
LEMMA ServedStep == IInv /\ [Next]_vars => ServedInv'
<1> SUFFICES ASSUME IInv, [Next]_vars PROVE ServedInv'
  OBVIOUS
<1> USE SameNames, MineType, TestAssumption, SocketsAssumption DEF IInv, TypeOK
<1>1. CASE TcpMain
  BY <1>1 DEF TcpMain, Tcp!Main, Tcp!Listen, Tcp!Accept, Tcp!AcceptFails,
     Tcp!Round, Tcp!CanFail, Tcp!Create, Tcp!GotoT, Tcp!CreateFails, Tcp!Stop,
     Tcp!Join, Tcp!Exit, Tcp!CloseServer, Tcp!netVars, echoVars, loadVars,
     ServedInv, EchoInv, TcpInv, ThreadInv, Alive, Load!Mine, Load!netVars,
     Echo!netVars
<1>2. CASE \E t \in Thread : TcpThread(t)
  <2> PICK t \in Thread : TcpThread(t)
    BY <1>2
  <2> QED BY DEF TcpThread, Tcp!Thread, Tcp!Recv, Tcp!GotoT, Tcp!Send,
     Tcp!Loop, Tcp!netVars, echoVars, loadVars, ServedInv, EchoInv, TcpInv,
     ThreadInv, Alive, Load!Mine, Load!netVars, Echo!netVars
<1>3. CASE UdpMain
  BY <1>3 DEF UdpMain, Udp!Main, Udp!Loop, Udp!RecvFrom, Udp!RecvFromFails,
     Udp!Round, Udp!CanFail, Udp!Create, Udp!GotoT, Udp!CreateFails, Udp!Stop,
     Udp!Join, Udp!Exit, Udp!CloseServer, Udp!netVars, echoVars, loadVars,
     ServedInv, EchoInv, TcpInv, ThreadInv, Alive, Load!Mine, Load!netVars,
     Echo!netVars
<1>4. CASE \E t \in Thread : UdpThread(t)
  <2> PICK t \in Thread : UdpThread(t)
    BY <1>4
  <2> QED BY DEF UdpThread, Udp!Thread, Udp!SendTo, Udp!GotoT, Udp!Sleep,
     Udp!netVars, echoVars, loadVars, ServedInv, EchoInv, TcpInv, ThreadInv,
     Alive, Load!Mine, Load!netVars, Echo!netVars
<1>5. CASE EchoMain
  BY <1>5 DEF EchoMain, Echo!Main, Echo!Loop, Echo!Select, Echo!Events,
     Echo!SelectTimeout, Echo!CreateTcp, Echo!JoinTcp, Echo!CreateUdp,
     Echo!JoinUdp, Echo!NoJoin, Echo!Stop, Echo!Exit, Echo!CloseServer,
     Echo!netVars, Echo!echoVars, loadVars, ServedInv, EchoInv, TcpInv,
     ThreadInv, Alive, Load!Mine, Load!netVars
<1>6. CASE EchoTcp
  BY <1>6 DEF EchoTcp, Echo!ThreadTcp, Echo!Listen, Echo!Accept,
     Echo!AcceptFails, Echo!Recv, Echo!Send, Echo!Close, Echo!netVars,
     Echo!echoVars, loadVars, ServedInv, EchoInv, TcpInv, ThreadInv, Alive,
     Load!Mine, Load!netVars
<1>7. CASE EchoUdp
  BY <1>7 DEF EchoUdp, Echo!ThreadUdp, Echo!RecvFrom, Echo!SendTo,
     Echo!netVars, Echo!echoVars, loadVars, ServedInv, EchoInv, TcpInv,
     ThreadInv, Alive, Load!Mine, Load!netVars
<1>8. CASE ShutdownThread \/ User
  BY <1>8 DEF ShutdownThread, User, Tcp!User, Tcp!ShutdownCheck, Tcp!TypeS,
     Tcp!TypeOther, netVars, echoVars, loadVars, ServedInv, EchoInv, TcpInv,
     ThreadInv, Alive, Load!Mine, Load!netVars, Echo!netVars
<1>9. CASE \E c \in Client : Process(c)
  <2> PICK c \in Client : Process(c)
    BY <1>9
  <2>1. CASE Load!MakeSocket(c)
    BY <2>1 DEF Process, Load!MakeSocket, Load!Goto, Load!netVars, serverVars,
       echoVars, ServedInv, EchoInv, TcpInv, ThreadInv, Alive, Load!Mine,
       Echo!netVars
  <2>2. CASE Load!SocketFails(c)
    <3>1. \A d \in Client : load_pc'[d] \in {"send", "recv"} =>
            d # c /\ load_pc[d] = load_pc'[d] /\ i'[d] = i[d]
      BY <2>2 DEF LoadTypeOK, Load!SocketFails, Load!Goto, Load!GoOn
    <3> QED BY <2>2, <3>1 DEF Process, Load!SocketFails, Load!netVars,
       serverVars, stopVars, echoVars, ServedInv, Load!Mine
  <2>3. CASE Load!Connect(c)
    BY <2>3 DEF Process, Load!Connect, Load!Goto, Load!netVars, serverVars,
       echoVars, ServedInv, EchoInv, TcpInv, ThreadInv, Alive, Load!Mine,
       Echo!netVars
  <2>4. CASE Load!Refused(c)
    BY <2>4 DEF Process, Load!Refused, Load!Goto, Load!netVars, serverVars,
       echoVars, ServedInv, EchoInv, TcpInv, ThreadInv, Alive, Load!Mine,
       Echo!netVars
  <2>5. CASE Load!Send(c)
    BY <2>5 DEF Process, Load!Send, Load!Goto, Load!netVars, serverVars,
       echoVars, ServedInv, EchoInv, TcpInv, ThreadInv, Alive, Load!Mine,
       Echo!netVars
  <2>6. CASE Load!Recv(c)
    <3>1. \A d \in Client : load_pc'[d] \in {"send", "recv"} =>
            d # c /\ load_pc[d] = load_pc'[d] /\ i'[d] = i[d]
      BY <2>6 DEF LoadTypeOK, Load!Recv, Load!Goto, Load!GoOn, Load!EndTurn
    <3> QED BY <2>6, <3>1 DEF Process, Load!Recv, Load!netVars, serverVars,
               stopVars, echoVars, ServedInv, Load!Mine
  <2>7. CASE Load!RecvFails(c)
    BY <2>7 DEF Process, Load!RecvFails, Load!Goto, Load!netVars, serverVars,
       echoVars, ServedInv, EchoInv, TcpInv, ThreadInv, Alive, Load!Mine,
       Echo!netVars
  <2>8. CASE Load!SendTo(c, Serving)
    BY <2>8 DEF Process, Load!SendTo, Load!Goto, Load!netVars, serverVars,
       echoVars, ServedInv, EchoInv, TcpInv, ThreadInv, Alive, Load!Mine,
       Echo!netVars
  <2>9. CASE Load!RecvFrom(c)
    <3>1. \A d \in Client : load_pc'[d] \in {"send", "recv"} =>
            d # c /\ load_pc[d] = load_pc'[d] /\ i'[d] = i[d]
      BY <2>9 DEF LoadTypeOK, Load!RecvFrom, Load!Goto, Load!GoOn, Load!EndTurn
    <3> QED BY <2>9, <3>1 DEF Process, Load!RecvFrom, Load!netVars, serverVars,
               stopVars, echoVars, ServedInv, Load!Mine
  <2>10. CASE Load!PollTimeout(c)
    <3>1. \A d \in Client : load_pc'[d] \in {"send", "recv"} =>
            d # c /\ load_pc[d] = load_pc'[d] /\ i'[d] = i[d]
      BY <2>10 DEF LoadTypeOK, Load!PollTimeout, Load!Goto, Load!GoOn,
         Load!EndTurn
    <3> QED BY <2>10, <3>1 DEF Process, Load!PollTimeout, Load!netVars,
       serverVars, stopVars, echoVars, ServedInv, Load!Mine
  <2>11. CASE Load!Close(c)
    BY <2>11 DEF Process, Load!Close, Load!CloseSockets, Load!Goto,
       Load!netVars, serverVars, echoVars, ServedInv, EchoInv, TcpInv,
       ThreadInv, Alive, Load!Mine, Echo!netVars
  <2> QED BY <2>1, <2>2, <2>3, <2>4, <2>5, <2>6, <2>7, <2>8, <2>9, <2>10,
     <2>11 DEF Process, Load!Process
<1>10. CASE \E c \in Impatient : Interrupt(c)
  <2> PICK c \in Impatient : Interrupt(c)
    BY <1>10
  <2> QED BY DEF Interrupt, Load!Interrupt, Load!CloseSockets, Load!Goto,
     Load!netVars, serverVars, echoVars, ServedInv, EchoInv, TcpInv,
     ThreadInv, Alive, Load!Mine, Echo!netVars
<1>11. CASE UNCHANGED vars
  BY <1>11 DEF vars, netVars, serverVars, echoVars, loadVars, ServedInv,
     EchoInv, TcpInv, ThreadInv, Alive, Load!Mine, Load!netVars, Echo!netVars
<1> QED BY <1>1, <1>2, <1>3, <1>4, <1>5, <1>6, <1>7, <1>8, <1>9, <1>10, <1>11
   DEF Next, Main, Worker

\* The invariant holds in every reachable state.
THEOREM Invariant == Spec => []IInv
<1>1. Init => IInv
  BY InitInv
<1>2. IInv /\ [Next]_vars => IInv'
  BY NetType, MainType, RoundsType, EchoType, LoadType, CountStep, EchoStep,
     JoinStep, NetStep, TcpStep, UdpStep, ServedStep, CountedStep
     DEF IInv, TypeOK
<1> QED BY <1>1, <1>2, PTL DEF Spec

\* The variables keep their types; among them count, which never gets past the
\* last entry of the arrays but one (tcp 142).
THEOREM TypeCorrect == Spec => []TypeOK
<1>1. IInv => TypeOK
  BY DEF IInv
<1> QED BY <1>1, Invariant, PTL

-----------------------------------------------------------------------------
(* The properties.                                                         *)

\* Each thread serves a client of its own.
THEOREM ThreadsDiffer == Spec => []OwnClient
<1>1. IInv => OwnClient
  <2> SUFFICES ASSUME IInv PROVE OwnClient
    OBVIOUS
  <2>1. /\ \A t \in Thread : Created(t) <=> t < count_threads
        /\ server \in {"tcp", "udp", "echo"}
        /\ pthread_args \in [Thread -> Thread]
        /\ server = "echo" => \A t \in Thread : ~Created(t) /\ ~Alive(t)
    BY DEF IInv, CountInv, TypeOK, MainTypeOK, RoundsTypeOK, JoinInv, Created,
       Alive
  <2>2. CASE server = "tcp"
    <3>1. EntryInv /\ ArgsInv /\ ThreadInv
      BY <2>2 DEF IInv, TcpInv
    <3>2. \A t, u \in Thread :
            t < u /\ Created(t) /\ Created(u) => Tcp!Fd(t) # Tcp!Fd(u)
      <4> SUFFICES ASSUME NEW t \in Thread, NEW u \in Thread, t < u,
                          t < count_threads, u < count_threads
                   PROVE  Tcp!Fd(t) # Tcp!Fd(u)
        BY <2>1
      <4>1. pthread_args[t] # pthread_args[u]
        BY <2>1, <3>1 DEF ArgsInv, Thread
      <4> QED BY <2>1, <3>1, <4>1 DEF ArgsInv, EntryInv, Tcp!Fd
    <3>3. \A t, u \in Thread : t # u => t < u \/ u < t
      BY TestAssumption DEF Thread
    <3> QED BY <2>2, <3>1, <3>2, <3>3 DEF OwnClient, Serves, ThreadInv
  <2>3. CASE server = "udp"
    <3>1. UdpArgsInv
      BY <2>3 DEF IInv, UdpInv
    <3>2. \A t, u \in Thread : t # u => t < u \/ u < t
      BY TestAssumption DEF Thread
    <3> QED BY <2>1, <2>3, <3>1, <3>2 DEF OwnClient, Serves, UdpArgsInv
  <2>4. CASE server = "echo"
    BY <2>1, <2>4 DEF OwnClient
  <2> QED BY <2>1, <2>2, <2>3, <2>4
<1> QED BY <1>1, Invariant, PTL

\* main gives back the arrays and the sockets when no thread is left.
THEOREM NobodyLeft == Spec => []AloneAtExit
<1>1. IInv => AloneAtExit
  BY DEF IInv, JoinInv, EchoInv, AloneAtExit
<1> QED BY <1>1, Invariant, PTL

\* The two threads of the echo server never share their buffers.
THEOREM BuffersUnshared == Spec => []OneAtATime
<1>1. IInv => OneAtATime
  BY DEF IInv, EchoInv, OneAtATime
<1> QED BY <1>1, Invariant, PTL

\* A server that has met no error has given every client to a thread.
THEOREM AllGiven == Spec => []NobodyForgotten
<1>1. IInv => NobodyForgotten
  <2> SUFFICES ASSUME IInv, server # "echo", error_flag = 0,
                      NEW s \in Taken
               PROVE  HasThread(s) \/ (main_pc = "create" /\ s \in InHand)
    BY DEF NobodyForgotten
  <2>1. /\ \A t \in Thread : Created(t) <=> t < count_threads
        /\ count_threads = count
        /\ server \in {"tcp", "udp"}
    BY DEF IInv, CountInv, TypeOK, MainTypeOK
  <2>2. CASE server = "tcp"
    <3>1. ArgsInv /\ OpenInv /\ s \in open
      BY <2>2 DEF IInv, TcpInv, Taken
    <3>2. PICK e \in Thread :
            /\ clients_fd[e] = s
            /\ e < count \/ (e = count /\ main_pc = "create")
      BY <3>1 DEF OpenInv
    <3>3. CASE e < count
      <4>1. Created(e) /\ Serves(e) = s
        BY <2>1, <2>2, <3>1, <3>2, <3>3 DEF ArgsInv, Serves, Tcp!Fd
      <4> QED BY <4>1 DEF HasThread
    <3>4. CASE e = count /\ main_pc = "create"
      BY <2>2, <3>2, <3>4 DEF InHand
    <3> QED BY <3>2, <3>3, <3>4
  <2>3. CASE server = "udp"
    <3>1. UdpArgsInv /\ UdpEntryInv
      BY <2>3 DEF IInv, UdpInv
    <3>2. PICK e \in Thread : addr_clients[e] = s /\ s # None
      BY <2>3 DEF Taken
    <3>3. CASE e < count
      <4>1. Created(e) /\ Serves(e) = s
        BY <2>1, <2>3, <3>1, <3>2, <3>3 DEF UdpArgsInv, Serves
      <4> QED BY <4>1 DEF HasThread
    <3>4. CASE e = count /\ main_pc = "create"
      BY <2>3, <3>2, <3>4 DEF InHand
    <3> QED BY <3>1, <3>2, <3>3, <3>4 DEF UdpEntryInv
  <2> QED BY <2>1, <2>2, <2>3
<1> QED BY <1>1, Invariant, PTL

\* While the server runs, what the load test counts was answered.
THEOREM CountIsTrue == Spec => []CountedWasAnswered
<1>1. IInv => CountedWasAnswered
  BY DEF IInv
<1> QED BY <1>1, Invariant, PTL
=============================================================================
