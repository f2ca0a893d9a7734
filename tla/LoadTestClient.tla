-------------------------- MODULE LoadTestClient ---------------------------
(***************************************************************************)
(* The client that counts how many connections a server serves,            *)
(* sockets_highload_services_27July/client_for_load_test_tcp_udp.c.        *)
(*                                                                         *)
(* One socket after the other, each process makes a connection or sends a  *)
(* datagram, waits for the answer and counts it; no socket is closed       *)
(* before the end.                                                         *)
(***************************************************************************)
EXTENDS Sockets

CONSTANT MayFail        \* bound: the sockets that socket() may refuse to make

VARIABLES
  protocol,       \* argv[1] of each process
  load_pc, i,
  counted         \* the sockets that connects_count counts

loadVars == <<protocol, load_pc, i, counted>>

LoadInit(protocols) ==
  /\ protocol \in [Client -> protocols]
  /\ load_pc = [c \in Client |-> "socket"]
  /\ i = [c \in Client |-> 0]
  /\ counted = {}

Mine(c) == <<c, i[c]>>

Goto(c, l) == load_pc' = [load_pc EXCEPT ![c] = l]
GoOn(c)    == i' = [i EXCEPT ![c] = @ + 1]

\* The end of a turn of the loop: after the last socket the process stops.
EndTurn(c) == IF i[c] = size_alloc - 1
              THEN Goto(c, "close") /\ UNCHANGED i
              ELSE Goto(c, "socket") /\ GoOn(c)

MakeSocket(c) ==
  /\ load_pc[c] = "socket"
  /\ sock' = [sock EXCEPT ![Mine(c)] = "open"]
  /\ Goto(c, IF protocol[c] = "tcp" THEN "connect" ELSE "sendto")
  /\ UNCHANGED <<listening, waiting, said, open, inbox, answered, protocol, i,
                 counted>>

\* The turn goes on without the check for the last socket: after it, the next
\* descriptor is written behind the array, and what happens then is open.
SocketFails(c) ==
  /\ load_pc[c] = "socket"
  /\ Mine(c) \in MayFail
  /\ IF i[c] = size_alloc - 1 THEN Goto(c, "overrun") /\ UNCHANGED i
                              ELSE GoOn(c) /\ UNCHANGED load_pc
  /\ UNCHANGED <<netVars, protocol, counted>>

Connect(c) ==
  /\ load_pc[c] = "connect" /\ CanConnect
  /\ sock' = [sock EXCEPT ![Mine(c)] = "connected"]
  /\ waiting' = waiting \cup {Mine(c)}
  /\ Goto(c, "send")
  /\ UNCHANGED <<listening, said, open, inbox, answered, protocol, i, counted>>

\* Nobody listens: connect_res ends the loop.
Refused(c) ==
  /\ load_pc[c] = "connect" /\ ~listening
  /\ Goto(c, "close")
  /\ UNCHANGED <<netVars, protocol, i, counted>>

Send(c) ==
  /\ load_pc[c] = "send"
  /\ said' = said \cup {Mine(c)}
  /\ Goto(c, "recv")
  /\ UNCHANGED <<sock, listening, waiting, open, inbox, answered, protocol, i,
                 counted>>

\* recv() returns the answer, or 0 because the server has closed the
\* connection: both count.
Recv(c) ==
  /\ load_pc[c] = "recv"
  /\ Mine(c) \in answered \/ Gone(Mine(c))
  /\ counted' = counted \cup {Mine(c)}
  /\ EndTurn(c)
  /\ UNCHANGED <<netVars, protocol>>

\* recv() returns -1 for a connection that was reset.
RecvFails(c) ==
  /\ load_pc[c] = "recv"
  /\ Mine(c) \notin answered /\ Gone(Mine(c))
  /\ Goto(c, "close")
  /\ UNCHANGED <<netVars, protocol, i, counted>>

\* A datagram to a server that has ended gets lost.
SendTo(c, serving) ==
  /\ load_pc[c] = "sendto"
  /\ inbox' = IF serving THEN inbox \cup {Mine(c)} ELSE inbox
  /\ Goto(c, "poll")
  /\ UNCHANGED <<sock, listening, waiting, said, open, answered, protocol, i,
                 counted>>

\* poll() returns before its time is over, and recvfrom() has the answer.
RecvFrom(c) ==
  /\ load_pc[c] = "poll" /\ Mine(c) \in answered
  /\ counted' = counted \cup {Mine(c)}
  /\ EndTurn(c)
  /\ UNCHANGED <<netVars, protocol>>

\* Mutant: poll() without a limit of time.
PollNoLimit(c) ==
  /\ load_pc[c] = "poll" /\ Mine(c) \in answered
  /\ EndTurn(c)
  /\ UNCHANGED <<netVars, protocol, counted>>

PollTimeout(c) ==
  /\ load_pc[c] = "poll" /\ Mine(c) \notin answered
  /\ EndTurn(c)
  /\ UNCHANGED <<netVars, protocol, counted>>

CloseSockets(c) ==
  /\ sock' = [s \in Socket |-> IF s[1] = c /\ sock[s] # "none"
                               THEN "closed" ELSE sock[s]]
  /\ Goto(c, "done")
  /\ UNCHANGED <<listening, waiting, said, open, inbox, answered, protocol, i,
                 counted>>

\* The loops at the end close the first connects_count sockets, the end of the
\* process closes the others.
Close(c) == load_pc[c] = "close" /\ CloseSockets(c)

\* CTRL + C
Interrupt(c) ==
  load_pc[c] \notin {"close", "overrun", "done"} /\ CloseSockets(c)

Process(c, serving) ==
  \/ MakeSocket(c) \/ SocketFails(c) \/ Connect(c) \/ Refused(c) \/ Send(c)
  \/ Recv(c) \/ RecvFails(c) \/ SendTo(c, serving) \/ RecvFrom(c)
  \/ PollTimeout(c) \/ Close(c)
=============================================================================
