------------------------------ MODULE Sockets ------------------------------
(***************************************************************************)
(* What the kernel keeps between the load-test client and a server on the  *)
(* same machine (the client connects to 127.0.0.1), as far as the programs *)
(* of sockets_highload_services_27July see it.                             *)
(*                                                                         *)
(* A connection is named by the client's socket, and so is a datagram,     *)
(* because the client sends one message over each socket.  accept() and    *)
(* recvfrom() return any of what waits.  Nothing is lost on the way: what  *)
(* is sent to a server that is gone is.                                    *)
(***************************************************************************)
EXTENDS Integers, FiniteSets

CONSTANTS Client,          \* processes of the load-test client
          size_alloc,      \* sockets each of them makes
          LISTEN_BACKLOG   \* connections that may wait

ASSUME SocketsAssumption == /\ size_alloc \in Nat \ {0}
                            /\ LISTEN_BACKLOG \in Nat

Socket == Client \X (0 .. size_alloc - 1)
None   == <<>>

VARIABLES
  sock,       \* the client's end: "none", "open", "connected", "closed"
  listening,  \* whether the server's TCP socket listens
  waiting,    \* connections made but not accepted
  said,       \* connections the client has sent its message over
  open,       \* connections whose descriptor the server has open
  inbox,      \* datagrams at the server's UDP socket
  answered    \* sockets the server has sent its answer to

netVars == <<sock, listening, waiting, said, open, inbox, answered>>

NetInit ==
  /\ sock = [s \in Socket |-> "none"]
  /\ listening = FALSE
  /\ waiting = {} /\ said = {} /\ open = {} /\ inbox = {} /\ answered = {}

\* A connection is made, or has to wait for room, while the server listens.
CanConnect == listening /\ Cardinality(waiting) <= LISTEN_BACKLOG

\* The server's recv() with MSG_WAITALL has the whole message or the end.
Arrived(s) == s \in said \/ sock[s] = "closed"

\* The server is through with the connection, or has died with it.
Gone(s) == s \notin open \cup waiting

\* What the end of the server's process closes and throws away.
CloseServer ==
  /\ listening' = FALSE
  /\ waiting' = {} /\ open' = {} /\ inbox' = {}
  /\ UNCHANGED <<sock, said, answered>>
=============================================================================
