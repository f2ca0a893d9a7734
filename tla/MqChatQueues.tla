---------------------------- MODULE MqChatQueues ----------------------------
(***************************************************************************)
(* What the two programs of the message-queue chat share: the queues, with *)
(* their numbering (the server's main, client.c:84-107), and the messages. *)
(* Client slot t writes queue 2t and reads queue 2t+1.                     *)
(***************************************************************************)
EXTENDS PosixMq

CONSTANT MAX_CLIENTS    \* number of client slots

ASSUME ClientsAssumption == MAX_CLIENTS \in Nat \ {0}

VARIABLES
  ques,         \* the queues' contents
  open,         \* the queues have names: mq_open() finds them
  \* histories of what passed through the queues:
  sent,         \* sent[c]: ordinary messages of c the kernel accepted
  announced,    \* announced[c]: service messages of c the kernel accepted
  heard         \* heard[j][c]: the last message of c that j received

Slot    == 0 .. MAX_CLIENTS - 1
Queue   == 0 .. 2 * MAX_CLIENTS - 1
In(t)   == 2 * t              \* the server's num_que_in
Out(t)  == 2 * t + 1
Nobody  == -1

(***************************************************************************)
(* A message is who typed it, its number among that client's messages, and *)
(* what follows its text in the buffer it was taken from: nothing          *)
(* ("clean"), leftover bytes up to a zero ("garbage"), or leftover bytes   *)
(* with no zero in the 256 bytes of the buffer ("overlong").  mq_send() is *)
(* given strlen(), so the sent text has no terminating zero.               *)
(***************************************************************************)
Tail256 == {"clean", "garbage", "overlong"}
Message == [from : Slot, n : Nat, tail : Tail256]
NoMsg   == [from |-> Nobody, n |-> 0, tail |-> "clean"]

RegularMsg(c, k) == [from |-> c, n |-> k, tail |-> "clean"]
ServiceMsg(c)    == RegularMsg(c, 0)    \* the client's process id
=============================================================================
