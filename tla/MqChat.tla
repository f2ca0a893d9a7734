------------------------------- MODULE MqChat -------------------------------
(***************************************************************************)
(* The message-queue chat as a whole: the server (MqChatServer) and one    *)
(* client per slot (MqChatClient), which share nothing but the queues.     *)
(* Each module's own environment is replaced by the other program, and     *)
(* ServerView and ClientView say that the environments were fair pictures  *)
(* of it, so that what holds of each program alone holds of the whole.     *)
(***************************************************************************)
EXTENDS MqChatServer, MqChatClient

(***************************************************************************)
(* The bounds of the environments leave room for the programs: a slot      *)
(* types no more words than the server's environment may send and the      *)
(* client's may give, and every launch announces its start and its end.    *)
(***************************************************************************)
ASSUME ChatAssumption ==
  \A c \in Slot : /\ MaxTyped[c] <= MaxRegular[c] /\ MaxTyped[c] <= MaxGiven
                  /\ 2 * MaxRuns[c] <= MaxService[c]

Init == /\ ServerInit
        /\ ClientInit
        /\ ques = [q \in Queue |-> EmptyQueue]

vars == <<ques, serverVars, clientVars>>

Next == \/ Server /\ UNCHANGED clientVars
        \/ \E c \in Slot : Client(c) /\ UNCHANGED serverVars

Spec == Init /\ [][Next]_vars

-----------------------------------------------------------------------------
\* The two programs together behave, for the server, like the clients that
\* MqChatServer assumes: what they put in a queue is numbered 1, 2, 3...
\* (client.c:196-212), and each run announces at most its start and its end.
ServerView == ServerSideSpec

\* ... and, for a client, like the server that MqChatClient assumes: words
\* reach a queue in the order in which they were posted, none twice, until
\* the server ends (server.c:243-294).
ClientView == ClientSideSpec

\* A slot's client has connected and not yet ended.
Connected(c) == client_pc[c] \in {"loop", "stop", "join"}

\* Nothing of slot c is on its way: no service message is queued or in the
\* hands of its thread.
Settled(c) == /\ ques[In(c)][PRIO_SERVICE_MSG] = << >>
              /\ pc[c] \in {"check", "trylock"}
              /\ client_pc[c] # "stop"

\* server.c:259, 265 "the client connects", "the client disconnects" (in
\* Russian): once the messages have settled, the flag says whether the
\* slot's client is there.
FlagIsTruth ==
  \A c \in Slot : Settled(c) /\ client_pc[c] \in {"loop"} \cup Ended =>
                    (flag_connect[c] = 1 <=> Connected(c))
=============================================================================
