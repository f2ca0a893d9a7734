--------------------------- MODULE MCMqChatClient ---------------------------
(* Small instances of MqChatClient for TLC.  The clients share no state    *)
(* but the server, which is the environment here, so only slot 0 has a     *)
(* user; slot 1 is there as a source of words to hear.                     *)
EXTENDS MqChatClient, TLC

First(n) == [c \in Slot |-> IF c = 0 THEN n ELSE 0]
Two      == First(2)
=============================================================================
