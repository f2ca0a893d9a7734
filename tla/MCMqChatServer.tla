--------------------------- MODULE MCMqChatServer ---------------------------
(* Small instances of MqChatServer for TLC: how much each slot's client    *)
(* sends.                                                                  *)
EXTENDS MqChatServer, TLC

Give(a, b, c) == [t \in Slot |-> IF t = 0 THEN a ELSE IF t = 1 THEN b ELSE c]

\* Slot 0 and 1 talk and contend for the queue of slot 2, which listens; slot 1
\* connects and disconnects meanwhile, and its word overtakes what waits.
Talk == Give(1, 1, 0)
Come == Give(0, 2, 0)
=============================================================================
