------------------------------ MODULE MCMqChat ------------------------------
(* Small instances of MqChat for TLC.                                      *)
EXTENDS MqChat, TLC

\* Slot 0's user types two words; slot 1's client listens.
TwoZero  == [c \in Slot |-> IF c = 0 THEN 2 ELSE 0]
OneOne   == [c \in Slot |-> 1]
TwoOnly  == [c \in Slot |-> 2]
FourOnly == [c \in Slot |-> 4]
=============================================================================
