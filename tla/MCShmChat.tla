----------------------------- MODULE MCShmChat ------------------------------
(* Small instances of ShmChat for TLC: slot 0 talks, slot 1 listens.       *)
EXTENDS ShmChat, TLC

Pair(a, b) == [c \in Slot |-> IF c = 0 THEN a ELSE b]

OneZero == Pair(1, 0)
Once    == Pair(1, 0)
OneOne  == Pair(1, 1)
=============================================================================
