----------------------------- MODULE MCLoadTest -----------------------------
(* Small instances of LoadTest for TLC.                                    *)
EXTENDS LoadTest, TLC

CONSTANTS c1, c2

TwoClients  == {c1, c2}
FirstClient == {c1}
TwoAndOne == [c \in TwoClients |-> IF c = c1 THEN 2 ELSE 1]
LastOfFirst == {<<c1, 1>>}
SecondClient == {c2}
=============================================================================
