---------------------------- MODULE MCThreadPool ----------------------------
(* Small instances of ThreadPool for TLC.                                  *)
EXTENDS ThreadPool, TLC

CONSTANTS c1, c2, c3

ThreeClients == {c1, c2, c3}
FirstClient  == {c1}
=============================================================================
