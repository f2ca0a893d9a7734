-------------------------- MODULE MCProdConsServer --------------------------
(* Small instances of ProdConsServer for TLC.                              *)
EXTENDS ProdConsServer, TLC

CONSTANTS c1, c2, c3

TwoClients == {c1, c2}
ThreeClients == {c1, c2, c3}
=============================================================================
