--------------------------- MODULE MCShopThreads ----------------------------
(* Small instances of ShopThreads for TLC.                                 *)
EXTENDS ShopThreads, TLC

CONSTANTS b1, b2, p1

Buyers == {b1, b2}
Producers == {p1}
=============================================================================
