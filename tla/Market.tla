------------------------------- MODULE Market -------------------------------
(***************************************************************************)
(* What the exercise with shops, buyers and suppliers promises             *)
(* (threads_12July/threads.c): a purchase empties one shop into one        *)
(* buyer's need and a delivery adds to one shop, each in one step.         *)
(***************************************************************************)
EXTENDS Integers

CONSTANTS Shop, Buyer, SHOP_LOW, SHOP_UP, PROD_FILLING, BUY_NEED

VARIABLES shop, need

Init == /\ shop \in [Shop -> SHOP_LOW .. SHOP_UP]
        /\ need = [b \in Buyer |-> BUY_NEED]

Left(n) == IF n < 0 THEN 0 ELSE n

\* A buyer who still needs something takes all that shop i has.
Purchase(b, i) ==
  /\ need[b] > 0
  /\ need' = [need EXCEPT ![b] = Left(need[b] - shop[i])]
  /\ shop' = [shop EXCEPT ![i] = 0]

Delivery(i) ==
  /\ shop' = [shop EXCEPT ![i] = shop[i] + PROD_FILLING]
  /\ UNCHANGED need

Next == \E i \in Shop : Delivery(i) \/ \E b \in Buyer : Purchase(b, i)

Spec == Init /\ [][Next]_<<shop, need>>
=============================================================================
