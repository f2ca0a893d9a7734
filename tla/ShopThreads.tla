---------------------------- MODULE ShopThreads -----------------------------
(***************************************************************************)
(* Shops, buyers and suppliers as threads, threads_12July/threads.c.       *)
(*                                                                         *)
(* Buyers and suppliers go round the shops and try the mutex of each; who  *)
(* gets it changes the stock.  main joins the buyers, tells the suppliers  *)
(* to stop, reads the stocks without a lock, destroys the mutexes and      *)
(* exits, which ends every thread that still runs.                         *)
(***************************************************************************)
EXTENDS Integers

CONSTANTS COUNT_OF_SHOPS, SHOP_LOW, SHOP_UP, PROD_FILLING, BUY_NEED,
          Buyer, Producer,
          MaxStock              \* bound: no delivery takes a shop above it

ASSUME ShopAssumption == /\ COUNT_OF_SHOPS \in Nat \ {0}
                         /\ SHOP_LOW \in Nat /\ SHOP_UP \in Nat
                         /\ PROD_FILLING \in Nat \ {0}
                         /\ BUY_NEED \in Nat
                         /\ Buyer \cap Producer = {}
                         /\ "nobody" \notin Buyer \cup Producer
                         /\ MaxStock \in Nat

Shop   == 0 .. COUNT_OF_SHOPS - 1
Thread == Buyer \cup Producer
Nobody == "nobody"

VARIABLES
  shop,                 \* stocks
  ml, destroyed,        \* owner of each mutex; mutexes destroyed by main
  pc, i,                \* a thread's next step and shop
  buy_need,             \* what a buyer still needs
  seen,                 \* the stock a thread has read, 0 once it is used
  stop_prod, main_pc, main_i

threadVars == <<pc, i, buy_need, seen>>
mainVars   == <<stop_prod, main_pc, main_i>>
vars == <<shop, ml, destroyed, threadVars, mainVars>>

Init ==
  /\ shop \in [Shop -> SHOP_LOW .. SHOP_UP]
  /\ ml = [s \in Shop |-> Nobody] /\ destroyed = {}
  /\ pc = [t \in Thread |-> "for"] /\ i = [t \in Thread |-> 0]
  /\ buy_need = [b \in Buyer |-> BUY_NEED]
  /\ seen = [t \in Thread |-> 0]
  /\ stop_prod = 0 /\ main_pc = "join" /\ main_i = 0

Goto(t, l) == pc' = [pc EXCEPT ![t] = l]

-----------------------------------------------------------------------------
(* What buyers and suppliers share.                                        *)

\* Round the shops: the end of a round starts the next one.
Round(t, over) ==
  /\ pc[t] = "for"
  /\ IF over THEN Goto(t, "done") /\ UNCHANGED i
     ELSE IF i[t] = COUNT_OF_SHOPS
            THEN i' = [i EXCEPT ![t] = 0] /\ UNCHANGED pc
     ELSE Goto(t, "try") /\ UNCHANGED i
  /\ UNCHANGED <<shop, ml, destroyed, buy_need, seen, mainVars>>

\* Mutant: the result of trylock is not looked at.
LockableAlways(s) == TRUE

Lockable(s) == ml[s] = Nobody /\ s \notin destroyed

TryLock(t) ==
  /\ pc[t] = "try" /\ Lockable(i[t])
  /\ ml' = [ml EXCEPT ![i[t]] = t]
  /\ Goto(t, "read")
  /\ UNCHANGED <<shop, destroyed, i, buy_need, seen, mainVars>>

\* The mutex is held, or was destroyed: trylock fails, on to the next shop.
TryFails(t) ==
  /\ pc[t] = "try" /\ ~Lockable(i[t])
  /\ i' = [i EXCEPT ![t] = i[t] + 1]
  /\ Goto(t, "for")
  /\ UNCHANGED <<shop, ml, destroyed, buy_need, seen, mainVars>>

\* Mutant: the mutex stays locked.
UnlockNot(t) ==
  /\ pc[t] = "unlock"
  /\ i' = [i EXCEPT ![t] = i[t] + 1]
  /\ Goto(t, "for")
  /\ UNCHANGED <<shop, ml, destroyed, buy_need, seen, mainVars>>

Unlock(t) ==
  /\ pc[t] = "unlock"
  /\ ml' = [ml EXCEPT ![i[t]] = Nobody]
  /\ i' = [i EXCEPT ![t] = i[t] + 1]
  /\ Goto(t, "for")
  /\ UNCHANGED <<shop, destroyed, buy_need, seen, mainVars>>

-----------------------------------------------------------------------------
(* A buyer: func_buy                                                       *)

\* buy_need = buy_need - shop[i]
Take(b) ==
  /\ pc[b] = "read"
  /\ buy_need' = [buy_need EXCEPT ![b] = buy_need[b] - shop[i[b]]]
  /\ seen' = [seen EXCEPT ![b] = shop[i[b]]]
  /\ Goto(b, "write")
  /\ UNCHANGED <<shop, ml, destroyed, i, mainVars>>

Left(n) == IF n < 0 THEN 0 ELSE n

\* shop[i] = 0, and a need that was more than met is none.
Empty(b) ==
  /\ pc[b] = "write"
  /\ shop' = [shop EXCEPT ![i[b]] = 0]
  /\ buy_need' = [buy_need EXCEPT ![b] = Left(buy_need[b])]
  /\ seen' = [seen EXCEPT ![b] = 0]
  /\ Goto(b, "unlock")
  /\ UNCHANGED <<ml, destroyed, i, mainVars>>

func_buy(b) == \/ Round(b, buy_need[b] = 0) \/ TryLock(b) \/ TryFails(b)
               \/ Take(b) \/ Empty(b) \/ Unlock(b)

-----------------------------------------------------------------------------
(* A supplier: func_prod                                                   *)

\* shop[i] = shop[i] + PROD_FILLING, as a load (at the bound the supplier
\* brings nothing) ...
Room(s) == shop[s] + PROD_FILLING <= MaxStock

Load(p) ==
  /\ pc[p] = "read"
  /\ seen' = [seen EXCEPT ![p] = IF Room(i[p]) THEN shop[i[p]] ELSE 0]
  /\ Goto(p, IF Room(i[p]) THEN "write" ELSE "unlock")
  /\ UNCHANGED <<shop, ml, destroyed, i, buy_need, mainVars>>

\* Mutant: the delivery replaces the stock.
StoreReplaces(p) ==
  /\ pc[p] = "write"
  /\ shop' = [shop EXCEPT ![i[p]] = PROD_FILLING]
  /\ seen' = [seen EXCEPT ![p] = 0]
  /\ Goto(p, "unlock")
  /\ UNCHANGED <<ml, destroyed, i, buy_need, mainVars>>

\* ... and a store.
Store(p) ==
  /\ pc[p] = "write"
  /\ shop' = [shop EXCEPT ![i[p]] = seen[p] + PROD_FILLING]
  /\ seen' = [seen EXCEPT ![p] = 0]
  /\ Goto(p, "unlock")
  /\ UNCHANGED <<ml, destroyed, i, buy_need, mainVars>>

func_prod(p) == \/ Round(p, stop_prod = 1) \/ TryLock(p) \/ TryFails(p)
                \/ Load(p) \/ Store(p) \/ Unlock(p)

-----------------------------------------------------------------------------
(* main                                                                    *)

\* Mutant: the suppliers are joined too, before they are told to stop.
StopProdLate ==
  /\ main_pc = "join"
  /\ \A t \in Thread : pc[t] = "done"
  /\ stop_prod' = 1
  /\ main_pc' = "print"
  /\ UNCHANGED <<shop, ml, destroyed, threadVars, main_i>>

\* Only the buyers are joined; stop_prod ends the suppliers, some time.
StopProd ==
  /\ main_pc = "join"
  /\ \A b \in Buyer : pc[b] = "done"
  /\ stop_prod' = 1
  /\ main_pc' = "print"
  /\ UNCHANGED <<shop, ml, destroyed, threadVars, main_i>>

Last == main_i = COUNT_OF_SHOPS - 1

\* The stocks are printed one by one, read without a lock.
PrintStocks ==
  /\ main_pc = "print"
  /\ main_i' = IF Last THEN 0 ELSE main_i + 1
  /\ main_pc' = IF Last THEN "destroy" ELSE "print"
  /\ UNCHANGED <<shop, ml, destroyed, threadVars, stop_prod>>

\* pthread_mutex_destroy() refuses a mutex that is locked.
Destroy ==
  /\ main_pc = "destroy"
  /\ destroyed' = IF ml[main_i] = Nobody THEN destroyed \cup {main_i}
                                         ELSE destroyed
  /\ main_i' = IF Last THEN main_i ELSE main_i + 1
  /\ main_pc' = IF Last THEN "exit" ELSE "destroy"
  /\ UNCHANGED <<shop, ml, threadVars, stop_prod>>

Main == StopProd \/ PrintStocks \/ Destroy

-----------------------------------------------------------------------------
Running == main_pc # "exit"     \* exit() ends every thread

Next == \/ Main
        \/ Running /\ \E b \in Buyer : func_buy(b)
        \/ Running /\ \E p \in Producer : func_prod(p)

Spec == Init /\ [][Next]_vars

\* Every thread is scheduled.  Nothing says that a trylock ever succeeds.
Fairness ==
  /\ WF_vars(Main)
  /\ \A b \in Buyer : WF_vars(Running /\ func_buy(b))
  /\ \A p \in Producer : WF_vars(Running /\ func_prod(p))

FairSpec == Spec /\ Fairness

-----------------------------------------------------------------------------
(* Properties.                                                             *)

\* The variables keep their types: no stock or need is negative, except a
\* need in the middle of a purchase.
TypeOK ==
  /\ shop \in [Shop -> Nat]
  /\ ml \in [Shop -> Thread \cup {Nobody}] /\ destroyed \subseteq Shop
  /\ pc \in [Thread -> {"for", "try", "read", "write", "unlock", "done"}]
  /\ i \in [Thread -> 0 .. COUNT_OF_SHOPS]
  /\ buy_need \in [Buyer -> Int]
  /\ \A b \in Buyer : pc[b] # "write" => buy_need[b] \in Nat
  /\ seen \in [Thread -> Nat]
  /\ stop_prod \in {0, 1} /\ main_i \in Shop
  /\ main_pc \in {"join", "print", "destroy", "exit"}

\* A thread between trylock and unlock is the owner of its shop's mutex, so
\* no two work on one shop, and a stock read under the mutex is still the
\* stock when it is overwritten (lines 167-179, 216-221).
LockInv ==
  /\ \A t \in Thread :
       pc[t] \in {"read", "write", "unlock"} =>
         i[t] \in Shop /\ ml[i[t]] = t /\ i[t] \notin destroyed
  /\ \A t \in Thread : pc[t] = "write" => seen[t] = shop[i[t]]

\* Seen from outside a purchase or a delivery is one step.
needs == [b \in Buyer |-> IF pc[b] = "write" THEN buy_need[b] + seen[b]
                                             ELSE buy_need[b]]
M == INSTANCE Market WITH need <- needs
IsMarket == M!Spec

\* No thread keeps a mutex: whoever has one releases it, whatever the other
\* threads do, so that trylock has a chance again.
Released ==
  \A s \in Shop, t \in Thread :
    (ml[s] = t) ~> (ml[s] # t \/ main_pc = "exit")

\* Once every buyer has enough, main exits, even if a supplier never stops.
MainExits == (\A b \in Buyer : pc[b] = "done") ~> (main_pc = "exit")
=============================================================================
