----------------------------- MODULE ShopProofs -----------------------------
(***************************************************************************)
(* Proofs about the shops, for any number of shops, buyers and suppliers   *)
(* and any stocks and needs.                                               *)
(***************************************************************************)
EXTENDS ShopThreads, TLAPS

\* A thread that tries a mutex is at a shop, and a buyer who is to buy still
\* needs something (lines 157-162, 207).
PlaceInv ==
  /\ \A t \in Thread : pc[t] = "try" => i[t] \in Shop
  /\ \A b \in Buyer : /\ pc[b] \in {"try", "read"} => buy_need[b] > 0
                      /\ pc[b] = "write" => buy_need[b] + seen[b] > 0

IInv == TypeOK /\ LockInv /\ PlaceInv

\* Buyers and suppliers are different threads.
LEMMA Kinds == \A b \in Buyer : b \in Thread /\ b \notin Producer
BY ShopAssumption DEF Thread

\* The invariant holds when the threads start.
LEMMA IInvInit == Init => IInv
<1> SUFFICES ASSUME Init PROVE IInv
  OBVIOUS
<1>1. shop \in [Shop -> Nat]
  BY ShopAssumption DEF Init
<1> QED
  BY <1>1, ShopAssumption
     DEF Init, IInv, TypeOK, LockInv, PlaceInv, Thread, Shop

\* The steps that touch neither stock nor mutex.
LEMMA RoundStep ==
  ASSUME IInv, NEW t \in Thread, NEW over \in BOOLEAN, Round(t, over),
         t \in Buyer => (over <=> buy_need[t] = 0)
  PROVE  IInv'
<1> USE DEF IInv, Goto, mainVars
<1>1. /\ pc[t] = "for"
      /\ UNCHANGED <<shop, ml, destroyed, buy_need, seen, mainVars>>
  BY DEF Round
<1>2. CASE over
  <2>1. pc' = [pc EXCEPT ![t] = "done"] /\ i' = i
    BY <1>2 DEF Round
  <2> QED
    BY <1>1, <2>1 DEF TypeOK, LockInv, PlaceInv
<1>3. CASE ~over /\ i[t] = COUNT_OF_SHOPS
  <2>1. pc' = pc /\ i' = [i EXCEPT ![t] = 0]
    BY <1>3 DEF Round
  <2> QED
    BY <1>1, <2>1, ShopAssumption DEF TypeOK, LockInv, PlaceInv
<1>4. CASE ~over /\ i[t] # COUNT_OF_SHOPS
  <2>1. pc' = [pc EXCEPT ![t] = "try"] /\ i' = i
    BY <1>4 DEF Round
  <2>2. i[t] \in Shop
    BY <1>4, ShopAssumption DEF TypeOK, Shop
  <2>3. t \in Buyer => buy_need[t] > 0
    BY <1>1, <1>4 DEF TypeOK
  <2>4. TypeOK' /\ LockInv'
    BY <1>1, <2>1, <2>2 DEF TypeOK, LockInv
  <2>5. PlaceInv'
    BY <1>1, <2>1, <2>2, <2>3 DEF TypeOK, PlaceInv
  <2> QED
    BY <2>4, <2>5
<1> QED
  BY <1>2, <1>3, <1>4

\* A thread gets a free mutex: nobody else works on that shop (line 167, 216).
LEMMA TryLockStep ==
  ASSUME IInv, NEW t \in Thread, TryLock(t)
  PROVE  IInv'
<1> USE DEF IInv, PlaceInv, Goto, mainVars
<1>1. /\ pc[t] = "try" /\ i[t] \in Shop /\ ml[i[t]] = Nobody
      /\ i[t] \notin destroyed
      /\ ml' = [ml EXCEPT ![i[t]] = t] /\ pc' = [pc EXCEPT ![t] = "read"]
      /\ UNCHANGED <<shop, destroyed, i, buy_need, seen, mainVars>>
  BY DEF TryLock, Lockable
<1>2. TypeOK'
  BY <1>1, ShopAssumption DEF TypeOK
<1>3. LockInv'
  BY <1>1, ShopAssumption DEF TypeOK, LockInv, Nobody, Thread
<1>4. PlaceInv'
  BY <1>1 DEF TypeOK
<1> QED
  BY <1>2, <1>3, <1>4

\* pthread_mutex_trylock() on a shop another thread holds.
LEMMA TryFailsStep ==
  ASSUME IInv, NEW t \in Thread, TryFails(t)
  PROVE  IInv'
<1> USE DEF IInv, Goto, mainVars
<1>1. /\ pc[t] = "try" /\ i[t] \in Shop
      /\ i' = [i EXCEPT ![t] = i[t] + 1]
      /\ pc' = [pc EXCEPT ![t] = "for"]
      /\ UNCHANGED <<shop, ml, destroyed, buy_need, seen, mainVars>>
  BY DEF TryFails, PlaceInv
<1>2. i[t] + 1 \in 0 .. COUNT_OF_SHOPS
  BY <1>1, ShopAssumption DEF Shop
<1>3. TypeOK'
  BY <1>1, <1>2 DEF TypeOK
<1>4. LockInv' /\ PlaceInv'
  BY <1>1 DEF TypeOK, LockInv, PlaceInv
<1> QED
  BY <1>3, <1>4

\* Releasing a mutex disturbs no other thread (lines 179, 221).
LEMMA UnlockStep ==
  ASSUME IInv, NEW t \in Thread, Unlock(t)
  PROVE  IInv'
<1> USE DEF IInv, Goto, mainVars
<1>1. /\ pc[t] = "unlock" /\ i[t] \in Shop /\ ml[i[t]] = t
      /\ ml' = [ml EXCEPT ![i[t]] = Nobody]
      /\ i' = [i EXCEPT ![t] = i[t] + 1]
      /\ pc' = [pc EXCEPT ![t] = "for"]
      /\ UNCHANGED <<shop, destroyed, buy_need, seen, mainVars>>
  BY DEF Unlock, LockInv
<1>2. TypeOK'
  BY <1>1, ShopAssumption DEF TypeOK, Shop
<1>3. LockInv'
  BY <1>1, ShopAssumption DEF TypeOK, LockInv
<1>4. PlaceInv'
  BY <1>1 DEF TypeOK, PlaceInv
<1> QED
  BY <1>2, <1>3, <1>4

\* Two threads at work are at different shops.
LEMMA Apart ==
  ASSUME IInv, NEW s \in Thread, NEW t \in Thread, s # t,
         pc[s] \in {"read", "write", "unlock"},
         pc[t] \in {"read", "write", "unlock"}
  PROVE  i[s] # i[t]
BY DEF IInv, LockInv

\* pthread_mutex_trylock() on a free shop.
LEMMA TakeStep ==
  ASSUME IInv, NEW b \in Buyer, Take(b)
  PROVE  IInv'
<1> USE DEF IInv, Goto, mainVars
<1>1. b \in Thread
  BY Kinds
<1>2. /\ pc[b] = "read" /\ i[b] \in Shop /\ shop[i[b]] \in Nat
      /\ buy_need' = [buy_need EXCEPT ![b] = buy_need[b] - shop[i[b]]]
      /\ seen' = [seen EXCEPT ![b] = shop[i[b]]]
      /\ pc' = [pc EXCEPT ![b] = "write"]
      /\ UNCHANGED <<shop, ml, destroyed, i, mainVars>>
  BY <1>1 DEF Take, LockInv, TypeOK
<1>3. TypeOK'
  BY <1>1, <1>2, Kinds DEF TypeOK
<1>4. LockInv' /\ PlaceInv'
  BY <1>1, <1>2 DEF TypeOK, LockInv, PlaceInv
<1> QED
  BY <1>3, <1>4

\* A buyer that finds its shop empty or has enough leaves the shop as it is.
LEMMA EmptyStep ==
  ASSUME IInv, NEW b \in Buyer, Empty(b)
  PROVE  IInv'
<1> USE DEF IInv, Goto, mainVars
<1>1. b \in Thread
  BY Kinds
<1>2. /\ pc[b] = "write" /\ i[b] \in Shop /\ buy_need[b] \in Int
      /\ shop' = [shop EXCEPT ![i[b]] = 0]
      /\ buy_need' = [buy_need EXCEPT ![b] = Left(buy_need[b])]
      /\ seen' = [seen EXCEPT ![b] = 0]
      /\ pc' = [pc EXCEPT ![b] = "unlock"]
      /\ UNCHANGED <<ml, destroyed, i, mainVars>>
  BY <1>1 DEF Empty, LockInv, TypeOK
<1>3. Left(buy_need[b]) \in Nat
  BY <1>2 DEF Left
<1>4. TypeOK'
  BY <1>1, <1>2, <1>3, Kinds DEF TypeOK
<1>5. \A t \in Thread : t # b /\ pc[t] = "write" => i[t] # i[b]
  BY <1>1, <1>2, Apart
<1>6. LockInv' /\ PlaceInv'
  BY <1>1, <1>2, <1>5 DEF TypeOK, LockInv, PlaceInv
<1> QED
  BY <1>4, <1>6

\* Reading shop[i] under the mutex.
LEMMA LoadStep ==
  ASSUME IInv, NEW p \in Producer, Load(p)
  PROVE  IInv'
<1> USE DEF IInv, Goto, mainVars
<1>1. p \in Thread /\ p \notin Buyer
  BY ShopAssumption DEF Thread
<1>2. /\ pc[p] = "read" /\ i[p] \in Shop /\ shop[i[p]] \in Nat
      /\ seen' = [seen EXCEPT ![p] = IF Room(i[p]) THEN shop[i[p]] ELSE 0]
      /\ pc' = [pc EXCEPT ![p] = IF Room(i[p]) THEN "write" ELSE "unlock"]
      /\ UNCHANGED <<shop, ml, destroyed, i, buy_need, mainVars>>
  BY <1>1 DEF Load, LockInv, TypeOK
<1>3. TypeOK'
  BY <1>1, <1>2 DEF TypeOK
<1>4. LockInv' /\ PlaceInv'
  BY <1>1, <1>2 DEF TypeOK, LockInv, PlaceInv
<1> QED
  BY <1>3, <1>4

\* Writing shop[i] under the mutex.
LEMMA StoreStep ==
  ASSUME IInv, NEW p \in Producer, Store(p)
  PROVE  IInv'
<1> USE DEF IInv, Goto, mainVars
<1>1. p \in Thread /\ p \notin Buyer
  BY ShopAssumption DEF Thread
<1>2. /\ pc[p] = "write" /\ i[p] \in Shop /\ seen[p] \in Nat
      /\ shop' = [shop EXCEPT ![i[p]] = seen[p] + PROD_FILLING]
      /\ seen' = [seen EXCEPT ![p] = 0]
      /\ pc' = [pc EXCEPT ![p] = "unlock"]
      /\ UNCHANGED <<ml, destroyed, i, buy_need, mainVars>>
  BY <1>1 DEF Store, LockInv, TypeOK
<1>3. TypeOK'
  BY <1>1, <1>2, ShopAssumption DEF TypeOK
<1>4. \A t \in Thread : t # p /\ pc[t] = "write" => i[t] # i[p]
  BY <1>1, <1>2, Apart
<1>5. LockInv' /\ PlaceInv'
  BY <1>1, <1>2, <1>4 DEF TypeOK, LockInv, PlaceInv
<1> QED
  BY <1>3, <1>5

\* main destroys a mutex only when nobody has it (line 138).
LEMMA MainStep ==
  ASSUME IInv, Main
  PROVE  IInv'
<1> USE DEF IInv, threadVars
<1>1. CASE StopProd
  BY <1>1, ShopAssumption DEF StopProd, TypeOK, LockInv, PlaceInv
<1>2. CASE PrintStocks
  BY <1>2, ShopAssumption
     DEF PrintStocks, Last, TypeOK, LockInv, PlaceInv, Shop
<1>3. CASE Destroy
  <2>1. /\ destroyed' \subseteq destroyed \cup {main_i}
        /\ main_i \in destroyed' => main_i \in destroyed \/ ml[main_i] = Nobody
        /\ UNCHANGED <<shop, ml, threadVars, stop_prod>>
    BY <1>3 DEF Destroy
  <2>2. TypeOK'
    BY <1>3, <2>1, ShopAssumption DEF Destroy, Last, TypeOK, Shop
  <2>3. LockInv' /\ PlaceInv'
    BY <2>1, ShopAssumption DEF TypeOK, LockInv, PlaceInv, Nobody, Thread
  <2> QED
    BY <2>2, <2>3
<1> QED
  BY <1>1, <1>2, <1>3 DEF Main

\* The invariant is inductive.
LEMMA IInvStep == IInv /\ [Next]_vars => IInv'
<1> SUFFICES ASSUME IInv, [Next]_vars PROVE IInv'
  OBVIOUS
<1>1. ASSUME NEW b \in Buyer, func_buy(b) PROVE IInv'
  <2>1. /\ b \in Thread /\ (buy_need[b] = 0) \in BOOLEAN
        /\ b \in Buyer => ((buy_need[b] = 0) <=> buy_need[b] = 0)
    BY Kinds
  <2> QED
    BY <1>1, <2>1, RoundStep, TryLockStep, TryFailsStep, TakeStep, EmptyStep,
       UnlockStep DEF func_buy
<1>2. ASSUME NEW p \in Producer, func_prod(p) PROVE IInv'
  <2>1. p \in Thread /\ (stop_prod = 1) \in BOOLEAN /\ p \notin Buyer
    BY ShopAssumption DEF Thread
  <2> QED
    BY <1>2, <2>1, RoundStep, TryLockStep, TryFailsStep, LoadStep, StoreStep,
       UnlockStep DEF func_prod
<1>3. CASE UNCHANGED vars
  BY <1>3 DEF vars, threadVars, mainVars, IInv, TypeOK, LockInv, PlaceInv
<1> QED
  BY <1>1, <1>2, <1>3, MainStep DEF Next

\* What IInv says holds in every reachable state.
LEMMA IInvAlways == Spec => []IInv
BY IInvInit, IInvStep, PTL DEF Spec

\* The variables keep their types; no stock or need is negative (threads.c).
THEOREM TypeCorrect == Spec => []TypeOK
BY IInvAlways, PTL DEF IInv

\* The owner of a shop's mutex is the one thread that works on it, and the
\* stock it read is still there when it writes (lines 167-179, 216-221).
THEOREM LocksHold == Spec => []LockInv
BY IInvAlways, PTL DEF IInv

-----------------------------------------------------------------------------
(* The refinement.                                                         *)

\* Buyers come with their whole need to the stocked shops (lines 54-57, 152).
LEMMA MarketInit == Init => M!Init
BY Kinds, ShopAssumption DEF Init, M!Init, needs

\* The write of a buyer is the purchase (lines 171-177).
LEMMA EmptyIsPurchase ==
  ASSUME IInv, NEW b \in Buyer, Empty(b)
  PROVE  M!Purchase(b, i[b])
<1> USE DEF IInv, Goto, mainVars
<1>1. b \in Thread /\ pc[b] = "write" /\ i[b] \in Shop
  BY Kinds DEF Empty, LockInv
<1>2. /\ seen[b] = shop[i[b]] /\ seen[b] \in Nat /\ buy_need[b] \in Int
      /\ needs[b] = buy_need[b] + seen[b] /\ needs[b] > 0
  BY <1>1 DEF LockInv, TypeOK, PlaceInv, needs
<1>3. needs[b] - shop[i[b]] = buy_need[b]
  BY <1>2
<1>4. /\ shop' = [shop EXCEPT ![i[b]] = 0]
      /\ buy_need' = [buy_need EXCEPT ![b] = Left(buy_need[b])]
      /\ pc' = [pc EXCEPT ![b] = "unlock"] /\ seen' = [seen EXCEPT ![b] = 0]
  BY DEF Empty
<1>5. needs' = [needs EXCEPT ![b] = Left(buy_need[b])]
  BY <1>1, <1>4, Kinds DEF needs, TypeOK
<1> QED
  BY <1>2, <1>3, <1>4, <1>5 DEF M!Purchase, M!Left, Left

\* The store of a supplier is the delivery (line 220).
LEMMA StoreIsDelivery ==
  ASSUME IInv, NEW p \in Producer, Store(p)
  PROVE  M!Delivery(i[p])
<1> USE DEF IInv, Goto, mainVars
<1>1. p \in Thread /\ p \notin Buyer /\ pc[p] = "write"
  BY ShopAssumption DEF Store, Thread
<1>2. seen[p] = shop[i[p]]
  BY <1>1 DEF LockInv
<1>3. needs' = needs
  BY <1>1, Kinds DEF Store, needs, TypeOK
<1> QED
  BY <1>2, <1>3 DEF Store, M!Delivery

\* The read of a buyer changes nothing that can be seen (line 171).
LEMMA TakeIsHidden ==
  ASSUME IInv, NEW b \in Buyer, Take(b)
  PROVE  UNCHANGED <<shop, needs>>
<1> USE DEF IInv, Goto, mainVars
<1>1. /\ b \in Thread /\ pc[b] = "read" /\ buy_need[b] \in Int
      /\ shop[i[b]] \in Nat
  BY Kinds DEF Take, LockInv, TypeOK
<1>2. /\ buy_need' = [buy_need EXCEPT ![b] = buy_need[b] - shop[i[b]]]
      /\ seen' = [seen EXCEPT ![b] = shop[i[b]]]
      /\ pc' = [pc EXCEPT ![b] = "write"] /\ shop' = shop
  BY DEF Take
<1>3. /\ buy_need'[b] + seen'[b] = buy_need[b]
      /\ pc'[b] = "write"
  BY <1>1, <1>2 DEF TypeOK
<1>4. \A c \in Buyer : c # b => /\ pc'[c] = pc[c] /\ seen'[c] = seen[c]
                                /\ buy_need'[c] = buy_need[c]
  BY <1>1, <1>2, Kinds DEF TypeOK
<1>5. \A c \in Buyer :
        (IF pc'[c] = "write" THEN buy_need'[c] + seen'[c] ELSE buy_need'[c])
        = (IF pc[c] = "write" THEN buy_need[c] + seen[c] ELSE buy_need[c])
  BY <1>1, <1>3, <1>4
<1> QED
  BY <1>2, <1>5 DEF needs

\* ... and so do the steps around the work, and those of main.
LEMMA OthersAreHidden ==
  ASSUME IInv, NEW t \in Thread,
         \/ \E over \in BOOLEAN : Round(t, over)
         \/ TryLock(t) \/ TryFails(t) \/ Unlock(t)
         \/ t \in Producer /\ Load(t)
  PROVE  UNCHANGED <<shop, needs>>
<1> USE DEF IInv, Goto, mainVars
<1>1. UNCHANGED <<shop, buy_need>>
  BY DEF Round, TryLock, TryFails, Unlock, Load
<1>2. \A b \in Buyer : (pc'[b] = "write" <=> pc[b] = "write")
                      /\ seen'[b] = seen[b]
  BY Kinds DEF Round, TryLock, TryFails, Unlock, Load, TypeOK
<1> QED
  BY <1>1, <1>2 DEF needs

\* Every step of the threads and main is one of the market, or none.
LEMMA MarketStep == IInv /\ [Next]_vars => [M!Next]_<<shop, needs>>
<1> SUFFICES ASSUME IInv, [Next]_vars PROVE [M!Next]_<<shop, needs>>
  OBVIOUS
<1>1. ASSUME NEW b \in Buyer, func_buy(b) PROVE [M!Next]_<<shop, needs>>
  <2>1. CASE Empty(b)
    <3>1. i[b] \in Shop
      BY <2>1, Kinds DEF IInv, LockInv, Empty
    <3> QED
      BY <2>1, <3>1, EmptyIsPurchase DEF M!Next
  <2>2. CASE ~Empty(b)
    <3>1. b \in Thread /\ (buy_need[b] = 0) \in BOOLEAN
      BY Kinds
    <3> QED
      BY <1>1, <2>2, <3>1, TakeIsHidden, OthersAreHidden DEF func_buy
  <2> QED
    BY <2>1, <2>2
<1>2. ASSUME NEW p \in Producer, func_prod(p) PROVE [M!Next]_<<shop, needs>>
  <2>0. p \in Thread /\ (stop_prod = 1) \in BOOLEAN
    BY DEF Thread
  <2>1. CASE Store(p)
    <3>1. i[p] \in Shop
      BY <2>0, <2>1 DEF IInv, LockInv, Store
    <3> QED
      BY <2>1, <3>1, StoreIsDelivery DEF M!Next
  <2>2. CASE ~Store(p)
    BY <1>2, <2>0, <2>2, OthersAreHidden DEF func_prod
  <2> QED
    BY <2>1, <2>2
<1>3. CASE Main \/ UNCHANGED vars
  BY <1>3 DEF Main, StopProd, PrintStocks, Destroy, threadVars, vars, needs
<1> QED
  BY <1>1, <1>2, <1>3 DEF Next

\* To an observer of stocks and needs the threads are the market: no purchase
\* or delivery is lost, torn or done twice (threads.c:145-235).
THEOREM ThreadsImplementMarket == Spec => IsMarket
<1>1. Init /\ [][Next]_vars /\ []IInv => M!Spec
  BY MarketInit, MarketStep, PTL DEF M!Spec
<1> QED
  BY <1>1, IInvAlways, PTL DEF Spec, IsMarket
=============================================================================
