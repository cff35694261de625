-------------------------- MODULE TestnetSmokeProofs --------------------------
(* What the Testnet smoke keeps whatever times out, and whichever order the   *)
(* exchange matches.                                                          *)
EXTENDS TestnetSmoke, SumTheorems

-----------------------------------------------------------------------------
(* The inductive invariant.                                                   *)

Submitted == {"c", "f", "e"}

\* The steps of a run up to each of its orders, and after it.
BeforeF == {"ack_c", "intent_c", "again_c", "query", "cancel", "pump_c", "submit_f"}
HasC == {"again_c", "query", "cancel", "pump_c", "submit_f", "ack_f", "intent_f"}
BeforeE == {"ack_f", "intent_f", "pump_f", "managed", "emergency", "emergency_cancel", "submit_e"}
HasF == {"pump_f", "managed", "emergency", "emergency_cancel", "submit_e", "ack_e", "intent_e",
         "evidence", "pump_e", "counts", "reconcile", "report"}
HasE == {"evidence", "pump_e", "counts", "reconcile", "report"}

\* Which orders the exchange and the store hold at each step of the run.
StepsInOrder ==
    /\ run.pc \notin {"ended", "recover", "recover_cancel"} => run.id # 0
    /\ run.pc = "submit_c" => orders[Link("c")] = NoOrder
    /\ run.pc \in {"submit_c"} \cup BeforeF => orders[Link("f")] = NoOrder
    /\ run.pc \in {"submit_c"} \cup BeforeF \cup BeforeE => orders[Link("e")] = NoOrder
    /\ run.pc \in HasC \cup HasF => Link("c") \in DOMAIN intents
    /\ run.pc \in HasF => Link("f") \in DOMAIN intents
    /\ run.pc \in HasE => Link("e") \in DOMAIN intents
    /\ \A p \in Submitted :
        /\ run.pc = AckStep[p] => orders[Link(p)] # NoOrder
        /\ run.pc = IntentStep[p] => orders[Link(p)] # NoOrder /\ Link(p) \in acks

Unrecorded(i, p) == <<i, p>> \notin DOMAIN intents /\ orders[<<i, p>>] # NoOrder

StoreMatchesExchange ==
    /\ \A l \in Owned : l[1] > run.id => orders[l] = NoOrder
    /\ \A l \in Links : orders[l].status = "none" => orders[l] = NoOrder
    /\ \A l \in DOMAIN intents :
        l \in acks /\ orders[l] # NoOrder /\ orders[l].qty = intents[l]
    /\ \A i \in 1..MaxRuns : \A p, q \in Submitted :
        Unrecorded(i, p) /\ Unrecorded(i, q) => p = q

\* What is still open when a run, its clean-up or its list of orders is through.
OpenIsListed ==
    /\ run.pc = "report" => OpenOwned = {}
    /\ run.pc = "cleanup_cancel" => OpenOwned \subseteq run.todo
    /\ run.pc = "cleanup_sell" => OpenOwned = {}
    /\ run.outcome # "none" => run.pc = "ended"
    /\ EndedRunsLeaveNothingOpen

Selling == {l \in Owned : ~IsBuy(l) /\ orders[l].status = "open"}

\* Executions belong to orders, a buy is filled in equal parts and a sale at once.
ExecutionsOfOrders ==
    /\ IsFiniteSet(executions)
    /\ \A e \in executions : orders[e.link] # NoOrder /\ (IsBuy(e.link) => e.qty = BuyQty)
    /\ \A l \in Selling : PartsOf(l) = {}

\* What is for sale, and what the owned orders other than l left in the wallet.
Exposure == SumFunction([k \in Selling |-> orders[k].qty])
OthersThan(l) == {e \in executions : e.link # Foreign /\ e.link # l}
Held(l) == NetOf(OthersThan(l))
CoveredWithout(l) == Held(l) >= Exposure

Early == {"submit_c"} \cup BeforeF \cup BeforeE
SalesAreCovered ==
    /\ CoveredWithout(Foreign)
    /\ run.pc \in Early => CoveredWithout(Link("f"))
    /\ run.pc \in {"emergency", "emergency_cancel", "submit_e"} =>
        run.qty <= NetOf(PartsOf(Link("f")))
    /\ orders[Foreign].status # "cancelled"

SmokeInv ==
    /\ TypeOK
    /\ StepsInOrder
    /\ StoreMatchesExchange
    /\ OpenIsListed
    /\ ExecutionsOfOrders
    /\ SalesAreCovered

-----------------------------------------------------------------------------
(* Sums over executions and orders.                                           *)

LEMMA OwnedFinite == IsFiniteSet(Owned) /\ Foreign \notin Owned
<1>1. IsFiniteSet(Purposes)
  <2>1. IsFiniteSet({"c"})
    BY FS_Singleton
  <2>2. IsFiniteSet({"c"} \cup {"f"})
    BY <2>1, FS_AddElement
  <2>3. IsFiniteSet(({"c"} \cup {"f"}) \cup {"e"})
    BY <2>2, FS_AddElement
  <2>4. IsFiniteSet((({"c"} \cup {"f"}) \cup {"e"}) \cup {"r"})
    BY <2>3, FS_AddElement
  <2>5. Purposes = (({"c"} \cup {"f"}) \cup {"e"}) \cup {"r"}
    BY DEF Purposes
  <2>6. QED
    BY <2>4, <2>5
<1>2. IsFiniteSet(1..MaxRuns)
  BY QuantityAssumption, FS_Interval
<1>3. QED
  BY <1>1, <1>2, FS_Product DEF Owned, Foreign, Purposes

LEMMA NetType ==
  ASSUME NEW E, IsFiniteSet(E), E \subseteq Executions
  PROVE  /\ NetOf(E) \in Int
         /\ \A e \in Executions : Net(e) \in Int
         /\ NetOf(E) = SumFunctionOnSet([e \in E |-> Net(e)], E)
<1>1. \A e \in Executions : Net(e) \in Int
  BY QuantityAssumption DEF Net, Executions
<1>2. NetOf(E) = SumFunctionOnSet([e \in E |-> Net(e)], E)
  BY DEF NetOf, SumFunction
<1>3. \A e \in E : [x \in E |-> Net(x)][e] \in Int
  BY <1>1
<1>4. QED
  BY <1>1, <1>2, <1>3, SumType

LEMMA NetAdd ==
  ASSUME NEW E, IsFiniteSet(E), E \subseteq Executions, NEW e \in Executions, e \notin E
  PROVE  NetOf(E \cup {e}) = NetOf(E) + Net(e)
<1> DEFINE f == [x \in E \cup {e} |-> Net(x)]
           g == [x \in E |-> Net(x)]
<1>1. IsFiniteSet(E \cup {e}) /\ E \cup {e} \subseteq Executions
  BY FS_AddElement
<1>2. \A x \in E \cup {e} : f[x] \in Int
  BY <1>1, NetType
<1>3. NetOf(E \cup {e}) = SumFunctionOnSet(f, E \cup {e}) /\ NetOf(E) = SumFunctionOnSet(g, E)
  BY <1>1, NetType
<1>4. f[e] = Net(e) /\ \A x \in E : f[x] = g[x]
  OBVIOUS
<1> HIDE DEF f, g
<1>5. SumFunctionOnSet(f, E \cup {e}) = SumFunctionOnSet(f, E) + f[e]
  BY <1>2, SumAdd
<1>6. SumFunctionOnSet(f, E) = SumFunctionOnSet(g, E)
  BY <1>4, SumSame
<1>7. QED
  BY <1>3, <1>4, <1>5, <1>6

LEMMA NetSplit ==
  ASSUME NEW E, IsFiniteSet(E), E \subseteq Executions, NEW D \in SUBSET E
  PROVE  NetOf(E) = NetOf(D) + NetOf(E \ D)
<1> DEFINE f == [x \in E |-> Net(x)]
           g == [x \in D |-> Net(x)]
           h == [x \in E \ D |-> Net(x)]
<1>1. /\ IsFiniteSet(D) /\ D \subseteq Executions
      /\ IsFiniteSet(E \ D) /\ E \ D \subseteq Executions
  BY FS_Subset
<1>2. \A x \in E : f[x] \in Int
  BY NetType
<1>3. /\ NetOf(E) = SumFunctionOnSet(f, E)
      /\ NetOf(D) = SumFunctionOnSet(g, D)
      /\ NetOf(E \ D) = SumFunctionOnSet(h, E \ D)
  BY <1>1, NetType
<1>4. (\A x \in D : f[x] = g[x]) /\ (\A x \in E \ D : f[x] = h[x])
  OBVIOUS
<1> HIDE DEF f, g, h
<1>5. SumFunctionOnSet(f, E) = SumFunctionOnSet(f, D) + SumFunctionOnSet(f, E \ D)
  BY <1>2, SumSplit
<1>6. /\ SumFunctionOnSet(f, D) = SumFunctionOnSet(g, D)
      /\ SumFunctionOnSet(f, E \ D) = SumFunctionOnSet(h, E \ D)
  BY <1>1, <1>4, SumSame
<1>7. QED
  BY <1>3, <1>5, <1>6

\* Buys only add: what some of them left is at most what all of them left.
LEMMA NetOfBuys ==
  ASSUME NEW E, IsFiniteSet(E), E \subseteq Executions,
         \A e \in E : IsBuy(e.link) /\ e.qty = BuyQty, NEW D \in SUBSET E
  PROVE  NetOf(D) <= NetOf(E)
<1> DEFINE f == [x \in E |-> Net(x)]
           g == [x \in D |-> Net(x)]
<1>1. IsFiniteSet(D) /\ D \subseteq Executions
  BY FS_Subset
<1>2. \A x \in E : f[x] \in Nat
  <2> SUFFICES ASSUME NEW x \in E PROVE Net(x) \in Nat
    OBVIOUS
  <2>1. Net(x) = BuyQty - BuyFee
    BY DEF Net
  <2> QED
    BY <2>1, QuantityAssumption
<1>3. NetOf(E) = SumFunctionOnSet(f, E) /\ NetOf(D) = SumFunctionOnSet(g, D)
  BY <1>1, NetType
<1>4. \A x \in D : f[x] = g[x]
  OBVIOUS
<1> HIDE DEF f, g
<1>5. SumFunctionOnSet(f, D) <= SumFunctionOnSet(f, E)
  BY <1>2, SumPart
<1>6. SumFunctionOnSet(f, D) = SumFunctionOnSet(g, D)
  BY <1>1, <1>4, SumSame
<1>7. QED
  BY <1>3, <1>5, <1>6

LEMMA ExposureType ==
  ASSUME TypeOK
  PROVE  /\ Selling \in SUBSET Owned /\ IsFiniteSet(Selling)
         /\ \A k \in Owned : orders[k].qty \in Nat
         /\ \A k \in Links : orders[k].qty \in Nat
         /\ Exposure = SumFunctionOnSet([k \in Selling |-> orders[k].qty], Selling)
         /\ Exposure \in Nat
<1>1. Selling \in SUBSET Owned /\ IsFiniteSet(Selling)
  BY OwnedFinite, FS_Subset DEF Selling
<1>2. (\A k \in Owned : orders[k].qty \in Nat) /\ \A k \in Links : orders[k].qty \in Nat
  BY DEF TypeOK, Links
<1>3. Exposure = SumFunctionOnSet([k \in Selling |-> orders[k].qty], Selling)
  BY DEF Exposure, SumFunction
<1> DEFINE f == [k \in Selling |-> orders[k].qty]
<1>4. \A k \in Selling : f[k] \in Nat
  BY <1>1, <1>2
<1> HIDE DEF f
<1>5. SumFunctionOnSet(f, Selling) \in Nat
  BY <1>1, <1>4, SumNat
<1>6. QED
  BY <1>1, <1>2, <1>3, <1>5 DEF f

LEMMA HeldType ==
  ASSUME TypeOK, IsFiniteSet(executions), NEW l
  PROVE  Held(l) \in Int /\ NetOf(PartsOf(l)) \in Int
<1>1. /\ executions \subseteq Executions
      /\ OthersThan(l) \in SUBSET executions
      /\ PartsOf(l) \in SUBSET executions
  BY DEF TypeOK, PartsOf, OthersThan
<1>2. /\ IsFiniteSet(OthersThan(l)) /\ IsFiniteSet(PartsOf(l))
      /\ OthersThan(l) \subseteq Executions /\ PartsOf(l) \subseteq Executions
  BY <1>1, FS_Subset
<1>3. QED
  BY <1>1, <1>2, NetType DEF Held, OthersThan

\* What all owned executions left, split at an order.
LEMMA HeldSplit ==
  ASSUME TypeOK, IsFiniteSet(executions), NEW l, l # Foreign
  PROVE  Held(Foreign) = Held(l) + NetOf(PartsOf(l))
<1> DEFINE E == OthersThan(Foreign)
           D == OthersThan(l)
<1>1. E \subseteq Executions /\ IsFiniteSet(E) /\ D \in SUBSET E
  BY FS_Subset DEF TypeOK, OthersThan
<1>2. E \ D = PartsOf(l)
  BY DEF PartsOf, OthersThan
<1> HIDE DEF E, D
<1>3. NetOf(E) = NetOf(D) + NetOf(E \ D)
  BY <1>1, NetSplit
<1>4. QED
  BY <1>2, <1>3 DEF Held, OthersThan, E, D

\* Less is for sale when sell orders only close.
LEMMA SellingShrinks ==
  ASSUME TypeOK, TypeOK', Selling' \subseteq Selling,
         \A k \in Selling' : orders'[k].qty = orders[k].qty
  PROVE  Exposure' <= Exposure /\ Exposure \in Nat /\ Exposure' \in Nat
<1> DEFINE f == [k \in Selling |-> orders[k].qty]
           g == [k \in Selling' |-> orders'[k].qty]
<1>1. /\ Exposure = SumFunctionOnSet(f, Selling) /\ IsFiniteSet(Selling)
      /\ Selling \in SUBSET Owned /\ \A k \in Owned : orders[k].qty \in Nat
  BY ExposureType
<1>2. Exposure' = SumFunctionOnSet(g, Selling')
  BY DEF Exposure, SumFunction
<1>3. \A k \in Selling : f[k] \in Nat
  BY <1>1
<1>4. \A k \in Selling' : f[k] = g[k]
  OBVIOUS
<1>5. IsFiniteSet(Selling')
  BY <1>1, FS_Subset
<1> HIDE DEF f, g
<1>6. SumFunctionOnSet(f, Selling') <= SumFunctionOnSet(f, Selling)
  BY <1>1, <1>3, SumPart
<1>7. SumFunctionOnSet(f, Selling') = SumFunctionOnSet(g, Selling')
  BY <1>4, <1>5, SumSame
<1>8. SumFunctionOnSet(g, Selling') \in Nat
  <2> \A k \in Selling' : g[k] \in Nat
    BY <1>3, <1>4
  <2> QED
    BY <1>5, SumNat
<1>9. Exposure \in Nat
  BY ExposureType
<1>10. QED
  BY <1>1, <1>2, <1>6, <1>7, <1>8, <1>9

-----------------------------------------------------------------------------
(* The three ways in which the orders of the exchange change.                 *)

\* No order came to be, went or changed its quantity.
OrdersKept ==
    /\ \A k \in Links : orders'[k].qty = orders[k].qty
                        /\ (orders'[k] = NoOrder <=> orders[k] = NoOrder)
                        /\ (orders'[k].status = "none" => orders'[k] = NoOrder)
    /\ orders'[Foreign].status # "cancelled"

LEMMA OrdersSame ==
  ASSUME SmokeInv, orders' = orders, executions' = executions
  PROVE  /\ OrdersKept /\ ExecutionsOfOrders'
         /\ OpenOwned' = OpenOwned
         /\ \A l : (Held(l) = Held(l)') /\ (CoveredWithout(l) => CoveredWithout(l)')
                   /\ PartsOf(l)' = PartsOf(l)
<1>1. OrdersKept
  BY DEF SmokeInv, StoreMatchesExchange, SalesAreCovered, OrdersKept
<1>2. ExecutionsOfOrders'
  BY DEF SmokeInv, ExecutionsOfOrders, Selling, PartsOf
<1>3. OpenOwned' = OpenOwned
  BY DEF OpenOwned
<1>4. \A l : (Held(l) = Held(l)') /\ (CoveredWithout(l) => CoveredWithout(l)')
             /\ PartsOf(l)' = PartsOf(l)
  BY DEF Held, OthersThan, CoveredWithout, Exposure, Selling, PartsOf
<1>5. QED
  BY <1>1, <1>2, <1>3, <1>4

LEMMA OrderCloses ==
  ASSUME SmokeInv, TypeOK', NEW l \in Owned, orders[l].status = "open",
         orders' = [orders EXCEPT ![l].status = "cancelled"], executions' = executions
  PROVE  /\ OrdersKept /\ ExecutionsOfOrders'
         /\ OpenOwned' = OpenOwned \ {l}
         /\ \A k : (Held(k) = Held(k)') /\ (CoveredWithout(k) => CoveredWithout(k)')
                   /\ PartsOf(k)' = PartsOf(k)
<1>1. TypeOK /\ l \in Links /\ l # Foreign
  BY OwnedFinite DEF SmokeInv, Links
<1>2. /\ \A k \in Links \ {l} : orders'[k] = orders[k]
      /\ orders'[l].status = "cancelled" /\ orders'[l].qty = orders[l].qty
  BY <1>1 DEF TypeOK
<1>3. OrdersKept
  BY <1>1, <1>2 DEF SmokeInv, StoreMatchesExchange, SalesAreCovered, OrdersKept, NoOrder, Links
<1>4. OpenOwned' = OpenOwned \ {l}
  <2>1. ASSUME NEW k \in Owned
        PROVE  (orders'[k].status = "open") <=> (orders[k].status = "open" /\ k # l)
    BY <1>2 DEF Links
  <2>2. QED
    BY <2>1 DEF OpenOwned
<1>5. Selling' \subseteq Selling /\ \A k \in Selling' : orders'[k].qty = orders[k].qty
  BY <1>2 DEF Selling, Links
<1>6. ExecutionsOfOrders'
  <2>1. \A e \in executions : e.link \in Links
    BY <1>1 DEF TypeOK, Executions, Links
  <2>2. \A e \in executions : orders'[e.link] # NoOrder
    BY <1>3, <2>1 DEF SmokeInv, ExecutionsOfOrders, OrdersKept
  <2>3. \A k \in Selling' : PartsOf(k)' = {}
    BY <1>5 DEF SmokeInv, ExecutionsOfOrders, PartsOf
  <2>4. QED
    BY <2>2, <2>3 DEF SmokeInv, ExecutionsOfOrders
<1>7. Exposure' <= Exposure
  BY <1>1, <1>5, SellingShrinks
<1>8. Exposure \in Nat /\ Exposure' \in Nat
  BY <1>1, <1>5, SellingShrinks
<1>9. \A k : (Held(k) = Held(k)') /\ Held(k) \in Int /\ PartsOf(k)' = PartsOf(k)
  <2>1. IsFiniteSet(executions)
    BY DEF SmokeInv, ExecutionsOfOrders
  <2>2. \A k : Held(k) \in Int
    BY <1>1, <2>1, HeldType
  <2>3. QED
    BY <2>2 DEF Held, OthersThan, PartsOf
<1>10. \A k : CoveredWithout(k) => CoveredWithout(k)'
  BY <1>7, <1>8, <1>9 DEF CoveredWithout
<1>11. QED
  BY <1>3, <1>4, <1>6, <1>9, <1>10


Placed(l, q) == orders' = [orders EXCEPT ![l] = [status |-> "open", qty |-> q]]

LEMMA OrderPlaced ==
  ASSUME SmokeInv, TypeOK', NEW l \in Owned, NEW q \in Nat, orders[l] = NoOrder,
         Placed(l, q), executions' = executions
  PROVE  /\ \A k \in Links \ {l} : orders'[k] = orders[k]
         /\ orders'[l] = [status |-> "open", qty |-> q]
         /\ ExecutionsOfOrders'
         /\ OpenOwned' = OpenOwned \cup {l}
         /\ IsBuy(l) => \A k : CoveredWithout(k) => CoveredWithout(k)'
         /\ ~IsBuy(l) => Exposure' = Exposure + q
         /\ \A k : (Held(k) = Held(k)') /\ PartsOf(k)' = PartsOf(k)
<1>1. TypeOK /\ l \in Links /\ l # Foreign
  BY OwnedFinite DEF SmokeInv, Links
<1>2. /\ \A k \in Links \ {l} : orders'[k] = orders[k]
      /\ orders'[l] = [status |-> "open", qty |-> q]
  BY <1>1 DEF TypeOK, Placed
<1>3. ASSUME NEW k \in Owned
      PROVE  (orders'[k].status = "open") <=> (orders[k].status = "open" \/ k = l)
  BY <1>2 DEF Links
<1>4. OpenOwned' = OpenOwned \cup {l}
  BY <1>3 DEF OpenOwned
<1>5. Selling' = IF IsBuy(l) THEN Selling ELSE Selling \cup {l}
  <2>1. \A k \in Owned : k \in Selling' <=> (k \in Selling \/ (k = l /\ ~IsBuy(l)))
    <3> SUFFICES ASSUME NEW k \in Owned
                 PROVE  k \in Selling' <=> (k \in Selling \/ (k = l /\ ~IsBuy(l)))
      OBVIOUS
    <3>1. k \in Selling' <=> (~IsBuy(k) /\ orders'[k].status = "open")
      BY DEF Selling
    <3>2. k \in Selling <=> (~IsBuy(k) /\ orders[k].status = "open")
      BY DEF Selling
    <3>3. QED
      BY <1>3, <3>1, <3>2
  <2>2. Selling' \subseteq Owned /\ Selling \subseteq Owned
    BY DEF Selling
  <2>3. QED
    BY <2>1, <2>2
<1>6. l \notin Selling /\ \A k \in Selling : orders'[k].qty = orders[k].qty
  <2>1. orders[l].status # "open"
    BY DEF NoOrder
  <2>2. \A k \in Selling : k \in Links \ {l}
    BY <2>1 DEF Selling, Links
  <2>3. QED
    BY <1>2, <2>1, <2>2 DEF Selling
<1>7. ExecutionsOfOrders'
  <2>1. \A e \in executions : e.link \in Links /\ e.link # l /\ orders[e.link] # NoOrder
    BY <1>1 DEF TypeOK, Executions, Links, SmokeInv, ExecutionsOfOrders
  <2>2. \A e \in executions : orders'[e.link] # NoOrder
    BY <1>2, <2>1
  <2>3. \A k \in Selling' : PartsOf(k)' = {}
    <3>1. \A k \in Selling : PartsOf(k) = {}
      BY DEF SmokeInv, ExecutionsOfOrders
    <3>2. PartsOf(l) = {}
      BY <2>1 DEF PartsOf
    <3>3. \A k \in Selling' : PartsOf(k) = {}
      BY <1>5, <3>1, <3>2
    <3>4. QED
      BY <3>3 DEF PartsOf
  <2>4. QED
    BY <2>2, <2>3 DEF SmokeInv, ExecutionsOfOrders
<1> DEFINE f == [k \in Selling |-> orders[k].qty]
           g == [k \in Selling' |-> orders'[k].qty]
<1>8. /\ Exposure = SumFunctionOnSet(f, Selling) /\ IsFiniteSet(Selling)
      /\ Selling \in SUBSET Owned /\ \A k \in Owned : orders[k].qty \in Nat
  BY <1>1, ExposureType
<1>9. Exposure' = SumFunctionOnSet(g, Selling')
  BY DEF Exposure, SumFunction
<1>10. \A k \in Selling : f[k] \in Int /\ g[k] = f[k]
  BY <1>5, <1>6, <1>8
<1>11. ~IsBuy(l) => g[l] = q
  BY <1>2, <1>5
<1> HIDE DEF f, g
<1>12. SumFunctionOnSet(g, Selling) = Exposure
  BY <1>8, <1>10, SumSame
<1>13. ~IsBuy(l) => Exposure' = Exposure + q
  <2> SUFFICES ASSUME ~IsBuy(l) PROVE Exposure' = Exposure + q
    OBVIOUS
  <2>1. \A k \in Selling \cup {l} : g[k] \in Int
    BY <1>10, <1>11
  <2>2. SumFunctionOnSet(g, Selling \cup {l}) = SumFunctionOnSet(g, Selling) + g[l]
    BY <1>6, <1>8, <2>1, SumAdd
  <2>3. QED
    BY <1>5, <1>9, <1>11, <1>12, <2>2
<1>14. \A k : (Held(k) = Held(k)') /\ PartsOf(k)' = PartsOf(k)
  BY DEF Held, OthersThan, PartsOf
<1>15. IsBuy(l) => Exposure' = Exposure
  BY <1>5, <1>9, <1>12
<1>16. IsBuy(l) => \A k : CoveredWithout(k) => CoveredWithout(k)'
  BY <1>14, <1>15 DEF CoveredWithout
<1>17. QED
  BY <1>2, <1>4, <1>7, <1>13, <1>14, <1>16


\* The execution that matches an order now.
Execution(l) == [link |-> l, part |-> Cardinality(PartsOf(l)) + 1,
                 qty |-> IF IsBuy(l) THEN BuyQty ELSE Left(l)]

\* Nothing of an open sale was executed, so all of it is left.
LEMMA SaleIsWhole ==
  ASSUME SmokeInv, NEW l \in Selling
  PROVE  Left(l) = orders[l].qty /\ PartsOf(l) = {}
<1>1. PartsOf(l) = {}
  BY DEF SmokeInv, ExecutionsOfOrders
<1>2. Sum({}) = 0
  <2>1. Sum({}) = SumFunctionOnSet([e \in {} |-> e.qty], {})
    BY DEF Sum, SumFunction
  <2>2. QED
    BY <2>1, SumEmpty
<1>3. orders[l].qty \in Nat
  BY ExposureType DEF SmokeInv
<1>4. QED
  BY <1>1, <1>2, <1>3 DEF Left

LEMMA MatchFacts ==
  ASSUME SmokeInv, NEW l \in Links, Match(l)
  PROVE  /\ orders[l].status = "open"
         /\ executions' = executions \cup {Execution(l)} /\ Execution(l) \in Executions
         /\ inbox' = inbox \cup {Execution(l)}
         /\ orders' = orders \/ orders' = [orders EXCEPT ![l].status = "filled"]
         /\ ~IsBuy(l) => l \in Selling /\ orders' = [orders EXCEPT ![l].status = "filled"]
         /\ UNCHANGED <<store, run>>
<1>1. orders[l].status = "open"
  BY DEF Match
<1>2. ~IsBuy(l) => l \in Selling
  BY <1>1 DEF Selling, Links, IsBuy, Foreign
<1>3. executions' = executions \cup {Execution(l)} /\ inbox' = inbox \cup {Execution(l)}
  BY DEF Match, Execution
<1>4. Execution(l).qty \in Nat
  <2>1. CASE IsBuy(l)
    BY <2>1, QuantityAssumption DEF Execution
  <2>2. CASE ~IsBuy(l)
    <3>1. Left(l) = orders[l].qty /\ orders[l].qty \in Nat
      BY <1>2, <2>2, <1>1, SaleIsWhole, ExposureType DEF SmokeInv
    <3>2. QED
      BY <2>2, <3>1 DEF Execution
  <2>3. QED
    BY <2>1, <2>2
<1>5. Cardinality(PartsOf(l)) + 1 \in Nat
  <2>1. IsFiniteSet(PartsOf(l))
    BY FS_Subset DEF SmokeInv, ExecutionsOfOrders, PartsOf
  <2>2. QED
    BY <2>1, FS_CardinalityType
<1>6. Execution(l) \in Executions
  BY <1>1, <1>4, <1>5 DEF Execution, Executions
<1>7. /\ orders' = orders \/ orders' = [orders EXCEPT ![l].status = "filled"]
      /\ ~IsBuy(l) => orders' = [orders EXCEPT ![l].status = "filled"]
  <2>1. orders' = IF Execution(l).qty = Left(l) THEN [orders EXCEPT ![l].status = "filled"]
                                               ELSE orders
    BY DEF Match, Execution
  <2>2. ~IsBuy(l) => Execution(l).qty = Left(l)
    BY DEF Execution
  <2>3. QED
    BY <2>1, <2>2
<1>8. UNCHANGED <<store, run>>
  BY DEF Match
<1>9. QED
  BY <1>1, <1>2, <1>3, <1>6, <1>7, <1>8

LEMMA OrderMatches ==
  ASSUME SmokeInv, TypeOK', NEW l \in Links, Match(l)
  PROVE  /\ OrdersKept /\ ExecutionsOfOrders'
         /\ OpenOwned' \subseteq OpenOwned
         /\ \A k : IsBuy(k) \/ k = Foreign => (CoveredWithout(k) => CoveredWithout(k)')
         /\ \A k : IsBuy(k) => NetOf(PartsOf(k)) <= NetOf(PartsOf(k)')
<1> DEFINE e == Execution(l)
<1>1. /\ orders[l].status = "open"
      /\ executions' = executions \cup {e} /\ e \in Executions
      /\ orders' = orders \/ orders' = [orders EXCEPT ![l].status = "filled"]
      /\ ~IsBuy(l) => l \in Selling /\ orders' = [orders EXCEPT ![l].status = "filled"]
  BY MatchFacts
<1>2. TypeOK /\ IsFiniteSet(executions)
  BY DEF SmokeInv, ExecutionsOfOrders
<1>3. /\ e.link = l
      /\ IsBuy(l) => e.qty = BuyQty
      /\ ~IsBuy(l) => e.qty = orders[l].qty /\ PartsOf(l) = {}
  BY <1>1, SaleIsWhole DEF Execution
<1> HIDE DEF e
<1>4. /\ \A k \in Links \ {l} : orders'[k] = orders[k]
      /\ orders'[l].qty = orders[l].qty /\ orders'[l].status \in {"open", "filled"}
      /\ ~IsBuy(l) => orders'[l].status = "filled"
  BY <1>1, <1>2 DEF TypeOK
<1>5. OrdersKept
  BY <1>1, <1>2, <1>4
     DEF SmokeInv, StoreMatchesExchange, SalesAreCovered, OrdersKept, NoOrder, Links
<1>6. OpenOwned' \subseteq OpenOwned
  BY <1>1, <1>4 DEF OpenOwned, Links
<1>7. Selling' \subseteq Selling /\ \A k \in Selling' : orders'[k].qty = orders[k].qty
  BY <1>1, <1>4 DEF Selling, Links
<1>8. ExecutionsOfOrders'
  <2>1. \A x \in executions' : x.link \in Links
    BY DEF TypeOK, Executions, Links
  <2>2. \A x \in executions' : orders[x.link] # NoOrder
    BY <1>1, <1>3 DEF SmokeInv, ExecutionsOfOrders, NoOrder
  <2>3. \A x \in executions' : orders'[x.link] # NoOrder
    BY <1>5, <2>1, <2>2 DEF OrdersKept
  <2>4. \A x \in executions' : IsBuy(x.link) => x.qty = BuyQty
    BY <1>1, <1>3 DEF SmokeInv, ExecutionsOfOrders
  <2>5. IsFiniteSet(executions')
    BY <1>1, <1>2, FS_AddElement
  <2>6. \A k \in Selling' : {x \in executions' : x.link = k} = {}
    <3> SUFFICES ASSUME NEW k \in Selling' PROVE {x \in executions' : x.link = k} = {}
      OBVIOUS
    <3>1. k # l
      BY <1>4 DEF Selling
    <3>2. PartsOf(k) = {}
      BY <1>7 DEF SmokeInv, ExecutionsOfOrders
    <3>3. QED
      BY <1>1, <1>3, <3>1, <3>2 DEF PartsOf
  <2>7. QED
    BY <2>3, <2>4, <2>5, <2>6 DEF ExecutionsOfOrders, PartsOf
<1>9. /\ Exposure \in Nat /\ Exposure' \in Nat
      /\ ~IsBuy(l) => Exposure = orders[l].qty + Exposure'
      /\ Exposure' <= Exposure
  <2>1. Exposure' <= Exposure /\ Exposure \in Nat /\ Exposure' \in Nat
    BY <1>2, <1>7, SellingShrinks
  <2>2. ASSUME ~IsBuy(l)
        PROVE  Exposure = orders[l].qty + Exposure'
    <3> DEFINE f == [k \in Selling |-> orders[k].qty]
               g == [k \in Selling' |-> orders'[k].qty]
    <3>1. /\ Exposure = SumFunctionOnSet(f, Selling) /\ IsFiniteSet(Selling)
          /\ Selling \in SUBSET Owned /\ \A k \in Owned : orders[k].qty \in Nat
      BY <1>2, ExposureType
    <3>2. Exposure' = SumFunctionOnSet(g, Selling')
      BY DEF Exposure, SumFunction
    <3>3. \A k \in Selling : f[k] \in Int
      BY <3>1
    <3>4. \A k \in Selling' : f[k] = g[k]
      BY <1>7
    <3>5. f[l] = orders[l].qty /\ l \in Selling
      BY <1>1, <2>2
    <3>6. Selling' = Selling \ {l}
      <4>1. l \notin Selling'
        BY <1>4, <2>2 DEF Selling
      <4>2. \A k \in Selling \ {l} : k \in Selling'
        BY <1>4 DEF Selling, Links
      <4>3. QED
        BY <1>7, <4>1, <4>2
    <3>7. IsFiniteSet(Selling')
      BY <1>7, <3>1, FS_Subset
    <3> HIDE DEF f, g
    <3>8. SumFunctionOnSet(f, Selling) = f[l] + SumFunctionOnSet(f, Selling \ {l})
      BY <3>1, <3>3, <3>5, SumRemove
    <3>9. SumFunctionOnSet(f, Selling') = SumFunctionOnSet(g, Selling')
      BY <3>4, <3>7, SumSame
    <3>10. QED
      BY <3>1, <3>2, <3>5, <3>6, <3>8, <3>9
  <2>3. QED
    BY <2>1, <2>2

<1>10. Net(e) \in Int /\ (IsBuy(l) => Net(e) >= 0) /\ (~IsBuy(l) => Net(e) = -orders[l].qty)
  <2>1. IsBuy(l) => Net(e) = BuyQty - BuyFee
    BY <1>3 DEF Net
  <2>2. ~IsBuy(l) => Net(e) = -orders[l].qty
    BY <1>3 DEF Net
  <2>3. orders[l].qty \in Nat
    BY <1>1, <1>2, ExposureType
  <2>4. QED
    BY <2>1, <2>2, <2>3, QuantityAssumption
\* What a set of executions leaves when the new one may join it.
<1>11. ASSUME NEW D \in SUBSET executions, IsBuy(l) \/ e \notin D
       PROVE  /\ NetOf(D) \in Int /\ NetOf(D \cup {e}) \in Int
              /\ IsBuy(l) => NetOf(D) <= NetOf(D \cup {e})
              /\ ~IsBuy(l) => NetOf(D \cup {e}) = NetOf(D) - orders[l].qty
  <2>1. D \subseteq Executions /\ IsFiniteSet(D)
    BY <1>2, FS_Subset DEF TypeOK
  <2>2. NetOf(D) \in Int
    BY <2>1, NetType
  <2>3. CASE e \in D
    <3>1. D \cup {e} = D /\ IsBuy(l)
      BY <1>11, <2>3
    <3>2. NetOf(D \cup {e}) = NetOf(D)
      BY <3>1
    <3>3. QED
      BY <2>2, <3>1, <3>2
  <2>4. CASE e \notin D
    <3>1. NetOf(D \cup {e}) = NetOf(D) + Net(e)
      BY <1>1, <2>1, <2>4, NetAdd
    <3>2. orders[l].qty \in Nat
      BY <1>1, <1>2, ExposureType
    <3>3. QED
      BY <1>10, <2>2, <3>1, <3>2
  <2>5. QED
    BY <2>3, <2>4
<1>12. ~IsBuy(l) => e \notin executions
  BY <1>3 DEF PartsOf
<1>13. ASSUME NEW k, IsBuy(k) \/ k = Foreign, CoveredWithout(k)
       PROVE  CoveredWithout(k)'
  <2> DEFINE D == OthersThan(k)
             F == {x \in executions' : x.link # Foreign /\ x.link # k}
  <2>1. D \in SUBSET executions /\ (IsBuy(l) \/ e \notin D)
    BY <1>12 DEF OthersThan
  <2>2. NetOf(D) >= Exposure
    BY <1>13 DEF CoveredWithout, Held, OthersThan
  <2>3. CASE l \in {k, Foreign}
    <3>1. F = D
      BY <1>1, <1>3, <2>3 DEF OthersThan
    <3>2. NetOf(D) \in Int
      BY <1>11, <2>1
    <3>3. NetOf(F) >= Exposure'
      <4> HIDE DEF D, F
      <4> QED
        BY <1>9, <2>2, <3>1, <3>2
    <3>4. QED
      BY <3>3 DEF CoveredWithout, Held, OthersThan
  <2>4. CASE l \notin {k, Foreign}
    <3>1. F = D \cup {e}
      BY <1>1, <1>3, <2>4 DEF OthersThan
    <3>2. /\ NetOf(D) \in Int /\ NetOf(D \cup {e}) \in Int
          /\ IsBuy(l) => NetOf(D) <= NetOf(D \cup {e})
          /\ ~IsBuy(l) => NetOf(D \cup {e}) = NetOf(D) - orders[l].qty
      BY <1>11, <2>1
    <3>3. orders[l].qty \in Nat
      BY <1>1, <1>2, ExposureType
    <3>4. NetOf(F) >= Exposure'
      <4> HIDE DEF D, F
      <4> QED
        BY <1>9, <2>2, <3>1, <3>2, <3>3
    <3>5. QED
      BY <3>4 DEF CoveredWithout, Held, OthersThan
  <2>5. QED
    BY <2>3, <2>4
<1>14. ASSUME NEW k, IsBuy(k)
       PROVE  NetOf(PartsOf(k)) <= NetOf(PartsOf(k)')
  <2>1. PartsOf(k) \in SUBSET executions
    BY DEF PartsOf
  <2>2. CASE k = l
    <3>1. PartsOf(k)' = PartsOf(k) \cup {e}
      BY <1>1, <1>3, <2>2 DEF PartsOf
    <3>2. QED
      BY <1>11, <1>14, <2>1, <2>2, <3>1
  <2>3. CASE k # l
    <3>1. PartsOf(k)' = PartsOf(k)
      BY <1>1, <1>3, <2>3 DEF PartsOf
    <3>2. NetOf(PartsOf(k)) \in Int
      BY <1>2, HeldType
    <3>3. QED
      BY <3>1, <3>2
  <2>4. QED
    BY <2>2, <2>3
<1>15. QED
  BY <1>5, <1>6, <1>8, <1>13, <1>14


-----------------------------------------------------------------------------
(* How a step moves the run.                                                  *)

Runs == [id : 0..MaxRuns, pc : Pcs, todo : SUBSET Owned, qty : Nat, outcome : Outcomes]

LEMMA GoToIs ==
  ASSUME TypeOK, NEW pc \in Pcs, GoTo(pc)
  PROVE  /\ run' = [id |-> run.id, pc |-> pc, todo |-> run.todo, qty |-> run.qty,
                    outcome |-> run.outcome]
         /\ run' \in Runs
<1>1. run \in Runs
  BY DEF TypeOK, Runs
<1>2. run' = [id |-> run.id, pc |-> pc, todo |-> run.todo, qty |-> run.qty,
              outcome |-> run.outcome]
  BY <1>1 DEF GoTo, Runs
<1>3. QED
  BY <1>1, <1>2 DEF Runs

LEMMA EndIs ==
  ASSUME TypeOK, NEW o \in Outcomes, End(o)
  PROVE  /\ run' = [id |-> run.id, pc |-> "ended", todo |-> {}, qty |-> 0, outcome |-> o]
         /\ run' \in Runs
<1>1. run \in Runs
  BY DEF TypeOK, Runs
<1>2. run' = [id |-> run.id, pc |-> "ended", todo |-> {}, qty |-> 0, outcome |-> o]
  BY <1>1 DEF End, Runs
<1>3. "ended" \in Pcs
  BY DEF Pcs
<1>4. QED
  BY <1>1, <1>2, <1>3 DEF Runs

LEMMA FailIs ==
  ASSUME TypeOK, Fail
  PROVE  /\ run'.id = run.id /\ run' \in Runs
         /\ \/ run'.pc = "ended" /\ run'.outcome \in {"cleanup_failed", "recovery_failed"}
            \/ /\ run'.pc = "cleanup" /\ run'.outcome = run.outcome
               /\ run.pc \notin {"recover", "recover_cancel"}
<1>1. run \in Runs
  BY DEF TypeOK, Runs
<1>2. CASE run.pc \in Cleaning
  BY <1>2, EndIs DEF Fail, Outcomes
<1>3. CASE run.pc \notin Cleaning /\ run.pc \in {"recover", "recover_cancel"}
  BY <1>3, EndIs DEF Fail, Outcomes
<1>4. CASE run.pc \notin Cleaning /\ run.pc \notin {"recover", "recover_cancel"}
  <2>1. run' = [id |-> run.id, pc |-> "cleanup", todo |-> {}, qty |-> 0,
                outcome |-> run.outcome]
    BY <1>1, <1>4 DEF Fail, Runs
  <2>2. "cleanup" \in Pcs
    BY DEF Pcs, Cleaning
  <2>3. QED
    BY <1>1, <1>4, <2>1, <2>2 DEF Runs
<1>5. QED
  BY <1>2, <1>3, <1>4

LEMMA LinkOwned ==
  ASSUME SmokeInv, run.pc \notin {"ended", "recover", "recover_cancel"}, NEW p \in Purposes
  PROVE  Link(p) \in Owned /\ Link(p)[1] = run.id /\ Link(p)[2] = p /\ run.id \in 1..MaxRuns
<1>1. run.id \in 1..MaxRuns
  BY QuantityAssumption DEF SmokeInv, TypeOK, StepsInOrder
<1>2. QED
  BY <1>1 DEF Link, Owned

\* A failed call leaves nothing of the run to keep but what the wallet covers.
LEMMA FailKeeps ==
  ASSUME SmokeInv, Fail, run.pc # "ended", CoveredWithout(Foreign)',
         orders'[Foreign].status # "cancelled"
  PROVE  StepsInOrder' /\ OpenIsListed' /\ SalesAreCovered'
<1>1. /\ run'.id = run.id
      /\ \/ run'.pc = "ended" /\ run'.outcome \in {"cleanup_failed", "recovery_failed"}
         \/ /\ run'.pc = "cleanup" /\ run'.outcome = run.outcome
            /\ run.pc \notin {"recover", "recover_cancel"}
  BY FailIs DEF SmokeInv
<1>2. run.outcome = "none" /\ (run.pc \notin {"recover", "recover_cancel"} => run.id # 0)
  BY DEF SmokeInv, OpenIsListed, StepsInOrder
<1>3. StepsInOrder'
  BY <1>1, <1>2 DEF StepsInOrder, BeforeF, BeforeE, HasC, HasF, HasE, Submitted, AckStep,
                    IntentStep
<1>4. OpenIsListed'
  BY <1>1, <1>2 DEF OpenIsListed, EndedRunsLeaveNothingOpen
<1>5. SalesAreCovered'
  BY <1>1 DEF SalesAreCovered, Early, BeforeF, BeforeE
<1>6. QED
  BY <1>3, <1>4, <1>5

\* So does a run that ends; what is open matters to two of the outcomes.
LEMMA EndKeeps ==
  ASSUME SmokeInv, NEW o \in Outcomes \ {"none"}, End(o), CoveredWithout(Foreign)',
         orders'[Foreign].status # "cancelled",
         o = "reported" => OpenOwned' = {},
         o = "cleaned" => OpenOwned' \subseteq {Link("r")}
  PROVE  StepsInOrder' /\ OpenIsListed' /\ SalesAreCovered'
<1>1. run'.id = run.id /\ run'.pc = "ended" /\ run'.outcome = o
  BY EndIs DEF SmokeInv
<1>2. StepsInOrder'
  BY <1>1 DEF StepsInOrder, BeforeF, BeforeE, HasC, HasF, HasE, Submitted, AckStep, IntentStep
<1>3. OpenIsListed'
  BY <1>1 DEF OpenIsListed, EndedRunsLeaveNothingOpen, Link
<1>4. SalesAreCovered'
  BY <1>1 DEF SalesAreCovered, Early, BeforeF, BeforeE
<1>5. QED
  BY <1>2, <1>3, <1>4

\* The store still matches when no order changes hands.
LEMMA StoreKept ==
  ASSUME SmokeInv, OrdersKept, intents' = intents, acks \subseteq acks', run'.id \in Nat,
         run.id <= run'.id
  PROVE  StoreMatchesExchange'
<1>1. \A l \in Owned : l \in Links /\ l[1] \in Nat
  BY DEF Links, Owned
<1>2. run.id \in Nat
  BY DEF SmokeInv, TypeOK
<1>3. \A l \in Owned : l[1] > run'.id => orders'[l] = NoOrder
  BY <1>1, <1>2 DEF SmokeInv, StoreMatchesExchange, OrdersKept
<1>4. \A l \in Links : orders'[l].status = "none" => orders'[l] = NoOrder
  BY DEF OrdersKept
<1>5. \A l \in DOMAIN intents' :
        l \in acks' /\ orders'[l] # NoOrder /\ orders'[l].qty = intents'[l]
  BY <1>1 DEF SmokeInv, StoreMatchesExchange, OrdersKept, TypeOK
<1>6. ASSUME NEW i \in 1..MaxRuns, NEW p \in Submitted, NEW q \in Submitted,
             Unrecorded(i, p)', Unrecorded(i, q)'
      PROVE  p = q
  <2>1. <<i, p>> \in Links /\ <<i, q>> \in Links
    BY DEF Links, Owned, Submitted, Purposes
  <2>2. Unrecorded(i, p) /\ Unrecorded(i, q)
    BY <1>6, <2>1 DEF Unrecorded, OrdersKept
  <2>3. QED
    BY <2>2 DEF SmokeInv, StoreMatchesExchange
<1>7. QED
  BY <1>3, <1>4, <1>5, <1>6 DEF StoreMatchesExchange


\* The run stays where it is while the exchange moves.
LEMMA QuietRun ==
  ASSUME SmokeInv, OrdersKept, run' = run, intents' = intents, acks' = acks,
         OpenOwned' \subseteq OpenOwned, IsFiniteSet(executions'), TypeOK',
         \A k : IsBuy(k) \/ k = Foreign => (CoveredWithout(k) => CoveredWithout(k)'),
         \A k : IsBuy(k) => NetOf(PartsOf(k)) <= NetOf(PartsOf(k)')
  PROVE  StepsInOrder' /\ StoreMatchesExchange' /\ OpenIsListed' /\ SalesAreCovered'
<1>1. run.id \in Nat
  BY DEF SmokeInv, TypeOK
<1>2. StoreMatchesExchange'
  BY <1>1, StoreKept
<1>3. run.pc \notin {"ended", "recover", "recover_cancel"} =>
        \A p \in Purposes : orders'[Link(p)] = NoOrder <=> orders[Link(p)] = NoOrder
  BY LinkOwned DEF OrdersKept, Links
<1>4. StepsInOrder'
  <2>1. Link("c") = Link("c")' /\ Link("f") = Link("f")' /\ Link("e") = Link("e")'
        /\ \A p : Link(p) = Link(p)'
    BY DEF Link
  <2>2. {"submit_c"} \cup BeforeF \cup BeforeE \cup {AckStep[p] : p \in Submitted}
          \cup {IntentStep[p] : p \in Submitted}
          \subseteq Pcs \ {"ended", "recover", "recover_cancel"}
    BY DEF BeforeF, BeforeE, AckStep, IntentStep, Submitted, Pcs, AfterPump
  <2>3. Submitted \subseteq Purposes /\ {"c", "f", "e"} \subseteq Purposes
    BY DEF Submitted, Purposes
  <2>4. QED
    BY <1>3, <2>1, <2>2, <2>3 DEF SmokeInv, StepsInOrder
<1>5. OpenIsListed'
  BY DEF SmokeInv, OpenIsListed, EndedRunsLeaveNothingOpen, Link
<1>6. SalesAreCovered'
  <2>1. IsBuy(Link("f"))
    BY DEF IsBuy, Link
  <2>2. CoveredWithout(Foreign)' /\ orders'[Foreign].status # "cancelled"
    BY DEF SmokeInv, SalesAreCovered, OrdersKept
  <2>3. run.pc \in Early => CoveredWithout(Link("f"))'
    <3>1. \A l : l = Link("f") => (CoveredWithout(l)' => CoveredWithout(Link("f"))')
      BY DEF CoveredWithout, Link, Held, OthersThan
    <3>2. QED
      BY <2>1, <3>1 DEF SmokeInv, SalesAreCovered
  <2>4. ASSUME run.pc \in {"emergency", "emergency_cancel", "submit_e"}
        PROVE  run'.qty <= NetOf(PartsOf(Link("f")))'
    <3>1. PICK l : l = Link("f")
      OBVIOUS
    <3>2. NetOf(PartsOf(l)) <= NetOf(PartsOf(l)') /\ run.qty <= NetOf(PartsOf(l))
      BY <2>1, <2>4, <3>1 DEF SmokeInv, SalesAreCovered
    <3>3. NetOf(PartsOf(l)) \in Int /\ NetOf(PartsOf(l)') \in Int /\ run.qty \in Nat
      <4>1. NetOf(PartsOf(l)) \in Int /\ run.qty \in Nat
        BY HeldType DEF SmokeInv, ExecutionsOfOrders, TypeOK
      <4>2. PartsOf(l)' \subseteq executions' /\ executions' \subseteq Executions
        BY DEF PartsOf, TypeOK
      <4>3. IsFiniteSet(PartsOf(l)') /\ PartsOf(l)' \subseteq Executions
        BY <4>2, FS_Subset
      <4>4. QED
        BY <4>1, <4>3, NetType
    <3>4. run.qty <= NetOf(PartsOf(l)')
      BY <3>2, <3>3
    <3>5. PartsOf(Link("f"))' = PartsOf(l)'
      BY <3>1 DEF PartsOf, Link
    <3>6. QED
      BY <3>4, <3>5
  <2>5. QED
    BY <2>2, <2>3, <2>4 DEF SalesAreCovered
<1>7. QED
  BY <1>2, <1>4, <1>5, <1>6

LEMMA MatchStep == ASSUME SmokeInv, NEW l \in Links, Match(l) PROVE SmokeInv'
<1>1. TypeOK'
  <2>1. orders' \in [Links -> [status : {"none", "open", "filled", "cancelled"}, qty : Nat]]
    BY MatchFacts DEF SmokeInv, TypeOK, Links
  <2>2. executions' \subseteq Executions /\ inbox' \subseteq executions'
        /\ facts' \subseteq executions'
    BY MatchFacts DEF SmokeInv, TypeOK, store
  <2>3. QED
    BY <2>1, <2>2, MatchFacts DEF SmokeInv, TypeOK, store
<1>2. /\ OrdersKept /\ ExecutionsOfOrders'
      /\ OpenOwned' \subseteq OpenOwned
      /\ \A k : IsBuy(k) \/ k = Foreign => (CoveredWithout(k) => CoveredWithout(k)')
      /\ \A k : IsBuy(k) => NetOf(PartsOf(k)) <= NetOf(PartsOf(k)')
  BY <1>1, OrderMatches
<1>3. IsFiniteSet(executions') /\ run' = run /\ intents' = intents /\ acks' = acks
  BY <1>2, MatchFacts DEF ExecutionsOfOrders, store
<1>4. StepsInOrder' /\ StoreMatchesExchange' /\ OpenIsListed' /\ SalesAreCovered'
  BY <1>1, <1>2, <1>3, QuietRun
<1>5. QED
  BY <1>1, <1>2, <1>4 DEF SmokeInv

LEMMA RestIsCancelledStep ==
  ASSUME SmokeInv, NEW l \in Links, RestIsCancelled(l) PROVE SmokeInv'
<1>1. l \in Owned
  BY DEF RestIsCancelled, Links, Foreign
<1>2. TypeOK'
  BY DEF SmokeInv, TypeOK, Links, RestIsCancelled, store
<1>3. /\ OrdersKept /\ ExecutionsOfOrders'
      /\ OpenOwned' = OpenOwned \ {l}
      /\ \A k : (Held(k) = Held(k)') /\ (CoveredWithout(k) => CoveredWithout(k)')
                   /\ PartsOf(k)' = PartsOf(k)
  BY <1>1, <1>2, OrderCloses DEF RestIsCancelled
<1>4. \A k : NetOf(PartsOf(k)) <= NetOf(PartsOf(k)')
  BY <1>3, HeldType DEF SmokeInv, ExecutionsOfOrders
<1>5. StepsInOrder' /\ StoreMatchesExchange' /\ OpenIsListed' /\ SalesAreCovered'
  BY <1>2, <1>3, <1>4, QuietRun DEF RestIsCancelled, store, ExecutionsOfOrders
<1>6. QED
  BY <1>2, <1>3, <1>5 DEF SmokeInv


\* The steps between two orders are steps of a run.
LEMMA StepsOfOrders ==
  /\ \A x \in {"submit_c"} \cup BeforeF \cup BeforeE :
        x \notin {"ended", "recover", "recover_cancel"}
  /\ \A p \in Submitted : IntentStep[p] \notin {"ended", "recover", "recover_cancel"}
BY DEF BeforeF, BeforeE, IntentStep, Submitted

\* A step to another line of the program that places no order, with what the store knows
\* of the orders as it was.
LEMMA MoveKeeps ==
  ASSUME SmokeInv, OrdersKept,
         \A l : (CoveredWithout(l) => CoveredWithout(l)') /\ PartsOf(l)' = PartsOf(l),
         intents' = intents, acks \subseteq acks', run' \in Runs, run'.id = run.id,
         run.pc # "ended", run'.outcome = run.outcome, run'.pc # "ended",
         run'.pc \in {"recover", "recover_cancel"} <=> run.pc \in {"recover", "recover_cancel"},
         run'.pc # "submit_c",
         run'.pc \in BeforeF => run.pc \in BeforeF,
         run'.pc \in BeforeE => run.pc \in BeforeF \cup BeforeE,
         run'.pc \in HasC \cup HasF => run.pc \in HasC \cup HasF,
         run'.pc \in HasF => run.pc \in HasF,
         run'.pc \in HasE => run.pc \in HasE,
         \A p \in Submitted : run'.pc # AckStep[p],
         \A p \in Submitted :
            run'.pc = IntentStep[p] => run.pc = AckStep[p] /\ Link(p) \in acks',
         run'.pc = "report" => OpenOwned' = {},
         run'.pc = "cleanup_cancel" => OpenOwned' \subseteq run'.todo,
         run'.pc = "cleanup_sell" => OpenOwned' = {},
         run'.pc \in {"emergency", "emergency_cancel", "submit_e"} =>
            run'.qty <= NetOf(PartsOf(Link("f")))
  PROVE  StepsInOrder' /\ StoreMatchesExchange' /\ OpenIsListed' /\ SalesAreCovered'
<1>2. StoreMatchesExchange'
  BY StoreKept DEF SmokeInv, TypeOK
<1>3. \A p : Link(p)' = Link(p)
  BY DEF Link
<1>4. StepsInOrder'
  <2>1. run'.pc \notin {"ended", "recover", "recover_cancel"} => run'.id # 0
    BY DEF SmokeInv, StepsInOrder
  <2>2. run'.pc \in {"submit_c"} \cup BeforeF => orders[Link("f")] = NoOrder
    BY DEF SmokeInv, StepsInOrder
  <2>3. run'.pc \in {"submit_c"} \cup BeforeF \cup BeforeE => orders[Link("e")] = NoOrder
    BY DEF SmokeInv, StepsInOrder
  <2>4. /\ run'.pc \in HasC \cup HasF => Link("c") \in DOMAIN intents
        /\ run'.pc \in HasF => Link("f") \in DOMAIN intents
        /\ run'.pc \in HasE => Link("e") \in DOMAIN intents
    BY DEF SmokeInv, StepsInOrder
  <2>5. \A p \in Submitted :
          /\ run'.pc # AckStep[p]
          /\ run'.pc = IntentStep[p] => orders[Link(p)] # NoOrder /\ Link(p) \in acks'
    BY DEF SmokeInv, StepsInOrder
  <2>6. /\ \A x \in {"submit_c"} \cup BeforeF \cup BeforeE :
              x \notin {"ended", "recover", "recover_cancel"}
        /\ \A p \in Submitted : IntentStep[p] \notin {"ended", "recover", "recover_cancel"}
    BY StepsOfOrders
  <2>7. run'.pc \notin {"ended", "recover", "recover_cancel"} =>
          \A p \in Submitted : orders'[Link(p)] = NoOrder <=> orders[Link(p)] = NoOrder
    BY LinkOwned DEF OrdersKept, Links, Submitted, Purposes
  <2>8. {"c", "f", "e"} = Submitted
    BY DEF Submitted
  <2>9. QED
    BY <1>3, <2>1, <2>2, <2>3, <2>4, <2>5, <2>6, <2>7, <2>8 DEF StepsInOrder
<1>5. OpenIsListed'
  BY DEF SmokeInv, OpenIsListed, EndedRunsLeaveNothingOpen
<1>6. SalesAreCovered'
  <2>1. CoveredWithout(Foreign)' /\ orders'[Foreign].status # "cancelled"
    BY DEF SmokeInv, SalesAreCovered, OrdersKept
  <2>2. run'.pc \in Early => CoveredWithout(Link("f"))'
    <3>1. \A l : l = Link("f") => (CoveredWithout(l)' => CoveredWithout(Link("f"))')
      BY <1>3 DEF CoveredWithout, Held, OthersThan
    <3>2. run'.pc \in Early => run.pc \in Early
      BY DEF Early
    <3>3. QED
      BY <3>1, <3>2 DEF SmokeInv, SalesAreCovered
  <2>3. PartsOf(Link("f"))' = PartsOf(Link("f"))
    <3>1. \A l : l = Link("f") => PartsOf(Link("f"))' = PartsOf(l)'
      BY <1>3 DEF PartsOf
    <3>2. QED
      BY <3>1
  <2>4. QED
    BY <2>1, <2>2, <2>3 DEF SalesAreCovered
<1>7. QED
  BY <1>2, <1>4, <1>5, <1>6

LEMMA StartStep == ASSUME SmokeInv, Start PROVE SmokeInv'
<1>1. /\ run' = [id |-> run.id + 1, pc |-> "submit_c", todo |-> {}, qty |-> 0,
                 outcome |-> "none"]
      /\ run.id \in 0..MaxRuns /\ run.id < MaxRuns
      /\ orders' = orders /\ executions' = executions /\ UNCHANGED <<exchange, store>>
  BY DEF Start, SmokeInv, TypeOK, exchange
<1>2. run.id + 1 \in 1..MaxRuns /\ run.id + 1 \in Nat
  BY <1>1, QuantityAssumption
<1>3. "submit_c" \in Pcs
  BY DEF Pcs
<1>4. run' \in Runs
  BY <1>1, <1>2, <1>3 DEF Runs, Outcomes
<1>5. TypeOK'
  BY <1>1, <1>4 DEF SmokeInv, TypeOK, Runs, exchange, store
<1>6. /\ OrdersKept /\ ExecutionsOfOrders' /\ OpenOwned' = OpenOwned
      /\ \A l : (Held(l) = Held(l)') /\ (CoveredWithout(l) => CoveredWithout(l)')
  BY <1>1, OrdersSame
<1>7. StoreMatchesExchange'
  <2>1. run.id <= run'.id /\ run'.id \in Nat
    BY <1>1, <1>2
  <2>2. intents' = intents /\ acks \subseteq acks'
    BY <1>1 DEF store
  <2>3. QED
    BY <1>6, <2>1, <2>2, StoreKept
\* The orders of the new run are not placed yet.
<1>8. ASSUME NEW p \in Purposes
      PROVE  <<run.id + 1, p>> \in Owned /\ orders[<<run.id + 1, p>>] = NoOrder
             /\ Link(p)' = <<run.id + 1, p>>
  <2>1. <<run.id + 1, p>> \in Owned /\ <<run.id + 1, p>>[1] > run.id
    BY <1>1, <1>2 DEF Owned
  <2>2. QED
    BY <1>1, <2>1 DEF SmokeInv, StoreMatchesExchange, Link
<1>9. StepsInOrder'
  BY <1>1, <1>2, <1>8 DEF StepsInOrder, Purposes, Submitted, AckStep, IntentStep, HasC, HasF,
                          HasE, BeforeF, BeforeE
<1>10. OpenIsListed'
  BY <1>1 DEF OpenIsListed, EndedRunsLeaveNothingOpen
<1>11. SalesAreCovered'
  <2>1. CoveredWithout(Foreign)' /\ orders'[Foreign].status # "cancelled"
    BY <1>1, <1>6 DEF SmokeInv, SalesAreCovered
  <2>2. CoveredWithout(Link("f"))'
    <3>1. \A e \in executions' : e.link # <<run.id + 1, "f">>
      <4>1. \A e \in executions : orders[e.link] # NoOrder
        BY DEF SmokeInv, ExecutionsOfOrders
      <4>2. QED
        BY <1>1, <1>8, <4>1 DEF Purposes
    <3>2. {e \in executions' : e.link # Foreign /\ e.link # <<run.id + 1, "f">>}
            = {e \in executions' : e.link # Foreign /\ e.link # Foreign}
      BY <3>1
    <3>3. Link("f")' = <<run.id + 1, "f">>
      BY <1>1 DEF Link
    <3>4. QED
      BY <2>1, <3>2, <3>3 DEF CoveredWithout, Held, OthersThan
  <2>3. QED
    BY <1>1, <2>1, <2>2 DEF SalesAreCovered
<1>12. QED
  BY <1>5, <1>6, <1>7, <1>9, <1>10, <1>11 DEF SmokeInv

\* What a step reads of the exchange and writes to the store besides the order links.
Proofs == (1..MaxRuns) \X {"EMERGENCY_COMMAND_ACCEPTED", "PROTOCOL_SMOKE_COMPLETED"}
ReadsOnly ==
    /\ orders' = orders /\ executions' = executions
    /\ inbox' \subseteq executions /\ facts' \subseteq executions
    /\ intents' = intents /\ proof' \subseteq Proofs

LEMMA ReadsOnlyTypes ==
  ASSUME SmokeInv, ReadsOnly, acks' \subseteq Owned, run' \in Runs
  PROVE  TypeOK'
BY DEF SmokeInv, TypeOK, ReadsOnly, Runs, Proofs

LEMMA UnchangedReads ==
  ASSUME SmokeInv, UNCHANGED <<exchange, store>>
  PROVE  ReadsOnly /\ acks' = acks /\ acks' \subseteq Owned
BY DEF SmokeInv, TypeOK, ReadsOnly, exchange, store, Proofs

LEMMA FailStep ==
  ASSUME SmokeInv, run.pc # "ended", Fail, ReadsOnly, acks' = acks
  PROVE  SmokeInv'
<1>1. run'.id = run.id /\ run' \in Runs
  BY FailIs DEF SmokeInv
<1>2. TypeOK'
  BY <1>1, ReadsOnlyTypes DEF SmokeInv, TypeOK
<1>3. /\ OrdersKept /\ ExecutionsOfOrders'
      /\ \A l : CoveredWithout(l) => CoveredWithout(l)'
  BY OrdersSame DEF ReadsOnly
<1>4. StoreMatchesExchange'
  BY <1>1, <1>3, StoreKept DEF SmokeInv, TypeOK, ReadsOnly
<1>5. StepsInOrder' /\ OpenIsListed' /\ SalesAreCovered'
  BY <1>3, FailKeeps DEF SmokeInv, SalesAreCovered, OrdersKept
<1>6. QED
  BY <1>2, <1>3, <1>4, <1>5 DEF SmokeInv

LEMMA EndStep ==
  ASSUME SmokeInv, NEW o \in Outcomes \ {"none"}, End(o), ReadsOnly, acks' = acks,
         o = "reported" => OpenOwned = {},
         o = "cleaned" => OpenOwned \subseteq {Link("r")}
  PROVE  SmokeInv'
<1>1. run'.id = run.id /\ run' \in Runs
  BY EndIs DEF SmokeInv
<1>2. TypeOK'
  BY <1>1, ReadsOnlyTypes DEF SmokeInv, TypeOK
<1>3. /\ OrdersKept /\ ExecutionsOfOrders' /\ OpenOwned' = OpenOwned
      /\ \A l : CoveredWithout(l) => CoveredWithout(l)'
  BY OrdersSame DEF ReadsOnly
<1>4. StoreMatchesExchange'
  BY <1>1, <1>3, StoreKept DEF SmokeInv, TypeOK, ReadsOnly
<1>5. StepsInOrder' /\ OpenIsListed' /\ SalesAreCovered'
  BY <1>3, EndKeeps DEF SmokeInv, SalesAreCovered, OrdersKept
<1>6. QED
  BY <1>2, <1>3, <1>4, <1>5 DEF SmokeInv

\* A step from one line of the program to the next, which places no order.
Follows(from, to) ==
    /\ from # "ended" /\ to # "ended" /\ to # "submit_c"
    /\ to \in {"recover", "recover_cancel"} <=> from \in {"recover", "recover_cancel"}
    /\ to \in BeforeF => from \in BeforeF
    /\ to \in BeforeE => from \in BeforeF \cup BeforeE
    /\ to \in HasC \cup HasF => from \in HasC \cup HasF
    /\ to \in HasF => from \in HasF
    /\ to \in HasE => from \in HasE
    /\ \A p \in Submitted : to # AckStep[p] /\ to # IntentStep[p]
    /\ to \notin {"report", "cleanup_cancel", "cleanup_sell"}
    /\ to \in {"emergency", "emergency_cancel", "submit_e"} =>
        from \in {"emergency", "emergency_cancel", "submit_e"}

LEMMA GoToStep ==
  ASSUME SmokeInv, NEW pc \in Pcs, GoTo(pc), ReadsOnly, acks' = acks, Follows(run.pc, pc)
  PROVE  SmokeInv'
<1>1. /\ run'.id = run.id /\ run'.pc = pc /\ run'.qty = run.qty /\ run'.outcome = run.outcome
      /\ run' \in Runs
  BY GoToIs DEF SmokeInv
<1>2. TypeOK'
  BY <1>1, ReadsOnlyTypes DEF SmokeInv, TypeOK
<1>3. run'.pc \in {"emergency", "emergency_cancel", "submit_e"} =>
        run'.qty <= NetOf(PartsOf(Link("f")))
  BY <1>1 DEF Follows, SmokeInv, SalesAreCovered
<1>4. /\ OrdersKept /\ ExecutionsOfOrders'
      /\ \A l : (CoveredWithout(l) => CoveredWithout(l)') /\ PartsOf(l)' = PartsOf(l)
  BY OrdersSame DEF ReadsOnly
<1>5. StepsInOrder' /\ StoreMatchesExchange' /\ OpenIsListed' /\ SalesAreCovered'
  BY <1>1, <1>3, <1>4, MoveKeeps DEF ReadsOnly, Follows
<1>6. QED
  BY <1>2, <1>4, <1>5 DEF SmokeInv

LEMMA CallFailsStep == ASSUME SmokeInv, CallFails PROVE SmokeInv'
BY UnchangedReads, FailStep DEF CallFails, At

LEMMA QueryOrderStep == ASSUME SmokeInv, QueryOrder PROVE SmokeInv'
<1>1. ReadsOnly /\ acks' = acks /\ run.pc = "query"
  BY UnchangedReads DEF QueryOrder, At
<1>2. CASE Fail
  BY <1>1, <1>2, FailStep
<1>3. CASE GoTo("cancel")
  <2>1. "cancel" \in Pcs /\ Follows("query", "cancel")
    BY DEF Pcs, Follows, BeforeF, BeforeE, HasC, HasF, HasE, Submitted, AckStep, IntentStep
  <2>2. QED
    BY <1>1, <1>3, <2>1, GoToStep
<1>4. QED
  BY <1>2, <1>3 DEF QueryOrder

LEMMA PumpStep == ASSUME SmokeInv, PumpPrivateEvents PROVE SmokeInv'
<1>1. /\ run.pc \in {"pump_c", "pump_f", "pump_e"}
      /\ GoTo(AfterPump[run.pc]) \/ Fail
      /\ ReadsOnly /\ acks' = acks
  BY DEF PumpPrivateEvents, SmokeInv, TypeOK, ReadsOnly, AfterPump, Proofs
<1>2. CASE Fail
  BY <1>1, <1>2, FailStep
<1>3. CASE GoTo(AfterPump[run.pc])
  <2>1. AfterPump[run.pc] \in Pcs /\ Follows(run.pc, AfterPump[run.pc])
    BY <1>1 DEF Pcs, Follows, BeforeF, BeforeE, HasC, HasF, HasE, Submitted, AckStep,
                IntentStep, AfterPump
  <2>2. QED
    BY <1>1, <1>3, <2>1, GoToStep
<1>4. QED
  BY <1>1, <1>2, <1>3

LEMMA EvidenceSteps ==
  ASSUME SmokeInv, EmergencyEvidence \/ EvidenceCounts PROVE SmokeInv'
<1>1. CASE EmergencyEvidence
  <2>1. run.pc = "evidence" /\ GoTo("pump_e")
    BY <1>1 DEF EmergencyEvidence, At
  <2>2. run.id \in 1..MaxRuns
    BY <2>1, LinkOwned DEF Purposes
  <2>3. ReadsOnly /\ acks' = acks
    BY <1>1, <2>2 DEF EmergencyEvidence, SmokeInv, TypeOK, ReadsOnly, Proofs, exchange
  <2>4. "pump_e" \in Pcs /\ Follows("evidence", "pump_e")
    BY DEF Pcs, Follows, BeforeF, BeforeE, HasC, HasF, HasE, Submitted, AckStep, IntentStep,
           AfterPump
  <2>5. QED
    BY <2>1, <2>3, <2>4, GoToStep
<1>2. CASE EvidenceCounts
  <2>1. ReadsOnly /\ acks' = acks /\ run.pc = "counts" /\ (GoTo("reconcile") \/ Fail)
    BY <1>2, UnchangedReads DEF EvidenceCounts, At
  <2>2. "reconcile" \in Pcs /\ Follows("counts", "reconcile")
    BY DEF Pcs, Follows, BeforeF, BeforeE, HasC, HasF, HasE, Submitted, AckStep, IntentStep
  <2>3. QED
    BY <2>1, <2>2, GoToStep, FailStep
<1>3. QED
  BY <1>1, <1>2

LEMMA EndSteps == ASSUME SmokeInv, Report \/ Crash PROVE SmokeInv'
<1>1. CASE Report
  <2>1. run.pc = "report" /\ End("reported")
    BY <1>1 DEF Report, At
  <2>2. run.id \in 1..MaxRuns
    BY <2>1, LinkOwned DEF Purposes
  <2>3. ReadsOnly /\ acks' = acks
    BY <1>1, <2>2 DEF Report, SmokeInv, TypeOK, ReadsOnly, Proofs, exchange
  <2>4. OpenOwned = {}
    BY <2>1 DEF SmokeInv, OpenIsListed
  <2>5. QED
    BY <2>1, <2>3, <2>4, EndStep DEF Outcomes
<1>2. CASE Crash
  <2>1. End("crashed") /\ ReadsOnly /\ acks' = acks
    BY <1>2 DEF Crash, SmokeInv, TypeOK, ReadsOnly, Proofs, store
  <2>2. QED
    BY <2>1, EndStep DEF Outcomes
<1>3. QED
  BY <1>1, <1>2

LEMMA RecordAckStep == ASSUME SmokeInv, NEW p \in Submitted, RecordAck(p) PROVE SmokeInv'
<1>1. /\ run.pc = AckStep[p] /\ GoTo(IntentStep[p]) /\ acks' = acks \cup {Link(p)}
      /\ UNCHANGED <<exchange, intents, facts, proof>>
  BY DEF RecordAck, At
<1>2. AckStep[p] \in {"ack_c", "ack_f", "ack_e"} /\ IntentStep[p] \in Pcs /\ p \in Purposes
  BY DEF AckStep, IntentStep, Pcs, Submitted, Purposes
<1>3. ReadsOnly /\ acks' \subseteq Owned
  BY <1>1, <1>2, LinkOwned DEF SmokeInv, TypeOK, ReadsOnly, Proofs, exchange
<1>4. /\ run'.id = run.id /\ run'.pc = IntentStep[p] /\ run'.outcome = run.outcome
      /\ run' \in Runs
  BY <1>1, <1>2, GoToIs DEF SmokeInv
<1>5. TypeOK'
  BY <1>3, <1>4, ReadsOnlyTypes
<1>6. /\ OrdersKept /\ ExecutionsOfOrders'
      /\ \A l : (CoveredWithout(l) => CoveredWithout(l)') /\ PartsOf(l)' = PartsOf(l)
  BY <1>3, OrdersSame DEF ReadsOnly
<1>7. /\ run.pc # "ended" /\ run'.pc # "ended" /\ run'.pc # "submit_c"
      /\ run'.pc \in {"recover", "recover_cancel"} <=> run.pc \in {"recover", "recover_cancel"}
      /\ run'.pc \in BeforeF => run.pc \in BeforeF
      /\ run'.pc \in BeforeE => run.pc \in BeforeF \cup BeforeE
      /\ run'.pc \in HasC \cup HasF => run.pc \in HasC \cup HasF
      /\ run'.pc \in HasF => run.pc \in HasF
      /\ run'.pc \in HasE => run.pc \in HasE
      /\ \A q \in Submitted : run'.pc # AckStep[q]
      /\ \A q \in Submitted :
            run'.pc = IntentStep[q] => run.pc = AckStep[q] /\ Link(q) \in acks'
      /\ run'.pc \notin {"report", "cleanup_cancel", "cleanup_sell", "emergency",
                         "emergency_cancel", "submit_e"}
  BY <1>1, <1>4 DEF BeforeF, BeforeE, HasC, HasF, HasE, Submitted, AckStep, IntentStep
<1>8. StepsInOrder' /\ StoreMatchesExchange' /\ OpenIsListed' /\ SalesAreCovered'
  BY <1>1, <1>3, <1>4, <1>6, <1>7, MoveKeeps DEF ReadsOnly
<1>9. QED
  BY <1>5, <1>6, <1>8 DEF SmokeInv

LEMMA ReconcileStep == ASSUME SmokeInv, Reconcile PROVE SmokeInv'
<1>1. run.pc = "reconcile" /\ ReadsOnly /\ acks' = acks
  BY DEF Reconcile, At, SmokeInv, TypeOK, ReadsOnly, Proofs, store
<1>2. CASE Fail
  BY <1>1, <1>2, FailStep
<1>3. CASE GoTo("report") /\ Converged
  <2>1. /\ run'.id = run.id /\ run'.pc = "report" /\ run'.outcome = run.outcome
        /\ run' \in Runs
    BY <1>3, GoToIs DEF SmokeInv, Pcs
  <2>2. TypeOK'
    BY <1>1, <2>1, ReadsOnlyTypes DEF SmokeInv, TypeOK
  <2>3. /\ OrdersKept /\ ExecutionsOfOrders' /\ OpenOwned' = OpenOwned
        /\ \A l : (CoveredWithout(l) => CoveredWithout(l)') /\ PartsOf(l)' = PartsOf(l)
    BY <1>1, OrdersSame DEF ReadsOnly
  <2>4. /\ "report" \notin BeforeF \cup BeforeE \cup HasC
        /\ "reconcile" \in HasF /\ "reconcile" \in HasE
        /\ \A q \in Submitted : "report" # AckStep[q] /\ "report" # IntentStep[q]
    BY DEF BeforeF, BeforeE, HasC, HasF, HasE, Submitted, AckStep, IntentStep
  <2>5. StepsInOrder' /\ StoreMatchesExchange' /\ OpenIsListed' /\ SalesAreCovered'
    BY <1>1, <1>3, <2>1, <2>3, <2>4, MoveKeeps DEF ReadsOnly, Converged
  <2>6. QED
    BY <2>2, <2>3, <2>5 DEF SmokeInv
<1>4. QED
  BY <1>2, <1>3 DEF Reconcile

LEMMA ManagedStep == ASSUME SmokeInv, ManagedBoughtQuantity PROVE SmokeInv'
<1>1. run.pc = "managed" /\ ReadsOnly /\ acks' = acks
  BY UnchangedReads DEF ManagedBoughtQuantity, At
<1>2. CASE Fail
  BY <1>1, <1>2, FailStep
<1>3. CASE Managed > 0 /\ run' = [run EXCEPT !.pc = "emergency", !.qty = Managed]
  <2> DEFINE D == {e \in facts : e.link = Link("f")}
             E == PartsOf(Link("f"))
  <2>1. D \in SUBSET E /\ E \subseteq Executions /\ IsFiniteSet(E)
    BY FS_Subset DEF PartsOf, SmokeInv, TypeOK, ExecutionsOfOrders
  <2>2. \A e \in E : IsBuy(e.link) /\ e.qty = BuyQty
    BY DEF PartsOf, SmokeInv, ExecutionsOfOrders, IsBuy, Link
  <2>3. NetOf(D) <= NetOf(E)
    <3> HIDE DEF D, E
    <3> QED
      BY <2>1, <2>2, NetOfBuys
  <2>4. IsFiniteSet(D) /\ D \subseteq Executions
    BY <2>1, FS_Subset
  <2>5. Managed = NetOf(D) /\ Managed \in Int
    <3>1. NetOf(D) \in Int
      BY <2>4, NetType
    <3>2. QED
      BY <3>1 DEF Managed
  <2>6. Managed \in Nat
    BY <1>3, <2>5
  <2>7. run' = [id |-> run.id, pc |-> "emergency", todo |-> run.todo, qty |-> Managed,
                outcome |-> run.outcome]
    BY <1>3 DEF SmokeInv, TypeOK
  <2>8. run' \in Runs /\ run'.id = run.id /\ run'.pc = "emergency" /\ run'.qty = Managed
        /\ run'.outcome = run.outcome
    BY <2>6, <2>7 DEF SmokeInv, TypeOK, Runs, Pcs
  <2>9. TypeOK'
    BY <1>1, <2>8, ReadsOnlyTypes DEF SmokeInv, TypeOK
  <2>10. /\ OrdersKept /\ ExecutionsOfOrders'
         /\ \A l : (CoveredWithout(l) => CoveredWithout(l)') /\ PartsOf(l)' = PartsOf(l)
    BY <1>1, OrdersSame DEF ReadsOnly
  <2>11. /\ "emergency" \notin BeforeF \cup HasC \cup HasE /\ "managed" \in BeforeE
         /\ "managed" \in HasF
         /\ \A q \in Submitted : "emergency" # AckStep[q] /\ "emergency" # IntentStep[q]
    BY DEF BeforeF, BeforeE, HasC, HasF, HasE, Submitted, AckStep, IntentStep
  <2>12. run'.qty <= NetOf(PartsOf(Link("f")))
    BY <2>3, <2>5, <2>8
  <2>13. StepsInOrder' /\ StoreMatchesExchange' /\ OpenIsListed' /\ SalesAreCovered'
    BY <1>1, <2>8, <2>10, <2>11, <2>12, MoveKeeps DEF ReadsOnly
  <2>14. QED
    BY <2>9, <2>10, <2>13 DEF SmokeInv
<1>4. QED
  BY <1>2, <1>3 DEF ManagedBoughtQuantity


-----------------------------------------------------------------------------
(* Lists of open orders and cancels.                                          *)

Closes(l) ==
    /\ orders[l].status = "open"
    /\ orders' = [orders EXCEPT ![l].status = "cancelled"]
    /\ UNCHANGED <<executions, inbox, store>>

LEMMA CloseFacts ==
  ASSUME SmokeInv, NEW l \in Owned, Closes(l), run' \in Runs
  PROVE  /\ TypeOK' /\ OrdersKept /\ ExecutionsOfOrders' /\ OpenOwned' = OpenOwned \ {l}
         /\ \A k : (CoveredWithout(k) => CoveredWithout(k)') /\ PartsOf(k)' = PartsOf(k)
         /\ intents' = intents /\ acks' = acks
<1>1. TypeOK'
  BY DEF SmokeInv, TypeOK, Links, Closes, store, Runs
<1>2. QED
  BY <1>1, OrderCloses DEF Closes, store

LEMMA CloseFails ==
  ASSUME SmokeInv, NEW l \in Owned, Closes(l), run.pc # "ended", Fail
  PROVE  SmokeInv'
<1>1. run'.id = run.id /\ run' \in Runs
  BY FailIs DEF SmokeInv
<1>2. /\ TypeOK' /\ OrdersKept /\ ExecutionsOfOrders'
      /\ \A k : (CoveredWithout(k) => CoveredWithout(k)')
      /\ intents' = intents /\ acks' = acks
  BY <1>1, CloseFacts
<1>3. StoreMatchesExchange'
  BY <1>1, <1>2, StoreKept DEF SmokeInv, TypeOK
<1>4. StepsInOrder' /\ OpenIsListed' /\ SalesAreCovered'
  BY <1>2, FailKeeps DEF SmokeInv, SalesAreCovered, OrdersKept
<1>5. QED
  BY <1>2, <1>3, <1>4 DEF SmokeInv

LEMMA CancelProbeStep == ASSUME SmokeInv, CancelProbe PROVE SmokeInv'
<1>1. run.pc = "cancel"
  BY DEF CancelProbe, At
<1>2. Link("c") \in Owned
  BY <1>1, LinkOwned DEF Purposes
<1>3. CASE orders[Link("c")].status # "open"
  <2>1. Fail /\ ReadsOnly /\ acks' = acks
    BY <1>3 DEF CancelProbe, Cancel, ReadsOnly, SmokeInv, TypeOK, Proofs, store
  <2>2. QED
    BY <1>1, <2>1, FailStep
<1>4. CASE orders[Link("c")].status = "open"
  <2>1. Closes(Link("c")) /\ (GoTo("pump_c") \/ Fail)
    BY <1>4 DEF CancelProbe, Cancel, Closes
  <2>2. CASE Fail
    BY <1>1, <1>2, <2>1, <2>2, CloseFails
  <2>3. CASE GoTo("pump_c")
    <3>1. /\ run'.id = run.id /\ run'.pc = "pump_c" /\ run'.outcome = run.outcome
          /\ run' \in Runs
      BY <2>3, GoToIs DEF SmokeInv, Pcs, AfterPump
    <3>2. /\ TypeOK' /\ OrdersKept /\ ExecutionsOfOrders'
          /\ \A k : (CoveredWithout(k) => CoveredWithout(k)') /\ PartsOf(k)' = PartsOf(k)
          /\ intents' = intents /\ acks' = acks
      BY <1>2, <2>1, <3>1, CloseFacts
    <3>3. /\ "pump_c" \notin BeforeE \cup HasF \cup HasE /\ "cancel" \in BeforeF
          /\ "cancel" \in HasC
          /\ \A q \in Submitted : "pump_c" # AckStep[q] /\ "pump_c" # IntentStep[q]
      BY DEF BeforeF, BeforeE, HasC, HasF, HasE, Submitted, AckStep, IntentStep
    <3>4. StepsInOrder' /\ StoreMatchesExchange' /\ OpenIsListed' /\ SalesAreCovered'
      BY <1>1, <3>1, <3>2, <3>3, MoveKeeps
    <3>5. QED
      BY <3>2, <3>4 DEF SmokeInv
  <2>4. QED
    BY <2>1, <2>2, <2>3
<1>5. QED
  BY <1>3, <1>4

ListsAndCancels == {"emergency", "emergency_cancel", "cleanup", "cleanup_cancel", "recover",
                    "recover_cancel"}

\* What the lists and the cancels leave of a run: its steps are the lines of one list.
LEMMA ListMoves ==
  ASSUME SmokeInv, OrdersKept, ExecutionsOfOrders', TypeOK',
         \A l : (CoveredWithout(l) => CoveredWithout(l)') /\ PartsOf(l)' = PartsOf(l),
         intents' = intents, acks' = acks, run' \in Runs, run'.id = run.id,
         run'.outcome = run.outcome, run'.qty = run.qty,
         run.pc \in ListsAndCancels, run'.pc \in ListsAndCancels,
         run'.pc \in {"recover", "recover_cancel"} <=> run.pc \in {"recover", "recover_cancel"},
         run'.pc \in {"emergency", "emergency_cancel"}
            <=> run.pc \in {"emergency", "emergency_cancel"},
         run'.pc = "cleanup_cancel" => OpenOwned' \subseteq run'.todo
  PROVE  SmokeInv'
<1>1. /\ \A x \in ListsAndCancels :
            /\ x \notin BeforeF \cup HasC \cup HasE \cup {"ended", "submit_c", "report",
                                                          "cleanup_sell", "submit_e"}
            /\ x \in BeforeE <=> x \in {"emergency", "emergency_cancel"}
            /\ x \in HasF <=> x \in {"emergency", "emergency_cancel"}
            /\ \A q \in Submitted : x # AckStep[q] /\ x # IntentStep[q]
  BY DEF ListsAndCancels, BeforeF, BeforeE, HasC, HasF, HasE, Submitted, AckStep, IntentStep
<1>2. run'.pc \in {"emergency", "emergency_cancel", "submit_e"} =>
        run'.qty <= NetOf(PartsOf(Link("f")))
  BY <1>1 DEF SmokeInv, SalesAreCovered
<1>3. StepsInOrder' /\ StoreMatchesExchange' /\ OpenIsListed' /\ SalesAreCovered'
  BY <1>1, <1>2, MoveKeeps
<1>4. QED
  BY <1>3 DEF SmokeInv

LEMMA ListStep ==
  ASSUME SmokeInv, NEW from, NEW to, ListOpenOwned(from, to),
         <<from, to>> \in {<<"emergency", "emergency_cancel">>, <<"cleanup", "cleanup_cancel">>,
                           <<"recover", "recover_cancel">>}
  PROVE  SmokeInv'
<1>1. run.pc = from /\ ReadsOnly /\ acks' = acks
  BY UnchangedReads DEF ListOpenOwned, At
<1>2. to \in Pcs /\ OpenOwned \subseteq Owned
  BY DEF Pcs, Cleaning, OpenOwned
<1>3. run' = [id |-> run.id, pc |-> to, todo |-> OpenOwned, qty |-> run.qty,
              outcome |-> run.outcome]
  BY DEF ListOpenOwned, SmokeInv, TypeOK
<1>4. run' \in Runs
  BY <1>2, <1>3 DEF SmokeInv, TypeOK, Runs
<1>5. TypeOK'
  BY <1>1, <1>4, ReadsOnlyTypes DEF SmokeInv, TypeOK
<1>6. /\ OrdersKept /\ ExecutionsOfOrders' /\ OpenOwned' = OpenOwned
      /\ \A l : (CoveredWithout(l) => CoveredWithout(l)') /\ PartsOf(l)' = PartsOf(l)
  BY <1>1, OrdersSame DEF ReadsOnly
<1>7. /\ run'.id = run.id /\ run'.pc = to /\ run'.todo = OpenOwned /\ run'.qty = run.qty
      /\ run'.outcome = run.outcome
  BY <1>3
<1>8. /\ from \in ListsAndCancels /\ to \in ListsAndCancels
      /\ to \in {"recover", "recover_cancel"} <=> from \in {"recover", "recover_cancel"}
      /\ to \in {"emergency", "emergency_cancel"} <=> from \in {"emergency", "emergency_cancel"}
  BY DEF ListsAndCancels
<1>9. QED
  BY <1>1, <1>4, <1>5, <1>6, <1>7, <1>8, ListMoves DEF ReadsOnly

\* One order of the list is cancelled, or the clean-up fails on it.
LEMMA CancelOneStep ==
  ASSUME SmokeInv, run.pc \in {"emergency_cancel", "cleanup_cancel", "recover_cancel"},
         NEW l \in run.todo, Cancel(l, run' = [run EXCEPT !.todo = @ \ {l}])
  PROVE  SmokeInv'
<1>1. l \in Owned
  BY DEF SmokeInv, TypeOK
<1>2. CASE orders[l].status # "open"
  <2>1. Fail /\ ReadsOnly /\ acks' = acks
    BY <1>2 DEF Cancel, ReadsOnly, SmokeInv, TypeOK, Proofs, store
  <2>2. QED
    BY <2>1, FailStep
<1>3. CASE orders[l].status = "open" /\ Fail
  <2>1. Closes(l)
    BY <1>3 DEF Cancel, Closes
  <2>2. QED
    BY <1>1, <1>3, <2>1, CloseFails
<1>4. CASE orders[l].status = "open" /\ run' = [run EXCEPT !.todo = @ \ {l}]
  <2>1. Closes(l)
    BY <1>4 DEF Cancel, Closes
  <2>2. run' = [id |-> run.id, pc |-> run.pc, todo |-> run.todo \ {l}, qty |-> run.qty,
                outcome |-> run.outcome]
    BY <1>4 DEF SmokeInv, TypeOK
  <2>3. run' \in Runs
    BY <2>2 DEF SmokeInv, TypeOK, Runs
  <2>4. /\ TypeOK' /\ OrdersKept /\ ExecutionsOfOrders' /\ OpenOwned' = OpenOwned \ {l}
        /\ \A k : (CoveredWithout(k) => CoveredWithout(k)') /\ PartsOf(k)' = PartsOf(k)
        /\ intents' = intents /\ acks' = acks
    BY <1>1, <2>1, <2>3, CloseFacts
  <2>5. /\ run'.id = run.id /\ run'.pc = run.pc /\ run'.todo = run.todo \ {l}
        /\ run'.qty = run.qty /\ run'.outcome = run.outcome
    BY <2>2
  <2>6. run'.pc = "cleanup_cancel" => OpenOwned' \subseteq run'.todo
    BY <2>4, <2>5 DEF SmokeInv, OpenIsListed
  <2>7. run.pc \in ListsAndCancels
    BY DEF ListsAndCancels
  <2>8. QED
    BY <2>3, <2>4, <2>5, <2>6, <2>7, ListMoves
<1>5. QED
  BY <1>2, <1>3, <1>4 DEF Cancel

LEMMA CancelListedSteps ==
  ASSUME SmokeInv, EmergencyCancel \/ CleanupCancel \/ RecoveryCancel PROVE SmokeInv'
<1>1. /\ run.pc \in {"emergency_cancel", "cleanup_cancel", "recover_cancel"}
      /\ \/ run.todo = {} /\ UNCHANGED <<exchange, store>>
         \/ \E l \in run.todo : Cancel(l, run' = [run EXCEPT !.todo = @ \ {l}])
  BY DEF EmergencyCancel, CleanupCancel, RecoveryCancel, CancelListed, At
<1>2. CASE \E l \in run.todo : Cancel(l, run' = [run EXCEPT !.todo = @ \ {l}])
  BY <1>1, <1>2, CancelOneStep
<1>3. CASE ~ \E l \in run.todo : Cancel(l, run' = [run EXCEPT !.todo = @ \ {l}])
  <2>1. ReadsOnly /\ acks' = acks /\ run.todo = {}
    BY <1>1, <1>3, UnchangedReads
  <2>2. CASE EmergencyCancel
    <3>1. run.pc = "emergency_cancel" /\ GoTo("submit_e")
      BY <1>3, <2>2 DEF EmergencyCancel, CancelListed, At
    <3>2. "submit_e" \in Pcs /\ Follows("emergency_cancel", "submit_e")
      BY DEF Pcs, Follows, BeforeF, BeforeE, HasC, HasF, HasE, Submitted, AckStep, IntentStep
    <3>3. QED
      BY <2>1, <3>1, <3>2, GoToStep
  <2>3. CASE RecoveryCancel
    <3>1. run.pc = "recover_cancel" /\ End("recovered")
      BY <1>3, <2>3 DEF RecoveryCancel, CancelListed, At
    <3>2. QED
      BY <2>1, <3>1, EndStep DEF Outcomes
  <2>4. CASE CleanupCancel
    <3>1. run.pc = "cleanup_cancel" /\ GoTo("cleanup_sell")
      BY <1>3, <2>4 DEF CleanupCancel, CancelListed, At
    <3>2. /\ run'.id = run.id /\ run'.pc = "cleanup_sell" /\ run'.outcome = run.outcome
          /\ run' \in Runs
      BY <3>1, GoToIs DEF SmokeInv, Pcs, Cleaning
    <3>3. TypeOK'
      BY <2>1, <3>2, ReadsOnlyTypes DEF SmokeInv, TypeOK
    <3>4. /\ OrdersKept /\ ExecutionsOfOrders' /\ OpenOwned' = OpenOwned
          /\ \A l : (CoveredWithout(l) => CoveredWithout(l)') /\ PartsOf(l)' = PartsOf(l)
      BY <2>1, OrdersSame DEF ReadsOnly
    <3>5. OpenOwned' = {}
      BY <2>1, <3>1, <3>4 DEF SmokeInv, OpenIsListed
    <3>6. /\ "cleanup_sell" \notin BeforeF \cup BeforeE \cup HasC \cup HasF \cup HasE
          /\ \A q \in Submitted : "cleanup_sell" # AckStep[q] /\ "cleanup_sell" # IntentStep[q]
      BY DEF BeforeF, BeforeE, HasC, HasF, HasE, Submitted, AckStep, IntentStep
    <3>7. StepsInOrder' /\ StoreMatchesExchange' /\ OpenIsListed' /\ SalesAreCovered'
      BY <2>1, <3>1, <3>2, <3>4, <3>5, <3>6, MoveKeeps DEF ReadsOnly
    <3>8. QED
      BY <3>3, <3>4, <3>7 DEF SmokeInv
  <2>5. QED
    BY <2>2, <2>3, <2>4
<1>4. QED
  BY <1>2, <1>3


-----------------------------------------------------------------------------
(* New orders.                                                                *)

Places(l, q) ==
    /\ orders[l] = NoOrder
    /\ Placed(l, q)
    /\ UNCHANGED <<executions, inbox, store>>

SubmitStep == [c |-> "submit_c", f |-> "submit_f", e |-> "submit_e"]

\* A new order is the only one of its run that the store may not know.
LEMMA PlaceFacts ==
  ASSUME SmokeInv, NEW p \in Purposes, NEW q \in Nat, Places(Link(p), q),
         run.pc \notin {"ended", "recover", "recover_cancel"}, run' \in Runs, run'.id = run.id,
         \A o \in Submitted \ {p} : p \in Submitted => ~Unrecorded(run.id, o)
  PROVE  /\ TypeOK' /\ ExecutionsOfOrders' /\ StoreMatchesExchange'
         /\ OpenOwned' = OpenOwned \cup {Link(p)}
         /\ orders'[Foreign].status # "cancelled" /\ orders'[Link(p)] # NoOrder
         /\ \A o \in Purposes \ {p} : orders'[Link(o)] = orders[Link(o)]
         /\ IsBuy(Link(p)) => \A k : CoveredWithout(k) => CoveredWithout(k)'
         /\ ~IsBuy(Link(p)) => Exposure' = Exposure + q
         /\ \A k : (Held(k) = Held(k)') /\ PartsOf(k)' = PartsOf(k)
<1>1. PICK l \in Owned : l = Link(p)
  BY LinkOwned
<1>2. l = <<run.id, p>> /\ l[1] = run.id /\ l[2] = p /\ l \in Links /\ run.id \in 1..MaxRuns
  BY <1>1, LinkOwned DEF Link, Links
<1>3. TypeOK'
  <2>1. orders' \in [Links -> [status : {"none", "open", "filled", "cancelled"}, qty : Nat]]
    BY <1>1, <1>2 DEF SmokeInv, TypeOK, Places, Placed
  <2>2. QED
    BY <2>1 DEF SmokeInv, TypeOK, Places, Runs, store
<1>4. /\ \A k \in Links \ {l} : orders'[k] = orders[k]
      /\ orders'[l] = [status |-> "open", qty |-> q]
      /\ ExecutionsOfOrders'
      /\ OpenOwned' = OpenOwned \cup {l}
      /\ IsBuy(l) => \A k : CoveredWithout(k) => CoveredWithout(k)'
      /\ ~IsBuy(l) => Exposure' = Exposure + q
      /\ \A k : (Held(k) = Held(k)') /\ PartsOf(k)' = PartsOf(k)
  BY <1>1, <1>3, OrderPlaced DEF Places
<1>5. orders'[l] # NoOrder /\ orders'[l].status = "open"
  BY <1>4 DEF NoOrder
<1>6. orders'[Foreign].status # "cancelled"
  BY <1>4, OwnedFinite DEF Links, SmokeInv, SalesAreCovered
<1>7. \A o \in Purposes \ {p} : orders'[Link(o)] = orders[Link(o)]
  <2> SUFFICES ASSUME NEW o \in Purposes \ {p} PROVE orders'[Link(o)] = orders[Link(o)]
    OBVIOUS
  <2>1. Link(o) \in Links \ {l}
    BY <1>2, LinkOwned DEF Links
  <2>2. QED
    BY <1>4, <2>1
<1>8. StoreMatchesExchange'
  <2>1. \A k \in Owned : k[1] > run'.id => orders'[k] = NoOrder
    <3> SUFFICES ASSUME NEW k \in Owned, k[1] > run.id PROVE orders'[k] = NoOrder
      OBVIOUS
    <3>1. k # l /\ k \in Links
      BY <1>2 DEF Links
    <3>2. orders[k] = NoOrder
      BY DEF SmokeInv, StoreMatchesExchange
    <3>3. QED
      BY <1>4, <3>1, <3>2
  <2>2. \A k \in Links : orders'[k].status = "none" => orders'[k] = NoOrder
    BY <1>4, <1>5 DEF SmokeInv, StoreMatchesExchange
  <2>3. l \notin DOMAIN intents
    BY <1>1 DEF SmokeInv, StoreMatchesExchange, Places
  <2>4. \A k \in DOMAIN intents' :
          k \in acks' /\ orders'[k] # NoOrder /\ orders'[k].qty = intents'[k]
    BY <1>4, <2>3 DEF SmokeInv, StoreMatchesExchange, Places, store, TypeOK, Links
  <2>5. ASSUME NEW i \in 1..MaxRuns, NEW o1 \in Submitted, NEW o2 \in Submitted,
               Unrecorded(i, o1)', Unrecorded(i, o2)'
        PROVE  o1 = o2
    <3>1. \A o \in Submitted : <<i, o>> \in Links
      BY DEF Links, Owned, Submitted, Purposes
    <3>2. \A o \in Submitted : Unrecorded(i, o)' /\ <<i, o>> # l => Unrecorded(i, o)
      BY <1>4, <3>1 DEF Unrecorded, Places, store
    <3>3. \A o \in Submitted : <<i, o>> = l => i = run.id /\ o = p
      BY <1>2
    <3>4. CASE p \in Submitted /\ i = run.id
      <4>1. \A o \in Submitted : Unrecorded(i, o)' => o = p
        BY <3>2, <3>3, <3>4
      <4>2. QED
        BY <2>5, <4>1
    <3>5. CASE ~(p \in Submitted /\ i = run.id)
      <4>1. Unrecorded(i, o1) /\ Unrecorded(i, o2)
        BY <2>5, <3>2, <3>3, <3>5
      <4>2. QED
        BY <4>1 DEF SmokeInv, StoreMatchesExchange
    <3>6. QED
      BY <3>4, <3>5
  <2>6. QED
    BY <2>1, <2>2, <2>4, <2>5 DEF StoreMatchesExchange
<1>9. QED
  BY <1>1, <1>3, <1>4, <1>5, <1>6, <1>7, <1>8

\* What the orders with the prefix left is what the clean-up may sell: the history also has
\* the executions of the owner's order.
LEMMA HeldByOwned ==
  ASSUME SmokeInv
  PROVE  /\ Held(Foreign) = NetOf(OwnedExecutions)
         /\ OwnedExecutions = {e \in executions : e.link # Foreign}
<1>1. OthersThan(Foreign) = OwnedExecutions
      /\ OwnedExecutions = {e \in executions : e.link # Foreign}
  BY OwnedFinite DEF SmokeInv, TypeOK, Executions, Links, OthersThan, OwnedExecutions
<1>2. QED
  BY <1>1 DEF Held

LEMMA SubmitFresh ==
  ASSUME SmokeInv, NEW p \in Submitted, run.pc = SubmitStep[p], NEW q \in Nat,
         Places(Link(p), q), GoTo(AckStep[p]) \/ Fail, p = "e" => q = run.qty
  PROVE  SmokeInv'
<1>1. /\ p \in {"c", "f", "e"} /\ p \in Purposes
      /\ run.pc \in {"submit_c", "submit_f", "submit_e"}
      /\ (p = "c" <=> run.pc = "submit_c") /\ (p = "f" <=> run.pc = "submit_f")
      /\ (p = "e" <=> run.pc = "submit_e")
      /\ AckStep[p] \in Pcs /\ AckStep[p] \in {"ack_c", "ack_f", "ack_e"}
  BY DEF Submitted, Purposes, SubmitStep, AckStep, Pcs
<1>2. run'.id = run.id /\ run' \in Runs
      /\ (Fail \/ (run'.pc = AckStep[p] /\ run'.outcome = run.outcome))
  BY <1>1, FailIs, GoToIs DEF SmokeInv
<1>3. \A o \in Submitted \ {p} : ~Unrecorded(run.id, o)
  <2>1. CASE p = "c"
    <3>1. orders[Link("f")] = NoOrder /\ orders[Link("e")] = NoOrder
      BY <1>1, <2>1 DEF SmokeInv, StepsInOrder
    <3>2. QED
      BY <2>1, <3>1 DEF Unrecorded, Link, Submitted
  <2>2. CASE p = "f"
    <3>1. Link("c") \in DOMAIN intents /\ orders[Link("e")] = NoOrder
      BY <1>1, <2>2 DEF SmokeInv, StepsInOrder, BeforeF, HasC
    <3>2. QED
      BY <2>2, <3>1 DEF Unrecorded, Link, Submitted
  <2>3. CASE p = "e"
    <3>1. Link("c") \in DOMAIN intents /\ Link("f") \in DOMAIN intents
      BY <1>1, <2>3 DEF SmokeInv, StepsInOrder, HasF
    <3>2. QED
      BY <2>3, <3>1 DEF Unrecorded, Link, Submitted
  <2>4. QED
    BY <1>1, <2>1, <2>2, <2>3
<1>4. /\ TypeOK' /\ ExecutionsOfOrders' /\ StoreMatchesExchange'
      /\ orders'[Foreign].status # "cancelled" /\ orders'[Link(p)] # NoOrder
      /\ \A o \in Purposes \ {p} : orders'[Link(o)] = orders[Link(o)]
      /\ IsBuy(Link(p)) => \A k : CoveredWithout(k) => CoveredWithout(k)'
      /\ ~IsBuy(Link(p)) => Exposure' = Exposure + q
      /\ \A k : (Held(k) = Held(k)') /\ PartsOf(k)' = PartsOf(k)
  BY <1>1, <1>2, <1>3, PlaceFacts
<1>5. CoveredWithout(Foreign)'
  <2>1. CASE p # "e"
    <3>1. IsBuy(Link(p))
      BY <1>1, <2>1 DEF IsBuy, Link
    <3>2. QED
      BY <1>4, <3>1 DEF SmokeInv, SalesAreCovered
  <2>2. CASE p = "e"
    <3>1. ~IsBuy(Link(p)) /\ q = run.qty
      BY <2>2 DEF IsBuy, Link
    <3>2. /\ Held(Link("f")) >= Exposure
          /\ run.qty <= NetOf(PartsOf(Link("f")))
      BY <1>1, <2>2 DEF SmokeInv, SalesAreCovered, CoveredWithout, Early, BeforeE
    <3>3. /\ Held(Foreign) = Held(Link("f")) + NetOf(PartsOf(Link("f")))
          /\ Held(Link("f")) \in Int /\ NetOf(PartsOf(Link("f"))) \in Int
      <4>1. Link("f") # Foreign
        BY DEF Link, Foreign
      <4>2. QED
        BY <4>1, HeldSplit, HeldType DEF SmokeInv, ExecutionsOfOrders
    <3>4. Exposure \in Nat /\ run.qty \in Nat
      BY ExposureType DEF SmokeInv, TypeOK
    <3>5. Held(Foreign) >= Exposure + run.qty
      BY <3>2, <3>3, <3>4
    <3>6. Held(Foreign)' = Held(Foreign)
      BY <1>4
    <3>7. QED
      BY <1>4, <3>1, <3>5, <3>6 DEF CoveredWithout
  <2>3. QED
    BY <2>1, <2>2
<1>6. CASE Fail
  <2>1. StepsInOrder' /\ OpenIsListed' /\ SalesAreCovered'
    BY <1>1, <1>4, <1>5, <1>6, FailKeeps
  <2>2. QED
    BY <1>4, <2>1 DEF SmokeInv
<1>7. CASE ~Fail
  <2>1. run'.pc = AckStep[p] /\ run'.outcome = run.outcome /\ run.outcome = "none"
        /\ run.id # 0
    BY <1>1, <1>2, <1>7 DEF SmokeInv, OpenIsListed, StepsInOrder
  <2>2. \A o : Link(o)' = Link(o)
    BY <1>2 DEF Link
  <2>3. /\ run'.pc = "ack_c" <=> p = "c"
        /\ run'.pc = "ack_f" <=> p = "f"
        /\ run'.pc = "ack_e" <=> p = "e"
        /\ run'.pc \in {"ack_c", "ack_f", "ack_e"}
    BY <1>1, <2>1 DEF AckStep
  <2>4. StepsInOrder'
    <3>1. /\ run'.pc \in {"submit_c"} \cup BeforeF <=> p = "c"
          /\ run'.pc \in {"submit_c"} \cup BeforeF \cup BeforeE <=> p \in {"c", "f"}
          /\ run'.pc \in HasC \cup HasF <=> p \in {"f", "e"}
          /\ run'.pc \in HasF <=> p = "e"
          /\ run'.pc \notin HasE /\ run'.pc # "submit_c"
      BY <1>1, <2>3 DEF BeforeF, BeforeE, HasC, HasF, HasE
    <3>2. p = "c" => orders'[Link("f")] = NoOrder
      BY <1>1, <1>4 DEF SmokeInv, StepsInOrder, Purposes
    <3>3. p \in {"c", "f"} => orders'[Link("e")] = NoOrder
      BY <1>1, <1>4 DEF SmokeInv, StepsInOrder, Purposes, BeforeF
    <3>4. /\ p \in {"f", "e"} => Link("c") \in DOMAIN intents
          /\ p = "e" => Link("f") \in DOMAIN intents
      BY <1>1 DEF SmokeInv, StepsInOrder, HasC, HasF
    <3>5. \A o \in Submitted : (run'.pc = AckStep[o] => o = p) /\ run'.pc # IntentStep[o]
      BY <2>3 DEF AckStep, IntentStep, Submitted
    <3>6. intents' = intents
      BY DEF Places, store
    <3>7. QED
      BY <1>2, <1>4, <2>1, <2>2, <3>1, <3>2, <3>3, <3>4, <3>5, <3>6 DEF StepsInOrder
  <2>5. OpenIsListed'
    BY <2>1, <2>3 DEF OpenIsListed, EndedRunsLeaveNothingOpen
  <2>6. SalesAreCovered'
    <3>1. run'.pc \in Early => p \in {"c", "f"}
      BY <2>3 DEF Early, BeforeF, BeforeE
    <3>2. p \in {"c", "f"} => run.pc \in Early /\ IsBuy(Link(p))
      BY <1>1 DEF Early, BeforeF, IsBuy, Link
    <3>3. \A l : l = Link("f") => (CoveredWithout(l)' => CoveredWithout(Link("f"))')
      BY <2>2 DEF CoveredWithout, Held, OthersThan
    <3>4. run'.pc \in Early => CoveredWithout(Link("f"))'
      BY <1>4, <3>1, <3>2, <3>3 DEF SmokeInv, SalesAreCovered
    <3>5. QED
      BY <1>4, <1>5, <2>3, <3>4 DEF SalesAreCovered
  <2>7. QED
    BY <1>4, <2>4, <2>5, <2>6 DEF SmokeInv
<1>8. QED
  BY <1>6, <1>7


LEMMA SubmitSteps ==
  ASSUME SmokeInv, SubmitCancelProbe \/ SubmitAgain \/ SubmitFillProbe \/ SubmitExit
  PROVE  SmokeInv'
<1>1. BuyQty \in Nat /\ FillParts * BuyQty \in Nat /\ run.qty \in Nat
  BY QuantityAssumption DEF SmokeInv, TypeOK
\* An order that the store knows is not placed again, and one it does not know is new.
<1>2. ASSUME NEW p \in Submitted, NEW q \in Nat, SubmitOnce(SubmitStep[p], Link(p), q, "unreachable"),
             p = "e" => q = run.qty
      PROVE  SmokeInv'
  <2>1. /\ run.pc = SubmitStep[p] /\ run.pc \in {"submit_c", "submit_f", "submit_e"}
        /\ (p = "c" <=> run.pc = "submit_c") /\ (p = "f" <=> run.pc = "submit_f")
        /\ (p = "e" <=> run.pc = "submit_e") /\ p \in {"c", "f", "e"}
    BY <1>2 DEF SubmitOnce, At, SubmitStep, Submitted
  <2>2. orders[Link(p)] = NoOrder
    BY <2>1 DEF SmokeInv, StepsInOrder, BeforeF, BeforeE
  <2>3. ~IsDuplicate(Link(p))
    BY <2>2 DEF IsDuplicate, SmokeInv, StoreMatchesExchange
  <2>4. Link(p)[2] = p
    BY DEF Link
  <2>5. Places(Link(p), q) /\ (GoTo(AckStep[p]) \/ Fail)
    BY <1>2, <2>3, <2>4 DEF SubmitOnce, PlaceOrder, Places, Placed
  <2>6. QED
    BY <1>2, <2>1, <2>5, SubmitFresh
<1>3. CASE SubmitCancelProbe
  BY <1>1, <1>2, <1>3 DEF SubmitCancelProbe, Submitted, SubmitStep
<1>4. CASE SubmitFillProbe
  BY <1>1, <1>2, <1>4 DEF SubmitFillProbe, Submitted, SubmitStep
<1>5. CASE SubmitExit
  BY <1>1, <1>2, <1>5 DEF SubmitExit, Submitted, SubmitStep
<1>6. CASE SubmitAgain
  <2>1. run.pc = "again_c"
    BY <1>6 DEF SubmitAgain, SubmitOnce, At
  <2>2. IsDuplicate(Link("c"))
    BY <2>1 DEF SmokeInv, StepsInOrder, HasC, IsDuplicate
  <2>3. (GoTo("query") \/ Fail) /\ UNCHANGED <<exchange, store>>
    BY <1>6, <2>2 DEF SubmitAgain, SubmitOnce
  <2>4. ReadsOnly /\ acks' = acks
    BY <2>3, UnchangedReads
  <2>5. "query" \in Pcs /\ Follows("again_c", "query")
    BY DEF Pcs, Follows, BeforeF, BeforeE, HasC, HasF, HasE, Submitted, AckStep, IntentStep
  <2>6. QED
    BY <2>1, <2>3, <2>4, <2>5, GoToStep, FailStep
<1>7. QED
  BY <1>3, <1>4, <1>5, <1>6

LEMMA RecordIntentStep ==
  ASSUME SmokeInv, NEW p \in Submitted, RecordIntent(p) PROVE SmokeInv'
<1>1. /\ run.pc = IntentStep[p] /\ GoTo(AfterIntent[p])
      /\ UNCHANGED <<exchange, acks, facts, proof>>
      /\ orders' = orders /\ executions' = executions
  BY DEF RecordIntent, At, exchange
<1>2. /\ p \in {"c", "f", "e"} /\ p \in Purposes
      /\ run.pc \in {"intent_c", "intent_f", "intent_e"}
      /\ (p = "c" <=> run.pc = "intent_c") /\ (p = "f" <=> run.pc = "intent_f")
      /\ (p = "e" <=> run.pc = "intent_e")
      /\ AfterIntent[p] \in Pcs
  BY <1>1 DEF Submitted, Purposes, IntentStep, AfterIntent, Pcs, AfterPump
<1>3. PICK l \in Owned : l = Link(p)
  BY <1>2, LinkOwned
<1>4. /\ DOMAIN intents' = DOMAIN intents \cup {l}
      /\ \A k \in DOMAIN intents' : intents'[k] = IF k = l THEN orders[l].qty ELSE intents[k]
  BY <1>3 DEF RecordIntent
<1>5. l \in acks /\ orders[l] # NoOrder
  BY <1>1, <1>3 DEF SmokeInv, StepsInOrder
<1>6. /\ run'.id = run.id /\ run'.pc = AfterIntent[p] /\ run'.outcome = run.outcome
      /\ run' \in Runs
  BY <1>1, <1>2, GoToIs DEF SmokeInv
<1>7. TypeOK'
  BY <1>1, <1>3, <1>4, <1>6 DEF SmokeInv, TypeOK, Runs, exchange
<1>8. /\ OrdersKept /\ ExecutionsOfOrders' /\ OpenOwned' = OpenOwned
      /\ \A k : (CoveredWithout(k) => CoveredWithout(k)') /\ PartsOf(k)' = PartsOf(k)
  BY <1>1, OrdersSame
<1>9. StoreMatchesExchange'
  <2>1. \A k \in DOMAIN intents' :
          k \in acks' /\ orders'[k] # NoOrder /\ orders'[k].qty = intents'[k]
    BY <1>1, <1>4, <1>5 DEF SmokeInv, StoreMatchesExchange
  <2>2. \A i, o : Unrecorded(i, o)' => Unrecorded(i, o)
    BY <1>1, <1>4 DEF Unrecorded
  <2>3. QED
    BY <1>1, <1>6, <2>1, <2>2 DEF SmokeInv, StoreMatchesExchange
<1>10. \A o : Link(o)' = Link(o)
  BY <1>6 DEF Link
<1>11. /\ run'.pc = "again_c" <=> p = "c"
       /\ run'.pc = "pump_f" <=> p = "f"
       /\ run'.pc = "evidence" <=> p = "e"
       /\ run'.pc \in {"again_c", "pump_f", "evidence"}
  BY <1>2, <1>6 DEF AfterIntent
<1>12. StepsInOrder'
  <2>1. /\ run'.pc \in {"submit_c"} \cup BeforeF <=> p = "c"
        /\ run'.pc \in {"submit_c"} \cup BeforeF \cup BeforeE <=> p \in {"c", "f"}
        /\ run'.pc \in HasF <=> p \in {"f", "e"}
        /\ run'.pc \in HasE <=> p = "e"
        /\ run'.pc \notin {"submit_c", "ended", "recover", "recover_cancel"}
    BY <1>2, <1>11 DEF BeforeF, BeforeE, HasC, HasF, HasE
  <2>2. /\ p = "c" => orders[Link("f")] = NoOrder
        /\ p \in {"c", "f"} => orders[Link("e")] = NoOrder
        /\ run.id # 0
    BY <1>2 DEF SmokeInv, StepsInOrder, BeforeF, BeforeE
  <2>3. /\ p \in {"f", "e"} => Link("c") \in DOMAIN intents
        /\ p = "e" => Link("f") \in DOMAIN intents
    BY <1>2 DEF SmokeInv, StepsInOrder, HasC, HasF
  <2>4. \A o \in Submitted : run'.pc # AckStep[o] /\ run'.pc # IntentStep[o]
    BY <1>11 DEF AckStep, IntentStep, Submitted
  <2>5. QED
    BY <1>1, <1>2, <1>3, <1>4, <1>6, <1>10, <2>1, <2>2, <2>3, <2>4 DEF StepsInOrder
<1>13. OpenIsListed'
  BY <1>2, <1>6, <1>11 DEF SmokeInv, OpenIsListed, EndedRunsLeaveNothingOpen
<1>14. SalesAreCovered'
  <2>1. run'.pc \in Early => run.pc \in Early
    BY <1>2, <1>11 DEF Early, BeforeF, BeforeE
  <2>2. \A k : k = Link("f") => (CoveredWithout(k)' => CoveredWithout(Link("f"))')
    BY <1>10 DEF CoveredWithout, Held, OthersThan
  <2>3. QED
    BY <1>8, <1>11, <2>1, <2>2 DEF SmokeInv, SalesAreCovered, OrdersKept
<1>15. QED
  BY <1>7, <1>8, <1>9, <1>12, <1>13, <1>14 DEF SmokeInv

LEMMA CleanupSellStep == ASSUME SmokeInv, CleanupSell PROVE SmokeInv'
<1>1. run.pc = "cleanup_sell" /\ OpenOwned = {} /\ UNCHANGED store
  BY DEF CleanupSell, At, SmokeInv, OpenIsListed
<1>2. CASE ~(NetOf(OwnedExecutions) >= Minimum)
  <2>1. ReadsOnly /\ acks' = acks /\ End("cleaned")
    BY <1>1, <1>2, UnchangedReads DEF CleanupSell
  <2>2. QED
    BY <1>1, <2>1, EndStep DEF Outcomes
<1>3. CASE NetOf(OwnedExecutions) >= Minimum
  <2> DEFINE q == NetOf(OwnedExecutions)
  <2>1. q \in Nat
    <3>1. q \in Int
      BY HeldType, HeldByOwned DEF SmokeInv, ExecutionsOfOrders
    <3>2. QED
      BY <1>3, <3>1, QuantityAssumption
  <2>2. Places(Link("r"), q) /\ (End("cleaned") \/ Fail)
    BY <1>1, <1>3 DEF CleanupSell, PlaceOrder, Places, Placed
  <2>3. run'.id = run.id /\ run' \in Runs
    BY <2>2, EndIs, FailIs DEF SmokeInv, Outcomes
  <2>4. "r" \in Purposes /\ "r" \notin Submitted
    BY DEF Purposes, Submitted
  <2> HIDE DEF q
  <2>5. /\ TypeOK' /\ ExecutionsOfOrders' /\ StoreMatchesExchange'
        /\ OpenOwned' = OpenOwned \cup {Link("r")}
        /\ orders'[Foreign].status # "cancelled"
        /\ ~IsBuy(Link("r")) => Exposure' = Exposure + q
        /\ \A k : Held(k) = Held(k)'
    BY <1>1, <2>1, <2>2, <2>3, <2>4, PlaceFacts
  <2>6. Exposure = 0
    <3>1. Selling = {}
      BY <1>1 DEF Selling, OpenOwned
    <3>2. Exposure = SumFunctionOnSet([k \in {} |-> orders[k].qty], {})
      BY <3>1 DEF Exposure, SumFunction
    <3>3. QED
      BY <3>2, SumEmpty
  <2>7. CoveredWithout(Foreign)'
    <3>1. Exposure' = q
      BY <2>1, <2>5, <2>6 DEF IsBuy, Link
    <3>2. Held(Foreign)' = q
      BY <2>5, HeldByOwned DEF q
    <3>3. QED
      BY <2>1, <3>1, <3>2 DEF CoveredWithout
  <2>8. OpenOwned' \subseteq {Link("r")}
    BY <1>1, <2>5
  <2>9. StepsInOrder' /\ OpenIsListed' /\ SalesAreCovered'
    <3>1. CASE Fail
      BY <1>1, <2>5, <2>7, <3>1, FailKeeps
    <3>2. CASE End("cleaned")
      BY <2>5, <2>7, <2>8, <3>2, EndKeeps DEF Outcomes
    <3>3. QED
      BY <2>2, <3>1, <3>2
  <2>10. QED
    BY <2>5, <2>9 DEF SmokeInv
<1>4. QED
  BY <1>2, <1>3

LEMMA StartRecoveryStep == ASSUME SmokeInv, StartRecovery PROVE SmokeInv'
<1>1. ReadsOnly /\ acks' = acks /\ run.pc = "ended"
  BY UnchangedReads DEF StartRecovery, At
<1>2. run' = [id |-> run.id, pc |-> "recover", todo |-> run.todo, qty |-> run.qty,
              outcome |-> "none"]
  BY DEF StartRecovery, SmokeInv, TypeOK
<1>3. run' \in Runs /\ run'.id = run.id /\ run'.pc = "recover" /\ run'.outcome = "none"
  BY <1>2 DEF SmokeInv, TypeOK, Runs, Pcs, Outcomes
<1>4. TypeOK'
  BY <1>1, <1>3, ReadsOnlyTypes DEF SmokeInv, TypeOK
<1>5. /\ OrdersKept /\ ExecutionsOfOrders'
      /\ \A l : CoveredWithout(l) => CoveredWithout(l)'
  BY <1>1, OrdersSame DEF ReadsOnly
<1>6. StoreMatchesExchange'
  BY <1>1, <1>3, <1>5, StoreKept DEF SmokeInv, TypeOK, ReadsOnly
<1>7. StepsInOrder'
  BY <1>3 DEF StepsInOrder, BeforeF, BeforeE, HasC, HasF, HasE, Submitted, AckStep, IntentStep
<1>8. OpenIsListed'
  BY <1>3 DEF OpenIsListed, EndedRunsLeaveNothingOpen
<1>9. SalesAreCovered'
  BY <1>3, <1>5 DEF SmokeInv, SalesAreCovered, OrdersKept, Early, BeforeF, BeforeE
<1>10. QED
  BY <1>4, <1>5, <1>6, <1>7, <1>8, <1>9 DEF SmokeInv

-----------------------------------------------------------------------------
(* The theorems.                                                              *)

LEMMA InitSmoke == Init => SmokeInv
<1> SUFFICES ASSUME Init PROVE SmokeInv
  OBVIOUS
<1>1. TypeOK
  <2>1. run \in [id : 0..MaxRuns, pc : Pcs, todo : SUBSET Owned, qty : Nat, outcome : Outcomes]
    BY QuantityAssumption DEF Init, Pcs, Outcomes
  <2>2. orders \in [Links -> [status : {"none", "open", "filled", "cancelled"}, qty : Nat]]
    BY QuantityAssumption DEF Init, NoOrder
  <2>3. QED
    BY <2>1, <2>2 DEF Init, TypeOK, NoIntents
<1>2. StepsInOrder
  BY DEF Init, StepsInOrder, BeforeF, BeforeE, HasC, HasF, HasE, Submitted, AckStep, IntentStep
<1>3. \A l \in Owned : orders[l] = NoOrder
  BY OwnedFinite DEF Init, Links
<1>4. orders[Foreign].status = "open"
  BY DEF Init, Links
<1>5. StoreMatchesExchange
  <2>1. \A l \in Links : orders[l].status = "none" => orders[l] = NoOrder
    BY <1>3, <1>4 DEF Links
  <2>2. DOMAIN intents = {}
    BY DEF Init, NoIntents
  <2>3. \A i \in 1..MaxRuns : \A p \in Submitted : ~Unrecorded(i, p)
    BY <1>3 DEF Unrecorded, Owned, Submitted, Purposes
  <2>4. QED
    BY <1>3, <2>1, <2>2, <2>3 DEF StoreMatchesExchange
<1>6. OpenIsListed
  BY DEF Init, OpenIsListed, EndedRunsLeaveNothingOpen
<1>7. Selling = {}
  BY <1>3 DEF Selling, NoOrder
<1>8. ExecutionsOfOrders
  BY <1>7, FS_EmptySet DEF Init, ExecutionsOfOrders
<1>9. CoveredWithout(Foreign)
  <2>1. Exposure = SumFunctionOnSet([k \in {} |-> orders[k].qty], {})
    BY <1>7 DEF Exposure, SumFunction
  <2>2. Held(Foreign) = SumFunctionOnSet([e \in {} |-> Net(e)], {})
    <3>1. OthersThan(Foreign) = {}
      BY DEF Init, OthersThan
    <3>2. QED
      BY <3>1 DEF Held, NetOf, SumFunction
  <2>3. QED
    BY <2>1, <2>2, SumEmpty DEF CoveredWithout
<1>10. SalesAreCovered
  BY <1>4, <1>9 DEF Init, SalesAreCovered, Early, BeforeF, BeforeE
<1>11. QED
  BY <1>1, <1>2, <1>5, <1>6, <1>8, <1>10 DEF SmokeInv

LEMMA StutterSmoke == ASSUME SmokeInv, UNCHANGED vars PROVE SmokeInv'
<1>1. /\ orders' = orders /\ executions' = executions /\ inbox' = inbox /\ acks' = acks
      /\ intents' = intents /\ facts' = facts /\ proof' = proof /\ run' = run
  BY DEF vars
<1>2. TypeOK'
  BY <1>1 DEF SmokeInv, TypeOK
<1>3. /\ OrdersKept /\ ExecutionsOfOrders' /\ OpenOwned' = OpenOwned
      /\ \A l : (CoveredWithout(l) => CoveredWithout(l)') /\ PartsOf(l)' = PartsOf(l)
  BY <1>1, OrdersSame
<1>4. \A k : NetOf(PartsOf(k)) <= NetOf(PartsOf(k)')
  BY <1>3, HeldType DEF SmokeInv, ExecutionsOfOrders
<1>5. StepsInOrder' /\ StoreMatchesExchange' /\ OpenIsListed' /\ SalesAreCovered'
  BY <1>1, <1>2, <1>3, <1>4, QuietRun DEF ExecutionsOfOrders
<1>6. QED
  BY <1>2, <1>3, <1>5 DEF SmokeInv

LEMMA StepSmoke == SmokeInv /\ [Next]_vars => SmokeInv'
<1> SUFFICES ASSUME SmokeInv, [Next]_vars PROVE SmokeInv'
  OBVIOUS
<1>1. CASE \E l \in Links : Match(l) \/ RestIsCancelled(l)
  BY <1>1, MatchStep, RestIsCancelledStep
<1>2. CASE Start
  BY <1>2, StartStep
<1>3. CASE CallFails
  BY <1>3, CallFailsStep
<1>4. CASE SubmitCancelProbe \/ SubmitAgain \/ SubmitFillProbe \/ SubmitExit
  BY <1>4, SubmitSteps
<1>5. CASE \E p \in {"c", "f", "e"} : RecordAck(p) \/ RecordIntent(p)
  BY <1>5, RecordAckStep, RecordIntentStep DEF Submitted
<1>6. CASE QueryOrder
  BY <1>6, QueryOrderStep
<1>7. CASE CancelProbe
  BY <1>7, CancelProbeStep
<1>8. CASE PumpPrivateEvents
  BY <1>8, PumpStep
<1>9. CASE ManagedBoughtQuantity
  BY <1>9, ManagedStep
<1>10. CASE EmergencyList \/ CleanupList \/ RecoveryList
  BY <1>10, ListStep DEF EmergencyList, CleanupList, RecoveryList
<1>11. CASE EmergencyCancel \/ CleanupCancel \/ RecoveryCancel
  BY <1>11, CancelListedSteps
<1>12. CASE EmergencyEvidence \/ EvidenceCounts
  BY <1>12, EvidenceSteps
<1>13. CASE Reconcile
  BY <1>13, ReconcileStep
<1>14. CASE Report \/ Crash
  BY <1>14, EndSteps
<1>15. CASE CleanupSell
  BY <1>15, CleanupSellStep
<1>16. CASE StartRecovery
  BY <1>16, StartRecoveryStep
<1>17. CASE UNCHANGED vars
  BY <1>17, StutterSmoke
<1>18. QED
  BY <1>1, <1>2, <1>3, <1>4, <1>5, <1>6, <1>7, <1>8, <1>9, <1>10, <1>11, <1>12, <1>13, <1>14,
     <1>15, <1>16, <1>17 DEF Next

\* The steps of a run, what the exchange and the store know, and what is for sale stay
\* together for every number of runs and all quantities.
THEOREM SmokeInvariant == Spec => []SmokeInv
BY InitSmoke, StepSmoke, PTL DEF Spec

\* Whatever times out, a run leaves at most one order the store does not know besides its
\* recovery sale, and what the store knows is what was submitted.
THEOREM UnrecordedOrders == Spec => []OneUnrecordedOrderPerRun
<1>1. SmokeInv => OneUnrecordedOrderPerRun
  <2> SUFFICES ASSUME SmokeInv PROVE OneUnrecordedOrderPerRun
    OBVIOUS
  <2>1. \A l \in DOMAIN intents : l \in acks /\ orders[l].qty = intents[l]
    BY DEF SmokeInv, StoreMatchesExchange
  <2>2. ASSUME NEW i \in 1..run.id
        PROVE  Cardinality({l \in Owned : l[1] = i /\ l[2] # "r" /\ l \notin DOMAIN intents
                                          /\ orders[l] # NoOrder}) <= 1
    <3> DEFINE U == {l \in Owned : l[1] = i /\ l[2] # "r" /\ l \notin DOMAIN intents
                                   /\ orders[l] # NoOrder}
    <3>1. i \in 1..MaxRuns
      BY QuantityAssumption DEF SmokeInv, TypeOK
    <3>2. ASSUME NEW k \in U, NEW l \in U
          PROVE  k = l
      <4>1. /\ k = <<i, k[2]>> /\ l = <<i, l[2]>>
            /\ k[2] \in Submitted /\ l[2] \in Submitted
        BY DEF Owned, Purposes, Submitted
      <4>2. Unrecorded(i, k[2]) /\ Unrecorded(i, l[2])
        BY <4>1 DEF Unrecorded
      <4>3. k[2] = l[2]
        BY <3>1, <4>1, <4>2 DEF SmokeInv, StoreMatchesExchange
      <4>4. QED
        BY <4>1, <4>3
    <3>3. CASE U = {}
      BY <3>3, FS_EmptySet
    <3>4. CASE U # {}
      <4>1. PICK l \in U : TRUE
        BY <3>4
      <4>2. U = {l}
        BY <3>2, <4>1
      <4> HIDE DEF U
      <4>3. QED
        BY <4>2, FS_Singleton DEF U
    <3>5. QED
      BY <3>3, <3>4
  <2>3. QED
    BY <2>1, <2>2 DEF OneUnrecordedOrderPerRun
<1>2. QED
  BY <1>1, SmokeInvariant, PTL

\* A run that reported left no order open, of its own or of an earlier run, and one that
\* cleaned up after itself at most its recovery sale.
THEOREM NothingLeftOpen == Spec => []EndedRunsLeaveNothingOpen
<1>1. SmokeInv => EndedRunsLeaveNothingOpen
  BY DEF SmokeInv, OpenIsListed
<1>2. QED
  BY <1>1, SmokeInvariant, PTL

\* Over all runs and whatever timed out, no more is sold or for sale than owned orders
\* bought, for every fee, quantity and minimum.
THEOREM SellsOnlyItsOwn == Spec => []TouchesOnlyItsOwn
<1>1. SmokeInv => TouchesOnlyItsOwn
  <2> SUFFICES ASSUME SmokeInv PROVE TouchesOnlyItsOwn
    OBVIOUS
  <2> DEFINE f == [k \in Selling |-> orders[k].qty]
             g == [k \in Selling |-> Left(k)]
  <2>1. Exposure = SumFunctionOnSet(f, Selling) /\ IsFiniteSet(Selling)
    BY ExposureType DEF SmokeInv
  <2>2. \A k \in Selling : f[k] = g[k]
    BY SaleIsWhole
  <2> HIDE DEF f, g
  <2>3. SumFunctionOnSet(g, Selling) = Exposure
    BY <2>1, <2>2, SumSame
  <2>4. SumFunction([l \in Selling |-> Left(l)]) = Exposure
    BY <2>3 DEF SumFunction, g
  <2>5. NetOf({e \in executions : e.link # Foreign}) >= Exposure
    BY HeldByOwned DEF SmokeInv, SalesAreCovered, CoveredWithout
  <2>6. QED
    BY <2>4, <2>5 DEF TouchesOnlyItsOwn, Selling, SmokeInv, SalesAreCovered
<1>2. QED
  BY <1>1, SmokeInvariant, PTL
==============================================================================
