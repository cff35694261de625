------------------------- MODULE EmergencyCoreProofs -------------------------
(***************************************************************************)
(* The paper store by itself, and then with the emergency controller, for  *)
(* any number of plans, actions, instruments, emergency commands and       *)
(* observations and any quantities: type correctness, one active plan per  *)
(* instrument, no overfill, the life cycle of committed plans, the         *)
(* finality of ended orders, pending plans that are worked, protections    *)
(* that wait for their entry, and lots that account for every fill.        *)
(*                                                                         *)
(* The invariant of the store is stated of the four tables as arguments,   *)
(* because it holds of the transaction's view of them and of the committed *)
(* one, and an abort replaces the former by the latter.  The emergency     *)
(* controller preserves it, and the links between the rows of the tables   *)
(* (LinkInv); the life cycle of the plans it does not: an emergency closes *)
(* a CANCELLED plan whose lots it sells.                                   *)
(*                                                                         *)
(* The module goes from the tables one by one (StoreInv), to how their     *)
(* rows are linked (LinkInv), to the stage of the plan each row stands for *)
(* (LifeInv), to sums over them (Accounts).  A step enters the later parts *)
(* only as its effect: RowEffect and RowMoves for a row of an observation, *)
(* CallEffect for any other call.                                          *)
(***************************************************************************)
EXTENDS EmergencyCore, SumTheorems

PlansGood(pl) ==
    /\ pl \in [Plans -> PlanStates]
    /\ \A p, q \in Plans :
          SameInstrument(p, q) /\ pl[p] \in NonTerminalStates /\ pl[q] \in NonTerminalStates
          => p = q

ActionsGood(ac) ==
    /\ ac \in [Actions -> ActionType]
    /\ \A a \in Actions : ac[a].state # "ABSENT" => ac[a].plan \in Plans

OrdersGood(ac, ord) ==
    /\ ord \in [OrderIds -> OrderType]
    /\ \A o \in OrderIds : o[2] # ProtectiveStop => ord[o].filled <= ord[o].quantity
    /\ \A o \in OrderIds : ord[o].state # "ABSENT" => ac[o[1]].state # "ABSENT"

LotsGood(lts) == lts \in Seq(LotType)

Good(r) == /\ r \in RowsType
           /\ PlansGood(r.plan) /\ ActionsGood(r.action)
           /\ OrdersGood(r.action, r.order) /\ LotsGood(r.lots)

TxGood ==
    /\ passed \subseteq Deadlines
    /\ tx \in [active : BOOLEAN, instrument : Instruments, todo : SUBSET OrderIds,
               liquidity : Nat, protectionMatched : BOOLEAN]
    /\ \A o \in tx.todo : order[o].state # "ABSENT"

\* A plan the transaction found terminal is as it was.
TerminalKept == \A p \in Plans : saved.plan[p] \in TerminalStates => plan[p] = saved.plan[p]

StoreInv ==
    /\ Good(Committed) /\ Good(saved)
    /\ TxGood
    /\ TerminalKept
    /\ ~tx.active => saved = Committed /\ tx.todo = {}

-----------------------------------------------------------------------------
(* The helpers on the tables *)

LEMMA GoodCommitted ==
    Good(Committed) <=> /\ PlansGood(plan) /\ ActionsGood(action)
                        /\ OrdersGood(action, order) /\ LotsGood(lots)
  BY DEF Good, Committed, RowsType, PlansGood, ActionsGood, OrdersGood, LotsGood

LEMMA GoodCommittedNext ==
    Good(Committed') <=> /\ PlansGood(plan') /\ ActionsGood(action')
                         /\ OrdersGood(action', order') /\ LotsGood(lots')
  BY DEF Good, Committed, RowsType, PlansGood, ActionsGood, OrdersGood, LotsGood

LEMMA Ids == /\ \A o \in OrderIds : o[1] \in Actions /\ o[2] \in Nat
             /\ \A a \in Actions, r \in Roles : <<a, r>> \in OrderIds
             /\ ProtectiveStop = 0 /\ Entry = 1 /\ Reduction = 2 /\ Exit = 3
  BY StoreAssumption DEF OrderIds, Roles, ProtectiveStop, Entry, Reduction, Exit

\* Changing the state of some existing orders keeps the orders good.
LEMMA RestateOrders ==
    ASSUME NEW ac, NEW ord, NEW ord2, OrdersGood(ac, ord),
           ord2 \in [OrderIds -> OrderType],
           \A o \in OrderIds : /\ ord2[o].filled = ord[o].filled
                               /\ ord2[o].quantity = ord[o].quantity
                               /\ ord[o].state = "ABSENT" => ord2[o].state = "ABSENT"
    PROVE  OrdersGood(ac, ord2)
  BY DEF OrdersGood

\* cancel_roles
LEMMA CancelRolesGood ==
    ASSUME NEW ac, NEW ord, OrdersGood(ac, ord), NEW S
    PROVE  /\ OrdersGood(ac, CancelRoles(ord, S))
           /\ \A o \in OrderIds : ord[o].state # "ABSENT" => CancelRoles(ord, S)[o].state # "ABSENT"
<1>1. CancelRoles(ord, S) \in [OrderIds -> OrderType]
  BY DEF OrdersGood, CancelRoles, OrderType, OrderStates
<1>2. \A o \in OrderIds : /\ CancelRoles(ord, S)[o].filled = ord[o].filled
                          /\ CancelRoles(ord, S)[o].quantity = ord[o].quantity
                          /\ ord[o].state = "ABSENT" => CancelRoles(ord, S)[o].state = "ABSENT"
                          /\ ord[o].state # "ABSENT" => CancelRoles(ord, S)[o].state # "ABSENT"
  BY DEF OrdersGood, CancelRoles, OrderType, OrderStates, Cancellable, Open
<1> QED
  BY <1>1, <1>2, RestateOrders

\* insert_orders, of an action that is recorded
LEMMA InsertOrdersGood ==
    ASSUME ActionsGood(action), NEW ord, OrdersGood(action, ord),
           NEW a \in Actions, action[a].state # "ABSENT",
           NEW st \in OrderStates
    PROVE  OrdersGood(action, InsertOrders(ord, a, st))
<1> DEFINE new == InsertOrders(ord, a, st)
<1>1. ASSUME NEW o \in OrderIds, o[1] = a, Requested(a, o[2])
      PROVE  /\ new[o] \in OrderType
             /\ new[o].filled = 0 /\ new[o].quantity \in Nat
  <2>1. action[a] \in ActionType
    BY DEF ActionsGood
  <2>2. IsTakeProfit(o) => o[2] - Exit \in 1..MaxTargets
    BY Ids, StoreAssumption DEF IsTakeProfit, OrderIds, Roles, Exit
  <2>3. /\ action[a].quantity \in Quantities
        /\ IsTakeProfit(o) => action[a].targets[o[2] - Exit] \in Quantities
    BY <2>1, <2>2 DEF ActionType, TargetSets
  <2>4. Quantities \subseteq Nat /\ 0 \in Quantities
    BY StoreAssumption DEF Quantities
  <2>5. new[o].filled = 0 /\ new[o].quantity \in Quantities /\ new[o] \in OrderType
    BY <1>1, <2>3, <2>4 DEF InsertOrders, InitialState, OrderType, OrderStates, Cancellable, Open
  <2> QED
    BY <2>4, <2>5
<1>2. \A o \in OrderIds : ~(o[1] = a /\ Requested(a, o[2])) => new[o] = ord[o]
  BY DEF InsertOrders
<1>3. new \in [OrderIds -> OrderType]
  <2>1. \A o \in OrderIds : new[o] \in OrderType
    BY <1>1, <1>2 DEF OrdersGood
  <2> QED
    BY <2>1 DEF InsertOrders
<1>4. \A o \in OrderIds : o[2] # ProtectiveStop => new[o].filled <= new[o].quantity
  BY <1>1, <1>2 DEF OrdersGood
<1>5. \A o \in OrderIds : new[o].state # "ABSENT" => action[o[1]].state # "ABSENT"
  BY <1>2 DEF OrdersGood
<1> QED
  BY <1>3, <1>4, <1>5 DEF OrdersGood

\* An action that is recorded may change its state, to any but ABSENT.
LEMMA RestateAction ==
    ASSUME ActionsGood(action), NEW a \in Actions, NEW st \in ActionStates \ {"ABSENT"},
           action[a].state # "ABSENT", ActionBecomes(a, st)
    PROVE  /\ ActionsGood(action')
           /\ \A ord : OrdersGood(action, ord) => OrdersGood(action', ord)
<1>1. action' \in [Actions -> ActionType]
  BY DEF ActionsGood, ActionBecomes, ActionType
<1>2. \A b \in Actions : /\ action'[b].plan = action[b].plan
                         /\ action'[b].state = IF b = a THEN st ELSE action[b].state
  BY DEF ActionsGood, ActionBecomes, ActionType
<1>3. ActionsGood(action')
  BY <1>1, <1>2 DEF ActionsGood
<1>4. \A b \in Actions : action[b].state # "ABSENT" => action'[b].state # "ABSENT"
  BY <1>2
<1> QED
  BY <1>3, <1>4, Ids DEF OrdersGood

\* update_plan: only a live plan changes, and no other becomes live.
LEMMA RestatePlan ==
    ASSUME PlansGood(plan), NEW p \in Plans, NEW st \in PlanStates, PlanBecomes(p, st)
    PROVE  /\ PlansGood(plan')
           /\ \A q \in Plans : plan[q] \in TerminalStates => plan'[q] = plan[q]
  BY DEF PlansGood, PlanBecomes, PlanLive, SameInstrument, NonTerminalStates, TerminalStates

LEMMA CappedIsBetween ==
    ASSUME NEW x \in Nat, NEW b
    PROVE  Capped(x, b) \in 0..x
  BY DEF Capped

\* The lots after a sale are still lots.
LEMMA ConsumeGood ==
    ASSUME LotsGood(lots), NEW K, NEW q
    PROVE  LotsGood(Consume(K, q))
<1> DEFINE new == Consume(K, q)
<1>1. Len(lots) \in Nat /\ DOMAIN lots = 1..Len(lots)
      /\ \A k \in 1..Len(lots) : lots[k] \in LotType
  BY DEF LotsGood
<1>2. \A x \in Nat : \A t : Residual(x, t) \in Nat
  BY DEF Residual
<1>3. \A k \in DOMAIN lots : new[k] \in LotType
  BY <1>1, <1>2 DEF Consume, LotType
<1>4. new \in [1..Len(lots) -> LotType]
  BY <1>1, <1>3 DEF Consume
<1> QED
  BY <1>1, <1>4 DEF LotsGood

-----------------------------------------------------------------------------
(* Steps.  Each preserves the invariant and what is committed of terminal  *)
(* plans.                                                                  *)

PlansKept == \A p \in Plans : plan[p] \in TerminalStates => plan'[p] = plan[p]

TablesGoodNext == /\ PlansGood(plan') /\ ActionsGood(action')
                  /\ OrdersGood(action', order') /\ LotsGood(lots')

\* A call that commits good tables.
LEMMA CallPreserves ==
    ASSUME StoreInv, Call, TablesGoodNext, Commits
    PROVE  StoreInv'
<1>1. Good(Committed') /\ saved' = Committed'
  BY GoodCommittedNext DEF TablesGoodNext, Commits
<1>2. Good(Committed)' /\ Good(saved)'
  BY <1>1 DEF Good, Committed
<1>3. TxGood' /\ ~tx'.active /\ tx'.todo = {}
  BY DEF StoreInv, TxGood, Call
<1>4. TerminalKept'
  BY <1>1 DEF TerminalKept, Committed
<1> QED
  BY <1>1, <1>2, <1>3, <1>4 DEF StoreInv, Committed

\* A step of the observation that leaves the tables good.
LEMMA RowPreserves ==
    ASSUME StoreInv, tx.active, tx'.active, TxGood', TablesGoodNext, PlansKept,
           saved' = saved
    PROVE  StoreInv'
<1>1. Good(Committed)' /\ Good(saved)'
  BY GoodCommittedNext DEF TablesGoodNext, StoreInv, Good, Committed
<1>2. TerminalKept'
  BY DEF TerminalKept, StoreInv, PlansKept
<1> QED
  BY <1>1, <1>2 DEF StoreInv

LEMMA TablesGood ==
    ASSUME StoreInv
    PROVE  /\ PlansGood(plan) /\ ActionsGood(action)
           /\ OrdersGood(action, order) /\ LotsGood(lots)
  BY GoodCommitted DEF StoreInv

LEMMA InitPreserves == Init => StoreInv
<1> SUFFICES ASSUME Init PROVE StoreInv
  OBVIOUS
<1>1. PlansGood(plan)
  BY DEF Init, PlansGood, PlanStates, NonTerminalStates
<1>2. ActionsGood(action)
  BY StoreAssumption DEF Init, ActionsGood, ActionType, NoAction, NoPlan, ActionStates,
     Quantities, TargetSets, NoTargets
<1>3. OrdersGood(action, order)
  BY Ids, StoreAssumption DEF Init, OrdersGood, OrderType, NoOrder, OrderStates, Quantities
<1>4. LotsGood(lots)
  BY DEF Init, LotsGood
<1>5. TxGood
  <2>1. (CHOOSE i \in Instruments : TRUE) \in Instruments
    BY StoreAssumption
  <2> QED
    BY <2>1 DEF Init, TxGood, Idle, Deadlines
<1> QED
  BY <1>1, <1>2, <1>3, <1>4, <1>5, GoodCommitted
     DEF Init, StoreInv, TerminalKept, Idle, Committed

LEMMA RecordPreserves ==
    ASSUME StoreInv, NEW a \in Actions, NEW k \in Kinds, NEW p \in Plans,
           NEW q \in Quantities, NEW stop \in BOOLEAN, NEW t \in TargetSets,
           RecordPlan(a, k, p, q, stop, t)
    PROVE  StoreInv'
<1> USE TablesGood
<1>1. PlansGood(plan')
  <2>1. CASE k \in Creating
    <3>1. /\ plan[p] = "ABSENT"
          /\ plan' = [plan EXCEPT ![p] = IF k = "OPEN_LONG" THEN "PROPOSED" ELSE "CLOSED"]
          /\ k = "OPEN_LONG" => \A r \in Plans : SameInstrument(p, r) => ~PlanLive(r)
      BY <2>1 DEF RecordPlan, NewPlan, MayOpen
    <3> QED
      BY <3>1 DEF PlansGood, PlanLive, SameInstrument, PlanStates,
                  NonTerminalStates, TerminalStates
  <2>2. CASE k \notin Creating
    BY <2>2 DEF RecordPlan
  <2> QED
    BY <2>1, <2>2
<1>2. ActionsGood(action')
  BY DEF RecordPlan, ActionsGood, ActionType, ActionStates
<1>3. OrdersGood(action', order')
  BY Ids DEF RecordPlan, NewAction, OrdersGood, ActionsGood
<1>4. LotsGood(lots')
  BY DEF RecordPlan
<1> QED
  BY <1>1, <1>2, <1>3, <1>4, CallPreserves DEF RecordPlan, TablesGoodNext

LEMMA ValidationPreserves ==
    ASSUME StoreInv, NEW a \in Actions, NEW facts, NEW accept \in BOOLEAN,
           PersistValidation(a, facts, accept)
    PROVE  StoreInv'
<1> USE TablesGood
<1>1. action[a].state # "ABSENT"
  BY DEF PersistValidation
<1>2. action[a].plan \in Plans
  BY <1>1 DEF ActionsGood
<1>3. PlansGood(plan')
  <2>1. CASE action[a].kind = "OPEN_LONG"
    <3>1. PlanBecomes(action[a].plan, IF accept THEN "ACCEPTED" ELSE "REJECTED")
      BY <2>1 DEF PersistValidation, PlanBecomes, PlanLive, NonTerminalStates
    <3> QED
      BY <1>2, <3>1, RestatePlan DEF PlanStates, NonTerminalStates, TerminalStates
  <2>2. CASE action[a].kind # "OPEN_LONG"
    BY <2>2 DEF PersistValidation
  <2> QED
    BY <2>1, <2>2
<1>4. ActionBecomes(a, IF accept THEN "VALIDATION_ACCEPTED" ELSE "VALIDATION_REJECTED")
  BY DEF PersistValidation, ActionBecomes
<1>5. ActionsGood(action') /\ \A ord : OrdersGood(action, ord) => OrdersGood(action', ord)
  BY <1>1, <1>4, RestateAction DEF ActionStates
<1>6. OrdersGood(action', order') /\ LotsGood(lots')
  BY <1>5 DEF PersistValidation
<1> QED
  BY <1>3, <1>5, <1>6, CallPreserves DEF PersistValidation, TablesGoodNext

LEMMA SubmitPreserves ==
    ASSUME StoreInv, NEW a \in Actions, Submit(a)
    PROVE  StoreInv'
<1> USE TablesGood
<1>1. action[a].state # "ABSENT" /\ Call /\ LotsGood(lots')
  BY DEF Submit, Submits, SubmitOpenLong, SubmitCancelEntry, SubmitModifyProtection,
         SubmitReduce, SubmitExit
<1>2. action[a].plan \in Plans
  BY <1>1 DEF ActionsGood
<1>3. Commits
  BY DEF Submit, SubmitOpenLong, SubmitCancelEntry, SubmitModifyProtection,
         SubmitReduce, SubmitExit
<1>4. PlansGood(plan')
  <2>1. \/ \E st \in PlanStates : PlanBecomes(action[a].plan, st)
        \/ plan' = plan
    BY DEF Submit, SubmitOpenLong, SubmitCancelEntry, SubmitModifyProtection,
           SubmitReduce, SubmitExit, PlanStates, NonTerminalStates, TerminalStates
  <2> QED
    BY <1>2, <2>1, RestatePlan
<1>5. ActionsGood(action') /\ \A ord : OrdersGood(action, ord) => OrdersGood(action', ord)
  <2>1. \E st \in ActionStates \ {"ABSENT"} : ActionBecomes(a, st)
    BY DEF Submit, SubmitOpenLong, SubmitCancelEntry, SubmitModifyProtection,
           SubmitReduce, SubmitExit, ActionStates
  <2> QED
    BY <1>1, <2>1, RestateAction
<1>6. OrdersGood(action, order')
  <2>1. /\ "OPEN" \in OrderStates /\ "ACTIVE" \in OrderStates
    BY DEF OrderStates, Cancellable, Open
  <2>2. CASE SubmitCancelEntry(a)
    BY <2>2, CancelRolesGood DEF SubmitCancelEntry
  <2>3. CASE SubmitModifyProtection(a)
    BY <1>1, <2>1, <2>3, CancelRolesGood, InsertOrdersGood DEF SubmitModifyProtection
  <2>4. CASE SubmitOpenLong(a) \/ SubmitReduce(a) \/ SubmitExit(a)
    BY <1>1, <2>1, <2>4, InsertOrdersGood DEF SubmitOpenLong, SubmitReduce, SubmitExit
  <2> QED
    BY <2>2, <2>3, <2>4 DEF Submit
<1> QED
  BY <1>1, <1>3, <1>4, <1>5, <1>6, CallPreserves DEF TablesGoodNext

-----------------------------------------------------------------------------
(* process_observation *)

LEMMA BeginPreserves ==
    ASSUME StoreInv, NEW i \in Instruments, NEW l \in 1..MaxLiquidity, BeginObservation(i, l)
    PROVE  StoreInv'
<1> USE TablesGood
<1>1. \A o \in OrderIds : Deadline(o) \in Deadlines
  BY Ids DEF Deadline, Deadlines
<1>2. RowsOf(i) \subseteq OrderIds /\ \A o \in RowsOf(i) : order[o].state # "ABSENT"
  BY DEF RowsOf, Open
<1>3. passed' \subseteq Deadlines
  BY <1>1, <1>2 DEF BeginObservation, StoreInv, TxGood
<1>4. TxGood'
  BY <1>2, <1>3, StoreAssumption DEF BeginObservation, TxGood, rows
<1>5. Good(Committed)' /\ Good(saved)' /\ TerminalKept' /\ tx'.active /\ saved' = saved
  BY DEF BeginObservation, StoreInv, rows, Committed, Good, TerminalKept
<1> QED
  BY <1>4, <1>5 DEF StoreInv

\* What the row under way refers to, and that its transaction stays good.
LEMMA RowFacts ==
    ASSUME StoreInv, NEW o \in tx.todo, tx.active
    PROVE  /\ o \in OrderIds /\ o[1] \in Actions /\ o[2] \in Nat
           /\ order[o].state # "ABSENT" /\ action[o[1]].state # "ABSENT"
           /\ PlanOf(o) \in Plans
           /\ order[o] \in OrderType
<1>1. o \in OrderIds /\ order[o].state # "ABSENT"
  BY DEF StoreInv, TxGood
<1> QED
  BY <1>1, Ids, TablesGood DEF OrdersGood, ActionsGood, PlanOf

LEMMA TxStep ==
    ASSUME StoreInv, tx.active, NEW o \in tx.todo, NEW l \in Nat, NEW m \in BOOLEAN,
           tx' = [tx EXCEPT !.todo = @ \ {o}, !.liquidity = l, !.protectionMatched = m],
           passed' = passed,
           \A r \in OrderIds : order[r].state # "ABSENT" => order'[r].state # "ABSENT"
    PROVE  TxGood' /\ tx'.active
<1>1. /\ tx' \in [active : BOOLEAN, instrument : Instruments, todo : SUBSET OrderIds,
                  liquidity : Nat, protectionMatched : BOOLEAN]
      /\ tx'.todo \subseteq tx.todo /\ tx'.active
  BY DEF StoreInv, TxGood
<1>2. \A r \in tx.todo : r \in OrderIds /\ order[r].state # "ABSENT"
  BY DEF StoreInv, TxGood
<1> QED
  BY <1>1, <1>2 DEF StoreInv, TxGood

\* RowDone is such a step.
LEMMA RowDoneStep ==
    ASSUME StoreInv, tx.active, NEW o \in tx.todo, RowDone(o), passed' = passed,
           \A r \in OrderIds : order[r].state # "ABSENT" => order'[r].state # "ABSENT"
    PROVE  TxGood' /\ tx'.active
<1>1. /\ tx.liquidity \in Nat /\ tx.protectionMatched \in BOOLEAN
      /\ tx' = [tx EXCEPT !.todo = @ \ {o}, !.liquidity = tx.liquidity,
                          !.protectionMatched = tx.protectionMatched]
  BY DEF RowDone, StoreInv, TxGood
<1> QED
  BY <1>1, TxStep

\* A new state of one existing order, its quantities unchanged.
LEMMA RestateOrder ==
    ASSUME OrdersGood(action, order), NEW o \in OrderIds, order[o].state # "ABSENT",
           NEW st \in OrderStates \ {"ABSENT"},
           order' = [order EXCEPT ![o].state = st]
    PROVE  /\ OrdersGood(action, order')
           /\ \A r \in OrderIds : order[r].state # "ABSENT" => order'[r].state # "ABSENT"
<1>1. order' \in [OrderIds -> OrderType]
  BY DEF OrdersGood, OrderType
<1>2. \A r \in OrderIds : /\ order'[r].filled = order[r].filled
                          /\ order'[r].quantity = order[r].quantity
                          /\ order'[r].state = IF r = o THEN st ELSE order[r].state
  BY DEF OrdersGood, OrderType
<1>3. \A r \in OrderIds : order[r].state = "ABSENT" <=> order'[r].state = "ABSENT"
  BY <1>2
<1>4. OrdersGood(action, order')
  BY <1>1, <1>2, <1>3 DEF OrdersGood
<1> QED
  BY <1>3, <1>4

LEMMA PassOverPreserves ==
    ASSUME StoreInv, NEW o \in tx.todo, SkipTakeProfit(o) \/ NotMatched(o)
    PROVE  StoreInv'
<1>1. tx.active /\ RowDone(o) /\ UNCHANGED <<rows, passed, saved>>
  BY DEF SkipTakeProfit, NotMatched, Matchable, Considered, AtRow
<1>2. TxGood' /\ tx'.active
  BY <1>1, RowDoneStep DEF rows
<1>3. TablesGoodNext /\ PlansKept
  BY <1>1, TablesGood DEF rows, TablesGoodNext, PlansKept
<1> QED
  BY <1>1, <1>2, <1>3, RowPreserves

LEMMA CancelEmptyPreserves ==
    ASSUME StoreInv, NEW o \in tx.todo, CancelEmpty(o)
    PROVE  StoreInv'
<1>1. /\ tx.active /\ RowDone(o) /\ UNCHANGED <<plan, action, lots, passed, saved>>
      /\ order' = order \/ order' = [order EXCEPT ![o].state = "CANCELLED"]
  BY DEF CancelEmpty, Considered, AtRow
<1>2. /\ OrdersGood(action, order')
      /\ \A r \in OrderIds : order[r].state # "ABSENT" => order'[r].state # "ABSENT"
  BY <1>1, RowFacts, TablesGood, RestateOrder DEF OrderStates
<1>3. TxGood' /\ tx'.active
  BY <1>1, <1>2, RowDoneStep
<1>4. TablesGoodNext /\ PlansKept
  BY <1>1, <1>2, TablesGood DEF TablesGoodNext, PlansKept
<1> QED
  BY <1>1, <1>3, <1>4, RowPreserves

LEMMA ExpirePreserves ==
    ASSUME StoreInv, NEW o \in tx.todo, Expire(o)
    PROVE  StoreInv'
<1> USE TablesGood
<1>1. /\ tx.active /\ RowDone(o) /\ UNCHANGED <<lots, passed, saved>>
      /\ order' = [order EXCEPT ![o].state = "EXPIRED"]
      /\ \E st \in ActionStates \ {"ABSENT"} : ActionBecomes(o[1], st)
      /\ plan' = plan \/ \E st \in PlanStates : PlanBecomes(PlanOf(o), st)
  BY DEF Expire, Matchable, Considered, AtRow, ActionStates, PlanStates,
         TerminalStates, NonTerminalStates
<1>2. /\ OrdersGood(action, order')
      /\ \A r \in OrderIds : order[r].state # "ABSENT" => order'[r].state # "ABSENT"
  BY <1>1, RowFacts, RestateOrder DEF OrderStates
<1>3. TxGood' /\ tx'.active
  BY <1>1, <1>2, RowDoneStep
<1>4. ActionsGood(action') /\ \A ord : OrdersGood(action, ord) => OrdersGood(action', ord)
  BY <1>1, RowFacts, RestateAction
<1>5. PlansGood(plan') /\ PlansKept
  BY <1>1, RowFacts, RestatePlan DEF PlansKept
<1> QED
  BY <1>1, <1>2, <1>3, <1>4, <1>5, RowPreserves DEF TablesGoodNext

LEMMA QuantityBounds ==
    ASSUME StoreInv, NEW o \in tx.todo, Fills(o)
    PROVE  /\ Quantity(o) \in Nat /\ Quantity(o) <= tx.liquidity /\ tx.liquidity \in Nat
           /\ o[2] # ProtectiveStop =>
                order[o].filled + Quantity(o) <= order[o].quantity
<1>1. tx.active /\ tx.liquidity \in Nat
  BY DEF Fills, Matchable, Considered, AtRow, StoreInv, TxGood
<1>2. Quantity(o) \in 0..tx.liquidity
  BY <1>1, CappedIsBetween DEF Quantity
<1>3. ASSUME o[2] # ProtectiveStop
      PROVE  order[o].filled + Quantity(o) <= order[o].quantity
  <2>1. /\ order[o].quantity \in Nat /\ order[o].filled \in Nat
        /\ order[o].filled <= order[o].quantity
    BY <1>1, <1>3, RowFacts, TablesGood, StoreAssumption DEF OrdersGood, OrderType, Quantities
  <2>2. Unfilled(o) \in Nat /\ Unfilled(o) = order[o].quantity - order[o].filled
    BY <2>1 DEF Unfilled
  <2>3. Remaining(o) \in 0..Unfilled(o)
    BY <1>3, <2>2, CappedIsBetween DEF Remaining
  <2>4. Quantity(o) <= Remaining(o)
    BY <1>1, <2>2, <2>3 DEF Quantity, Capped
  <2> QED
    BY <1>1, <1>2, <2>1, <2>2, <2>3, <2>4
<1> QED
  BY <1>1, <1>2, <1>3

LEMMA FillsTx ==
    ASSUME StoreInv, NEW o \in tx.todo, Fills(o),
           \A r \in OrderIds : order[r].state # "ABSENT" => order'[r].state # "ABSENT"
    PROVE  TxGood' /\ tx'.active
<1>1. /\ tx.liquidity - Quantity(o) \in Nat
      /\ (tx.protectionMatched \/ IsProtection(o)) \in BOOLEAN
  BY QuantityBounds
<1>2. tx.active /\ passed' = passed
  BY DEF Fills, Matchable, Considered, AtRow
<1>3. tx' = [tx EXCEPT !.todo = @ \ {o}, !.liquidity = tx.liquidity - Quantity(o),
                       !.protectionMatched = tx.protectionMatched \/ IsProtection(o)]
  BY DEF Fills, StoreInv, TxGood
<1> QED
  BY <1>1, <1>2, <1>3, TxStep

\* The filled row: no more than its quantity, and nothing else touched.
LEMMA FilledGood ==
    ASSUME StoreInv, NEW o \in tx.todo, Fills(o)
    PROVE  /\ OrdersGood(action, Filled(o))
           /\ \A r \in OrderIds : order[r].state # "ABSENT" => Filled(o)[r].state # "ABSENT"
<1> DEFINE st == IF Full(o) THEN "FILLED" ELSE "PARTIALLY_FILLED"
<1>1. tx.active /\ st \in OrderStates \ {"ABSENT"}
  BY DEF Fills, Matchable, Considered, AtRow, OrderStates, Cancellable, Open
<1>2. OrdersGood(action, order) /\ o \in OrderIds /\ order[o] \in OrderType
      /\ action[o[1]].state # "ABSENT"
  BY <1>1, RowFacts, TablesGood
<1>3. order[o].filled + Quantity(o) \in Nat
  BY <1>2, QuantityBounds DEF OrderType
<1>4. \A r \in OrderIds :
        Filled(o)[r] = IF r = o THEN [state |-> st, quantity |-> order[o].quantity,
                                      filled |-> order[o].filled + Quantity(o)]
                       ELSE order[r]
  BY <1>2 DEF Filled, OrdersGood
<1>5. Filled(o) \in [OrderIds -> OrderType]
  <2>1. \A r \in OrderIds : Filled(o)[r] \in OrderType
    BY <1>1, <1>2, <1>3, <1>4 DEF OrdersGood, OrderType
  <2> QED
    BY <1>2, <2>1 DEF Filled, OrdersGood
<1>6. \A r \in OrderIds : r[2] # ProtectiveStop => Filled(o)[r].filled <= Filled(o)[r].quantity
  BY <1>2, <1>4, QuantityBounds DEF OrdersGood
<1> QED
  BY <1>1, <1>2, <1>4, <1>5, <1>6 DEF OrdersGood

\* close_trade_plan
LEMMA CloseGood ==
    ASSUME StoreInv, NEW o \in tx.todo, Fills(o), Close(o)
    PROVE  /\ OrdersGood(action, order') /\ PlansGood(plan') /\ PlansKept
           /\ \A r \in OrderIds : order[r].state # "ABSENT" => order'[r].state # "ABSENT"
<1>1. tx.active /\ "CLOSED" \in PlanStates
  BY DEF Fills, Matchable, Considered, AtRow, PlanStates, TerminalStates
<1>2. PlansGood(plan') /\ PlansKept
  BY <1>1, RowFacts, TablesGood, RestatePlan DEF Close, PlansKept
<1> QED
  BY <1>2, FilledGood, CancelRolesGood DEF Close

LEMMA FillEntryPreserves ==
    ASSUME StoreInv, NEW o \in tx.todo, FillEntry(o)
    PROVE  StoreInv'
<1> USE TablesGood
<1>1. Fills(o) /\ tx.active /\ saved' = saved
  BY DEF FillEntry, Fills, Matchable, Considered, AtRow
<1>2. LotsGood(lots')
  <2>1. [plan |-> PlanOf(o), quantity |-> Quantity(o)] \in LotType
    BY <1>1, RowFacts, QuantityBounds DEF LotType
  <2> QED
    BY <2>1 DEF FillEntry, LotsGood
<1>3. CASE Full(o)
  <2> DEFINE P == ProtectionsOf(PlanOf(o))
  <2>1. /\ \E st \in ActionStates \ {"ABSENT"} : ActionBecomes(o[1], st)
        /\ \E st \in PlanStates : PlanBecomes(PlanOf(o), st)
    BY <1>3 DEF FillEntry, ActionStates, PlanStates, NonTerminalStates
  <2>2. PlansGood(plan') /\ PlansKept
    BY <1>1, <2>1, RowFacts, RestatePlan DEF PlansKept
  <2>3. ActionsGood(action') /\ \A ord : OrdersGood(action, ord) => OrdersGood(action', ord)
    BY <1>1, <2>1, RowFacts, RestateAction
  <2>4. OrdersGood(action, Filled(o))
    BY <1>1, FilledGood
  <2>5. \A r \in OrderIds : r \in P /\ order[r].state = "STAGED" => r # o
    BY <1>1 DEF FillEntry, ProtectionsOf, IsProtection, IsTakeProfit, ProtectiveStop, Entry, Exit
  <2>6. \A r \in OrderIds :
          IF r \in P /\ order[r].state = "STAGED"
          THEN order'[r] = [order[r] EXCEPT !.state = "ACTIVE"] ELSE order'[r] = Filled(o)[r]
    BY <1>3 DEF FillEntry
  <2>7. \A r \in OrderIds : order[r] \in OrderType /\ Filled(o)[r] \in OrderType
    BY <2>4 DEF OrdersGood
  <2>8. \A r \in OrderIds : r # o => Filled(o)[r] = order[r]
    BY <1>1, RowFacts DEF Filled, OrdersGood
  <2>9. \A r \in OrderIds : /\ order'[r] \in OrderType
                            /\ order'[r].filled = Filled(o)[r].filled
                            /\ order'[r].quantity = Filled(o)[r].quantity
                            /\ Filled(o)[r].state = "ABSENT" => order'[r].state = "ABSENT"
                            /\ Filled(o)[r].state # "ABSENT" => order'[r].state # "ABSENT"
    <3> TAKE r \in OrderIds
    <3>1. order[r] \in OrderType /\ Filled(o)[r] \in OrderType
      BY <2>7
    <3>2. CASE r \in P /\ order[r].state = "STAGED"
      <4>1. Filled(o)[r] = order[r] /\ order'[r] = [order[r] EXCEPT !.state = "ACTIVE"]
        BY <2>5, <2>6, <2>8, <3>2
      <4> QED
        BY <3>1, <3>2, <4>1 DEF OrderType, OrderStates, Cancellable, Open
    <3>3. CASE ~(r \in P /\ order[r].state = "STAGED")
      <4>1. order'[r] = Filled(o)[r]
        BY <2>6, <3>3
      <4> QED
        BY <3>1, <4>1
    <3> QED
      BY <3>2, <3>3
  <2>10. order' \in [OrderIds -> OrderType]
    BY <1>3, <2>9 DEF FillEntry
  <2>11. OrdersGood(action, order')
    BY <2>4, <2>9, <2>10 DEF OrdersGood
  <2>12. TxGood' /\ tx'.active
    BY <1>1, <2>9, FilledGood, FillsTx
  <2> QED
    BY <1>1, <1>2, <2>2, <2>3, <2>11, <2>12, RowPreserves DEF TablesGoodNext
<1>4. CASE ~Full(o)
  <2>1. order' = Filled(o) /\ UNCHANGED <<plan, action>>
    BY <1>4 DEF FillEntry
  <2>2. TablesGoodNext /\ PlansKept /\ TxGood' /\ tx'.active
    BY <1>1, <1>2, <2>1, FilledGood, FillsTx DEF TablesGoodNext, PlansKept
  <2> QED
    BY <1>1, <2>2, RowPreserves
<1> QED
  BY <1>3, <1>4

LEMMA FillSellPreserves ==
    ASSUME StoreInv, NEW o \in tx.todo, FillReduction(o) \/ FillExit(o) \/ FillProtection(o)
    PROVE  StoreInv'
<1> USE TablesGood
<1>1. Sell(o)
  BY DEF FillReduction, FillExit, FillProtection
<1>2. Fills(o) /\ tx.active /\ saved' = saved /\ LotsGood(lots')
  BY <1>1, ConsumeGood DEF Sell, Fills, Matchable, Considered, AtRow
<1>3. \/ Close(o)
      \/ order' = Filled(o) /\ UNCHANGED plan
  BY DEF FillReduction, FillExit, FillProtection
<1>4. \/ UNCHANGED action
      \/ \E st \in ActionStates \ {"ABSENT"} : ActionBecomes(o[1], st)
  BY DEF FillReduction, FillExit, FillProtection, ActionStates
<1>5. /\ OrdersGood(action, order') /\ PlansGood(plan') /\ PlansKept
      /\ \A r \in OrderIds : order[r].state # "ABSENT" => order'[r].state # "ABSENT"
  BY <1>2, <1>3, CloseGood, FilledGood DEF PlansKept
<1>6. ActionsGood(action') /\ OrdersGood(action', order')
  BY <1>2, <1>4, <1>5, RowFacts, RestateAction
<1>7. TxGood' /\ tx'.active
  BY <1>2, <1>5, FillsTx
<1> QED
  BY <1>2, <1>5, <1>6, <1>7, RowPreserves DEF TablesGoodNext

LEMMA CommitPreserves ==
    ASSUME StoreInv, CommitObservation
    PROVE  StoreInv'
<1>1. UNCHANGED rows /\ saved' = Committed' /\ tx' = Idle /\ passed' = passed
  BY DEF CommitObservation, Commits
<1>2. Idle.todo = {} /\ ~Idle.active /\ TxGood'
  <2>1. (CHOOSE i \in Instruments : TRUE) \in Instruments
    BY StoreAssumption
  <2> QED
    BY <1>1, <2>1 DEF Idle, TxGood, StoreInv
<1>3. Good(Committed)' /\ Good(saved)' /\ TerminalKept'
  BY <1>1 DEF StoreInv, rows, Committed, Good, TerminalKept
<1> QED
  BY <1>1, <1>2, <1>3 DEF StoreInv, Committed

LEMMA AbortPreserves ==
    ASSUME StoreInv, AbortObservation
    PROVE  StoreInv'
<1>1. /\ plan' = saved.plan /\ action' = saved.action /\ order' = saved.order
      /\ lots' = saved.lots /\ saved' = saved /\ tx' = Idle /\ passed' = passed
  BY DEF AbortObservation
<1>2. Idle.todo = {} /\ ~Idle.active /\ TxGood'
  <2>1. (CHOOSE i \in Instruments : TRUE) \in Instruments
    BY StoreAssumption
  <2> QED
    BY <1>1, <2>1 DEF Idle, TxGood, StoreInv
<1>3. saved \in RowsType
  BY DEF StoreInv, Good
<1>4. Committed' = saved
  BY <1>1, <1>3 DEF Committed, RowsType
<1>5. Good(Committed)' /\ Good(saved)' /\ TerminalKept'
  BY <1>1, <1>4 DEF StoreInv, Good, TerminalKept, Committed
<1> QED
  BY <1>1, <1>2, <1>4, <1>5 DEF StoreInv, Committed

LEMMA StutterPreserves ==
    ASSUME StoreInv, UNCHANGED vars
    PROVE  StoreInv'
  BY DEF vars, StoreInv, Good, Committed, TxGood, TerminalKept

LEMMA StepPreserves ==
    ASSUME StoreInv, [Next]_vars
    PROVE  StoreInv'
<1>1. ASSUME NEW a \in Actions, Record(a) PROVE StoreInv'
  BY <1>1, RecordPreserves DEF Record
<1>2. ASSUME NEW a \in Actions, NEW accept \in BOOLEAN, PersistValidation(a, Facts, accept)
      PROVE  StoreInv'
  BY <1>2, ValidationPreserves
<1>3. ASSUME NEW a \in Actions, Submit(a) PROVE StoreInv'
  BY <1>3, SubmitPreserves
<1>4. ASSUME NEW o \in tx.todo, ProcessRow(o) PROVE StoreInv'
  BY <1>4, PassOverPreserves, CancelEmptyPreserves, ExpirePreserves, FillEntryPreserves,
     FillSellPreserves DEF ProcessRow
<1>5. CASE Observation
  BY <1>4, <1>5, BeginPreserves, CommitPreserves, AbortPreserves DEF Observation
<1> QED
  BY <1>1, <1>2, <1>3, <1>5, StutterPreserves DEF Next

-----------------------------------------------------------------------------
(***************************************************************************)
(* The invariant of the store: the tables are well-formed both inside a    *)
(* transaction and as committed.                                           *)
(***************************************************************************)
THEOREM StoreInvariant == Spec => []StoreInv
<1>1. Init => StoreInv
  BY InitPreserves
<1>2. StoreInv /\ [Next]_vars => StoreInv'
  BY StepPreserves
<1> QED
  BY <1>1, <1>2, PTL DEF Spec

\* Every row the store ever holds is well-formed, whatever the calls.
THEOREM StoreTypes == Spec => []TypeOK
<1>1. StoreInv => TypeOK
  BY DEF StoreInv, TypeOK, TxGood, Good
<1> QED
  BY <1>1, StoreInvariant, PTL

\* At most one plan of an instrument is under way, in every state of the store.
THEOREM OnePlanPerInstrument == Spec => []OneActivePlan
<1>1. StoreInv => OneActivePlan
  BY TablesGood DEF PlansGood, OneActivePlan, PlanLive
<1> QED
  BY <1>1, StoreInvariant, PTL

\* Fills of an order never exceed its quantity, over any number of observations.
THEOREM FillsWithinOrder == Spec => []NoOverfill
<1>1. StoreInv => NoOverfill
  BY TablesGood DEF OrdersGood, NoOverfill
<1> QED
  BY <1>1, StoreInvariant, PTL

-----------------------------------------------------------------------------
(* The store and the emergency controller *)

EmergencyInv == StoreInv /\ EmergencyTypeOK

-----------------------------------------------------------------------------
(* The parts of an execution *)

\* Plans become CLOSED or RECOVERY_REQUIRED, the latter only when live: the
\* live plans are those that were.
LEMMA ExecutePlans ==
    ASSUME StoreInv, NEW e \in Emergencies, NEW obs, NEW q, Execute(e, obs, q)
    PROVE  PlansGood(plan')
<1>1. PlansGood(plan)
  BY TablesGood
<1>2. \A p \in Plans : /\ plan'[p] \in {"CLOSED", "RECOVERY_REQUIRED", plan[p]}
                       /\ plan'[p] = "RECOVERY_REQUIRED" => PlanLive(p) \/ plan'[p] = plan[p]
  BY DEF Execute, RecoveringPlan
<1>3. plan' \in [Plans -> PlanStates]
  <2>1. \A p \in Plans : plan'[p] \in PlanStates
    BY <1>1, <1>2 DEF PlansGood, PlanStates, TerminalStates, NonTerminalStates
  <2>2. plan' = [p \in Plans |-> plan'[p]]
    BY DEF Execute
  <2> QED
    BY <2>1, <2>2
<1>4. \A p \in Plans : plan'[p] \in NonTerminalStates => plan[p] \in NonTerminalStates
  BY <1>2 DEF PlanLive, NonTerminalStates
<1> QED
  BY <1>1, <1>3, <1>4 DEF PlansGood, SameInstrument

\* Cancelling everything and stopping the actions keeps both tables good.
LEMMA ExecuteOrders ==
    ASSUME StoreInv, NEW e \in Emergencies, NEW obs, NEW q, Execute(e, obs, q)
    PROVE  ActionsGood(action') /\ OrdersGood(action', order')
<1>1. ActionsGood(action) /\ OrdersGood(action, order)
  BY TablesGood
<1>2. CASE emergency[e] = "NONE"
  <2>1. order' = CancelRoles(order, OrderIds) /\ action' = [a \in Actions |-> StoppedAction(a)]
    BY <1>2 DEF Execute, DisableEntry, CancelAll
  <2>2. \A a \in Actions : /\ StoppedAction(a) \in ActionType
                           /\ StoppedAction(a).plan = action[a].plan
                           /\ StoppedAction(a).state = "ABSENT" <=> action[a].state = "ABSENT"
    BY <1>1 DEF StoppedAction, ActionsGood, ActionType, ActionStates
  <2>3. ActionsGood(action')
    BY <1>1, <2>1, <2>2 DEF ActionsGood
  <2>4. OrdersGood(action, order')
    BY <1>1, <2>1, CancelRolesGood
  <2>5. \A o \in OrderIds : order'[o].state # "ABSENT" => action'[o[1]].state # "ABSENT"
    BY <2>1, <2>2, <2>4, Ids DEF OrdersGood
  <2> QED
    BY <2>3, <2>4, <2>5 DEF OrdersGood
<1>3. CASE emergency[e] # "NONE"
  BY <1>1, <1>3 DEF Execute, DisableEntry
<1> QED
  BY <1>2, <1>3

\* Every lot stays a lot, whatever its plan sells.
LEMMA ExecuteLots ==
    ASSUME StoreInv, NEW e \in Emergencies, NEW obs, NEW q, Execute(e, obs, q)
    PROVE  LotsGood(lots')
<1>1. LotsGood(lots) /\ Len(lots) \in Nat /\ DOMAIN lots = 1..Len(lots)
  BY TablesGood DEF LotsGood
<1>2. ASSUME NEW K, NEW n, NEW k \in DOMAIN lots
      PROVE  Consume(K, n)[k] \in LotType
  <2>1. Consume(K, n) \in Seq(LotType) /\ DOMAIN Consume(K, n) = DOMAIN lots
    BY <1>1, ConsumeGood DEF LotsGood, Consume
  <2> QED
    BY <2>1
<1>3. lots' = [k \in 1..Len(lots) |-> Consume(LotsOf(lots, lots[k].plan), q[lots[k].plan])[k]]
  BY <1>1 DEF Execute, SellLots
<1>4. lots' \in [1..Len(lots) -> LotType]
  BY <1>1, <1>2, <1>3
<1> QED
  BY <1>1, <1>4 DEF LotsGood

\* A call that commits good tables keeps the store's invariant, also when it
\* changes plans that were terminal.
LEMMA ForcedCallPreserves ==
    ASSUME StoreInv, Call, TablesGoodNext, Commits
    PROVE  StoreInv'
<1>1. Good(Committed') /\ saved' = Committed'
  BY GoodCommittedNext DEF TablesGoodNext, Commits
<1>2. Good(Committed)' /\ Good(saved)'
  BY <1>1 DEF Good, Committed
<1>3. TxGood' /\ ~tx'.active /\ tx'.todo = {}
  BY DEF StoreInv, TxGood, Call
<1>4. TerminalKept'
  BY <1>1 DEF TerminalKept, Committed
<1> QED
  BY <1>1, <1>2, <1>3, <1>4 DEF StoreInv, Committed

LEMMA ExecutePreserves ==
    ASSUME EmergencyInv, NEW e \in Emergencies, NEW obs \in SUBSET Observations,
           NEW q \in [Plans -> Quantities], Execute(e, obs, q)
    PROVE  EmergencyInv'
<1>1. StoreInv'
  <2>1. Call /\ Commits
    BY DEF Execute
  <2> QED
    BY <2>1, ExecutePlans, ExecuteOrders, ExecuteLots, ForcedCallPreserves
       DEF EmergencyInv, TablesGoodNext
<1>2. system' \in SystemStates \cup {"NONE"}
  BY DEF Execute, DisableEntry, EmergencyInv, EmergencyTypeOK, SystemStates
<1>3. emergency' \in [Emergencies -> {"NONE", "EXPOSURE_REDUCING", "COMPLETED"}]
  BY DEF Execute, EmergencyInv, EmergencyTypeOK
<1>4. sold' \in [FillIds -> Quantities]
  <2>1. \A f \in FillIds : f[2] \in Plans
    BY DEF FillIds
  <2> QED
    BY <2>1 DEF Execute, EmergencyInv, EmergencyTypeOK
<1> QED
  BY <1>1, <1>2, <1>3, <1>4 DEF EmergencyInv, EmergencyTypeOK

\* A system state change touches neither the store nor the emergency tables.
LEMMA ChangePreserves ==
    ASSUME EmergencyInv, NEW c \in Changes, ChangeSystemState(c[1], c[2])
    PROVE  EmergencyInv'
<1>1. UNCHANGED vars
  BY DEF ChangeSystemState, Call, rows, vars
<1>2. StoreInv'
  BY <1>1, StutterPreserves DEF EmergencyInv
<1>3. c[2] \in SystemStates
  BY EmergencyAssumption DEF CanTransition, SystemStates
<1> QED
  BY <1>2, <1>3 DEF ChangeSystemState, EmergencyInv, EmergencyTypeOK

LEMMA EmergencyStep ==
    ASSUME EmergencyInv, [EmergencyNext]_allVars
    PROVE  EmergencyInv'
<1>1. CASE Next /\ UNCHANGED emergencyVars
  <2>1. StoreInv'
    BY <1>1, StepPreserves DEF EmergencyInv
  <2> QED
    BY <1>1, <2>1 DEF EmergencyInv, EmergencyTypeOK, emergencyVars
<1>2. CASE UNCHANGED allVars
  <2>1. UNCHANGED vars
    BY <1>2 DEF allVars, vars
  <2>2. StoreInv'
    BY <2>1, StutterPreserves DEF EmergencyInv
  <2> QED
    BY <1>2, <2>2 DEF allVars, EmergencyInv, EmergencyTypeOK
<1> QED
  BY <1>1, <1>2, ExecutePreserves, ChangePreserves DEF EmergencyNext

LEMMA EmergencyInitially ==
    ASSUME EmergencyInit
    PROVE  EmergencyInv
<1>1. StoreInv
  BY InitPreserves DEF EmergencyInit
<1>2. 0 \in Quantities
  BY StoreAssumption DEF Quantities
<1> QED
  BY <1>1, <1>2 DEF EmergencyInit, EmergencyInv, EmergencyTypeOK

-----------------------------------------------------------------------------
(***************************************************************************)
(* The store's invariant is an invariant of the composition.               *)
(***************************************************************************)
THEOREM EmergencyInvariant == EmergencySpec => []EmergencyInv
<1>1. EmergencyInit => EmergencyInv
  BY EmergencyInitially
<1>2. EmergencyInv /\ [EmergencyNext]_allVars => EmergencyInv'
  BY EmergencyStep
<1> QED
  BY <1>1, <1>2, PTL DEF EmergencySpec

\* The emergency tables are always well-formed.
THEOREM EmergencyTypes == EmergencySpec => []EmergencyTypeOK
<1>1. EmergencyInv => EmergencyTypeOK
  BY DEF EmergencyInv
<1> QED
  BY <1>1, EmergencyInvariant, PTL

\* An emergency, which rewrites plans of every state, never leaves two plans of
\* one instrument under way.
THEOREM EmergencyKeepsOnePlan == EmergencySpec => []OneActivePlan
<1>1. EmergencyInv => OneActivePlan
  BY TablesGood DEF EmergencyInv, PlansGood, OneActivePlan, PlanLive
<1> QED
  BY <1>1, EmergencyInvariant, PTL

\* No order fills more than its quantity, whenever an emergency interrupts it.
THEOREM EmergencyKeepsFillsBounded == EmergencySpec => []NoOverfill
<1>1. EmergencyInv => NoOverfill
  BY TablesGood DEF EmergencyInv, OrdersGood, NoOverfill
<1> QED
  BY <1>1, EmergencyInvariant, PTL

\* After an emergency halted the system, no change prepared before it, however
\* many there are, moves the system anywhere but to recovery.
THEOREM HaltStands == EmergencySpec => HaltIsNotOverwritten
<1>1. [EmergencyNext]_allVars
      => [system = "HALTED" => system' \in {"HALTED", "RECOVERING"}]_allVars
  <2> SUFFICES ASSUME EmergencyNext, system = "HALTED"
               PROVE  system' \in {"HALTED", "RECOVERING"}
    OBVIOUS
  <2>1. CASE UNCHANGED emergencyVars
    BY <2>1 DEF emergencyVars
  <2>2. ASSUME NEW c \in Changes, ChangeSystemState(c[1], c[2])
        PROVE  system' \in {"HALTED", "RECOVERING"}
    <3>1. c \in CanTransition /\ c[1] = "HALTED" /\ system' = c[2]
      BY <2>2, EmergencyAssumption DEF ChangeSystemState
    <3> QED
      BY <3>1 DEF CanTransition
  <2>3. ASSUME NEW e \in Emergencies, NEW obs, NEW q, Execute(e, obs, q)
        PROVE  system' \in {"HALTED", "RECOVERING"}
    BY <2>3 DEF Execute, DisableEntry
  <2> QED
    BY <2>1, <2>2, <2>3 DEF EmergencyNext
<1> QED
  BY <1>1, PTL DEF EmergencySpec, HaltIsNotOverwritten

-----------------------------------------------------------------------------
(* What a sale takes from the lots *)

Held(lts) == [k \in DOMAIN lts |-> lts[k].quantity]

LEMMA HeldTypes ==
    ASSUME NEW lts, LotsGood(lts)
    PROVE  /\ IsFiniteSet(DOMAIN lts) /\ Len(lts) \in Nat /\ DOMAIN lts = 1..Len(lts)
           /\ \A k \in DOMAIN lts : Held(lts)[k] \in Nat /\ Held(lts)[k] = lts[k].quantity
           /\ \A k \in DOMAIN lts : lts[k].plan \in Plans
           /\ \A K \in SUBSET DOMAIN lts : /\ IsFiniteSet(K)
                                           /\ LotSum(lts, K) = SumFunctionOnSet(Held(lts), K)
                                           /\ LotSum(lts, K) \in Nat
<1>1. Len(lts) \in Nat /\ DOMAIN lts = 1..Len(lts)
  BY DEF LotsGood
<1>2. IsFiniteSet(DOMAIN lts)
  BY <1>1, FS_Interval
<1>3. \A k \in DOMAIN lts : /\ lts[k] \in LotType
                            /\ Held(lts)[k] = lts[k].quantity
  BY <1>1 DEF LotsGood, Held
<1>4. \A k \in DOMAIN lts : Held(lts)[k] \in Nat /\ lts[k].plan \in Plans
  BY <1>3 DEF LotType
<1>5. ASSUME NEW K \in SUBSET DOMAIN lts
      PROVE  /\ IsFiniteSet(K)
             /\ LotSum(lts, K) = SumFunctionOnSet(Held(lts), K)
             /\ LotSum(lts, K) \in Nat
  <2>1. IsFiniteSet(K)
    BY <1>2, FS_Subset
  <2>2. LotSum(lts, K) = SumFunctionOnSet(Held(lts), K)
    BY DEF LotSum, Held
  <2>3. \A k \in K : Held(lts)[k] \in Nat
    BY <1>4
  <2> QED
    BY <2>1, <2>2, <2>3, SumNat
<1> QED
  BY <1>1, <1>2, <1>3, <1>4, <1>5

\* consume_managed_lots takes what it is asked to take, from the lots it is given.
LEMMA ConsumeTakes ==
    ASSUME LotsGood(lots), NEW K \in SUBSET DOMAIN lots, NEW q \in Nat,
           q <= LotSum(lots, K)
    PROVE  LotSum(Consume(K, q), K) = LotSum(lots, K) - q
<1> DEFINE f == Held(lots)
           new == Consume(K, q)
           g == Held(new)
           N == Len(lots)
           P(n) == K \cap (1..n)
           S(n) == SumFunctionOnSet(f, P(n))
           Left(n) == IF S(n) <= q THEN 0 ELSE S(n) - q
           W == {V \in SUBSET (1..N) :
                   \E n \in 0..N : V = 1..n /\ SumFunctionOnSet(g, P(n)) # Left(n)}
<1>1. LotsGood(new) /\ DOMAIN new = DOMAIN lots
  BY ConsumeGood DEF Consume
<1>2. /\ N \in Nat /\ DOMAIN lots = 1..N
      /\ \A k \in 1..N : f[k] \in Nat /\ f[k] = lots[k].quantity
      /\ \A k \in 1..N : g[k] \in Nat /\ g[k] = new[k].quantity
  <2> HIDE DEF new
  <2> QED
    BY <1>1, HeldTypes
<1>3. ASSUME NEW n \in 0..N
      PROVE  /\ IsFiniteSet(P(n)) /\ P(n) \in SUBSET (1..N) /\ P(n) \in SUBSET DOMAIN lots
             /\ S(n) \in Nat /\ S(n) = LotSum(lots, P(n))
  BY <1>2, HeldTypes
<1>4. ASSUME NEW n \in 1..N, n \in K
      PROVE  g[n] = Residual(f[n], q - S(n - 1))
  <2>1. {j \in K : j < n} = P(n - 1)
    BY <1>2
  <2>2. n - 1 \in 0..N
    BY <1>2
  <2>3. new[n] = [lots[n] EXCEPT !.quantity = Residual(@, q - LotSum(lots, {j \in K : j < n}))]
    BY <1>2, <1>4 DEF Consume
  <2>4. lots[n] \in LotType
    BY <1>2 DEF LotsGood
  <2>5. new[n].quantity = Residual(lots[n].quantity, q - LotSum(lots, P(n - 1)))
    BY <2>1, <2>3, <2>4 DEF LotType
  <2>6. LotSum(lots, P(n - 1)) = S(n - 1)
    BY <1>3, <2>2
  <2> QED
    BY <1>2, <2>5, <2>6
<1> HIDE DEF new, f, g
<1>5. ASSUME NEW n \in 1..N, n \in K
      PROVE  /\ P(n) = P(n - 1) \cup {n} /\ n \notin P(n - 1)
             /\ S(n) = S(n - 1) + f[n]
             /\ SumFunctionOnSet(g, P(n)) = SumFunctionOnSet(g, P(n - 1)) + g[n]
  <2>1. P(n) = P(n - 1) \cup {n} /\ n \notin P(n - 1) /\ n - 1 \in 0..N
    BY <1>2, <1>5
  <2>2. IsFiniteSet(P(n - 1))
    BY <1>3, <2>1
  <2>3. \A x \in P(n - 1) \cup {n} : f[x] \in Int /\ g[x] \in Int
    BY <1>2
  <2>4. SumFunctionOnSet(f, P(n - 1) \cup {n}) = SumFunctionOnSet(f, P(n - 1)) + f[n]
    <3> HIDE DEF P
    <3> QED
      BY <2>1, <2>2, <2>3, SumAdd
  <2>5. SumFunctionOnSet(g, P(n - 1) \cup {n}) = SumFunctionOnSet(g, P(n - 1)) + g[n]
    <3> HIDE DEF P
    <3> QED
      BY <2>1, <2>2, <2>3, SumAdd
  <2> QED
    BY <2>1, <2>4, <2>5
<1>6. ASSUME NEW n \in 1..N, n \notin K
      PROVE  P(n) = P(n - 1)
  BY <1>2, <1>6
<1>7. ASSUME NEW V \in W, \A X \in W : ~(X \subseteq V /\ X # V)
      PROVE  FALSE
  <2>1. PICK n \in 0..N : V = 1..n /\ SumFunctionOnSet(g, P(n)) # Left(n)
    OBVIOUS
  <2>2. CASE n = 0
    <3>1. P(0) = {}
      OBVIOUS
    <3>2. SumFunctionOnSet(g, {}) = 0 /\ SumFunctionOnSet(f, {}) = 0
      BY SumEmpty
    <3> QED
      BY <2>1, <2>2, <3>1, <3>2
  <2>3. CASE n # 0
    <3>1. n \in 1..N /\ n - 1 \in 0..N
      BY <1>2, <2>3
    <3>2. 1..(n - 1) \subseteq V /\ 1..(n - 1) # V /\ 1..(n - 1) \in SUBSET (1..N)
      BY <1>2, <2>1, <3>1
    <3>3. SumFunctionOnSet(g, P(n - 1)) = Left(n - 1)
      BY <1>7, <3>1, <3>2
    <3>4. CASE n \in K
      <4>1. /\ S(n - 1) \in Nat /\ f[n] \in Nat /\ S(n) = S(n - 1) + f[n]
            /\ g[n] = Residual(f[n], q - S(n - 1))
            /\ SumFunctionOnSet(g, P(n)) = Left(n - 1) + g[n]
        BY <1>2, <1>3, <1>4, <1>5, <3>1, <3>3, <3>4
      <4> HIDE DEF S
      <4>2. Left(n - 1) + g[n] = Left(n)
        BY <4>1 DEF Residual
      <4> QED
        BY <2>1, <4>1, <4>2
    <3>5. CASE n \notin K
      BY <1>6, <2>1, <3>1, <3>3, <3>5
    <3> QED
      BY <3>4, <3>5
  <2> QED
    BY <2>2, <2>3
<1>8. W = {}
  <2> DEFINE R == 1..N
  <2>1. W \subseteq SUBSET R
    OBVIOUS
  <2>2. IsFiniteSet(R)
    BY <1>2, FS_Interval
  <2> HIDE DEF W, R
  <2>3. SUFFICES ASSUME W # {} PROVE FALSE
    OBVIOUS
  <2>4. PICK V \in W : \A X \in W : ~(X \subseteq V /\ X # V)
    BY <2>1, <2>2, <2>3, Smallest
  <2> QED
    BY <1>7, <2>4
<1>9. SumFunctionOnSet(g, P(N)) = Left(N)
  <2>1. N \in 0..N /\ 1..N \in SUBSET (1..N)
    BY <1>2
  <2>2. SumFunctionOnSet(g, P(N)) # Left(N) => 1..N \in W
    <3> HIDE DEF P, Left
    <3> QED
      BY <2>1
  <2> QED
    BY <1>8, <2>2
<1>10. P(N) = K
  BY <1>2
<1>11. SumFunctionOnSet(g, K) = LotSum(new, K) /\ LotSum(lots, K) \in Nat
       /\ SumFunctionOnSet(f, K) = LotSum(lots, K)
  BY <1>1, HeldTypes DEF f, g
<1> QED
  <2> HIDE DEF P
  <2> QED
    BY <1>9, <1>10, <1>11 DEF new

-----------------------------------------------------------------------------
(* How the rows of the tables are linked *)

\* The states of an action that was submitted.
Submitted == {"EXECUTION_PENDING", "EXECUTED", "EXPIRED", "RECOVERY_REQUIRED"}

\* An OPEN_LONG is the only one of its plan, and buys something.
ActionLinks(pl, ac) ==
    /\ \A a \in Actions : ac[a].state # "ABSENT" => pl[ac[a].plan] # "ABSENT"
    /\ \A a \in Actions : ac[a].kind = "OPEN_LONG"
                          => ac[a].state # "ABSENT" /\ ac[a].quantity > 0
    /\ \A a, b \in Actions :
          ac[a].kind = "OPEN_LONG" /\ ac[b].kind = "OPEN_LONG" /\ ac[a].plan = ac[b].plan
          => a = b

\* Orders belong to submitted actions, entries to OPEN_LONGs, and an entry
\* that works has something left to buy.
OrderLinks(ac, ord) ==
    /\ \A o \in OrderIds : /\ ord[o].state # "ABSENT" => ac[o[1]].state \in Submitted
                           /\ ord[o].state = "ABSENT" => ord[o].filled = 0
    /\ \A o \in OrderIds : o[2] = Entry =>
          /\ ord[o].state # "ABSENT" => ac[o[1]].kind = "OPEN_LONG"
          /\ ord[o].state \in Open => ord[o].filled < ord[o].quantity

Waiting(ord) ==
    \A e, o \in OrderIds :
        /\ e[1] = o[1] /\ e[2] = Entry /\ IsProtection(o)
        /\ ord[e].state \in Open
        => ord[o].state \in {"ABSENT", "STAGED", "CANCELLED"} /\ ord[o].filled = 0

\* The rows an observation still has to process: those of its instrument that
\* were open when it began, no protection of an entry that still works, and no
\* entry that meanwhile does not.
TxLinked ==
    /\ \A o \in tx.todo : /\ InstrumentOf[PlanOf(o)] = tx.instrument
                          /\ saved.order[o].state \in Open
                          /\ o[2] = Entry => order[o].state \in Open
    /\ \A e \in OrderIds, o \in tx.todo :
          e[1] = o[1] /\ e[2] = Entry /\ order[e].state \in Open => ~IsProtection(o)

Ended == {"CANCELLED", "FILLED", "EXPIRED"}
EndedKept == \A o \in OrderIds : saved.order[o].state \in Ended => order[o] = saved.order[o]

LinkInv ==
    /\ ActionLinks(plan, action) /\ OrderLinks(action, order) /\ Waiting(order)
    /\ ActionLinks(saved.plan, saved.action) /\ OrderLinks(saved.action, saved.order)
    /\ Waiting(saved.order)
    /\ TxLinked
    /\ EndedKept

\* No action changes what it is about, or is forgotten.
ActionsKept == \A a \in Actions : action[a].state # "ABSENT" =>
    /\ action'[a].kind = action[a].kind /\ action'[a].plan = action[a].plan
    /\ action'[a].quantity = action[a].quantity /\ action'[a].state # "ABSENT"
    /\ action[a].state \in Submitted => action'[a].state \in Submitted
NoNewAction == \A a \in Actions : action[a].state = "ABSENT" => action'[a] = action[a]
PlansStay == \A p \in Plans : plan[p] # "ABSENT" => plan'[p] # "ABSENT"

LEMMA ActionLinksKept ==
    ASSUME ActionsGood(action), ActionLinks(plan, action), ActionsKept, NoNewAction, PlansStay
    PROVE  ActionLinks(plan', action')
<1>1. ASSUME NEW a \in Actions, action'[a].state # "ABSENT"
      PROVE  /\ action[a].state # "ABSENT" /\ action[a].plan \in Plans
             /\ action'[a].plan = action[a].plan
  BY <1>1 DEF NoNewAction, ActionsKept, ActionsGood
<1>2. ASSUME NEW a \in Actions, action'[a].kind = "OPEN_LONG"
      PROVE  /\ action[a].kind = "OPEN_LONG" /\ action[a].state # "ABSENT"
             /\ action'[a].state # "ABSENT" /\ action'[a].quantity = action[a].quantity
             /\ action'[a].plan = action[a].plan
  BY <1>2 DEF NoNewAction, ActionsKept, ActionLinks
<1>3. \A a \in Actions : action'[a].state # "ABSENT" => plan'[action'[a].plan] # "ABSENT"
  BY <1>1 DEF ActionLinks, PlansStay
<1>4. \A a \in Actions : action'[a].kind = "OPEN_LONG"
                         => action'[a].state # "ABSENT" /\ action'[a].quantity > 0
  BY <1>2 DEF ActionLinks
<1>5. \A a, b \in Actions :
        action'[a].kind = "OPEN_LONG" /\ action'[b].kind = "OPEN_LONG"
        /\ action'[a].plan = action'[b].plan => a = b
  BY <1>2 DEF ActionLinks
<1> QED
  BY <1>3, <1>4, <1>5 DEF ActionLinks

LEMMA OrderLinksKept ==
    ASSUME NEW ord, OrderLinks(action, ord), ActionsKept
    PROVE  OrderLinks(action', ord)
<1>1. ASSUME NEW o \in OrderIds, ord[o].state # "ABSENT"
      PROVE  /\ action'[o[1]].state \in Submitted
             /\ action'[o[1]].kind = action[o[1]].kind
  <2>1. o[1] \in Actions /\ action[o[1]].state \in Submitted
    BY <1>1, Ids DEF OrderLinks
  <2>2. action[o[1]].state # "ABSENT"
    BY <2>1 DEF Submitted
  <2> QED
    BY <2>1, <2>2 DEF ActionsKept
<1> QED
  BY <1>1 DEF OrderLinks

(***************************************************************************)
(* What processing the row o may do to the tables.                         *)
(***************************************************************************)
OtherRows(o) ==
    \A r \in OrderIds \ {o} :
        \/ order'[r] = order[r]
        \/ /\ IsProtection(r) /\ order[r].state \in Cancellable
           /\ order'[r].state = "CANCELLED"
           /\ order'[r].filled = order[r].filled /\ order'[r].quantity = order[r].quantity
        \/ /\ IsProtection(r) /\ order[r].state = "STAGED" /\ order'[r].state = "ACTIVE"
           /\ order'[r].filled = order[r].filled /\ order'[r].quantity = order[r].quantity
           /\ \A e \in OrderIds : e[1] = r[1] /\ e[2] = Entry => order'[e].state \notin Open

RowEffect(o) ==
    /\ tx'.todo = tx.todo \ {o} /\ tx'.instrument = tx.instrument /\ saved' = saved
    /\ ActionsKept /\ NoNewAction /\ PlansStay
    /\ OtherRows(o)
    /\ order'[o].state # "ABSENT"
    /\ o[2] = Entry /\ order'[o].state \in Open => order'[o].filled < order'[o].quantity

LEMMA RowLinks ==
    ASSUME StoreInv, LinkInv, tx.active, NEW o \in tx.todo, RowEffect(o)
    PROVE  LinkInv'
<1>1. /\ o \in OrderIds /\ tx.todo \subseteq OrderIds /\ order[o].state # "ABSENT"
      /\ ActionsGood(action)
  BY TablesGood DEF StoreInv, TxGood
<1>2. ActionLinks(plan', action')
  BY <1>1, ActionLinksKept DEF LinkInv, RowEffect
<1>3. ASSUME NEW r \in OrderIds
      PROVE  /\ order'[r].state = "ABSENT" <=> order[r].state = "ABSENT"
             /\ r # o => /\ order'[r].filled = order[r].filled
                         /\ order'[r].quantity = order[r].quantity
             /\ r[2] = Entry => r = o \/ order'[r] = order[r]
             /\ r[2] = Entry /\ order'[r].state \in Open => order[r].state \in Open
  <2>1. r[2] = Entry => ~IsProtection(r)
    BY Ids DEF IsProtection, IsTakeProfit
  <2>2. CASE r = o
    BY <1>1, <2>2 DEF RowEffect, LinkInv, TxLinked
  <2>3. CASE r # o
    BY <2>1, <2>3 DEF RowEffect, OtherRows, Cancellable, Open
  <2> QED
    BY <2>2, <2>3
<1>4. OrderLinks(action, order')
  <2>1. ASSUME NEW r \in OrderIds
        PROVE  /\ order'[r].state # "ABSENT" => action[r[1]].state \in Submitted
               /\ order'[r].state = "ABSENT" => order'[r].filled = 0
    BY <1>1, <1>3 DEF LinkInv, OrderLinks
  <2>2. ASSUME NEW r \in OrderIds, r[2] = Entry
        PROVE  /\ order'[r].state # "ABSENT" => action[r[1]].kind = "OPEN_LONG"
               /\ order'[r].state \in Open => order'[r].filled < order'[r].quantity
    BY <1>1, <1>3, <2>2 DEF LinkInv, OrderLinks, RowEffect
  <2> QED
    BY <2>1, <2>2 DEF OrderLinks
<1>5. OrderLinks(action', order')
  BY <1>4, OrderLinksKept DEF RowEffect
<1>6. Waiting(order')
  <2>1. SUFFICES ASSUME NEW e \in OrderIds, NEW r \in OrderIds, e[1] = r[1], e[2] = Entry,
                        IsProtection(r), order'[e].state \in Open
                 PROVE  /\ order'[r].state \in {"ABSENT", "STAGED", "CANCELLED"}
                        /\ order'[r].filled = 0
    BY DEF Waiting
  <2>2. order[e].state \in Open
    BY <1>3, <2>1
  <2>3. /\ order[r].state \in {"ABSENT", "STAGED", "CANCELLED"} /\ order[r].filled = 0
        /\ r \notin tx.todo
    BY <2>1, <2>2 DEF LinkInv, Waiting, TxLinked
  <2>4. r # o
    BY <2>3
  <2> QED
    BY <2>1, <2>3, <2>4 DEF RowEffect, OtherRows
<1>7. TxLinked'
  <2>1. ASSUME NEW r \in tx'.todo
        PROVE  /\ InstrumentOf[action'[r[1]].plan] = tx'.instrument
               /\ saved'.order[r].state \in Open
               /\ r[2] = Entry => order'[r].state \in Open
    <3>1. r \in tx.todo /\ r # o /\ r \in OrderIds /\ tx'.instrument = tx.instrument
          /\ saved' = saved
      BY <1>1 DEF RowEffect
    <3>2. r[1] \in Actions /\ action[r[1]].state # "ABSENT"
      BY <1>1, <3>1, Ids DEF LinkInv, OrderLinks, Submitted, StoreInv, TxGood
    <3>3. action'[r[1]].plan = action[r[1]].plan
      BY <3>2 DEF RowEffect, ActionsKept
    <3> QED
      BY <1>3, <3>1, <3>3 DEF LinkInv, TxLinked, PlanOf
  <2>2. ASSUME NEW e \in OrderIds, NEW r \in tx'.todo, e[1] = r[1], e[2] = Entry,
               order'[e].state \in Open
        PROVE  ~IsProtection(r)
    BY <1>3, <2>2 DEF LinkInv, TxLinked, RowEffect
  <2> QED
    BY <2>1, <2>2 DEF TxLinked, PlanOf
<1>8. EndedKept'
  <2>1. SUFFICES ASSUME NEW r \in OrderIds, saved.order[r].state \in Ended
                 PROVE  order'[r] = saved.order[r]
    BY DEF EndedKept, RowEffect
  <2>2. order[r] = saved.order[r] /\ order[r].state \notin Cancellable
    BY <2>1 DEF LinkInv, EndedKept, Ended, Cancellable, Open
  <2>3. r # o
    BY <2>1 DEF LinkInv, TxLinked, Ended, Open
  <2> QED
    BY <2>2, <2>3 DEF RowEffect, OtherRows, Cancellable
<1> QED
  BY <1>2, <1>5, <1>6, <1>7, <1>8 DEF LinkInv, RowEffect

\* A plan that waits for its entry is not left by the entry alone.
PendingKept(o) ==
    /\ \A p \in Plans : plan'[p] = "ENTRY_PENDING" => plan[p] = "ENTRY_PENDING"
    /\ o[2] = Entry => order'[o].state \in Open \/ plan'[PlanOf(o)] # "ENTRY_PENDING"

NothingTraded(o) == order'[o].filled = order[o].filled /\ lots' = lots
Bought(o) == /\ o[2] = Entry
             /\ order'[o].filled = order[o].filled + Quantity(o)
             /\ lots' = Append(lots, [plan |-> PlanOf(o), quantity |-> Quantity(o)])
Sold(o) == /\ o[2] # Entry
           /\ order'[o].filled = order[o].filled + Quantity(o)
           /\ lots' = Consume(LotsOn(lots, tx.instrument), Quantity(o))

\* An action that was submitted gets another such state.
LEMMA SubmittedBecomes ==
    ASSUME ActionsGood(action), NEW a \in Actions, NEW st \in Submitted,
           action[a].state # "ABSENT", ActionBecomes(a, st)
    PROVE  ActionsKept /\ NoNewAction
<1>1. \A b \in Actions : /\ action'[b].kind = action[b].kind
                         /\ action'[b].plan = action[b].plan
                         /\ action'[b].quantity = action[b].quantity
                         /\ action'[b].state = IF b = a THEN st ELSE action[b].state
                         /\ b # a => action'[b] = action[b]
  BY DEF ActionsGood, ActionBecomes, ActionType
<1> QED
  BY <1>1 DEF ActionsKept, NoNewAction, Submitted

LEMMA SameActions ==
    ASSUME action' = action
    PROVE  ActionsKept /\ NoNewAction
  BY DEF ActionsKept, NoNewAction

LEMMA PlanMoves ==
    ASSUME PlansGood(plan), NEW p \in Plans,
           NEW st \in {"CANCELLED", "CLOSED", "ACTIVE", "RECOVERY_REQUIRED"},
           PlanBecomes(p, st)
    PROVE  /\ PlansStay
           /\ \A q \in Plans : plan'[q] = "ENTRY_PENDING" => plan[q] = "ENTRY_PENDING"
           /\ plan'[p] # "ENTRY_PENDING"
  BY DEF PlansGood, PlanBecomes, PlansStay

\* The row under way is o, and the transaction goes on without it.
LEMMA RowUnderWay ==
    ASSUME StoreInv, LinkInv, NEW o \in tx.todo, tx.active, RowDone(o) \/ Fills(o)
    PROVE  /\ tx'.todo = tx.todo \ {o} /\ tx'.instrument = tx.instrument
           /\ o \in OrderIds /\ o[1] \in Actions /\ order[o].state # "ABSENT"
           /\ action[o[1]].state \in Submitted /\ action[o[1]].state # "ABSENT"
           /\ PlanOf(o) \in Plans /\ order[o] \in OrderType
           /\ ActionsGood(action) /\ PlansGood(plan) /\ OrdersGood(action, order)
           /\ (o[2] = Entry => ~IsProtection(o))
           /\ (o[2] = Entry => order[o].state \in Open)
<1>1. tx'.todo = tx.todo \ {o} /\ tx'.instrument = tx.instrument
  BY DEF RowDone, Fills, StoreInv, TxGood
<1>2. /\ o \in OrderIds /\ o[1] \in Actions /\ order[o].state # "ABSENT"
      /\ action[o[1]].state # "ABSENT" /\ PlanOf(o) \in Plans /\ order[o] \in OrderType
  BY RowFacts
<1>3. action[o[1]].state \in Submitted
  BY <1>2 DEF LinkInv, OrderLinks
<1>4. o[2] = Entry => ~IsProtection(o)
  BY Ids DEF IsProtection, IsTakeProfit
<1> QED
  BY <1>1, <1>2, <1>3, <1>4, TablesGood DEF LinkInv, TxLinked

LEMMA PassOverEffect ==
    ASSUME StoreInv, LinkInv, NEW o \in tx.todo, SkipTakeProfit(o) \/ NotMatched(o)
    PROVE  RowEffect(o) /\ PendingKept(o) /\ NothingTraded(o)
<1>1. tx.active /\ RowDone(o) /\ UNCHANGED <<rows, passed, saved>>
  BY DEF SkipTakeProfit, NotMatched, Matchable, Considered, AtRow
<1>2. plan' = plan /\ action' = action /\ order' = order /\ lots' = lots /\ saved' = saved
  BY <1>1 DEF rows
<1>3. RowEffect(o)
  BY <1>1, <1>2, RowUnderWay, SameActions
     DEF RowEffect, OtherRows, PlansStay, LinkInv, OrderLinks
<1>4. PendingKept(o)
  BY <1>1, <1>2, RowUnderWay DEF PendingKept
<1> QED
  BY <1>2, <1>3, <1>4 DEF NothingTraded

LEMMA CancelEmptyEffect ==
    ASSUME StoreInv, LinkInv, NEW o \in tx.todo, CancelEmpty(o)
    PROVE  RowEffect(o) /\ PendingKept(o) /\ NothingTraded(o)
<1>1. /\ tx.active /\ RowDone(o) /\ UNCHANGED <<plan, action, lots, passed, saved>>
      /\ Remaining(o) = 0
      /\ order' = IF order[o].state \in Open
                  THEN [order EXCEPT ![o].state = "CANCELLED"] ELSE order
  BY DEF CancelEmpty, Considered, AtRow
<1>2. /\ o \in OrderIds /\ order[o].state # "ABSENT" /\ order[o] \in OrderType
      /\ OrdersGood(action, order)
  BY <1>1, RowUnderWay
\* An entry that is open has something left.
<1>3. o[2] # Entry
  <2>1. SUFFICES ASSUME o[2] = Entry PROVE FALSE
    OBVIOUS
  <2>2. order[o].filled < order[o].quantity
    BY <1>1, <1>2, <2>1, RowUnderWay DEF LinkInv, OrderLinks
  <2>3. order[o].quantity - order[o].filled = 0
    BY <1>1, <2>1, Ids DEF Remaining, Unfilled
  <2>4. order[o].quantity \in Nat /\ order[o].filled \in Nat
    BY <1>2, StoreAssumption DEF OrderType, Quantities
  <2> QED
    BY <2>2, <2>3, <2>4
<1>4. /\ \A r \in OrderIds \ {o} : order'[r] = order[r]
      /\ order'[o].state # "ABSENT" /\ order'[o].filled = order[o].filled
  BY <1>1, <1>2 DEF OrdersGood, OrderType
<1>5. RowEffect(o)
  BY <1>1, <1>3, <1>4, RowUnderWay, SameActions DEF RowEffect, OtherRows, PlansStay
<1>6. PendingKept(o)
  BY <1>1, <1>3 DEF PendingKept
<1> QED
  BY <1>1, <1>4, <1>5, <1>6 DEF NothingTraded

LEMMA ExpireEffect ==
    ASSUME StoreInv, LinkInv, NEW o \in tx.todo, Expire(o)
    PROVE  RowEffect(o) /\ PendingKept(o) /\ NothingTraded(o)
<1>1. /\ tx.active /\ RowDone(o) /\ UNCHANGED <<lots, passed, saved>>
      /\ order' = [order EXCEPT ![o].state = "EXPIRED"]
      /\ \E st \in Submitted : ActionBecomes(o[1], st)
      /\ \/ plan' = plan /\ o[2] # Entry
         \/ \E st \in {"CANCELLED", "CLOSED", "ACTIVE", "RECOVERY_REQUIRED"} :
              PlanBecomes(PlanOf(o), st)
  BY Ids DEF Expire, Matchable, Considered, AtRow, Submitted
<1>2. /\ o \in OrderIds /\ o[1] \in Actions /\ order[o].state # "ABSENT"
      /\ order[o] \in OrderType /\ OrdersGood(action, order) /\ PlanOf(o) \in Plans
      /\ ActionsGood(action) /\ PlansGood(plan) /\ action[o[1]].state # "ABSENT"
  BY <1>1, RowUnderWay
<1>3. /\ \A r \in OrderIds \ {o} : order'[r] = order[r]
      /\ order'[o].state = "EXPIRED" /\ order'[o].filled = order[o].filled
  BY <1>1, <1>2 DEF OrdersGood, OrderType
<1>4. ActionsKept /\ NoNewAction
  BY <1>1, <1>2, SubmittedBecomes
<1>5. PlansStay /\ PendingKept(o)
  <2>1. CASE plan' = plan /\ o[2] # Entry
    BY <2>1 DEF PlansStay, PendingKept
  <2>2. CASE \E st \in {"CANCELLED", "CLOSED", "ACTIVE", "RECOVERY_REQUIRED"} :
               PlanBecomes(PlanOf(o), st)
    BY <1>2, <2>2, PlanMoves DEF PendingKept
  <2> QED
    BY <1>1, <2>1, <2>2
<1>6. RowEffect(o)
  BY <1>1, <1>3, <1>4, <1>5, RowUnderWay DEF RowEffect, OtherRows, Open
<1> QED
  BY <1>1, <1>3, <1>5, <1>6 DEF NothingTraded

\* The filled row itself.
LEMMA FilledRow ==
    ASSUME StoreInv, LinkInv, NEW o \in tx.todo, Fills(o)
    PROVE  /\ \A r \in OrderIds \ {o} : Filled(o)[r] = order[r]
           /\ Filled(o)[o].filled = order[o].filled + Quantity(o)
           /\ Filled(o)[o].quantity = order[o].quantity
           /\ Filled(o)[o].state = IF Full(o) THEN "FILLED" ELSE "PARTIALLY_FILLED"
           /\ order[o].filled \in Nat /\ order[o].quantity \in Nat /\ Quantity(o) \in Nat
           /\ ~Full(o) => order[o].filled + Quantity(o) < order[o].quantity
<1>1. tx.active
  BY DEF Fills, Matchable, Considered, AtRow
<1>2. o \in OrderIds /\ order[o] \in OrderType /\ order \in [OrderIds -> OrderType]
  BY <1>1, RowUnderWay DEF OrdersGood
<1>3. order[o].filled \in Nat /\ order[o].quantity \in Nat /\ Quantity(o) \in Nat
  BY <1>2, QuantityBounds, StoreAssumption DEF OrderType, Quantities
<1>4. ~Full(o) => ~(order[o].filled + Quantity(o) >= order[o].quantity)
  BY DEF Full
<1>5. ~Full(o) => order[o].filled + Quantity(o) < order[o].quantity
  BY <1>3, <1>4
<1> QED
  BY <1>2, <1>3, <1>5 DEF Filled

LEMMA FillEntryEffect ==
    ASSUME StoreInv, LinkInv, NEW o \in tx.todo, FillEntry(o)
    PROVE  RowEffect(o) /\ PendingKept(o) /\ Bought(o)
<1>1. Fills(o) /\ tx.active /\ saved' = saved /\ o[2] = Entry
      /\ lots' = Append(lots, [plan |-> PlanOf(o), quantity |-> Quantity(o)])
  BY DEF FillEntry, Fills, Matchable, Considered, AtRow
<1>2. /\ o \in OrderIds /\ o[1] \in Actions /\ order[o].state # "ABSENT"
      /\ order[o] \in OrderType /\ OrdersGood(action, order) /\ PlanOf(o) \in Plans
      /\ ActionsGood(action) /\ PlansGood(plan) /\ action[o[1]].state # "ABSENT"
      /\ ~IsProtection(o) /\ tx'.todo = tx.todo \ {o} /\ tx'.instrument = tx.instrument
  BY <1>1, RowUnderWay
<1>3. CASE ~Full(o)
  <2>1. order' = Filled(o) /\ plan' = plan /\ action' = action
    BY <1>3 DEF FillEntry
  <2>2. /\ \A r \in OrderIds \ {o} : order'[r] = order[r]
        /\ order'[o].filled = order[o].filled + Quantity(o)
        /\ order'[o].state = "PARTIALLY_FILLED"
        /\ order'[o].filled < order'[o].quantity
    BY <1>1, <1>3, <2>1, FilledRow
  <2>3. RowEffect(o) /\ PendingKept(o)
    BY <1>1, <1>2, <2>1, <2>2, SameActions
       DEF RowEffect, OtherRows, PlansStay, PendingKept, Open
  <2> QED
    BY <1>1, <2>2, <2>3 DEF Bought
<1>4. CASE Full(o)
  <2> DEFINE P == ProtectionsOf(PlanOf(o))
  <2>1. /\ order' = [r \in OrderIds |-> IF r \in P /\ order[r].state = "STAGED"
                                        THEN [order[r] EXCEPT !.state = "ACTIVE"]
                                        ELSE Filled(o)[r]]
        /\ ActionBecomes(o[1], "EXECUTED") /\ PlanBecomes(PlanOf(o), "ACTIVE")
    BY <1>4 DEF FillEntry
  <2>2. o \notin P /\ \A r \in P : IsProtection(r)
    BY <1>2 DEF ProtectionsOf
  <2>3. /\ order'[o].filled = order[o].filled + Quantity(o)
        /\ order'[o].state = "FILLED"
    BY <1>1, <1>2, <1>4, <2>1, <2>2, FilledRow
  <2>4. \A r \in OrderIds \ {o} :
          \/ order'[r] = order[r]
          \/ /\ r \in P /\ order[r].state = "STAGED" /\ order'[r].state = "ACTIVE"
             /\ order'[r].filled = order[r].filled /\ order'[r].quantity = order[r].quantity
    <3> TAKE r \in OrderIds \ {o}
    <3>1. order[r] \in OrderType /\ Filled(o)[r] = order[r]
      BY <1>1, <1>2, FilledRow DEF OrdersGood
    <3>2. order'[r] = IF r \in P /\ order[r].state = "STAGED"
                      THEN [order[r] EXCEPT !.state = "ACTIVE"] ELSE order[r]
      BY <2>1, <3>1
    <3> QED
      BY <3>1, <3>2 DEF OrderType
  \* The entry of the action of a protection of the plan is this one.
  <2>5. ASSUME NEW r \in P, r \in OrderIds, order[r].state = "STAGED",
               NEW e \in OrderIds, e[1] = r[1], e[2] = Entry
        PROVE  order'[e].state \notin Open
    <3>1. CASE e = o
      BY <2>3, <3>1 DEF Open
    <3>2. CASE e # o
      <4>1. ~IsProtection(e) /\ order'[e] = order[e]
        BY <1>1, <2>2, <2>4, <2>5, <3>2, Ids DEF IsProtection, IsTakeProfit
      <4>2. SUFFICES ASSUME order[e].state \in Open PROVE FALSE
        BY <4>1
      <4>3. action[e[1]].kind = "OPEN_LONG" /\ action[o[1]].kind = "OPEN_LONG"
        BY <1>1, <1>2, <2>5, <4>2 DEF LinkInv, OrderLinks, Open
      <4>4. action[e[1]].plan = action[o[1]].plan
        BY <2>5 DEF ProtectionsOf, PlanOf
      <4>5. e[1] = o[1]
        BY <1>2, <4>3, <4>4, Ids DEF LinkInv, ActionLinks
      <4>6. e = o
        BY <1>1, <1>2, <2>5, <4>5 DEF OrderIds
      <4> QED
        BY <3>2, <4>6
    <3> QED
      BY <3>1, <3>2
  <2>6. OtherRows(o)
    BY <2>2, <2>4, <2>5 DEF OtherRows
  <2>7. ActionsKept /\ NoNewAction
    BY <1>2, <2>1, SubmittedBecomes DEF Submitted
  <2>8. PlansStay /\ PendingKept(o)
    BY <1>2, <2>1, PlanMoves DEF PendingKept
  <2>9. RowEffect(o)
    BY <1>1, <1>2, <2>3, <2>6, <2>7, <2>8 DEF RowEffect, Open
  <2> QED
    BY <1>1, <2>3, <2>8, <2>9 DEF Bought
<1> QED
  BY <1>3, <1>4

LEMMA FillSellEffect ==
    ASSUME StoreInv, LinkInv, NEW o \in tx.todo,
           FillReduction(o) \/ FillExit(o) \/ FillProtection(o)
    PROVE  RowEffect(o) /\ PendingKept(o) /\ Sold(o) /\ Fills(o)
<1>1. Sell(o) /\ o[2] # Entry
  BY Ids DEF FillReduction, FillExit, FillProtection, IsProtection, IsTakeProfit
<1>2. Fills(o) /\ tx.active /\ saved' = saved
      /\ lots' = Consume(LotsOn(lots, tx.instrument), Quantity(o))
  BY <1>1 DEF Sell, Fills, Matchable, Considered, AtRow
<1>3. /\ o \in OrderIds /\ o[1] \in Actions /\ order[o].state # "ABSENT"
      /\ order[o] \in OrderType /\ OrdersGood(action, order) /\ PlanOf(o) \in Plans
      /\ ActionsGood(action) /\ PlansGood(plan) /\ action[o[1]].state # "ABSENT"
      /\ tx'.todo = tx.todo \ {o} /\ tx'.instrument = tx.instrument
  BY <1>2, RowUnderWay
<1>4. \/ Close(o)
      \/ order' = Filled(o) /\ UNCHANGED plan
  BY DEF FillReduction, FillExit, FillProtection
<1>5. ActionsKept /\ NoNewAction
  <2>1. action' = action \/ ActionBecomes(o[1], "EXECUTED")
    BY DEF FillReduction, FillExit, FillProtection
  <2> QED
    BY <1>3, <2>1, SameActions, SubmittedBecomes DEF Submitted
<1>6. PlansStay /\ PendingKept(o)
  <2>1. CASE Close(o)
    BY <1>1, <1>3, <2>1, PlanMoves DEF Close, PendingKept
  <2>2. CASE order' = Filled(o) /\ UNCHANGED plan
    BY <1>1, <2>2 DEF PlansStay, PendingKept
  <2> QED
    BY <1>4, <2>1, <2>2
<1>7. /\ OtherRows(o) /\ order'[o].state # "ABSENT"
      /\ order'[o].filled = order[o].filled + Quantity(o)
  <2>1. /\ \A r \in OrderIds \ {o} : Filled(o)[r] = order[r]
        /\ Filled(o)[o].filled = order[o].filled + Quantity(o)
        /\ Filled(o)[o].state \in {"FILLED", "PARTIALLY_FILLED"}
        /\ Filled(o) \in [OrderIds -> OrderType]
    BY <1>2, FilledRow, FilledGood DEF OrdersGood
  <2>2. CASE order' = Filled(o)
    BY <2>1, <2>2 DEF OtherRows
  <2>3. CASE Close(o)
    <3> DEFINE P == ProtectionsOf(PlanOf(o))
    <3>1. \A r \in OrderIds :
            order'[r] = IF r \in P /\ Filled(o)[r].state \in Cancellable
                        THEN [Filled(o)[r] EXCEPT !.state = "CANCELLED"] ELSE Filled(o)[r]
      BY <2>3 DEF Close, CancelRoles
    <3>2. \A r \in OrderIds : Filled(o)[r] \in OrderType
      BY <2>1
    <3>3. order'[o].state # "ABSENT" /\ order'[o].filled = order[o].filled + Quantity(o)
      BY <1>3, <2>1, <3>1, <3>2 DEF OrderType
    <3>4. OtherRows(o)
      <4>1. ASSUME NEW r \in OrderIds \ {o}
            PROVE  \/ order'[r] = order[r]
                   \/ /\ IsProtection(r) /\ order[r].state \in Cancellable
                      /\ order'[r].state = "CANCELLED"
                      /\ order'[r].filled = order[r].filled
                      /\ order'[r].quantity = order[r].quantity
        BY <2>1, <3>1, <3>2 DEF OrderType, ProtectionsOf
      <4> QED
        BY <4>1 DEF OtherRows
    <3> QED
      BY <3>3, <3>4
  <2> QED
    BY <1>4, <2>2, <2>3
<1>8. RowEffect(o)
  BY <1>1, <1>2, <1>3, <1>5, <1>6, <1>7 DEF RowEffect
<1> QED
  BY <1>1, <1>2, <1>6, <1>7, <1>8 DEF Sold

-----------------------------------------------------------------------------
(* Calls *)

\* No order is placed twice or worked by a call, and none that ended is touched.
CallEffect ==
    /\ ActionLinks(plan', action') /\ OrderLinks(action', order') /\ Waiting(order')
    /\ \A o \in OrderIds :
          /\ order[o].state # "ABSENT" =>
                order'[o].state # "ABSENT" /\ order'[o].filled = order[o].filled
                /\ action'[o[1]].plan = action[o[1]].plan
          /\ order[o].state = "ABSENT" => order'[o].filled = 0
          /\ order[o].state \in Ended => order'[o] = order[o]

\* A plan that waits for its entry has one that works.
Awaited(pl, ac, ord) ==
    \A p \in Plans : pl[p] = "ENTRY_PENDING" =>
        \E o \in OrderIds : o[2] = Entry /\ ac[o[1]].plan = p /\ ord[o].state \in Open

LEMMA CallLinks ==
    ASSUME StoreInv, LinkInv, Call, CallEffect, Commits
    PROVE  LinkInv'
<1>1. saved' = Committed' /\ tx'.todo = {}
  BY DEF Commits, Call, StoreInv
<1>2. /\ saved'.plan = plan' /\ saved'.action = action' /\ saved'.order = order'
  BY <1>1 DEF Committed
<1> QED
  BY <1>1, <1>2 DEF LinkInv, CallEffect, TxLinked, EndedKept

LEMMA RecordEffect ==
    ASSUME StoreInv, LinkInv, NEW a \in Actions, NEW k \in Kinds, NEW p \in Plans,
           NEW q \in Quantities, NEW stop \in BOOLEAN, NEW t \in TargetSets,
           RecordPlan(a, k, p, q, stop, t)
    PROVE  /\ CallEffect /\ lots' = lots
           /\ Awaited(plan, action, order) => Awaited(plan', action', order')
<1>1. /\ action[a].state = "ABSENT" /\ WellFormed(k, q, stop, t)
      /\ action' = [action EXCEPT ![a] = [state |-> "RECORDED", kind |-> k, plan |-> p,
                                          quantity |-> q, stop |-> stop, targets |-> t]]
      /\ order' = order /\ lots' = lots
      /\ k = "OPEN_LONG" => plan[p] = "ABSENT"
  BY DEF RecordPlan, NewAction, NewPlan, Creating
<1>2. ActionsGood(action) /\ PlansGood(plan) /\ OrdersGood(action, order)
  BY TablesGood
<1>3. \A r \in Plans : /\ plan[r] # "ABSENT" => plan'[r] # "ABSENT"
                       /\ plan'[r] = "ENTRY_PENDING" => plan[r] = "ENTRY_PENDING"
                       /\ plan'[p] # "ABSENT"
  BY <1>2 DEF RecordPlan, PlansGood, PlanLive, NonTerminalStates
<1>4. /\ \A b \in Actions \ {a} : action'[b] = action[b]
      /\ action'[a].state = "RECORDED" /\ action'[a].kind = k /\ action'[a].plan = p
      /\ action'[a].quantity = q
  BY <1>1, <1>2 DEF ActionsGood
<1>5. \A o \in OrderIds : order[o].state # "ABSENT" => o[1] \in Actions \ {a}
  BY <1>1, <1>2, Ids DEF OrdersGood
<1>6. k = "OPEN_LONG" => q > 0
  BY <1>1 DEF WellFormed
<1>7. ActionLinks(plan', action')
  <2>1. \A b \in Actions : action'[b].state # "ABSENT" => plan'[action'[b].plan] # "ABSENT"
    BY <1>2, <1>3, <1>4 DEF LinkInv, ActionLinks, ActionsGood
  <2>2. \A b \in Actions : action'[b].kind = "OPEN_LONG"
                           => action'[b].state # "ABSENT" /\ action'[b].quantity > 0
    BY <1>4, <1>6 DEF LinkInv, ActionLinks
  <2>3. ASSUME k = "OPEN_LONG", NEW b \in Actions \ {a}, action[b].kind = "OPEN_LONG"
        PROVE  action[b].plan # p
    BY <1>1, <2>3 DEF LinkInv, ActionLinks
  <2>4. ASSUME NEW b \in Actions, NEW c \in Actions, action'[b].kind = "OPEN_LONG",
               action'[c].kind = "OPEN_LONG", action'[b].plan = action'[c].plan
        PROVE  b = c
    <3>1. CASE b # a /\ c # a
      BY <1>4, <2>4, <3>1 DEF LinkInv, ActionLinks
    <3>2. CASE b = a \/ c = a
      BY <1>4, <2>3, <2>4, <3>2
    <3> QED
      BY <3>1, <3>2
  <2> QED
    BY <2>1, <2>2, <2>4 DEF ActionLinks
<1>8. OrderLinks(action', order')
  BY <1>1, <1>4, <1>5 DEF LinkInv, OrderLinks
<1>9. CallEffect
  BY <1>1, <1>4, <1>5, <1>7, <1>8 DEF LinkInv, OrderLinks, CallEffect
<1>10. Awaited(plan, action, order) => Awaited(plan', action', order')
  <2>1. ASSUME NEW o \in OrderIds, order[o].state \in Open
        PROVE  action'[o[1]].plan = action[o[1]].plan /\ order'[o] = order[o]
    BY <1>1, <1>4, <1>5, <2>1 DEF Open
  <2> QED
    BY <1>3, <2>1 DEF Awaited
<1> QED
  BY <1>1, <1>9, <1>10

LEMMA ValidationEffect ==
    ASSUME StoreInv, LinkInv, NEW a \in Actions, NEW facts, NEW accept \in BOOLEAN,
           PersistValidation(a, facts, accept)
    PROVE  /\ CallEffect /\ lots' = lots
           /\ Awaited(plan, action, order) => Awaited(plan', action', order')
<1>1. /\ action[a].state = "RECORDED" /\ order' = order /\ lots' = lots
      /\ ActionBecomes(a, IF accept THEN "VALIDATION_ACCEPTED" ELSE "VALIDATION_REJECTED")
  BY DEF PersistValidation, ActionBecomes
<1>2. ActionsGood(action) /\ PlansGood(plan) /\ OrdersGood(action, order)
  BY TablesGood
<1>3. \A r \in Plans : /\ plan[r] # "ABSENT" => plan'[r] # "ABSENT"
                       /\ plan'[r] = "ENTRY_PENDING" => plan[r] = "ENTRY_PENDING"
  BY <1>2 DEF PersistValidation, PlansGood
<1>4. \A b \in Actions :
        /\ action'[b].kind = action[b].kind /\ action'[b].plan = action[b].plan
        /\ action'[b].quantity = action[b].quantity
        /\ b # a => action'[b] = action[b]
        /\ action'[b].state = "ABSENT" <=> action[b].state = "ABSENT"
  BY <1>1, <1>2 DEF ActionBecomes, ActionsGood, ActionType
<1>5. ActionsKept /\ NoNewAction /\ PlansStay
  BY <1>1, <1>3, <1>4 DEF ActionsKept, NoNewAction, PlansStay, Submitted
<1>6. ActionLinks(plan', action') /\ OrderLinks(action', order')
  BY <1>1, <1>2, <1>5, ActionLinksKept, OrderLinksKept DEF LinkInv
<1>7. CallEffect
  BY <1>1, <1>4, <1>6, Ids DEF LinkInv, OrderLinks, CallEffect
<1>8. Awaited(plan, action, order) => Awaited(plan', action', order')
  BY <1>1, <1>3, <1>4, Ids DEF Awaited
<1> QED
  BY <1>1, <1>7, <1>8

\* What submitting a does to the orders: it places those of a, which has none
\* yet, and may cancel others.
SubmitRows(a) ==
    \A o \in OrderIds :
        /\ o[1] # a =>
              \/ order'[o] = order[o]
              \/ /\ order[o].state \in Cancellable /\ order'[o].state = "CANCELLED"
                 /\ order'[o].filled = order[o].filled /\ order'[o].quantity = order[o].quantity
                 /\ \/ IsProtection(o)
                    \/ PlanOf(o) = action[a].plan /\ plan'[action[a].plan] = "CANCELLED"
        /\ o[1] = a =>
              /\ order[o].state = "ABSENT" /\ order'[o].filled = 0
              /\ order'[o].state # "ABSENT" /\ o[2] = Entry =>
                    action[a].kind = "OPEN_LONG" /\ order'[o].quantity = action[a].quantity
              /\ action[a].kind = "OPEN_LONG" /\ o[2] # Entry
                    => order'[o].state \in {"ABSENT", "STAGED"}

LEMMA InsertedRows ==
    ASSUME StoreInv, LinkInv, NEW a \in Actions, action[a].state = "VALIDATION_ACCEPTED",
           NEW S, NEW st \in {"OPEN", "ACTIVE"},
           order' = InsertOrders(CancelRoles(order, S), a, st)
                \/ order' = InsertOrders(order, a, st),
           \A o \in S : IsProtection(o)
    PROVE  SubmitRows(a)
<1>1. \A o \in OrderIds : o[1] = a => order[o].state = "ABSENT" /\ order[o].filled = 0
  BY DEF LinkInv, OrderLinks, Submitted
<1>2. \A o \in OrderIds : order[o] \in OrderType
  BY TablesGood DEF OrdersGood
<1>3. PICK ord : /\ ord = CancelRoles(order, S) \/ ord = order
                 /\ order' = InsertOrders(ord, a, st)
  OBVIOUS
<1>4. \A o \in OrderIds :
        /\ \/ ord[o] = order[o]
           \/ /\ o \in S /\ order[o].state \in Cancellable /\ ord[o].state = "CANCELLED"
              /\ ord[o].filled = order[o].filled /\ ord[o].quantity = order[o].quantity
  BY <1>2, <1>3 DEF CancelRoles, OrderType
<1>5. ASSUME NEW o \in OrderIds, o[1] # a
      PROVE  order'[o] = ord[o]
  BY <1>3, <1>5 DEF InsertOrders
<1>6. ASSUME NEW o \in OrderIds, o[1] = a
      PROVE  /\ order'[o].filled = 0
             /\ order'[o].state # "ABSENT" /\ o[2] = Entry =>
                   action[a].kind = "OPEN_LONG" /\ order'[o].quantity = action[a].quantity
             /\ action[a].kind = "OPEN_LONG" /\ o[2] # Entry
                   => order'[o].state \in {"ABSENT", "STAGED"}
  <2>1. ord[o] = order[o]
    BY <1>1, <1>4, <1>6 DEF Cancellable, Open
  <2>2. o[2] = Entry => /\ o[2] # ProtectiveStop /\ ~IsTakeProfit(o) /\ ~IsProtection(o)
                        /\ Requested(a, o[2]) <=> action[a].kind = "OPEN_LONG"
    BY Ids DEF IsTakeProfit, IsProtection, Requested
  <2>4. CASE Requested(a, o[2])
    <3>1. /\ order'[o].state = InitialState(o, st) /\ order'[o].filled = 0
          /\ o[2] = Entry => order'[o].quantity = action[a].quantity
      BY <1>3, <1>6, <2>2, <2>4 DEF InsertOrders
    <3> QED
      BY <1>6, <2>2, <2>4, <3>1 DEF InitialState
  <2>5. CASE ~Requested(a, o[2])
    <3>1. order'[o] = ord[o]
      BY <1>3, <1>6, <2>5 DEF InsertOrders
    <3> QED
      BY <1>1, <1>6, <2>1, <3>1
  <2> QED
    BY <2>4, <2>5
<1> QED
  BY <1>1, <1>4, <1>5, <1>6 DEF SubmitRows

LEMMA SubmitRowsOf ==
    ASSUME StoreInv, LinkInv, NEW a \in Actions, Submit(a)
    PROVE  /\ SubmitRows(a) /\ action[a].state = "VALIDATION_ACCEPTED" /\ lots' = lots
           /\ \E st \in Submitted : ActionBecomes(a, st)
           /\ PlansStay
<1>1. /\ action[a].state = "VALIDATION_ACCEPTED" /\ lots' = lots
      /\ \E st \in Submitted : ActionBecomes(a, st)
  BY DEF Submit, Submits, SubmitOpenLong, SubmitCancelEntry, SubmitModifyProtection,
         SubmitReduce, SubmitExit, Submitted
<1>2. ActionsGood(action) /\ PlansGood(plan) /\ OrdersGood(action, order)
  BY TablesGood
<1>3. action[a].plan \in Plans
  BY <1>1, <1>2 DEF ActionsGood
<1>4. PlansStay
  <2>1. \/ plan' = plan
        \/ \E st \in {"ENTRY_PENDING", "CANCELLED", "EXIT_PENDING"} :
              plan' = [plan EXCEPT ![action[a].plan] = st]
    BY DEF Submit, SubmitOpenLong, SubmitCancelEntry, SubmitModifyProtection,
           SubmitReduce, SubmitExit, PlanBecomes
  <2> QED
    BY <1>2, <1>3, <2>1 DEF PlansStay, PlansGood
<1>5. CASE SubmitOpenLong(a) \/ SubmitReduce(a) \/ SubmitExit(a)
  <2>1. order' = InsertOrders(order, a, "OPEN")
    BY <1>5 DEF SubmitOpenLong, SubmitReduce, SubmitExit
  <2>2. SubmitRows(a)
    <3> DEFINE S == {}
    <3>1. \A o \in S : IsProtection(o)
      OBVIOUS
    <3> HIDE DEF S
    <3> QED
      BY <1>1, <2>1, <3>1, InsertedRows
  <2> QED
    BY <1>1, <1>4, <2>2
<1>6. CASE SubmitModifyProtection(a)
  <2>1. order' = InsertOrders(CancelRoles(order, ProtectionsOf(action[a].plan)), a, "ACTIVE")
    BY <1>6 DEF SubmitModifyProtection
  <2>2. \A o \in ProtectionsOf(action[a].plan) : IsProtection(o)
    BY DEF ProtectionsOf
  <2>3. SubmitRows(a)
    BY <1>1, <2>1, <2>2, InsertedRows
  <2> QED
    BY <1>1, <1>4, <2>3
<1>7. CASE SubmitCancelEntry(a)
  <2>1. /\ order' = CancelRoles(order, EntriesOf(action[a].plan))
        /\ action[a].kind = "CANCEL_ENTRY"
        /\ plan' = [plan EXCEPT ![action[a].plan] = "CANCELLED"]
    BY <1>7 DEF SubmitCancelEntry, Submits, PlanBecomes
  <2>2. \A o \in OrderIds : order[o] \in OrderType
    BY <1>2 DEF OrdersGood
  <2>3. \A o \in OrderIds : o[1] = a => order[o].state = "ABSENT" /\ order[o].filled = 0
    BY <1>1 DEF LinkInv, OrderLinks, Submitted
  <2>4. plan'[action[a].plan] = "CANCELLED"
    BY <1>2, <1>3, <2>1 DEF PlansGood
  <2>5. \A o \in OrderIds :
          \/ order'[o] = order[o]
          \/ /\ o \in EntriesOf(action[a].plan) /\ order[o].state \in Cancellable
             /\ order'[o].state = "CANCELLED"
             /\ order'[o].filled = order[o].filled /\ order'[o].quantity = order[o].quantity
    BY <2>1, <2>2 DEF CancelRoles, OrderType
  <2>6. SubmitRows(a)
    <3>1. \A o \in OrderIds : o[1] = a => order'[o] = order[o]
      BY <2>3, <2>5 DEF Cancellable, Open
    <3> QED
      BY <2>1, <2>3, <2>4, <2>5, <3>1 DEF SubmitRows, EntriesOf
  <2> QED
    BY <1>1, <1>4, <2>6
<1> QED
  BY <1>5, <1>6, <1>7 DEF Submit

LEMMA SubmitEffect ==
    ASSUME StoreInv, LinkInv, NEW a \in Actions, Submit(a)
    PROVE  CallEffect /\ lots' = lots
<1>1. /\ SubmitRows(a) /\ action[a].state = "VALIDATION_ACCEPTED" /\ lots' = lots
      /\ \E st \in Submitted : ActionBecomes(a, st)
      /\ PlansStay /\ ActionsGood(action) /\ OrdersGood(action, order)
  BY SubmitRowsOf, TablesGood
<1>2. ActionsKept /\ NoNewAction
  BY <1>1, SubmittedBecomes
<1>3. action'[a].state \in Submitted /\ action'[a].kind = action[a].kind
      /\ action'[a].quantity = action[a].quantity
  <2>1. action'[a].state \in Submitted
    BY <1>1 DEF ActionBecomes, ActionsGood, ActionType
  <2> QED
    BY <1>1, <1>2, <2>1 DEF ActionsKept
<1>4. ActionLinks(plan', action')
  BY <1>1, <1>2, ActionLinksKept DEF LinkInv
<1>5. ASSUME NEW o \in OrderIds
      PROVE  /\ order[o].state # "ABSENT" =>
                   order'[o].state # "ABSENT" /\ order'[o].filled = order[o].filled
                   /\ action'[o[1]].plan = action[o[1]].plan /\ o[1] # a
             /\ order[o].state = "ABSENT" => order'[o].filled = 0
             /\ order[o].state \in Ended => order'[o] = order[o]
  <2>1. order[o].state # "ABSENT" => o[1] # a
    BY <1>1 DEF SubmitRows
  <2>2. order[o].state # "ABSENT" => action'[o[1]].plan = action[o[1]].plan
    BY <1>1, <1>2, Ids DEF OrdersGood, ActionsKept
  <2>3. order[o].state # "ABSENT" =>
           order'[o].state # "ABSENT" /\ order'[o].filled = order[o].filled
    BY <1>1, <2>1 DEF SubmitRows
  <2>4. order[o].state = "ABSENT" => order'[o].filled = 0
    <3>1. SUFFICES ASSUME order[o].state = "ABSENT", o[1] # a PROVE order'[o].filled = 0
      BY <1>1 DEF SubmitRows
    <3>2. order'[o] = order[o]
      BY <1>1, <3>1 DEF SubmitRows, Cancellable, Open
    <3> QED
      BY <3>1, <3>2 DEF LinkInv, OrderLinks
  <2>5. order[o].state \in Ended => order'[o] = order[o]
    BY <1>1, <2>1 DEF SubmitRows, Ended, Cancellable, Open
  <2> QED
    BY <2>1, <2>2, <2>3, <2>4, <2>5
<1>6. OrderLinks(action', order')
  <2>1. ASSUME NEW o \in OrderIds, order'[o].state # "ABSENT"
        PROVE  /\ action'[o[1]].state \in Submitted
               /\ o[2] = Entry => action'[o[1]].kind = "OPEN_LONG"
    <3>1. CASE o[1] = a
      BY <1>1, <1>3, <2>1, <3>1 DEF SubmitRows
    <3>2. CASE o[1] # a
      <4>1. order[o].state # "ABSENT"
        BY <1>1, <2>1, <3>2 DEF SubmitRows, Cancellable, Open
      <4>2. o[1] \in Actions /\ action[o[1]].state \in Submitted
            /\ (o[2] = Entry => action[o[1]].kind = "OPEN_LONG")
        BY <4>1, Ids DEF LinkInv, OrderLinks
      <4>3. action[o[1]].state # "ABSENT"
        BY <4>2 DEF Submitted
      <4> QED
        BY <1>2, <4>2, <4>3 DEF ActionsKept
    <3> QED
      BY <3>1, <3>2
  <2>2. ASSUME NEW o \in OrderIds, order'[o].state = "ABSENT"
        PROVE  order'[o].filled = 0
    BY <1>5, <2>2
  <2>3. ASSUME NEW o \in OrderIds, o[2] = Entry, order'[o].state \in Open
        PROVE  order'[o].filled < order'[o].quantity
    <3>1. CASE o[1] = a
      <4>1. action[a].kind = "OPEN_LONG" /\ order'[o].quantity = action[a].quantity
            /\ order'[o].filled = 0
        BY <1>1, <2>3, <3>1 DEF SubmitRows, Open
      <4> QED
        BY <4>1 DEF LinkInv, ActionLinks
    <3>2. CASE o[1] # a
      <4>1. order'[o] = order[o]
        BY <1>1, <2>3, <3>2 DEF SubmitRows, Open
      <4> QED
        BY <2>3, <4>1 DEF LinkInv, OrderLinks
    <3> QED
      BY <3>1, <3>2
  <2> QED
    BY <2>1, <2>2, <2>3 DEF OrderLinks
<1>7. Waiting(order')
  <2>1. SUFFICES ASSUME NEW e \in OrderIds, NEW r \in OrderIds, e[1] = r[1], e[2] = Entry,
                        IsProtection(r), order'[e].state \in Open
                 PROVE  /\ order'[r].state \in {"ABSENT", "STAGED", "CANCELLED"}
                        /\ order'[r].filled = 0
    BY DEF Waiting
  <2>2. CASE e[1] = a
    <3>1. r[2] # Entry
      BY <2>1, Ids DEF IsProtection, IsTakeProfit
    <3> QED
      BY <1>1, <2>1, <2>2, <3>1 DEF SubmitRows, Open
  <2>3. CASE e[1] # a
    <3>1. order[e].state \in Open
      BY <1>1, <2>1, <2>3 DEF SubmitRows, Open
    <3>2. order[r].state \in {"ABSENT", "STAGED", "CANCELLED"} /\ order[r].filled = 0
      BY <2>1, <3>1 DEF LinkInv, Waiting
    <3> QED
      BY <1>1, <2>1, <2>3, <3>2 DEF SubmitRows
  <2> QED
    BY <2>2, <2>3
<1> QED
  BY <1>1, <1>4, <1>5, <1>6, <1>7 DEF CallEffect

\* A plan that waits for its entry goes on waiting for the same one, or starts
\* to wait for one just placed.
LEMMA SubmitAwaited ==
    ASSUME StoreInv, LinkInv, NEW a \in Actions, Submit(a), Awaited(plan, action, order)
    PROVE  Awaited(plan', action', order')
<1>1. /\ SubmitRows(a) /\ action[a].state = "VALIDATION_ACCEPTED"
      /\ \E st \in Submitted : ActionBecomes(a, st)
      /\ ActionsGood(action) /\ PlansGood(plan) /\ CallEffect
  BY SubmitRowsOf, SubmitEffect, TablesGood
<1>2. action[a].plan \in Plans
  BY <1>1 DEF ActionsGood
<1>3. ASSUME NEW p \in Plans, plan'[p] = "ENTRY_PENDING", plan[p] = "ENTRY_PENDING"
      PROVE  \E o \in OrderIds : /\ o[2] = Entry /\ action'[o[1]].plan = p
                                 /\ order'[o].state \in Open
  <2>1. PICK o \in OrderIds : /\ o[2] = Entry /\ action[o[1]].plan = p
                              /\ order[o].state \in Open
    BY <1>3 DEF Awaited
  <2>2. order[o].state # "ABSENT" /\ ~IsProtection(o)
    BY <2>1, Ids DEF Open, IsProtection, IsTakeProfit
  <2>3. action'[o[1]].plan = p /\ o[1] # a
    BY <1>1, <2>1, <2>2 DEF CallEffect, SubmitRows
  <2>4. order'[o] = order[o]
    BY <1>1, <1>3, <2>1, <2>2, <2>3 DEF SubmitRows, PlanOf
  <2> QED
    BY <2>1, <2>3, <2>4
<1>4. ASSUME NEW p \in Plans, plan'[p] = "ENTRY_PENDING", plan[p] # "ENTRY_PENDING"
      PROVE  \E o \in OrderIds : /\ o[2] = Entry /\ action'[o[1]].plan = p
                                 /\ order'[o].state \in Open
  <2>1. SubmitOpenLong(a)
    BY <1>1, <1>2, <1>4 DEF Submit, SubmitOpenLong, SubmitCancelEntry, SubmitModifyProtection,
           SubmitReduce, SubmitExit, PlanBecomes, PlansGood
  <2>2. p = action[a].plan /\ action[a].kind = "OPEN_LONG"
        /\ order' = InsertOrders(order, a, "OPEN")
    BY <1>1, <1>4, <2>1 DEF SubmitOpenLong, Submits, PlanBecomes, PlansGood
  <2> DEFINE o == <<a, Entry>>
  <2>3. o \in OrderIds /\ o[1] = a /\ o[2] = Entry
    BY Ids, StoreAssumption DEF OrderIds, Roles, Entry
  <2>4. Requested(a, Entry) /\ InitialState(o, "OPEN") = "OPEN"
    BY <2>2, <2>3, Ids DEF Requested, InitialState
  <2>5. order'[o].state = "OPEN"
    BY <2>2, <2>3, <2>4 DEF InsertOrders
  <2>6. action'[a].plan = action[a].plan
    BY <1>1 DEF ActionBecomes, ActionsGood, ActionType
  <2> QED
    BY <2>2, <2>3, <2>5, <2>6 DEF Open
<1> QED
  BY <1>3, <1>4 DEF Awaited

LEMMA RowAwaited ==
    ASSUME StoreInv, LinkInv, tx.active, NEW o \in tx.todo, RowEffect(o), PendingKept(o),
           Awaited(plan, action, order)
    PROVE  Awaited(plan', action', order')
<1>1. SUFFICES ASSUME NEW p \in Plans, plan'[p] = "ENTRY_PENDING"
               PROVE  \E e \in OrderIds : /\ e[2] = Entry /\ action'[e[1]].plan = p
                                          /\ order'[e].state \in Open
  BY DEF Awaited
<1>2. PICK e \in OrderIds : /\ e[2] = Entry /\ action[e[1]].plan = p
                            /\ order[e].state \in Open
  BY <1>1 DEF PendingKept, Awaited
<1>3. ~IsProtection(e)
  BY <1>2, Ids DEF IsProtection, IsTakeProfit
<1>4. action'[e[1]].plan = p
  <2>1. e[1] \in Actions /\ action[e[1]].state # "ABSENT"
    BY <1>2, Ids DEF LinkInv, OrderLinks, Submitted, Open
  <2> QED
    BY <1>2, <2>1 DEF RowEffect, ActionsKept
<1>5. order'[e].state \in Open
  <2>1. CASE e = o
    BY <1>1, <1>2, <2>1 DEF PendingKept, PlanOf
  <2>2. CASE e # o
    BY <1>2, <1>3, <2>2 DEF RowEffect, OtherRows
  <2> QED
    BY <2>1, <2>2
<1> QED
  BY <1>2, <1>4, <1>5

-----------------------------------------------------------------------------
(* Every step of the store *)

\* A step of the store is a call that has an effect on the tables, a step of
\* the observation, or neither.
LEMMA BeginLinks ==
    ASSUME StoreInv, LinkInv, NEW i \in Instruments, NEW l \in 1..MaxLiquidity,
           BeginObservation(i, l)
    PROVE  LinkInv'
<1>1. /\ ~tx.active /\ tx'.todo = RowsOf(i) /\ tx'.instrument = i
      /\ plan' = plan /\ action' = action /\ order' = order /\ saved' = saved
  BY DEF BeginObservation, rows
<1>2. saved.order = order
  BY <1>1 DEF StoreInv, Committed
<1>3. \A o \in RowsOf(i) : o \in OrderIds /\ order[o].state \in Open
                           /\ InstrumentOf[PlanOf(o)] = i
  BY DEF RowsOf
<1>4. TxLinked'
  <2>1. ASSUME NEW e \in OrderIds, NEW o \in RowsOf(i), e[1] = o[1], e[2] = Entry,
               order[e].state \in Open, IsProtection(o)
        PROVE  FALSE
    BY <1>3, <2>1 DEF LinkInv, Waiting, Open
  <2> QED
    BY <1>1, <1>2, <1>3, <2>1 DEF TxLinked, PlanOf
<1>5. EndedKept'
  BY <1>1, <1>2 DEF EndedKept
<1> QED
  BY <1>1, <1>4, <1>5 DEF LinkInv

LEMMA EndLinks ==
    ASSUME StoreInv, LinkInv, CommitObservation \/ AbortObservation
    PROVE  /\ LinkInv' /\ tx'.todo = {}
           /\ saved'.plan = plan' /\ saved'.action = action' /\ saved'.order = order'
           /\ saved'.lots = lots'
<1>1. tx'.todo = {}
  BY DEF CommitObservation, AbortObservation, Idle
<1>2. /\ saved'.plan = plan' /\ saved'.action = action' /\ saved'.order = order'
      /\ saved'.lots = lots'
  BY DEF CommitObservation, AbortObservation, Commits, Committed
<1>3. \/ plan' = plan /\ action' = action /\ order' = order
      \/ plan' = saved.plan /\ action' = saved.action /\ order' = saved.order
  BY DEF CommitObservation, AbortObservation, rows
<1>4. ActionLinks(plan', action') /\ OrderLinks(action', order') /\ Waiting(order')
  BY <1>3 DEF LinkInv
<1>5. TxLinked' /\ EndedKept'
  BY <1>1, <1>2 DEF TxLinked, EndedKept
<1> QED
  BY <1>1, <1>2, <1>4, <1>5 DEF LinkInv

LEMMA RowSteps ==
    ASSUME StoreInv, LinkInv, NEW o \in tx.todo, ProcessRow(o)
    PROVE  /\ tx.active /\ RowEffect(o) /\ PendingKept(o) /\ LinkInv'
           /\ \/ NothingTraded(o)
              \/ Bought(o) /\ Fills(o)
              \/ Sold(o) /\ Fills(o)
<1>1. tx.active
  BY DEF ProcessRow, SkipTakeProfit, CancelEmpty, Expire, NotMatched, FillEntry, FillReduction,
         FillExit, FillProtection, Sell, Fills, Matchable, Considered, AtRow
<1>2. FillEntry(o) => Fills(o)
  BY DEF FillEntry
<1>3. /\ RowEffect(o) /\ PendingKept(o)
      /\ \/ NothingTraded(o)
         \/ Bought(o) /\ Fills(o)
         \/ Sold(o) /\ Fills(o)
  BY <1>2, PassOverEffect, CancelEmptyEffect, ExpireEffect, FillEntryEffect, FillSellEffect
     DEF ProcessRow
<1> QED
  BY <1>1, <1>3, RowLinks

\* Every step of the store is a call or part of an observation.
LEMMA StoreSteps ==
    ASSUME StoreInv, LinkInv, [Next]_vars
    PROVE  \/ Call /\ CallEffect /\ Commits /\ lots' = lots
              /\ (Awaited(plan, action, order) => Awaited(plan', action', order'))
           \/ \E i \in Instruments, l \in 1..MaxLiquidity : BeginObservation(i, l)
           \/ \E o \in tx.todo : ProcessRow(o)
           \/ CommitObservation
           \/ AbortObservation
           \/ UNCHANGED vars
<1>1. ASSUME NEW a \in Actions, Record(a)
      PROVE  /\ Call /\ CallEffect /\ Commits /\ lots' = lots
             /\ (Awaited(plan, action, order) => Awaited(plan', action', order'))
  <2>1. PICK k \in Kinds, p \in Plans, q \in Quantities, stop \in BOOLEAN, t \in TargetSets :
          RecordPlan(a, k, p, q, stop, t)
    BY <1>1 DEF Record
  <2>2. Call /\ Commits
    BY <2>1 DEF RecordPlan
  <2> QED
    BY <2>1, <2>2, RecordEffect
<1>2. ASSUME NEW a \in Actions, NEW accept \in BOOLEAN, PersistValidation(a, Facts, accept)
      PROVE  /\ Call /\ CallEffect /\ Commits /\ lots' = lots
             /\ (Awaited(plan, action, order) => Awaited(plan', action', order'))
  <2>1. Call /\ Commits
    BY <1>2 DEF PersistValidation
  <2> QED
    BY <1>2, <2>1, ValidationEffect
<1>3. ASSUME NEW a \in Actions, Submit(a)
      PROVE  /\ Call /\ CallEffect /\ Commits /\ lots' = lots
             /\ (Awaited(plan, action, order) => Awaited(plan', action', order'))
  <2>1. Call /\ Commits
    BY <1>3 DEF Submit, Submits, SubmitOpenLong, SubmitCancelEntry, SubmitModifyProtection,
           SubmitReduce, SubmitExit
  <2> QED
    BY <1>3, <2>1, SubmitEffect, SubmitAwaited
<1> QED
  BY <1>1, <1>2, <1>3 DEF Next, Observation

LEMMA StoreLinks ==
    ASSUME StoreInv, LinkInv, [Next]_vars
    PROVE  LinkInv'
<1>1. CASE UNCHANGED vars
  BY <1>1 DEF vars, LinkInv, TxLinked, EndedKept, PlanOf
<1> QED
  BY <1>1, StoreSteps, CallLinks, BeginLinks, EndLinks, RowSteps

LEMMA LinksInitially ==
    ASSUME Init
    PROVE  LinkInv
<1>1. ActionLinks(plan, action)
  BY DEF Init, ActionLinks, NoAction
<1>2. OrderLinks(action, order)
  BY DEF Init, OrderLinks, NoOrder, Open
<1>3. Waiting(order)
  BY DEF Init, Waiting, NoOrder, Open
<1> QED
  BY <1>1, <1>2, <1>3 DEF Init, LinkInv, TxLinked, EndedKept, Idle, Committed

PendingInv == Awaited(plan, action, order) /\ Awaited(saved.plan, saved.action, saved.order)

LEMMA PendingStep ==
    ASSUME StoreInv, LinkInv, PendingInv, [Next]_vars
    PROVE  PendingInv'
<1>1. CASE Call /\ CallEffect /\ Commits /\ lots' = lots
           /\ (Awaited(plan, action, order) => Awaited(plan', action', order'))
  <2>1. /\ saved'.plan = plan' /\ saved'.action = action' /\ saved'.order = order'
    BY <1>1 DEF Commits, Committed
  <2> QED
    BY <1>1, <2>1 DEF PendingInv
<1>2. ASSUME NEW i \in Instruments, NEW l \in 1..MaxLiquidity, BeginObservation(i, l)
      PROVE  PendingInv'
  BY <1>2 DEF BeginObservation, rows, PendingInv
<1>3. ASSUME NEW o \in tx.todo, ProcessRow(o)
      PROVE  PendingInv'
  <2>1. tx.active /\ RowEffect(o) /\ PendingKept(o)
    BY <1>3, RowSteps
  <2>2. Awaited(plan', action', order') /\ saved' = saved
    BY <2>1, RowAwaited DEF PendingInv, RowEffect
  <2> QED
    BY <2>2 DEF PendingInv
<1>4. CASE CommitObservation
  <2>1. plan' = plan /\ action' = action /\ order' = order
    BY <1>4 DEF CommitObservation, rows
  <2> QED
    BY <1>4, <2>1, EndLinks DEF PendingInv
<1>5. CASE AbortObservation
  <2>1. plan' = saved.plan /\ action' = saved.action /\ order' = saved.order
    BY <1>5 DEF AbortObservation
  <2> QED
    BY <1>5, <2>1, EndLinks DEF PendingInv
<1>6. CASE UNCHANGED vars
  BY <1>6 DEF vars, PendingInv
<1> QED
  BY <1>1, <1>2, <1>3, <1>4, <1>5, <1>6, StoreSteps

LEMMA LinkInvariant == Spec => [](StoreInv /\ LinkInv /\ PendingInv)
<1>1. Init => StoreInv /\ LinkInv /\ PendingInv
  <2>1. Init => PendingInv
    BY DEF Init, PendingInv, Awaited, Committed
  <2> QED
    BY <2>1, InitPreserves, LinksInitially
<1>2. StoreInv /\ LinkInv /\ PendingInv /\ [Next]_vars => (StoreInv /\ LinkInv /\ PendingInv)'
  BY StepPreserves, StoreLinks, PendingStep
<1> QED
  BY <1>1, <1>2, PTL DEF Spec

\* No plan waits for an entry that nothing works any more: whatever ends or
\* cancels the entry also moves the plan on, in the same transaction.
THEOREM PendingPlansAreWorked == Spec => []PendingEntryIsWorking
<1>1. PendingInv => PendingEntryIsWorking
  BY DEF PendingInv, Awaited, PendingEntryIsWorking, Working, PlanOf
<1> QED
  BY <1>1, LinkInvariant, PTL

\* No protection is worked while the entry it came with still is, however the
\* rows of an observation are processed.
THEOREM ProtectionsWait == Spec => []StagedUntilEntered
<1>1. LinkInv => StagedUntilEntered
  BY DEF LinkInv, Waiting, StagedUntilEntered
<1> QED
  BY <1>1, LinkInvariant, PTL

-----------------------------------------------------------------------------
(* What is committed of the plans follows their life cycle *)

Entered == {"ACTIVE", "EXIT_PENDING", "RECOVERY_REQUIRED"}
PastEntry == Entered \cup TerminalStates

\* Orders and accepted commands outlive the moment they were made for, but not
\* by an earlier stage of their plan: an entry works only for a plan that waits
\* for it, and whatever sells, or is accepted to, only once that is past.
OrderStages(pl, ac, ord) ==
    \A o \in OrderIds : ord[o].state \in Open =>
        IF o[2] = Entry THEN pl[ac[o[1]].plan] = "ENTRY_PENDING"
                        ELSE pl[ac[o[1]].plan] \in PastEntry

ActionStages(pl, ac) ==
    \A a \in Actions : ac[a].state = "VALIDATION_ACCEPTED" =>
        /\ ac[a].kind = "OPEN_LONG" => pl[ac[a].plan] \in {"ACCEPTED"} \cup TerminalStates
        /\ ac[a].kind = "CANCEL_ENTRY" => pl[ac[a].plan] \in {"ENTRY_PENDING"} \cup PastEntry
        /\ ac[a].kind \in {"MODIFY_PROTECTION", "REDUCE", "EXIT"}
              => pl[ac[a].plan] \in PastEntry

Stages(pl, ac, ord) == OrderStages(pl, ac, ord) /\ ActionStages(pl, ac)

\* The states a row may take its plan to, and what an observation makes of one.
RowStates(o) == IF o[2] = Entry THEN {"ACTIVE", "CANCELLED", "RECOVERY_REQUIRED"}
                                ELSE {"CLOSED", "RECOVERY_REQUIRED"}
Observed(old, new) ==
    \/ old = "ENTRY_PENDING" /\ new \in {"ACTIVE", "CANCELLED", "RECOVERY_REQUIRED"}
    \/ old \in Entered /\ new \in {"CLOSED", "RECOVERY_REQUIRED"}

ObservedPlans ==
    /\ \A p \in Plans : plan[p] # saved.plan[p] =>
          InstrumentOf[p] = tx.instrument /\ Observed(saved.plan[p], plan[p])
    /\ \A a \in Actions : action[a].plan = saved.action[a].plan

LifeInv == /\ Stages(plan, action, order)
           /\ Stages(saved.plan, saved.action, saved.order)
           /\ ObservedPlans

\* What processing the row o does to the plans: at most its own moves, and then
\* an entry works no more.
RowMoves(o) ==
    /\ \A a \in Actions : action[a].state \notin Submitted => action'[a] = action[a]
    /\ \/ plan' = plan
       \/ /\ PlanLive(PlanOf(o))
          /\ \E st \in RowStates(o) : plan' = [plan EXCEPT ![PlanOf(o)] = st]
          /\ o[2] = Entry => order'[o].state \notin Open
    /\ \A r \in OrderIds \ {o} :
          order[r].state = "STAGED" /\ order'[r].state = "ACTIVE"
          => PlanOf(r) = PlanOf(o) /\ plan'[PlanOf(o)] = "ACTIVE"

LEMMA ProcessMoves ==
    ASSUME StoreInv, LinkInv, NEW o \in tx.todo, ProcessRow(o)
    PROVE  RowMoves(o)
<1>1. /\ tx.active /\ o \in OrderIds /\ o[1] \in Actions /\ PlanOf(o) \in Plans
      /\ action[o[1]].state \in Submitted
      /\ ActionsGood(action) /\ PlansGood(plan) /\ OrdersGood(action, order)
  <2>1. tx.active
    BY RowSteps
  <2>2. /\ o \in OrderIds /\ o[1] \in Actions /\ PlanOf(o) \in Plans
        /\ order[o].state # "ABSENT"
    BY <2>1, RowFacts
  <2> QED
    BY <2>1, <2>2, TablesGood DEF LinkInv, OrderLinks
<1>2. \A r \in OrderIds : order[r] \in OrderType
  BY <1>1 DEF OrdersGood
<1>3. ASSUME NEW st, ActionBecomes(o[1], st)
      PROVE  \A a \in Actions : action[a].state \notin Submitted => action'[a] = action[a]
  BY <1>1, <1>3 DEF ActionBecomes, ActionsGood
<1>4. CASE SkipTakeProfit(o) \/ NotMatched(o)
  BY <1>4 DEF SkipTakeProfit, NotMatched, rows, RowMoves
<1>5. CASE CancelEmpty(o)
  <2>1. /\ plan' = plan /\ action' = action
        /\ \A r \in OrderIds \ {o} : order'[r] = order[r]
    BY <1>1, <1>5 DEF CancelEmpty, OrdersGood
  <2> QED
    BY <2>1 DEF RowMoves
<1>6. CASE Expire(o)
  <2>1. \E st : ActionBecomes(o[1], st)
    BY <1>6 DEF Expire
  <2>2. /\ \A r \in OrderIds \ {o} : order'[r] = order[r]
        /\ order'[o].state = "EXPIRED"
    BY <1>1, <1>2, <1>6 DEF Expire, OrdersGood, OrderType
  <2>3. plan' = plan \/ \E st \in RowStates(o) : PlanBecomes(PlanOf(o), st)
    BY <1>6, Ids DEF Expire, RowStates
  <2> QED
    BY <1>3, <2>1, <2>2, <2>3 DEF RowMoves, PlanBecomes, Open
<1>7. CASE FillEntry(o)
  <2>1. Fills(o) /\ o[2] = Entry
    BY <1>7 DEF FillEntry
  <2>2. CASE ~Full(o)
    <3>1. order' = Filled(o) /\ plan' = plan /\ action' = action
      BY <1>7, <2>2 DEF FillEntry
    <3> QED
      BY <2>1, <3>1, FilledRow DEF RowMoves
  <2>3. CASE Full(o)
    <3>1. /\ order' = [r \in OrderIds |->
                          IF r \in ProtectionsOf(PlanOf(o)) /\ order[r].state = "STAGED"
                          THEN [order[r] EXCEPT !.state = "ACTIVE"] ELSE Filled(o)[r]]
          /\ ActionBecomes(o[1], "EXECUTED") /\ PlanBecomes(PlanOf(o), "ACTIVE")
      BY <1>7, <2>3 DEF FillEntry
    <3>2. o \notin ProtectionsOf(PlanOf(o))
      BY <2>1, Ids DEF ProtectionsOf, IsProtection, IsTakeProfit
    <3>3. order'[o].state = "FILLED"
      BY <1>1, <2>1, <2>3, <3>1, <3>2, FilledRow
    <3>4. plan'[PlanOf(o)] = "ACTIVE"
      BY <1>1, <3>1 DEF PlanBecomes, PlansGood
    <3>5. ASSUME NEW r \in OrderIds \ {o}, order[r].state = "STAGED",
                 order'[r].state = "ACTIVE"
          PROVE  PlanOf(r) = PlanOf(o)
      <4>1. Filled(o)[r] = order[r]
        BY <2>1, FilledRow
      <4>2. r \in ProtectionsOf(PlanOf(o))
        BY <3>1, <3>5, <4>1
      <4> QED
        BY <4>2 DEF ProtectionsOf
    <3>6. "ACTIVE" \in RowStates(o)
      BY <2>1 DEF RowStates
    <3> QED
      BY <1>3, <3>1, <3>3, <3>4, <3>5, <3>6 DEF RowMoves, PlanBecomes, Open
  <2> QED
    BY <2>2, <2>3
<1>8. CASE FillReduction(o) \/ FillExit(o) \/ FillProtection(o)
  <2>1. Fills(o) /\ o[2] # Entry
    BY <1>8, Ids
       DEF FillReduction, FillExit, FillProtection, Sell, IsProtection, IsTakeProfit
  <2>2. action' = action \/ ActionBecomes(o[1], "EXECUTED")
    BY <1>8 DEF FillReduction, FillExit, FillProtection
  <2>3. \/ Close(o)
        \/ order' = Filled(o) /\ plan' = plan
    BY <1>8 DEF FillReduction, FillExit, FillProtection
  <2>4. plan' = plan \/ \E st \in RowStates(o) : PlanBecomes(PlanOf(o), st)
    BY <2>1, <2>3 DEF Close, RowStates
  <2>5. ASSUME NEW r \in OrderIds \ {o}, order[r].state = "STAGED"
        PROVE  order'[r].state # "ACTIVE"
    <3>1. Filled(o)[r] = order[r]
      BY <2>1, FilledRow
    <3> QED
      BY <1>2, <2>3, <2>5, <3>1 DEF Close, CancelRoles, OrderType
  <2> QED
    BY <1>3, <2>1, <2>2, <2>4, <2>5 DEF RowMoves, PlanBecomes
<1> QED
  BY <1>4, <1>5, <1>6, <1>7, <1>8 DEF ProcessRow

LEMMA RowLife ==
    ASSUME StoreInv, LinkInv, LifeInv, NEW o \in tx.todo, ProcessRow(o)
    PROVE  LifeInv'
<1> DEFINE P == PlanOf(o)
<1>1. /\ tx.active /\ RowEffect(o) /\ RowMoves(o)
      /\ o \in OrderIds /\ o[1] \in Actions /\ P \in Plans
      /\ ActionsGood(action) /\ PlansGood(plan)
      /\ saved' = saved /\ tx'.instrument = tx.instrument
  <2>1. tx.active /\ RowEffect(o) /\ RowMoves(o)
    BY RowSteps, ProcessMoves
  <2> QED
    BY <2>1, RowFacts, TablesGood DEF RowEffect
<1>2. \A a \in Actions : action'[a].plan = action[a].plan /\ action'[a].kind = action[a].kind
  BY <1>1 DEF RowEffect, ActionsKept, NoNewAction
<1>3. InstrumentOf[P] = tx.instrument /\ saved.order[o].state \in Open
      /\ (o[2] = Entry => order[o].state \in Open)
  BY DEF LinkInv, TxLinked
\* The stage of the plan when the observation began.
<1>4. IF o[2] = Entry THEN saved.plan[P] = "ENTRY_PENDING" ELSE saved.plan[P] \in PastEntry
  <2>1. saved.action[o[1]].plan = P
    BY <1>1 DEF LifeInv, ObservedPlans, PlanOf
  <2> QED
    BY <1>1, <1>3, <2>1 DEF LifeInv, Stages, OrderStages
<1>5. CASE plan' = plan
  <2>1. ASSUME NEW r \in OrderIds, order'[r].state \in Open
        PROVE  IF r[2] = Entry THEN plan[PlanOf(r)] = "ENTRY_PENDING"
                               ELSE plan[PlanOf(r)] \in PastEntry
    <3>1. CASE order[r].state \in Open
      BY <3>1 DEF LifeInv, Stages, OrderStages, PlanOf
    <3>2. CASE r = o /\ o[2] # Entry
      <4>1. plan[P] \in PastEntry
        BY <1>1, <1>4, <3>2 DEF LifeInv, ObservedPlans, Observed, PastEntry, Entered,
               TerminalStates
      <4> QED
        BY <3>2, <4>1
    <3>3. CASE r # o /\ order[r].state \notin Open
      <4>1. /\ IsProtection(r) /\ order[r].state = "STAGED" /\ order'[r].state = "ACTIVE"
        BY <1>1, <2>1, <3>3 DEF RowEffect, OtherRows, Open
      <4>2. r[2] # Entry
        BY <4>1, Ids DEF IsProtection, IsTakeProfit
      <4>3. plan[PlanOf(r)] = "ACTIVE"
        BY <1>1, <1>5, <3>3, <4>1 DEF RowMoves
      <4> QED
        BY <4>2, <4>3 DEF PastEntry, Entered
    <3> QED
      BY <1>3, <3>1, <3>2, <3>3
  <2>2. OrderStages(plan', action', order')
    BY <1>2, <1>5, <2>1, Ids DEF OrderStages, PlanOf
  <2>3. \A a \in Actions : action'[a].state = "VALIDATION_ACCEPTED"
                           => action[a].state = "VALIDATION_ACCEPTED"
    BY <1>1 DEF RowMoves, RowEffect, ActionsKept, Submitted
  <2>4. ActionStages(plan', action')
    BY <1>2, <1>5, <2>3 DEF LifeInv, Stages, ActionStages
  <2>5. ObservedPlans'
    BY <1>1, <1>2, <1>5 DEF LifeInv, ObservedPlans
  <2> QED
    BY <1>1, <2>2, <2>4, <2>5 DEF LifeInv, Stages
<1>6. CASE plan' # plan
  <2>1. PICK st \in RowStates(o) : plan' = [plan EXCEPT ![P] = st]
    BY <1>1, <1>6 DEF RowMoves
  <2>2. plan'[P] = st /\ \A p \in Plans \ {P} : plan'[p] = plan[p]
    BY <1>1, <2>1 DEF PlansGood
  <2>3. plan[P] \in NonTerminalStates /\ (o[2] = Entry => order'[o].state \notin Open)
    BY <1>1, <1>6 DEF RowMoves, PlanLive
  <2>4. saved.plan[P] \notin TerminalStates
    BY <1>1, <2>3 DEF StoreInv, TerminalKept, NonTerminalStates, TerminalStates
  <2>5. /\ Observed(saved.plan[P], st)
        /\ st \in PastEntry
        /\ plan[P] \in {"ENTRY_PENDING"} \cup Entered
        /\ o[2] # Entry => plan[P] # "ENTRY_PENDING"
    <3>1. plan[P] = saved.plan[P] \/ Observed(saved.plan[P], plan[P])
      BY <1>1 DEF LifeInv, ObservedPlans
    <3>2. /\ o[2] = Entry => saved.plan[P] = "ENTRY_PENDING"
          /\ o[2] # Entry => saved.plan[P] \in Entered
      BY <1>4, <2>4 DEF PastEntry
    <3>3. st \in PastEntry /\ Observed(saved.plan[P], st)
      BY <3>2 DEF RowStates, Observed, PastEntry, Entered, TerminalStates
    <3>4. o[2] # Entry => plan[P] \in Entered
      BY <2>3, <3>1, <3>2 DEF Observed, Entered, NonTerminalStates
    <3>5. o[2] = Entry => plan[P] \in {"ENTRY_PENDING"} \cup Entered
      BY <2>3, <3>1, <3>2 DEF Observed, Entered, NonTerminalStates
    <3> QED
      BY <3>3, <3>4, <3>5 DEF Entered
  <2>6. \A p \in Plans : plan[p] \in PastEntry => plan'[p] \in PastEntry
    BY <2>2, <2>5
  <2>7. ASSUME NEW r \in OrderIds, order'[r].state \in Open
        PROVE  IF r[2] = Entry THEN plan'[PlanOf(r)] = "ENTRY_PENDING"
                               ELSE plan'[PlanOf(r)] \in PastEntry
    <3>1. r[1] \in Actions /\ action[r[1]].state # "ABSENT" /\ PlanOf(r) \in Plans
      <4>1. order[r].state # "ABSENT"
        BY <1>1, <2>7 DEF RowEffect, OtherRows, Cancellable, Open, StoreInv, TxGood
      <4>2. r[1] \in Actions /\ action[r[1]].state \in Submitted
        BY <4>1, Ids DEF LinkInv, OrderLinks
      <4> QED
        BY <1>1, <4>2 DEF Submitted, ActionsGood, PlanOf
    <3>2. CASE PlanOf(r) = P /\ r[2] # Entry
      BY <2>2, <2>5, <3>2
    <3>3. CASE PlanOf(r) = P /\ r[2] = Entry
      <4>1. order[r].state \in Open
        <5>1. ~IsProtection(r)
          BY <3>3, Ids DEF IsProtection, IsTakeProfit
        <5> QED
          BY <1>1, <1>3, <2>7, <3>3, <5>1 DEF RowEffect, OtherRows
      <4>2. plan[P] = "ENTRY_PENDING"
        BY <3>3, <4>1 DEF LifeInv, Stages, OrderStages, PlanOf
      <4>3. o[2] = Entry
        BY <2>5, <4>2
      <4>4. action[r[1]].kind = "OPEN_LONG" /\ action[o[1]].kind = "OPEN_LONG"
        BY <1>1, <1>3, <3>3, <4>1, <4>3 DEF LinkInv, OrderLinks, Open
      <4>5. r[1] = o[1]
        BY <1>1, <3>1, <3>3, <4>4 DEF LinkInv, ActionLinks, PlanOf
      <4>6. r = o
        BY <1>1, <3>3, <4>3, <4>5 DEF OrderIds
      <4> QED
        BY <2>3, <2>7, <4>3, <4>6
    <3>4. CASE PlanOf(r) # P
      <4>1. plan'[PlanOf(r)] = plan[PlanOf(r)] /\ r # o
        BY <2>2, <3>1, <3>4
      <4>2. order[r].state \in Open
        <5>1. SUFFICES ASSUME order[r].state \notin Open PROVE FALSE
          OBVIOUS
        <5>2. order[r].state = "STAGED" /\ order'[r].state = "ACTIVE"
          BY <1>1, <2>7, <4>1, <5>1 DEF RowEffect, OtherRows, Open
        <5> QED
          BY <1>1, <3>4, <4>1, <5>2 DEF RowMoves
      <4> QED
        BY <4>1, <4>2 DEF LifeInv, Stages, OrderStages, PlanOf
    <3> QED
      BY <3>2, <3>3, <3>4
  <2>8. OrderStages(plan', action', order')
    BY <1>2, <2>7, Ids DEF OrderStages, PlanOf
  <2>9. ActionStages(plan', action')
    <3>1. ASSUME NEW a \in Actions, action'[a].state = "VALIDATION_ACCEPTED"
          PROVE  action[a].state = "VALIDATION_ACCEPTED" /\ action[a].plan \in Plans
      <4>1. action[a].state = "VALIDATION_ACCEPTED"
        BY <1>1, <3>1 DEF RowMoves, RowEffect, ActionsKept, Submitted
      <4> QED
        BY <1>1, <4>1 DEF ActionsGood
    <3>2. \A p \in Plans :
            /\ plan[p] = "ENTRY_PENDING" => plan'[p] \in {"ENTRY_PENDING"} \cup PastEntry
            /\ plan[p] \in {"ACCEPTED"} \cup TerminalStates => plan'[p] = plan[p]
      BY <2>2, <2>3, <2>5 DEF Entered, NonTerminalStates, TerminalStates
    <3> QED
      BY <1>2, <2>6, <3>1, <3>2 DEF LifeInv, Stages, ActionStages
  <2>10. ObservedPlans'
    BY <1>1, <1>2, <1>3, <2>2, <2>5 DEF LifeInv, ObservedPlans
  <2> QED
    BY <1>1, <2>8, <2>9, <2>10 DEF LifeInv, Stages
<1> QED
  BY <1>5, <1>6

LEMMA CallLife ==
    ASSUME Commits, Stages(plan', action', order')
    PROVE  LifeInv' /\ saved'.plan = plan'
  BY DEF Commits, Committed, LifeInv, ObservedPlans

\* Committed plans move as the life cycle lets them, or not at all.
LifeStep == Lifecycle!Next \/ saved'.plan = saved.plan

\* Outside an observation the committed plans are the plans.
LEMMA PlansCommitted ==
    ASSUME StoreInv, ~tx.active
    PROVE  saved.plan = plan
  BY DEF StoreInv, Committed

LEMMA RecordLife ==
    ASSUME StoreInv, LinkInv, LifeInv, NEW a \in Actions, NEW k \in Kinds, NEW p \in Plans,
           NEW q \in Quantities, NEW stop \in BOOLEAN, NEW t \in TargetSets,
           RecordPlan(a, k, p, q, stop, t)
    PROVE  LifeInv' /\ LifeStep
<1>1. /\ Commits /\ ~tx.active /\ action[a].state = "ABSENT" /\ order' = order
      /\ action' = [action EXCEPT ![a] = [state |-> "RECORDED", kind |-> k, plan |-> p,
                                          quantity |-> q, stop |-> stop, targets |-> t]]
  BY DEF RecordPlan, Call, NewAction
<1>2. ActionsGood(action) /\ PlansGood(plan) /\ OrdersGood(action, order)
  BY TablesGood
<1>3. /\ \A b \in Actions \ {a} : action'[b] = action[b]
      /\ action'[a].state = "RECORDED"
  BY <1>1, <1>2 DEF ActionsGood
<1>4. \/ plan' = plan
      \/ /\ plan[p] = "ABSENT"
         /\ plan' = [plan EXCEPT ![p] = IF k = "OPEN_LONG" THEN "PROPOSED" ELSE "CLOSED"]
         /\ k = "OPEN_LONG" => MayOpen(p)
  BY DEF RecordPlan, NewPlan
<1>5. \A b \in Actions : action[b].state # "ABSENT" =>
         plan'[action[b].plan] = plan[action[b].plan]
  BY <1>2, <1>4 DEF LinkInv, ActionLinks, PlansGood, ActionsGood
<1>6. \A o \in OrderIds : order[o].state \in Open =>
         o[1] \in Actions \ {a} /\ action[o[1]].state # "ABSENT"
  BY <1>1, <1>2, Ids DEF OrdersGood, Open
<1>7. OrderStages(plan', action', order')
  BY <1>1, <1>3, <1>5, <1>6 DEF LifeInv, Stages, OrderStages
<1>8. ActionStages(plan', action')
  BY <1>3, <1>5 DEF LifeInv, Stages, ActionStages
<1>9. LifeInv' /\ saved'.plan = plan' /\ saved.plan = plan
  BY <1>1, <1>7, <1>8, CallLife, PlansCommitted DEF Stages
<1>10. CASE plan' # plan
  <2>1. CASE k = "OPEN_LONG"
    <3>1. \A r \in Plans : InstrumentOf[r] = InstrumentOf[p] => ~Lifecycle!UnderWay(r)
      BY <1>4, <1>9, <1>10, <2>1 DEF MayOpen, SameInstrument, PlanLive, NonTerminalStates,
             Lifecycle!UnderWay, Lifecycle!Traded, Lifecycle!Entered
    <3>2. Lifecycle!Propose(p)
      BY <1>4, <1>9, <1>10, <2>1, <3>1 DEF Lifecycle!Propose, Lifecycle!Goes
    <3> QED
      BY <1>9, <3>2 DEF LifeStep, Lifecycle!Next
  <2>2. CASE k # "OPEN_LONG"
    <3>1. Lifecycle!Decline(p)
      BY <1>4, <1>9, <1>10, <2>2 DEF Lifecycle!Decline, Lifecycle!Goes
    <3> QED
      BY <1>9, <3>1 DEF LifeStep, Lifecycle!Next
  <2> QED
    BY <2>1, <2>2
<1> QED
  BY <1>9, <1>10 DEF LifeStep

LEMMA ValidationLife ==
    ASSUME StoreInv, LinkInv, LifeInv, NEW a \in Actions, NEW accept \in BOOLEAN,
           PersistValidation(a, Facts, accept)
    PROVE  LifeInv' /\ LifeStep
<1> DEFINE P == action[a].plan
<1>1. /\ Commits /\ ~tx.active /\ action[a].state = "RECORDED" /\ order' = order
      /\ action' = [action EXCEPT ![a].state = IF accept THEN "VALIDATION_ACCEPTED"
                                                         ELSE "VALIDATION_REJECTED"]
      /\ accept => Acceptable(a, Facts)
  BY DEF PersistValidation, Call
<1>2. ActionsGood(action) /\ PlansGood(plan) /\ OrdersGood(action, order) /\ P \in Plans
  <2>1. ActionsGood(action) /\ PlansGood(plan) /\ OrdersGood(action, order)
    BY TablesGood
  <2> QED
    BY <1>1, <2>1 DEF ActionsGood
<1>3. /\ \A b \in Actions : action'[b].kind = action[b].kind /\ action'[b].plan = action[b].plan
      /\ \A b \in Actions \ {a} : action'[b] = action[b]
      /\ action'[a].state = "VALIDATION_ACCEPTED" => accept
  BY <1>1, <1>2 DEF ActionsGood, ActionType
<1>4. \/ plan' = plan /\ action[a].kind # "OPEN_LONG"
      \/ /\ plan[P] = "PROPOSED" /\ action[a].kind = "OPEN_LONG"
         /\ plan' = [plan EXCEPT ![P] = IF accept THEN "ACCEPTED" ELSE "REJECTED"]
  BY DEF PersistValidation
<1>5. \A p \in Plans : plan[p] # "PROPOSED" => plan'[p] = plan[p]
  BY <1>2, <1>4 DEF PlansGood
<1>6. OrderStages(plan', action', order')
  <2>1. ASSUME NEW o \in OrderIds, order[o].state \in Open
        PROVE  /\ o[1] \in Actions /\ action'[o[1]].plan = PlanOf(o)
               /\ plan'[PlanOf(o)] = plan[PlanOf(o)]
    <3>1. o[1] \in Actions /\ PlanOf(o) \in Plans /\ action'[o[1]].plan = PlanOf(o)
      BY <1>2, <1>3, <2>1, Ids DEF OrdersGood, ActionsGood, Open, PlanOf
    <3>2. plan[PlanOf(o)] \in {"ENTRY_PENDING"} \cup PastEntry
      BY <2>1 DEF LifeInv, Stages, OrderStages, PlanOf
    <3> QED
      BY <1>5, <3>1, <3>2 DEF PastEntry, Entered, TerminalStates
  <2> QED
    BY <1>1, <2>1 DEF LifeInv, Stages, OrderStages, PlanOf
<1>7. ASSUME NEW b \in Actions \ {a}, action'[b].state = "VALIDATION_ACCEPTED",
             action[b].kind \in {"OPEN_LONG", "CANCEL_ENTRY", "MODIFY_PROTECTION", "REDUCE",
                                 "EXIT"}
      PROVE  action'[b] = action[b] /\ plan'[action[b].plan] = plan[action[b].plan]
  <2>1. action'[b] = action[b] /\ action[b].plan \in Plans
    BY <1>2, <1>3, <1>7 DEF ActionsGood
  <2>2. plan[action[b].plan] # "PROPOSED"
    BY <1>7, <2>1 DEF LifeInv, Stages, ActionStages, PastEntry, Entered, TerminalStates
  <2> QED
    BY <1>5, <2>1, <2>2
\* What the rules of the validator say of the plan's stage.
<1>8. ASSUME accept
      PROVE  /\ action[a].kind = "OPEN_LONG" => plan'[P] = "ACCEPTED"
             /\ action[a].kind = "CANCEL_ENTRY" => plan'[P] = "ENTRY_PENDING"
             /\ action[a].kind \in {"MODIFY_PROTECTION", "REDUCE", "EXIT"}
                   => plan'[P] \in PastEntry
  <2>1. Facts.plan = plan
    BY DEF Facts
  <2>2. CASE action[a].kind = "OPEN_LONG"
    BY <1>2, <1>4, <1>8, <2>2 DEF PlansGood
  <2>3. CASE action[a].kind = "CANCEL_ENTRY"
    <3>1. /\ plan[P] \in {"ACCEPTED", "ENTRY_PENDING"}
          /\ <<InstrumentOf[P], TRUE>> \in Facts.working
      BY <1>1, <1>8, <2>1, <2>3 DEF Acceptable
    <3>2. PICK o \in WorkingOrders :
            <<InstrumentOf[P], TRUE>> = <<InstrumentOf[PlanOf(o)], o[2] = Entry>>
      BY <3>1 DEF Facts
    <3>3. /\ InstrumentOf[PlanOf(o)] = InstrumentOf[P] /\ o[2] = Entry
          /\ o \in OrderIds /\ order[o].state \in Open
      BY <3>2 DEF WorkingOrders
    <3>4. plan[PlanOf(o)] = "ENTRY_PENDING"
      BY <3>3 DEF LifeInv, Stages, OrderStages, PlanOf
    <3>5. PlanOf(o) \in Plans
      BY <1>2, <3>3, Ids DEF OrdersGood, ActionsGood, Open, PlanOf
    <3>6. PlanOf(o) = P
      BY <1>2, <3>1, <3>3, <3>4, <3>5 DEF PlansGood, SameInstrument, NonTerminalStates
    <3> QED
      BY <1>4, <2>3, <3>4, <3>6
  <2>4. CASE action[a].kind \in {"MODIFY_PROTECTION", "REDUCE", "EXIT"}
    <3>1. plan[P] \in {"ACTIVE", "RECOVERY_REQUIRED"}
      BY <1>1, <1>8, <2>1, <2>4 DEF Acceptable
    <3> QED
      BY <1>4, <2>4, <3>1 DEF PastEntry, Entered
  <2> QED
    BY <2>2, <2>3, <2>4
<1>9. ActionStages(plan', action')
  <2>1. SUFFICES ASSUME NEW b \in Actions, action'[b].state = "VALIDATION_ACCEPTED"
                 PROVE  /\ action[b].kind = "OPEN_LONG" =>
                              plan'[action[b].plan] \in {"ACCEPTED"} \cup TerminalStates
                        /\ action[b].kind = "CANCEL_ENTRY" =>
                              plan'[action[b].plan] \in {"ENTRY_PENDING"} \cup PastEntry
                        /\ action[b].kind \in {"MODIFY_PROTECTION", "REDUCE", "EXIT"}
                              => plan'[action[b].plan] \in PastEntry
    BY <1>3 DEF ActionStages
  <2>2. CASE b = a
    BY <1>3, <1>8, <2>1, <2>2
  <2>3. CASE b # a
    BY <1>7, <2>1, <2>3 DEF LifeInv, Stages, ActionStages
  <2> QED
    BY <2>2, <2>3
<1>10. LifeInv' /\ saved'.plan = plan' /\ saved.plan = plan
  BY <1>1, <1>6, <1>9, CallLife, PlansCommitted DEF Stages
<1>11. plan' = plan \/ Lifecycle!Validate(P)
  BY <1>4, <1>10 DEF Lifecycle!Validate, Lifecycle!Goes
<1> QED
  BY <1>2, <1>10, <1>11 DEF LifeStep, Lifecycle!Next

\* What submitting a does to its plan.
LEMMA SubmitMoves ==
    ASSUME StoreInv, LinkInv, LifeInv, NEW a \in Actions, Submit(a)
    PROVE  LET p == action[a].plan
           IN  \/ /\ action[a].kind = "OPEN_LONG" /\ plan[p] = "ACCEPTED"
                  /\ plan' = [plan EXCEPT ![p] = "ENTRY_PENDING"]
               \/ /\ action[a].kind = "CANCEL_ENTRY" /\ plan[p] \in {"ENTRY_PENDING"} \cup Entered
                  /\ plan' = [plan EXCEPT ![p] = "CANCELLED"]
                  /\ order' = CancelRoles(order, EntriesOf(p))
               \/ /\ action[a].kind \in {"MODIFY_PROTECTION", "REDUCE"}
                  /\ plan[p] \in PastEntry /\ plan' = plan
               \/ /\ action[a].kind = "EXIT" /\ plan[p] \in Entered
                  /\ plan' = [plan EXCEPT ![p] = "EXIT_PENDING"]
<1>1. action[a].state = "VALIDATION_ACCEPTED"
  BY SubmitRowsOf
<1>2. /\ action[a].kind = "OPEN_LONG"
            => plan[action[a].plan] \in {"ACCEPTED"} \cup TerminalStates
      /\ action[a].kind = "CANCEL_ENTRY"
            => plan[action[a].plan] \in {"ENTRY_PENDING"} \cup PastEntry
      /\ action[a].kind \in {"MODIFY_PROTECTION", "REDUCE", "EXIT"}
            => plan[action[a].plan] \in PastEntry
  BY <1>1 DEF LifeInv, Stages, ActionStages
<1>3. PlanLive(action[a].plan) => plan[action[a].plan] \notin TerminalStates
  BY DEF PlanLive, NonTerminalStates, TerminalStates
<1>4. CASE SubmitOpenLong(a)
  BY <1>2, <1>3, <1>4 DEF SubmitOpenLong, Submits, PlanBecomes
<1>5. CASE SubmitCancelEntry(a)
  BY <1>2, <1>3, <1>5 DEF SubmitCancelEntry, Submits, PlanBecomes, PastEntry
<1>6. CASE SubmitModifyProtection(a) \/ SubmitReduce(a)
  BY <1>2, <1>6 DEF SubmitModifyProtection, SubmitReduce, Submits
<1>7. CASE SubmitExit(a)
  BY <1>2, <1>3, <1>7 DEF SubmitExit, Submits, PlanBecomes, PastEntry
<1> QED
  BY <1>4, <1>5, <1>6, <1>7 DEF Submit

LEMMA SubmitLife ==
    ASSUME StoreInv, LinkInv, LifeInv, NEW a \in Actions, Submit(a)
    PROVE  LifeInv' /\ LifeStep
<1> DEFINE P == action[a].plan
           OpensLong == /\ action[a].kind = "OPEN_LONG" /\ plan[P] = "ACCEPTED"
                        /\ plan' = [plan EXCEPT ![P] = "ENTRY_PENDING"]
           CancelsEntry == /\ action[a].kind = "CANCEL_ENTRY"
                           /\ plan[P] \in {"ENTRY_PENDING"} \cup Entered
                           /\ plan' = [plan EXCEPT ![P] = "CANCELLED"]
                           /\ order' = CancelRoles(order, EntriesOf(P))
           Manages == /\ action[a].kind \in {"MODIFY_PROTECTION", "REDUCE"}
                      /\ plan[P] \in PastEntry /\ plan' = plan
           Exits == /\ action[a].kind = "EXIT" /\ plan[P] \in Entered
                    /\ plan' = [plan EXCEPT ![P] = "EXIT_PENDING"]
<1>1. /\ SubmitRows(a) /\ action[a].state = "VALIDATION_ACCEPTED"
      /\ \E st \in Submitted : ActionBecomes(a, st)
      /\ ActionsGood(action) /\ PlansGood(plan) /\ OrdersGood(action, order)
  BY SubmitRowsOf, TablesGood
<1>2. P \in Plans /\ Commits /\ ~tx.active
  <2>1. P \in Plans
    BY <1>1 DEF ActionsGood
  <2> QED
    BY <2>1 DEF Submit, Submits, SubmitOpenLong, SubmitCancelEntry, SubmitModifyProtection,
                SubmitReduce, SubmitExit, Call
<1>3. OpensLong \/ CancelsEntry \/ Manages \/ Exits
  BY SubmitMoves
<1>4. /\ \A b \in Actions : action'[b].kind = action[b].kind /\ action'[b].plan = action[b].plan
      /\ \A b \in Actions \ {a} : action'[b] = action[b]
      /\ action'[a].state # "VALIDATION_ACCEPTED"
  BY <1>1 DEF ActionBecomes, ActionsGood, ActionType, Submitted
<1>5. /\ \A p \in Plans \ {P} : plan'[p] = plan[p]
      /\ plan[P] \in PastEntry => plan'[P] \in PastEntry
      /\ OpensLong => plan'[P] = "ENTRY_PENDING"
      /\ ~OpensLong => plan'[P] \in PastEntry
  BY <1>1, <1>2, <1>3 DEF PlansGood, PastEntry, Entered, TerminalStates
<1>6. OrderStages(plan', action', order')
  <2>1. SUFFICES ASSUME NEW o \in OrderIds, order'[o].state \in Open
                 PROVE  IF o[2] = Entry THEN plan'[PlanOf(o)] = "ENTRY_PENDING"
                                        ELSE plan'[PlanOf(o)] \in PastEntry
    BY <1>4, Ids DEF OrderStages, PlanOf
  <2>2. CASE o[1] = a
    <3>1. PlanOf(o) = P
      BY <2>2 DEF PlanOf
    <3>2. o[2] = Entry => OpensLong
      BY <1>1, <1>3, <2>1, <2>2 DEF SubmitRows, Open
    <3>3. o[2] # Entry => ~OpensLong
      BY <1>1, <2>1, <2>2 DEF SubmitRows, Open
    <3> HIDE DEF OpensLong, P
    <3> QED
      BY <1>5, <3>1, <3>2, <3>3
  <2>3. CASE o[1] # a
    <3>1. order'[o] = order[o] /\ order[o].state \in Open
      BY <1>1, <2>1, <2>3 DEF SubmitRows, Open
    <3>2. PlanOf(o) \in Plans
      BY <1>1, <3>1, Ids DEF OrdersGood, ActionsGood, Open, PlanOf
    <3>3. IF o[2] = Entry THEN plan[PlanOf(o)] = "ENTRY_PENDING"
                          ELSE plan[PlanOf(o)] \in PastEntry
      BY <3>1 DEF LifeInv, Stages, OrderStages, PlanOf
    <3>4. CASE PlanOf(o) # P \/ o[2] # Entry
      BY <1>5, <3>2, <3>3, <3>4
    <3>5. CASE PlanOf(o) = P /\ o[2] = Entry
      <4>1. CancelsEntry
        BY <1>3, <3>3, <3>5 DEF PastEntry, Entered, TerminalStates
      <4>2. order'[o].state = "CANCELLED"
        <5>1. o \in EntriesOf(P) /\ order[o].state \in Cancellable /\ order[o] \in OrderType
          BY <1>1, <3>1, <3>5 DEF EntriesOf, Cancellable, OrdersGood
        <5> QED
          BY <4>1, <5>1 DEF CancelRoles, OrderType
      <4> QED
        BY <2>1, <4>2 DEF Open
    <3> QED
      BY <3>4, <3>5
  <2> QED
    BY <2>2, <2>3
<1>7. ActionStages(plan', action')
  <2>1. SUFFICES ASSUME NEW b \in Actions, action'[b].state = "VALIDATION_ACCEPTED"
                 PROVE  /\ action[b].kind = "OPEN_LONG" =>
                              plan'[action[b].plan] \in {"ACCEPTED"} \cup TerminalStates
                        /\ action[b].kind = "CANCEL_ENTRY" =>
                              plan'[action[b].plan] \in {"ENTRY_PENDING"} \cup PastEntry
                        /\ action[b].kind \in {"MODIFY_PROTECTION", "REDUCE", "EXIT"}
                              => plan'[action[b].plan] \in PastEntry
    BY <1>4 DEF ActionStages
  <2>2. b # a /\ action[b].state = "VALIDATION_ACCEPTED" /\ action[b].plan \in Plans
    BY <1>1, <1>4, <2>1 DEF ActionsGood
  <2>3. /\ action[b].kind = "OPEN_LONG" =>
              plan[action[b].plan] \in {"ACCEPTED"} \cup TerminalStates
        /\ action[b].kind = "CANCEL_ENTRY" =>
              plan[action[b].plan] \in {"ENTRY_PENDING"} \cup PastEntry
        /\ action[b].kind \in {"MODIFY_PROTECTION", "REDUCE", "EXIT"}
              => plan[action[b].plan] \in PastEntry
    BY <2>2 DEF LifeInv, Stages, ActionStages
  <2>4. CASE action[b].plan # P
    BY <1>5, <2>2, <2>3, <2>4
  <2>5. CASE action[b].plan = P
    <3>1. action[b].kind = "OPEN_LONG" => action[a].kind # "OPEN_LONG"
      BY <1>1, <2>2, <2>5 DEF LinkInv, ActionLinks
    <3>2. CASE OpensLong
      BY <2>3, <2>5, <3>1, <3>2 DEF PastEntry, Entered, TerminalStates
    <3>3. CASE CancelsEntry
      <4>1. plan'[P] = "CANCELLED"
        BY <1>1, <1>2, <3>3 DEF PlansGood
      <4> QED
        BY <2>5, <4>1 DEF PastEntry, TerminalStates
    <3>4. CASE Manages
      BY <2>3, <2>5, <3>4
    <3>5. CASE Exits
      BY <1>5, <2>3, <2>5, <3>5 DEF Entered, TerminalStates
    <3> QED
      BY <1>3, <3>2, <3>3, <3>4, <3>5
  <2> QED
    BY <2>4, <2>5
<1>8. LifeInv' /\ saved'.plan = plan' /\ saved.plan = plan
  BY <1>2, <1>6, <1>7, CallLife, PlansCommitted DEF Stages
<1>9. \/ Lifecycle!PlaceEntry(P) \/ Lifecycle!Cancel(P) \/ Lifecycle!Exit(P)
      \/ plan' = plan
  BY <1>3, <1>8 DEF Lifecycle!PlaceEntry, Lifecycle!Cancel, Lifecycle!Exit, Lifecycle!Goes,
     Lifecycle!Traded, Lifecycle!Entered, Entered
<1> QED
  BY <1>2, <1>8, <1>9 DEF LifeStep, Lifecycle!Next

\* One observation moves one plan at most: a plan it moves was under way when it
\* began, and on the instrument it is about.
LEMMA CommitLife ==
    ASSUME StoreInv, LifeInv, CommitObservation
    PROVE  LifeInv' /\ LifeStep
<1>1. Commits /\ plan' = plan /\ action' = action /\ order' = order
  BY DEF CommitObservation, rows
<1>2. LifeInv' /\ saved'.plan = plan
  BY <1>1, CallLife DEF LifeInv
<1>3. CASE plan # saved.plan
  <2>1. /\ plan \in [Plans -> PlanStates] /\ saved.plan \in [Plans -> PlanStates]
        /\ PlansGood(saved.plan)
    BY TablesGood DEF StoreInv, Good, PlansGood
  <2>2. PICK p \in Plans : plan[p] # saved.plan[p]
    BY <1>3, <2>1
  <2>3. \A q \in Plans : plan[q] # saved.plan[q] =>
            /\ InstrumentOf[q] = tx.instrument /\ Observed(saved.plan[q], plan[q])
            /\ saved.plan[q] \in NonTerminalStates
    BY DEF LifeInv, ObservedPlans, Observed, Entered, NonTerminalStates
  <2>4. \A q \in Plans \ {p} : plan[q] = saved.plan[q]
    BY <2>1, <2>2, <2>3 DEF PlansGood, SameInstrument
  <2>5. plan = [saved.plan EXCEPT ![p] = plan[p]]
    BY <2>1, <2>4
  <2>6. \/ Lifecycle!Enter(p) \/ Lifecycle!Cancel(p) \/ Lifecycle!Recover(p)
        \/ Lifecycle!Close(p)
    BY <1>2, <2>2, <2>3, <2>5 DEF Observed, Entered, Lifecycle!Enter, Lifecycle!Cancel,
       Lifecycle!Recover, Lifecycle!Close, Lifecycle!Goes, Lifecycle!Traded,
       Lifecycle!Entered
  <2> QED
    BY <1>2, <2>6 DEF LifeStep, Lifecycle!Next
<1> QED
  BY <1>2, <1>3 DEF LifeStep

LEMMA LifeSteps ==
    ASSUME StoreInv, LinkInv, LifeInv, [Next]_vars
    PROVE  LifeInv' /\ LifeStep
<1>1. ASSUME NEW a \in Actions, Record(a) PROVE LifeInv' /\ LifeStep
  BY <1>1, RecordLife DEF Record
<1>2. ASSUME NEW a \in Actions, NEW accept \in BOOLEAN, PersistValidation(a, Facts, accept)
      PROVE  LifeInv' /\ LifeStep
  BY <1>2, ValidationLife
<1>3. ASSUME NEW a \in Actions, Submit(a) PROVE LifeInv' /\ LifeStep
  BY <1>3, SubmitLife
<1>4. ASSUME NEW o \in tx.todo, ProcessRow(o) PROVE LifeInv' /\ LifeStep
  BY <1>4, RowLife, RowSteps DEF RowEffect, LifeStep
<1>5. ASSUME NEW i \in Instruments, NEW l \in 1..MaxLiquidity, BeginObservation(i, l)
      PROVE  LifeInv' /\ LifeStep
  <2>1. /\ plan' = plan /\ action' = action /\ order' = order /\ saved' = saved
        /\ saved.plan = plan
    BY <1>5, PlansCommitted DEF BeginObservation, rows
  <2> QED
    BY <2>1 DEF LifeInv, ObservedPlans, LifeStep
<1>6. CASE AbortObservation
  <2>1. /\ plan' = saved.plan /\ action' = saved.action /\ order' = saved.order
        /\ saved' = saved
    BY <1>6 DEF AbortObservation
  <2> QED
    BY <2>1 DEF LifeInv, ObservedPlans, LifeStep
<1>7. CASE UNCHANGED vars
  BY <1>7 DEF vars, LifeInv, ObservedPlans, LifeStep
<1> QED
  BY <1>1, <1>2, <1>3, <1>4, <1>5, <1>6, <1>7, CommitLife DEF Next, Observation

\* Committed plans live as PlanLifecycle says: one plan of an instrument under way,
\* one move at a time, never back behind the entry, and none of an ended plan,
\* however late a command is submitted or an order of the plan expires or fills.
THEOREM StoreKeepsLifecycle == Spec => KeepsLifecycle
<1>1. Init => LifeInv /\ Lifecycle!Init
  BY DEF Init, Committed, NoAction, NoOrder, Open, LifeInv, Stages, OrderStages, ActionStages,
     ObservedPlans, Lifecycle!Init
<1>2. StoreInv /\ LinkInv /\ LifeInv /\ [Next]_vars => LifeInv'
  BY LifeSteps
<1>3. StoreInv /\ LinkInv /\ LifeInv /\ [Next]_vars => [Lifecycle!Next]_(saved.plan)
  BY LifeSteps DEF LifeStep
<1> QED
  BY <1>1, <1>2, <1>3, LinkInvariant, PTL DEF Spec, KeepsLifecycle, Lifecycle!Spec

-----------------------------------------------------------------------------
(* What the entries bought is what was sold and what the lots hold.  `extra` *)
(* is what others sold of the lots, per instrument: the emergencies.         *)

Sales == Roles \ {Entry}

\* The fills of the orders of instrument i whose role is in S, 0 for the others.
Share(ac, ord, i, S) ==
    [o \in OrderIds |-> IF /\ ord[o].state # "ABSENT" /\ o[2] \in S
                           /\ InstrumentOf[ac[o[1]].plan] = i
                        THEN ord[o].filled ELSE 0]
FilledOf(ac, ord, i, S) == SumFunctionOnSet(Share(ac, ord, i, S), OrderIds)

Accounts(ac, ord, lts, extra) ==
    \A i \in Instruments :
        LotSum(lts, LotsOn(lts, i)) + FilledOf(ac, ord, i, Sales) + extra[i]
          = FilledOf(ac, ord, i, {Entry})

AccountsInv(extra) == /\ Accounts(action, order, lots, extra)
                      /\ Accounts(saved.action, saved.order, saved.lots, extra)

LEMMA FiniteOrders == IsFiniteSet(OrderIds)
<1>1. IsFiniteSet(Roles)
  <2>1. 3 + MaxTargets \in Int
    BY StoreAssumption
  <2> QED
    BY <2>1, FS_Interval DEF Roles
<1> QED
  BY <1>1, ActionsAssumption, FS_Product DEF OrderIds

LEMMA ShareTypes ==
    ASSUME NEW ac, NEW ord, OrdersGood(ac, ord), NEW i, NEW S
    PROVE  /\ \A o \in OrderIds : Share(ac, ord, i, S)[o] \in Nat
           /\ FilledOf(ac, ord, i, S) \in Nat
<1>1. \A o \in OrderIds : Share(ac, ord, i, S)[o] \in Nat
  BY DEF OrdersGood, OrderType, Share
<1> QED
  BY <1>1, FiniteOrders, SumNat DEF FilledOf

\* FilledBy sums over the orders there are.
LEMMA FilledByIs ==
    ASSUME OrdersGood(action, order), NEW i, NEW S
    PROVE  FilledBy(i, S) = FilledOf(action, order, i, S)
<1> DEFINE T == {o \in OrderIds : /\ order[o].state # "ABSENT" /\ o[2] \in S
                                  /\ InstrumentOf[PlanOf(o)] = i}
           f == [o \in OrderIds |-> order[o].filled]
           g == Share(action, order, i, S)
<1>1. T \in SUBSET OrderIds /\ IsFiniteSet(T)
  BY FiniteOrders, FS_Subset
<1>2. (\A o \in T : f[o] = g[o]) /\ (\A o \in OrderIds \ T : g[o] = 0)
  BY DEF Share, PlanOf
<1>3. \A o \in OrderIds : g[o] \in Int
  BY ShareTypes
<1>4. FilledBy(i, S) = SumFunctionOnSet(f, T)
  BY DEF FilledBy
<1> HIDE DEF T, f, g
<1>5. SumFunctionOnSet(f, T) = SumFunctionOnSet(g, T)
  BY <1>1, <1>2, SumSame
<1>6. SumFunctionOnSet(g, OrderIds) = SumFunctionOnSet(g, T)
  BY <1>1, <1>2, <1>3, FiniteOrders, SumZeroes
<1> QED
  BY <1>4, <1>5, <1>6 DEF FilledOf, g

\* A call places orders that filled nothing.
LEMMA CallFills ==
    ASSUME CallEffect, NEW i, NEW S
    PROVE  FilledOf(action', order', i, S) = FilledOf(action, order, i, S)
<1>1. \A o \in OrderIds : Share(action', order', i, S)[o] = Share(action, order, i, S)[o]
  BY DEF CallEffect, Share
<1> DEFINE f == Share(action', order', i, S)
           g == Share(action, order, i, S)
<1>2. \A o \in OrderIds : f[o] = g[o]
  BY <1>1
<1> HIDE DEF f, g
<1>3. SumFunctionOnSet(f, OrderIds) = SumFunctionOnSet(g, OrderIds)
  BY <1>2, FiniteOrders, SumSame
<1> QED
  BY <1>3 DEF FilledOf, f, g

\* A row fills its own order, of the instrument observed, and no other.
LEMMA RowFills ==
    ASSUME StoreInv, LinkInv, tx.active, NEW o \in tx.todo, RowEffect(o), StoreInv',
           NEW n \in Nat, order'[o].filled = order[o].filled + n, NEW i, NEW S
    PROVE  FilledOf(action', order', i, S)
             = FilledOf(action, order, i, S)
                 + (IF o[2] \in S /\ tx.instrument = i THEN n ELSE 0)
<1> DEFINE f == Share(action, order, i, S)
           g == Share(action', order', i, S)
           d == IF o[2] \in S /\ tx.instrument = i THEN n ELSE 0
<1>1. o \in OrderIds /\ order[o].state # "ABSENT" /\ order'[o].state # "ABSENT"
      /\ InstrumentOf[action[o[1]].plan] = tx.instrument
  BY RowFacts DEF RowEffect, LinkInv, TxLinked, PlanOf
<1>2. OrdersGood(action, order) /\ OrdersGood(action', order')
  BY TablesGood, GoodCommittedNext DEF StoreInv, Good, Committed, OrdersGood
<1>3. ASSUME NEW r \in OrderIds, order[r].state # "ABSENT"
      PROVE  action'[r[1]].plan = action[r[1]].plan
  BY <1>2, <1>3, Ids DEF OrdersGood, RowEffect, ActionsKept
<1>4. ASSUME NEW r \in OrderIds, r # o
      PROVE  /\ order'[r].state = "ABSENT" <=> order[r].state = "ABSENT"
             /\ order'[r].filled = order[r].filled
  BY <1>4 DEF RowEffect, OtherRows, Cancellable, Open
<1>5. \A r \in OrderIds \ {o} : g[r] = f[r]
  BY <1>3, <1>4 DEF Share
<1>6. g[o] = f[o] + d
  <2>1. order[o].filled \in Nat
    BY <1>1, <1>2 DEF OrdersGood, OrderType
  <2>2. action'[o[1]].plan = action[o[1]].plan
    BY <1>1, <1>3
  <2>3. CASE o[2] \in S /\ tx.instrument = i
    BY <1>1, <2>2, <2>3 DEF Share
  <2>4. CASE ~(o[2] \in S /\ tx.instrument = i)
    BY <1>1, <2>2, <2>4 DEF Share
  <2> QED
    BY <2>3, <2>4
<1>7. \A r \in OrderIds : f[r] \in Int /\ g[r] \in Int
  <2>1. \A r \in OrderIds : f[r] \in Nat
    BY <1>2, ShareTypes
  <2>2. \A r \in OrderIds : g[r] \in Nat
    BY <1>2, ShareTypes
  <2> QED
    BY <2>1, <2>2
<1>8. d \in Int
  OBVIOUS
<1> HIDE DEF f, g, d
<1>9. SumFunctionOnSet(g, OrderIds) = SumFunctionOnSet(f, OrderIds) - f[o] + g[o]
  BY <1>1, <1>5, <1>7, FiniteOrders, SumChange
<1>10. SumFunctionOnSet(f, OrderIds) \in Int /\ f[o] \in Int
  BY <1>1, <1>7, FiniteOrders, SumType
<1>11. SumFunctionOnSet(g, OrderIds) = SumFunctionOnSet(f, OrderIds) + d
  BY <1>6, <1>8, <1>9, <1>10
<1> QED
  BY <1>11 DEF FilledOf, f, g, d

\* A bought lot adds its quantity to what its instrument holds.
LEMMA AppendLot ==
    ASSUME LotsGood(lots), NEW l \in LotType, lots' = Append(lots, l), NEW i
    PROVE  LotSum(lots', LotsOn(lots', i))
             = LotSum(lots, LotsOn(lots, i))
                 + (IF InstrumentOf[l.plan] = i THEN l.quantity ELSE 0)
<1> DEFINE N == Len(lots)
           f == Held(lots)
           g == Held(lots')
           K == LotsOn(lots, i)
           L == LotsOn(lots', i)
<1>1. LotsGood(lots')
  BY DEF LotsGood
<1>2. /\ N \in Nat /\ DOMAIN lots = 1..N /\ DOMAIN lots' = 1..(N + 1)
      /\ lots'[N + 1] = l /\ \A k \in 1..N : lots'[k] = lots[k]
  BY DEF LotsGood
<1>3. /\ K \in SUBSET DOMAIN lots /\ L \in SUBSET DOMAIN lots'
      /\ N + 1 \notin K /\ K \in SUBSET DOMAIN lots'
  BY <1>2 DEF LotsOn
<1>4. /\ IsFiniteSet(K) /\ LotSum(lots, K) = SumFunctionOnSet(f, K)
      /\ LotSum(lots, K) \in Nat
  BY <1>3, HeldTypes
<1>5. LotSum(lots', L) = SumFunctionOnSet(g, L)
  BY <1>1, <1>3, HeldTypes
<1>6. \A k \in DOMAIN lots' : g[k] \in Int /\ g[k] = lots'[k].quantity
  <2> HIDE DEF g
  <2>1. \A k \in DOMAIN lots' : g[k] = lots'[k].quantity
    BY DEF g, Held
  <2>2. \A k \in DOMAIN lots' : lots'[k].quantity \in Int
    <3>1. \A k \in 1..N : lots[k] \in LotType
      BY <1>2 DEF LotsGood
    <3>2. \A k \in DOMAIN lots' : lots'[k] \in LotType
      BY <1>2, <3>1
    <3> QED
      BY <3>2 DEF LotType
  <2> QED
    BY <2>1, <2>2
<1>7. \A k \in DOMAIN lots : f[k] = lots[k].quantity
  BY HeldTypes
<1>8. \A k \in K : g[k] = f[k]
  BY <1>2, <1>3, <1>6, <1>7
<1>9. g[N + 1] = l.quantity
  BY <1>2, <1>6
<1>10. L = IF InstrumentOf[l.plan] = i THEN K \cup {N + 1} ELSE K
  BY <1>2 DEF LotsOn
<1>11. \A k \in K \cup {N + 1} : g[k] \in Int
  BY <1>2, <1>3, <1>6
<1> HIDE DEF f, g, K, L, N
<1>12. SumFunctionOnSet(g, K) = SumFunctionOnSet(f, K)
  BY <1>4, <1>8, SumSame
<1>13. SumFunctionOnSet(g, K \cup {N + 1}) = SumFunctionOnSet(g, K) + g[N + 1]
  BY <1>3, <1>4, <1>11, SumAdd
<1>14. LotSum(lots', L) = LotSum(lots, K)
                             + (IF InstrumentOf[l.plan] = i THEN l.quantity ELSE 0)
  BY <1>4, <1>5, <1>9, <1>10, <1>12, <1>13
<1> QED
  BY <1>14 DEF K, L

\* A sale leaves the lots it is not given alone.
LEMMA ConsumeLeaves ==
    ASSUME LotsGood(lots), NEW K, NEW q, NEW L \in SUBSET DOMAIN lots, K \cap L = {}
    PROVE  LotSum(Consume(K, q), L) = LotSum(lots, L)
<1> DEFINE new == Consume(K, q)
           f == Held(lots)
           g == Held(new)
<1>1. LotsGood(new) /\ DOMAIN new = DOMAIN lots
  BY ConsumeGood DEF Consume
<1>2. \A k \in L : new[k] = lots[k]
  BY DEF Consume
<1> HIDE DEF new
<1>3. /\ IsFiniteSet(L) /\ LotSum(lots, L) = SumFunctionOnSet(f, L)
      /\ LotSum(new, L) = SumFunctionOnSet(g, L)
  BY <1>1, HeldTypes
<1>4. \A k \in L : f[k] = lots[k].quantity /\ g[k] = new[k].quantity
  BY <1>1, HeldTypes
<1>5. \A k \in L : g[k] = f[k]
  BY <1>2, <1>4
<1> HIDE DEF f, g
<1>6. SumFunctionOnSet(g, L) = SumFunctionOnSet(f, L)
  BY <1>3, <1>5, SumSame
<1> QED
  BY <1>3, <1>6 DEF new

\* A sell order never fills more than the instrument holds.
LEMMA SellsWhatIsHeld ==
    ASSUME StoreInv, NEW o \in tx.todo, Fills(o), o[2] # Entry
    PROVE  /\ Managed(tx.instrument) \in Nat /\ Quantity(o) \in Nat
           /\ Quantity(o) <= Managed(tx.instrument)
           /\ LotsOn(lots, tx.instrument) \in SUBSET DOMAIN lots
<1>1. tx.active /\ tx.liquidity \in Nat /\ Quantity(o) \in Nat
  BY QuantityBounds DEF Fills, Matchable, Considered, AtRow
<1>2. LotsOn(lots, tx.instrument) \in SUBSET DOMAIN lots
  BY DEF LotsOn
<1>3. Managed(tx.instrument) \in Nat
  BY <1>2, HeldTypes, TablesGood DEF Managed
<1>4. Remaining(o) \in Nat /\ Remaining(o) <= Managed(tx.instrument)
  <2>1. CASE o[2] = ProtectiveStop
    <3>1. Remaining(o) = Managed(tx.instrument)
      BY <2>1, Ids DEF Remaining
    <3> QED
      BY <1>3, <3>1
  <2>2. CASE o[2] # ProtectiveStop
    <3>1. Unfilled(o) \in Nat
      <4>1. /\ order[o].quantity \in Nat /\ order[o].filled \in Nat
            /\ order[o].filled <= order[o].quantity
        BY <1>1, <2>2, RowFacts, TablesGood, StoreAssumption
           DEF OrdersGood, OrderType, Quantities
      <4> QED
        BY <4>1 DEF Unfilled
    <3>2. Remaining(o) = Capped(Unfilled(o), Managed(tx.instrument))
      BY <2>2 DEF Remaining
    <3> QED
      BY <1>3, <3>1, <3>2 DEF Capped
  <2> QED
    BY <2>1, <2>2
<1>5. Quantity(o) <= Managed(tx.instrument)
  BY <1>1, <1>3, <1>4 DEF Quantity, Capped
<1> QED
  BY <1>1, <1>2, <1>3, <1>5

LEMMA RowAccounts ==
    ASSUME StoreInv, LinkInv, NEW o \in tx.todo, ProcessRow(o), StoreInv',
           NEW extra, \A i \in Instruments : extra[i] \in Int,
           Accounts(action, order, lots, extra)
    PROVE  Accounts(action', order', lots', extra)
<1>1. /\ tx.active /\ RowEffect(o)
      /\ \/ NothingTraded(o)
         \/ Bought(o) /\ Fills(o)
         \/ Sold(o) /\ Fills(o)
  BY RowSteps
<1>2. /\ OrdersGood(action, order) /\ LotsGood(lots) /\ tx.instrument \in Instruments
      /\ o[2] \in Roles
  BY TablesGood DEF StoreInv, TxGood, OrderIds
<1>3. SUFFICES ASSUME NEW i \in Instruments
               PROVE  LotSum(lots', LotsOn(lots', i)) + FilledOf(action', order', i, Sales)
                        + extra[i] = FilledOf(action', order', i, {Entry})
  BY DEF Accounts
<1> DEFINE M == LotSum(lots, LotsOn(lots, i))
           M2 == LotSum(lots', LotsOn(lots', i))
           s == FilledOf(action, order, i, Sales)
           s2 == FilledOf(action', order', i, Sales)
           b == FilledOf(action, order, i, {Entry})
           b2 == FilledOf(action', order', i, {Entry})
<1>4. s \in Nat /\ b \in Nat
  BY <1>2, ShareTypes
<1>5. M \in Nat
  <2>1. LotsOn(lots, i) \in SUBSET DOMAIN lots
    BY DEF LotsOn
  <2> QED
    BY <1>2, <2>1, HeldTypes
<1>6. M + s + extra[i] = b /\ extra[i] \in Int
  BY DEF Accounts
<1>7. CASE NothingTraded(o)
  <2>1. order[o].filled \in Nat
    BY <1>1, RowFacts DEF OrderType
  <2>2. order'[o].filled = order[o].filled + 0 /\ lots' = lots /\ 0 \in Nat
    BY <1>7, <2>1 DEF NothingTraded
  <2>3. s2 = s + 0 /\ b2 = b + 0
    <3>1. s2 = s + (IF o[2] \in Sales /\ tx.instrument = i THEN 0 ELSE 0)
      BY <1>1, <2>2, RowFills
    <3>2. b2 = b + (IF o[2] \in {Entry} /\ tx.instrument = i THEN 0 ELSE 0)
      BY <1>1, <2>2, RowFills
    <3> QED
      BY <3>1, <3>2
  <2>4. M2 = M
    BY <2>2
  <2> HIDE DEF M, M2, s, s2, b, b2
  <2>5. M2 + s2 + extra[i] = b2
    BY <1>4, <1>5, <1>6, <2>3, <2>4
  <2> QED
    BY <2>5 DEF M2, s2, b2
<1>8. CASE Bought(o) /\ Fills(o)
  <2> DEFINE n == Quantity(o)
             d == IF tx.instrument = i THEN n ELSE 0
  <2>1. n \in Nat /\ order'[o].filled = order[o].filled + n /\ o[2] = Entry
    BY <1>8, QuantityBounds DEF Bought
  <2>2. b2 = b + d
    <3>1. b2 = b + (IF o[2] \in {Entry} /\ tx.instrument = i THEN n ELSE 0)
      BY <1>1, <2>1, RowFills
    <3> QED
      BY <2>1, <3>1
  <2>3. s2 = s
    <3>1. s2 = s + (IF o[2] \in Sales /\ tx.instrument = i THEN n ELSE 0)
      BY <1>1, <2>1, RowFills
    <3>2. o[2] \notin Sales
      BY <2>1 DEF Sales
    <3> QED
      BY <1>4, <3>1, <3>2
  <2>4. M2 = M + d
    <3> DEFINE l == [plan |-> PlanOf(o), quantity |-> n]
    <3>1. l \in LotType /\ lots' = Append(lots, l)
      BY <1>1, <1>8, <2>1, RowFacts DEF Bought, LotType
    <3>2. M2 = M + (IF InstrumentOf[l.plan] = i THEN l.quantity ELSE 0)
      <4> HIDE DEF l
      <4> QED
        BY <1>2, <3>1, AppendLot
    <3>3. InstrumentOf[l.plan] = tx.instrument
      BY DEF LinkInv, TxLinked
    <3> QED
      BY <3>2, <3>3
  <2>5. d \in Nat
    BY <2>1
  <2> HIDE DEF M, M2, s, s2, b, b2, d
  <2>6. M2 + s2 + extra[i] = b2
    BY <1>4, <1>5, <1>6, <2>2, <2>3, <2>4, <2>5
  <2> QED
    BY <2>6 DEF M2, s2, b2
<1>9. CASE Sold(o) /\ Fills(o)
  <2> DEFINE n == Quantity(o)
             K == LotsOn(lots, tx.instrument)
             d == IF tx.instrument = i THEN n ELSE 0
  <2>1. /\ n \in Nat /\ order'[o].filled = order[o].filled + n /\ o[2] # Entry
        /\ lots' = Consume(K, n)
    BY <1>9, QuantityBounds DEF Sold
  <2>2. b2 = b
    <3>1. b2 = b + (IF o[2] \in {Entry} /\ tx.instrument = i THEN n ELSE 0)
      BY <1>1, <2>1, RowFills
    <3> QED
      BY <1>4, <2>1, <3>1
  <2>3. s2 = s + d
    <3>1. s2 = s + (IF o[2] \in Sales /\ tx.instrument = i THEN n ELSE 0)
      BY <1>1, <2>1, RowFills
    <3>2. o[2] \in Sales
      BY <1>2, <2>1 DEF Sales
    <3> QED
      BY <3>1, <3>2
  <2>4. M2 = M - d
    <3>1. n <= LotSum(lots, K) /\ K \in SUBSET DOMAIN lots
      BY <1>9, <2>1, SellsWhatIsHeld DEF Managed
    <3>2. LotsOn(lots', i) = LotsOn(lots, i)
      BY <2>1 DEF LotsOn, Consume
    <3>3. CASE tx.instrument = i
      <4>1. LotSum(Consume(K, n), K) = LotSum(lots, K) - n
        BY <1>2, <2>1, <3>1, ConsumeTakes
      <4> QED
        BY <2>1, <3>2, <3>3, <4>1
    <3>4. CASE tx.instrument # i
      <4>1. K \cap LotsOn(lots, i) = {} /\ LotsOn(lots, i) \in SUBSET DOMAIN lots
        BY <3>4 DEF LotsOn
      <4>2. LotSum(Consume(K, n), LotsOn(lots, i)) = LotSum(lots, LotsOn(lots, i))
        BY <1>2, <4>1, ConsumeLeaves
      <4> QED
        BY <1>5, <2>1, <3>2, <3>4, <4>2
    <3> QED
      BY <3>3, <3>4
  <2>5. d \in Nat
    BY <2>1
  <2> HIDE DEF M, M2, s, s2, b, b2, d
  <2>6. M2 + s2 + extra[i] = b2
    BY <1>4, <1>5, <1>6, <2>2, <2>3, <2>4, <2>5
  <2> QED
    BY <2>6 DEF M2, s2, b2
<1> QED
  BY <1>1, <1>7, <1>8, <1>9

LEMMA CallAccounts ==
    ASSUME CallEffect, lots' = lots, NEW extra, Accounts(action, order, lots, extra)
    PROVE  Accounts(action', order', lots', extra)
<1>1. \A i \in Instruments :
        /\ FilledOf(action', order', i, Sales) = FilledOf(action, order, i, Sales)
        /\ FilledOf(action', order', i, {Entry}) = FilledOf(action, order, i, {Entry})
  BY CallFills
<1> QED
  BY <1>1 DEF Accounts

\* The accounts of the transaction and of what is committed, over a step of the store.
LEMMA AccountsStep ==
    ASSUME StoreInv, LinkInv, [Next]_vars, StoreInv',
           NEW extra, \A i \in Instruments : extra[i] \in Int,
           AccountsInv(extra)
    PROVE  AccountsInv(extra)'
<1>1. SUFFICES /\ Accounts(action', order', lots', extra)
               /\ Accounts(saved'.action, saved'.order, saved'.lots, extra)
  BY DEF AccountsInv, Accounts, LotSum, LotsOn, FilledOf, Share
<1>2. CASE Call /\ CallEffect /\ Commits /\ lots' = lots
           /\ (Awaited(plan, action, order) => Awaited(plan', action', order'))
  <2>1. /\ saved'.action = action' /\ saved'.order = order' /\ saved'.lots = lots'
    BY <1>2 DEF Commits, Committed
  <2> QED
    BY <1>2, <2>1, CallAccounts DEF AccountsInv
<1>3. ASSUME NEW i \in Instruments, NEW l \in 1..MaxLiquidity, BeginObservation(i, l)
      PROVE  /\ Accounts(action', order', lots', extra)
             /\ Accounts(saved'.action, saved'.order, saved'.lots, extra)
  BY <1>3 DEF BeginObservation, rows, AccountsInv
<1>4. ASSUME NEW o \in tx.todo, ProcessRow(o)
      PROVE  /\ Accounts(action', order', lots', extra)
             /\ Accounts(saved'.action, saved'.order, saved'.lots, extra)
  <2>1. saved' = saved
    BY <1>4, RowSteps DEF RowEffect
  <2>2. Accounts(action', order', lots', extra)
    BY <1>4, RowAccounts DEF AccountsInv
  <2> QED
    BY <2>1, <2>2 DEF AccountsInv
<1>5. CASE CommitObservation
  <2>1. action' = action /\ order' = order /\ lots' = lots
    BY <1>5 DEF CommitObservation, rows
  <2> QED
    BY <1>5, <2>1, EndLinks DEF AccountsInv
<1>6. CASE AbortObservation
  <2>1. action' = saved.action /\ order' = saved.order /\ lots' = saved.lots
    BY <1>6 DEF AbortObservation
  <2> QED
    BY <1>6, <2>1, EndLinks DEF AccountsInv
<1>7. CASE UNCHANGED vars
  BY <1>7 DEF vars, AccountsInv
<1> QED
  BY <1>2, <1>3, <1>4, <1>5, <1>6, <1>7, StoreSteps

LEMMA AccountsInitially ==
    ASSUME Init, NEW extra, \A i \in Instruments : extra[i] = 0
    PROVE  AccountsInv(extra)
<1>1. OrdersGood(action, order) /\ LotsGood(lots)
  BY InitPreserves, TablesGood
<1>2. ASSUME NEW i \in Instruments, NEW S
      PROVE  FilledOf(action, order, i, S) = 0
  <2>1. \A o \in OrderIds : Share(action, order, i, S)[o] = 0
    BY DEF Init, Share, NoOrder
  <2> DEFINE f == Share(action, order, i, S)
  <2>2. \A o \in OrderIds : f[o] = 0 /\ f[o] \in Int
    BY <2>1
  <2> HIDE DEF f
  <2>3. {} \in SUBSET OrderIds /\ \A o \in OrderIds \ {} : f[o] = 0
    BY <2>2
  <2>4. SumFunctionOnSet(f, OrderIds) = SumFunctionOnSet(f, {})
    BY <2>2, <2>3, FiniteOrders, SumZeroes
  <2> QED
    BY <2>4, SumEmpty DEF FilledOf, f
<1>3. ASSUME NEW i \in Instruments
      PROVE  LotSum(lots, LotsOn(lots, i)) = 0
  <2>1. LotsOn(lots, i) = {}
    BY DEF Init, LotsOn
  <2> QED
    BY <2>1, SumEmpty DEF LotSum
<1>4. Accounts(action, order, lots, extra)
  BY <1>2, <1>3 DEF Accounts
<1> QED
  BY <1>4 DEF Init, AccountsInv, Committed

LEMMA AccountsAre ==
    ASSUME StoreInv, NEW extra, Accounts(action, order, lots, extra)
    PROVE  \A i \in Instruments :
              Managed(i) + FilledBy(i, Roles \ {Entry}) + extra[i] = FilledBy(i, {Entry})
  BY TablesGood, FilledByIs DEF Accounts, Managed, Sales

NothingExtra == [i \in Instruments |-> 0]

\* What the entries bought, minus what every sell order sold, is what the lots
\* hold: no fill is lost or counted twice, also when an observation is undone.
THEOREM LotsAddUp == Spec => []LotsAccountForFills
<1> DEFINE I == StoreInv /\ LinkInv /\ AccountsInv(NothingExtra)
<1>1. \A i \in Instruments : NothingExtra[i] = 0 /\ NothingExtra[i] \in Int
  BY DEF NothingExtra
<1>2. Init => I
  BY <1>1, InitPreserves, LinksInitially, AccountsInitially
<1>3. I /\ [Next]_vars => I'
  <2>1. ASSUME I, [Next]_vars PROVE AccountsInv(NothingExtra)'
    <3>1. PICK x : x = NothingExtra
      OBVIOUS
    <3>2. AccountsInv(x)'
      BY <1>1, <2>1, <3>1, StepPreserves, AccountsStep
    <3> QED
      BY <3>1, <3>2 DEF NothingExtra
  <2> QED
    BY <2>1, StepPreserves, StoreLinks
<1>4. I => LotsAccountForFills
  <2>1. SUFFICES ASSUME I, NEW i \in Instruments
                 PROVE  Managed(i) + FilledBy(i, Roles \ {Entry}) = FilledBy(i, {Entry})
    BY DEF LotsAccountForFills
  <2>2. Managed(i) + FilledBy(i, Roles \ {Entry}) + NothingExtra[i] = FilledBy(i, {Entry})
    BY <2>1, AccountsAre DEF AccountsInv
  <2>3. Managed(i) \in Nat /\ FilledBy(i, Roles \ {Entry}) \in Nat
    <3>1. LotsOn(lots, i) \in SUBSET DOMAIN lots
      BY DEF LotsOn
    <3> QED
      BY <2>1, <3>1, TablesGood, HeldTypes, FilledByIs, ShareTypes DEF Managed
  <2> QED
    BY <1>1, <2>1, <2>2, <2>3
<1> QED
  BY <1>2, <1>3, <1>4, PTL DEF Spec

-----------------------------------------------------------------------------
(* What an execution does to the orders and the actions *)

LEMMA ExecuteEffect ==
    ASSUME StoreInv, LinkInv, NEW e \in Emergencies, NEW obs, NEW q, Execute(e, obs, q)
    PROVE  CallEffect
<1>1. ActionsGood(action) /\ OrdersGood(action, order) /\ PlansGood(plan)
  BY TablesGood
<1>2. \A a \in Actions : \/ action'[a] = action[a]
                         \/ /\ action[a].state = "EXECUTION_PENDING"
                            /\ action'[a] = [action[a] EXCEPT !.state = "RECOVERY_REQUIRED"]
  BY DEF Execute, DisableEntry, StoppedAction
<1>3. ASSUME NEW a \in Actions
      PROVE  /\ action'[a].kind = action[a].kind /\ action'[a].plan = action[a].plan
             /\ action'[a].quantity = action[a].quantity
             /\ action'[a].state = "ABSENT" <=> action[a].state = "ABSENT"
             /\ action[a].state \in Submitted => action'[a].state \in Submitted
  <2>1. action[a] \in ActionType
    BY <1>1 DEF ActionsGood
  <2>2. CASE action'[a] = action[a]
    BY <2>2
  <2>3. CASE /\ action[a].state = "EXECUTION_PENDING"
             /\ action'[a] = [action[a] EXCEPT !.state = "RECOVERY_REQUIRED"]
    <3>1. /\ action'[a].kind = action[a].kind /\ action'[a].plan = action[a].plan
          /\ action'[a].quantity = action[a].quantity
          /\ action'[a].state = "RECOVERY_REQUIRED"
      BY <2>1, <2>3 DEF ActionType
    <3> QED
      BY <2>3, <3>1 DEF Submitted
  <2> QED
    BY <1>2, <2>2, <2>3
<1>4. ActionsKept /\ NoNewAction
  <2>1. NoNewAction
    BY <1>2 DEF NoNewAction
  <2> QED
    BY <1>3, <2>1 DEF ActionsKept
<1>5. PlansStay
  BY DEF Execute, PlansStay, RecoveringPlan
<1>6. \A o \in OrderIds : \/ order'[o] = order[o]
                          \/ /\ order[o].state \in Cancellable
                             /\ order'[o] = [order[o] EXCEPT !.state = "CANCELLED"]
  BY DEF Execute, DisableEntry, CancelAll, CancelRoles
<1>7. ASSUME NEW o \in OrderIds
      PROVE  /\ order'[o].state = "ABSENT" <=> order[o].state = "ABSENT"
             /\ order'[o].filled = order[o].filled /\ order'[o].quantity = order[o].quantity
             /\ order'[o].state \in Open => order'[o] = order[o]
             /\ order'[o] = order[o] \/ order'[o].state = "CANCELLED"
             /\ order[o].state \in Ended => order'[o] = order[o]
  BY <1>1, <1>6 DEF OrdersGood, OrderType, Cancellable, Open, Ended
<1>8. ActionLinks(plan', action')
  BY <1>1, <1>4, <1>5, ActionLinksKept DEF LinkInv
<1>9. OrderLinks(action', order')
  <2>1. OrderLinks(action', order)
    BY <1>4, OrderLinksKept DEF LinkInv
  <2> QED
    BY <1>7, <2>1 DEF OrderLinks
<1>10. Waiting(order')
  BY <1>7 DEF LinkInv, Waiting
<1>11. \A o \in OrderIds : order[o].state = "ABSENT" => order[o].filled = 0
  BY DEF LinkInv, OrderLinks
<1> QED
  BY <1>3, <1>7, <1>8, <1>9, <1>10, <1>11, Ids DEF CallEffect

LEMMA EmergencySteps ==
    ASSUME [EmergencyNext]_allVars
    PROVE  \/ [Next]_vars /\ UNCHANGED emergencyVars
           \/ \E c \in Changes : ChangeSystemState(c[1], c[2]) /\ UNCHANGED vars
           \/ \E e \in Emergencies, obs \in SUBSET Observations, q \in [Plans -> Quantities] :
                 Execute(e, obs, q)
<1>1. ASSUME NEW c \in Changes, ChangeSystemState(c[1], c[2])
      PROVE  UNCHANGED vars
  BY <1>1 DEF ChangeSystemState, Call, rows, vars
<1>2. CASE UNCHANGED allVars
  BY <1>2 DEF allVars, vars, emergencyVars
<1> QED
  BY <1>1, <1>2 DEF EmergencyNext

EmergencyLinks == EmergencyInv /\ LinkInv

LEMMA EmergencyLinksStep ==
    ASSUME EmergencyLinks, [EmergencyNext]_allVars
    PROVE  EmergencyLinks'
<1>1. EmergencyInv /\ StoreInv /\ LinkInv /\ EmergencyInv'
  BY EmergencyStep DEF EmergencyLinks, EmergencyInv
<1>2. CASE [Next]_vars
  BY <1>1, <1>2, StoreLinks DEF EmergencyLinks
<1>3. ASSUME NEW e \in Emergencies, NEW obs, NEW q, Execute(e, obs, q)
      PROVE  LinkInv'
  <2>1. Call /\ Commits
    BY <1>3 DEF Execute
  <2> QED
    BY <1>1, <1>3, <2>1, ExecuteEffect, CallLinks
<1> QED
  BY <1>1, <1>2, <1>3, EmergencySteps DEF EmergencyLinks

LEMMA EmergencyLinked == EmergencySpec => []EmergencyLinks
<1>1. EmergencyInit => EmergencyLinks
  BY EmergencyInitially, LinksInitially DEF EmergencyInit, EmergencyLinks
<1> QED
  BY <1>1, EmergencyLinksStep, PTL DEF EmergencySpec

\* Protections wait for their entry when emergencies come in between, too: while the entry of a
\* plan is working, none of the protections that came with it has sold anything.
THEOREM EmergencyKeepsProtectionsWaiting == EmergencySpec => []StagedUntilEntered
<1>1. EmergencyLinks => StagedUntilEntered
  BY DEF EmergencyLinks, LinkInv, Waiting, StagedUntilEntered
<1> QED
  BY <1>1, EmergencyLinked, PTL

\* No committed order that was cancelled, filled or expired is touched again, by
\* a call, an observation that is undone or an emergency.
THEOREM EndedOrdersStand == EmergencySpec => TerminalOrderIsFinal
<1>1. EmergencyLinks /\ [EmergencyNext]_allVars
      => [\A o \in OrderIds : saved.order[o].state \in {"CANCELLED", "FILLED", "EXPIRED"}
                              => saved'.order[o] = saved.order[o]]_allVars
  <2> SUFFICES ASSUME EmergencyLinks, [EmergencyNext]_allVars,
                      NEW o \in OrderIds, saved.order[o].state \in Ended
               PROVE  saved'.order[o] = saved.order[o]
    BY DEF Ended
  <2>1. StoreInv /\ LinkInv /\ order[o] = saved.order[o]
    BY DEF EmergencyLinks, EmergencyInv, LinkInv, EndedKept
  <2>2. ASSUME Call, CallEffect, Commits
        PROVE  saved'.order[o] = saved.order[o]
    BY <2>1, <2>2 DEF CallEffect, Commits, Committed
  <2>3. CASE [Next]_vars
    <3>1. ASSUME NEW i \in Instruments, NEW l \in 1..MaxLiquidity, BeginObservation(i, l)
          PROVE  saved' = saved
      BY <3>1 DEF BeginObservation
    <3>2. ASSUME NEW r \in tx.todo, ProcessRow(r)
          PROVE  saved' = saved
      BY <2>1, <3>2, RowSteps DEF RowEffect
    <3>3. ASSUME CommitObservation
          PROVE  saved'.order[o] = saved.order[o]
      BY <2>1, <3>3 DEF CommitObservation, rows, Commits, Committed
    <3>4. AbortObservation => saved' = saved
      BY DEF AbortObservation
    <3>5. UNCHANGED vars => saved' = saved
      BY DEF vars
    <3> QED
      BY <2>1, <2>2, <2>3, <3>1, <3>2, <3>3, <3>4, <3>5, StoreSteps
  <2>4. ASSUME NEW e \in Emergencies, NEW obs, NEW q, Execute(e, obs, q)
        PROVE  saved'.order[o] = saved.order[o]
    <3>1. Call /\ Commits
      BY <2>4 DEF Execute
    <3> QED
      BY <2>1, <2>2, <2>4, <3>1, ExecuteEffect
  <2>5. ASSUME UNCHANGED vars
        PROVE  saved' = saved
    BY <2>5 DEF vars
  <2> QED
    BY <2>3, <2>4, <2>5, EmergencySteps
<1> QED
  BY <1>1, EmergencyLinked, PTL DEF EmergencySpec, TerminalOrderIsFinal

-----------------------------------------------------------------------------
(* What an execution sells *)

PlansOn(i) == {p \in Plans : InstrumentOf[p] = i}
HeldBy(lts) == [p \in Plans |-> LotSum(lts, LotsOf(lts, p))]

\* The lots of an instrument are those of its plans.
LEMMA PlanSums ==
    ASSUME NEW lts, LotsGood(lts), NEW i
    PROVE  /\ IsFiniteSet(PlansOn(i))
           /\ LotSum(lts, LotsOn(lts, i)) = SumFunctionOnSet(HeldBy(lts), PlansOn(i))
           /\ \A p \in Plans : HeldBy(lts)[p] \in Nat
<1> DEFINE f == Held(lts)
           g == [k \in DOMAIN lts |-> lts[k].plan]
           S == LotsOn(lts, i)
           P == PlansOn(i)
           T == [p \in Plans |-> LotsOf(lts, p)]
           h == HeldBy(lts)
<1>1. /\ \A k \in DOMAIN lts : f[k] \in Nat /\ lts[k].plan \in Plans
      /\ \A K \in SUBSET DOMAIN lts : IsFiniteSet(K) /\ LotSum(lts, K) = SumFunctionOnSet(f, K)
                                      /\ LotSum(lts, K) \in Nat
  BY HeldTypes
<1>2. S \in SUBSET DOMAIN lts /\ \A p \in Plans : LotsOf(lts, p) \in SUBSET DOMAIN lts
  BY DEF LotsOn, LotsOf
<1>3. IsFiniteSet(P)
  BY IdsAssumption, FS_Subset DEF PlansOn
<1>4. \A k \in S : f[k] \in Int /\ g[k] \in P
  BY <1>1 DEF LotsOn, PlansOn
<1>5. \A p \in Plans : h[p] \in Nat /\ h[p] = SumFunctionOnSet(f, T[p])
  BY <1>1, <1>2 DEF HeldBy
<1>6. \A p \in P : /\ p \in Plans /\ T[p] \in SUBSET S
                   /\ \A k \in S : k \in T[p] <=> g[k] = p
  BY DEF LotsOn, LotsOf, PlansOn
<1>7. IsFiniteSet(S) /\ LotSum(lts, S) = SumFunctionOnSet(f, S)
  BY <1>1, <1>2
<1> HIDE DEF f, g, S, P, T, h
<1>8. SumFunctionOnSet(f, S) = SumFunctionOnSet(h, P)
  BY <1>3, <1>4, <1>5, <1>6, <1>7, SumGroups
<1> QED
  BY <1>3, <1>5, <1>7, <1>8 DEF S, P, h

\* A plan sells at most the lots it holds, and only against the one observation
\* of its instrument.
LEMMA SellsAtMost ==
    ASSUME StoreInv, NEW e \in Emergencies, NEW obs \in SUBSET Observations,
           NEW q \in [Plans -> Quantities], Execute(e, obs, q), NEW p \in Plans
    PROVE  /\ q[p] \in Nat /\ ManagedByPlan(p) \in Nat /\ q[p] <= ManagedByPlan(p)
           /\ q[p] > 0 => \E ob \in obs : p \in Sellable(e, ob)
           /\ \A b, c \in obs : p \in Sellable(e, b) /\ p \in Sellable(e, c) => b = c
<1>1. q[p] \in Nat
  BY StoreAssumption DEF Quantities
<1>2. ManagedByPlan(p) \in Nat
  <2>1. LotsOf(lots, p) \in SUBSET DOMAIN lots
    BY DEF LotsOf
  <2> QED
    BY <2>1, HeldTypes, TablesGood DEF ManagedByPlan
<1>3. q[p] > 0 => \E ob \in obs : p \in Sellable(e, ob)
  BY DEF Execute, Sells
<1>4. ASSUME NEW ob \in obs, p \in Sellable(e, ob)
      PROVE  q[p] <= ManagedByPlan(p)
  <2>1. PICK x : q[p] = IF Capped(ManagedByPlan(p), x) > LimitIn[ob] THEN 0
                        ELSE Capped(ManagedByPlan(p), x)
    BY <1>4 DEF Execute, Sells, SellsAgainst
  <2>2. Capped(ManagedByPlan(p), x) \in Nat /\ Capped(ManagedByPlan(p), x) <= ManagedByPlan(p)
    BY <1>2 DEF Capped
  <2> HIDE DEF Capped
  <2> QED
    BY <1>2, <2>1, <2>2
<1>5. \A b, c \in obs : p \in Sellable(e, b) /\ p \in Sellable(e, c) => b = c
  BY DEF Execute, Usable, Sellable
<1> QED
  BY <1>1, <1>2, <1>3, <1>4, <1>5

\* The sale of a plan is taken from its own lots.
LEMMA PlanSells ==
    ASSUME StoreInv, NEW e \in Emergencies, NEW obs \in SUBSET Observations,
           NEW q \in [Plans -> Quantities], Execute(e, obs, q), NEW p \in Plans
    PROVE  LotSum(lots', LotsOf(lots', p)) = ManagedByPlan(p) - q[p]
<1> DEFINE K == LotsOf(lots, p)
           new == Consume(K, q[p])
           f == Held(lots')
           g == Held(new)
<1>1. LotsGood(lots) /\ LotsGood(lots') /\ LotsGood(new) /\ DOMAIN new = DOMAIN lots
  BY TablesGood, ExecuteLots, ConsumeGood DEF Consume
<1>2. /\ DOMAIN lots' = DOMAIN lots
      /\ \A k \in DOMAIN lots :
            lots'[k] = Consume(LotsOf(lots, lots[k].plan), q[lots[k].plan])[k]
  BY DEF Execute, SellLots
<1>3. \A k \in DOMAIN lots : lots[k] \in LotType
  BY <1>1 DEF LotsGood
<1>4. \A k \in DOMAIN lots : lots'[k].plan = lots[k].plan
  BY <1>2, <1>3 DEF Consume, LotType
<1>5. LotsOf(lots', p) = K /\ K \in SUBSET DOMAIN lots /\ \A k \in K : lots[k].plan = p
  BY <1>2, <1>4 DEF LotsOf
<1>6. \A k \in K : lots'[k] = new[k]
  BY <1>2, <1>5
<1>7. q[p] \in Nat /\ q[p] <= LotSum(lots, K)
  BY SellsAtMost DEF ManagedByPlan
<1>8. LotSum(new, K) = LotSum(lots, K) - q[p]
  BY <1>1, <1>5, <1>7, ConsumeTakes
<1> HIDE DEF new, K
<1>9. /\ IsFiniteSet(K) /\ LotSum(lots', K) = SumFunctionOnSet(f, K)
      /\ \A k \in K : f[k] = lots'[k].quantity
  BY <1>1, <1>2, <1>5, HeldTypes
<1>10. /\ LotSum(new, K) = SumFunctionOnSet(g, K)
       /\ \A k \in K : g[k] = new[k].quantity
  BY <1>1, <1>5, HeldTypes
<1>11. \A k \in K : f[k] = g[k]
  BY <1>6, <1>9, <1>10
<1> HIDE DEF f, g
<1>12. SumFunctionOnSet(f, K) = SumFunctionOnSet(g, K)
  BY <1>9, <1>11, SumSame
<1> QED
  BY <1>5, <1>8, <1>9, <1>10, <1>12 DEF ManagedByPlan, K

LEMMA InstrumentSells ==
    ASSUME StoreInv, NEW e \in Emergencies, NEW obs \in SUBSET Observations,
           NEW q \in [Plans -> Quantities], Execute(e, obs, q), NEW i
    PROVE  /\ SumFunctionOnSet(q, PlansOn(i)) \in Nat
           /\ LotSum(lots, LotsOn(lots, i))
                = LotSum(lots', LotsOn(lots', i)) + SumFunctionOnSet(q, PlansOn(i))
<1> DEFINE h == HeldBy(lots)
           h2 == HeldBy(lots')
           P == PlansOn(i)
<1>1. /\ IsFiniteSet(P) /\ LotSum(lots, LotsOn(lots, i)) = SumFunctionOnSet(h, P)
      /\ LotSum(lots', LotsOn(lots', i)) = SumFunctionOnSet(h2, P)
      /\ \A p \in Plans : h[p] \in Nat /\ h2[p] \in Nat
  <2>1. LotsGood(lots) /\ LotsGood(lots')
    BY TablesGood, ExecuteLots
  <2> QED
    BY <2>1, PlanSums
<1>2. \A p \in Plans : q[p] \in Nat /\ h2[p] = h[p] - q[p]
  BY PlanSells, SellsAtMost DEF HeldBy, ManagedByPlan
<1>3. \A p \in P : p \in Plans
  BY DEF PlansOn
<1> HIDE DEF h, h2, P
<1>4. \A p \in P : h2[p] \in Int /\ q[p] \in Int /\ h[p] = h2[p] + q[p]
  <2>1. \A p \in P : h[p] \in Nat /\ h2[p] \in Nat /\ q[p] \in Nat /\ h2[p] = h[p] - q[p]
    BY <1>1, <1>2, <1>3
  <2> QED
    BY <2>1
<1>5. SumFunctionOnSet(h, P) = SumFunctionOnSet(h2, P) + SumFunctionOnSet(q, P)
  BY <1>1, <1>4, SumPlus
<1>6. SumFunctionOnSet(q, P) \in Nat
  <2>1. \A p \in P : q[p] \in Nat
    BY <1>2, <1>3
  <2> QED
    BY <1>1, <2>1, SumNat
<1> QED
  BY <1>1, <1>5, <1>6 DEF P

LEMMA FillsFinite == IsFiniteSet(FillIds)
<1>1. IsFiniteSet(Plans \X Observations)
  BY IdsAssumption, FS_Product
<1>2. IsFiniteSet(Emergencies \X (Plans \X Observations))
  BY <1>1, IdsAssumption, FS_Product
<1> DEFINE T == Emergencies \X (Plans \X Observations)
           pairs == [x \in FillIds |-> <<x[1], <<x[2], x[3]>>>>]
<1>3. pairs \in [FillIds -> T]
  BY DEF FillIds
<1>4. \A x, y \in FillIds : pairs[x] = pairs[y] => x = y
  BY DEF FillIds
<1>5. pairs \in Injection(FillIds, T)
  BY <1>3, <1>4 DEF Injection, IsInjective
<1> QED
  BY <1>2, <1>5, FS_Injection

\* What an execution records as sold on an instrument is what its plans sold.
LEMMA ExecuteRecords ==
    ASSUME EmergencyInv, NEW e \in Emergencies, NEW obs \in SUBSET Observations,
           NEW q \in [Plans -> Quantities], Execute(e, obs, q), NEW i
    PROVE  /\ EmergencySold(i) \in Int
           /\ EmergencySold(i)' = EmergencySold(i) + SumFunctionOnSet(q, PlansOn(i))
<1> DEFINE New(f) == f[1] = e /\ f[3] \in obs /\ f[2] \in Sellable(e, f[3])
           F == {f \in FillIds : InstrumentOf[f[2]] = i}
           d == [f \in FillIds |-> IF New(f) THEN q[f[2]] ELSE 0]
           P == PlansOn(i)
           g == [f \in FillIds |-> f[2]]
           T == [p \in Plans |-> {f \in F : g[f] = p}]
           was == sold
           new == sold'
<1>1. StoreInv /\ sold \in [FillIds -> Quantities]
  BY DEF EmergencyInv, EmergencyTypeOK
<1>2. \A p \in Plans :
         /\ q[p] \in Nat
         /\ q[p] > 0 => \E ob \in obs : p \in Sellable(e, ob)
         /\ \A b, c \in obs : p \in Sellable(e, b) /\ p \in Sellable(e, c) => b = c
  BY <1>1, SellsAtMost
<1>3. IsFiniteSet(FillIds) /\ F \in SUBSET FillIds /\ IsFiniteSet(F) /\ IsFiniteSet(P)
  BY FillsFinite, IdsAssumption, FS_Subset DEF PlansOn
<1>4. \A f \in FillIds : /\ f[2] \in Plans /\ d[f] \in Nat /\ was[f] \in Nat
                         /\ new[f] = was[f] + d[f]
  <2> SUFFICES ASSUME NEW f \in FillIds
               PROVE  /\ f[2] \in Plans /\ d[f] \in Nat /\ was[f] \in Nat
                      /\ new[f] = was[f] + d[f]
    OBVIOUS
  <2>1. /\ f[2] \in Plans /\ was[f] \in Nat /\ f = <<f[1], f[2], f[3]>>
        /\ q[f[2]] \in Nat
    <3>1. f[2] \in Plans /\ f = <<f[1], f[2], f[3]>>
      BY DEF FillIds
    <3>2. was[f] \in Nat
      BY <1>1, StoreAssumption DEF Quantities
    <3> QED
      BY <1>2, <3>1, <3>2
  <2>2. new[f] = IF New(f) THEN q[f[2]] ELSE was[f]
    BY DEF Execute
  <2>3. New(f) => was[f] = 0
    BY <2>1 DEF Sellable
  <2>4. d[f] = IF New(f) THEN q[f[2]] ELSE 0
    OBVIOUS
  <2> HIDE DEF New, d, was, new
  <2> QED
    BY <2>1, <2>2, <2>3, <2>4
<1>5. ASSUME NEW p \in P
      PROVE  /\ T[p] \in SUBSET F /\ \A f \in F : f \in T[p] <=> g[f] = p
             /\ q[p] = SumFunctionOnSet(d, T[p])
  <2> DEFINE G == {f \in F : g[f] = p}
  <2> SUFFICES q[p] = SumFunctionOnSet(d, G)
    BY DEF PlansOn
  <2>1. p \in Plans /\ InstrumentOf[p] = i
    BY DEF PlansOn
  <2>2. /\ \A f \in G : f \in FillIds /\ f[2] = p /\ f = <<f[1], p, f[3]>>
        /\ G \in SUBSET F /\ IsFiniteSet(G)
    <3>1. G \in SUBSET F /\ IsFiniteSet(G)
      BY <1>3, FS_Subset
    <3>2. \A f \in G : f \in FillIds /\ f[2] = p /\ f = <<f[1], p, f[3]>>
      BY DEF FillIds
    <3> QED
      BY <3>1, <3>2
  <2>3. CASE q[p] = 0
    <3>1. \A f \in G : d[f] = 0 /\ d[f] \in Nat
      BY <2>2, <2>3
    <3>2. {} \in SUBSET G /\ \A f \in G \ {} : d[f] = 0
      BY <3>1
    <3> HIDE DEF G, d
    <3>3. SumFunctionOnSet(d, G) = SumFunctionOnSet(d, {})
      BY <2>2, <3>1, <3>2, SumZeroes
    <3>4. SumFunctionOnSet(d, {}) = 0
      BY SumEmpty
    <3> QED
      BY <2>3, <3>3, <3>4 DEF G
  <2>4. CASE q[p] # 0
    <3>1. PICK ob \in obs : p \in Sellable(e, ob)
      BY <1>2, <2>1, <2>4
    <3> DEFINE z == <<e, p, ob>>
    <3>2. z \in FillIds /\ z[1] = e /\ z[2] = p /\ z[3] = ob
      BY <2>1 DEF FillIds
    <3>3. z \in G /\ d[z] = q[p] /\ d[z] \in Int
      BY <1>2, <2>1, <3>1, <3>2
    <3>4. ASSUME NEW f \in G, f # z PROVE d[f] = 0
      <4>1. New(f) => f[1] = e /\ f[3] = ob
        BY <1>2, <2>1, <2>2, <3>1
      <4>2. ~New(f)
        BY <2>2, <3>4, <4>1
      <4> QED
        BY <2>2, <4>2
    <3>5. \A f \in G \ {z} : d[f] = 0
      BY <3>4
    <3> HIDE DEF G, d, z
    <3>6. SumFunctionOnSet(d, G) = d[z]
      BY <2>2, <3>3, <3>5, SumSingle
    <3> QED
      BY <3>3, <3>6 DEF G
  <2> QED
    BY <2>3, <2>4
<1>6. \A f \in F : f \in FillIds /\ g[f] \in P
  BY <1>4 DEF PlansOn
<1>7. EmergencySold(i) = SumFunctionOnSet(was, F) /\ EmergencySold(i)' = SumFunctionOnSet(new, F)
  BY DEF EmergencySold
<1> HIDE DEF F, d, P, T, g, was, new
<1>8. SumFunctionOnSet(d, F) = SumFunctionOnSet(q, P)
  <2>1. \A f \in F : d[f] \in Int /\ g[f] \in P
    BY <1>4, <1>6
  <2> QED
    BY <1>3, <1>5, <2>1, SumGroups
<1>9. SumFunctionOnSet(new, F) = SumFunctionOnSet(was, F) + SumFunctionOnSet(d, F)
  <2>1. \A f \in F : was[f] \in Int /\ d[f] \in Int /\ new[f] = was[f] + d[f]
    BY <1>4, <1>6
  <2> QED
    BY <1>3, <2>1, SumPlus
<1>10. SumFunctionOnSet(was, F) \in Int
  <2>1. \A f \in F : was[f] \in Int
    BY <1>4, <1>6
  <2> QED
    BY <1>3, <2>1, SumType
<1> QED
  BY <1>7, <1>8, <1>9, <1>10 DEF P

-----------------------------------------------------------------------------
(* The accounts with the emergencies *)

SoldByEmergencies == [i \in Instruments |-> EmergencySold(i)]

LEMMA ExecuteAccounts ==
    ASSUME EmergencyLinks, NEW e \in Emergencies, NEW obs \in SUBSET Observations,
           NEW q \in [Plans -> Quantities], Execute(e, obs, q),
           Accounts(action, order, lots, SoldByEmergencies)
    PROVE  Accounts(action', order', lots', SoldByEmergencies')
<1>1. EmergencyInv /\ StoreInv /\ LinkInv /\ EmergencyInv'
  <2>1. [EmergencyNext]_allVars
    BY DEF EmergencyNext
  <2> QED
    BY <2>1, EmergencyStep DEF EmergencyLinks, EmergencyInv
<1>2. SUFFICES ASSUME NEW i \in Instruments
               PROVE  LotSum(lots', LotsOn(lots', i)) + FilledOf(action', order', i, Sales)
                        + EmergencySold(i)' = FilledOf(action', order', i, {Entry})
  BY DEF Accounts, SoldByEmergencies
<1> DEFINE M == LotSum(lots, LotsOn(lots, i))
           M2 == LotSum(lots', LotsOn(lots', i))
           s == FilledOf(action, order, i, Sales)
           b == FilledOf(action, order, i, {Entry})
           x == EmergencySold(i)
           n == SumFunctionOnSet(q, PlansOn(i))
<1>3. M + s + x = b
  BY DEF Accounts, SoldByEmergencies
<1>4. FilledOf(action', order', i, Sales) = s /\ FilledOf(action', order', i, {Entry}) = b
  BY <1>1, ExecuteEffect, CallFills
<1>5. n \in Nat /\ M = M2 + n
  BY <1>1, InstrumentSells
<1>6. EmergencySold(i)' = x + n /\ x \in Int
  BY <1>1, ExecuteRecords
<1>7. s \in Nat /\ M2 \in Nat
  <2>1. OrdersGood(action, order) /\ LotsGood(lots')
    BY <1>1, TablesGood, ExecuteLots
  <2>2. LotsOn(lots', i) \in SUBSET DOMAIN lots'
    BY DEF LotsOn
  <2>3. s \in Nat
    BY <2>1, ShareTypes
  <2>4. M2 \in Nat
    BY <2>1, <2>2, HeldTypes
  <2> QED
    BY <2>3, <2>4
<1> HIDE DEF M, M2, s, b, x, n
<1>8. M2 + s + (x + n) = b
  BY <1>3, <1>5, <1>6, <1>7
<1> QED
  BY <1>4, <1>6, <1>8 DEF M2

EmergencyAccountsInv == EmergencyLinks /\ AccountsInv(SoldByEmergencies)

LEMMA SoldTypes ==
    ASSUME EmergencyInv
    PROVE  \A i \in Instruments : SoldByEmergencies[i] \in Int
<1>1. SUFFICES ASSUME NEW i \in Instruments PROVE EmergencySold(i) \in Int
  BY DEF SoldByEmergencies
<1> DEFINE F == {f \in FillIds : InstrumentOf[f[2]] = i}
<1>2. IsFiniteSet(F)
  BY FillsFinite, FS_Subset
<1>3. \A f \in F : sold[f] \in Int
  BY StoreAssumption DEF EmergencyInv, EmergencyTypeOK, Quantities
<1>4. EmergencySold(i) = SumFunctionOnSet(sold, F)
  BY DEF EmergencySold
<1> HIDE DEF F
<1> QED
  BY <1>2, <1>3, <1>4, SumType

LEMMA EmergencyAccountsStep ==
    ASSUME EmergencyAccountsInv, [EmergencyNext]_allVars
    PROVE  EmergencyAccountsInv'
<1>1. EmergencyLinks /\ EmergencyInv /\ StoreInv /\ LinkInv /\ EmergencyLinks' /\ StoreInv'
  BY EmergencyLinksStep DEF EmergencyAccountsInv, EmergencyLinks, EmergencyInv
<1>2. AccountsInv(SoldByEmergencies)
  BY DEF EmergencyAccountsInv
<1>3. PICK x : x = SoldByEmergencies
  OBVIOUS
<1>4. AccountsInv(x)
  BY <1>2, <1>3
<1>5. ASSUME UNCHANGED emergencyVars
      PROVE  SoldByEmergencies' = x
  BY <1>3, <1>5 DEF emergencyVars, SoldByEmergencies, EmergencySold
<1>6. CASE [Next]_vars /\ UNCHANGED emergencyVars
  <2>1. \A i \in Instruments : x[i] \in Int
    BY <1>1, <1>3, SoldTypes
  <2>2. AccountsInv(x)'
    BY <1>1, <1>4, <1>6, <2>1, AccountsStep
  <2>3. AccountsInv(SoldByEmergencies)'
    BY <1>5, <1>6, <2>2 DEF AccountsInv
  <2> QED
    BY <1>1, <2>3 DEF EmergencyAccountsInv
<1>7. ASSUME NEW c \in Changes, ChangeSystemState(c[1], c[2]), UNCHANGED vars
      PROVE  EmergencyAccountsInv'
  <2>1. sold' = sold
    BY <1>7 DEF ChangeSystemState
  <2>2. SoldByEmergencies' = SoldByEmergencies
    BY <2>1 DEF SoldByEmergencies, EmergencySold
  <2>3. AccountsInv(SoldByEmergencies)'
    BY <1>2, <1>7, <2>2 DEF vars, AccountsInv
  <2> QED
    BY <1>1, <2>3 DEF EmergencyAccountsInv
<1>8. ASSUME NEW e \in Emergencies, NEW obs \in SUBSET Observations,
             NEW q \in [Plans -> Quantities], Execute(e, obs, q)
      PROVE  EmergencyAccountsInv'
  <2>1. Accounts(action', order', lots', SoldByEmergencies')
    BY <1>1, <1>2, <1>8, ExecuteAccounts DEF AccountsInv
  <2>2. saved'.action = action' /\ saved'.order = order' /\ saved'.lots = lots'
    BY <1>8 DEF Execute, Commits, Committed
  <2>3. AccountsInv(SoldByEmergencies)'
    BY <2>1, <2>2 DEF AccountsInv
  <2> QED
    BY <1>1, <2>3 DEF EmergencyAccountsInv
<1> QED
  BY <1>6, <1>7, <1>8, EmergencySteps

\* Managed assets only: what the entries bought, minus what orders and emergencies
\* sold, is what the lots hold, however emergencies and observations alternate.
THEOREM EmergenciesAddUp == EmergencySpec => []EmergencyAccountsForLots
<1>1. EmergencyInit => EmergencyAccountsInv
  <2>1. SUFFICES ASSUME EmergencyInit PROVE EmergencyAccountsInv
    OBVIOUS
  <2>2. ASSUME NEW i \in Instruments PROVE SoldByEmergencies[i] = 0
    <3> DEFINE F == {f \in FillIds : InstrumentOf[f[2]] = i}
    <3>1. IsFiniteSet(F) /\ \A f \in F : sold[f] = 0 /\ sold[f] \in Int
      BY <2>1, FillsFinite, FS_Subset DEF EmergencyInit
    <3>2. {} \in SUBSET F /\ \A f \in F \ {} : sold[f] = 0
      BY <3>1
    <3>3. SoldByEmergencies[i] = SumFunctionOnSet(sold, F)
      BY DEF SoldByEmergencies, EmergencySold
    <3> HIDE DEF F
    <3>4. SumFunctionOnSet(sold, F) = SumFunctionOnSet(sold, {})
      BY <3>1, <3>2, SumZeroes
    <3>5. SumFunctionOnSet(sold, {}) = 0
      BY SumEmpty
    <3> QED
      BY <3>3, <3>4, <3>5
  <2>3. AccountsInv(SoldByEmergencies)
    BY <2>1, <2>2, AccountsInitially DEF EmergencyInit
  <2> QED
    BY <2>1, <2>3, EmergencyInitially, LinksInitially
       DEF EmergencyInit, EmergencyAccountsInv, EmergencyLinks
<1>2. EmergencyAccountsInv => EmergencyAccountsForLots
  <2>1. SUFFICES ASSUME EmergencyAccountsInv, NEW i \in Instruments
                 PROVE  Managed(i) + FilledBy(i, Roles \ {Entry}) + EmergencySold(i)
                          = FilledBy(i, {Entry})
    BY DEF EmergencyAccountsForLots
  <2>2. StoreInv /\ Accounts(action, order, lots, SoldByEmergencies)
    BY <2>1 DEF EmergencyAccountsInv, EmergencyLinks, EmergencyInv, AccountsInv
  <2> QED
    BY <2>2, AccountsAre DEF SoldByEmergencies
<1> QED
  BY <1>1, <1>2, EmergencyAccountsStep, PTL DEF EmergencySpec

\* An execution that completes its action leaves no plan a lot, whatever the
\* instruments it had observations of.
THEOREM CompletedIsFlat == EmergencySpec => CompletedMeansFlat
<1>1. EmergencyInv /\ [EmergencyNext]_allVars
      => [\A e \in Emergencies : emergency[e] # "COMPLETED" /\ emergency'[e] = "COMPLETED"
                                 => \A p \in Plans : ManagedByPlan(p)' = 0]_allVars
  <2> SUFFICES ASSUME EmergencyInv, [EmergencyNext]_allVars, NEW e \in Emergencies,
                      emergency[e] # "COMPLETED", emergency'[e] = "COMPLETED",
                      NEW p \in Plans
               PROVE  ManagedByPlan(p)' = 0
    OBVIOUS
  <2>1. PICK x \in Emergencies, obs \in SUBSET Observations, q \in [Plans -> Quantities] :
          Execute(x, obs, q)
    <3>1. UNCHANGED emergencyVars => emergency' = emergency
      BY DEF emergencyVars
    <3>2. \A c \in Changes : ChangeSystemState(c[1], c[2]) => emergency' = emergency
      BY DEF ChangeSystemState
    <3> QED
      BY <3>1, <3>2, EmergencySteps
  <2>2. Flat(lots')
    BY <2>1 DEF Execute, EmergencyInv, EmergencyTypeOK
  <2>3. LotsGood(lots')
    BY <2>1, ExecuteLots DEF EmergencyInv
  <2> DEFINE K == LotsOf(lots', p)
             f == Held(lots')
  <2>4. K \in SUBSET DOMAIN lots'
    BY DEF LotsOf
  <2>5. IsFiniteSet(K) /\ LotSum(lots', K) = SumFunctionOnSet(f, K)
    BY <2>3, <2>4, HeldTypes
  <2>6. \A k \in K : f[k] = 0 /\ f[k] \in Int
    BY <2>2, <2>3, <2>4, HeldTypes DEF Flat
  <2>7. {} \in SUBSET K /\ \A k \in K \ {} : f[k] = 0
    BY <2>6
  <2>8. ManagedByPlan(p)' = LotSum(lots', K)
    BY DEF ManagedByPlan
  <2> HIDE DEF K, f
  <2>9. SumFunctionOnSet(f, K) = SumFunctionOnSet(f, {})
    BY <2>5, <2>6, <2>7, SumZeroes
  <2>10. SumFunctionOnSet(f, {}) = 0
    BY SumEmpty
  <2> QED
    BY <2>5, <2>8, <2>9, <2>10
<1> QED
  BY <1>1, EmergencyInvariant, PTL DEF EmergencySpec, CompletedMeansFlat
=============================================================================
