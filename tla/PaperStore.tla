----------------------------- MODULE PaperStore -----------------------------
(***************************************************************************)
(* The paper trading store: the trade-plan ledger, the validation          *)
(* evidence, paper orders and managed lots of the SQLite repository        *)
(* (ironpilot-adapters/src/persistence.rs, paper_execution.rs), with the   *)
(* rules of ExecutionValidator that read them.                             *)
(*                                                                         *)
(* Every call takes the write gate and runs in one transaction.  Recording *)
(* a plan, persisting a validation and submitting a request are one action *)
(* each.  process_observation is a loop over the open orders of an         *)
(* instrument: it is one action per order between BeginObservation and     *)
(* CommitObservation, with `tx` holding its local variables; nothing else  *)
(* may run meanwhile, and an error or a crash restores `saved`.            *)
(*                                                                         *)
(* Quantities are whole lots of the base asset.  Prices appear only as     *)
(* the choice whether an order is triggered.                               *)
(***************************************************************************)
EXTENDS Integers, Sequences, FiniteSets, Functions

CONSTANTS Plans,          \* trade plan ids, numbered in the order they are drawn
          Actions,        \* trade plan action ids, likewise
          Instruments,
          InstrumentOf,   \* the instrument a plan is about
          Kinds,          \* the AI actions an instance may take
          MaxQuantity,    \* bound of an order's quantity
          MaxTargets,     \* bound of the take-profits of a plan (8 in the code)
          MaxLiquidity    \* bound of an observation's liquidity

ASSUME StoreAssumption ==
    /\ Plans \subseteq Nat \ {0}
    /\ Actions \subseteq Nat
    /\ Instruments # {} /\ InstrumentOf \in [Plans -> Instruments]
    /\ Kinds \subseteq {"OPEN_LONG", "NO_TRADE", "HOLD", "CANCEL_ENTRY",
                        "MODIFY_PROTECTION", "REDUCE", "EXIT"}
    /\ MaxQuantity \in Nat \ {0}
    /\ MaxTargets \in Nat \ {0}
    /\ MaxLiquidity \in Nat \ {0}

\* Ids are UUIDs: there are finitely many.
ASSUME ActionsAssumption == IsFiniteSet(Actions)

VARIABLES plan,    \* plan[p]: state of the trade_plans row
          action,  \* action[a]: the trade_plan_actions row and its AI plan
          order,   \* order[<<a, role>>]: the paper_orders row with its spec
          lots,    \* managed_lots in FIFO order; a closed lot keeps quantity 0
          passed,  \* the order deadlines that are over, of orders that are not ended
          tx,      \* the running process_observation, or Idle
          saved    \* the committed rows, while tx runs

rows == <<plan, action, order, lots>>
vars == <<plan, action, order, lots, passed, tx, saved>>

-----------------------------------------------------------------------------
(* Plans and actions *)

TerminalStates == {"REJECTED", "CANCELLED", "CLOSED"}
NonTerminalStates == {"PROPOSED", "ACCEPTED", "ENTRY_PENDING", "ACTIVE",
                      "EXIT_PENDING", "RECOVERY_REQUIRED"}
PlanStates == {"ABSENT"} \cup TerminalStates \cup NonTerminalStates

ActionStates == {"ABSENT", "RECORDED", "VALIDATION_ACCEPTED", "VALIDATION_REJECTED",
                 "EXECUTION_PENDING", "EXECUTED", "EXPIRED", "RECOVERY_REQUIRED"}

Creating == {"OPEN_LONG", "NO_TRADE"}   \* the others append to an existing plan

PlanLive(p) == plan[p] \in NonTerminalStates
SameInstrument(p, q) == InstrumentOf[p] = InstrumentOf[q]

Quantities == 0..MaxQuantity

(***************************************************************************)
(* The take-profits of a plan: a quantity per target, 0 for none.  An      *)
(* OPEN_LONG has targets for its whole quantity and always a stop;         *)
(* MODIFY_PROTECTION has a stop, targets or both; the others have neither. *)
(***************************************************************************)
TargetSets == [1..MaxTargets -> Quantities]
NoTargets == [i \in 1..MaxTargets |-> 0]
TotalTarget(t) == SumFunction(t)

WellFormed(k, q, stop, t) ==
    CASE k = "OPEN_LONG" -> q > 0 /\ stop /\ TotalTarget(t) = q
      [] k \in {"REDUCE", "EXIT"} -> q > 0 /\ ~stop /\ t = NoTargets
      [] k = "MODIFY_PROTECTION" -> q = 0 /\ (stop \/ t # NoTargets)
      [] OTHER -> q = 0 /\ ~stop /\ t = NoTargets

NoPlan == 0
NoAction == [state |-> "ABSENT", kind |-> "NONE", plan |-> NoPlan,
             quantity |-> 0, stop |-> FALSE, targets |-> NoTargets]

-----------------------------------------------------------------------------
(* Orders.  A role is its rank in the ORDER BY of process_observation; a    *)
(* take-profit of index i has rank Exit + i.                               *)

ProtectiveStop == 0
Entry == 1
Reduction == 2
Exit == 3
Roles == 0..3 + MaxTargets
OrderIds == Actions \X Roles

IsTakeProfit(o) == o[2] > Exit
IsProtection(o) == o[2] = ProtectiveStop \/ IsTakeProfit(o)

Open == {"OPEN", "ACTIVE", "PARTIALLY_FILLED"}
Cancellable == Open \cup {"STAGED"}
OrderStates == Cancellable \cup {"ABSENT", "FILLED", "CANCELLED", "EXPIRED"}

PlanOf(o) == action[o[1]].plan
NoOrder == [state |-> "ABSENT", quantity |-> 0, filled |-> 0]

\* All protections of a request expire together, its primary order on its own.
Deadline(o) == <<o[1], IF IsProtection(o) THEN "PROTECTION" ELSE "ORDER">>
Deadlines == Actions \X {"PROTECTION", "ORDER"}

CancelRoles(ord, S) ==
    [o \in OrderIds |-> IF o \in S /\ ord[o].state \in Cancellable
                        THEN [ord[o] EXCEPT !.state = "CANCELLED"] ELSE ord[o]]

ProtectionsOf(p) == {o \in OrderIds : IsProtection(o) /\ PlanOf(o) = p}
EntriesOf(p) == {o \in OrderIds : o[2] = Entry /\ PlanOf(o) = p}

\* The orders build_orders makes of action a's plan: role and quantity.
\* A stop has no quantity of its own: it sells what is managed when it triggers.
Requested(a, role) ==
    LET act == action[a] IN
    CASE role = ProtectiveStop -> act.stop
      [] role = Entry -> act.kind = "OPEN_LONG"
      [] role = Reduction -> act.kind = "REDUCE"
      [] role = Exit -> act.kind = "EXIT"
      [] OTHER -> act.targets[role - Exit] > 0

\* mutant: the protections of an entry are live at once
MutantInitialState(o, liveState) == liveState

\* The protections of an OPEN_LONG wait for its entry.
InitialState(o, liveState) ==
    IF action[o[1]].kind = "OPEN_LONG" /\ o[2] # Entry THEN "STAGED" ELSE liveState

InsertOrders(ord, a, liveState) ==
    [o \in OrderIds |->
        IF o[1] = a /\ Requested(a, o[2])
        THEN [state |-> InitialState(o, liveState),
              quantity |-> IF o[2] = ProtectiveStop THEN 0
                           ELSE IF IsTakeProfit(o) THEN action[a].targets[o[2] - Exit]
                           ELSE action[a].quantity,
              filled |-> 0]
        ELSE ord[o]]

-----------------------------------------------------------------------------
(* Managed lots *)

LotSum(lts, K) == SumFunctionOnSet([k \in DOMAIN lts |-> lts[k].quantity], K)
LotsOf(lts, p) == {k \in DOMAIN lts : lts[k].plan = p}
LotsOn(lts, i) == {k \in DOMAIN lts : InstrumentOf[lts[k].plan] = i}

ManagedByPlan(p) == LotSum(lots, LotsOf(lots, p))
Managed(i) == LotSum(lots, LotsOn(lots, i))

\* What a lot of x keeps when `taken` is still to be sold as its turn comes.
Residual(x, taken) == IF taken \in 1..x THEN x - taken ELSE IF taken > x THEN 0 ELSE x

(***************************************************************************)
(* consume_managed_lots: take q from the lots K, oldest first, whichever   *)
(* plan opened them.                                                       *)
(***************************************************************************)
Consume(K, q) ==
    [k \in DOMAIN lots |->
        IF k \in K
        THEN [lots[k] EXCEPT !.quantity = Residual(@, q - LotSum(lots, {j \in K : j < k}))]
        ELSE lots[k]]

-----------------------------------------------------------------------------
Idle == [active |-> FALSE, instrument |-> CHOOSE i \in Instruments : TRUE,
         todo |-> {}, liquidity |-> 0, protectionMatched |-> FALSE]

Committed == [plan |-> plan, action |-> action, order |-> order, lots |-> lots]

Init ==
    /\ plan = [p \in Plans |-> "ABSENT"]
    /\ action = [a \in Actions |-> NoAction]
    /\ order = [o \in OrderIds |-> NoOrder]
    /\ lots = <<>>
    /\ passed = {}
    /\ tx = Idle
    /\ saved = Committed

\* A call other than process_observation: the write gate is free, and what the
\* call writes is committed at its end.
Call == ~tx.active /\ UNCHANGED <<passed, tx>>
Commits == saved' = Committed'

(***************************************************************************)
(* persist_ai_trade_plan_ledger                                            *)
(***************************************************************************)
NewAction(a) ==
    action[a].state = "ABSENT" /\ \A b \in Actions : action[b].state = "ABSENT" => a <= b
NewPlan(p) ==
    /\ plan[p] = "ABSENT"
    /\ \A q \in Plans : SameInstrument(p, q) /\ plan[q] = "ABSENT" => p <= q

\* mutant: only an ACTIVE plan occupies its instrument
MutantMayOpen(p) == \A r \in Plans : SameInstrument(p, r) => plan[r] # "ACTIVE"

\* No plan of the instrument is under way.
MayOpen(p) == \A r \in Plans : SameInstrument(p, r) => ~PlanLive(r)

RecordPlan(a, k, p, q, stop, t) ==
    /\ Call
    /\ NewAction(a)
    /\ WellFormed(k, q, stop, t)
    /\ \/ /\ k \in Creating /\ NewPlan(p)
          /\ k = "OPEN_LONG" => MayOpen(p)
          /\ plan' = [plan EXCEPT ![p] = IF k = "OPEN_LONG" THEN "PROPOSED" ELSE "CLOSED"]
       \/ /\ k \notin Creating /\ PlanLive(p)
          /\ UNCHANGED plan
    /\ action' = [action EXCEPT ![a] = [state |-> "RECORDED", kind |-> k, plan |-> p,
                                        quantity |-> q, stop |-> stop, targets |-> t]]
    /\ UNCHANGED <<order, lots>>
    /\ Commits

(***************************************************************************)
(* The facts a validation is given, as the store could supply them.  Open  *)
(* orders are the working ones: a STAGED order is not on the book, and a   *)
(* resting protection is reported with the position it protects.           *)
(***************************************************************************)
WorkingOrders == {o \in OrderIds : ~IsProtection(o) /\ order[o].state \in Open}

Facts == [plan |-> plan,
          working |-> {<<InstrumentOf[PlanOf(o)], o[2] = Entry>> : o \in WorkingOrders},
          managed |-> [p \in Plans |-> ManagedByPlan(p)]]

(***************************************************************************)
(* What ExecutionValidator requires of the facts.  Its other rules (time,  *)
(* prices, balances, authorization) only reject more.                      *)
(***************************************************************************)
Acceptable(a, facts) ==
    LET act == action[a]
        i == InstrumentOf[act.plan]
        held == facts.managed[act.plan]
        target == facts.plan[act.plan]
    IN CASE act.kind = "NO_TRADE" -> TRUE
         [] act.kind = "HOLD" ->
              target \in {"ACCEPTED", "ENTRY_PENDING", "ACTIVE", "RECOVERY_REQUIRED"}
         [] act.kind = "OPEN_LONG" ->
              /\ \A p \in Plans \ {act.plan} :
                    SameInstrument(p, act.plan) => facts.plan[p] \notin NonTerminalStates
              /\ \A buy \in BOOLEAN : <<i, buy>> \notin facts.working
         [] act.kind = "CANCEL_ENTRY" ->
              target \in {"ACCEPTED", "ENTRY_PENDING"} /\ <<i, TRUE>> \in facts.working
         [] act.kind = "MODIFY_PROTECTION" ->
              /\ target \in {"ACTIVE", "RECOVERY_REQUIRED"}
              /\ held > 0 /\ TotalTarget(act.targets) <= held
         [] act.kind \in {"REDUCE", "EXIT"} ->
              /\ target \in {"ACTIVE", "RECOVERY_REQUIRED"}
              /\ <<i, FALSE>> \notin facts.working
              /\ held > 0
              /\ IF act.kind = "EXIT" THEN act.quantity = held ELSE act.quantity < held

(***************************************************************************)
(* persist_execution_validation                                            *)
(***************************************************************************)
PersistValidation(a, facts, accept) ==
    /\ Call
    /\ action[a].state = "RECORDED"
    /\ accept => Acceptable(a, facts)
    /\ IF action[a].kind = "OPEN_LONG"
       THEN /\ plan[action[a].plan] = "PROPOSED"
            /\ plan' = [plan EXCEPT ![action[a].plan] =
                            IF accept THEN "ACCEPTED" ELSE "REJECTED"]
       ELSE UNCHANGED plan
    /\ action' = [action EXCEPT ![a].state =
                      IF accept THEN "VALIDATION_ACCEPTED" ELSE "VALIDATION_REJECTED"]
    /\ UNCHANGED <<order, lots>>
    /\ Commits

-----------------------------------------------------------------------------
(* submit_request.  A repeated request finds its submission and changes    *)
(* nothing; a failing step rolls the whole call back.                      *)

Submits(a, k) ==
    /\ Call
    /\ action[a].state = "VALIDATION_ACCEPTED"
    /\ action[a].kind = k
    /\ UNCHANGED lots

ActionBecomes(a, st) == action' = [action EXCEPT ![a].state = st]

\* mutant: update_plan without its state check
MutantPlanBecomes(p, st) == plan' = [plan EXCEPT ![p] = st]

\* update_plan fails on a terminal plan, and its transaction with it.
PlanBecomes(p, st) == PlanLive(p) /\ plan' = [plan EXCEPT ![p] = st]

SubmitOpenLong(a) ==
    /\ Submits(a, "OPEN_LONG")
    /\ order' = InsertOrders(order, a, "OPEN")
    /\ ActionBecomes(a, "EXECUTION_PENDING")
    /\ PlanBecomes(action[a].plan, "ENTRY_PENDING")
    /\ Commits

\* mutant: the entry is cancelled and the plan forgotten
MutantSubmitCancelEntry(a) ==
    /\ Submits(a, "CANCEL_ENTRY")
    /\ order' = CancelRoles(order, EntriesOf(action[a].plan))
    /\ ActionBecomes(a, "EXECUTED")
    /\ UNCHANGED plan
    /\ Commits

SubmitCancelEntry(a) ==
    /\ Submits(a, "CANCEL_ENTRY")
    /\ order' = CancelRoles(order, EntriesOf(action[a].plan))
    /\ ActionBecomes(a, "EXECUTED")
    /\ PlanBecomes(action[a].plan, "CANCELLED")
    /\ Commits

SubmitModifyProtection(a) ==
    /\ Submits(a, "MODIFY_PROTECTION")
    /\ order' = InsertOrders(CancelRoles(order, ProtectionsOf(action[a].plan)), a, "ACTIVE")
    /\ ActionBecomes(a, "EXECUTED")
    /\ UNCHANGED plan
    /\ Commits

SubmitReduce(a) ==
    /\ Submits(a, "REDUCE")
    /\ order' = InsertOrders(order, a, "OPEN")
    /\ ActionBecomes(a, "EXECUTION_PENDING")
    /\ UNCHANGED plan
    /\ Commits

SubmitExit(a) ==
    /\ Submits(a, "EXIT")
    /\ order' = InsertOrders(order, a, "OPEN")
    /\ ActionBecomes(a, "EXECUTION_PENDING")
    /\ PlanBecomes(action[a].plan, "EXIT_PENDING")
    /\ Commits

Submit(a) ==
    \/ SubmitOpenLong(a)
    \/ SubmitCancelEntry(a)
    \/ SubmitModifyProtection(a)
    \/ SubmitReduce(a)
    \/ SubmitExit(a)

-----------------------------------------------------------------------------
(* process_observation *)

RowsOf(i) == {o \in OrderIds : order[o].state \in Open /\ InstrumentOf[PlanOf(o)] = i}

Unfinished == {o \in OrderIds : order[o].state \in Cancellable}

\* Time has passed since the last observation: some deadlines with it.  Nothing
\* reads a deadline of orders that are all ended, so it is forgotten.  Without
\* liquidity nothing fills, as when nothing is triggered.
BeginObservation(i, liquidity) ==
    /\ ~tx.active
    /\ RowsOf(i) # {}
    /\ \E over \in SUBSET {Deadline(o) : o \in RowsOf(i)} :
          passed' = {d \in passed : \E o \in Unfinished : Deadline(o) = d} \cup over
    /\ tx' = [active |-> TRUE, instrument |-> i, todo |-> RowsOf(i),
              liquidity |-> liquidity, protectionMatched |-> FALSE]
    /\ UNCHANGED <<rows, saved>>

\* o is the next row, and not a take-profit left out after a protection matched.
AtRow(o) == tx.active /\ o \in tx.todo /\ \A r \in tx.todo : o[2] <= r[2]
Considered(o) == AtRow(o) /\ ~(tx.protectionMatched /\ IsTakeProfit(o))

RowDone(o) == tx' = [tx EXCEPT !.todo = @ \ {o}]

\* mutant: earlier fills are forgotten
MutantUnfilled(o) == order[o].quantity

Unfilled(o) == order[o].quantity - order[o].filled

\* x, or the bound if that is smaller.
Capped(x, bound) == IF bound \in 0..x THEN bound ELSE x

\* mutant: a sell is not limited to what is managed
MutantRemaining(o) ==
    IF o[2] = ProtectiveStop THEN Managed(tx.instrument) ELSE Unfilled(o)

\* What the row could still fill: a sell never more than is managed.
Remaining(o) ==
    CASE o[2] = Entry -> Unfilled(o)
      [] o[2] = ProtectiveStop -> Managed(tx.instrument)
      [] OTHER -> Capped(Unfilled(o), Managed(tx.instrument))

SkipTakeProfit(o) ==
    /\ AtRow(o) /\ tx.protectionMatched /\ IsTakeProfit(o)
    /\ RowDone(o)
    /\ UNCHANGED <<rows, passed, saved>>

\* cancel_order, for a row with nothing left to fill.  `todo` is as old as the
\* transaction, so a row closed meanwhile is left as it is.
CancelEmpty(o) ==
    /\ Considered(o) /\ Remaining(o) = 0
    /\ order' = IF order[o].state \in Open
                THEN [order EXCEPT ![o].state = "CANCELLED"] ELSE order
    /\ RowDone(o)
    /\ UNCHANGED <<plan, action, lots, passed, saved>>

Matchable(o) == Considered(o) /\ Remaining(o) # 0

\* expire_order: an unfilled entry ends its plan, a reduction only its action;
\* any other order that runs out of time calls for recovery.
Expire(o) ==
    /\ Matchable(o) /\ Deadline(o) \in passed
    /\ order' = [order EXCEPT ![o].state = "EXPIRED"]
    /\ \/ /\ o[2] = Entry /\ order[o].filled = 0
          /\ PlanBecomes(PlanOf(o), "CANCELLED") /\ ActionBecomes(o[1], "EXPIRED")
       \/ /\ o[2] = Reduction
          /\ UNCHANGED plan /\ ActionBecomes(o[1], "EXPIRED")
       \/ /\ o[2] # Reduction /\ ~(o[2] = Entry /\ order[o].filled = 0)
          /\ PlanBecomes(PlanOf(o), "RECOVERY_REQUIRED")
          /\ ActionBecomes(o[1], "RECOVERY_REQUIRED")
    /\ RowDone(o)
    /\ UNCHANGED <<lots, passed, saved>>

\* Not triggered, no liquidity left, or the slippage limit exceeded.
NotMatched(o) ==
    /\ Matchable(o) /\ Deadline(o) \notin passed
    /\ RowDone(o)
    /\ UNCHANGED <<rows, passed, saved>>

Quantity(o) == Capped(tx.liquidity, Remaining(o))

\* is_fully_filled: a stop always, a sell also when it sells all that is managed.
Full(o) ==
    \/ o[2] = ProtectiveStop
    \/ order[o].filled + Quantity(o) >= order[o].quantity
    \/ o[2] # Entry /\ Managed(tx.instrument) <= Quantity(o)

Filled(o) == [order EXCEPT ![o] = [state |-> IF Full(o) THEN "FILLED" ELSE "PARTIALLY_FILLED",
                                   quantity |-> @.quantity,
                                   filled |-> @.filled + Quantity(o)]]

Fills(o) ==
    /\ Matchable(o) /\ Deadline(o) \notin passed
    /\ tx.liquidity > 0
    /\ tx' = [tx EXCEPT !.todo = @ \ {o}, !.liquidity = @ - Quantity(o),
                        !.protectionMatched = @ \/ IsProtection(o)]
    /\ UNCHANGED <<passed, saved>>

\* A buy opens a lot; once complete, it activates the protections of the plan.
FillEntry(o) ==
    /\ Fills(o) /\ o[2] = Entry
    /\ lots' = Append(lots, [plan |-> PlanOf(o), quantity |-> Quantity(o)])
    /\ IF Full(o)
       THEN /\ order' = [r \in OrderIds |->
                           IF r \in ProtectionsOf(PlanOf(o)) /\ order[r].state = "STAGED"
                           THEN [order[r] EXCEPT !.state = "ACTIVE"] ELSE Filled(o)[r]]
            /\ ActionBecomes(o[1], "EXECUTED")
            /\ PlanBecomes(PlanOf(o), "ACTIVE")
       ELSE order' = Filled(o) /\ UNCHANGED <<plan, action>>

Sell(o) == Fills(o) /\ lots' = Consume(LotsOn(lots, tx.instrument), Quantity(o))

\* close_trade_plan, after o filled.
Close(o) == /\ order' = CancelRoles(Filled(o), ProtectionsOf(PlanOf(o)))
            /\ PlanBecomes(PlanOf(o), "CLOSED")

FillReduction(o) ==
    /\ Sell(o) /\ o[2] = Reduction
    /\ order' = Filled(o)
    /\ IF Full(o) THEN ActionBecomes(o[1], "EXECUTED") ELSE UNCHANGED action
    /\ UNCHANGED plan

FillExit(o) ==
    /\ Sell(o) /\ o[2] = Exit
    /\ IF Full(o)
       THEN ActionBecomes(o[1], "EXECUTED") /\ Close(o)
       ELSE order' = Filled(o) /\ UNCHANGED <<plan, action>>

FillProtection(o) ==
    /\ Sell(o) /\ IsProtection(o)
    /\ IF LotSum(lots', LotsOf(lots', PlanOf(o))) = 0
       THEN Close(o)
       ELSE order' = Filled(o) /\ UNCHANGED plan
    /\ UNCHANGED action

ProcessRow(o) ==
    \/ SkipTakeProfit(o) \/ CancelEmpty(o) \/ Expire(o) \/ NotMatched(o)
    \/ FillEntry(o) \/ FillReduction(o) \/ FillExit(o) \/ FillProtection(o)

CommitObservation ==
    /\ tx.active /\ tx.todo = {}
    /\ tx' = Idle
    /\ UNCHANGED <<rows, passed>>
    /\ Commits

\* An error at any row, a failed statement or a crash: nothing is committed.
AbortObservation ==
    /\ tx.active
    /\ tx' = Idle
    /\ plan' = saved.plan /\ action' = saved.action
    /\ order' = saved.order /\ lots' = saved.lots
    /\ UNCHANGED <<passed, saved>>

Observation ==
    \/ \E i \in Instruments, l \in 1..MaxLiquidity : BeginObservation(i, l)
    \/ \E o \in tx.todo : ProcessRow(o)
    \/ CommitObservation
    \/ AbortObservation

Record(a) ==
    /\ NewAction(a)
    /\ ~tx.active
    /\ \E k \in Kinds, p \in Plans, q \in Quantities, stop \in BOOLEAN, t \in TargetSets :
          RecordPlan(a, k, p, q, stop, t)

Next ==
    \/ \E a \in Actions :
         \/ Record(a)
         \/ \E accept \in BOOLEAN : PersistValidation(a, Facts, accept)
         \/ Submit(a)
    \/ Observation

Spec == Init /\ [][Next]_vars

-----------------------------------------------------------------------------
ActionType == [state : ActionStates, kind : Kinds \cup {"NONE"}, plan : Plans \cup {NoPlan},
               quantity : Quantities, stop : BOOLEAN, targets : TargetSets]
OrderType == [state : OrderStates, quantity : Quantities, filled : Nat]
LotType == [plan : Plans, quantity : Nat]
RowsType == [plan : [Plans -> PlanStates], action : [Actions -> ActionType],
             order : [OrderIds -> OrderType], lots : Seq(LotType)]

\* Every row, the transaction's locals and the committed copy are well-formed.
TypeOK ==
    /\ Committed \in RowsType
    /\ saved \in RowsType
    /\ passed \subseteq Deadlines
    /\ tx \in [active : BOOLEAN, instrument : Instruments, todo : SUBSET OrderIds,
               liquidity : Nat, protectionMatched : BOOLEAN]
    /\ ~tx.active => saved = Committed

(***************************************************************************)
(* At most one plan of an instrument is under way: neither recording a new *)
(* plan nor any later transition of an older one can break it, although    *)
(* plans are reopened for recovery by orders that outlive them.            *)
(***************************************************************************)
OneActivePlan ==
    \A p, q \in Plans : SameInstrument(p, q) /\ PlanLive(p) /\ PlanLive(q) => p = q

(***************************************************************************)
(* What is committed of the plans follows PlanLifecycle, although several  *)
(* rows of an observation may move a plan, commands are submitted long     *)
(* after they were validated, and orders outlive the plan they belong to.  *)
(* An abort leaves no trace: a reader never sees a plan half moved.        *)
(***************************************************************************)
Lifecycle == INSTANCE PlanLifecycle WITH state <- saved.plan
KeepsLifecycle == Lifecycle!Spec

(***************************************************************************)
(* No order with a quantity of its own fills more than that quantity,      *)
(* however its fills are spread over observations.                         *)
(***************************************************************************)
NoOverfill ==
    \A o \in OrderIds : o[2] # ProtectiveStop => order[o].filled <= order[o].quantity

(***************************************************************************)
(* Managed lots account for every fill: what the entries bought minus what *)
(* every sell order sold is what the lots still hold, per instrument.      *)
(***************************************************************************)
FilledBy(i, S) ==
    SumFunctionOnSet([o \in OrderIds |-> order[o].filled],
                     {o \in OrderIds : /\ order[o].state # "ABSENT" /\ o[2] \in S
                                       /\ InstrumentOf[PlanOf(o)] = i})
LotsAccountForFills ==
    \A i \in Instruments : Managed(i) + FilledBy(i, Roles \ {Entry}) = FilledBy(i, {Entry})

(***************************************************************************)
(* A plan that waits for its entry has one working.  Otherwise nothing     *)
(* would ever move the plan on, and the instrument would be blocked.       *)
(***************************************************************************)
Working(p, role) == \E o \in OrderIds :
    o[2] = role /\ PlanOf(o) = p /\ order[o].state \in Open
PendingEntryIsWorking == \A p \in Plans : plan[p] = "ENTRY_PENDING" => Working(p, Entry)

(***************************************************************************)
(* TradePlanState lets an EXIT_PENDING plan go to CLOSED, and PROGRESS.md  *)
(* says that emptying what a plan manages closes it.  When a reduction     *)
(* accepted before the exit was submitted sells the rest, the exit is      *)
(* cancelled for want of anything to sell, and its plan waits for ever.    *)
(***************************************************************************)
PendingExitIsWorking ==
    tx = Idle => \A p \in Plans : plan[p] = "EXIT_PENDING" => Working(p, Exit)

(***************************************************************************)
(* Protections wait for the entry: while a plan's entry is working, none   *)
(* of the protections that came with it fills.                             *)
(***************************************************************************)
StagedUntilEntered ==
    \A e \in OrderIds : e[2] = Entry /\ order[e].state \in Open =>
        \A o \in OrderIds : IsProtection(o) /\ o[1] = e[1] =>
            order[o].state \in {"ABSENT", "STAGED", "CANCELLED"} /\ order[o].filled = 0

(***************************************************************************)
(* PROGRESS.md says a plan is closed after its stop or exit emptied what   *)
(* it manages.  An exit sells the oldest lots of the instrument, which may *)
(* be those of another plan.                                               *)
(***************************************************************************)
ClosedPlanIsFlat == \A p \in Plans : plan[p] = "CLOSED" => ManagedByPlan(p) = 0

(***************************************************************************)
(* EXECUTION_VALIDATION_V1.md: MODIFY_PROTECTION counts with the existing  *)
(* stop when it supplies none.  Submitting it cancels that stop.           *)
(***************************************************************************)
ExistingStopIsKept ==
    [][\A a \in Actions, o \in OrderIds :
          /\ action[a].kind = "MODIFY_PROTECTION" /\ ~action[a].stop
          /\ action[a].state = "VALIDATION_ACCEPTED" /\ action'[a].state = "EXECUTED"
          /\ o[2] = ProtectiveStop /\ PlanOf(o) = action[a].plan /\ order[o].state \in Open
          => order'[o].state \in Open]_vars
=============================================================================
