---------------------------- MODULE EmergencyCore ----------------------------
(***************************************************************************)
(* The emergency controller (ironpilot-adapters/src/emergency.rs) beside   *)
(* the paper store it works on, and the system state                       *)
(* (persist_system_state_change).                                          *)
(*                                                                         *)
(* execute runs in one transaction under the write gate, so it is one      *)
(* action; an error or a crash leaves the store as it was.  The steps      *)
(* REQUESTED, ENTRY_DISABLED and ORDERS_CANCELLED of an emergency action   *)
(* are therefore never committed as its state: it leaves the first         *)
(* transaction EXPOSURE_REDUCING or COMPLETED.                             *)
(***************************************************************************)
EXTENDS PaperStore

CONSTANTS Emergencies,    \* emergency action ids
          Observations,   \* market observation ids
          ObservationOn,  \* the instrument of an observation
          LiquidityIn,    \* the base liquidity it offers
          LimitIn,        \* the largest sale whose slippage cost stays within the limit
          Changes         \* the system state changes the callers prepare

SystemStates == {"STARTING", "RECOVERING", "OBSERVING", "ENTRY_ENABLED", "REDUCE_ONLY", "HALTED"}

\* SystemStateChange::new refuses any other; NONE is the missing row.
CanTransition ==
    { <<"NONE", "STARTING">>, <<"NONE", "HALTED">>,
      <<"STARTING", "RECOVERING">>, <<"STARTING", "HALTED">>,
      <<"RECOVERING", "OBSERVING">>, <<"RECOVERING", "REDUCE_ONLY">>, <<"RECOVERING", "HALTED">>,
      <<"OBSERVING", "ENTRY_ENABLED">>, <<"OBSERVING", "REDUCE_ONLY">>,
      <<"OBSERVING", "HALTED">>, <<"OBSERVING", "RECOVERING">>,
      <<"ENTRY_ENABLED", "OBSERVING">>, <<"ENTRY_ENABLED", "REDUCE_ONLY">>,
      <<"ENTRY_ENABLED", "HALTED">>, <<"ENTRY_ENABLED", "RECOVERING">>,
      <<"REDUCE_ONLY", "OBSERVING">>, <<"REDUCE_ONLY", "HALTED">>,
      <<"REDUCE_ONLY", "RECOVERING">>,
      <<"HALTED", "RECOVERING">> }

ASSUME EmergencyAssumption ==
    /\ ObservationOn \in [Observations -> Instruments]
    /\ LiquidityIn \in [Observations -> Nat \ {0}]
    /\ LimitIn \in [Observations -> Nat]
    /\ Changes \subseteq CanTransition

\* Ids are UUIDs: there are finitely many.
ASSUME IdsAssumption == IsFiniteSet(Plans) /\ IsFiniteSet(Emergencies) /\ IsFiniteSet(Observations)

VARIABLES system,     \* the system_state row
          emergency,  \* emergency[e]: state of the emergency_actions row
          sold        \* sold[<<e, p, ob>>]: the emergency_fills row, 0 if none

emergencyVars == <<system, emergency, sold>>
allVars == <<plan, action, order, lots, passed, tx, saved, system, emergency, sold>>

FillIds == Emergencies \X Plans \X Observations

EmergencyInit ==
    /\ Init
    /\ system = "NONE"
    /\ emergency = [e \in Emergencies |-> "NONE"]
    /\ sold = [f \in FillIds |-> 0]

-----------------------------------------------------------------------------
\* mutant: the expected state is not compared
MutantChangeSystemState(expected, next) ==
    /\ Call
    /\ system' = next
    /\ UNCHANGED <<rows, saved, emergency, sold>>

\* The change was built from a state read earlier: `expected` may be stale, and
\* the call fails unless it is still the stored one.
ChangeSystemState(expected, next) ==
    /\ Call
    /\ system = expected
    /\ system' = next
    /\ UNCHANGED <<rows, saved, emergency, sold>>

-----------------------------------------------------------------------------
(* execute *)

\* validate_observations: one per instrument.
Usable(obs) == \A b, c \in obs : ObservationOn[b] = ObservationOn[c] => b = c

\* What e could sell against ob: the plans that hold open lots and have no
\* emergency_fills row for ob yet.
Sellable(e, ob) == {p \in Plans : /\ InstrumentOf[p] = ObservationOn[ob]
                                  /\ \E k \in LotsOf(lots, p) : lots[k].quantity > 0
                                  /\ sold[<<e, p, ob>>] = 0}

(***************************************************************************)
(* The loop over managed_plans, in the order of plan ids (random numbers:  *)
(* any order).  Each plan is offered the liquidity those before it left,   *)
(* and sells all of what it is offered and holds, or nothing when the      *)
(* slippage of that sale would cost more than the limit.                   *)
(***************************************************************************)
SellsAgainst(e, ob, q) ==
    LET S == Sellable(e, ob) IN
    \E rank \in [S -> Plans] :
        /\ \A p, r \in S : rank[p] = rank[r] => p = r
        /\ \A p \in S :
              LET before == {r \in S : rank[r] < rank[p]}
                  left == LiquidityIn[ob] - SumFunctionOnSet(q, before)
                  fill == Capped(ManagedByPlan(p), left)
              IN q[p] = IF fill > LimitIn[ob] THEN 0 ELSE fill

\* q is what each plan sells in an execution with the observations obs.
Sells(e, obs, q) ==
    /\ \A p \in Plans : q[p] > 0 => \E ob \in obs : p \in Sellable(e, ob)
    /\ \A ob \in obs : SellsAgainst(e, ob, q)

\* mutant: every order that ever was is cancelled
MutantCancelAll == [o \in OrderIds |-> IF order[o].state = "ABSENT" THEN order[o]
                                       ELSE [order[o] EXCEPT !.state = "CANCELLED"]]

\* The first execution: every order and every submitted action is stopped,
\* every plan with exposure waits for recovery.
CancelAll == CancelRoles(order, OrderIds)

StoppedAction(a) ==
    IF action[a].state = "EXECUTION_PENDING"
    THEN [action[a] EXCEPT !.state = "RECOVERY_REQUIRED"] ELSE action[a]

RecoveringPlan(p) ==
    IF PlanLive(p) /\ ManagedByPlan(p) > 0 THEN "RECOVERY_REQUIRED" ELSE plan[p]

DisableEntry(e) ==
    IF emergency[e] = "NONE"
    THEN /\ system' = "HALTED"
         /\ order' = CancelAll
         /\ action' = [a \in Actions |-> StoppedAction(a)]
    ELSE UNCHANGED <<system, order, action>>

\* A plan that sells all it holds is closed, whatever its state was.
SoldOut(p, q) == q[p] > 0 /\ q[p] = ManagedByPlan(p)

\* mutant: a partial sale is not taken from the lots
MutantSellLots(q) ==
    lots' = [k \in DOMAIN lots |-> IF SoldOut(lots[k].plan, q)
                                   THEN [lots[k] EXCEPT !.quantity = 0] ELSE lots[k]]

SellLots(q) ==
    lots' = [k \in DOMAIN lots |->
                Consume(LotsOf(lots, lots[k].plan), q[lots[k].plan])[k]]

\* mutant: only the lots of live plans are counted
MutantFlat(lts) == \A k \in DOMAIN lts : PlanLive(lts[k].plan) => lts[k].quantity = 0

\* remaining_managed_plan_count = 0
Flat(lts) == \A k \in DOMAIN lts : lts[k].quantity = 0

\* A completed action is not executed again: the call reports a duplicate.
Execute(e, obs, q) ==
    /\ Call
    /\ emergency[e] # "COMPLETED"
    /\ Usable(obs)
    /\ Sells(e, obs, q)
    /\ DisableEntry(e)
    /\ SellLots(q)
    /\ plan' = [p \in Plans |-> IF SoldOut(p, q) THEN "CLOSED"
                                ELSE IF emergency[e] = "NONE" THEN RecoveringPlan(p)
                                ELSE plan[p]]
    /\ sold' = [f \in FillIds |-> IF f[1] = e /\ f[3] \in obs /\ f[2] \in Sellable(e, f[3])
                                  THEN q[f[2]] ELSE sold[f]]
    /\ emergency' = [emergency EXCEPT ![e] =
                        IF Flat(lots') THEN "COMPLETED" ELSE "EXPOSURE_REDUCING"]
    /\ Commits

EmergencyNext ==
    \/ Next /\ UNCHANGED emergencyVars
    \/ \E c \in Changes : ChangeSystemState(c[1], c[2])
    \/ \E e \in Emergencies, obs \in SUBSET Observations, q \in [Plans -> Quantities] :
          Execute(e, obs, q)

EmergencySpec == EmergencyInit /\ [][EmergencyNext]_allVars

-----------------------------------------------------------------------------
\* The rows of the system state and of the emergency actions are well-formed.
EmergencyTypeOK ==
    /\ system \in SystemStates \cup {"NONE"}
    /\ emergency \in [Emergencies -> {"NONE", "EXPOSURE_REDUCING", "COMPLETED"}]
    /\ sold \in [FillIds -> Quantities]

(***************************************************************************)
(* Managed assets only: what the entries bought, minus what the ordinary   *)
(* orders and every emergency sold, is what the lots still hold.  An       *)
(* emergency that sold more than a plan's lots, or sold the same lot as an *)
(* order, would break it.                                                  *)
(***************************************************************************)
EmergencySold(i) == SumFunctionOnSet(sold, {f \in FillIds : InstrumentOf[f[2]] = i})
EmergencyAccountsForLots ==
    \A i \in Instruments :
        Managed(i) + FilledBy(i, Roles \ {Entry}) + EmergencySold(i) = FilledBy(i, {Entry})

(***************************************************************************)
(* An emergency action is COMPLETED only by an execution that leaves no    *)
(* managed lot, also on instruments the execution had no observation of.   *)
(***************************************************************************)
CompletedMeansFlat ==
    [][\A e \in Emergencies : emergency[e] # "COMPLETED" /\ emergency'[e] = "COMPLETED"
                              => \A p \in Plans : ManagedByPlan(p)' = 0]_allVars

(***************************************************************************)
(* A halt is not overwritten: a state change prepared before an emergency  *)
(* does not take the system out of HALTED after it; only recovery does.    *)
(***************************************************************************)
HaltIsNotOverwritten ==
    [][system = "HALTED" => system' \in {"HALTED", "RECOVERING"}]_allVars

(***************************************************************************)
(* A committed CANCELLED, FILLED or EXPIRED order never changes again:     *)
(* neither a later call of its plan nor an emergency works it once more.   *)
(***************************************************************************)
TerminalOrderIsFinal ==
    [][\A o \in OrderIds : saved.order[o].state \in {"CANCELLED", "FILLED", "EXPIRED"}
                           => saved'.order[o] = saved.order[o]]_allVars

(***************************************************************************)
(* The controller persists ENTRY_DISABLED after forcing the system state   *)
(* to HALTED: no entry order is placed after an emergency while the system *)
(* is halted.  The submission of a validated plan does not read the system *)
(* state.                                                                  *)
(***************************************************************************)
NoEntryWhileHalted ==
    [][\A o \in OrderIds : /\ system = "HALTED" /\ \E e \in Emergencies : emergency[e] # "NONE"
                           /\ o[2] = Entry /\ order[o].state = "ABSENT"
                           => order'[o].state = "ABSENT"]_allVars

(***************************************************************************)
(* EMERGENCY_CORE_V1.md: replaying the same command and observation        *)
(* produces no additional fill.  The fill of another plan of the           *)
(* instrument is not a replay for the table's key, and the liquidity of    *)
(* the observation is available to it again.                               *)
(***************************************************************************)
ReplayAddsNoFill ==
    [][\A e \in Emergencies, ob \in Observations, p, r \in Plans :
          sold[<<e, p, ob>>] > 0 => sold'[<<e, r, ob>>] = sold[<<e, r, ob>>]]_allVars
=============================================================================
