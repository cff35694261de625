---------------------------- MODULE TestnetSmoke ----------------------------
(* run_bybit_testnet_protocol_smoke and recover_bybit_testnet_owned_orders    *)
(* against the Testnet exchange: a limit buy that is cancelled, a market buy, *)
(* the sale of what it bought, and on any error the clean-up of every order   *)
(* with the project's prefix.  A call may time out with or without its        *)
(* effect, orders match at any moment, and the process may stop.              *)
(*                                                                            *)
(* The exchange is external.  A request that timed out does not arrive later: *)
(* its receive window is shorter than SDK_CALL_TIMEOUT.  Runs follow one      *)
(* another.  Abstracted: prices, and the facts other than executions, which   *)
(* are the subject of PrivateSync.                                            *)
EXTENDS Integers, FiniteSets, Functions

CONSTANTS
    MaxRuns,    \* runs of the smoke (a bound of the model)
    BuyQty,     \* base quantity of one execution of a buy
    BuyFee,     \* its fee, in the base asset
    FillParts,  \* executions that fill the market buy
    Minimum     \* smallest quantity the exchange sells

ASSUME QuantityAssumption ==
    /\ MaxRuns \in Nat /\ FillParts \in Nat \ {0}
    /\ BuyQty \in Nat \ {0} /\ BuyFee \in 0..BuyQty /\ Minimum \in Nat \ {0}

\* owned_link: the cancel probe, the fill probe, the emergency exit and the recovery
\* sale of each run.  The account's owner has a buy order of their own.
Purposes == {"c", "f", "e", "r"}
Owned == (1..MaxRuns) \X Purposes
Foreign == <<0, "x">>
Links == Owned \cup {Foreign}
IsBuy(l) == l[2] \in {"c", "f", "x"}

VARIABLES
    orders,      \* exchange: [status, qty, parts] of each order link
    executions,  \* exchange: [link, part, qty] of every execution
    inbox,       \* executions the private stream has not delivered yet
    acks,        \* bybit_order_acks
    intents,     \* bybit_testnet_order_intents: quantity of each link
    facts,       \* bybit_execution_facts
    proof,       \* bybit_testnet_smoke_evidence: <<run, kind>>
    run          \* the process: its run, its next step and what it has read

exchange == <<orders, executions, inbox>>
store == <<acks, intents, facts, proof>>
vars == <<orders, executions, inbox, acks, intents, facts, proof, run>>

NoOrder == [status |-> "none", qty |-> 0]
NoIntents == [l \in {} |-> 0]

Init ==
    /\ orders = [l \in Links |-> IF l = Foreign THEN [status |-> "open", qty |-> BuyQty]
                                                ELSE NoOrder]
    /\ executions = {} /\ inbox = {}
    /\ acks = {} /\ intents = NoIntents /\ facts = {} /\ proof = {}
    /\ run = [id |-> 0, pc |-> "ended", todo |-> {}, qty |-> 0, outcome |-> "none"]

Sum(E) == SumFunction([e \in E |-> e.qty])
\* What an execution leaves in the wallet, and what a set of them leaves.
Net(e) == IF IsBuy(e.link) THEN e.qty - BuyFee ELSE -e.qty
NetOf(E) == SumFunction([e \in E |-> Net(e)])

-----------------------------------------------------------------------------
(* The exchange.                                                              *)

PartsOf(l) == {e \in executions : e.link = l}
Left(l) == orders[l].qty - Sum(PartsOf(l))

\* A buy is filled in parts, a sale at once.
Match(l) ==
    LET qty == IF IsBuy(l) THEN BuyQty ELSE Left(l)
        e == [link |-> l, part |-> Cardinality(PartsOf(l)) + 1, qty |-> qty]
    IN
    /\ orders[l].status = "open"
    /\ executions' = executions \cup {e}
    /\ inbox' = inbox \cup {e}
    /\ orders' = IF qty = Left(l) THEN [orders EXCEPT ![l].status = "filled"] ELSE orders
    /\ UNCHANGED <<store, run>>

\* A market order finds no more liquidity.
RestIsCancelled(l) ==
    /\ orders[l].status = "open" /\ l[2] \in {"f", "e", "r"}
    /\ orders' = [orders EXCEPT ![l].status = "cancelled"]
    /\ UNCHANGED <<executions, inbox, store, run>>

-----------------------------------------------------------------------------
(* The run: steps, and calls that fail.                                       *)

At(pc) == run.pc = pc
GoTo(pc) == run' = [run EXCEPT !.pc = pc]
End(outcome) == run' = [run EXCEPT !.pc = "ended", !.outcome = outcome,
                                   !.todo = {}, !.qty = 0]

Cleaning == {"cleanup", "cleanup_cancel", "cleanup_sell"}
\* An error of the run starts the clean-up, an error of the clean-up ends it.
Fail ==
    IF run.pc \in Cleaning THEN End("cleanup_failed")
    ELSE IF run.pc \in {"recover", "recover_cancel"} THEN End("recovery_failed")
    ELSE run' = [run EXCEPT !.pc = "cleanup", !.todo = {}, !.qty = 0]

Start ==
    /\ At("ended") /\ run.id < MaxRuns
    /\ run' = [id |-> run.id + 1, pc |-> "submit_c", todo |-> {}, qty |-> 0,
               outcome |-> "none"]
    /\ UNCHANGED <<exchange, store>>

\* No key, funds, market facts, connection or subscription; any later call that has no
\* effect on the exchange fails the same way.
CallFails ==
    /\ ~At("ended")
    /\ Fail
    /\ UNCHANGED <<exchange, store>>

Link(purpose) == <<run.id, purpose>>

IsDuplicate(l) == l \in DOMAIN intents

\* mutant: the acknowledgement is not recorded
MutantAckStep == [c |-> "intent_c", f |-> "intent_f", e |-> "intent_e"]

AckStep == [c |-> "ack_c", f |-> "ack_f", e |-> "ack_e"]
IntentStep == [c |-> "intent_c", f |-> "intent_f", e |-> "intent_e"]

PlaceOrder(l, qty) ==
    /\ orders[l] = NoOrder  \* the exchange knows an orderLinkId once
    /\ orders' = [orders EXCEPT ![l] = [status |-> "open", qty |-> qty]]
    /\ UNCHANGED <<executions, inbox>>

\* submit_once up to the answer of place_order: the answer may not come in time.
SubmitOnce(pc, l, qty, next) ==
    /\ At(pc)
    /\ IF IsDuplicate(l)
       THEN IF intents[l] = qty THEN GoTo(next) /\ UNCHANGED exchange
                                ELSE Fail /\ UNCHANGED exchange  \* IdempotencyConflict
       ELSE PlaceOrder(l, qty) /\ (GoTo(AckStep[l[2]]) \/ Fail)
    /\ UNCHANGED store

RecordAck(purpose) ==
    /\ At(AckStep[purpose])
    /\ acks' = acks \cup {Link(purpose)}
    /\ GoTo(IntentStep[purpose])
    /\ UNCHANGED <<exchange, intents, facts, proof>>

AfterIntent == [c |-> "again_c", f |-> "pump_f", e |-> "evidence"]

RecordIntent(purpose) ==
    /\ At(IntentStep[purpose])
    /\ intents' = [l \in DOMAIN intents \cup {Link(purpose)} |->
                       IF l = Link(purpose) THEN orders[l].qty ELSE intents[l]]
    /\ GoTo(AfterIntent[purpose])
    /\ UNCHANGED <<exchange, acks, facts, proof>>

SubmitCancelProbe == SubmitOnce("submit_c", Link("c"), BuyQty, "unreachable")
SubmitAgain == SubmitOnce("again_c", Link("c"), BuyQty, "query")
SubmitFillProbe == SubmitOnce("submit_f", Link("f"), FillParts * BuyQty, "unreachable")

\* query_order: any order that was not rejected.
QueryOrder ==
    /\ At("query")
    /\ IF orders[Link("c")].status # "none" THEN GoTo("cancel") ELSE Fail
    /\ UNCHANGED <<exchange, store>>

\* The exchange refuses to cancel what is filled; the answer may not come in time.
Cancel(l, next) ==
    /\ IF orders[l].status = "open"
       THEN /\ orders' = [orders EXCEPT ![l].status = "cancelled"]
            /\ next \/ Fail
       ELSE Fail /\ UNCHANGED orders
    /\ UNCHANGED <<executions, inbox, store>>

CancelProbe == At("cancel") /\ Cancel(Link("c"), GoTo("pump_c"))

\* pump_private_events takes what arrives in its window; an event that fails ends it.
AfterPump == [pump_c |-> "submit_f", pump_f |-> "managed", pump_e |-> "counts"]

PumpPrivateEvents ==
    /\ run.pc \in DOMAIN AfterPump
    /\ \E arrived \in SUBSET inbox :
        /\ facts' = facts \cup arrived
        /\ inbox' = inbox \ arrived
    /\ GoTo(AfterPump[run.pc]) \/ Fail
    /\ UNCHANGED <<orders, executions, acks, intents, proof>>

-----------------------------------------------------------------------------
(* emergency_close.                                                           *)

Managed == NetOf({e \in facts : e.link = Link("f")})

\* managed_bought_quantity is what the private facts say the fill probe bought.
ManagedBoughtQuantity ==
    /\ At("managed")
    /\ IF Managed > 0 THEN run' = [run EXCEPT !.pc = "emergency", !.qty = Managed] ELSE Fail
    /\ UNCHANGED <<exchange, store>>

\* mutant: every open order is taken for the runner's own
MutantOpenOwned == {l \in Links : orders[l].status = "open"}
OpenOwned == {l \in Owned : orders[l].status = "open"}

\* The list is read once, then its orders are cancelled one after the other.
ListOpenOwned(pc, next) ==
    /\ At(pc)
    /\ run' = [run EXCEPT !.pc = next, !.todo = OpenOwned]
    /\ UNCHANGED <<exchange, store>>

CancelListed(pc, next) ==
    /\ At(pc)
    /\ \/ /\ run.todo = {}
          /\ next
          /\ UNCHANGED <<exchange, store>>
       \/ \E l \in run.todo : Cancel(l, run' = [run EXCEPT !.todo = @ \ {l}])

EmergencyList == ListOpenOwned("emergency", "emergency_cancel")
EmergencyCancel == CancelListed("emergency_cancel", GoTo("submit_e"))
SubmitExit ==
    /\ run.qty >= Minimum
    /\ SubmitOnce("submit_e", Link("e"), run.qty, "unreachable")

EmergencyEvidence ==
    /\ At("evidence")
    /\ proof' = proof \cup {<<run.id, "EMERGENCY_COMMAND_ACCEPTED">>}
    /\ GoTo("pump_e")
    /\ UNCHANGED <<exchange, acks, intents, facts>>

-----------------------------------------------------------------------------
(* The end of a run that did not fail.                                        *)

EvidenceCounts ==
    /\ At("counts")
    /\ IF Cardinality(facts) >= 2 THEN GoTo("reconcile") ELSE Fail
    /\ UNCHANGED <<exchange, store>>

\* The private stream is closed, then the snapshot decides.
\* mutant: the open orders are not looked at
MutantConverged == TRUE
Converged == OpenOwned = {}

Reconcile ==
    /\ At("reconcile")
    /\ inbox' = {}
    /\ IF Converged THEN GoTo("report") ELSE Fail
    /\ UNCHANGED <<orders, executions, store>>

Report ==
    /\ At("report")
    /\ proof' = proof \cup {<<run.id, "PROTOCOL_SMOKE_COMPLETED">>}
    /\ End("reported")
    /\ UNCHANGED <<exchange, acks, intents, facts>>

-----------------------------------------------------------------------------
(* The clean-up after an error, and the recovery command.                     *)

CleanupList == ListOpenOwned("cleanup", "cleanup_cancel")
CleanupCancel == CancelListed("cleanup_cancel", GoTo("cleanup_sell"))

\* mutant: the executions of the account's history are not filtered by their order link
MutantOwnedExecutions == executions
OwnedExecutions == {e \in executions : e.link \in Owned}

\* cleanup_owned_testnet_state sells what all owned executions leave; the recovery
\* order gets neither an acknowledgement nor an intent.
CleanupSell ==
    /\ At("cleanup_sell")
    /\ IF NetOf(OwnedExecutions) >= Minimum
       THEN PlaceOrder(Link("r"), NetOf(OwnedExecutions)) /\ (End("cleaned") \/ Fail)
       ELSE End("cleaned") /\ UNCHANGED exchange
    /\ UNCHANGED store

StartRecovery ==
    /\ At("ended")
    /\ run' = [run EXCEPT !.pc = "recover", !.outcome = "none"]
    /\ UNCHANGED <<exchange, store>>

RecoveryList == ListOpenOwned("recover", "recover_cancel")
RecoveryCancel == CancelListed("recover_cancel", End("recovered"))

Crash ==
    /\ ~At("ended")
    /\ End("crashed")
    /\ inbox' = {}
    /\ UNCHANGED <<orders, executions, store>>

Next ==
    \/ \E l \in Links : Match(l) \/ RestIsCancelled(l)
    \/ Start
    \/ CallFails
    \/ SubmitCancelProbe \/ SubmitAgain \/ SubmitFillProbe \/ SubmitExit
    \/ \E purpose \in {"c", "f", "e"} : RecordAck(purpose) \/ RecordIntent(purpose)
    \/ QueryOrder
    \/ CancelProbe
    \/ PumpPrivateEvents
    \/ ManagedBoughtQuantity
    \/ EmergencyList \/ EmergencyCancel
    \/ EmergencyEvidence
    \/ EvidenceCounts
    \/ Reconcile
    \/ Report
    \/ CleanupList \/ CleanupCancel \/ CleanupSell
    \/ StartRecovery \/ RecoveryList \/ RecoveryCancel
    \/ Crash

Spec == Init /\ [][Next]_vars

-----------------------------------------------------------------------------
(* Properties.                                                                *)

Executions == [link : Links, part : Nat, qty : Nat]
Pcs == {"ended", "submit_c", "again_c", "query", "cancel", "submit_f", "managed", "emergency",
        "emergency_cancel", "submit_e", "evidence", "counts", "reconcile", "report", "recover",
        "recover_cancel"} \cup Cleaning \cup DOMAIN AfterPump
       \cup {f[x] : f \in {AckStep, IntentStep}, x \in {"c", "f", "e"}}

Outcomes == {"none", "reported", "cleaned", "cleanup_failed", "recovered", "recovery_failed",
             "crashed"}

TypeOK ==
    /\ orders \in [Links -> [status : {"none", "open", "filled", "cancelled"}, qty : Nat]]
    /\ executions \subseteq Executions
    /\ inbox \subseteq executions /\ facts \subseteq executions
    /\ acks \subseteq Owned /\ DOMAIN intents \subseteq Owned
    /\ proof \subseteq (1..MaxRuns) \X {"EMERGENCY_COMMAND_ACCEPTED", "PROTOCOL_SMOKE_COMPLETED"}
    /\ run \in [id : 0..MaxRuns, pc : Pcs, todo : SUBSET Owned, qty : Nat, outcome : Outcomes]

\* docs/BYBIT_TESTNET_PROTOCOL_SMOKE_V1.md: the runner "never sells pre-existing wallet
\* BTC" and cancels "only open `ip4-` orders".  Exit, clean-up and their matches, over all
\* runs and whatever timed out, never sell more than the orders with the prefix bought, nor
\* leave orders open that could, although what the owner's order bought is in the same
\* history and the same private facts; and nobody cancels the owner's order.
TouchesOnlyItsOwn ==
    LET own == {e \in executions : e.link # Foreign}
        selling == {l \in Owned : ~IsBuy(l) /\ orders[l].status = "open"}
    IN
    /\ NetOf(own) >= SumFunction([l \in selling |-> Left(l)])
    /\ orders[Foreign].status # "cancelled"

\* An order the store does not know is the answer that a call timed out on, a crash cut
\* off, or a recovery sale: one at most for each run.
OneUnrecordedOrderPerRun ==
    /\ \A l \in DOMAIN intents : l \in acks /\ orders[l].qty = intents[l]
    /\ \A i \in 1..run.id :
        Cardinality({l \in Owned : l[1] = i /\ l[2] # "r" /\ l \notin DOMAIN intents
                                   /\ orders[l] # NoOrder}) <= 1

\* A run that reported leaves none of its orders open, nor one of an earlier run; a run
\* that cleaned up after itself leaves at most its own recovery sale.
EndedRunsLeaveNothingOpen ==
    /\ run.outcome = "reported" => OpenOwned = {}
    /\ run.outcome = "cleaned" => OpenOwned \subseteq {Link("r")}
=============================================================================
