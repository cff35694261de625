--------------------------- MODULE PlanLifecycle ----------------------------
(* What the trade-plan ledger promises its readers: committed plans change    *)
(* one at a time, one plan of an instrument is under way at most, a plan goes *)
(* from proposal through validation to its entry and never back behind it,    *)
(* and an ended plan stays as it ended.  The states are those of              *)
(* TradePlanState, the moves those the repository commits.                    *)
CONSTANTS Plans, InstrumentOf

VARIABLE state  \* of each plan, "ABSENT" before it is recorded

Over == {"REJECTED", "CANCELLED", "CLOSED"}

\* The entry is bought, or ended with something bought: the plan may hold lots.
Entered == {"ACTIVE", "EXIT_PENDING", "RECOVERY_REQUIRED"}
Traded == {"ENTRY_PENDING"} \cup Entered

UnderWay(p) == state[p] \in {"PROPOSED", "ACCEPTED"} \cup Traded

Init == state = [p \in Plans |-> "ABSENT"]

Goes(p, from, to) == state[p] \in from /\ state' = [state EXCEPT ![p] = to]

Propose(p) ==
    /\ \A q \in Plans : InstrumentOf[q] = InstrumentOf[p] => ~UnderWay(q)
    /\ Goes(p, {"ABSENT"}, "PROPOSED")

\* A NO_TRADE is over as soon as it is recorded.
Decline(p) == Goes(p, {"ABSENT"}, "CLOSED")

Validate(p) == \E verdict \in {"ACCEPTED", "REJECTED"} : Goes(p, {"PROPOSED"}, verdict)
PlaceEntry(p) == Goes(p, {"ACCEPTED"}, "ENTRY_PENDING")
Enter(p) == Goes(p, {"ENTRY_PENDING"}, "ACTIVE")

\* A cancellation validated while the entry was pending may find it filled.
Cancel(p) == Goes(p, Traded, "CANCELLED")

Exit(p) == Goes(p, Entered, "EXIT_PENDING")
Recover(p) == Goes(p, Traded, "RECOVERY_REQUIRED")
Close(p) == Goes(p, Entered, "CLOSED")

Next == \E p \in Plans :
    \/ Propose(p) \/ Decline(p) \/ Validate(p) \/ PlaceEntry(p) \/ Enter(p)
    \/ Cancel(p) \/ Exit(p) \/ Recover(p) \/ Close(p)

Spec == Init /\ [][Next]_state
=============================================================================
