---------------------------- MODULE PaperRuntime ----------------------------
(* AiPaperRuntime::run_cycle over its provider and its store.  Every step of  *)
(* a run is one transaction or one call of the provider; a run may stop at    *)
(* any of them, another run of the same cycle may be under way, and the       *)
(* process may restart between any two.                                       *)
(*                                                                            *)
(* Abstracted: a plan is what run_cycle tells apart (inert or executable) and *)
(* a validation is its outcome; what submit and process_observation do to the *)
(* orders is the subject of PaperStore.                                       *)
EXTENDS AiProvider, Sequences, FiniteSets

CONSTANTS
    Cycles,           \* PaperRuntimeCycleId
    ContextOf,        \* the Decision Context of a cycle's facts
    Attempts,         \* number of attempts in a cycle's input, 1 or 2
    Observations,     \* number of observations in a cycle's input
    NoCycle

ASSUME CycleAssumption ==
    /\ ContextOf \in [Cycles -> Contexts]
    /\ Attempts \in 1..2
    /\ Observations \in Nat
    /\ NoCycle \notin Cycles

VARIABLES
    events,      \* paper_runtime_events: the event types of each cycle in sequence
    replanRows,  \* Contexts with a replan in ai_provider_attempts
    plans,       \* rows of the plan ledger: <<cycle, attempt>>
    decisions,   \* rows of execution_validations: <<cycle, attempt, outcome>>
    submitted,   \* execution requests submitted: <<cycle, attempt>>
    applied,     \* number of observations applied for each cycle
    reports,     \* the outcome in the report of each completed cycle
    run          \* the run_cycle call of each caller

storeVars == <<events, replanRows, plans, decisions, submitted, applied, reports>>
vars == <<providerVars, storeVars, run>>

EventTypes ==
    {"CONTEXT_REJECTED", "CONTEXT_BUILT", "PROVIDER_NO_ACTION", "AI_PLAN_RECORDED",
     "ACCEPT", "REJECT", "EXECUTION_SUBMITTED", "PAPER_OBSERVATION_APPLIED", "COMPLETED"}

\* PaperRuntimeOutcome; "Inert" is NoTrade or Hold.  A run that is about to append
\* COMPLETED is at the outcome it reports.
Outcomes == {"ContextRejected", "ProviderNoAction", "ValidationRejected", "Inert", "Executed"}

NoRun == [pc |-> "idle", cycle |-> NoCycle, sequence |-> 0,
          attempt |-> 1, observed |-> 0]

Init ==
    /\ ProviderInit
    /\ events = [c \in Cycles |-> <<>>]
    /\ replanRows = {}
    /\ plans = {}
    /\ decisions = {}
    /\ submitted = {}
    /\ applied = [c \in Cycles |-> 0]
    /\ reports = [c \in Cycles |-> "none"]
    /\ run = [r \in Callers |-> NoRun]

CycleOf(r) == run[r].cycle
Key(r) == <<run[r].cycle, run[r].attempt>>
At(r, pc) == run[r].pc = pc
GoTo(r, pc) == run' = [run EXCEPT ![r].pc = pc]
Ended(r) == run' = [run EXCEPT ![r] = NoRun]

Completed(c) == \E i \in DOMAIN events[c] : events[c][i] = "COMPLETED"

-----------------------------------------------------------------------------
(* The two reads before a cycle starts.                                       *)

RunCycle(r, c) ==
    /\ At(r, "idle")
    /\ IF Completed(c)  \* the stored report is returned
       THEN Ended(r)
       ELSE run' = [run EXCEPT ![r] = [NoRun EXCEPT !.pc = "exists", !.cycle = c]]
    /\ UNCHANGED <<providerVars, storeVars>>

CycleExists(r) ==
    /\ At(r, "exists")
    /\ IF events[CycleOf(r)] # <<>>  \* RecoveryRequired
       THEN Ended(r) ELSE GoTo(r, "build")
    /\ UNCHANGED <<providerVars, storeVars>>

-----------------------------------------------------------------------------
(* append_event: the sequence number is the run's own, and (cycle, sequence)  *)
(* identifies the event, so an insert behind another run's fails.             *)

\* mutant: the next number is read from the table
MutantAppend1(r, type, pc) ==
    LET c == CycleOf(r) IN
    /\ events' = [events EXCEPT ![c] = Append(@, type)]
    /\ run' = [run EXCEPT ![r].sequence = Len(events[c]) + 1, ![r].pc = pc]

Append1(r, type, pc) ==
    LET c == CycleOf(r) IN
    /\ run[r].sequence = Len(events[c])
    /\ events' = [events EXCEPT ![c] = Append(@, type)]
    /\ run' = [run EXCEPT ![r].sequence = @ + 1, ![r].pc = pc]

Conflict(r) ==
    /\ run[r].pc \in {"build", "no_action", "recorded", "decided", "accepted", "submitted",
                      "observed"} \cup Outcomes
    /\ run[r].sequence # Len(events[CycleOf(r)])
    /\ Ended(r)
    /\ UNCHANGED <<providerVars, storeVars>>

Logs(r, type, pc) ==
    /\ Append1(r, type, pc)
    /\ UNCHANGED <<providerVars, replanRows, plans, decisions, submitted, applied, reports>>

BuildContext(r) ==
    /\ At(r, "build")
    /\ \/ Logs(r, "CONTEXT_REJECTED", "ContextRejected")
       \/ Logs(r, "CONTEXT_BUILT", "ask")

-----------------------------------------------------------------------------
(* One attempt: the provider, its evidence, the plan ledger, the validation.  *)

AskProvider(r) ==
    /\ At(r, "ask")
    /\ GeneratePlan(r, ContextOf[CycleOf(r)], run[r].attempt > 1)
    /\ GoTo(r, "asked")
    /\ UNCHANGED storeVars

AfterEvidence(r) == IF call[r].result.plan THEN "ledger" ELSE "no_action"

ReceiveResult(r) ==
    /\ At(r, "asked")
    /\ call[r].pc = "done"
    /\ IF call[r].result.evidence
       THEN GoTo(r, "evidence") /\ UNCHANGED call
       ELSE GoTo(r, AfterEvidence(r)) /\ call' = [call EXCEPT ![r] = Idle]
    /\ UNCHANGED <<today, expired, budget, permit, replanned, bill, storeVars>>

\* persist_ai_provider_attempt refuses an answer received after the Context
\* expired, and the index one_replan_per_ai_context a second replan of a Context.
\* mutant: the index on replans is missing
MutantEvidenceAccepted(r) == ~call[r].result.late

EvidenceAccepted(r) ==
    /\ ~call[r].result.late
    /\ call[r].replan => call[r].context \notin replanRows

PersistEvidence(r) ==
    /\ At(r, "evidence")
    /\ IF EvidenceAccepted(r)
       THEN /\ replanRows' = IF call[r].replan THEN replanRows \cup {call[r].context}
                                               ELSE replanRows
            /\ GoTo(r, AfterEvidence(r))
       ELSE /\ Ended(r)
            /\ UNCHANGED replanRows
    /\ call' = [call EXCEPT ![r] = Idle]
    /\ UNCHANGED <<today, expired, budget, permit, replanned, bill,
                   events, plans, decisions, submitted, applied, reports>>

ProviderNoAction(r) == At(r, "no_action") /\ Logs(r, "PROVIDER_NO_ACTION", "ProviderNoAction")

\* The ledger keeps one plan for an action: the same one again changes nothing.
PersistPlan(r) ==
    /\ At(r, "ledger")
    /\ plans' = plans \cup {Key(r)}
    /\ GoTo(r, "recorded")
    /\ UNCHANGED <<providerVars, events, replanRows, decisions, submitted, applied, reports>>

PlanRecorded(r) == At(r, "recorded") /\ Logs(r, "AI_PLAN_RECORDED", "validate")

\* The store refuses a decision that contradicts the one it has for the action.
PersistValidation(r) ==
    /\ At(r, "validate")
    /\ \E outcome \in {"ACCEPT", "REJECT"} :
        /\ \A d \in decisions : <<d[1], d[2]>> = Key(r) => d[3] = outcome
        /\ decisions' = decisions \cup {<<CycleOf(r), run[r].attempt, outcome>>}
    /\ GoTo(r, "decided")
    /\ UNCHANGED <<providerVars, events, replanRows, plans, submitted, applied, reports>>

Accepted(c, a) == <<c, a, "ACCEPT">> \in decisions

\* An accepted plan that does nothing completes the cycle.
DecisionLogged(r) ==
    /\ At(r, "decided")
    /\ IF Accepted(CycleOf(r), run[r].attempt)
       THEN \E pc \in {"Inert", "submit"} : Logs(r, "ACCEPT", pc)
       ELSE Logs(r, "REJECT", "rejected")

NextAttempt(r) ==
    /\ At(r, "rejected")
    /\ run' = IF run[r].attempt < Attempts
              THEN [run EXCEPT ![r].attempt = @ + 1, ![r].pc = "ask"]
              ELSE [run EXCEPT ![r].pc = "ValidationRejected"]
    /\ UNCHANGED <<providerVars, storeVars>>

-----------------------------------------------------------------------------
(* Execution and the end of the cycle.                                        *)

AfterObservation(n) == IF n < Observations THEN "observe" ELSE "Executed"

\* mutant: the event is written before the request
MutantSubmit(r) ==
    /\ At(r, "submit")
    /\ Logs(r, "EXECUTION_SUBMITTED", AfterObservation(0))

Submit(r) ==
    /\ At(r, "submit")
    /\ submitted' = submitted \cup {Key(r)}
    /\ GoTo(r, "accepted")
    /\ UNCHANGED <<providerVars, events, replanRows, plans, decisions, applied, reports>>

ExecutionSubmitted(r) ==
    /\ At(r, "accepted")
    /\ Logs(r, "EXECUTION_SUBMITTED", AfterObservation(0))

ProcessObservation(r) ==
    /\ At(r, "observe")
    /\ applied' = [applied EXCEPT ![CycleOf(r)] = @ + 1]
    /\ run' = [run EXCEPT ![r].observed = @ + 1, ![r].pc = "observed"]
    /\ UNCHANGED <<providerVars, events, replanRows, plans, decisions, submitted, reports>>

ObservationApplied(r) ==
    /\ At(r, "observed")
    /\ Logs(r, "PAPER_OBSERVATION_APPLIED", AfterObservation(run[r].observed))

Complete(r) ==
    /\ run[r].pc \in Outcomes
    /\ reports' = [reports EXCEPT ![CycleOf(r)] = run[r].pc]
    /\ Append1(r, "COMPLETED", "return")
    /\ UNCHANGED <<providerVars, replanRows, plans, decisions, submitted, applied>>

ReturnReport(r) ==
    /\ At(r, "return")
    /\ Ended(r)
    /\ UNCHANGED <<providerVars, storeVars>>

-----------------------------------------------------------------------------
(* Faults.                                                                    *)

\* Any transaction may fail (the lease is lost, the disk is full, the entry is
\* refused): the run returns the error and the store is as it was.
StorageFails(r) ==
    /\ run[r].pc \notin {"idle", "ask", "asked", "rejected", "return"}
    /\ Ended(r)
    /\ call' = [call EXCEPT ![r] = Idle]
    /\ UNCHANGED <<today, expired, budget, permit, replanned, bill, storeVars>>

\* The caller drops run_cycle while the request is in flight.
Cancel(r) ==
    /\ At(r, "asked")
    /\ DropCall(r)
    /\ Ended(r)
    /\ UNCHANGED storeVars

Restart ==
    /\ ProviderRestart
    /\ run' = [r \in Callers |-> NoRun]
    /\ UNCHANGED storeVars

RunStep(r) ==
    \/ CycleExists(r)
    \/ Conflict(r)
    \/ BuildContext(r)
    \/ AskProvider(r)
    \/ ReceiveResult(r)
    \/ PersistEvidence(r)
    \/ ProviderNoAction(r)
    \/ PersistPlan(r)
    \/ PlanRecorded(r)
    \/ PersistValidation(r)
    \/ DecisionLogged(r)
    \/ NextAttempt(r)
    \/ Submit(r)
    \/ ExecutionSubmitted(r)
    \/ ProcessObservation(r)
    \/ ObservationApplied(r)
    \/ Complete(r)
    \/ ReturnReport(r)

Next ==
    \/ ProviderStep /\ UNCHANGED <<storeVars, run>>
    \/ \E r \in Callers, c \in Cycles : RunCycle(r, c)
    \/ \E r \in Callers : RunStep(r) \/ StorageFails(r) \/ Cancel(r)
    \/ Restart

Spec == Init /\ [][Next]_vars

-----------------------------------------------------------------------------
(* Properties.                                                                *)

Pcs == {"idle", "exists", "build", "ask", "asked", "evidence", "no_action", "ledger",
        "recorded", "validate", "decided", "rejected", "submit", "accepted", "observe",
        "observed", "return"} \cup Outcomes

\* Rows and local variables of run_cycle stay in their types.
TypeOK ==
    /\ ProviderTypeOK
    /\ events \in [Cycles -> Seq(EventTypes)]
    /\ replanRows \subseteq Contexts
    /\ plans \subseteq Cycles \X (1..Attempts)
    /\ decisions \subseteq Cycles \X (1..Attempts) \X {"ACCEPT", "REJECT"}
    /\ submitted \subseteq Cycles \X (1..Attempts)
    /\ applied \in [Cycles -> 0..Observations]
    /\ reports \in [Cycles -> Outcomes \cup {"none"}]
    /\ run \in [Callers -> [pc : Pcs, cycle : Cycles \cup {NoCycle}, sequence : Nat, attempt : 1..Attempts,
                            observed : 0..Observations]]

\* The cycles as a reader of paper_runtime_events sees them.
Status(c) == IF events[c] = <<>> THEN "new" ELSE IF Completed(c) THEN "closed" ELSE "open"
Executed == {c \in Cycles : \E a \in 1..Attempts : <<c, a>> \in submitted}
Reported(c) ==
    IF reports[c] = "none" THEN "none"
    ELSE IF reports[c] = "Executed" THEN "executed" ELSE "not_executed"

Ledger == INSTANCE CycleLedger
    WITH status <- [c \in Cycles |-> Status(c)],
         executed <- Executed,
         outcome <- [c \in Cycles |-> Reported(c)]

\* However runs of a cycle overlap, stop or are lost in a restart, a cycle is opened
\* once, submits at most one plan, only while it is open, and its one report says
\* whether it did: the event sequence run_cycle appends is its only lock.
ImplementsCycleLedger == Ledger!Spec

Logged(c, type) == Cardinality({i \in DOMAIN events[c] : events[c][i] = type})
PlansOf(c) == Cardinality({p \in plans : p[1] = c})
SubmissionsOf(c) == Cardinality({p \in submitted : p[1] = c})
LogsOrIsAboutTo(effects, logged, done) ==
    logged = effects \/ (~done /\ logged + 1 = effects)

\* The log is never ahead of the store and at most one step behind it, and a completed
\* cycle's log is complete: every plan recorded, request submitted and observation
\* applied has its event, though effect and event are separate transactions.
LogMatchesEffects ==
    \A c \in Cycles :
        /\ LogsOrIsAboutTo(PlansOf(c), Logged(c, "AI_PLAN_RECORDED"), Completed(c))
        /\ LogsOrIsAboutTo(SubmissionsOf(c), Logged(c, "EXECUTION_SUBMITTED"), Completed(c))
        /\ LogsOrIsAboutTo(applied[c], Logged(c, "PAPER_OBSERVATION_APPLIED"), Completed(c))

\* A second plan exists only where the first was rejected, and over all cycles and
\* restarts a Context gets one: the provider's memory of its replans is lost in a
\* restart, the index on its evidence is not.
OneReplanPerContext ==
    LET replans == {c \in Cycles : <<c, 2>> \in plans} IN
    /\ \A c \in replans : <<c, 1, "REJECT">> \in decisions
    /\ \A c, d \in replans : ContextOf[c] = ContextOf[d] => c = d

\* docs/AI_PAPER_RUNTIME_V1.md: "provider failures and validation rejections also
\* receive terminal runtime reports".  An answer that comes after its Context expired
\* ends the run with an error of the store instead.
ProviderFailuresAreReported ==
    [][\A r \in Callers :
        PersistEvidence(r) /\ call[r].context \notin replanRows => run'[r].pc # "idle"]_vars
=============================================================================
