----------------------------- MODULE AiProvider -----------------------------
(* DeepSeekAiTradingPlanProvider: one HTTP request at a time, a call, token   *)
(* and cost budget per UTC day that is reserved before the request and        *)
(* settled after it, and one replan per Decision Context.  All of it lives    *)
(* in memory and is shared by every clone of the provider.                    *)
(*                                                                            *)
(* Abstracted: prompts, plans and raw texts; the bound on a request's input   *)
(* is a constant, and prices are whole amounts for one token.                 *)
EXTENDS Integers

CONSTANTS
    Callers,     \* tasks that may call the provider
    Contexts,    \* Decision Contexts
    CallLimit,   \* daily_call_limit
    TokenLimit,  \* daily_token_limit
    CostLimit,   \* daily_cost_limit_usd
    InputBound,  \* conservative_input_token_bound of a prompt
    MaxOutput,   \* max_output_tokens
    Prices,      \* [hit, miss, output] for one token
    Reports,     \* the usages an answer may report
    MaxDay,      \* the last UTC day of the run (a bound of the model)
    NoCaller,
    NoContext

ASSUME LimitsAssumption ==
    /\ CallLimit \in Nat \ {0}
    /\ TokenLimit \in Nat \ {0}
    /\ CostLimit \in Nat \ {0}
    /\ InputBound \in Nat /\ MaxOutput \in Nat \ {0}
ASSUME UsageAssumption ==
    /\ Prices \in [hit : Nat, miss : Nat, output : Nat]
    /\ Reports \subseteq [hit : Nat, miss : Nat, prompt : Nat, output : Nat, total : Nat]
ASSUME DayAssumption == MaxDay \in Nat \ {0}
ASSUME NoValueAssumption == NoCaller \notin Callers /\ NoContext \notin Contexts

VARIABLES
    today,      \* utc_day of the wall clock
    expired,    \* Contexts whose validity has passed
    budget,     \* BudgetState
    permit,     \* who holds the one permit of the semaphore
    replanned,  \* replanned_contexts
    call,       \* the call of each caller, and its result
    bill        \* history since the last reset of the budget: requests sent, usage
                \* settled, calls dropped in flight, and whether one spanned the reset

providerVars == <<today, expired, budget, permit, replanned, call, bill>>

\* What the caller gets, by what it can tell apart: a plan or not, evidence of the
\* attempt or none, and whether the evidence was received after the Context expired.
Failure == [plan |-> FALSE, evidence |-> FALSE, late |-> FALSE]
FailureWithEvidence == [Failure EXCEPT !.evidence = TRUE]
Received(x) == [FailureWithEvidence EXCEPT !.late = x \in expired]
Plan == [FailureWithEvidence EXCEPT !.plan = TRUE]

Idle == [pc |-> "idle", context |-> NoContext, replan |-> FALSE,
         day |-> 0, result |-> Failure]

\* DeepSeekUsage and what it costs; the bound takes every input token for a miss.
Consistent(u) == u.hit + u.miss = u.prompt /\ u.prompt + u.output = u.total
Cost(u) == u.hit * Prices.hit + u.miss * Prices.miss + u.output * Prices.output
MaximumUsage ==
    [hit |-> 0, miss |-> InputBound, prompt |-> InputBound, output |-> MaxOutput,
     total |-> InputBound + MaxOutput]
Bound == [tokens |-> MaximumUsage.total, cost |-> Cost(MaximumUsage)]

FreshBudget(day) == [day |-> day, calls |-> 0, tokens |-> 0, cost |-> 0]
NoBill == [calls |-> 0, tokens |-> 0, cost |-> 0, lost |-> 0, straddled |-> FALSE]

ProviderInit ==
    /\ today = 1
    /\ expired = {}
    /\ budget = FreshBudget(0)
    /\ permit = NoCaller
    /\ replanned = {}
    /\ call = [c \in Callers |-> Idle]
    /\ bill = NoBill

-----------------------------------------------------------------------------
(* The clock: days pass and Contexts expire.                                  *)

Midnight ==
    /\ today < MaxDay
    /\ today' = today + 1
    /\ UNCHANGED <<expired, budget, permit, replanned, call, bill>>

Expire(x) ==
    /\ expired' = expired \cup {x}
    /\ UNCHANGED <<today, budget, permit, replanned, call, bill>>

-----------------------------------------------------------------------------
(* A call.                                                                    *)

Return(c, result) ==
    call' = [call EXCEPT ![c].pc = "done", ![c].day = 0, ![c].result = result]

\* reserve_replan comes before the prompt is built and before every budget, and
\* is never given back.
GeneratePlan(c, x, replan) ==
    /\ call[c].pc = "idle"
    /\ replanned' = IF replan THEN replanned \cup {x} ELSE replanned
    /\ call' = [call EXCEPT ![c] =
                    [Idle EXCEPT !.context = x, !.replan = replan,
                                 !.pc = IF replan /\ x \in replanned THEN "done" ELSE "called"]]
    /\ UNCHANGED <<today, expired, budget, permit, bill>>

\* The prompt is too large or its state does not belong to the Context.
RefusePrompt(c) ==
    /\ call[c].pc = "called"
    /\ Return(c, Failure)
    /\ UNCHANGED <<today, expired, budget, permit, replanned, bill>>

\* execute reads the clock once, before it has the permit.
StampRequest(c) ==
    /\ call[c].pc = "called"
    /\ IF call[c].context \in expired
       THEN Return(c, Failure)
       ELSE call' = [call EXCEPT ![c].pc = "stamped", ![c].day = today]
    /\ UNCHANGED <<today, expired, budget, permit, replanned, bill>>

ConcurrencyExhausted(c) ==
    /\ call[c].pc = "stamped"
    /\ permit # NoCaller
    /\ Return(c, Failure)
    /\ UNCHANGED <<today, expired, budget, permit, replanned, bill>>

\* reset_if_new_day: "new" is any other day, an earlier one too.
AfterReset(day) == IF budget.day = day THEN budget ELSE FreshBudget(day)
InFlight == \E c \in Callers : call[c].pc = "waiting"
BillAfterReset(day) ==
    IF budget.day = day THEN bill ELSE [NoBill EXCEPT !.straddled = InFlight]

BudgetSnapshot ==
    /\ budget.day # today
    /\ budget' = AfterReset(today)
    /\ bill' = BillAfterReset(today)
    /\ UNCHANGED <<today, expired, permit, replanned, call>>

Exhausted(b) ==
    \/ b.calls >= CallLimit
    \/ b.tokens + Bound.tokens > TokenLimit
    \/ b.cost + Bound.cost > CostLimit

RefuseBudget(c) ==
    /\ call[c].pc = "stamped"
    /\ permit = NoCaller
    /\ Exhausted(AfterReset(call[c].day))
    /\ Return(c, Failure)
    /\ budget' = AfterReset(call[c].day)
    /\ bill' = BillAfterReset(call[c].day)
    /\ UNCHANGED <<today, expired, permit, replanned>>

Reserved(b) == [b EXCEPT !.calls = @ + 1, !.tokens = @ + Bound.tokens, !.cost = @ + Bound.cost]

SendRequest(c) ==
    /\ call[c].pc = "stamped"
    /\ permit = NoCaller
    /\ ~Exhausted(AfterReset(call[c].day))
    /\ permit' = c
    /\ budget' = Reserved(AfterReset(call[c].day))
    /\ bill' = [BillAfterReset(call[c].day) EXCEPT !.calls = @ + 1]
    /\ call' = [call EXCEPT ![c].pc = "waiting"]
    /\ UNCHANGED <<today, expired, replanned>>

-----------------------------------------------------------------------------
(* The answer.  Tokens are unsigned and saturate at zero; the cost is signed. *)

SaturatingSub(a, b) == IF a < b THEN 0 ELSE a - b

\* mutant: only the tokens of a failed request are given back
MutantReleaseReservation == [budget EXCEPT !.tokens = SaturatingSub(@, Bound.tokens)]

ReleaseReservation ==
    [budget EXCEPT !.tokens = SaturatingSub(@, Bound.tokens), !.cost = @ - Bound.cost]
FinalizeReservation(u) ==
    [budget EXCEPT !.tokens = SaturatingSub(@, Bound.tokens) + u.total,
                   !.cost = @ - Bound.cost + Cost(u)]

Answered(c) ==
    /\ call[c].pc = "waiting"
    /\ permit' = NoCaller
    /\ UNCHANGED <<today, expired, replanned>>

\* The body is cut off at its limit while it streams; an answer of another
\* encoding, or whose usage does not add up, is not looked at any further.
ResponseTooLarge(c) == Return(c, Failure)
NotUtf8(c) == Return(c, Failure)
ContradictoryUsage(c) == (\E u \in Reports : ~Consistent(u)) /\ Return(c, Failure)
\* A timeout or a broken connection has no time of receipt, an HTTP error or an
\* undecodable success does.
NoResponse(c) == Return(c, FailureWithEvidence)
ErrorResponse(c) == Return(c, Received(call[c].context))

\* No usable answer: the reservation is given back.
RequestFails(c) ==
    /\ Answered(c)
    /\ \/ ResponseTooLarge(c)
       \/ NotUtf8(c)
       \/ ContradictoryUsage(c)
       \/ NoResponse(c)
       \/ ErrorResponse(c)
    /\ budget' = ReleaseReservation
    /\ UNCHANGED bill

Exceeds(u) == u.total > Bound.tokens \/ Cost(u) > Bound.cost

UsageBeyondReservation(c) ==
    /\ Answered(c)
    /\ \E u \in Reports : Consistent(u) /\ Exceeds(u)
    /\ Return(c, Failure)
    /\ budget' = ReleaseReservation
    /\ UNCHANGED bill

\* The usage is settled before the content is looked at; a plan counts only
\* while its Context is still valid.
WrongModelOrChoices(c) == Return(c, Failure)
NoPlanInside(c) == Return(c, Received(call[c].context))  \* cut off, refused, empty, invalid
PlanArrives(c) == call[c].context \notin expired /\ Return(c, Plan)

AnswerArrives(c) ==
    /\ Answered(c)
    /\ \/ WrongModelOrChoices(c)
       \/ NoPlanInside(c)
       \/ PlanArrives(c)
    /\ \E u \in {v \in Reports : Consistent(v) /\ ~Exceeds(v)} :
           /\ budget' = FinalizeReservation(u)
           /\ bill' = [bill EXCEPT !.tokens = @ + u.total, !.cost = @ + Cost(u)]

\* A caller that gives up drops the future at its await: the permit goes back, the
\* reservation does not.
DropCall(c) ==
    /\ call[c].pc = "waiting"
    /\ call' = [call EXCEPT ![c] = Idle]
    /\ permit' = NoCaller
    /\ bill' = [bill EXCEPT !.lost = @ + 1]
    /\ UNCHANGED <<today, expired, budget, replanned>>

\* A process that stops forgets the budget, the permit and the replans.
ProviderRestart ==
    /\ budget' = FreshBudget(0)
    /\ permit' = NoCaller
    /\ replanned' = {}
    /\ call' = [c \in Callers |-> Idle]
    /\ bill' = NoBill
    /\ UNCHANGED <<today, expired>>

ProviderStep ==
    \/ Midnight
    \/ BudgetSnapshot
    \/ \E x \in Contexts : Expire(x)
    \/ \E c \in Callers :
        \/ RefusePrompt(c)
        \/ StampRequest(c)
        \/ ConcurrencyExhausted(c)
        \/ RefuseBudget(c)
        \/ SendRequest(c)
        \/ RequestFails(c)
        \/ UsageBeyondReservation(c)
        \/ AnswerArrives(c)

-----------------------------------------------------------------------------
(* Invariants.                                                                *)

Calls ==
    [pc : {"idle", "called", "stamped", "waiting", "done"}, context : Contexts \cup {NoContext},
     replan : BOOLEAN, day : 0..MaxDay,
     result : [plan : BOOLEAN, evidence : BOOLEAN, late : BOOLEAN]]

\* The provider's part of the type invariant: the cost is the only signed amount.
ProviderTypeOK ==
    /\ today \in 1..MaxDay
    /\ expired \subseteq Contexts
    /\ budget \in [day : 0..MaxDay, calls : Nat, tokens : Nat, cost : Int]
    /\ permit \in Callers \cup {NoCaller}
    /\ replanned \subseteq Contexts
    /\ call \in [Callers -> Calls]
    /\ bill \in [calls : Nat, tokens : Nat, cost : Nat, lost : Nat, straddled : BOOLEAN]

\* Between two resets the budget is the usage settled plus one full reservation for
\* the request in flight and for every request dropped in flight, and stays within
\* its limits whatever order requests fail, answer or are dropped in: reserve_budget,
\* release_reservation and finalize_reservation neither lose nor double an amount.
\* It says nothing of a day whose first reset came while a request was in flight.
BudgetIsExact ==
    LET open == bill.lost + (IF InFlight THEN 1 ELSE 0) IN
    ~bill.straddled =>
        /\ budget.calls = bill.calls /\ budget.calls <= CallLimit
        /\ budget.tokens = bill.tokens + open * Bound.tokens /\ budget.tokens <= TokenLimit
        /\ budget.cost = bill.cost + open * Bound.cost /\ budget.cost <= CostLimit
=============================================================================
