----------------------------- MODULE Prefilter -----------------------------
(* The eligibility engine: which snapshots become events for the AI, with    *)
(* deduplication, a cooldown per instrument and a bounded memory.            *)
EXTENDS MarketFeatures, FiniteSets

CONSTANTS
    MinimumTurnover, MaximumSpread, Cooldown, EventTtl,        \* EligibilityPolicy
    CallLimit, TokenLimit, CostLimit, MaximumConcurrency, ReservedTokens, ReservedCost,
    VolumeAnomaly, VolatilityExpansion, InvalidationRisk,      \* ratios times Scale
    MaxTracked, MaxSeen                                        \* bounds of the two maps

PolicyAssumption ==
    /\ {Cooldown, EventTtl, CallLimit, TokenLimit, CostLimit, MaximumConcurrency,
        ReservedTokens, ReservedCost, MaximumSpread, VolumeAnomaly, VolatilityExpansion,
        InvalidationRisk, MaxTracked, MaxSeen} \subseteq Nat \ {0}
    /\ MinimumTurnover \in Nat
    /\ EventTtl <= Cooldown            \* vertical_slice_defaults: 5 and 15 minutes
ASSUME PolicyAssumption

-----------------------------------------------------------------------------
(* The two maps of the engine, each from a key to the instant it is kept for *)

NewEngine == [seen |-> <<>>, cooldown |-> <<>>]

Without(map, keys) == [k \in DOMAIN map \ keys |-> map[k]]
With(map, key, until) == [k \in DOMAIN map \union {key} |-> IF k = key THEN until ELSE map[k]]
Live(map, now) == Without(map, {k \in DOMAIN map : now >= map[k]})

MutantPrune(engine, now) ==
    [seen |-> Live(engine.seen, now),
     cooldown |-> Without(engine.cooldown,
                          {k \in DOMAIN engine.cooldown : now + 1 >= engine.cooldown[k]})]
Prune(engine, now) ==
    [seen |-> Live(engine.seen, now), cooldown |-> Live(engine.cooldown, now)]

\* enforce_deduplication_bound: the entry that would run out first makes room.
Bounded(seen) ==
    IF Cardinality(DOMAIN seen) <= MaxSeen THEN seen
    ELSE Without(seen, {CHOOSE k \in DOMAIN seen : \A l \in DOMAIN seen : seen[k] <= seen[l]})

-----------------------------------------------------------------------------
(* What is new in a snapshot; "previous" is a set of at most one snapshot    *)

BreakoutAttempt(features) ==
    features.candle.close > features.upper \/ features.candle.close < features.lower

RatioAtLeast(current, previous, ratio) == previous > 0 /\ current * Scale >= previous * ratio

\* The kinds that compare with the snapshot of the evaluation before.
KindsSince(s, p, context) ==
    {k \in {"StructureChanged", "KeyLocationReached", "VolatilityExpanded", "VolumeAnomaly",
            "BreakoutAttempt", "RetestEvent", "InvalidationRiskIncreased"} :
        CASE k = "StructureChanged" -> s.alignment /= p.alignment \/ s.location /= p.location
          [] k = "KeyLocationReached" -> s.location /= "None" /\ s.location /= p.location
          [] k = "VolatilityExpanded" -> RatioAtLeast(s.atr, p.atr, VolatilityExpansion)
          [] k = "VolumeAnomaly" -> p.volume < VolumeAnomaly /\ s.volume >= VolumeAnomaly
          [] k = "BreakoutAttempt" -> BreakoutAttempt(s) /\ ~BreakoutAttempt(p)
          [] k = "RetestEvent" -> BreakoutAttempt(p) /\ s.location /= "None"
          [] OTHER -> context.activePlan /\ RatioAtLeast(s.atr, p.atr, InvalidationRisk)}

FirstKinds(s) ==
    {"StructureChanged"}
    \union (IF s.location /= "None" THEN {"KeyLocationReached"} ELSE {})
    \union (IF s.volume >= VolumeAnomaly THEN {"VolumeAnomaly"} ELSE {})
    \union (IF BreakoutAttempt(s) THEN {"BreakoutAttempt"} ELSE {})

EventKinds(snapshot, previous, context) ==
    (IF previous = {} THEN FirstKinds(snapshot.primary)
     ELSE UNION {KindsSince(snapshot.primary, p.primary, context) : p \in previous})
    \union (IF context.reviewDue THEN {"PositionReviewDue"} ELSE {})

\* hash_event: the snapshot is known by its instrument, input and features, not by its validity.
EventId(snapshot, kinds) ==
    [instrument |-> snapshot.instrument, input |-> snapshot.input, kinds |-> kinds]

-----------------------------------------------------------------------------
(* evaluate *)

BudgetRejections(usage) ==
    {r \in {"LlmConcurrencyExhausted", "DailyCallBudgetExhausted", "DailyTokenBudgetExhausted",
            "DailyCostBudgetExhausted"} :
        CASE r = "LlmConcurrencyExhausted" -> usage.inFlight >= MaximumConcurrency
          [] r = "DailyCallBudgetExhausted" -> usage.calls >= CallLimit
          [] r = "DailyTokenBudgetExhausted" -> usage.tokens + ReservedTokens > TokenLimit
          [] OTHER -> usage.cost + ReservedCost > CostLimit}

Rejections(engine, snapshot, event, context, now) ==
    BudgetRejections(context.usage) \union
    {r \in {"SnapshotExpired", "SystemDisallowsNewAi", "InstrumentDisabled",
            "ActiveTradePlanNotDue", "InsufficientLiquidity", "SpreadTooWide",
            "NoInformationDelta", "DuplicateEvent", "CooldownActive"} :
        CASE r = "SnapshotExpired" -> now >= snapshot.validUntil
          [] r = "SystemDisallowsNewAi" -> ~context.allowsNewAi
          [] r = "InstrumentDisabled" -> ~context.enabled
          [] r = "ActiveTradePlanNotDue" -> context.activePlan /\ ~context.reviewDue
          [] r = "InsufficientLiquidity" -> snapshot.primary.candle.turnover < MinimumTurnover
          [] r = "SpreadTooWide" -> snapshot.spread > MaximumSpread * Scale
          [] r = "NoInformationDelta" -> event.kinds = {}
          [] r = "DuplicateEvent" -> event \in DOMAIN engine.seen
          [] OTHER -> snapshot.instrument \in DOMAIN engine.cooldown}

HasCapacity(engine, instrument) ==
    \/ instrument \in DOMAIN engine.cooldown
    \/ Cardinality(DOMAIN engine.cooldown) < MaxTracked

\* The engine after the evaluation and what it says: an event, reasons, or an error.
Evaluate(engine, snapshot, previous, context, now) ==
    LET kept == Prune(engine, now)
        event == EventId(snapshot, EventKinds(snapshot, previous, context))
        reasons == Rejections(kept, snapshot, event, context, now)
    IN IF reasons /= {}
       THEN [engine |-> kept, verdict |-> "rejected", reasons |-> reasons]
       ELSE IF ~HasCapacity(kept, snapshot.instrument)
       THEN [engine |-> kept, verdict |-> "capacity", reasons |-> {}]
       ELSE [engine |-> [seen |-> Bounded(With(kept.seen, event, now + EventTtl)),
                         cooldown |-> With(kept.cooldown, snapshot.instrument, now + Cooldown)],
             verdict |-> "event", reasons |-> {}]
=============================================================================
