---------------------------- MODULE PrivateSync -----------------------------
(* SqliteBybitPrivateSync: the private stream of the exchange and its REST    *)
(* snapshots turned into stored order, wallet and execution facts, which the  *)
(* next Decision Context reads.  Messages may be reordered, delivered twice   *)
(* or lost with the connection, and the process may restart.                  *)
(*                                                                            *)
(* Abstracted: a fact is its timestamp and its revision, the number of changes *)
(* the exchange had made to it; an order closes with its last revision.       *)
EXTENDS Portfolio, FiniteSets, FiniteSetsExt, SequencesExt

CONSTANTS
    Orders,    \* exchange order IDs
    Assets,    \* wallet assets
    Execs,     \* execution IDs
    MaxRev,    \* changes to one order or asset (a bound of the model)
    MaxChanges, \* changes to all of them (a bound of the model)
    MaxInbox,  \* messages on their way at once (a bound of the model)
    MaxClock,  \* milliseconds of the run (a bound of the model)
    MaxGen,    \* disconnects recorded (a bound of the model)
    Expected   \* quantities the local ledger may expect of an asset

Keys == Orders \cup Assets \cup Execs

ASSUME KeyAssumption ==
    /\ Orders \cap Assets = {} /\ Orders \cap Execs = {} /\ Assets \cap Execs = {}
    /\ IsFiniteSet(Keys)
ASSUME BoundAssumption ==
    /\ MaxRev \in Nat \ {0} /\ MaxChanges \in Nat /\ MaxInbox \in Nat
    /\ MaxClock \in Nat \ {0} /\ MaxGen \in Nat /\ Expected \subseteq Nat

VARIABLES
    clock,
    exchange,   \* what the exchange has for each key
    stream,     \* "up", "lost" with the event of it still queued, or "down"
    inbox,      \* messages on their way: what IncomingMessage::Topic carries
    sync,       \* the row of bybit_private_sync_state
    events,     \* bybit_private_events
    facts,      \* bybit_order_facts, bybit_wallet_facts, bybit_execution_facts
    evidence,   \* audit entries of reconciliations: <<generation, snapshot>>
    snapshot,   \* the BybitReconciliationSnapshot the caller holds
    applied,    \* history: facts recorded or replaced since the last reconciliation
    sound       \* history: nothing the exchange changed can be missing from facts

remote == <<clock, exchange, stream, inbox>>
store == <<sync, events, facts, evidence>>
vars == <<clock, exchange, stream, inbox, sync, events, facts, evidence,
          snapshot, applied, sound>>

Absent == [at |-> 0, rev |-> 0]
NoSnapshot == [at |-> 0, facts |-> [k \in {} |-> Absent], sound |-> FALSE]

Init ==
    /\ clock = 1
    /\ exchange = [k \in Keys |-> Absent]
    /\ stream = "down"
    /\ inbox = {}
    /\ sync = [state |-> "NONE", generation |-> 0]
    /\ events = {}
    /\ facts = [k \in Keys |-> Absent]
    /\ evidence = {}
    /\ snapshot = NoSnapshot
    /\ applied = {}
    /\ sound = FALSE

-----------------------------------------------------------------------------
(* The exchange.                                                              *)

Tick ==
    /\ clock < MaxClock
    /\ clock' = clock + 1
    /\ UNCHANGED <<exchange, stream, inbox, store, snapshot, applied, sound>>

Topics == {Orders, Assets, Execs}
Fact(k, row) == [key |-> k, at |-> row.at, rev |-> row.rev]
Changes == MapThenSumSet(LAMBDA k : exchange[k].rev, Keys)
RevLimit(k) == IF k \in Execs THEN 1 ELSE MaxRev

\* A change of some orders, assets or executions is one message on their topic; the
\* subscription is to all categories, so a fact that is not Spot may come with them.
Change(keys, foreign) ==
    LET Changed(k) == [at |-> clock, rev |-> exchange[k].rev + 1] IN
    /\ \A k \in keys : exchange[k].rev < RevLimit(k)
    /\ Changes + Cardinality(keys) <= MaxChanges
    /\ Cardinality(inbox) < MaxInbox
    /\ foreign => keys \subseteq Orders
    /\ exchange' = [k \in Keys |-> IF k \in keys THEN Changed(k) ELSE exchange[k]]
    /\ inbox' = IF stream # "up" THEN inbox
                ELSE inbox \cup {[facts |-> SetToSeq({Fact(k, Changed(k)) : k \in keys}),
                                  foreign |-> foreign]}
    /\ sound' = (sound /\ stream = "up")
    /\ UNCHANGED <<clock, stream, store, snapshot, applied>>

\* What was already queued still arrives, followed by the SDK's Disconnected.
ConnectionLost ==
    /\ stream = "up"
    /\ stream' = "lost"
    /\ inbox' \in SUBSET inbox
    /\ sound' = FALSE
    /\ snapshot' = [snapshot EXCEPT !.sound = FALSE]
    /\ UNCHANGED <<clock, exchange, store, applied>>

-----------------------------------------------------------------------------
(* ingest_sdk_event: connection events.                                       *)

AfterDisconnect ==
    IF sync.state = "RECOVERY_REQUIRED" THEN sync
    ELSE [state |-> "RECOVERY_REQUIRED", generation |-> sync.generation + 1]

RecordDisconnect ==
    /\ \/ stream = "lost" /\ inbox = {}
       \/ stream = "up"  \* the caller closes the stream and abandons its queue
    /\ sync.generation < MaxGen
    /\ sync' = AfterDisconnect
    /\ stream' = "down"
    /\ inbox' = {}
    /\ sound' = FALSE
    /\ snapshot' = [snapshot EXCEPT !.sound = FALSE]
    /\ UNCHANGED <<clock, exchange, events, facts, evidence, applied>>

\* mutant: a new connection ends the recovery
MutantAfterConnect == [sync EXCEPT !.state = "LIVE"]

AfterConnect ==
    IF sync.state \in {"RECOVERY_REQUIRED", "LIVE"} THEN sync
    ELSE [sync EXCEPT !.state = "LIVE"]

RecordConnected ==
    /\ stream = "down"
    /\ stream' = "up"
    /\ sync' = AfterConnect
    /\ UNCHANGED <<clock, exchange, inbox, events, facts, evidence, snapshot, applied, sound>>

\* The SDK cannot decode a message: recovery is required though the stream stays up.
ParseError(m) ==
    /\ m \in inbox
    /\ sync.generation < MaxGen
    /\ inbox' = inbox \ {m}
    /\ sync' = AfterDisconnect
    /\ sound' = FALSE
    /\ snapshot' = [snapshot EXCEPT !.sound = FALSE]
    /\ UNCHANGED <<clock, exchange, stream, events, facts, evidence, applied>>

-----------------------------------------------------------------------------
(* ingest_topic: a message is one transaction, and does not look at the state. *)

Stored(f) == [at |-> f.at, rev |-> f.rev]

\* mutant: the timestamps are not compared
MutantProjected(p, f) == [p EXCEPT ![f.key] = Stored(f)]

\* upsert_order and upsert_wallet; an execution is inserted once.
Projected(p, f) ==
    IF p[f.key] # Absent /\ p[f.key].at > f.at THEN p ELSE [p EXCEPT ![f.key] = Stored(f)]
FactConflict(p, f) == p[f.key].at = f.at /\ p[f.key] # Stored(f)

\* An order or wallet event is identified by its time, an execution by its ID alone.
SameEvent(e, f) == e.key = f.key /\ (e.at = f.at \/ f.key \in Execs)

\* mutant: a known event is a duplicate whatever it says
MutantPersistEvent(db, f) ==
    IF \E e \in db.events : SameEvent(e, f) THEN db
    ELSE IF FactConflict(db.facts, f) THEN [db EXCEPT !.ok = FALSE]
    ELSE [db EXCEPT !.events = @ \cup {f}, !.facts = Projected(@, f),
                    !.applied = @ \cup {f}]

\* persist_order_event, persist_wallet_event, persist_execution_event
PersistEvent(db, f) ==
    IF f \in db.events THEN db
    ELSE IF \/ \E e \in db.events : SameEvent(e, f)  \* IdempotencyConflict
            \/ FactConflict(db.facts, f)
         THEN [db EXCEPT !.ok = FALSE]
    ELSE [db EXCEPT !.events = @ \cup {f}, !.facts = Projected(@, f),
                    !.applied = @ \cup {f}]

IngestTopic(m) ==
    LET db == FoldLeft(PersistEvent, [events |-> events, facts |-> facts,
                                      applied |-> applied, ok |-> ~m.foreign], m.facts)
    IN
    /\ m \in inbox
    /\ \/ inbox' = inbox \ {m}
       \/ inbox' = inbox /\ stream = "up"  \* it is delivered again
    /\ IF db.ok
       THEN /\ events' = db.events
            /\ facts' = db.facts
            /\ applied' = db.applied
            /\ snapshot' = [snapshot EXCEPT !.sound = @ /\ db.applied = applied]
            /\ UNCHANGED sound
       ELSE /\ snapshot' = [snapshot EXCEPT !.sound = FALSE]
            /\ sound' = FALSE
            /\ UNCHANGED <<events, facts, applied>>
    /\ UNCHANGED <<clock, exchange, stream, sync, evidence>>

-----------------------------------------------------------------------------
(* Reconciliation.                                                            *)

IsOpen(k, fact) == k \in Orders /\ fact.rev \in 1..(MaxRev - 1)
OpenOrders(f) == {k \in Orders : IsOpen(k, f[k])}
Existing == {k \in Orders \cup Assets : exchange[k] # Absent}

\* A caller that is refused facts fetches a snapshot; from_sdk: the answers hold every open
\* order and any of the closed ones.  The time of the snapshot, which a wallet fact takes, is
\* read after the answers arrived.
FetchSnapshot ==
    /\ sync.state = "RECOVERY_REQUIRED"
    /\ \E keys \in SUBSET Existing :
        /\ OpenOrders(exchange) \cup (Existing \cap Assets) \subseteq keys
        /\ keys \cap Assets # {}
        /\ snapshot' = [at |-> 0, facts |-> [k \in keys |-> exchange[k]],
                        sound |-> stream = "up" /\ keys = Existing]
    /\ UNCHANGED <<remote, store, applied, sound>>

StampSnapshot ==
    /\ snapshot # NoSnapshot /\ snapshot.at = 0
    /\ snapshot' =
        [at |-> clock,
         facts |-> [k \in DOMAIN snapshot.facts |->
                        IF k \in Assets THEN [snapshot.facts[k] EXCEPT !.at = clock]
                                        ELSE snapshot.facts[k]],
         sound |-> snapshot.sound /\ \A k \in Assets : exchange[k].rev # 0 =>
                                         k \in DOMAIN snapshot.facts
                                         /\ exchange[k] = snapshot.facts[k]]
    /\ UNCHANGED <<remote, store, applied, sound>>

Reconciles == sync.state = "RECOVERY_REQUIRED"
Manifest == <<sync.generation, snapshot.at, snapshot.facts>>

\* Everything is replaced but the executions and the events.
ApplyReconciliation ==
    /\ snapshot.at # 0
    /\ Manifest \notin evidence
    /\ Reconciles
    /\ facts' = [k \in Keys |-> IF k \in DOMAIN snapshot.facts THEN snapshot.facts[k]
                                ELSE IF k \in Execs THEN facts[k] ELSE Absent]
    /\ sync' = [sync EXCEPT !.state = "RECONCILED"]
    /\ evidence' = evidence \cup {Manifest}
    /\ applied' = {Fact(k, facts'[k]) : k \in {j \in Keys : facts'[j] # Absent}}
    /\ sound' = snapshot.sound
    /\ UNCHANGED <<remote, events, snapshot>>

\* The stored state is all a new process has.
Restart ==
    /\ stream' = "down"
    /\ inbox' = {}
    /\ snapshot' = NoSnapshot
    /\ sound' = FALSE
    /\ UNCHANGED <<clock, exchange, store, applied>>

Next ==
    \/ Tick
    \/ \E topic \in Topics : \E keys \in SUBSET topic \ {{}}, foreign \in BOOLEAN :
           Change(keys, foreign)
    \/ ConnectionLost
    \/ RecordDisconnect
    \/ RecordConnected
    \/ \E m \in inbox : ParseError(m) \/ IngestTopic(m)
    \/ FetchSnapshot
    \/ StampSnapshot
    \/ ApplyReconciliation
    \/ Restart

Spec == Init /\ [][Next]_vars

-----------------------------------------------------------------------------
(* Properties.                                                                *)

\* load_context_facts answers, and with these orders and wallets.
Serves ==
    /\ sync.state \in {"LIVE", "RECONCILED"}
    /\ \E a \in Assets : facts[a] # Absent
    /\ \A k \in OpenOrders(facts) \cup Assets \cup Execs : facts[k].at <= clock
Served(rows) == [k \in OpenOrders(rows) \cup Assets |-> rows[k].rev]

\* The quantity of a wallet is its revision, and half of it may be locked.
Wallets(rows) ==
    [a \in {b \in Assets : rows[b] # Absent} |->
        ExchangeAssetBalance(rows[a].rev - (rows[a].rev \div 2), rows[a].rev \div 2)]
LocalBalances ==
    UNION {[known -> {[expected |-> n, managed |-> n] : n \in Expected}] : known \in SUBSET Assets}
ContextPortfolio(local) == Reconcile(Wallets(facts), local)

Rows == [at : 0..MaxClock, rev : 0..MaxRev]
Facts == [key : Keys, at : 0..MaxClock, rev : 1..MaxRev]

TypeOK ==
    /\ clock \in 1..MaxClock
    /\ exchange \in [Keys -> Rows] /\ facts \in [Keys -> Rows]
    /\ stream \in {"up", "lost", "down"}
    /\ \A m \in inbox : m \in [facts : Seq(Facts), foreign : BOOLEAN]
    /\ sync \in [state : {"NONE", "LIVE", "RECOVERY_REQUIRED", "RECONCILED"},
                 generation : 0..MaxGen]
    /\ events \subseteq Facts /\ applied \subseteq Facts
    /\ \A m \in evidence : m[1] \in 1..MaxGen /\ m[2] \in 1..MaxClock
    /\ snapshot.at \in 0..MaxClock /\ DOMAIN snapshot.facts \subseteq Keys
    /\ sound \in BOOLEAN

\* A disconnect that was recorded is followed by exactly one reconciliation before
\* facts are served again, whatever connects, restarts and repeated snapshots come in
\* between: record_connected, record_disconnect and apply_reconciliation agree on it.
OneReconciliationPerDisconnect ==
    /\ sync.generation > 0 /\ sync.state \in {"LIVE", "RECONCILED"} =>
           \E m \in evidence : m[1] = sync.generation
    /\ \A m, n \in evidence : m[1] = n[1] => m = n

\* The projections do not depend on the order, the repetition or the batching of the
\* messages: each row is the newest fact recorded since the last reconciliation, and a
\* rejected batch leaves nothing of itself behind.
ProjectionIsNewest ==
    \A k \in Keys :
        LET known == {f \in applied : f.key = k} IN
        /\ known = {} => facts[k] = Absent
        /\ known # {} => /\ Fact(k, facts[k]) \in known
                         /\ \A f \in known : f.at <= facts[k].at

\* What load_context_facts serves is what the exchange has once all messages are in, and its
\* portfolio allows new entries exactly when every balance is the expected one, provided the
\* snapshot was fetched with the stream up and held closed orders too (a late message reopens
\* one it left out), nothing was ingested before it was applied, no wallet changed before it
\* was stamped, and no message failed since.
ServedFactsAreCurrent ==
    Serves /\ sound /\ inbox = {} =>
        /\ Served(facts) = Served(exchange)
        /\ \A local \in LocalBalances :
               AllowsNewEntries(ContextPortfolio(local)) <=>
                   \A a \in Assets :
                       exchange[a].rev = BalanceOf(local, a, NothingExpected).expected

\* docs/BYBIT_PRIVATE_SYNC_V1.md: "Stale order or wallet updates cannot overwrite newer
\* projections."  apply_reconciliation deletes the rows before it compares timestamps.
FactsNeverRegress ==
    [][\A k \in Keys : facts[k] # Absent /\ facts'[k] # Absent
                          => facts'[k].at >= facts[k].at]_vars
=============================================================================
