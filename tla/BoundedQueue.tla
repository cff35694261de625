----------------------------- MODULE BoundedQueue -----------------------------
(***************************************************************************)
(* A bounded runtime queue (ironpilot-application/src/runtime.rs): a tokio *)
(* mpsc channel with a depth and a high watermark in atomics beside it.    *)
(* Senders, the receiver and a thread that takes snapshots run             *)
(* concurrently; every access to the channel, to an atomic and to the      *)
(* health monitor is a step of its own.                                    *)
(***************************************************************************)
EXTENDS Integers, Sequences, FiniteSets

CONSTANTS Senders, Capacity

ASSUME QueueAssumption == IsFiniteSet(Senders) /\ Capacity \in Nat \ {0}

VARIABLES channel,    \* the senders whose events are buffered, oldest first
          depth,      \* QueueMetrics::depth
          watermark,  \* QueueMetrics::high_watermark
          sender,     \* sender[s]: where a sender's try_send is
          counted,    \* counted[s]: what its fetch_add made of the depth, 0 outside try_send
          receiver,   \* where the receiver is
          loaded,     \* the depth a snapshot has loaded, or None
          queueIssues      \* the HealthIssues the queue recorded

metrics == <<depth, watermark>>
queueVars == <<channel, depth, watermark, sender, counted, receiver, loaded, queueIssues>>

None == -1

QueueInit ==
    /\ channel = <<>>
    /\ depth = 0 /\ watermark = 0
    /\ sender = [s \in Senders |-> "idle"]
    /\ counted = [s \in Senders |-> 0]
    /\ receiver = "idle"
    /\ loaded = None
    /\ queueIssues = {}

-----------------------------------------------------------------------------
(* try_send *)

\* The senders that hold a permit of the channel.
Reserving == {s \in Senders : sender[s] \in {"reserved", "counting", "counted"}}

\* mutant: the event is counted although it is rejected
MutantReject(s, issue) ==
    /\ queueIssues' = queueIssues \cup {issue}
    /\ depth' = depth + 1
    /\ UNCHANGED <<channel, watermark, sender, counted, receiver, loaded>>

\* The event goes back to the caller.
Reject(s, issue) ==
    /\ queueIssues' = queueIssues \cup {issue}
    /\ UNCHANGED <<channel, metrics, sender, counted, receiver, loaded>>

Closed == receiver \in {"closing", "cleared", "dropped"}
Room == Len(channel) + Cardinality(Reserving) < Capacity

TryReserve(s) ==
    /\ sender[s] = "idle"
    /\ \/ /\ ~Closed /\ Room
          /\ sender' = [sender EXCEPT ![s] = "reserved"]
          /\ UNCHANGED <<channel, metrics, counted, receiver, loaded, queueIssues>>
       \/ ~Closed /\ ~Room /\ Reject(s, "QueueSaturated")
       \/ Closed /\ Reject(s, "QueueClosed")

\* mutant: fetch_add answers the old depth, and it is what is raised to
MutantCountSend(s) ==
    /\ sender[s] = "reserved"
    /\ depth' = depth + 1
    /\ counted' = [counted EXCEPT ![s] = depth]
    /\ sender' = [sender EXCEPT ![s] = "counting"]
    /\ UNCHANGED <<channel, watermark, receiver, loaded, queueIssues>>

\* record_send: fetch_add, then fetch_max of its result.
CountSend(s) ==
    /\ sender[s] = "reserved"
    /\ depth' = depth + 1
    /\ counted' = [counted EXCEPT ![s] = depth + 1]
    /\ sender' = [sender EXCEPT ![s] = "counting"]
    /\ UNCHANGED <<channel, watermark, receiver, loaded, queueIssues>>

\* mutant: an unconditional store
MutantRaise(d) == watermark' = d

Raise(d) == watermark' = IF d > watermark THEN d ELSE watermark

MarkSend(s) ==
    /\ sender[s] = "counting"
    /\ Raise(counted[s])
    /\ sender' = [sender EXCEPT ![s] = "counted"]
    /\ UNCHANGED <<channel, depth, counted, receiver, loaded, queueIssues>>

\* permit.send; nobody receives what is sent after the receiver is gone.
SendEvent(s) ==
    /\ sender[s] = "counted"
    /\ channel' = Append(channel, s)
    /\ sender' = [sender EXCEPT ![s] = "idle"]
    /\ counted' = [counted EXCEPT ![s] = 0]
    /\ UNCHANGED <<metrics, receiver, loaded, queueIssues>>

\* A sender, or its last clone, is dropped.
DropSender(s) ==
    /\ sender[s] = "idle"
    /\ sender' = [sender EXCEPT ![s] = "dropped"]
    /\ UNCHANGED <<channel, metrics, counted, receiver, loaded, queueIssues>>

-----------------------------------------------------------------------------
(* recv, and the receiver's Drop *)

\* The channel hands out the oldest event and takes its permit back.
Receive ==
    /\ receiver = "idle" /\ channel # <<>>
    /\ channel' = Tail(channel)
    /\ receiver' = "received"
    /\ UNCHANGED <<metrics, sender, counted, loaded, queueIssues>>

\* mutant: the depth is loaded from the channel's length, which others change
MutantDecremented == Len(channel)

\* checked_sub: the depth never goes below zero.
Decremented == IF depth = 0 THEN 0 ELSE depth - 1

CountReceive ==
    /\ receiver = "received"
    /\ depth' = Decremented
    /\ receiver' = "idle"
    /\ UNCHANGED <<channel, watermark, sender, counted, loaded, queueIssues>>

\* recv answers None: every sender is gone and nothing is buffered.
ReceiveNone ==
    /\ receiver = "idle" /\ channel = <<>>
    /\ \A s \in Senders : sender[s] = "dropped"
    /\ queueIssues' = queueIssues \cup {"QueueClosed"}
    /\ UNCHANGED <<channel, metrics, sender, counted, receiver, loaded>>

CloseReceiver ==
    /\ receiver = "idle"
    /\ receiver' = "closing"
    /\ UNCHANGED <<channel, metrics, sender, counted, loaded, queueIssues>>

ClearDepth ==
    /\ receiver = "closing"
    /\ depth' = 0
    /\ receiver' = "cleared"
    /\ UNCHANGED <<channel, watermark, sender, counted, loaded, queueIssues>>

\* The issue is recorded and the channel's receiver drops what is buffered.
DropReceiver ==
    /\ receiver = "cleared"
    /\ queueIssues' = queueIssues \cup {"QueueClosed"}
    /\ channel' = <<>>
    /\ receiver' = "dropped"
    /\ UNCHANGED <<metrics, sender, counted, loaded>>

-----------------------------------------------------------------------------
(* QueueMetrics::snapshot: two loads *)

LoadDepth ==
    /\ loaded = None
    /\ loaded' = depth
    /\ UNCHANGED <<channel, metrics, sender, counted, receiver, queueIssues>>

LoadWatermark ==
    /\ loaded # None
    /\ loaded' = None
    /\ UNCHANGED <<channel, metrics, sender, counted, receiver, queueIssues>>

QueueNext ==
    \/ \E s \in Senders :
         TryReserve(s) \/ CountSend(s) \/ MarkSend(s) \/ SendEvent(s) \/ DropSender(s)
    \/ Receive \/ CountReceive \/ ReceiveNone
    \/ CloseReceiver \/ ClearDepth \/ DropReceiver
    \/ LoadDepth \/ LoadWatermark

QueueSpec == QueueInit /\ [][QueueNext]_queueVars

-----------------------------------------------------------------------------
SenderStates == {"idle", "reserved", "counting", "counted", "dropped"}
ReceiverStates == {"idle", "received", "closing", "cleared", "dropped"}

\* Every variable has its type.
QueueTypeOK ==
    /\ channel \in Seq(Senders)
    /\ depth \in Nat /\ watermark \in Nat
    /\ sender \in [Senders -> SenderStates]
    /\ counted \in [Senders -> Nat]
    /\ receiver \in ReceiverStates
    /\ loaded \in Nat \cup {None}
    /\ queueIssues \subseteq {"QueueSaturated", "QueueClosed"}

(***************************************************************************)
(* While the receiver lives, the depth is exact but for the calls under    *)
(* way: it counts every buffered event, every send that is counted and not *)
(* yet sent, and an event that is received and not yet counted off.  The   *)
(* saturating decrement never swallows one, however the calls interleave.  *)
(***************************************************************************)
Announced == {s \in Senders : sender[s] \in {"counting", "counted"}}
Unaccounted == IF receiver = "received" THEN 1 ELSE 0
Receiving == receiver \in {"idle", "received", "closing"}
DepthAccountsForEvents ==
    Receiving => depth = Len(channel) + Cardinality(Announced) + Unaccounted

(***************************************************************************)
(* The queue is bounded, and its metrics are wrong by one event at most:   *)
(* the one whose permit is free before it is counted off.  This holds also *)
(* after the receiver has cleared the depth under the senders' feet.       *)
(***************************************************************************)
MetricsAreBounded ==
    /\ Len(channel) + Cardinality(Reserving) <= Capacity
    /\ depth <= Capacity + 1 /\ watermark <= Capacity + 1

(***************************************************************************)
(* The watermark never decreases, and no call returns before it covers the *)
(* depth the call counted.                                                 *)
(***************************************************************************)
WatermarkCoversCounts ==
    [][/\ watermark' >= watermark
       /\ \A s \in Senders : sender[s] = "counted" => watermark' >= counted[s]]_queueVars

(***************************************************************************)
(* A snapshot may show a depth above its watermark, which the soak         *)
(* evidence takes for invalid, but only while a send that counted at least *)
(* that depth is between its two atomics: the next snapshot is consistent, *)
(* however sends, receives and a drop interleave.                          *)
(***************************************************************************)
Covered(d) ==
    d <= watermark \/ \E s \in Senders : sender[s] = "counting" /\ d <= counted[s]
SnapshotIsCovered == Covered(depth) /\ Covered(loaded)

(***************************************************************************)
(* The soak evaluation disqualifies a run whose watermark exceeds the      *)
(* queue's capacity.  A send between a receive and its count does that.    *)
(***************************************************************************)
WatermarkWithinCapacity == watermark <= Capacity
=============================================================================
