---------------------------- MODULE RuntimeProofs ----------------------------
(***************************************************************************)
(* What a process owes to itself and to its predecessors: the lease that   *)
(* fences superseded instances, the bounded queues between its tasks and   *)
(* the supervisor that accounts for the tasks and their faults.            *)
(***************************************************************************)
EXTENDS InstanceLease, BoundedQueue, RuntimeSupervisor, FiniteSetTheorems, TLAPS

(***************************************************************************)
(* The lease: mutual exclusion and fencing, for any set of instances, any  *)
(* durations and any age of the callers' timestamps.                       *)
(***************************************************************************)
\* An instance that believes it holds the lease is the one in the row.
HandleMatchesRow ==
    \A o \in Owners :
        BelievesHeld(o) => row = [owner |-> o, expires |-> handle[o]]

\* A takeover always comes with a new row: the owner taken over is not in it.
RowOwnerNotSuperseded == row.owner \notin superseded

LeaseInv == LeaseTypeOK /\ HandleMatchesRow /\ RowOwnerNotSuperseded

LEMMA InitLease == LeaseInit => LeaseInv
  BY LeaseAssumption
     DEF LeaseInit, LeaseInv, LeaseTypeOK, HandleMatchesRow, RowOwnerNotSuperseded,
         BelievesHeld, NoRow

LEMMA AcquirePreserves ==
    ASSUME LeaseInv, NEW o \in Owners, NEW at \in Timestamps, NEW d \in Durations,
           AcquireInstanceLease(o, at, d)
    PROVE  LeaseInv'
<1>1. at \in Nat /\ at <= now /\ d \in Nat \ {0} /\ now \in Nat
  BY LeaseAssumption DEF Timestamps, LeaseInv, LeaseTypeOK
<1>2. LeaseTypeOK'
  BY <1>1 DEF AcquireInstanceLease, LeaseInv, LeaseTypeOK
<1>3. \A p \in Owners \ {o} : ~ (handle[p] > now)
  \* p would be in an unexpired row that o may not take
  <2> SUFFICES ASSUME NEW p \in Owners \ {o}, handle[p] > now PROVE FALSE
    OBVIOUS
  <2>1. row.owner = p /\ row.expires = handle[p]
    BY DEF LeaseInv, HandleMatchesRow, BelievesHeld
  <2>2. row.expires <= at
    BY <2>1, LeaseAssumption DEF AcquireInstanceLease, MayTake
  <2>3. handle[p] \in Nat
    BY DEF LeaseInv, LeaseTypeOK
  <2> QED
    BY <1>1, <2>1, <2>2, <2>3
<1>4. HandleMatchesRow'
  BY <1>1, <1>3 DEF AcquireInstanceLease, HandleMatchesRow, BelievesHeld, LeaseInv, LeaseTypeOK
<1>5. RowOwnerNotSuperseded'
  BY DEF AcquireInstanceLease, RowOwnerNotSuperseded
<1> QED
  BY <1>2, <1>4, <1>5 DEF LeaseInv

LEMMA RenewPreserves ==
    ASSUME LeaseInv, NEW o \in Owners, NEW at \in Timestamps, NEW d \in Durations,
           RenewInstanceLease(o, at, d)
    PROVE  LeaseInv'
<1>1. at \in Nat /\ d \in Nat \ {0}
  BY LeaseAssumption DEF Timestamps, LeaseInv, LeaseTypeOK
<1>2. LeaseTypeOK'
  BY <1>1 DEF RenewInstanceLease, LeaseInv, LeaseTypeOK
<1>3. \A p \in Owners \ {o} : ~ (handle[p] > now)
  BY DEF LeaseInv, HandleMatchesRow, BelievesHeld, RenewInstanceLease, LeaseValidAt
<1>4. HandleMatchesRow'
  BY <1>3 DEF RenewInstanceLease, LeaseValidAt, HandleMatchesRow, BelievesHeld, LeaseInv,
       LeaseTypeOK
<1>5. RowOwnerNotSuperseded'
  BY DEF RenewInstanceLease, RowOwnerNotSuperseded, LeaseInv, LeaseTypeOK
<1> QED
  BY <1>2, <1>4, <1>5 DEF LeaseInv

LEMMA ReleasePreserves ==
    ASSUME LeaseInv, NEW o \in Owners, ReleaseInstanceLease(o)
    PROVE  LeaseInv'
<1>1. LeaseTypeOK'
  BY DEF ReleaseInstanceLease, NoRow, LeaseInv, LeaseTypeOK
<1>2. \A p \in Owners \ {o} : ~ (handle[p] > now)
  BY DEF LeaseInv, HandleMatchesRow, BelievesHeld, ReleaseInstanceLease
<1>3. HandleMatchesRow'
  BY <1>2 DEF ReleaseInstanceLease, HandleMatchesRow, BelievesHeld, LeaseInv, LeaseTypeOK
<1>4. RowOwnerNotSuperseded'
  BY LeaseAssumption DEF ReleaseInstanceLease, NoRow, RowOwnerNotSuperseded, LeaseInv, LeaseTypeOK
<1> QED
  BY <1>1, <1>3, <1>4 DEF LeaseInv

LEMMA WritePreserves ==
    ASSUME LeaseInv, NEW o \in Owners, NEW at \in Timestamps, TradableWrite(o, at)
    PROVE  LeaseInv' /\ lastWrite'.owner \notin superseded
<1>1. LeaseTypeOK'
  BY DEF TradableWrite, LeaseInv, LeaseTypeOK
<1>2. HandleMatchesRow' /\ RowOwnerNotSuperseded'
  BY DEF TradableWrite, HandleMatchesRow, BelievesHeld, RowOwnerNotSuperseded, LeaseInv
<1>3. lastWrite'.owner = row.owner
  BY DEF TradableWrite, LeaseValidAt
<1> QED
  BY <1>1, <1>2, <1>3 DEF LeaseInv, RowOwnerNotSuperseded

LEMMA LeaseStep == LeaseInv /\ [LeaseNext]_leaseVars => LeaseInv'
<1> SUFFICES ASSUME LeaseInv, [LeaseNext]_leaseVars PROVE LeaseInv'
  OBVIOUS
<1>1. CASE Tick
  <2>1. now \in Nat /\ now' = now + 1 /\ LeaseTypeOK'
    BY <1>1 DEF Tick, LeaseInv, LeaseTypeOK
  <2> QED
    BY <1>1, <2>1 DEF Tick, LeaseInv, LeaseTypeOK, HandleMatchesRow, BelievesHeld,
                      RowOwnerNotSuperseded
<1>2. CASE UNCHANGED leaseVars
  BY <1>2 DEF leaseVars, LeaseInv, LeaseTypeOK, HandleMatchesRow, BelievesHeld,
       RowOwnerNotSuperseded
<1> QED
  BY <1>1, <1>2, AcquirePreserves, RenewPreserves, ReleasePreserves, WritePreserves DEF LeaseNext

\* The inductive invariant holds in every reachable state of the lease.
THEOREM LeaseInvariant == LeaseSpec => []LeaseInv
  BY InitLease, LeaseStep, PTL DEF LeaseSpec

(***************************************************************************)
(* At no time do two instances both believe, by the clock and their own    *)
(* InstanceLease, that they hold the lease (acquire_instance_lease,        *)
(* renew_instance_lease, release_instance_lease).                          *)
(***************************************************************************)
THEOREM MutualExclusion == LeaseSpec => []AtMostOneHolder
<1>1. LeaseInv => AtMostOneHolder
  <2> SUFFICES ASSUME LeaseInv, NEW o1 \in Owners, NEW o2 \in Owners,
                      BelievesHeld(o1), BelievesHeld(o2)
               PROVE  o1 = o2
    BY DEF AtMostOneHolder
  <2>1. row.owner = o1 /\ row.owner = o2
    BY DEF LeaseInv, HandleMatchesRow
  <2> QED
    BY <2>1
<1> QED
  BY <1>1, LeaseInvariant, PTL

(***************************************************************************)
(* An instance that was taken over commits no tradable write until it has  *)
(* acquired the lease again: ensure_instance_lease fences it whatever      *)
(* timestamp it presents.                                                  *)
(***************************************************************************)
THEOREM Fencing == LeaseSpec => SupersededOwnerIsFenced
<1>1. LeaseInv /\ [LeaseNext]_leaseVars => [lastWrite' # lastWrite =>
         lastWrite'.owner \notin superseded]_leaseVars
  <2> SUFFICES ASSUME LeaseInv, LeaseNext, lastWrite' # lastWrite
               PROVE  lastWrite'.owner \notin superseded
    BY DEF leaseVars
  <2>1. PICK o \in Owners : \E at \in Timestamps : TradableWrite(o, at)
    BY DEF LeaseNext, Tick, ReleaseInstanceLease, AcquireInstanceLease, RenewInstanceLease
  <2> QED
    BY <2>1, WritePreserves
<1> QED
  BY <1>1, LeaseInvariant, PTL DEF LeaseSpec, SupersededOwnerIsFenced

-----------------------------------------------------------------------------
(***************************************************************************)
(* A bounded queue: its depth accounts for its events and its metrics are  *)
(* off by one at most, for any number of senders and any capacity.         *)
(***************************************************************************)
\* How many senders are in one of the states W.
In(f, W) == {s \in Senders : f[s] \in W}
Count(f, W) == Cardinality(In(f, W))
Holding == {"reserved", "counting", "counted"}
Announcing == {"counting", "counted"}
Pending == {"reserved"}

LEMMA States ==
    /\ "idle" \notin Holding /\ "dropped" \notin Holding
    /\ "reserved" \in Holding /\ "counting" \in Holding /\ "counted" \in Holding
    /\ "idle" \notin Announcing /\ "dropped" \notin Announcing /\ "reserved" \notin Announcing
    /\ "counting" \in Announcing /\ "counted" \in Announcing
    /\ "idle" \notin Pending /\ "dropped" \notin Pending /\ "reserved" \in Pending
    /\ "counting" \notin Pending /\ "counted" \notin Pending
    /\ Announcing \subseteq Holding /\ Pending \subseteq Holding
BY DEF Holding, Announcing, Pending

\* g differs from f in the state of s only, and their numbers in W accordingly.
Moved(f, g, s) ==
    /\ f \in [Senders -> SenderStates] /\ g \in [Senders -> SenderStates]
    /\ \A r \in Senders \ {s} : g[r] = f[r]
Changed(f, g, s, W) ==
    /\ Count(f, W) \in Nat /\ Count(g, W) \in Nat
    /\ g[s] \in W /\ f[s] \in W => Count(g, W) = Count(f, W)
    /\ g[s] \in W /\ f[s] \notin W => Count(g, W) = Count(f, W) + 1
    /\ g[s] \notin W /\ f[s] \in W => Count(g, W) = Count(f, W) - 1
    /\ g[s] \notin W /\ f[s] \notin W => Count(g, W) = Count(f, W)

\* When one sender moves, the number of senders in W changes by it alone.
LEMMA Moves ==
    ASSUME NEW f, NEW g, NEW s \in Senders, NEW W, Moved(f, g, s)
    PROVE  Changed(f, g, s, W)
<1>1. IsFiniteSet(In(f, W)) /\ IsFiniteSet(In(g, W))
  <2>1. In(f, W) \in SUBSET Senders /\ In(g, W) \in SUBSET Senders
    BY DEF In
  <2> QED
    BY <2>1, QueueAssumption, FS_Subset
<1>2. Count(f, W) \in Nat /\ Count(g, W) \in Nat
  BY <1>1, FS_CardinalityType DEF Count
<1>3. g[s] \in W => In(g, W) = In(f, W) \cup {s}
  BY DEF In, Moved
<1>4. g[s] \notin W => In(g, W) = In(f, W) \ {s}
  BY DEF In, Moved
<1>5. s \in In(f, W) <=> f[s] \in W
  BY DEF In
<1>6. Cardinality(In(f, W) \cup {s}) =
         IF s \in In(f, W) THEN Cardinality(In(f, W)) ELSE Cardinality(In(f, W)) + 1
  BY <1>1, FS_AddElement
<1>7. Cardinality(In(f, W) \ {s}) =
         IF s \in In(f, W) THEN Cardinality(In(f, W)) - 1 ELSE Cardinality(In(f, W))
  BY <1>1, FS_RemoveElement
<1> QED
  BY <1>2, <1>3, <1>4, <1>5, <1>6, <1>7 DEF Count, Changed

\* More states hold more senders.
LEMMA Contained ==
    ASSUME NEW f, NEW V, NEW W, V \subseteq W
    PROVE  Count(f, V) \in Nat /\ Count(f, W) \in Nat /\ Count(f, V) <= Count(f, W)
<1>1. In(f, V) \in SUBSET In(f, W) /\ In(f, W) \in SUBSET Senders
  BY DEF In
<1>2. IsFiniteSet(In(f, W))
  BY <1>1, QueueAssumption, FS_Subset
<1>3. IsFiniteSet(In(f, V)) /\ Cardinality(In(f, V)) <= Cardinality(In(f, W))
  BY <1>1, <1>2, FS_Subset
<1> QED
  BY <1>2, <1>3, FS_CardinalityType DEF Count

(***************************************************************************)
(* The inductive invariant.  After the receiver has closed the channel no  *)
(* permit is handed out, so what the senders may still add to a cleared    *)
(* depth is bounded by the permits they hold.                              *)
(***************************************************************************)
DepthExact == Receiving => depth = Len(channel) + Count(sender, Announcing) + Unaccounted
DepthCleared == ~Receiving => depth + Count(sender, Pending) <= Capacity
WithinCapacity == Len(channel) + Count(sender, Holding) <= Capacity
CountedBounded == \A s \in Senders : sender[s] = "counting" => counted[s] <= Capacity + 1
MarkedBounded == /\ \A s \in Senders : sender[s] = "counted" => counted[s] <= watermark
                 /\ watermark <= Capacity + 1

QueueInv == /\ QueueTypeOK
            /\ DepthExact /\ DepthCleared /\ WithinCapacity
            /\ CountedBounded /\ MarkedBounded

LEMMA CountedSets ==
    Cardinality(Reserving) = Count(sender, Holding)
    /\ Cardinality(Announced) = Count(sender, Announcing)
BY DEF Reserving, Announced, Count, In, Holding, Announcing

LEMMA InitQueue == QueueInit => QueueInv
<1> SUFFICES ASSUME QueueInit PROVE QueueInv
  OBVIOUS
<1>1. QueueTypeOK
  <2>1. channel \in Seq(Senders)
    BY DEF QueueInit
  <2> QED
    BY <2>1 DEF QueueInit, QueueTypeOK, None, SenderStates, ReceiverStates
<1>2. Count(sender, Holding) = 0 /\ Count(sender, Announcing) = 0 /\ Count(sender, Pending) = 0
  <2>1. In(sender, Holding) = {} /\ In(sender, Announcing) = {} /\ In(sender, Pending) = {}
    BY DEF QueueInit, In, Holding, Announcing, Pending
  <2> QED
    BY <2>1, FS_EmptySet DEF Count
<1>3. Len(channel) = 0
  BY DEF QueueInit
<1> QED
  BY <1>1, <1>2, <1>3, QueueAssumption
  DEF QueueInit, QueueInv, DepthExact, DepthCleared, WithinCapacity, CountedBounded, MarkedBounded,
      Unaccounted, Receiving

\* While the receiver lives, one more than the capacity bounds the depth; a
\* sender that is about to count leaves room for its event.
LEMMA DepthBounded ==
    ASSUME QueueInv
    PROVE  /\ depth <= Capacity + 1
           /\ \A s \in Senders : sender[s] = "reserved" => depth <= Capacity
<1>1. /\ Count(sender, Announcing) \in Nat /\ Count(sender, Holding) \in Nat
      /\ Count(sender, Announcing) <= Count(sender, Holding)
  BY Contained, States
<1>2. Count(sender, Pending) \in Nat
  BY Contained
<1>3. \A s \in Senders : sender[s] = "reserved" =>
         Count(sender, Announcing) < Count(sender, Holding)
  <2> SUFFICES ASSUME NEW s \in Senders, sender[s] = "reserved"
               PROVE  Count(sender, Announcing) < Count(sender, Holding)
    OBVIOUS
  <2> DEFINE g == [sender EXCEPT ![s] = "counting"]
  <2>1. Moved(sender, g, s) /\ g[s] = "counting"
    BY DEF QueueInv, QueueTypeOK, Moved, SenderStates
  <2>2. Count(g, Announcing) = Count(sender, Announcing) + 1
    <3>1. Changed(sender, g, s, Announcing)
      BY <2>1, Moves
    <3> QED
      BY <2>1, <3>1, States DEF Changed
  <2>3. Count(g, Holding) = Count(sender, Holding)
    <3>1. Changed(sender, g, s, Holding)
      BY <2>1, Moves
    <3> QED
      BY <2>1, <3>1, States DEF Changed
  <2>4. Count(g, Announcing) <= Count(g, Holding)
    BY Contained, States
  <2> QED
    BY <1>1, <2>2, <2>3, <2>4
<1>4. Len(channel) \in Nat /\ depth \in Nat /\ Capacity \in Nat
  BY QueueAssumption DEF QueueInv, QueueTypeOK
<1>5. CASE Receiving
  BY <1>1, <1>3, <1>4, <1>5 DEF QueueInv, DepthExact, WithinCapacity, Unaccounted
<1>6. CASE ~Receiving
  BY <1>2, <1>4, <1>6 DEF QueueInv, DepthCleared
<1> QED
  BY <1>5, <1>6

-----------------------------------------------------------------------------
(* The steps of a sender *)

\* The three numbers, when one sender moves.
LEMMA SenderMoves ==
    ASSUME NEW s \in Senders, Moved(sender, sender', s)
    PROVE  /\ Changed(sender, sender', s, Holding)
           /\ Changed(sender, sender', s, Announcing)
           /\ Changed(sender, sender', s, Pending)
BY Moves

LEMMA TryReserveStep == ASSUME QueueInv, NEW s \in Senders, TryReserve(s) PROVE QueueInv'
<1>1. CASE sender' = sender
  <2>1. UNCHANGED <<channel, depth, watermark, sender, counted, receiver, loaded>>
    BY <1>1 DEF TryReserve, Reject, metrics
  <2>2. queueIssues' \subseteq {"QueueSaturated", "QueueClosed"}
    BY DEF TryReserve, Reject, QueueInv, QueueTypeOK
  <2> QED
    BY <2>1, <2>2
    DEF QueueInv, QueueTypeOK, DepthExact, DepthCleared, WithinCapacity, CountedBounded,
        MarkedBounded, Receiving, Unaccounted
<1>2. CASE sender' # sender
  <2>1. /\ ~Closed /\ Room
        /\ sender[s] = "idle" /\ sender' = [sender EXCEPT ![s] = "reserved"]
        /\ UNCHANGED <<channel, depth, watermark, counted, receiver, loaded, queueIssues>>
    BY <1>2 DEF TryReserve, Reject, metrics
  <2>2. sender \in [Senders -> SenderStates]
    BY DEF QueueInv, QueueTypeOK
  <2>m. Moved(sender, sender', s) /\ sender'[s] = "reserved"
    BY <2>1, <2>2 DEF Moved, SenderStates
  <2>3. Count(sender', Holding) = Count(sender, Holding) + 1 /\ Count(sender, Holding) \in Nat
    BY <2>1, <2>m, SenderMoves, States DEF Changed
  <2>4. Count(sender', Announcing) = Count(sender, Announcing)
    BY <2>1, <2>m, SenderMoves, States DEF Changed
  <2>5. QueueTypeOK'
    BY <2>1, <2>2 DEF QueueInv, QueueTypeOK, SenderStates
  <2>6. WithinCapacity'
    BY <2>1, <2>3, CountedSets, QueueAssumption DEF WithinCapacity, Room, QueueInv, QueueTypeOK
  <2>7. Receiving
    BY <2>1 DEF QueueInv, QueueTypeOK, ReceiverStates, Receiving, Closed
  <2>8. DepthExact' /\ DepthCleared'
    BY <2>1, <2>4, <2>7 DEF QueueInv, DepthExact, DepthCleared, Receiving, Unaccounted
  <2>9. CountedBounded' /\ MarkedBounded'
    BY <2>1, <2>2 DEF QueueInv, CountedBounded, MarkedBounded
  <2> QED
    BY <2>5, <2>6, <2>8, <2>9 DEF QueueInv
<1> QED
  BY <1>1, <1>2

LEMMA CountSendStep == ASSUME QueueInv, NEW s \in Senders, CountSend(s) PROVE QueueInv'
<1>1. sender \in [Senders -> SenderStates] /\ depth \in Nat
  BY DEF QueueInv, QueueTypeOK
<1>2. /\ sender[s] = "reserved" /\ sender' = [sender EXCEPT ![s] = "counting"]
      /\ depth' = depth + 1 /\ counted' = [counted EXCEPT ![s] = depth + 1]
      /\ UNCHANGED <<channel, watermark, receiver, loaded, queueIssues>>
  BY DEF CountSend
<1>m. Moved(sender, sender', s) /\ sender'[s] = "counting"
  BY <1>1, <1>2 DEF Moved, SenderStates
<1>3. Count(sender', Holding) = Count(sender, Holding)
  BY <1>2, <1>m, SenderMoves, States DEF Changed
<1>4. /\ Count(sender', Announcing) = Count(sender, Announcing) + 1
      /\ Count(sender, Announcing) \in Nat
  BY <1>2, <1>m, SenderMoves, States DEF Changed
<1>5. Count(sender', Pending) = Count(sender, Pending) - 1 /\ Count(sender, Pending) \in Nat
  BY <1>2, <1>m, SenderMoves, States DEF Changed
<1>6. QueueTypeOK'
  BY <1>1, <1>2 DEF QueueInv, QueueTypeOK, SenderStates
<1>n. Len(channel) \in Nat /\ Unaccounted \in Nat /\ Unaccounted' = Unaccounted
  BY <1>2 DEF QueueInv, QueueTypeOK, Unaccounted
<1>7. DepthExact'
  <2> SUFFICES ASSUME Receiving'
               PROVE  depth' = Len(channel') + Count(sender', Announcing) + Unaccounted'
    BY DEF DepthExact
  <2>1. depth = Len(channel) + Count(sender, Announcing) + Unaccounted
    BY <1>2 DEF QueueInv, DepthExact, Receiving
  <2> QED
    BY <1>1, <1>2, <1>4, <1>n, <2>1
<1>8. DepthCleared'
  BY <1>1, <1>2, <1>5, QueueAssumption DEF QueueInv, DepthCleared, Receiving
<1>9. CountedBounded'
  BY <1>1, <1>2, DepthBounded, QueueAssumption DEF QueueInv, QueueTypeOK, CountedBounded
<1>10. MarkedBounded' /\ WithinCapacity'
  BY <1>1, <1>2, <1>3 DEF QueueInv, QueueTypeOK, MarkedBounded, WithinCapacity
<1> QED
  BY <1>6, <1>7, <1>8, <1>9, <1>10 DEF QueueInv

LEMMA MarkSendStep == ASSUME QueueInv, NEW s \in Senders, MarkSend(s) PROVE QueueInv'
<1>1. /\ sender \in [Senders -> SenderStates] /\ counted \in [Senders -> Nat]
      /\ watermark \in Nat /\ Capacity \in Nat
  BY QueueAssumption DEF QueueInv, QueueTypeOK
<1>2. /\ sender[s] = "counting" /\ sender' = [sender EXCEPT ![s] = "counted"]
      /\ watermark' = IF counted[s] > watermark THEN counted[s] ELSE watermark
      /\ UNCHANGED <<channel, depth, counted, receiver, loaded, queueIssues>>
  BY DEF MarkSend, Raise
<1>m. Moved(sender, sender', s) /\ sender'[s] = "counted"
  BY <1>1, <1>2 DEF Moved, SenderStates
<1>3. Count(sender', Holding) = Count(sender, Holding)
  BY <1>2, <1>m, SenderMoves, States DEF Changed
<1>4. Count(sender', Announcing) = Count(sender, Announcing)
  BY <1>2, <1>m, SenderMoves, States DEF Changed
<1>5. Count(sender', Pending) = Count(sender, Pending)
  BY <1>2, <1>m, SenderMoves, States DEF Changed
<1>6. QueueTypeOK'
  BY <1>1, <1>2 DEF QueueInv, QueueTypeOK, SenderStates
<1>7. DepthExact' /\ DepthCleared' /\ WithinCapacity'
  BY <1>2, <1>3, <1>4, <1>5
  DEF QueueInv, DepthExact, DepthCleared, WithinCapacity, Receiving, Unaccounted
<1>8. watermark' >= watermark /\ watermark' >= counted[s] /\ watermark' \in Nat
  BY <1>1, <1>2
<1>9. watermark' <= Capacity + 1
  BY <1>1, <1>2 DEF QueueInv, CountedBounded, MarkedBounded
<1>10. CountedBounded' /\ MarkedBounded'
  <2>1. \A r \in Senders : sender'[r] = "counted" => counted'[r] <= watermark'
    BY <1>1, <1>2, <1>8 DEF QueueInv, MarkedBounded
  <2> QED
    BY <1>1, <1>2, <1>9, <2>1 DEF QueueInv, CountedBounded, MarkedBounded
<1> QED
  BY <1>6, <1>7, <1>10 DEF QueueInv

LEMMA SendEventStep == ASSUME QueueInv, NEW s \in Senders, SendEvent(s) PROVE QueueInv'
<1>1. sender \in [Senders -> SenderStates] /\ counted \in [Senders -> Nat]
  BY DEF QueueInv, QueueTypeOK
<1>2. /\ sender[s] = "counted" /\ sender' = [sender EXCEPT ![s] = "idle"]
      /\ channel' = Append(channel, s) /\ counted' = [counted EXCEPT ![s] = 0]
      /\ UNCHANGED <<depth, watermark, receiver, loaded, queueIssues>>
  BY DEF SendEvent, metrics
<1>m. Moved(sender, sender', s) /\ sender'[s] = "idle"
  BY <1>1, <1>2 DEF Moved, SenderStates
<1>3. Count(sender', Holding) = Count(sender, Holding) - 1 /\ Count(sender, Holding) \in Nat
  BY <1>2, <1>m, SenderMoves, States DEF Changed
<1>4. /\ Count(sender', Announcing) = Count(sender, Announcing) - 1
      /\ Count(sender, Announcing) \in Nat
  BY <1>2, <1>m, SenderMoves, States DEF Changed
<1>5. Count(sender', Pending) = Count(sender, Pending)
  BY <1>2, <1>m, SenderMoves, States DEF Changed
<1>6. channel' \in Seq(Senders) /\ Len(channel') = Len(channel) + 1 /\ Len(channel) \in Nat
  BY <1>2 DEF QueueInv, QueueTypeOK
<1>7. QueueTypeOK'
  BY <1>1, <1>2, <1>6 DEF QueueInv, QueueTypeOK, SenderStates
<1>n. /\ Unaccounted \in Nat /\ Unaccounted' = Unaccounted
      /\ depth \in Nat /\ Capacity \in Nat
  BY <1>2, QueueAssumption DEF QueueInv, QueueTypeOK, Unaccounted
<1>8. DepthExact' /\ DepthCleared' /\ WithinCapacity'
  <2>1. DepthExact'
    <3> SUFFICES ASSUME Receiving'
                 PROVE  depth' = Len(channel') + Count(sender', Announcing) + Unaccounted'
      BY DEF DepthExact
    <3>1. depth = Len(channel) + Count(sender, Announcing) + Unaccounted
      BY <1>2 DEF QueueInv, DepthExact, Receiving
    <3> QED
      BY <1>2, <1>4, <1>6, <1>n, <3>1
  <2>2. DepthCleared'
    BY <1>2, <1>5 DEF QueueInv, DepthCleared, Receiving
  <2>3. WithinCapacity'
    BY <1>3, <1>6, <1>n DEF QueueInv, WithinCapacity
  <2> QED
    BY <2>1, <2>2, <2>3
<1>9. CountedBounded' /\ MarkedBounded'
  BY <1>1, <1>2 DEF QueueInv, CountedBounded, MarkedBounded
<1> QED
  BY <1>7, <1>8, <1>9 DEF QueueInv

LEMMA DropSenderStep == ASSUME QueueInv, NEW s \in Senders, DropSender(s) PROVE QueueInv'
<1>1. sender \in [Senders -> SenderStates]
  BY DEF QueueInv, QueueTypeOK
<1>2. /\ sender[s] = "idle" /\ sender' = [sender EXCEPT ![s] = "dropped"]
      /\ UNCHANGED <<channel, depth, watermark, counted, receiver, loaded, queueIssues>>
  BY DEF DropSender, metrics
<1>m. Moved(sender, sender', s) /\ sender'[s] = "dropped"
  BY <1>1, <1>2 DEF Moved, SenderStates
<1>3. Count(sender', Holding) = Count(sender, Holding)
  BY <1>2, <1>m, SenderMoves, States DEF Changed
<1>4. Count(sender', Announcing) = Count(sender, Announcing)
  BY <1>2, <1>m, SenderMoves, States DEF Changed
<1>5. Count(sender', Pending) = Count(sender, Pending)
  BY <1>2, <1>m, SenderMoves, States DEF Changed
<1>6. QueueTypeOK'
  BY <1>1, <1>2 DEF QueueInv, QueueTypeOK, SenderStates
<1>7. DepthExact' /\ DepthCleared' /\ WithinCapacity'
  BY <1>2, <1>3, <1>4, <1>5
  DEF QueueInv, DepthExact, DepthCleared, WithinCapacity, Receiving, Unaccounted
<1>8. CountedBounded' /\ MarkedBounded'
  BY <1>1, <1>2 DEF QueueInv, CountedBounded, MarkedBounded
<1> QED
  BY <1>6, <1>7, <1>8 DEF QueueInv

-----------------------------------------------------------------------------
(* The steps of the receiver and of a snapshot *)

LEMMA ReceiveStep == ASSUME QueueInv, Receive PROVE QueueInv'
<1>1. /\ channel # <<>> /\ channel' = Tail(channel)
      /\ receiver = "idle" /\ receiver' = "received"
      /\ UNCHANGED <<depth, watermark, sender, counted, loaded, queueIssues>>
  BY DEF Receive, metrics
<1>2. channel' \in Seq(Senders) /\ Len(channel') = Len(channel) - 1 /\ Len(channel) \in Nat
  BY <1>1 DEF QueueInv, QueueTypeOK
<1>3. Count(sender, Holding) \in Nat /\ Count(sender, Announcing) \in Nat
  BY Contained
<1>4. QueueTypeOK'
  BY <1>1, <1>2 DEF QueueInv, QueueTypeOK, ReceiverStates
<1>5. DepthExact' /\ DepthCleared' /\ WithinCapacity'
  BY <1>1, <1>2, <1>3, QueueAssumption
  DEF QueueInv, DepthExact, DepthCleared, WithinCapacity, Receiving, Unaccounted
<1>6. CountedBounded' /\ MarkedBounded'
  BY <1>1 DEF QueueInv, CountedBounded, MarkedBounded
<1> QED
  BY <1>4, <1>5, <1>6 DEF QueueInv

LEMMA CountReceiveStep == ASSUME QueueInv, CountReceive PROVE QueueInv'
<1>1. /\ receiver = "received" /\ receiver' = "idle" /\ depth' = Decremented
      /\ UNCHANGED <<channel, watermark, sender, counted, loaded, queueIssues>>
  BY DEF CountReceive
<1>2. Len(channel) \in Nat /\ depth \in Nat /\ Count(sender, Announcing) \in Nat
  BY Contained DEF QueueInv, QueueTypeOK
<1>3. depth = Len(channel) + Count(sender, Announcing) + 1
  BY <1>1 DEF QueueInv, DepthExact, Receiving, Unaccounted
<1>4. depth' = Len(channel) + Count(sender, Announcing)
  BY <1>1, <1>2, <1>3 DEF Decremented
<1>5. QueueTypeOK'
  BY <1>1, <1>2, <1>4 DEF QueueInv, QueueTypeOK, ReceiverStates
<1>6. DepthExact' /\ DepthCleared' /\ WithinCapacity'
  BY <1>1, <1>2, <1>4
  DEF QueueInv, DepthExact, DepthCleared, WithinCapacity, Receiving, Unaccounted
<1>7. CountedBounded' /\ MarkedBounded'
  BY <1>1 DEF QueueInv, CountedBounded, MarkedBounded
<1> QED
  BY <1>5, <1>6, <1>7 DEF QueueInv

LEMMA OtherQueueStep ==
    ASSUME QueueInv,
           \/ ReceiveNone \/ CloseReceiver \/ ClearDepth \/ DropReceiver
           \/ LoadDepth \/ LoadWatermark
    PROVE  QueueInv'
<1>1. /\ Count(sender, Holding) \in Nat /\ Count(sender, Pending) \in Nat
      /\ Count(sender, Pending) <= Count(sender, Holding)
  BY Contained, States
<1>2. Len(channel) \in Nat /\ depth \in Nat /\ Capacity \in Nat
  BY QueueAssumption DEF QueueInv, QueueTypeOK
<1>3. CASE ReceiveNone \/ LoadDepth \/ LoadWatermark
  <2>1. UNCHANGED <<channel, depth, watermark, sender, counted, receiver>>
    BY <1>3 DEF ReceiveNone, LoadDepth, LoadWatermark, metrics
  <2>2. QueueTypeOK'
    BY <1>3, <2>1 DEF ReceiveNone, LoadDepth, LoadWatermark, QueueInv, QueueTypeOK, None
  <2> QED
    BY <2>1, <2>2
    DEF QueueInv, DepthExact, DepthCleared, WithinCapacity, CountedBounded, MarkedBounded,
        Receiving, Unaccounted
<1>4. CASE CloseReceiver
  <2>1. /\ receiver = "idle" /\ receiver' = "closing"
        /\ UNCHANGED <<channel, depth, watermark, sender, counted, loaded, queueIssues>>
    BY <1>4 DEF CloseReceiver, metrics
  <2>2. QueueTypeOK'
    BY <2>1 DEF QueueInv, QueueTypeOK, ReceiverStates
  <2> QED
    BY <2>1, <2>2
    DEF QueueInv, DepthExact, DepthCleared, WithinCapacity, CountedBounded, MarkedBounded,
        Receiving, Unaccounted
<1>5. CASE ClearDepth
  <2>1. /\ receiver' = "cleared" /\ depth' = 0
        /\ UNCHANGED <<channel, watermark, sender, counted, loaded, queueIssues>>
    BY <1>5 DEF ClearDepth
  <2>2. QueueTypeOK'
    BY <2>1 DEF QueueInv, QueueTypeOK, ReceiverStates
  <2>3. DepthExact' /\ DepthCleared'
    BY <1>1, <1>2, <2>1 DEF QueueInv, DepthExact, DepthCleared, WithinCapacity, Receiving
  <2> QED
    BY <2>1, <2>2, <2>3 DEF QueueInv, WithinCapacity, CountedBounded, MarkedBounded
<1>6. CASE DropReceiver
  <2>1. /\ receiver = "cleared" /\ receiver' = "dropped" /\ channel' = <<>>
        /\ queueIssues' = queueIssues \cup {"QueueClosed"}
        /\ UNCHANGED <<depth, watermark, sender, counted, loaded>>
    BY <1>6 DEF DropReceiver, metrics
  <2>2. channel' \in Seq(Senders) /\ Len(channel') = 0
    BY <2>1
  <2>3. QueueTypeOK'
    BY <2>1, <2>2 DEF QueueInv, QueueTypeOK, ReceiverStates
  <2>4. DepthExact' /\ DepthCleared' /\ WithinCapacity'
    BY <1>1, <1>2, <2>1, <2>2 DEF QueueInv, DepthExact, DepthCleared, WithinCapacity, Receiving
  <2> QED
    BY <2>1, <2>3, <2>4 DEF QueueInv, CountedBounded, MarkedBounded
<1> QED
  BY <1>3, <1>4, <1>5, <1>6

LEMMA StepQueue == QueueInv /\ [QueueNext]_queueVars => QueueInv'
<1> SUFFICES ASSUME QueueInv, [QueueNext]_queueVars PROVE QueueInv'
  OBVIOUS
<1>1. CASE UNCHANGED queueVars
  BY <1>1 DEF queueVars, QueueInv, QueueTypeOK, DepthExact, DepthCleared, WithinCapacity,
       CountedBounded,
              MarkedBounded, Receiving, Unaccounted
<1>2. CASE \E s \in Senders :
             TryReserve(s) \/ CountSend(s) \/ MarkSend(s) \/ SendEvent(s) \/ DropSender(s)
  BY <1>2, TryReserveStep, CountSendStep, MarkSendStep, SendEventStep, DropSenderStep
<1>3. CASE Receive
  BY <1>3, ReceiveStep
<1>4. CASE CountReceive
  BY <1>4, CountReceiveStep
<1>5. CASE ReceiveNone \/ CloseReceiver \/ ClearDepth \/ DropReceiver \/ LoadDepth \/ LoadWatermark
  BY <1>5, OtherQueueStep
<1> QED
  BY <1>1, <1>2, <1>3, <1>4, <1>5 DEF QueueNext

-----------------------------------------------------------------------------
\* The invariant holds of every behaviour of a queue, whatever its capacity and
\* however many senders it has.
THEOREM QueueInvariant == QueueSpec => []QueueInv
BY InitQueue, StepQueue, PTL DEF QueueSpec

\* record_send runs before the permit sends, so checked_sub never saturates:
\* the depth is exact but for the calls under way, as long as there is a receiver.
THEOREM DepthIsExact == QueueSpec => []DepthAccountsForEvents
<1>1. QueueInv => DepthAccountsForEvents
  BY CountedSets DEF QueueInv, DepthExact, DepthAccountsForEvents
<1> QED
  BY <1>1, QueueInvariant, PTL

\* The channel holds no more than its capacity, and depth and high watermark
\* exceed it by one at most.
THEOREM QueueIsBounded == QueueSpec => []MetricsAreBounded
<1>1. QueueInv => MetricsAreBounded
  BY CountedSets, DepthBounded DEF QueueInv, WithinCapacity, MarkedBounded, MetricsAreBounded
<1> QED
  BY <1>1, QueueInvariant, PTL

\* The high watermark never falls and covers every depth a finished record_send saw.
THEOREM WatermarkCovers == QueueSpec => WatermarkCoversCounts
<1>1. QueueInv /\ [QueueNext]_queueVars
        => [/\ watermark' >= watermark
            /\ \A s \in Senders : sender[s] = "counted" => watermark' >= counted[s]]_queueVars
  <2> SUFFICES ASSUME QueueInv, [QueueNext]_queueVars
               PROVE  /\ watermark' >= watermark
                      /\ \A s \in Senders : sender[s] = "counted" => watermark' >= counted[s]
    OBVIOUS
  <2>1. watermark \in Nat /\ counted \in [Senders -> Nat]
    BY DEF QueueInv, QueueTypeOK
  <2>2. watermark' \in Nat /\ watermark' >= watermark
    <3>1. watermark' = watermark \/ \E s \in Senders : MarkSend(s)
      BY DEF QueueNext, queueVars, TryReserve, Reject, CountSend, SendEvent, DropSender, Receive,
             CountReceive, ReceiveNone, CloseReceiver, ClearDepth, DropReceiver, LoadDepth,
             LoadWatermark, metrics
    <3> QED
      BY <2>1, <3>1 DEF MarkSend, Raise
  <2> QED
    BY <2>1, <2>2 DEF QueueInv, MarkedBounded
<1> QED
  BY <1>1, QueueInvariant, PTL DEF QueueSpec, WatermarkCoversCounts

\* The depth, and the depth a snapshot has loaded, exceed the watermark only while
\* a send that counted as much is between fetch_add and fetch_max.
THEOREM SnapshotCovered == QueueSpec => []SnapshotIsCovered
<1>1. QueueInit => SnapshotIsCovered
  BY DEF QueueInit, SnapshotIsCovered, Covered, None
<1>2. QueueInv /\ SnapshotIsCovered /\ [QueueNext]_queueVars => SnapshotIsCovered'
  <2> SUFFICES ASSUME QueueInv, SnapshotIsCovered, [QueueNext]_queueVars PROVE SnapshotIsCovered'
    OBVIOUS
  <2>1. /\ depth \in Nat /\ watermark \in Nat /\ loaded \in Nat \cup {None}
        /\ counted \in [Senders -> Nat] /\ sender \in [Senders -> SenderStates]
    BY DEF QueueInv, QueueTypeOK
  <2>2. CASE \E s \in Senders : TryReserve(s) \/ SendEvent(s) \/ DropSender(s)
    <3>1. PICK s \in Senders : TryReserve(s) \/ SendEvent(s) \/ DropSender(s)
      BY <2>2
    <3>2. UNCHANGED <<depth, watermark, loaded>> /\ sender[s] # "counting"
      BY <3>1 DEF TryReserve, Reject, SendEvent, DropSender, metrics
    <3>3. \A r \in Senders : sender[r] = "counting"
                               => sender'[r] = "counting" /\ counted'[r] = counted[r]
      BY <2>1, <3>1, <3>2 DEF TryReserve, Reject, SendEvent, DropSender, metrics
    <3> QED
      BY <3>2, <3>3 DEF SnapshotIsCovered, Covered
  <2>3. CASE \E s \in Senders : CountSend(s)
    <3>1. PICK s \in Senders : CountSend(s)
      BY <2>3
    <3>2. /\ sender[s] = "reserved" /\ sender'[s] = "counting"
          /\ depth' = depth + 1 /\ counted'[s] = depth + 1
          /\ UNCHANGED <<watermark, loaded>>
      BY <2>1, <3>1 DEF CountSend
    <3>3. \A r \in Senders : sender[r] = "counting"
                               => sender'[r] = "counting" /\ counted'[r] = counted[r]
      BY <2>1, <3>1 DEF CountSend
    <3>4. Covered(loaded)'
      BY <3>2, <3>3 DEF SnapshotIsCovered, Covered
    <3>5. Covered(depth)'
      BY <2>1, <3>2 DEF Covered
    <3> QED
      BY <3>4, <3>5 DEF SnapshotIsCovered
  <2>4. CASE \E s \in Senders : MarkSend(s)
    <3>1. PICK s \in Senders : MarkSend(s)
      BY <2>4
    <3>2. /\ watermark' \in Nat /\ watermark' >= watermark /\ watermark' >= counted[s]
          /\ UNCHANGED <<depth, loaded, counted>>
      BY <2>1, <3>1 DEF MarkSend, Raise
    <3>3. \A r \in Senders \ {s} : sender[r] = "counting" => sender'[r] = "counting"
      BY <2>1, <3>1 DEF MarkSend
    <3>4. ASSUME NEW d \in Nat \cup {None}, Covered(d)
          PROVE  d <= watermark' \/ \E r \in Senders : sender'[r] = "counting" /\ d <= counted[r]
      <4>1. CASE d <= watermark \/ d <= counted[s]
        BY <2>1, <3>2, <4>1 DEF None
      <4>2. CASE \E r \in Senders \ {s} : sender[r] = "counting" /\ d <= counted[r]
        BY <3>3, <4>2
      <4> QED
        BY <3>4, <4>1, <4>2 DEF Covered
    <3> QED
      BY <2>1, <3>2, <3>4 DEF SnapshotIsCovered, Covered
  <2>5. CASE CountReceive \/ ClearDepth
    <3>1. depth' \in Nat /\ depth' <= depth /\ UNCHANGED <<watermark, loaded, sender, counted>>
      BY <2>1, <2>5 DEF CountReceive, Decremented, ClearDepth
    <3> QED
      BY <2>1, <3>1 DEF SnapshotIsCovered, Covered
  <2>6. CASE \/ Receive \/ ReceiveNone \/ CloseReceiver \/ DropReceiver
             \/ LoadDepth \/ LoadWatermark \/ UNCHANGED queueVars
    <3>1. /\ UNCHANGED <<depth, watermark, sender, counted>>
          /\ loaded' \in {loaded, depth, None}
      BY <2>6 DEF Receive, ReceiveNone, CloseReceiver, DropReceiver, LoadDepth, LoadWatermark,
                  metrics, queueVars
    <3> QED
      BY <2>1, <3>1 DEF SnapshotIsCovered, Covered, None
  <2> QED
    BY <2>2, <2>3, <2>4, <2>5, <2>6 DEF QueueNext
<1> QED
  BY <1>1, <1>2, QueueInvariant, PTL DEF QueueSpec

-----------------------------------------------------------------------------
(***************************************************************************)
(* The supervisor: it loses no fault and accounts for every task, for any  *)
(* set of tasks and any limit.                                             *)
(***************************************************************************)
Explaining == {"ShutdownTimedOut", "CriticalTaskFailed", "SupportingTaskFailed", "TaskPanicked"}
Explained == AllIssues \cap Explaining # {}

(***************************************************************************)
(* The inductive invariant.  Only an aborted supervisor has cancelled      *)
(* tasks, and it has recorded ShutdownTimedOut before any of them ended:   *)
(* that covers the results that shutdown drops, and the ones that a later  *)
(* call joins in silence.                                                  *)
(***************************************************************************)
RunningIsHeld == \A t \in Tasks : task[t] = "running" => t \in tasks
CancelledIsAborted == \A t \in Tasks : task[t] = "cancelled" => aborted
AbortIsRecorded ==
    /\ aborted => "ShutdownTimedOut" \in issues /\ shuttingDown
    /\ call = "aborting" => aborted
    /\ call = "draining" => shuttingDown /\ forced = 0
CountsAreExplained == failed + forced > 0 => Explained

SupervisorInv ==
    /\ TypeOK
    /\ RunningIsHeld /\ CancelledIsAborted /\ AbortIsRecorded /\ CountsAreExplained
    /\ FaultsAreReported /\ ReportAccountsForTasks /\ ReportIsExplained /\ SupervisedCoversTasks

-----------------------------------------------------------------------------
\* What makes the level Halted: a task's issue or a shutdown that timed out.
TaskHalts ==
    \E i \in taskIssues : i[1] \in {"CriticalTaskExited", "CriticalTaskFailed", "TaskPanicked"}

LEMMA HaltedLevel ==
    ASSUME TypeOK
    PROVE  Level = "Halted" <=> "ShutdownTimedOut" \in issues \/ TaskHalts
<1>1. AllIssues \cap Halting # {} <=> "ShutdownTimedOut" \in issues \/ TaskHalts
  BY DEF AllIssues, Halting, TaskHalts, TypeOK, ProcessIssues, Ends
<1>2. Level = "Halted" <=> AllIssues \cap Halting # {}
  BY DEF Level
<1> QED
  BY <1>1, <1>2

\* The part of the health that matters only grows, and faults stay reported.
Grows == /\ "ShutdownTimedOut" \in issues => "ShutdownTimedOut" \in issues'
         /\ taskIssues \subseteq taskIssues'

LEMMA Latched ==
    ASSUME TypeOK, TypeOK', Grows
    PROVE  /\ Level = "Halted" => Level' = "Halted"
           /\ Explained => Explained'
<1>1. TaskHalts => TaskHalts'
  BY DEF TaskHalts, Grows
<1>2. (Level = "Halted")' <=> ("ShutdownTimedOut" \in issues \/ TaskHalts)'
  <2>1. AllIssues' \cap Halting # {} <=> "ShutdownTimedOut" \in issues' \/ TaskHalts'
    BY DEF AllIssues, Halting, TaskHalts, TypeOK, ProcessIssues, Ends
  <2>2. Level' = "Halted" <=> AllIssues' \cap Halting # {}
    BY DEF Level
  <2> QED
    BY <2>1, <2>2
<1>3. Explained => Explained'
  BY DEF Explained, AllIssues, Explaining, Grows, TypeOK, ProcessIssues
<1> QED
  BY <1>1, <1>2, <1>3, HaltedLevel DEF Grows

\* The tasks of the JoinSet are finitely many, and joining takes one away.
LEMMA Joined ==
    ASSUME TypeOK, NEW t \in tasks
    PROVE  /\ IsFiniteSet(tasks) /\ Cardinality(tasks) \in Nat
           /\ Cardinality(tasks \ {t}) = Cardinality(tasks) - 1
<1>1. IsFiniteSet(tasks)
  <2>1. tasks \in SUBSET Tasks
    BY DEF TypeOK
  <2> QED
    BY <2>1, SupervisorAssumption, FS_Subset
<1>2. Cardinality(tasks) \in Nat
  BY <1>1, FS_CardinalityType
<1>3. Cardinality(tasks \ {t}) = Cardinality(tasks) - 1
  BY <1>1, FS_RemoveElement
<1> QED
  BY <1>1, <1>2, <1>3

LEMMA Held == ASSUME TypeOK PROVE IsFiniteSet(tasks) /\ Cardinality(tasks) \in Nat
<1>1. tasks \in SUBSET Tasks
  BY DEF TypeOK
<1>2. IsFiniteSet(tasks)
  BY <1>1, SupervisorAssumption, FS_Subset
<1> QED
  BY <1>2, FS_CardinalityType

-----------------------------------------------------------------------------
LEMMA InitSupervisor == Init => SupervisorInv
<1> SUFFICES ASSUME Init PROVE SupervisorInv
  OBVIOUS
<1>1. Cardinality(tasks) = 0
  BY FS_EmptySet DEF Init
<1>2. TypeOK
  <2>1. task \in [Tasks -> TaskStates]
    BY DEF Init, TaskStates
  <2>2. report \in Reports
    BY DEF Init, Reports, NoReport
  <2>3. tasks \subseteq {t \in Tasks : task[t] # "new"} /\ Cardinality(tasks) <= TaskLimit
    BY <1>1, SupervisorAssumption DEF Init
  <2>4. issues \subseteq ProcessIssues /\ taskIssues \subseteq Ends \X Tasks
    BY DEF Init, ProcessIssues
  <2> QED
    BY <2>1, <2>2, <2>3, <2>4 DEF Init, TypeOK, Calls
<1>3. RunningIsHeld /\ CancelledIsAborted /\ AbortIsRecorded /\ CountsAreExplained
  BY DEF Init, RunningIsHeld, CancelledIsAborted, AbortIsRecorded, CountsAreExplained
<1>4. FaultsAreReported
  BY DEF Init, FaultsAreReported, Faulty
<1>5. ReportAccountsForTasks /\ ReportIsExplained /\ SupervisedCoversTasks
  BY <1>1 DEF Init, ReportAccountsForTasks, ReportIsExplained, SupervisedCoversTasks, NoReport
<1> QED
  BY <1>2, <1>3, <1>4, <1>5 DEF SupervisorInv

\* A step of a task: the JoinSet, the counts and the health stay, and so does
\* every task that is no longer running.
LEMMA FinishStep ==
    ASSUME SupervisorInv, NEW t \in Tasks, NEW outcome \in TaskStates \ {"new", "running"},
           Finish(t, outcome), outcome = "cancelled" => aborted
    PROVE  SupervisorInv'
<1>1. /\ task[t] = "running" /\ task' = [task EXCEPT ![t] = outcome]
      /\ UNCHANGED <<tasks, shuttingDown, call, expired, aborted, completed, failed, forced,
                     asked, report, issues, taskIssues, supervised>>
  BY DEF Finish, counts, health
<1>2. task \in [Tasks -> TaskStates]
  BY DEF SupervisorInv, TypeOK
<1>3. TypeOK'
  BY <1>1, <1>2 DEF SupervisorInv, TypeOK, Reports
<1>4. Level' = Level /\ Explained' = Explained
  BY <1>1 DEF Level, Explained, AllIssues
<1>5. RunningIsHeld' /\ CancelledIsAborted' /\ AbortIsRecorded' /\ CountsAreExplained'
  BY <1>1, <1>2, <1>4
  DEF SupervisorInv, RunningIsHeld, CancelledIsAborted, AbortIsRecorded, CountsAreExplained
<1>6. FaultsAreReported'
  <2>1. t \in tasks
    BY <1>1 DEF SupervisorInv, RunningIsHeld
  <2> QED
    BY <1>1, <1>2, <1>4, <2>1 DEF SupervisorInv, FaultsAreReported, Faulty
<1>7. ReportAccountsForTasks' /\ ReportIsExplained' /\ SupervisedCoversTasks'
  BY <1>1 DEF SupervisorInv, ReportAccountsForTasks, ReportIsExplained, SupervisedCoversTasks,
              AllIssues
<1> QED
  BY <1>3, <1>5, <1>6, <1>7 DEF SupervisorInv

\* A step of a call that starts no task, joins none, and touches no issue but
\* to add one.
LEMMA CallStep ==
    ASSUME SupervisorInv, UNCHANGED <<task, tasks, taskIssues>>, TypeOK', Grows,
           AbortIsRecorded', aborted => aborted', CountsAreExplained',
           ReportAccountsForTasks', ReportIsExplained', SupervisedCoversTasks'
    PROVE  SupervisorInv'
<1>1. RunningIsHeld' /\ CancelledIsAborted'
  BY DEF SupervisorInv, RunningIsHeld, CancelledIsAborted
<1>2. TypeOK
  BY DEF SupervisorInv
<1>3. FaultsAreReported'
  BY <1>2, Latched DEF SupervisorInv, FaultsAreReported, Faulty
<1> QED
  BY <1>1, <1>3 DEF SupervisorInv

LEMMA SpawnStep == ASSUME SupervisorInv, NEW t \in Tasks, Spawn(t) PROVE SupervisorInv'
<1>0. TypeOK /\ IsFiniteSet(tasks) /\ Cardinality(tasks) \in Nat
  BY Held DEF SupervisorInv
<1>1. CASE Full
  <2>1. /\ issues' = issues \cup {"TaskCapacitySaturated"}
        /\ UNCHANGED <<task, tasks, shuttingDown, call, expired, aborted, completed, failed,
                       forced, asked, report, taskIssues, supervised>>
    BY <1>1 DEF Spawn, Full, counts
  <2>2. TypeOK' /\ Grows
    BY <2>1 DEF SupervisorInv, TypeOK, ProcessIssues, Grows
  <2>3. Explained => Explained'
    BY <1>0, <2>2, Latched
  <2>4. AbortIsRecorded' /\ CountsAreExplained' /\ SupervisedCoversTasks'
    BY <2>1, <2>3 DEF SupervisorInv, AbortIsRecorded, CountsAreExplained, SupervisedCoversTasks
  <2>5. ReportAccountsForTasks' /\ ReportIsExplained'
    BY <2>1, <2>3
    DEF SupervisorInv, ReportAccountsForTasks, ReportIsExplained, Explained, Explaining
  <2> QED
    BY <2>1, <2>2, <2>4, <2>5, CallStep
<1>2. CASE ~Full
  <2>1. /\ task[t] = "new" /\ task' = [task EXCEPT ![t] = "running"]
        /\ tasks' = tasks \cup {t} /\ supervised' = Cardinality(tasks')
        /\ call = "none"
        /\ UNCHANGED <<shuttingDown, call, expired, aborted, completed, failed,
                       forced, asked, report, issues, taskIssues>>
    BY <1>2 DEF Spawn, counts, Supervising
  <2>2. t \notin tasks
    BY <2>1 DEF SupervisorInv, TypeOK
  <2>3. Cardinality(tasks') = Cardinality(tasks) + 1
    BY <1>0, <2>1, <2>2, FS_AddElement
  <2>4. Cardinality(tasks') <= TaskLimit
    BY <1>0, <1>2, <2>3, SupervisorAssumption DEF Full
  <2>5. task \in [Tasks -> TaskStates] /\ task' \in [Tasks -> TaskStates]
    BY <2>1 DEF SupervisorInv, TypeOK, TaskStates
  <2>6. TypeOK'
    BY <1>0, <2>1, <2>3, <2>4, <2>5 DEF TypeOK
  <2>7. Level' = Level /\ Explained' = Explained
    BY <2>1 DEF Level, Explained, AllIssues
  <2>8. RunningIsHeld' /\ CancelledIsAborted' /\ AbortIsRecorded' /\ CountsAreExplained'
    BY <2>1, <2>5, <2>7
    DEF SupervisorInv, RunningIsHeld, CancelledIsAborted, AbortIsRecorded, CountsAreExplained
  <2>9. FaultsAreReported'
    BY <2>1, <2>5, <2>7 DEF SupervisorInv, FaultsAreReported, Faulty
  <2>10. ReportAccountsForTasks' /\ ReportIsExplained'
    BY <2>1, <2>7
    DEF SupervisorInv, ReportAccountsForTasks, ReportIsExplained, Explained, Explaining
  <2>11. SupervisedCoversTasks'
    BY <1>0, <2>1, <2>3 DEF SupervisedCoversTasks
  <2> QED
    BY <2>6, <2>8, <2>9, <2>10, <2>11 DEF SupervisorInv
<1> QED
  BY <1>1, <1>2

-----------------------------------------------------------------------------
(* The steps that take a task out of the JoinSet *)

\* What every join keeps; the fault of the joined task is in the health.
LEMMA TakenOut ==
    ASSUME SupervisorInv, NEW t \in tasks, tasks' = tasks \ {t}, task[t] # "running",
           UNCHANGED <<task, shuttingDown, aborted, issues>>, TypeOK', Grows,
           Faulty(t) => Level' = "Halted"
    PROVE  RunningIsHeld' /\ CancelledIsAborted' /\ FaultsAreReported'
<1>1. RunningIsHeld' /\ CancelledIsAborted'
  BY DEF SupervisorInv, RunningIsHeld, CancelledIsAborted
<1>2. Level = "Halted" => Level' = "Halted"
  BY Latched DEF SupervisorInv
<1>3. ASSUME NEW r \in Tasks \ tasks', Faulty(r)' PROVE Level' = "Halted"
  <2>1. Faulty(r)
    BY <1>3 DEF Faulty
  <2>2. CASE r = t
    BY <2>1, <2>2
  <2>3. CASE r # t
    BY <1>2, <1>3, <2>1, <2>3 DEF SupervisorInv, FaultsAreReported
  <2> QED
    BY <2>2, <2>3
<1>4. FaultsAreReported'
  BY <1>3 DEF FaultsAreReported
<1> QED
  BY <1>1, <1>4

\* record_task_result puts a fault where health_level sees it.
LEMMA JoinReports ==
    ASSUME SupervisorInv, NEW t \in Tasks, Join(t)
    PROVE  /\ t \in tasks /\ task[t] # "running" /\ tasks' = tasks \ {t}
           /\ UNCHANGED <<task, shuttingDown, aborted, issues>>
           /\ Grows
           /\ taskIssues' \subseteq Ends \X Tasks
           /\ Faulty(t) => ("ShutdownTimedOut" \in issues \/ TaskHalts)'
           /\ task[t] # "ok" => Explained'
<1>1. /\ t \in tasks /\ task[t] # "running" /\ tasks' = tasks \ {t}
      /\ taskIssues' = taskIssues \cup (IssueOf(t) \X {t})
      /\ UNCHANGED <<task, shuttingDown, aborted, issues>>
  BY DEF Join, Finished
<1>2. Grows
  BY <1>1 DEF Grows
<1>3. IssueOf(t) \subseteq Ends
  BY DEF IssueOf, Ends
<1>4. taskIssues' \subseteq Ends \X Tasks
  BY <1>1, <1>3 DEF SupervisorInv, TypeOK
<1>5. task[t] \in TaskStates \ {"new", "running"}
  BY <1>1 DEF SupervisorInv, TypeOK
<1>6. CASE task[t] = "cancelled"
  <2>1. "ShutdownTimedOut" \in issues'
    BY <1>1, <1>6 DEF SupervisorInv, CancelledIsAborted, AbortIsRecorded
  <2>2. Explained'
    BY <2>1 DEF Explained, AllIssues, Explaining
  <2> QED
    BY <1>1, <1>2, <1>4, <2>1, <2>2
<1>7. CASE task[t] = "panicked"
  <2>1. IssueOf(t) = {"TaskPanicked"}
    BY <1>7 DEF IssueOf
  <2>2. <<"TaskPanicked", t>> \in taskIssues'
    BY <1>1, <2>1
  <2>3. TaskHalts' /\ Explained'
    BY <2>2 DEF TaskHalts, Explained, AllIssues, Explaining
  <2> QED
    BY <1>1, <1>2, <1>4, <2>3
<1>8. CASE task[t] = "failed" /\ t \in Critical
  <2>1. IssueOf(t) = {"CriticalTaskFailed"}
    BY <1>8 DEF IssueOf
  <2>2. <<"CriticalTaskFailed", t>> \in taskIssues'
    BY <1>1, <2>1
  <2>3. TaskHalts' /\ Explained'
    BY <2>2 DEF TaskHalts, Explained, AllIssues, Explaining
  <2> QED
    BY <1>1, <1>2, <1>4, <2>3
<1>9. CASE task[t] = "failed" /\ t \notin Critical
  <2>1. IssueOf(t) = {"SupportingTaskFailed"}
    BY <1>9 DEF IssueOf
  <2>2. <<"SupportingTaskFailed", t>> \in taskIssues'
    BY <1>1, <2>1
  <2>3. Explained'
    BY <2>2 DEF Explained, AllIssues, Explaining
  <2>4. ~Faulty(t)
    BY <1>9 DEF Faulty
  <2> QED
    BY <1>1, <1>2, <1>4, <2>3, <2>4
<1>10. CASE task[t] = "ok"
  <2>1. ~Faulty(t)
    BY <1>10 DEF Faulty
  <2> QED
    BY <1>1, <1>2, <1>4, <1>10, <2>1
<1> QED
  BY <1>5, <1>6, <1>7, <1>8, <1>9, <1>10 DEF TaskStates

\* The level in the next state, as HaltedLevel.
LEMMA HaltedNext ==
    ASSUME TypeOK', ("ShutdownTimedOut" \in issues \/ TaskHalts)'
    PROVE  Level' = "Halted"
<1>1. AllIssues' \cap Halting # {}
  BY DEF AllIssues, Halting, TaskHalts
<1> QED
  BY <1>1 DEF Level

LEMMA ReapNextStep == ASSUME SupervisorInv, NEW t \in Tasks, ReapNext(t) PROVE SupervisorInv'
<1>1. /\ Join(t) /\ call = "reaping"
      /\ UNCHANGED <<call, expired, completed, failed, forced, asked, report, supervised>>
  BY DEF ReapNext, counts
<1>2. /\ t \in tasks /\ task[t] # "running" /\ tasks' = tasks \ {t}
      /\ UNCHANGED <<task, shuttingDown, aborted, issues>>
      /\ Grows
      /\ taskIssues' \subseteq Ends \X Tasks
      /\ Faulty(t) => ("ShutdownTimedOut" \in issues \/ TaskHalts)'
  BY <1>1, JoinReports
<1>3. Cardinality(tasks') = Cardinality(tasks) - 1 /\ Cardinality(tasks) \in Nat
  BY <1>2, Joined DEF SupervisorInv
<1>4. TypeOK'
  BY <1>1, <1>2, <1>3, SupervisorAssumption DEF SupervisorInv, TypeOK
<1>5. RunningIsHeld' /\ CancelledIsAborted' /\ FaultsAreReported'
  BY <1>2, <1>4, HaltedNext, TakenOut
<1>6. Explained => Explained'
  BY <1>2, <1>4, Latched DEF SupervisorInv
<1>7. AbortIsRecorded' /\ CountsAreExplained' /\ ReportAccountsForTasks' /\ ReportIsExplained'
  BY <1>1, <1>2, <1>6
  DEF SupervisorInv, AbortIsRecorded, CountsAreExplained, ReportAccountsForTasks,
      ReportIsExplained, Explained, Explaining
<1>8. SupervisedCoversTasks'
  BY <1>1, <1>3 DEF SupervisorInv, TypeOK, SupervisedCoversTasks
<1> QED
  BY <1>4, <1>5, <1>7, <1>8 DEF SupervisorInv

LEMMA JoinNextStep == ASSUME SupervisorInv, NEW t \in Tasks, JoinNext(t) PROVE SupervisorInv'
<1>1. /\ Join(t) /\ call = "draining"
      /\ completed' = completed + (IF task[t] = "ok" THEN 1 ELSE 0)
      /\ failed' = failed + (IF task[t] = "ok" THEN 0 ELSE 1)
      /\ UNCHANGED <<call, expired, forced, asked, report, supervised>>
  BY DEF JoinNext, Succeeded
<1>2. /\ t \in tasks /\ task[t] # "running" /\ tasks' = tasks \ {t}
      /\ UNCHANGED <<task, shuttingDown, aborted, issues>>
      /\ Grows
      /\ taskIssues' \subseteq Ends \X Tasks
      /\ Faulty(t) => ("ShutdownTimedOut" \in issues \/ TaskHalts)'
      /\ task[t] # "ok" => Explained'
  BY <1>1, JoinReports
<1>3. Cardinality(tasks') = Cardinality(tasks) - 1 /\ Cardinality(tasks) \in Nat
  BY <1>2, Joined DEF SupervisorInv
<1>4. completed \in Nat /\ failed \in Nat /\ forced \in Nat /\ completed' \in Nat /\ failed' \in Nat
  BY <1>1 DEF SupervisorInv, TypeOK
<1>5. TypeOK'
  BY <1>1, <1>2, <1>3, <1>4, SupervisorAssumption DEF SupervisorInv, TypeOK
<1>6. RunningIsHeld' /\ CancelledIsAborted' /\ FaultsAreReported'
  BY <1>2, <1>5, HaltedNext, TakenOut
<1>7. Explained => Explained'
  BY <1>2, <1>5, Latched DEF SupervisorInv
<1>8. AbortIsRecorded'
  BY <1>1, <1>2 DEF SupervisorInv, AbortIsRecorded
<1>9. CountsAreExplained'
  <2>1. CASE task[t] = "ok"
    BY <1>1, <1>4, <1>7, <2>1 DEF SupervisorInv, CountsAreExplained
  <2>2. CASE task[t] # "ok"
    BY <1>2, <2>2 DEF CountsAreExplained
  <2> QED
    BY <2>1, <2>2
<1>10. ReportIsExplained'
  BY <1>1, <1>7 DEF SupervisorInv, ReportIsExplained, Explained, Explaining
<1>11. ReportAccountsForTasks'
  <2>1. completed' + failed' = completed + failed + 1
    BY <1>1, <1>4
  <2> QED
    BY <1>1, <1>3, <1>4, <2>1 DEF SupervisorInv, ReportAccountsForTasks
<1>12. SupervisedCoversTasks'
  BY <1>1, <1>3 DEF SupervisorInv, TypeOK, SupervisedCoversTasks
<1> QED
  BY <1>5, <1>6, <1>8, <1>9, <1>10, <1>11, <1>12 DEF SupervisorInv

LEMMA JoinAbortedStep ==
    ASSUME SupervisorInv, NEW t \in Tasks, JoinAborted(t) PROVE SupervisorInv'
<1>1. /\ call = "aborting" /\ t \in tasks /\ task[t] # "running" /\ tasks' = tasks \ {t}
      /\ UNCHANGED <<task, shuttingDown, call, expired, aborted, completed, failed, forced,
                     asked, report, issues, taskIssues, supervised>>
  BY DEF JoinAborted, Finished, counts, health
<1>2. Cardinality(tasks') = Cardinality(tasks) - 1 /\ Cardinality(tasks) \in Nat
  BY <1>1, Joined DEF SupervisorInv
<1>3. TypeOK' /\ Grows
  BY <1>1, <1>2, SupervisorAssumption DEF SupervisorInv, TypeOK, Grows
<1>4. ("ShutdownTimedOut" \in issues \/ TaskHalts)'
  BY <1>1 DEF SupervisorInv, AbortIsRecorded
<1>5. RunningIsHeld' /\ CancelledIsAborted' /\ FaultsAreReported'
  BY <1>1, <1>3, <1>4, HaltedNext, TakenOut
<1>6. AbortIsRecorded' /\ CountsAreExplained' /\ ReportIsExplained'
  BY <1>1
  DEF SupervisorInv, AbortIsRecorded, CountsAreExplained, ReportIsExplained, Explained, AllIssues
<1>7. ReportAccountsForTasks' /\ SupervisedCoversTasks'
  BY <1>1, <1>2 DEF SupervisorInv, TypeOK, ReportAccountsForTasks, SupervisedCoversTasks
<1> QED
  BY <1>3, <1>5, <1>6, <1>7 DEF SupervisorInv

-----------------------------------------------------------------------------
(* The other steps of a call, and of the health *)

LEMMA ShutdownStep == ASSUME SupervisorInv, Shutdown PROVE SupervisorInv'
<1>1. /\ call = "none" /\ shuttingDown' = TRUE /\ issues' = issues \cup {"ShuttingDown"}
      /\ call' = "draining" /\ expired' = FALSE
      /\ completed' = 0 /\ failed' = 0 /\ forced' = 0 /\ asked' = Cardinality(tasks)
      /\ UNCHANGED <<task, tasks, aborted, report, taskIssues, supervised>>
  BY DEF Shutdown
<1>2. Cardinality(tasks) \in Nat
  BY Held DEF SupervisorInv
<1>3. TypeOK' /\ Grows
  BY <1>1, <1>2 DEF SupervisorInv, TypeOK, Calls, ProcessIssues, Grows
<1>4. Explained => Explained'
  BY <1>3, Latched DEF SupervisorInv
<1>5. AbortIsRecorded' /\ CountsAreExplained'
  BY <1>1 DEF SupervisorInv, AbortIsRecorded, CountsAreExplained
<1>6. ReportAccountsForTasks'
  BY <1>1, <1>2 DEF SupervisorInv, ReportAccountsForTasks
<1>7. ReportIsExplained' /\ SupervisedCoversTasks'
  BY <1>1, <1>4
  DEF SupervisorInv, ReportIsExplained, SupervisedCoversTasks, Explained, Explaining
<1> QED
  BY <1>1, <1>3, <1>5, <1>6, <1>7, CallStep

LEMMA TimeOutStep == ASSUME SupervisorInv, TimeOut PROVE SupervisorInv'
<1>1. /\ call = "draining" /\ forced' = Cardinality(tasks)
      /\ issues' = issues \cup {"ShutdownTimedOut"} /\ aborted' = TRUE /\ call' = "aborting"
      /\ UNCHANGED <<task, tasks, shuttingDown, expired, completed, failed, asked, report,
                     taskIssues, supervised>>
  BY DEF TimeOut, Forced, TimedOut
<1>2. Cardinality(tasks) \in Nat
  BY Held DEF SupervisorInv
<1>3. TypeOK' /\ Grows
  BY <1>1, <1>2 DEF SupervisorInv, TypeOK, Calls, ProcessIssues, Grows
<1>4. Explained'
  BY <1>1 DEF Explained, AllIssues, Explaining
<1>5. AbortIsRecorded' /\ CountsAreExplained'
  BY <1>1, <1>4 DEF SupervisorInv, AbortIsRecorded, CountsAreExplained
<1>6. ReportAccountsForTasks'
  BY <1>1, <1>2 DEF SupervisorInv, ReportAccountsForTasks
<1>7. ReportIsExplained' /\ SupervisedCoversTasks'
  BY <1>1, <1>4
  DEF SupervisorInv, ReportIsExplained, SupervisedCoversTasks, Explained, Explaining
<1> QED
  BY <1>1, <1>3, <1>5, <1>6, <1>7, CallStep

LEMMA ReportStep == ASSUME SupervisorInv, Report PROVE SupervisorInv'
<1>1. /\ call \in {"draining", "aborting"} /\ tasks = {}
      /\ report' = [graceful |-> forced = 0, completed |-> completed, failed |-> failed,
                    forced |-> forced, asked |-> asked]
      /\ supervised' = 0 /\ call' = "none"
      /\ UNCHANGED <<task, tasks, shuttingDown, expired, aborted, completed, failed, forced,
                     asked, issues, taskIssues>>
  BY DEF Report
<1>2. Cardinality(tasks) = 0
  BY <1>1, FS_EmptySet
<1>3. completed \in Nat /\ failed \in Nat /\ forced \in Nat /\ asked \in Nat
  BY DEF SupervisorInv, TypeOK
<1>4. report' \in Reports
  BY <1>1, <1>3 DEF Reports
<1>5. TypeOK' /\ Grows
  BY <1>1, <1>4 DEF SupervisorInv, TypeOK, Calls, Grows
<1>6. Explained' = Explained
  BY <1>1 DEF Explained, AllIssues
<1>7. AbortIsRecorded' /\ CountsAreExplained'
  BY <1>1, <1>6 DEF SupervisorInv, AbortIsRecorded, CountsAreExplained
<1>8. forced = 0 \/ call = "aborting" \/ call = "draining"
  BY <1>1
<1>9. completed + failed + forced = asked
  <2>1. CASE call = "aborting"
    BY <2>1 DEF SupervisorInv, ReportAccountsForTasks
  <2>2. CASE call = "draining"
    BY <1>2, <1>3, <2>2 DEF SupervisorInv, ReportAccountsForTasks, AbortIsRecorded
  <2> QED
    BY <1>1, <2>1, <2>2
<1>10. ReportAccountsForTasks'
  BY <1>1, <1>9 DEF ReportAccountsForTasks
<1>11. ReportIsExplained'
  BY <1>1, <1>6
  DEF SupervisorInv, CountsAreExplained, ReportIsExplained, Explained, Explaining
<1>12. SupervisedCoversTasks'
  BY <1>1, <1>2 DEF SupervisedCoversTasks
<1> QED
  BY <1>1, <1>5, <1>7, <1>10, <1>11, <1>12, CallStep

LEMMA DropShutdownStep == ASSUME SupervisorInv, DropShutdown PROVE SupervisorInv'
<1>1. /\ call' = "none" /\ completed' = 0 /\ failed' = 0 /\ forced' = 0 /\ asked' = 0
      /\ UNCHANGED <<task, tasks, shuttingDown, expired, aborted, report, issues, taskIssues,
                     supervised>>
  BY DEF DropShutdown, health
<1>2. TypeOK' /\ Grows
  BY <1>1 DEF SupervisorInv, TypeOK, Calls, Grows
<1>3. AbortIsRecorded' /\ CountsAreExplained'
  BY <1>1 DEF SupervisorInv, AbortIsRecorded, CountsAreExplained
<1>4. ReportAccountsForTasks' /\ ReportIsExplained' /\ SupervisedCoversTasks'
  BY <1>1
  DEF SupervisorInv, ReportAccountsForTasks, ReportIsExplained, SupervisedCoversTasks, AllIssues
<1> QED
  BY <1>1, <1>2, <1>3, <1>4, CallStep

LEMMA OtherStep ==
    ASSUME SupervisorInv,
           \/ ReapFinished \/ ReapEnd \/ Expire
           \/ \E exceeded \in BOOLEAN : RecordResourceSample(exceeded)
    PROVE  SupervisorInv'
<1>1. /\ UNCHANGED <<task, tasks, shuttingDown, aborted, completed, failed, forced, asked,
                     report, taskIssues>>
      /\ expired' \in BOOLEAN
      /\ issues' \subseteq ProcessIssues
      /\ "ShutdownTimedOut" \in issues => "ShutdownTimedOut" \in issues'
      /\ call' \in {"none", "reaping"} \/ call' = call
      /\ supervised' = supervised \/ supervised' = Cardinality(tasks)
  BY DEF ReapFinished, ReapEnd, Expire, RecordResourceSample, counts, health, SupervisorInv,
         TypeOK, ProcessIssues
<1>2. Cardinality(tasks) \in Nat
  BY Held DEF SupervisorInv
<1>3. TypeOK' /\ Grows
  BY <1>1, <1>2 DEF SupervisorInv, TypeOK, Calls, Grows
<1>4. Explained => Explained'
  BY <1>3, Latched DEF SupervisorInv
<1>5. AbortIsRecorded' /\ CountsAreExplained'
  BY <1>1, <1>4 DEF SupervisorInv, AbortIsRecorded, CountsAreExplained
<1>6. ReportAccountsForTasks'
  BY <1>1 DEF SupervisorInv, ReportAccountsForTasks
<1>7. ReportIsExplained' /\ SupervisedCoversTasks'
  BY <1>1, <1>2, <1>4
  DEF SupervisorInv, ReportIsExplained, SupervisedCoversTasks, Explained, Explaining
<1> QED
  BY <1>1, <1>3, <1>5, <1>6, <1>7, CallStep

LEMMA StepSupervisor == SupervisorInv /\ [Next]_vars => SupervisorInv'
<1> SUFFICES ASSUME SupervisorInv, [Next]_vars PROVE SupervisorInv'
  OBVIOUS
<1>1. CASE UNCHANGED vars
  <2>1. UNCHANGED <<task, tasks, shuttingDown, call, expired, aborted, completed, failed, forced,
                    asked, report, issues, taskIssues, supervised>>
    BY <1>1 DEF vars, counts, health
  <2>2. TypeOK' /\ Grows
    <3>1. TypeOK'
      BY <2>1 DEF SupervisorInv, TypeOK
    <3>2. Grows
      BY <2>1 DEF Grows
    <3> QED
      BY <3>1, <3>2
  <2>3. AbortIsRecorded' /\ CountsAreExplained'
    BY <2>1 DEF SupervisorInv, AbortIsRecorded, CountsAreExplained, Explained, AllIssues
  <2>4. ReportAccountsForTasks' /\ ReportIsExplained' /\ SupervisedCoversTasks'
    BY <2>1
    DEF SupervisorInv, ReportAccountsForTasks, ReportIsExplained, SupervisedCoversTasks, AllIssues
  <2> QED
    BY <2>1, <2>2, <2>3, <2>4, CallStep
<1>2. ASSUME NEW t \in Tasks, Spawn(t) \/ ReapNext(t) \/ JoinNext(t) \/ JoinAborted(t)
      PROVE  SupervisorInv'
  BY <1>2, SpawnStep, ReapNextStep, JoinNextStep, JoinAbortedStep
<1>3. ASSUME NEW t \in Tasks, Cancel(t) PROVE SupervisorInv'
  <2>1. aborted /\ Finish(t, "cancelled") /\ "cancelled" \in TaskStates \ {"new", "running"}
    BY <1>3 DEF Cancel, TaskStates
  <2> QED
    BY <2>1, FinishStep
<1>4. ASSUME NEW t \in Tasks, NEW outcome \in {"ok", "failed", "panicked"}, Finish(t, outcome)
      PROVE  SupervisorInv'
  <2>1. outcome \in TaskStates \ {"new", "running"} /\ outcome # "cancelled"
    BY DEF TaskStates
  <2> QED
    BY <1>4, <2>1, FinishStep
<1>5. CASE Shutdown
  BY <1>5, ShutdownStep
<1>6. CASE TimeOut
  BY <1>6, TimeOutStep
<1>7. CASE Report
  BY <1>7, ReportStep
<1>8. CASE DropShutdown
  BY <1>8, DropShutdownStep
<1>9. CASE \/ ReapFinished \/ ReapEnd \/ Expire
           \/ \E exceeded \in BOOLEAN : RecordResourceSample(exceeded)
  BY <1>9, OtherStep
<1> QED
  BY <1>1, <1>2, <1>3, <1>4, <1>5, <1>6, <1>7, <1>8, <1>9 DEF Next

-----------------------------------------------------------------------------
\* The invariant holds of every behaviour of the supervisor, whatever the tasks
\* do and however often shutdown is dropped and called again.
THEOREM SupervisorInvariant == Spec => []SupervisorInv
BY InitSupervisor, StepSupervisor, PTL DEF Spec

\* health_level is Halted once a faulty task has left the JoinSet: no call of
\* the supervisor loses its result.
THEOREM NoFaultIsLost == Spec => []FaultsAreReported
BY SupervisorInvariant, PTL DEF SupervisorInv

\* The counts of a ShutdownReport add up to the tasks that shutdown found.
THEOREM ReportsAddUp == Spec => []ReportAccountsForTasks
BY SupervisorInvariant, PTL DEF SupervisorInv

\* A report of failed or forced tasks has its cause among the health issues.
THEOREM ReportsAreExplained == Spec => []ReportIsExplained
BY SupervisorInvariant, PTL DEF SupervisorInv

\* The health's supervised_tasks never understates the JoinSet.
THEOREM SupervisedIsEnough == Spec => []SupervisedCoversTasks
BY SupervisorInvariant, PTL DEF SupervisorInv
=============================================================================
