---------------------------- MODULE InstanceLease ----------------------------
(***************************************************************************)
(* The single-instance runtime lease of the SQLite repository              *)
(* (ironpilot-adapters/src/persistence.rs): one row of                     *)
(* runtime_instance_lease that every tradable write is checked against.    *)
(*                                                                         *)
(* Each call runs in one SQLite transaction under the write gate, so each  *)
(* is one action here.  The timestamp a call compares with the row is the  *)
(* one its CALLER supplies (an event time: when the observation was made,  *)
(* when the plan was validated); it was read from the clock at most MaxLag *)
(* before the statement runs.                                              *)
(***************************************************************************)
EXTENDS Integers

CONSTANTS Owners,     \* runtime instances; each process start draws a new id
          NoOwner,    \* no row in runtime_instance_lease
          Durations,  \* lease durations the instances ask for
          MaxLag,     \* how old a caller's timestamp may be when it is used
          MaxTime     \* bound of the clock in a model

ASSUME LeaseAssumption ==
    /\ NoOwner \notin Owners
    /\ Durations \subseteq Nat \ {0}     \* checked_expiry refuses duration 0
    /\ MaxLag \in Nat
    /\ MaxTime \in Nat

VARIABLES now,        \* the wall clock
          row,        \* the lease row: owner and expires_at
          handle,     \* handle[o]: expires_at of the InstanceLease o holds, 0 if none
          superseded, \* owners whose row was taken over while they held it
          lastWrite   \* the last committed tradable write: by whom, when

leaseVars == <<now, row, handle, superseded, lastWrite>>

Timestamps == {t \in 0..now : now <= t + MaxLag}

NoRow == [owner |-> NoOwner, expires |-> 0]

LeaseInit ==
    /\ now = 1
    /\ row = NoRow
    /\ handle = [o \in Owners |-> 0]
    /\ superseded = {}
    /\ lastWrite = [owner |-> NoOwner, at |-> 0, expires |-> 0]

Tick ==
    /\ now < MaxTime
    /\ now' = now + 1
    /\ UNCHANGED <<row, handle, superseded, lastWrite>>

\* mutant: the upsert without its WHERE clause
MutantMayTake(o, at) == TRUE

(***************************************************************************)
(* The upsert succeeds for the owner already stored, or once the stored    *)
(* lease has expired at the caller's timestamp.  Its failure (Held)        *)
(* changes nothing.                                                        *)
(***************************************************************************)
MayTake(o, at) == row.owner \in {NoOwner, o} \/ row.expires <= at

AcquireInstanceLease(o, at, d) ==
    /\ MayTake(o, at)
    /\ row' = [owner |-> o, expires |-> at + d]
    /\ handle' = [handle EXCEPT ![o] = at + d]
    /\ superseded' = (superseded \cup ({row.owner} \ {NoOwner})) \ {o}
    /\ UNCHANGED <<now, lastWrite>>

\* mutant: any unexpired lease will do
MutantLeaseValidAt(o, at) == row.expires > at

\* The predicate of ensure_instance_lease: o's row, unexpired at `at`.
LeaseValidAt(o, at) == row.owner = o /\ row.expires > at

RenewInstanceLease(o, at, d) ==
    /\ handle[o] > 0
    /\ LeaseValidAt(o, at)
    /\ row' = [row EXCEPT !.expires = at + d]
    /\ handle' = [handle EXCEPT ![o] = at + d]
    /\ UNCHANGED <<now, superseded, lastWrite>>

\* DELETE ... WHERE owner_id = ?: works on an expired row of o too.
ReleaseInstanceLease(o) ==
    /\ handle[o] > 0
    /\ row.owner = o
    /\ row' = NoRow
    /\ handle' = [handle EXCEPT ![o] = 0]
    /\ UNCHANGED <<now, superseded, lastWrite>>

\* Any tradable write: ensure_instance_lease, then the statements, commit.
TradableWrite(o, at) ==
    /\ LeaseValidAt(o, at)
    /\ lastWrite' = [owner |-> o, at |-> now, expires |-> row.expires]
    /\ UNCHANGED <<now, row, handle, superseded>>

LeaseNext ==
    \/ Tick
    \/ \E o \in Owners :
         \/ ReleaseInstanceLease(o)
         \/ \E at \in Timestamps :
              \/ TradableWrite(o, at)
              \/ \E d \in Durations :
                   \/ AcquireInstanceLease(o, at, d)
                   \/ RenewInstanceLease(o, at, d)

LeaseSpec == LeaseInit /\ [][LeaseNext]_leaseVars

-----------------------------------------------------------------------------
\* The lease row, the handles and the history variables are well-formed.
LeaseTypeOK ==
    /\ now \in Nat \ {0}
    /\ row \in [owner : Owners \cup {NoOwner}, expires : Nat]
    /\ handle \in [Owners -> Nat]
    /\ superseded \in SUBSET Owners
    /\ lastWrite \in [owner : Owners \cup {NoOwner}, at : Nat, expires : Nat]

\* What an instance that looks at the clock and at its own InstanceLease believes.
BelievesHeld(o) == handle[o] > now

(***************************************************************************)
(* Two instances never believe at the same time that they hold the lease,  *)
(* although takeover, renewal (which may shorten the lease) and release    *)
(* use timestamps read before the statement ran.                           *)
(***************************************************************************)
AtMostOneHolder ==
    \A o1, o2 \in Owners : BelievesHeld(o1) /\ BelievesHeld(o2) => o1 = o2

(***************************************************************************)
(* Fencing: an instance whose lease was taken over commits no tradable     *)
(* write until it acquires the lease again, however old the timestamp it   *)
(* presents.                                                               *)
(***************************************************************************)
SupersededOwnerIsFenced ==
    [][lastWrite' # lastWrite => lastWrite'.owner \notin superseded]_leaseVars
=============================================================================
