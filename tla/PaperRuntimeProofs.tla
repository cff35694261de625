------------------------- MODULE PaperRuntimeProofs -------------------------
(***************************************************************************)
(* A cycle is opened, executed and closed at most once however many runs   *)
(* of it overlap or are lost, for any set of callers, cycles, contexts and *)
(* observations: PaperRuntime implements CycleLedger.  And a Context gets  *)
(* one replan over all its cycles.  The provider's daily budget is exact   *)
(* for any limits, prices, usages and number of callers: what it says was  *)
(* spent is what was billed plus one reservation for each request that is  *)
(* open or was lost, and it never passes a limit.  And the log of a cycle  *)
(* tells of every effect it had on the store but perhaps the last.         *)
(***************************************************************************)
EXTENDS PaperRuntime, FiniteSetTheorems, TLAPS

Runs == [pc : Pcs, cycle : Cycles \cup {NoCycle}, sequence : Nat, attempt : 1..Attempts,
         observed : Nat]

RunTypes ==
    /\ run \in [Callers -> Runs]
    /\ events \in [Cycles -> Seq(EventTypes)]
    /\ reports \in [Cycles -> Outcomes \cup {"none"}]
    /\ submitted \subseteq Cycles \X (1..Attempts)

(***************************************************************************)
(* The inductive invariant.  A run that has appended an event is the only  *)
(* one of its cycle that ever will again: its sequence number is the       *)
(* length of the log, and every other run still has number 0.              *)
(***************************************************************************)
Fresh == {"idle", "exists", "build"}
Executing == {"accepted", "observe", "observed", "Executed"}
Appended(r) == run[r].pc \notin Fresh

RunOK(r) ==
    /\ run[r].pc # "idle" => CycleOf(r) \in Cycles
    /\ ~Appended(r) => run[r].sequence = 0
    /\ Appended(r) =>
        /\ run[r].sequence = Len(events[CycleOf(r)]) /\ run[r].sequence > 0
        /\ Completed(CycleOf(r)) <=> run[r].pc = "return"
        /\ run[r].pc # "return" => (CycleOf(r) \in Executed <=> run[r].pc \in Executing)

CycleOK(c) ==
    /\ events[c] = <<>> => c \notin Executed
    /\ Completed(c) <=> reports[c] # "none"

OneWriter ==
    \A r, s \in Callers :
        Appended(r) /\ Appended(s) /\ CycleOf(r) = CycleOf(s) => r = s

CycleInv ==
    /\ RunTypes
    /\ \A r \in Callers : RunOK(r)
    /\ OneWriter
    /\ \A c \in Cycles : CycleOK(c)

LedgerStep == Ledger!Next \/ UNCHANGED Ledger!ledgerVars

-----------------------------------------------------------------------------
LEMMA NoRunType == NoRun \in Runs
BY CycleAssumption DEF NoRun, Runs, Pcs

LEMMA InitCycles == Init => CycleInv
<1> SUFFICES ASSUME Init PROVE CycleInv
  OBVIOUS
<1>1. RunTypes
  BY NoRunType DEF Init, RunTypes
<1>2. \A r \in Callers : run[r].pc = "idle" /\ run[r].sequence = 0
  BY DEF Init, NoRun
<1>3. \A r \in Callers : ~Appended(r) /\ RunOK(r)
  <2>1. \A r \in Callers : ~Appended(r)
    BY <1>2 DEF Appended, Fresh
  <2> QED
    BY <1>2, <2>1 DEF RunOK
<1>4. \A c \in Cycles : CycleOK(c)
  BY DEF Init, CycleOK, Completed, Executed
<1> QED
  BY <1>1, <1>3, <1>4 DEF CycleInv, OneWriter

LEMMA InitRefines == Init => Ledger!Init
<1> SUFFICES ASSUME Init PROVE Ledger!Init
  OBVIOUS
<1>1. \A c \in Cycles : Status(c) = "new" /\ Reported(c) = "none"
  BY DEF Init, Status, Reported
<1>2. Executed = {}
  BY DEF Init, Executed
<1> QED
  BY <1>1, <1>2 DEF Ledger!Init

-----------------------------------------------------------------------------
\* A step that leaves the log, the submissions and the reports alone is a stutter of the ledger.
LEMMA LedgerStutters ==
    ASSUME UNCHANGED <<events, submitted, reports>>
    PROVE  /\ UNCHANGED Ledger!ledgerVars
           /\ Executed' = Executed
           /\ \A c \in Cycles : Completed(c)' = Completed(c) /\ CycleOK(c)' = CycleOK(c)
<1>1. Executed' = Executed
  BY DEF Executed
<1>2. \A c \in Cycles : Completed(c)' = Completed(c)
  BY DEF Completed
<1>3. \A c \in Cycles : CycleOK(c)' = CycleOK(c)
  BY <1>1, <1>2 DEF CycleOK
<1>4. \A c \in Cycles : Status(c)' = Status(c) /\ Reported(c)' = Reported(c)
  BY <1>2 DEF Status, Reported
<1> QED
  BY <1>1, <1>2, <1>3, <1>4 DEF Ledger!ledgerVars

\* The places a run may go to without writing the log: out, back to a fresh start, or on
\* within the same side of its submission.
Ends(v) == v = NoRun
Starts(v) == v.pc \in {"exists", "build"} /\ v.cycle \in Cycles /\ v.sequence = 0
GoesOn(r, v) ==
    /\ Appended(r) /\ run[r].pc # "return"
    /\ v.pc \notin Fresh \cup {"return"}
    /\ v.cycle = run[r].cycle /\ v.sequence = run[r].sequence
    /\ v.pc \in Executing <=> run[r].pc \in Executing

LEMMA Moves ==
    ASSUME CycleInv, UNCHANGED <<events, submitted, reports>>,
           NEW r \in Callers, NEW v \in Runs, run' = [run EXCEPT ![r] = v],
           Ends(v) \/ Starts(v) \/ GoesOn(r, v)
    PROVE  CycleInv' /\ LedgerStep
<1>1. RunTypes'
  BY DEF CycleInv, RunTypes
<1>2. run'[r] = v /\ \A s \in Callers \ {r} : run'[s] = run[s]
  BY DEF CycleInv, RunTypes
<1>3. /\ UNCHANGED Ledger!ledgerVars
      /\ Executed' = Executed
      /\ \A c \in Cycles : Completed(c)' = Completed(c) /\ CycleOK(c)' = CycleOK(c)
  BY LedgerStutters
<1>4. Appended(r)' => GoesOn(r, v)
  BY <1>2 DEF Appended, Ends, Starts, NoRun, Fresh
<1>5. \A s \in Callers : Appended(s)' => Appended(s) /\ CycleOf(s)' = CycleOf(s)
  BY <1>2, <1>4 DEF Appended, GoesOn, CycleOf
<1>6. OneWriter'
  BY <1>5 DEF CycleInv, OneWriter
<1>7. RunOK(r)'
  <2>1. CASE Ends(v)
    BY <1>2, <2>1 DEF Ends, NoRun, RunOK, Appended, Fresh
  <2>2. CASE Starts(v)
    BY <1>2, <2>2 DEF Starts, RunOK, Appended, Fresh, CycleOf
  <2>3. CASE GoesOn(r, v)
    <3>1. CycleOf(r) \in Cycles /\ CycleOf(r)' = CycleOf(r)
      BY <1>2, <2>3 DEF CycleInv, RunOK, GoesOn, Appended, Fresh, CycleOf
    <3>2. Completed(CycleOf(r))' = Completed(CycleOf(r))
      BY <3>1 DEF Completed
    <3> QED
      BY <1>2, <1>3, <2>3, <3>1, <3>2 DEF CycleInv, RunOK, GoesOn, Appended, Fresh
  <2> QED
    BY <2>1, <2>2, <2>3
<1>8. \A s \in Callers \ {r} : RunOK(s)'
  <2> SUFFICES ASSUME NEW s \in Callers \ {r} PROVE RunOK(s)'
    OBVIOUS
  <2>1. run'[s] = run[s] /\ CycleOf(s)' = CycleOf(s) /\ Appended(s)' = Appended(s)
    BY <1>2 DEF CycleOf, Appended
  <2>2. Completed(CycleOf(s))' = Completed(CycleOf(s))
    BY <2>1 DEF Completed
  <2> QED
    BY <1>3, <2>1, <2>2 DEF CycleInv, RunOK
<1> QED
  BY <1>1, <1>3, <1>6, <1>7, <1>8 DEF CycleInv, LedgerStep

-----------------------------------------------------------------------------
(* Writing the log.                                                        *)

LEMMA LogGrows ==
    ASSUME CycleInv, NEW r \in Callers, NEW c \in Cycles, CycleOf(r) = c,
           NEW type \in EventTypes, NEW pc \in Pcs \ Fresh, Append1(r, type, pc)
    PROVE  /\ events' = [events EXCEPT ![c] = Append(@, type)]
           /\ events' \in [Cycles -> Seq(EventTypes)] /\ run' \in [Callers -> Runs]
           /\ run'[r].pc = pc /\ Appended(r)' /\ CycleOf(r)' = c
           /\ run'[r].sequence = Len(events'[c]) /\ run'[r].sequence > 0
           /\ events'[c] # <<>>
           /\ Completed(c)' <=> Completed(c) \/ type = "COMPLETED"
           /\ \A s \in Callers \ {r} : run'[s] = run[s]
           /\ \A d \in Cycles \ {c} : events'[d] = events[d] /\ Completed(d)' = Completed(d)
<1>1. /\ run \in [Callers -> Runs] /\ events \in [Cycles -> Seq(EventTypes)]
      /\ run[r].sequence = Len(events[c])
      /\ events' = [events EXCEPT ![c] = Append(@, type)]
      /\ run' = [run EXCEPT ![r].sequence = @ + 1, ![r].pc = pc]
  BY DEF CycleInv, RunTypes, Append1
<1>2. events[c] \in Seq(EventTypes) /\ run[r] \in Runs
  BY <1>1
<1>3. events'[c] = Append(events[c], type) /\ \A d \in Cycles \ {c} : events'[d] = events[d]
  BY <1>1
<1>4. /\ Len(events'[c]) = Len(events[c]) + 1 /\ Len(events[c]) \in Nat
      /\ events'[c] \in Seq(EventTypes)
  BY <1>2, <1>3
<1>5. events'[c] # <<>>
  BY <1>4
<1>6. Completed(c)' <=> Completed(c) \/ type = "COMPLETED"
  <2> DEFINE log == events'[c]
  <2>3. DOMAIN log = 1..Len(log)
    <3> HIDE DEF log
    <3>1. log \in Seq(EventTypes)
      BY <1>4 DEF log
    <3> QED
      BY <3>1
  <2>1. Completed(c)' <=> \E i \in 1..Len(events'[c]) : events'[c][i] = "COMPLETED"
    BY <2>3 DEF Completed
  <2>2. Completed(c) <=> \E i \in 1..Len(events[c]) : events[c][i] = "COMPLETED"
    BY <1>2 DEF Completed
  <2> QED
    BY <1>2, <1>3, <1>4, <2>1, <2>2
<1>7. \A d \in Cycles \ {c} : Completed(d)' = Completed(d)
  BY <1>3 DEF Completed
<1>8. /\ run'[r] = [run[r] EXCEPT !.sequence = @ + 1, !.pc = pc]
      /\ \A s \in Callers \ {r} : run'[s] = run[s]
      /\ DOMAIN run' = Callers /\ run' = [s \in Callers |-> run'[s]]
  BY <1>1
<1>9. /\ run'[r].pc = pc /\ run'[r].cycle = c /\ run'[r].sequence = run[r].sequence + 1
      /\ run' \in [Callers -> Runs]
      /\ \A s \in Callers \ {r} : run'[s] = run[s]
  <2>1. run[r].sequence + 1 \in Nat /\ run[r].cycle = c
    BY <1>2 DEF Runs, CycleOf
  <2>2. run'[r] = [pc |-> pc, cycle |-> run[r].cycle, sequence |-> run[r].sequence + 1,
                   attempt |-> run[r].attempt, observed |-> run[r].observed]
    BY <1>2, <1>8 DEF Runs
  <2>3. run'[r] \in Runs
    BY <1>2, <2>1, <2>2 DEF Runs
  <2> QED
    BY <1>1, <1>8, <2>1, <2>2, <2>3
<1>10. events' \in [Cycles -> Seq(EventTypes)]
  BY <1>1, <1>4, <1>2
<1> QED
  BY <1>1, <1>3, <1>4, <1>5, <1>6, <1>7, <1>9, <1>10 DEF Appended, CycleOf

\* The writer is alone: whoever else has written to a log, it was another cycle's.
LEMMA WriterIsAlone ==
    ASSUME CycleInv, NEW r \in Callers, CycleOf(r) \in Cycles,
           run[r].pc # "idle", run[r].sequence = Len(events[CycleOf(r)])
    PROVE  /\ \A s \in Callers \ {r} : Appended(s) => CycleOf(s) # CycleOf(r)
           /\ ~Appended(r) => events[CycleOf(r)] = <<>> /\ CycleOf(r) \notin Executed
                              /\ ~Completed(CycleOf(r))
<1>1. events[CycleOf(r)] \in Seq(EventTypes)
  BY DEF CycleInv, RunTypes
<1>2. CASE Appended(r)
  BY <1>2 DEF CycleInv, OneWriter
<1>3. CASE ~Appended(r)
  <2>1. events[CycleOf(r)] = <<>>
    BY <1>1, <1>3 DEF CycleInv, RunOK
  <2>2. \A s \in Callers \ {r} : Appended(s) => CycleOf(s) # CycleOf(r)
    BY <2>1 DEF CycleInv, RunOK
  <2>3. CycleOf(r) \notin Executed
    BY <2>1 DEF CycleInv, CycleOK
  <2>4. ~Completed(CycleOf(r))
    BY <2>1 DEF Completed
  <2> QED
    BY <1>3, <2>1, <2>2, <2>3, <2>4
<1> QED
  BY <1>2, <1>3

\* A run that appends the next event of its cycle keeps the invariant: with COMPLETED it stores
\* the report and returns, with any other event it goes on where it was.
LEMMA AppendKeeps ==
    ASSUME CycleInv, NEW r \in Callers, NEW c \in Cycles, CycleOf(r) = c,
           run[r].pc \notin {"idle", "exists", "return"},
           NEW type \in EventTypes, NEW pc \in Pcs \ Fresh, Append1(r, type, pc),
           pc = "return" <=> type = "COMPLETED",
           pc # "return" => (pc \in Executing <=> run[r].pc \in Executing),
           submitted' = submitted,
           reports' \in [Cycles -> Outcomes \cup {"none"}],
           \A d \in Cycles \ {c} : reports'[d] = reports[d],
           reports'[c] # "none" <=> type = "COMPLETED"
    PROVE  CycleInv' /\ Executed' = Executed /\ ~Completed(c)
<1>1. Executed' = Executed
  BY DEF Executed
<1>2. /\ events' \in [Cycles -> Seq(EventTypes)] /\ run' \in [Callers -> Runs]
      /\ run'[r].pc = pc /\ Appended(r)' /\ CycleOf(r)' = c
      /\ run'[r].sequence = Len(events'[c]) /\ run'[r].sequence > 0
      /\ events'[c] # <<>>
      /\ Completed(c)' <=> Completed(c) \/ type = "COMPLETED"
      /\ \A s \in Callers \ {r} : run'[s] = run[s]
      /\ \A d \in Cycles \ {c} : events'[d] = events[d] /\ Completed(d)' = Completed(d)
  BY LogGrows
<1>3. /\ \A s \in Callers \ {r} : Appended(s) => CycleOf(s) # c
      /\ ~Appended(r) => c \notin Executed /\ ~Completed(c)
  <2>1. run[r].sequence = Len(events[CycleOf(r)])
    BY DEF Append1
  <2> QED
    BY <2>1, WriterIsAlone
<1>4. ~Completed(c)
  BY <1>3 DEF CycleInv, RunOK
<1>5. RunTypes'
  BY <1>2 DEF CycleInv, RunTypes
<1>6. \A s \in Callers \ {r} : Appended(s)' = Appended(s) /\ CycleOf(s)' = CycleOf(s)
  BY <1>2 DEF Appended, CycleOf
<1>7. OneWriter'
  BY <1>2, <1>3, <1>6 DEF CycleInv, OneWriter
<1>8. \A d \in Cycles : CycleOK(d)'
  <2>1. CycleOK(c)'
    BY <1>2, <1>4 DEF CycleOK
  <2>2. \A d \in Cycles \ {c} : CycleOK(d)' = CycleOK(d)
    BY <1>1, <1>2 DEF CycleOK
  <2> QED
    BY <2>1, <2>2 DEF CycleInv
<1>9. RunOK(r)'
  <2>1. c \in Executed <=> run[r].pc \in Executing
    BY <1>3 DEF CycleInv, RunOK, Appended, Fresh, Executing
  <2>2. Completed(CycleOf(r))' = Completed(c)'
    BY <1>2 DEF Completed
  <2> QED
    BY <1>1, <1>2, <1>4, <2>1, <2>2 DEF RunOK
<1>10. \A s \in Callers \ {r} : RunOK(s)'
  <2> SUFFICES ASSUME NEW s \in Callers \ {r} PROVE RunOK(s)'
    OBVIOUS
  <2>1. RunOK(s) /\ run'[s] = run[s] /\ Appended(s)' = Appended(s) /\ CycleOf(s)' = CycleOf(s)
    BY <1>2, <1>6 DEF CycleInv
  <2>2. CASE ~Appended(s)
    BY <2>1, <2>2 DEF RunOK
  <2>3. CASE Appended(s)
    <3>1. CycleOf(s) \in Cycles \ {c}
      BY <1>3, <2>1, <2>3 DEF RunOK, Appended, Fresh
    <3>2. events'[CycleOf(s)] = events[CycleOf(s)]
      BY <1>2, <3>1
    <3>3. Completed(CycleOf(s))' = Completed(CycleOf(s))
      BY <2>1, <3>2 DEF Completed
    <3> QED
      BY <1>1, <2>1, <2>3, <3>1, <3>2, <3>3 DEF RunOK
  <2> QED
    BY <2>2, <2>3
<1> QED
  BY <1>1, <1>4, <1>5, <1>7, <1>8, <1>9, <1>10 DEF CycleInv

\* An event that does not complete its cycle opens it, or is nothing to the ledger.
LEMMA LogStep ==
    ASSUME CycleInv, NEW r \in Callers,
           run[r].pc \notin {"idle", "exists", "return"},
           NEW type \in EventTypes \ {"COMPLETED"}, NEW pc \in Pcs \ (Fresh \cup {"return"}),
           Logs(r, type, pc), pc \in Executing <=> run[r].pc \in Executing
    PROVE  CycleInv' /\ LedgerStep
<1> PICK c \in Cycles : CycleOf(r) = c
  BY DEF CycleInv, RunOK
<1>1. Append1(r, type, pc) /\ submitted' = submitted /\ reports' = reports
  BY DEF Logs
<1>2. ~Completed(c)
  <2>1. run[r].sequence = Len(events[CycleOf(r)])
    BY <1>1 DEF Append1
  <2> QED
    BY <2>1, WriterIsAlone DEF CycleInv, RunOK
<1>3. /\ reports' \in [Cycles -> Outcomes \cup {"none"}]
      /\ reports'[c] = "none"
  BY <1>1, <1>2 DEF CycleInv, RunTypes, CycleOK
<1>4. CycleInv' /\ Executed' = Executed
  BY <1>1, <1>3, AppendKeeps
<1>5. /\ events'[c] # <<>>
      /\ ~Completed(c)'
      /\ \A d \in Cycles \ {c} : events'[d] = events[d] /\ Completed(d)' = Completed(d)
  BY <1>1, <1>2, LogGrows
<1>6. /\ Status(c)' = "open" /\ Status(c) \in {"new", "open"}
      /\ \A d \in Cycles \ {c} : Status(d)' = Status(d)
      /\ \A d \in Cycles : Reported(d)' = Reported(d)
  BY <1>1, <1>2, <1>5 DEF Status, Reported
<1>7. CASE Status(c) = "new"
  BY <1>4, <1>6, <1>7 DEF LedgerStep, Ledger!Next, Ledger!Open
<1>8. CASE Status(c) = "open"
  BY <1>4, <1>6, <1>8 DEF LedgerStep, Ledger!ledgerVars
<1> QED
  BY <1>4, <1>6, <1>7, <1>8

\* COMPLETED closes the cycle, with an outcome that says whether it was executed.
LEMMA CompleteStep ==
    ASSUME CycleInv, NEW r \in Callers, Complete(r)
    PROVE  CycleInv' /\ LedgerStep
<1>1. run[r].pc \in Outcomes /\ run[r].pc \notin Fresh \cup {"return"}
  BY DEF Complete, Outcomes, Fresh
<1> PICK c \in Cycles : CycleOf(r) = c
  BY <1>1 DEF CycleInv, RunOK, Fresh
<1>2. /\ Append1(r, "COMPLETED", "return") /\ submitted' = submitted
      /\ reports' = [reports EXCEPT ![c] = run[r].pc]
  BY DEF Complete
<1>3. /\ reports' \in [Cycles -> Outcomes \cup {"none"}]
      /\ reports'[c] = run[r].pc /\ reports'[c] # "none"
      /\ \A d \in Cycles \ {c} : reports'[d] = reports[d]
  BY <1>1, <1>2 DEF CycleInv, RunTypes, Outcomes
<1>4. "COMPLETED" \in EventTypes /\ "return" \in Pcs \ Fresh
  BY DEF EventTypes, Pcs, Fresh
<1>5. CycleInv' /\ Executed' = Executed /\ ~Completed(c)
  BY <1>1, <1>2, <1>3, <1>4, AppendKeeps DEF Fresh
<1>6. /\ events'[c] # <<>>
      /\ Completed(c)'
      /\ \A d \in Cycles \ {c} : events'[d] = events[d] /\ Completed(d)' = Completed(d)
  BY <1>2, <1>4, LogGrows
<1>7. events[c] # <<>> /\ (c \in Executed <=> run[r].pc = "Executed")
  <2>1. events[c] \in Seq(EventTypes)
    BY DEF CycleInv, RunTypes
  <2>2. run[r].sequence = Len(events[c]) /\ run[r].sequence > 0
    BY <1>1 DEF CycleInv, RunOK, Appended
  <2>3. c \in Executed <=> run[r].pc \in Executing
    BY <1>1 DEF CycleInv, RunOK, Appended
  <2> QED
    BY <1>1, <2>1, <2>2, <2>3 DEF Outcomes, Executing
<1>8. /\ Status(c) = "open" /\ Status(c)' = "closed"
      /\ \A d \in Cycles \ {c} : Status(d)' = Status(d) /\ Reported(d)' = Reported(d)
      /\ Reported(c)' = IF c \in Executed THEN "executed" ELSE "not_executed"
  BY <1>3, <1>5, <1>6, <1>7 DEF Status, Reported
<1>9. Ledger!Close(c)
  BY <1>5, <1>8 DEF Ledger!Close
<1> QED
  BY <1>5, <1>9 DEF LedgerStep, Ledger!Next

\* A submission executes the cycle, for the first time.
LEMMA SubmitStep ==
    ASSUME CycleInv, NEW r \in Callers, Submit(r)
    PROVE  CycleInv' /\ LedgerStep
<1>1. /\ run[r].pc = "submit" /\ Appended(r)
      /\ submitted' = submitted \cup {Key(r)} /\ run' = [run EXCEPT ![r].pc = "accepted"]
      /\ events' = events /\ reports' = reports
  BY DEF Submit, At, GoTo, Appended, Fresh
<1> PICK c \in Cycles : CycleOf(r) = c
  BY <1>1 DEF CycleInv, RunOK
<1>2. run \in [Callers -> Runs] /\ run[r] \in Runs
  BY DEF CycleInv, RunTypes
<1>3. /\ run'[r] = [run[r] EXCEPT !.pc = "accepted"]
      /\ \A s \in Callers \ {r} : run'[s] = run[s]
      /\ run' \in [Callers -> Runs]
  BY <1>1, <1>2 DEF Runs, Pcs
<1>4. /\ run'[r].pc = "accepted" /\ run'[r].cycle = c /\ run'[r].sequence = run[r].sequence
      /\ Appended(r)'
  BY <1>2, <1>3 DEF Runs, Appended, Fresh, CycleOf
<1>5. Key(r) = <<c, run[r].attempt>> /\ run[r].attempt \in 1..Attempts
  BY <1>2 DEF Key, Runs, CycleOf
<1>6. Executed' = Executed \cup {c}
  BY <1>1, <1>5 DEF Executed
<1>7. RunTypes'
  BY <1>1, <1>3, <1>5 DEF CycleInv, RunTypes
<1>8. c \notin Executed /\ ~Completed(c) /\ events[c] # <<>>
  <2>1. events[c] \in Seq(EventTypes)
    BY DEF CycleInv, RunTypes
  <2>2. run[r].sequence = Len(events[c]) /\ run[r].sequence > 0
    BY <1>1 DEF CycleInv, RunOK
  <2>3. c \notin Executed /\ ~Completed(c)
    BY <1>1 DEF CycleInv, RunOK, Executing
  <2> QED
    BY <2>1, <2>2, <2>3
<1>9. \A d \in Cycles : /\ Completed(d)' = Completed(d)
                        /\ Status(d)' = Status(d) /\ Reported(d)' = Reported(d)
  BY <1>1 DEF Completed, Status, Reported
<1>10. Ledger!Execute(c)
  BY <1>6, <1>8, <1>9 DEF Ledger!Execute, Status
<1>11. OneWriter'
  <2>1. \A s \in Callers : Appended(s)' = Appended(s) /\ CycleOf(s)' = CycleOf(s)
    BY <1>1, <1>3, <1>4 DEF Appended, CycleOf
  <2> QED
    BY <2>1 DEF CycleInv, OneWriter
<1>12. \A d \in Cycles : CycleOK(d)'
  BY <1>1, <1>6, <1>8, <1>9 DEF CycleInv, CycleOK
<1>13. RunOK(r)'
  <2>1. CycleOf(r)' = c /\ run'[r].sequence = Len(events'[c]) /\ run'[r].sequence > 0
    BY <1>1, <1>4 DEF CycleInv, RunOK, CycleOf
  <2>2. Completed(CycleOf(r))' = Completed(c)
    BY <1>1, <2>1 DEF Completed
  <2> QED
    BY <1>4, <1>6, <1>8, <2>1, <2>2 DEF RunOK, Executing
<1>14. \A s \in Callers \ {r} : RunOK(s)'
  <2> SUFFICES ASSUME NEW s \in Callers \ {r} PROVE RunOK(s)'
    OBVIOUS
  <2>1. /\ RunOK(s) /\ run'[s] = run[s]
        /\ Appended(s)' = Appended(s) /\ CycleOf(s)' = CycleOf(s)
    BY <1>3 DEF CycleInv, Appended, CycleOf
  <2>2. Completed(CycleOf(s))' = Completed(CycleOf(s))
    BY <1>1, <2>1 DEF Completed
  <2>3. Appended(s) => CycleOf(s) # c
    BY <1>1 DEF CycleInv, OneWriter
  <2> QED
    BY <1>1, <1>6, <2>1, <2>2, <2>3 DEF RunOK
<1> QED
  BY <1>7, <1>10, <1>11, <1>12, <1>13, <1>14 DEF CycleInv, LedgerStep, Ledger!Next

\* A restart ends every run and leaves the store as it is.
LEMMA RestartStep ==
    ASSUME CycleInv, Restart
    PROVE  CycleInv' /\ LedgerStep
<1>1. run' = [r \in Callers |-> NoRun] /\ UNCHANGED <<events, submitted, reports>>
  BY DEF Restart, storeVars
<1>2. /\ UNCHANGED Ledger!ledgerVars
      /\ \A c \in Cycles : CycleOK(c)' = CycleOK(c)
  BY <1>1, LedgerStutters
<1>3. \A r \in Callers : run'[r].pc = "idle" /\ run'[r].sequence = 0
  BY <1>1 DEF NoRun
<1>4. \A r \in Callers : ~Appended(r)' /\ RunOK(r)'
  <2>1. \A r \in Callers : ~Appended(r)'
    BY <1>3 DEF Appended, Fresh
  <2> QED
    BY <1>3, <2>1 DEF RunOK
<1>5. RunTypes'
  BY <1>1, NoRunType DEF CycleInv, RunTypes
<1> QED
  BY <1>2, <1>4, <1>5 DEF CycleInv, OneWriter, LedgerStep

-----------------------------------------------------------------------------
(* The steps that only move a run.                                         *)

LEMMA EndedStep ==
    ASSUME CycleInv, UNCHANGED <<events, submitted, reports>>, NEW r \in Callers, Ended(r)
    PROVE  CycleInv' /\ LedgerStep
BY Moves, NoRunType DEF Ended, Ends

LEMMA GoToStep ==
    ASSUME CycleInv, UNCHANGED <<events, submitted, reports>>, NEW r \in Callers,
           NEW pc \in Pcs, GoTo(r, pc),
           \/ run[r].pc = "exists" /\ pc = "build"
           \/ /\ run[r].pc \notin Fresh \cup {"return"} /\ pc \notin Fresh \cup {"return"}
              /\ pc \in Executing <=> run[r].pc \in Executing
    PROVE  CycleInv' /\ LedgerStep
<1> DEFINE v == [run[r] EXCEPT !.pc = pc]
<1>1. run \in [Callers -> Runs] /\ run[r] \in Runs
  BY DEF CycleInv, RunTypes
<1>2. /\ v \in Runs /\ v.pc = pc /\ v.cycle = run[r].cycle /\ v.sequence = run[r].sequence
      /\ run' = [run EXCEPT ![r] = v]
  BY <1>1 DEF Runs, GoTo
<1>3. Starts(v) \/ GoesOn(r, v)
  <2>1. CASE run[r].pc = "exists" /\ pc = "build"
    BY <1>2, <2>1 DEF CycleInv, RunOK, Appended, Fresh, CycleOf, Starts
  <2>2. CASE /\ run[r].pc \notin Fresh \cup {"return"} /\ pc \notin Fresh \cup {"return"}
             /\ pc \in Executing <=> run[r].pc \in Executing
    BY <1>2, <2>2 DEF Appended, GoesOn
  <2> QED
    BY <2>1, <2>2
<1> HIDE DEF v
<1> QED
  BY <1>2, <1>3, Moves

LEMMA RunCycleStep ==
    ASSUME CycleInv, NEW r \in Callers, NEW c \in Cycles, RunCycle(r, c)
    PROVE  CycleInv' /\ LedgerStep
<1> DEFINE v == [pc |-> "exists", cycle |-> c, sequence |-> 0, attempt |-> 1, observed |-> 0]
<1>1. UNCHANGED <<events, submitted, reports>>
  BY DEF RunCycle, storeVars
<1>2. v \in Runs /\ Starts(v)
  <2>1. 1 \in 1..Attempts /\ "exists" \in Pcs
    BY CycleAssumption DEF Pcs
  <2> QED
    BY <2>1 DEF Runs, Starts
<1>3. Ended(r) \/ run' = [run EXCEPT ![r] = v]
  <2>1. NoRun.sequence = 0 /\ NoRun.attempt = 1 /\ NoRun.observed = 0
    BY DEF NoRun
  <2> SUFFICES ASSUME ~Ended(r) PROVE run' = [run EXCEPT ![r] = v]
    OBVIOUS
  <2>2. /\ run' \in [Callers -> Runs \cup {run'[r]}]
        /\ run'[r] = [NoRun EXCEPT !.pc = "exists", !.cycle = c]
        /\ \A s \in Callers \ {r} : run'[s] = run[s]
    BY DEF RunCycle, CycleInv, RunTypes
  <2>3. run'[r] = v
    BY <2>1, <2>2, NoRunType DEF Runs
  <2> QED
    BY <2>2, <2>3 DEF CycleInv, RunTypes
<1> HIDE DEF v
<1> QED
  BY <1>1, <1>2, <1>3, EndedStep, Moves

LEMMA NextAttemptStep ==
    ASSUME CycleInv, NEW r \in Callers, NextAttempt(r)
    PROVE  CycleInv' /\ LedgerStep
<1>1. run[r].pc = "rejected" /\ UNCHANGED <<events, submitted, reports>>
  BY DEF NextAttempt, At, storeVars
<1>2. run \in [Callers -> Runs] /\ run[r] \in Runs
  BY DEF CycleInv, RunTypes
<1>3. CASE run[r].attempt < Attempts
  <2> DEFINE v == [pc |-> "ask", cycle |-> run[r].cycle, sequence |-> run[r].sequence,
                   attempt |-> run[r].attempt + 1, observed |-> run[r].observed]
  <2>1. run' = [run EXCEPT ![r] = v]
    <3>1. /\ run' \in [Callers -> Runs \cup {run'[r]}]
          /\ run'[r] = [run[r] EXCEPT !.attempt = @ + 1, !.pc = "ask"]
          /\ \A s \in Callers \ {r} : run'[s] = run[s]
      BY <1>2, <1>3 DEF NextAttempt
    <3>2. run'[r] = v
      BY <1>2, <3>1 DEF Runs
    <3> QED
      BY <1>2, <3>1, <3>2
  <2>3. run[r].attempt + 1 \in 1..Attempts
    BY <1>2, <1>3, CycleAssumption DEF Runs
  <2>4. v \in Runs
    BY <1>2, <2>3 DEF Runs, Pcs
  <2>5. GoesOn(r, v)
    BY <1>1 DEF GoesOn, Appended, Fresh, Executing
  <2> HIDE DEF v
  <2> QED
    BY <1>1, <2>1, <2>4, <2>5, Moves
<1>4. CASE ~(run[r].attempt < Attempts)
  <2>1. GoTo(r, "ValidationRejected")
    BY <1>4 DEF NextAttempt, GoTo
  <2>2. "ValidationRejected" \in Pcs
    BY DEF Pcs, Outcomes
  <2> QED
    BY <1>1, <2>1, <2>2, GoToStep DEF Fresh, Executing
<1> QED
  BY <1>3, <1>4

LEMMA ObservationStep ==
    ASSUME CycleInv, NEW r \in Callers, ProcessObservation(r)
    PROVE  CycleInv' /\ LedgerStep
<1> DEFINE v == [pc |-> "observed", cycle |-> run[r].cycle, sequence |-> run[r].sequence,
                 attempt |-> run[r].attempt, observed |-> run[r].observed + 1]
<1>1. run[r].pc = "observe" /\ UNCHANGED <<events, submitted, reports>>
  BY DEF ProcessObservation, At
<1>2. run \in [Callers -> Runs] /\ run[r] \in Runs
  BY DEF CycleInv, RunTypes
<1>3. run' = [run EXCEPT ![r] = v]
  <2>1. /\ run' \in [Callers -> Runs \cup {run'[r]}]
        /\ run'[r] = [run[r] EXCEPT !.observed = @ + 1, !.pc = "observed"]
        /\ \A s \in Callers \ {r} : run'[s] = run[s]
    BY <1>2 DEF ProcessObservation
  <2>2. run'[r] = v
    BY <1>2, <2>1 DEF Runs
  <2> QED
    BY <1>2, <2>1, <2>2
<1>4. v \in Runs
  BY <1>2 DEF Runs, Pcs
<1>5. GoesOn(r, v)
  BY <1>1 DEF GoesOn, Appended, Fresh, Executing
<1> HIDE DEF v
<1> QED
  BY <1>1, <1>3, <1>4, <1>5, Moves

-----------------------------------------------------------------------------
(* Every step of Next, and the theorem.                                    *)

LEMMA RunSteps ==
    ASSUME CycleInv, NEW r \in Callers, RunStep(r)
    PROVE  CycleInv' /\ LedgerStep
<1> USE DEF At, Fresh, Executing
<1>1. CASE CycleExists(r)
  <2>1. UNCHANGED <<events, submitted, reports>> /\ run[r].pc = "exists"
    BY <1>1 DEF CycleExists, storeVars
  <2>2. Ended(r) \/ GoTo(r, "build")
    BY <1>1 DEF CycleExists
  <2>3. "build" \in Pcs
    BY DEF Pcs
  <2> QED
    BY <2>1, <2>2, <2>3, EndedStep, GoToStep
<1>2. CASE Conflict(r)
  BY <1>2, EndedStep DEF Conflict, storeVars
<1>3. CASE BuildContext(r)
  <2>1. "CONTEXT_REJECTED" \in EventTypes /\ "CONTEXT_BUILT" \in EventTypes
    BY DEF EventTypes
  <2>2. "ContextRejected" \in Pcs /\ "ask" \in Pcs
    BY DEF Pcs, Outcomes
  <2> QED
    BY <1>3, <2>1, <2>2, LogStep DEF BuildContext
<1>4. CASE AskProvider(r)
  <2>1. "asked" \in Pcs
    BY DEF Pcs
  <2> QED
    BY <1>4, <2>1, GoToStep DEF AskProvider, storeVars
<1>5. CASE ReceiveResult(r)
  <2>1. GoTo(r, "evidence") \/ GoTo(r, "ledger") \/ GoTo(r, "no_action")
    BY <1>5 DEF ReceiveResult, AfterEvidence
  <2>2. {"evidence", "ledger", "no_action"} \subseteq Pcs
    BY DEF Pcs
  <2>3. UNCHANGED <<events, submitted, reports>> /\ run[r].pc = "asked"
    BY <1>5 DEF ReceiveResult, storeVars
  <2> QED
    BY <2>1, <2>2, <2>3, GoToStep
<1>6. CASE PersistEvidence(r)
  <2>1. GoTo(r, "ledger") \/ GoTo(r, "no_action") \/ Ended(r)
    BY <1>6 DEF PersistEvidence, AfterEvidence
  <2>2. {"ledger", "no_action"} \subseteq Pcs
    BY DEF Pcs
  <2>3. UNCHANGED <<events, submitted, reports>> /\ run[r].pc = "evidence"
    BY <1>6 DEF PersistEvidence
  <2> QED
    BY <2>1, <2>2, <2>3, GoToStep, EndedStep
<1>7. CASE ProviderNoAction(r)
  <2>1. "PROVIDER_NO_ACTION" \in EventTypes /\ "ProviderNoAction" \in Pcs
    BY DEF EventTypes, Pcs, Outcomes
  <2> QED
    BY <1>7, <2>1, LogStep DEF ProviderNoAction
<1>8. CASE PersistPlan(r)
  <2>1. "recorded" \in Pcs
    BY DEF Pcs
  <2> QED
    BY <1>8, <2>1, GoToStep DEF PersistPlan
<1>9. CASE PlanRecorded(r)
  <2>1. "AI_PLAN_RECORDED" \in EventTypes /\ "validate" \in Pcs
    BY DEF EventTypes, Pcs
  <2> QED
    BY <1>9, <2>1, LogStep DEF PlanRecorded
<1>10. CASE PersistValidation(r)
  <2>1. "decided" \in Pcs
    BY DEF Pcs
  <2> QED
    BY <1>10, <2>1, GoToStep DEF PersistValidation
<1>11. CASE DecisionLogged(r)
  <2>1. {"ACCEPT", "REJECT"} \subseteq EventTypes \ {"COMPLETED"}
    BY DEF EventTypes
  <2>2. {"Inert", "submit", "rejected"} \subseteq Pcs \ (Fresh \cup {"return"})
    BY DEF Pcs, Outcomes
  <2>3. \E type \in {"ACCEPT", "REJECT"}, pc \in {"Inert", "submit", "rejected"} :
            Logs(r, type, pc)
    BY <1>11 DEF DecisionLogged
  <2>4. run[r].pc = "decided"
    BY <1>11 DEF DecisionLogged
  <2> QED
    BY <2>1, <2>2, <2>3, <2>4, LogStep
<1>12. CASE NextAttempt(r)
  BY <1>12, NextAttemptStep
<1>13. CASE Submit(r)
  BY <1>13, SubmitStep
<1>14. CASE ExecutionSubmitted(r)
  <2>1. "EXECUTION_SUBMITTED" \in EventTypes /\ {"observe", "Executed"} \subseteq Pcs
    BY DEF EventTypes, Pcs, Outcomes
  <2> QED
    BY <1>14, <2>1, LogStep DEF ExecutionSubmitted, AfterObservation
<1>15. CASE ProcessObservation(r)
  BY <1>15, ObservationStep
<1>16. CASE ObservationApplied(r)
  <2>1. /\ "PAPER_OBSERVATION_APPLIED" \in EventTypes
        /\ {"observe", "Executed"} \subseteq Pcs
    BY DEF EventTypes, Pcs, Outcomes
  <2> QED
    BY <1>16, <2>1, LogStep DEF ObservationApplied, AfterObservation
<1>17. CASE Complete(r)
  BY <1>17, CompleteStep
<1>18. CASE ReturnReport(r)
  BY <1>18, EndedStep DEF ReturnReport, storeVars
<1> QED
  BY <1>1, <1>2, <1>3, <1>4, <1>5, <1>6, <1>7, <1>8, <1>9, <1>10, <1>11, <1>12, <1>13, <1>14,
     <1>15, <1>16, <1>17, <1>18 DEF RunStep

\* A step that leaves the store and the runs alone.
LEMMA CyclesStutter ==
    ASSUME CycleInv, UNCHANGED <<storeVars, run>>
    PROVE  CycleInv' /\ LedgerStep
<1>1. UNCHANGED <<events, submitted, reports, run>>
  BY DEF storeVars
<1>2. /\ UNCHANGED Ledger!ledgerVars
      /\ Executed' = Executed
      /\ \A c \in Cycles : CycleOK(c)' = CycleOK(c)
  BY <1>1, LedgerStutters
<1>3. \A r \in Callers : RunOK(r)'
  BY <1>1, <1>2 DEF CycleInv, RunOK, Appended, CycleOf, Completed
<1>4. RunTypes' /\ OneWriter'
  BY <1>1 DEF CycleInv, RunTypes, OneWriter, Appended, CycleOf
<1> QED
  BY <1>2, <1>3, <1>4 DEF CycleInv, LedgerStep

LEMMA NextStep ==
    ASSUME CycleInv, [Next]_vars
    PROVE  CycleInv' /\ LedgerStep
<1>1. CASE UNCHANGED <<storeVars, run>>
  BY <1>1, CyclesStutter
<1>2. CASE \E r \in Callers, c \in Cycles : RunCycle(r, c)
  BY <1>2, RunCycleStep
<1>3. CASE \E r \in Callers : RunStep(r)
  BY <1>3, RunSteps
<1>4. CASE \E r \in Callers : StorageFails(r) \/ Cancel(r)
  BY <1>4, EndedStep DEF StorageFails, Cancel, storeVars
<1>5. CASE Restart
  BY <1>5, RestartStep
<1> QED
  BY <1>1, <1>2, <1>3, <1>4, <1>5 DEF Next, vars

\* However runs of a cycle overlap, fail or are lost, the log and what was submitted are
\* explained by the invariant: one run writes, and what it did agrees with where it is.
THEOREM CycleInvariant == Spec => []CycleInv
<1>1. Init => CycleInv
  BY InitCycles
<1>2. CycleInv /\ [Next]_vars => CycleInv'
  BY NextStep
<1> QED
  BY <1>1, <1>2, PTL DEF Spec

\* run_cycle implements the promise of a cycle: opened once, executed at most once and only
\* while it is open, closed once with an outcome that says whether it was.
THEOREM RefinesCycleLedger == Spec => ImplementsCycleLedger
<1>1. Init => Ledger!Init
  BY InitRefines
<1>2. CycleInv /\ [Next]_vars => [Ledger!Next]_(Ledger!ledgerVars)
  BY NextStep DEF LedgerStep
<1> QED
  BY <1>1, <1>2, CycleInvariant, PTL DEF Spec, ImplementsCycleLedger, Ledger!Spec

-----------------------------------------------------------------------------
(***************************************************************************)
(* One replan for a Context.  A cycle claims its Context's replan when the *)
(* evidence of its second attempt is stored; the index on the evidence     *)
(* lets one cycle do so, and only a claim leads to a second plan.          *)
(***************************************************************************)
Answers == {a \in [plan : BOOLEAN, evidence : BOOLEAN, late : BOOLEAN] : a.plan => a.evidence}
CallRecords ==
    [pc : {"idle", "called", "stamped", "waiting", "done"}, context : Contexts \cup {NoContext},
     replan : BOOLEAN, day : Nat, result : Answers]
CallTypes == today \in Nat /\ call \in [Callers -> CallRecords]

AttemptOK(r) ==
    /\ run[r].pc \in {"asked", "evidence"} =>
           call[r].context = ContextOf[CycleOf(r)] /\ (call[r].replan <=> run[r].attempt > 1)
    /\ ~Appended(r) => run[r].attempt = 1
    /\ run[r].attempt > 1 => <<CycleOf(r), 1, "REJECT">> \in decisions
    /\ run[r].pc = "decided" =>
           \/ <<CycleOf(r), run[r].attempt, "ACCEPT">> \in decisions
           \/ <<CycleOf(r), run[r].attempt, "REJECT">> \in decisions
    /\ run[r].pc = "rejected" => <<CycleOf(r), run[r].attempt, "REJECT">> \in decisions

AboutToRecord(r, c) == run[r].pc = "ledger" /\ CycleOf(r) = c /\ run[r].attempt > 1
Claims(c) == <<c, 2>> \in plans \/ \E r \in Callers : AboutToRecord(r, c)

ReplanInv ==
    /\ CallTypes
    /\ \A r \in Callers : AttemptOK(r)
    /\ \A c \in Cycles : Claims(c) => ContextOf[c] \in replanRows
    /\ \A c, d \in Cycles : Claims(c) /\ Claims(d) /\ ContextOf[c] = ContextOf[d] => c = d
    /\ \A c \in Cycles : <<c, 2>> \in plans => <<c, 1, "REJECT">> \in decisions

LEMMA AnswerTypes ==
    /\ Failure \in Answers /\ FailureWithEvidence \in Answers /\ Plan \in Answers
    /\ \A x : Received(x) \in Answers
<1>1. Failure \in Answers /\ FailureWithEvidence \in Answers /\ Plan \in Answers
  BY DEF Failure, FailureWithEvidence, Plan, Answers
<1>2. ASSUME NEW x PROVE Received(x) \in Answers
  <2>1. ~FailureWithEvidence.plan
    BY DEF FailureWithEvidence, Failure
  <2>2. \A b \in BOOLEAN : [FailureWithEvidence EXCEPT !.late = b] \in Answers
    BY <1>1, <2>1 DEF Answers
  <2>3. (x \in expired) \in BOOLEAN
    OBVIOUS
  <2> HIDE DEF Answers
  <2> QED
    BY <2>2, <2>3, Zenon DEF Received
<1> QED
  BY <1>1, <1>2

LEMMA IdleType == Idle \in CallRecords
BY AnswerTypes DEF Idle, CallRecords

LEMMA InitReplan == Init => ReplanInv
<1> SUFFICES ASSUME Init PROVE ReplanInv
  OBVIOUS
<1>1. CallTypes
  BY IdleType DEF Init, ProviderInit, CallTypes
<1>2. \A r \in Callers : run[r].pc = "idle" /\ run[r].attempt = 1
  BY DEF Init, NoRun
<1>3. \A r \in Callers : AttemptOK(r)
  <2> SUFFICES ASSUME NEW r \in Callers PROVE AttemptOK(r)
    OBVIOUS
  <2>1. run[r].pc \notin {"asked", "evidence", "decided", "rejected"}
    BY <1>2
  <2>2. run[r].attempt = 1 /\ ~(run[r].attempt > 1)
    BY <1>2
  <2>3. run[r].pc # "decided" /\ run[r].pc # "rejected"
    BY <2>1
  <2> QED
    BY <2>1, <2>2, <2>3, Zenon DEF AttemptOK
<1>4. \A c \in Cycles : ~Claims(c)
  BY <1>2 DEF Init, Claims, AboutToRecord
<1> QED
  BY <1>1, <1>3, <1>4 DEF ReplanInv, Claims

\* A step of run r by which no cycle becomes a claimant.
Quiet(r) ==
    /\ \A s \in Callers \ {r} : run'[s] = run[s] /\ call'[s] = call[s]
    /\ decisions \subseteq decisions' /\ replanRows \subseteq replanRows'
    /\ plans' = plans \/ (run[r].pc = "ledger" /\ plans' = plans \cup {Key(r)})
    /\ ~(run'[r].pc = "ledger" /\ run'[r].attempt > 1)

LEMMA QuietKeeps ==
    ASSUME CycleInv, ReplanInv, NEW r \in Callers, Quiet(r), CallTypes', AttemptOK(r)'
    PROVE  ReplanInv'
<1>1. \A s \in Callers \ {r} : AttemptOK(s)'
  BY DEF Quiet, ReplanInv, AttemptOK, CycleOf, Appended
<1>2. run[r] \in Runs /\ run[r].attempt \in 1..2
  <2>1. run[r] \in Runs
    BY DEF CycleInv, RunTypes
  <2> QED
    BY <2>1, CycleAssumption DEF Runs
<1>3. ASSUME NEW c \in Cycles, <<c, 2>> \in plans'
      PROVE  Claims(c) /\ <<c, 1, "REJECT">> \in decisions
  <2>1. CASE <<c, 2>> \in plans
    BY <2>1 DEF Claims, ReplanInv
  <2>2. CASE run[r].pc = "ledger" /\ <<c, 2>> = Key(r)
    <3>1. CycleOf(r) = c /\ run[r].attempt > 1
      BY <1>2, <2>2 DEF Key, CycleOf
    <3>2. Claims(c)
      BY <2>2, <3>1, Zenon DEF Claims, AboutToRecord
    <3>3. <<c, 1, "REJECT">> \in decisions
      BY <3>1, Zenon DEF ReplanInv, AttemptOK
    <3> QED
      BY <3>2, <3>3
  <2> QED
    BY <1>3, <2>1, <2>2 DEF Quiet
<1>4. ASSUME NEW c \in Cycles, Claims(c)' PROVE Claims(c)
  <2>1. CASE <<c, 2>> \in plans'
    BY <1>3, <2>1
  <2>2. CASE \E s \in Callers : AboutToRecord(s, c)'
    <3>1. PICK s \in Callers : AboutToRecord(s, c)'
      BY <2>2
    <3>2. s # r
      BY <3>1 DEF Quiet, AboutToRecord
    <3>3. AboutToRecord(s, c)
      BY <3>1, <3>2 DEF Quiet, AboutToRecord, CycleOf
    <3> QED
      BY <3>3 DEF Claims
  <2> QED
    BY <1>4, <2>1, <2>2 DEF Claims
<1>5. \A c \in Cycles : Claims(c)' => ContextOf[c] \in replanRows'
  BY <1>4 DEF ReplanInv, Quiet
<1>6. \A c, d \in Cycles : Claims(c)' /\ Claims(d)' /\ ContextOf[c] = ContextOf[d] => c = d
  BY <1>4 DEF ReplanInv
<1>7. \A c \in Cycles : <<c, 2>> \in plans' => <<c, 1, "REJECT">> \in decisions'
  BY <1>3 DEF Quiet
<1> QED
  BY <1>1, <1>5, <1>6, <1>7 DEF ReplanInv

\* A run that ends, or starts a cycle.
LEMMA FreshStep ==
    ASSUME CycleInv, ReplanInv, NEW r \in Callers, NEW v, run' = [run EXCEPT ![r] = v],
           v.pc \in {"idle", "exists"}, v.attempt = 1,
           call' = call \/ call' = [call EXCEPT ![r] = Idle],
           UNCHANGED <<today, decisions, replanRows, plans>>
    PROVE  ReplanInv'
<1>1. run'[r] = v /\ \A s \in Callers \ {r} : run'[s] = run[s]
  BY DEF CycleInv, RunTypes
<1>2. CallTypes' /\ \A s \in Callers \ {r} : call'[s] = call[s]
  BY IdleType DEF ReplanInv, CallTypes
<1>3. AttemptOK(r)'
  BY <1>1 DEF AttemptOK
<1>4. Quiet(r)
  BY <1>1, <1>2 DEF Quiet
<1> QED
  BY <1>2, <1>3, <1>4, QuietKeeps

LEMMA EndsReplan ==
    ASSUME CycleInv, ReplanInv, NEW r \in Callers, Ended(r),
           call' = call \/ call' = [call EXCEPT ![r] = Idle],
           UNCHANGED <<today, decisions, replanRows, plans>>
    PROVE  ReplanInv'
<1>1. NoRun.pc = "idle" /\ NoRun.attempt = 1
  BY DEF NoRun
<1> QED
  BY <1>1, FreshStep DEF Ended

\* A run that goes on keeps its cycle and its attempt.
LEMMA Passes ==
    ASSUME CycleInv, NEW r \in Callers, NEW pc,
           GoTo(r, pc) \/ \E type \in EventTypes : Append1(r, type, pc)
    PROVE  /\ run'[r].pc = pc /\ CycleOf(r)' = CycleOf(r) /\ run'[r].attempt = run[r].attempt
           /\ \A s \in Callers \ {r} : run'[s] = run[s]
<1>1. run \in [Callers -> Runs] /\ run[r] \in Runs
  BY DEF CycleInv, RunTypes
<1>2. CASE GoTo(r, pc)
  <2>1. run'[r] = [run[r] EXCEPT !.pc = pc] /\ \A s \in Callers \ {r} : run'[s] = run[s]
    BY <1>1, <1>2 DEF GoTo
  <2> QED
    BY <1>1, <2>1 DEF Runs, CycleOf
<1>3. CASE \E type \in EventTypes : Append1(r, type, pc)
  <2>1. /\ run'[r] = [run[r] EXCEPT !.sequence = @ + 1, !.pc = pc]
        /\ \A s \in Callers \ {r} : run'[s] = run[s]
    BY <1>1, <1>3 DEF Append1
  <2> QED
    BY <1>1, <2>1 DEF Runs, CycleOf
<1> QED
  BY <1>2, <1>3

LEMMA PassingStep ==
    ASSUME CycleInv, ReplanInv, NEW r \in Callers, Appended(r),
           NEW pc \in Pcs \ (Fresh \cup {"asked", "evidence", "decided", "rejected", "ledger"}),
           GoTo(r, pc) \/ \E type \in EventTypes : Append1(r, type, pc),
           UNCHANGED <<today, call, decisions, replanRows>>,
           plans' = plans \/ (run[r].pc = "ledger" /\ plans' = plans \cup {Key(r)})
    PROVE  ReplanInv'
<1>1. /\ run'[r].pc = pc /\ CycleOf(r)' = CycleOf(r) /\ run'[r].attempt = run[r].attempt
      /\ \A s \in Callers \ {r} : run'[s] = run[s]
  BY Passes
<1>2. AttemptOK(r)'
  BY <1>1 DEF ReplanInv, AttemptOK, Appended
<1>3. CallTypes' /\ Quiet(r)
  BY <1>1 DEF ReplanInv, CallTypes, Quiet
<1> QED
  BY <1>2, <1>3, QuietKeeps

LEMMA AttemptRange ==
    ASSUME CycleInv, NEW r \in Callers
    PROVE  run[r].attempt \in 1..2 /\ (run[r].attempt > 1 <=> run[r].attempt = 2)
<1>1. run[r] \in Runs
  BY DEF CycleInv, RunTypes
<1> QED
  BY <1>1, CycleAssumption DEF Runs

\* A run that goes on, with what the next place of the cycle relies on.
LEMMA MovesReplan ==
    ASSUME CycleInv, ReplanInv, CallTypes', NEW r \in Callers, NEW pc,
           GoTo(r, pc) \/ \E type \in EventTypes : Append1(r, type, pc),
           ~Appended(r) \/ pc \notin Fresh,
           pc \in {"asked", "evidence"} =>
               /\ call'[r].context = ContextOf[CycleOf(r)]
               /\ call'[r].replan <=> run[r].attempt > 1,
           pc = "decided" =>
               \/ <<CycleOf(r), run[r].attempt, "ACCEPT">> \in decisions'
               \/ <<CycleOf(r), run[r].attempt, "REJECT">> \in decisions',
           pc = "rejected" => <<CycleOf(r), run[r].attempt, "REJECT">> \in decisions',
           pc = "ledger" => ~(run[r].attempt > 1),
           \A s \in Callers \ {r} : call'[s] = call[s],
           decisions \subseteq decisions', replanRows \subseteq replanRows', plans' = plans
    PROVE  ReplanInv'
<1>1. /\ run'[r].pc = pc /\ CycleOf(r)' = CycleOf(r) /\ run'[r].attempt = run[r].attempt
      /\ \A s \in Callers \ {r} : run'[s] = run[s]
  BY Passes
<1>2. run[r].attempt > 1 => <<CycleOf(r), 1, "REJECT">> \in decisions'
  BY DEF ReplanInv, AttemptOK
<1>3. ~Appended(r)' => run[r].attempt = 1
  BY <1>1 DEF ReplanInv, AttemptOK, Appended
<1>4. AttemptOK(r)'
  BY <1>1, <1>2, <1>3 DEF AttemptOK
<1>5. Quiet(r)
  BY <1>1 DEF Quiet
<1> QED
  BY <1>4, <1>5, QuietKeeps

\* The provider's own steps keep what a call is about.
LEMMA ProviderKeeps ==
    ASSUME CycleInv, ReplanInv, ProviderStep, UNCHANGED <<storeVars, run>>
    PROVE  ReplanInv'
<1>1. UNCHANGED <<run, decisions, replanRows, plans>>
  BY DEF storeVars
<1>2. today \in Nat /\ call \in [Callers -> CallRecords]
  BY DEF ReplanInv, CallTypes
<1>3. ASSUME NEW s \in Callers, NEW a \in Answers, Return(s, a)
      PROVE  /\ call' \in [Callers -> CallRecords]
             /\ \A r \in Callers : call'[r].context = call[r].context
                                   /\ call'[r].replan = call[r].replan
  <2>1. call[s] \in CallRecords
    BY <1>2
  <2>2. /\ call'[s] = [call[s] EXCEPT !.pc = "done", !.day = 0, !.result = a]
        /\ \A r \in Callers \ {s} : call'[r] = call[r]
        /\ call' \in [Callers -> CallRecords \cup {call'[s]}]
    BY <1>2, <1>3 DEF Return
  <2>3. call'[s] = [pc |-> "done", context |-> call[s].context, replan |-> call[s].replan,
                    day |-> 0, result |-> a]
    BY <2>1, <2>2 DEF CallRecords
  <2>4. call'[s] \in CallRecords
    BY <2>1, <2>3 DEF CallRecords
  <2> QED
    BY <2>2, <2>3, <2>4
<1>4. /\ today' \in Nat /\ call' \in [Callers -> CallRecords]
      /\ \A r \in Callers : call'[r].context = call[r].context /\ call'[r].replan = call[r].replan
  <2>1. CASE Midnight
    BY <1>2, <2>1 DEF Midnight
  <2>2. CASE UNCHANGED <<today, call>>
    BY <1>2, <2>2
  <2>3. ASSUME NEW s \in Callers, StampRequest(s), ~Return(s, Failure)
        PROVE  today' = today /\ call' = [call EXCEPT ![s].pc = "stamped", ![s].day = today]
    BY <2>3 DEF StampRequest
  <2>4. ASSUME NEW s \in Callers, StampRequest(s), ~Return(s, Failure)
        PROVE  /\ call' \in [Callers -> CallRecords]
               /\ \A r \in Callers : call'[r].context = call[r].context
                                     /\ call'[r].replan = call[r].replan
    <3>1. call[s] \in CallRecords
      BY <1>2
    <3>2. /\ call'[s] = [call[s] EXCEPT !.pc = "stamped", !.day = today]
          /\ \A r \in Callers \ {s} : call'[r] = call[r]
          /\ call' \in [Callers -> CallRecords \cup {call'[s]}]
      BY <1>2, <2>3, <2>4
    <3>3. call'[s] = [pc |-> "stamped", context |-> call[s].context,
                      replan |-> call[s].replan, day |-> today, result |-> call[s].result]
      BY <3>1, <3>2 DEF CallRecords
    <3>4. call'[s] \in CallRecords
      BY <1>2, <3>1, <3>3 DEF CallRecords
    <3> QED
      BY <3>2, <3>3, <3>4
  <2>5. ASSUME NEW s \in Callers, SendRequest(s)
        PROVE  /\ call' \in [Callers -> CallRecords] /\ today' = today
               /\ \A r \in Callers : call'[r].context = call[r].context
                                     /\ call'[r].replan = call[r].replan
    <3>1. call[s] \in CallRecords
      BY <1>2
    <3>2. /\ call'[s] = [call[s] EXCEPT !.pc = "waiting"]
          /\ \A r \in Callers \ {s} : call'[r] = call[r]
          /\ call' \in [Callers -> CallRecords \cup {call'[s]}]
      BY <1>2, <2>5 DEF SendRequest
    <3>3. call'[s] = [pc |-> "waiting", context |-> call[s].context,
                      replan |-> call[s].replan, day |-> call[s].day, result |-> call[s].result]
      BY <3>1, <3>2 DEF CallRecords
    <3>4. call'[s] \in CallRecords
      BY <3>1, <3>3 DEF CallRecords
    <3> QED
      BY <2>5, <3>2, <3>3, <3>4 DEF SendRequest
  <2>6. ASSUME NEW s \in Callers,
               \/ RefusePrompt(s) \/ ConcurrencyExhausted(s) \/ RefuseBudget(s)
               \/ RequestFails(s) \/ UsageBeyondReservation(s) \/ AnswerArrives(s)
        PROVE  today' = today /\ \E a \in Answers : Return(s, a)
    <3>1. today' = today
      BY <2>6 DEF RefusePrompt, ConcurrencyExhausted, RefuseBudget, RequestFails,
                  UsageBeyondReservation, AnswerArrives, Answered
    <3>2. \/ Return(s, Failure) \/ Return(s, FailureWithEvidence) \/ Return(s, Plan)
          \/ Return(s, Received(call[s].context))
      BY <2>6 DEF RefusePrompt, ConcurrencyExhausted, RefuseBudget, RequestFails,
                  UsageBeyondReservation, AnswerArrives, ResponseTooLarge, NotUtf8,
                  ContradictoryUsage, NoResponse, ErrorResponse, WrongModelOrChoices,
                  NoPlanInside, PlanArrives
    <3> QED
      BY <3>1, <3>2, AnswerTypes
  <2>7. ASSUME NEW s \in Callers, StampRequest(s), Return(s, Failure)
        PROVE  today' = today /\ \E a \in Answers : Return(s, a)
    BY <2>7, AnswerTypes DEF StampRequest
  <2>8. CASE \E s \in Callers :
                 \/ RefusePrompt(s) \/ ConcurrencyExhausted(s) \/ RefuseBudget(s)
                 \/ RequestFails(s) \/ UsageBeyondReservation(s) \/ AnswerArrives(s)
    BY <1>2, <1>3, <2>6, <2>8
  <2>9. CASE \E s \in Callers : StampRequest(s)
    <3>1. PICK s \in Callers : StampRequest(s)
      BY <2>9
    <3>2. CASE Return(s, Failure)
      BY <1>2, <1>3, <2>7, <3>1, <3>2
    <3>3. CASE ~Return(s, Failure)
      BY <1>2, <2>3, <2>4, <3>1, <3>3
    <3> QED
      BY <3>2, <3>3
  <2>10. CASE \E s \in Callers : SendRequest(s)
    BY <1>2, <2>5, <2>10
  <2> QED
    BY <2>1, <2>2, <2>8, <2>9, <2>10 DEF ProviderStep, BudgetSnapshot, Expire
<1>5. \A r \in Callers : AttemptOK(r)'
  BY <1>1, <1>4 DEF ReplanInv, AttemptOK, CycleOf, Appended
<1>6. \A c \in Cycles : Claims(c)' = Claims(c)
  BY <1>1 DEF Claims, AboutToRecord, CycleOf
<1> QED
  BY <1>1, <1>4, <1>5, <1>6 DEF ReplanInv, CallTypes

-----------------------------------------------------------------------------
(* The steps that matter to a replan.                                      *)

LEMMA AskReplan ==
    ASSUME CycleInv, ReplanInv, NEW r \in Callers, AskProvider(r)
    PROVE  ReplanInv'
<1> PICK c \in Cycles : CycleOf(r) = c /\ run[r].pc = "ask"
  BY DEF AskProvider, At, CycleInv, RunOK
<1> DEFINE again == run[r].attempt > 1
           v == [Idle EXCEPT !.context = ContextOf[c], !.replan = again,
                             !.pc = IF again /\ ContextOf[c] \in replanned
                                    THEN "done" ELSE "called"]
<1>1. GoTo(r, "asked") /\ UNCHANGED <<today, decisions, replanRows, plans>>
  BY DEF AskProvider, storeVars, GeneratePlan
<1>2. call' = [call EXCEPT ![r] = v]
  BY DEF AskProvider, GeneratePlan
<1>3. again \in BOOLEAN
  <2>1. run[r].attempt \in 1..2
    BY AttemptRange
  <2> QED
    BY <2>1
<1>4. v \in CallRecords /\ v.context = ContextOf[c] /\ v.replan = again
  <2>1. ContextOf[c] \in Contexts
    BY CycleAssumption
  <2> HIDE DEF again
  <2> QED
    BY <1>3, <2>1, IdleType DEF CallRecords, Idle
<1>5. CallTypes' /\ call'[r] = v /\ \A s \in Callers \ {r} : call'[s] = call[s]
  <2> HIDE DEF v
  <2> QED
    BY <1>1, <1>2, <1>4 DEF ReplanInv, CallTypes
<1> HIDE DEF v
<1> QED
  BY <1>1, <1>4, <1>5, MovesReplan DEF Fresh

LEMMA ReceiveReplan ==
    ASSUME CycleInv, ReplanInv, NEW r \in Callers, ReceiveResult(r)
    PROVE  ReplanInv'
<1>1. run[r].pc = "asked" /\ UNCHANGED <<today, decisions, replanRows, plans>>
  BY DEF ReceiveResult, At, storeVars
<1>2. CASE call[r].result.evidence
  <2>1. GoTo(r, "evidence") /\ call' = call
    BY <1>2 DEF ReceiveResult
  <2>2. CallTypes' /\ \A s \in Callers \ {r} : call'[s] = call[s]
    BY <1>1, <2>1 DEF ReplanInv, CallTypes
  <2>3. call[r].context = ContextOf[CycleOf(r)] /\ (call[r].replan <=> run[r].attempt > 1)
    BY <1>1 DEF ReplanInv, AttemptOK
  <2> QED
    BY <1>1, <2>1, <2>2, <2>3, MovesReplan DEF Fresh
<1>3. CASE ~call[r].result.evidence
  <2>1. ~call[r].result.plan
    BY <1>3 DEF ReplanInv, CallTypes, CallRecords, Answers
  <2>2. GoTo(r, "no_action") /\ call' = [call EXCEPT ![r] = Idle]
    BY <1>3, <2>1 DEF ReceiveResult, AfterEvidence
  <2>3. CallTypes' /\ \A s \in Callers \ {r} : call'[s] = call[s]
    BY <1>1, <2>2, IdleType DEF ReplanInv, CallTypes
  <2> QED
    BY <1>1, <2>2, <2>3, MovesReplan DEF Fresh
<1> QED
  BY <1>2, <1>3

\* The one step that makes a cycle a claimant: the index refuses a second one.
LEMMA EvidenceReplan ==
    ASSUME CycleInv, ReplanInv, NEW r \in Callers, PersistEvidence(r)
    PROVE  ReplanInv'
<1> PICK c \in Cycles : CycleOf(r) = c /\ run[r].pc = "evidence"
  BY DEF PersistEvidence, At, CycleInv, RunOK
<1>1. /\ call' = [call EXCEPT ![r] = Idle] /\ UNCHANGED <<today, decisions, plans>>
      /\ call[r].context = ContextOf[c] /\ (call[r].replan <=> run[r].attempt > 1)
  BY DEF PersistEvidence, ReplanInv, AttemptOK
<1>2. CallTypes' /\ \A s \in Callers \ {r} : call'[s] = call[s]
  BY <1>1, IdleType DEF ReplanInv, CallTypes
<1>3. CASE ~EvidenceAccepted(r)
  <2>1. Ended(r) /\ replanRows' = replanRows
    BY <1>3 DEF PersistEvidence
  <2> QED
    BY <1>1, <2>1, EndsReplan
<1>4. CASE EvidenceAccepted(r) /\ ~(run[r].attempt > 1)
  <2>1. replanRows' = replanRows /\ (GoTo(r, "ledger") \/ GoTo(r, "no_action"))
    BY <1>1, <1>4 DEF PersistEvidence, AfterEvidence
  <2> QED
    BY <1>1, <1>2, <1>4, <2>1, MovesReplan DEF Fresh
<1>5. CASE EvidenceAccepted(r) /\ run[r].attempt > 1
  <2>1. /\ ContextOf[c] \notin replanRows /\ replanRows' = replanRows \cup {ContextOf[c]}
        /\ GoTo(r, "ledger") \/ GoTo(r, "no_action")
    BY <1>1, <1>5 DEF PersistEvidence, AfterEvidence, EvidenceAccepted
  <2>2. /\ run'[r].pc \in {"ledger", "no_action"} /\ CycleOf(r)' = c
        /\ run'[r].attempt = run[r].attempt
        /\ \A s \in Callers \ {r} : run'[s] = run[s]
    BY <2>1, Passes
  <2>3. AttemptOK(r)'
    <3>1. /\ run'[r].pc \notin {"asked", "evidence", "decided", "rejected"} /\ Appended(r)'
          /\ run'[r].pc # "decided" /\ run'[r].pc # "rejected"
      BY <2>2 DEF Appended, Fresh
    <3>2. <<c, 1, "REJECT">> \in decisions'
      BY <1>1, <1>5 DEF ReplanInv, AttemptOK
    <3> QED
      BY <2>2, <3>1, <3>2, Zenon DEF AttemptOK
  <2>4. \A s \in Callers \ {r} : AttemptOK(s)'
    BY <1>1, <1>2, <2>2 DEF ReplanInv, AttemptOK, CycleOf, Appended
  <2>5. ASSUME NEW d \in Cycles, Claims(d)' PROVE Claims(d) \/ d = c
    BY <1>1, <2>2, <2>5 DEF Claims, AboutToRecord, CycleOf
  <2>6. \A d \in Cycles : Claims(d) => ContextOf[d] # ContextOf[c]
    BY <2>1 DEF ReplanInv
  <2>7. \A d \in Cycles : Claims(d)' => ContextOf[d] \in replanRows'
    BY <2>1, <2>5 DEF ReplanInv
  <2>8. \A d, e \in Cycles : Claims(d)' /\ Claims(e)' /\ ContextOf[d] = ContextOf[e] => d = e
    BY <2>5, <2>6 DEF ReplanInv
  <2> QED
    BY <1>1, <1>2, <2>3, <2>4, <2>7, <2>8 DEF ReplanInv
<1> QED
  BY <1>3, <1>4, <1>5

LEMMA ValidationReplan ==
    ASSUME CycleInv, ReplanInv, NEW r \in Callers, PersistValidation(r)
    PROVE  ReplanInv'
<1>1. /\ run[r].pc = "validate" /\ GoTo(r, "decided")
      /\ UNCHANGED <<today, call, replanRows, plans>>
  BY DEF PersistValidation, At, providerVars
<1>2. /\ decisions \subseteq decisions'
      /\ \/ <<CycleOf(r), run[r].attempt, "ACCEPT">> \in decisions'
         \/ <<CycleOf(r), run[r].attempt, "REJECT">> \in decisions'
  BY DEF PersistValidation
<1>3. CallTypes'
  BY <1>1 DEF ReplanInv, CallTypes
<1> QED
  BY <1>1, <1>2, <1>3, MovesReplan DEF Fresh

LEMMA DecisionReplan ==
    ASSUME CycleInv, ReplanInv, NEW r \in Callers, DecisionLogged(r)
    PROVE  ReplanInv'
<1>1. run[r].pc = "decided" /\ UNCHANGED <<today, call, decisions, replanRows, plans>>
  BY DEF DecisionLogged, At, Logs, providerVars
<1>2. CallTypes'
  BY <1>1 DEF ReplanInv, CallTypes
<1>3. "ACCEPT" \in EventTypes /\ "REJECT" \in EventTypes
  BY DEF EventTypes
<1>4. CASE Accepted(CycleOf(r), run[r].attempt)
  <2>1. \E pc \in {"Inert", "submit"} : Append1(r, "ACCEPT", pc)
    BY <1>4 DEF DecisionLogged, Logs
  <2> QED
    BY <1>1, <1>2, <1>3, <2>1, MovesReplan DEF Fresh
<1>5. CASE ~Accepted(CycleOf(r), run[r].attempt)
  <2>1. Append1(r, "REJECT", "rejected")
    BY <1>5 DEF DecisionLogged, Logs
  <2>2. <<CycleOf(r), run[r].attempt, "REJECT">> \in decisions
    BY <1>1, <1>5 DEF ReplanInv, AttemptOK, Accepted
  <2> QED
    BY <1>1, <1>2, <1>3, <2>1, <2>2, MovesReplan DEF Fresh
<1> QED
  BY <1>4, <1>5

LEMMA NextAttemptReplan ==
    ASSUME CycleInv, ReplanInv, NEW r \in Callers, NextAttempt(r)
    PROVE  ReplanInv'
<1>1. run[r].pc = "rejected" /\ UNCHANGED <<today, call, decisions, replanRows, plans>>
  BY DEF NextAttempt, At, storeVars, providerVars
<1>2. CallTypes'
  BY <1>1 DEF ReplanInv, CallTypes
<1>3. CASE run[r].attempt < Attempts
  <2>1. run[r] \in Runs /\ run[r].attempt = 1
    <3>1. run[r] \in Runs
      BY DEF CycleInv, RunTypes
    <3> QED
      BY <1>3, <3>1, CycleAssumption DEF Runs
  <2>2. /\ run'[r] = [run[r] EXCEPT !.attempt = @ + 1, !.pc = "ask"]
        /\ \A s \in Callers \ {r} : run'[s] = run[s]
    BY <1>3 DEF NextAttempt, CycleInv, RunTypes
  <2>3. run'[r].pc = "ask" /\ CycleOf(r)' = CycleOf(r)
    BY <2>1, <2>2 DEF Runs, CycleOf
  <2>4. <<CycleOf(r), 1, "REJECT">> \in decisions
    BY <1>1, <2>1 DEF ReplanInv, AttemptOK
  <2>5. AttemptOK(r)'
    <3>1. /\ run'[r].pc \notin {"asked", "evidence"} /\ Appended(r)'
          /\ run'[r].pc # "decided" /\ run'[r].pc # "rejected"
      BY <2>3 DEF Appended, Fresh
    <3> QED
      BY <1>1, <2>3, <2>4, <3>1, Zenon DEF AttemptOK
  <2>6. Quiet(r)
    BY <1>1, <2>2, <2>3 DEF Quiet
  <2> QED
    BY <1>2, <2>5, <2>6, QuietKeeps
<1>4. CASE ~(run[r].attempt < Attempts)
  <2>1. GoTo(r, "ValidationRejected")
    BY <1>4 DEF NextAttempt, GoTo
  <2> QED
    BY <1>1, <1>2, <2>1, MovesReplan DEF Fresh
<1> QED
  BY <1>3, <1>4

LEMMA ObservationReplan ==
    ASSUME CycleInv, ReplanInv, NEW r \in Callers, ProcessObservation(r)
    PROVE  ReplanInv'
<1>1. run[r].pc = "observe" /\ UNCHANGED <<today, call, decisions, replanRows, plans>>
  BY DEF ProcessObservation, At, providerVars
<1>2. run[r] \in Runs
  BY DEF CycleInv, RunTypes
<1>3. /\ run'[r] = [run[r] EXCEPT !.observed = @ + 1, !.pc = "observed"]
      /\ \A s \in Callers \ {r} : run'[s] = run[s]
  BY DEF ProcessObservation, CycleInv, RunTypes
<1>4. run'[r].pc = "observed" /\ CycleOf(r)' = CycleOf(r) /\ run'[r].attempt = run[r].attempt
  BY <1>2, <1>3 DEF Runs, CycleOf
<1>5. AttemptOK(r)'
  <2>1. /\ run'[r].pc \notin {"asked", "evidence"} /\ Appended(r)'
        /\ run'[r].pc # "decided" /\ run'[r].pc # "rejected"
    BY <1>4 DEF Appended, Fresh
  <2> QED
    BY <1>1, <1>4, <2>1, Zenon DEF AttemptOK, ReplanInv
<1>6. CallTypes' /\ Quiet(r)
  BY <1>1, <1>3, <1>4 DEF ReplanInv, CallTypes, Quiet
<1> QED
  BY <1>5, <1>6, QuietKeeps

-----------------------------------------------------------------------------
(* Every step, and the theorem.                                            *)

LEMMA RunReplan ==
    ASSUME CycleInv, ReplanInv, NEW r \in Callers, RunStep(r)
    PROVE  ReplanInv'
<1> DEFINE Other == Fresh \cup {"asked", "evidence", "decided", "rejected", "ledger"}
<1> USE DEF At, Fresh, Appended
<1>0. /\ {"ProviderNoAction", "recorded", "validate", "observe", "Executed", "return",
         "accepted"} \subseteq Pcs \ Other
      /\ {"CONTEXT_REJECTED", "CONTEXT_BUILT", "PROVIDER_NO_ACTION", "AI_PLAN_RECORDED",
          "EXECUTION_SUBMITTED", "PAPER_OBSERVATION_APPLIED", "COMPLETED"} \subseteq EventTypes
  BY DEF Pcs, Outcomes, EventTypes
<1>1. CASE CycleExists(r)
  <2>1. /\ run[r].pc = "exists" /\ (Ended(r) \/ GoTo(r, "build"))
        /\ UNCHANGED <<today, call, decisions, replanRows, plans>>
    BY <1>1 DEF CycleExists, storeVars, providerVars
  <2>2. CallTypes'
    BY <2>1 DEF ReplanInv, CallTypes
  <2> QED
    BY <2>1, <2>2, EndsReplan, MovesReplan
<1>2. CASE Conflict(r)
  BY <1>2, EndsReplan DEF Conflict, storeVars, providerVars
<1>3. CASE BuildContext(r)
  <2>1. /\ run[r].pc = "build"
        /\ \E pc \in {"ContextRejected", "ask"} : \E type \in EventTypes : Append1(r, type, pc)
        /\ UNCHANGED <<today, call, decisions, replanRows, plans>>
    BY <1>0, <1>3 DEF BuildContext, Logs, providerVars
  <2>2. CallTypes'
    BY <2>1 DEF ReplanInv, CallTypes
  <2> QED
    BY <2>1, <2>2, MovesReplan
<1>4. CASE AskProvider(r)
  BY <1>4, AskReplan
<1>5. CASE ReceiveResult(r)
  BY <1>5, ReceiveReplan
<1>6. CASE PersistEvidence(r)
  BY <1>6, EvidenceReplan
<1>7. CASE ProviderNoAction(r)
  BY <1>0, <1>7, PassingStep DEF ProviderNoAction, Logs, providerVars
<1>8. CASE PersistPlan(r)
  BY <1>0, <1>8, PassingStep DEF PersistPlan, providerVars
<1>9. CASE PlanRecorded(r)
  BY <1>0, <1>9, PassingStep DEF PlanRecorded, Logs, providerVars
<1>10. CASE PersistValidation(r)
  BY <1>10, ValidationReplan
<1>11. CASE DecisionLogged(r)
  BY <1>11, DecisionReplan
<1>12. CASE NextAttempt(r)
  BY <1>12, NextAttemptReplan
<1>13. CASE Submit(r)
  BY <1>0, <1>13, PassingStep DEF Submit, providerVars
<1>14. CASE ExecutionSubmitted(r)
  BY <1>0, <1>14, PassingStep DEF ExecutionSubmitted, AfterObservation, Logs, providerVars
<1>15. CASE ProcessObservation(r)
  BY <1>15, ObservationReplan
<1>16. CASE ObservationApplied(r)
  BY <1>0, <1>16, PassingStep DEF ObservationApplied, AfterObservation, Logs, providerVars
<1>17. CASE Complete(r)
  BY <1>0, <1>17, PassingStep DEF Complete, Outcomes, providerVars
<1>18. CASE ReturnReport(r)
  BY <1>18, EndsReplan DEF ReturnReport, storeVars, providerVars
<1> QED
  BY <1>1, <1>2, <1>3, <1>4, <1>5, <1>6, <1>7, <1>8, <1>9, <1>10, <1>11, <1>12, <1>13, <1>14,
     <1>15, <1>16, <1>17, <1>18 DEF RunStep

LEMMA RestartReplan ==
    ASSUME CycleInv, ReplanInv, Restart
    PROVE  ReplanInv'
<1>1. /\ run' = [r \in Callers |-> NoRun] /\ call' = [r \in Callers |-> Idle]
      /\ UNCHANGED <<today, decisions, replanRows, plans>>
  BY DEF Restart, ProviderRestart, storeVars
<1>2. CallTypes'
  BY <1>1, IdleType DEF ReplanInv, CallTypes
<1>3. \A r \in Callers : run'[r].pc = "idle" /\ run'[r].attempt = 1
  BY <1>1 DEF NoRun
<1>4. \A r \in Callers : AttemptOK(r)'
  <2> SUFFICES ASSUME NEW r \in Callers PROVE AttemptOK(r)'
    OBVIOUS
  <2>1. /\ run'[r].pc \notin {"asked", "evidence"}
        /\ run'[r].pc # "decided" /\ run'[r].pc # "rejected"
    BY <1>3
  <2>2. run'[r].attempt = 1 /\ ~(run'[r].attempt > 1)
    BY <1>3
  <2> QED
    BY <2>1, <2>2, Zenon DEF AttemptOK
<1>5. \A c \in Cycles : Claims(c)' => Claims(c)
  BY <1>1, <1>3 DEF Claims, AboutToRecord
<1> QED
  BY <1>1, <1>2, <1>4, <1>5 DEF ReplanInv

LEMMA NextReplan ==
    ASSUME CycleInv, ReplanInv, [Next]_vars
    PROVE  ReplanInv'
<1>1. CASE ProviderStep /\ UNCHANGED <<storeVars, run>>
  BY <1>1, ProviderKeeps
<1>2. CASE \E r \in Callers, c \in Cycles : RunCycle(r, c)
  <2>1. PICK r \in Callers, c \in Cycles : RunCycle(r, c)
    BY <1>2
  <2> DEFINE v == [NoRun EXCEPT !.pc = "exists", !.cycle = c]
  <2>2. UNCHANGED <<today, call, decisions, replanRows, plans>>
    BY <2>1 DEF RunCycle, storeVars, providerVars
  <2>3. Ended(r) \/ run' = [run EXCEPT ![r] = v]
    BY <2>1 DEF RunCycle
  <2>4. v.pc = "exists" /\ v.attempt = 1
    BY DEF NoRun
  <2> HIDE DEF v
  <2> QED
    BY <2>2, <2>3, <2>4, EndsReplan, FreshStep
<1>3. CASE \E r \in Callers : RunStep(r)
  BY <1>3, RunReplan
<1>4. CASE \E r \in Callers : StorageFails(r) \/ Cancel(r)
  BY <1>4, EndsReplan DEF StorageFails, Cancel, DropCall, storeVars
<1>5. CASE Restart
  BY <1>5, RestartReplan
<1>6. CASE UNCHANGED vars
  <2>1. UNCHANGED <<today, call, run, decisions, replanRows, plans>>
    BY <1>6 DEF vars, storeVars, providerVars
  <2>2. \A r \in Callers : AttemptOK(r)'
    BY <2>1 DEF ReplanInv, AttemptOK, CycleOf, Appended
  <2>3. \A c \in Cycles : Claims(c)' = Claims(c)
    BY <2>1 DEF Claims, AboutToRecord, CycleOf
  <2> QED
    BY <2>1, <2>2, <2>3 DEF ReplanInv, CallTypes
<1> QED
  BY <1>1, <1>2, <1>3, <1>4, <1>5, <1>6 DEF Next

\* Whatever restarts and overlaps, a cycle that is about to record a second plan has claimed
\* its Context's replan with a row, and no other cycle of that Context has.
THEOREM ReplanInvariant == Spec => []ReplanInv
<1>1. Init => ReplanInv
  BY InitReplan
<1>2. CycleInv /\ ReplanInv /\ [Next]_vars => ReplanInv'
  BY NextReplan
<1> QED
  BY <1>1, <1>2, CycleInvariant, PTL DEF Spec

\* Only a rejected plan is followed by a second one, and over all cycles and restarts a
\* Context has one: what the provider forgets in a restart, the index remembers.
THEOREM OneReplan == Spec => []OneReplanPerContext
<1>1. ReplanInv => OneReplanPerContext
  <2>1. \A c \in Cycles : <<c, 2>> \in plans => Claims(c)
    BY DEF Claims
  <2> QED
    BY <2>1 DEF ReplanInv, OneReplanPerContext
<1> QED
  BY <1>1, ReplanInvariant, PTL

-----------------------------------------------------------------------------
(* The provider's daily budget *)

Budgets == [day : Nat, calls : Nat, tokens : Nat, cost : Int]
Bills == [calls : Nat, tokens : Nat, cost : Nat, lost : Nat, straddled : BOOLEAN]

(***************************************************************************)
(* The inductive invariant.  The one permit says who waits for an answer,  *)
(* and only a run that is asking has a call under way, so no step of the   *)
(* run but a cancellation drops a call that waits.                         *)
(***************************************************************************)
PermitHolderWaits ==
    /\ permit \in Callers \cup {NoCaller}
    /\ \A c \in Callers : call[c].pc = "waiting" <=> permit = c

OnlyAskedCalls ==
    \A r \in Callers : call[r].pc \in {"called", "stamped", "waiting"} => run[r].pc = "asked"

BudgetInv ==
    /\ budget \in Budgets /\ bill \in Bills
    /\ PermitHolderWaits
    /\ OnlyAskedCalls
    /\ BudgetIsExact

\* What BudgetIsExact says of a budget and a bill with some open reservations.
Exact(b, paid, open) ==
    /\ b.calls = paid.calls /\ b.calls <= CallLimit
    /\ b.tokens = paid.tokens + open * Bound.tokens /\ b.tokens <= TokenLimit
    /\ b.cost = paid.cost + open * Bound.cost /\ b.cost <= CostLimit

LEMMA ExactForm ==
    ASSUME PermitHolderWaits
    PROVE  /\ InFlight <=> permit # NoCaller
           /\ permit = NoCaller =>
                  (BudgetIsExact <=> (~bill.straddled => Exact(budget, bill, bill.lost + 0)))
           /\ permit # NoCaller =>
                  (BudgetIsExact <=> (~bill.straddled => Exact(budget, bill, bill.lost + 1)))
<1>1. InFlight <=> permit # NoCaller
  BY NoValueAssumption DEF PermitHolderWaits, InFlight
<1> QED
  BY <1>1 DEF BudgetIsExact, Exact

LEMMA BoundTypes == Bound.tokens \in Nat /\ Bound.cost \in Nat
<1>1. \A a, b \in Nat : a * b \in Nat
  OBVIOUS
<1>2. /\ MaximumUsage.hit = 0 /\ MaximumUsage.miss = InputBound
      /\ MaximumUsage.output = MaxOutput /\ MaximumUsage.total = InputBound + MaxOutput
  BY DEF MaximumUsage
<1>3. /\ InputBound \in Nat /\ MaxOutput \in Nat
      /\ Prices.hit \in Nat /\ Prices.miss \in Nat /\ Prices.output \in Nat
  BY LimitsAssumption, UsageAssumption
<1>4. Cost(MaximumUsage) \in Nat
  <2>1. /\ 0 * Prices.hit \in Nat /\ InputBound * Prices.miss \in Nat
        /\ MaxOutput * Prices.output \in Nat
    BY <1>1, <1>3
  <2> QED
    BY <1>2, <2>1 DEF Cost
<1> QED
  BY <1>2, <1>3, <1>4 DEF Bound

LEMMA ReportTypes ==
    ASSUME NEW u \in Reports PROVE u.total \in Nat /\ Cost(u) \in Nat
<1>1. \A a, b \in Nat : a * b \in Nat
  OBVIOUS
<1>2. /\ u.hit \in Nat /\ u.miss \in Nat /\ u.output \in Nat /\ u.total \in Nat
      /\ Prices.hit \in Nat /\ Prices.miss \in Nat /\ Prices.output \in Nat
  BY UsageAssumption
<1>3. /\ u.hit * Prices.hit \in Nat /\ u.miss * Prices.miss \in Nat
      /\ u.output * Prices.output \in Nat
  BY <1>1, <1>2
<1> QED
  BY <1>2, <1>3 DEF Cost

LEMMA BudgetRecord ==
    ASSUME NEW day \in Nat, NEW calls \in Nat, NEW tokens \in Nat, NEW cost \in Int,
           NEW b, b = [day |-> day, calls |-> calls, tokens |-> tokens, cost |-> cost]
    PROVE  b \in Budgets /\ b.calls = calls /\ b.tokens = tokens /\ b.cost = cost
BY DEF Budgets

LEMMA OneMore ==
    ASSUME NEW n \in Nat, NEW b \in Nat
    PROVE  (n + 1) * b = (n + 0) * b + b /\ (n + 0) * b \in Nat /\ (0 + 0) * b = 0
OBVIOUS

-----------------------------------------------------------------------------
(* The three things that happen to the budget: a reset, a reservation, and *)
(* the end of a request.                                                   *)

LEMMA ResetKeeps ==
    ASSUME BudgetInv, NEW day \in Nat
    PROVE  /\ AfterReset(day) \in Budgets /\ BillAfterReset(day) \in Bills
           /\ permit = NoCaller /\ ~BillAfterReset(day).straddled =>
                  Exact(AfterReset(day), BillAfterReset(day), BillAfterReset(day).lost + 0)
           /\ permit # NoCaller /\ ~BillAfterReset(day).straddled =>
                  Exact(AfterReset(day), BillAfterReset(day), BillAfterReset(day).lost + 1)
<1>1. CASE budget.day = day
  BY <1>1, ExactForm DEF BudgetInv, AfterReset, BillAfterReset
<1>2. CASE budget.day # day
  <2>1. AfterReset(day) = [day |-> day, calls |-> 0, tokens |-> 0, cost |-> 0]
    BY <1>2 DEF AfterReset, FreshBudget
  <2>2. BillAfterReset(day) = [calls |-> 0, tokens |-> 0, cost |-> 0, lost |-> 0,
                               straddled |-> InFlight]
    BY <1>2 DEF BillAfterReset, NoBill
  <2>3. InFlight \in BOOLEAN /\ (InFlight <=> permit # NoCaller)
    BY ExactForm DEF BudgetInv, InFlight
  <2>4. AfterReset(day) \in Budgets /\ BillAfterReset(day) \in Bills
    BY <2>1, <2>2, <2>3 DEF Budgets, Bills
  <2>5. ~BillAfterReset(day).straddled => permit = NoCaller
    BY <2>2, <2>3
  <2>6. Exact(AfterReset(day), BillAfterReset(day), BillAfterReset(day).lost + 0)
    <3>1. (0 + 0) * Bound.tokens = 0 /\ (0 + 0) * Bound.cost = 0
      BY BoundTypes, OneMore
    <3> QED
      BY <2>1, <2>2, <3>1, LimitsAssumption DEF Exact
  <2> QED
    BY <2>4, <2>5, <2>6
<1> QED
  BY <1>1, <1>2

LEMMA ReserveKeeps ==
    ASSUME NEW b \in Budgets, NEW paid \in Bills, ~Exhausted(b)
    PROVE  /\ Reserved(b) \in Budgets /\ [paid EXCEPT !.calls = @ + 1] \in Bills
           /\ [paid EXCEPT !.calls = @ + 1].straddled = paid.straddled
           /\ Exact(b, paid, paid.lost + 0) =>
                  Exact(Reserved(b), [paid EXCEPT !.calls = @ + 1],
                        [paid EXCEPT !.calls = @ + 1].lost + 1)
<1> DEFINE more == [paid EXCEPT !.calls = @ + 1]
<1>1. Bound.tokens \in Nat /\ Bound.cost \in Nat
  BY BoundTypes
<1>2. Reserved(b) = [day |-> b.day, calls |-> b.calls + 1, tokens |-> b.tokens + Bound.tokens,
                     cost |-> b.cost + Bound.cost]
  <2> DEFINE t == Bound.tokens
             k == Bound.cost
  <2>1. Reserved(b) = [b EXCEPT !.calls = @ + 1, !.tokens = @ + t, !.cost = @ + k]
    BY DEF Reserved
  <2>2. t \in Nat /\ k \in Nat
    BY <1>1
  <2> HIDE DEF t, k
  <2>3. Reserved(b) = [day |-> b.day, calls |-> b.calls + 1, tokens |-> b.tokens + t,
                       cost |-> b.cost + k]
    BY <2>1, <2>2 DEF Budgets
  <2> QED
    BY <2>3 DEF t, k
<1>3. Reserved(b) \in Budgets
  BY <1>1, <1>2 DEF Budgets
<1>4. /\ more \in Bills /\ more.calls = paid.calls + 1 /\ more.tokens = paid.tokens
      /\ more.cost = paid.cost /\ more.lost = paid.lost /\ more.straddled = paid.straddled
  BY DEF Bills
<1>5. Exact(b, paid, paid.lost + 0) => Exact(Reserved(b), more, more.lost + 1)
  <2> SUFFICES ASSUME Exact(b, paid, paid.lost + 0)
               PROVE  Exact(Reserved(b), more, more.lost + 1)
    OBVIOUS
  <2>1. paid.lost \in Nat
    BY DEF Bills
  <2> DEFINE tokens == (paid.lost + 0) * Bound.tokens
             cost == (paid.lost + 0) * Bound.cost
  <2>2. /\ (paid.lost + 1) * Bound.tokens = tokens + Bound.tokens /\ tokens \in Nat
        /\ (paid.lost + 1) * Bound.cost = cost + Bound.cost /\ cost \in Nat
    BY <1>1, <2>1, OneMore
  <2>3. /\ b.calls = paid.calls /\ b.tokens = paid.tokens + tokens
        /\ b.cost = paid.cost + cost
    BY DEF Exact
  <2>4. /\ b.calls + 1 <= CallLimit /\ b.tokens + Bound.tokens <= TokenLimit
        /\ b.cost + Bound.cost <= CostLimit
    <3>1. b.calls \in Nat /\ b.tokens \in Nat /\ b.cost \in Int
      BY DEF Budgets
    <3> QED
      BY <1>1, <3>1, LimitsAssumption DEF Exhausted
  <2>5. /\ b.calls \in Nat /\ b.tokens \in Nat /\ b.cost \in Int
        /\ paid.tokens \in Nat /\ paid.cost \in Nat
    BY DEF Budgets, Bills
  <2> HIDE DEF tokens, cost, more
  <2>6. /\ b.tokens + Bound.tokens = paid.tokens + (paid.lost + 1) * Bound.tokens
        /\ b.cost + Bound.cost = paid.cost + (paid.lost + 1) * Bound.cost
    BY <1>1, <2>2, <2>3, <2>5
  <2> QED
    BY <1>2, <1>4, <2>3, <2>4, <2>6 DEF Exact
<1> QED
  BY <1>3, <1>4, <1>5

\* The end of a request gives its reservation back and may charge what was used.
Settled(total, cost) ==
    [budget EXCEPT !.tokens = SaturatingSub(@, Bound.tokens) + total,
                   !.cost = @ - Bound.cost + cost]
Charged(total, cost) == [bill EXCEPT !.tokens = @ + total, !.cost = @ + cost]

LEMMA SettleKeeps ==
    ASSUME BudgetInv, permit # NoCaller, permit' = NoCaller, PermitHolderWaits',
           NEW total \in Nat, NEW cost \in Nat, total <= Bound.tokens, cost <= Bound.cost,
           budget' = Settled(total, cost), bill' = Charged(total, cost)
    PROVE  budget' \in Budgets /\ bill' \in Bills /\ BudgetIsExact'
<1> DEFINE t == Bound.tokens
           k == Bound.cost
           rest == SaturatingSub(budget.tokens, t)
<1>1. t \in Nat /\ k \in Nat
  BY BoundTypes
<1>2. /\ budget.calls \in Nat /\ budget.tokens \in Nat /\ budget.cost \in Int
      /\ bill.calls \in Nat /\ bill.tokens \in Nat /\ bill.cost \in Nat /\ bill.lost \in Nat
      /\ bill.straddled \in BOOLEAN
  BY DEF BudgetInv, Budgets, Bills
<1>3. rest \in Nat /\ (budget.tokens >= t => rest = budget.tokens - t)
  <2> HIDE DEF t
  <2> QED
    BY <1>1, <1>2 DEF SaturatingSub
<1>4. /\ budget' \in Budgets
      /\ budget'.calls = budget.calls /\ budget'.tokens = rest + total
      /\ budget'.cost = budget.cost - k + cost
  <2>1. budget' = [budget EXCEPT !.tokens = rest + total, !.cost = @ - k + cost]
    BY DEF Settled
  <2> HIDE DEF rest, t, k
  <2>2. budget' = [day |-> budget.day, calls |-> budget.calls, tokens |-> rest + total,
                   cost |-> budget.cost - k + cost]
    BY <2>1, <1>2, <1>3 DEF BudgetInv, Budgets
  <2>3. rest + total \in Nat /\ budget.cost - k + cost \in Int /\ budget.day \in Nat
    BY <1>1, <1>2, <1>3 DEF BudgetInv, Budgets
  <2> QED
    BY <1>2, <2>2, <2>3, BudgetRecord
<1>5. /\ bill' \in Bills
      /\ bill'.calls = bill.calls /\ bill'.tokens = bill.tokens + total
      /\ bill'.cost = bill.cost + cost /\ bill'.lost = bill.lost
      /\ bill'.straddled = bill.straddled
  <2>1. bill' = [calls |-> bill.calls, tokens |-> bill.tokens + total,
                 cost |-> bill.cost + cost, lost |-> bill.lost,
                 straddled |-> bill.straddled]
    BY <1>2 DEF BudgetInv, Bills, Charged
  <2>2. bill.tokens + total \in Nat /\ bill.cost + cost \in Nat
    BY <1>2
  <2> DEFINE calls == bill.calls
             tokens == bill.tokens + total
             costs == bill.cost + cost
             lost == bill.lost
             straddled == bill.straddled
  <2>3. /\ calls \in Nat /\ tokens \in Nat /\ costs \in Nat /\ lost \in Nat
        /\ straddled \in BOOLEAN
    BY <1>2, <2>2
  <2>4. bill' = [calls |-> calls, tokens |-> tokens, cost |-> costs, lost |-> lost,
                 straddled |-> straddled]
    BY <2>1
  <2> HIDE DEF calls, tokens, costs, lost, straddled
  <2>5. bill'.calls = calls /\ bill'.tokens = tokens /\ bill'.cost = costs
    BY <2>4
  <2>6. bill'.lost = lost /\ bill'.straddled = straddled
    BY <2>4
  <2>7. bill' \in Bills
    BY <2>3, <2>4 DEF Bills
  <2> QED
    BY <2>5, <2>6, <2>7 DEF calls, tokens, costs, lost, straddled
<1>6. ASSUME ~bill.straddled PROVE Exact(budget', bill', bill.lost + 0)
  <2>1. Exact(budget, bill, bill.lost + 1)
    BY <1>6, ExactForm DEF BudgetInv
  <2> DEFINE tokens == (bill.lost + 0) * t
             costs == (bill.lost + 0) * k
  <2>2. /\ (bill.lost + 1) * t = tokens + t /\ tokens \in Nat
        /\ (bill.lost + 1) * k = costs + k /\ costs \in Nat
    <3> HIDE DEF t, k
    <3> QED
      BY <1>1, <1>2, OneMore
  <2>3. /\ budget.calls = bill.calls /\ budget.calls <= CallLimit
        /\ budget.tokens = bill.tokens + (bill.lost + 1) * t /\ budget.tokens <= TokenLimit
        /\ budget.cost = bill.cost + (bill.lost + 1) * k /\ budget.cost <= CostLimit
    BY <2>1 DEF Exact
  <2>4. total <= t /\ cost <= k
    OBVIOUS
  <2> HIDE DEF t, k, rest, tokens, costs
  <2>5. /\ budget.tokens = bill.tokens + tokens + t
        /\ budget.cost = bill.cost + costs + k
    BY <1>1, <1>2, <2>2, <2>3
  <2>6. rest = bill.tokens + tokens
    <3>1. tokens \in Nat /\ budget.tokens = bill.tokens + tokens + t
      BY <2>2, <2>5
    <3>2. budget.tokens >= t
      BY <1>1, <1>2, <3>1
    <3>3. rest = budget.tokens - t
      BY <1>3, <3>2
    <3> QED
      BY <1>1, <1>2, <3>1, <3>3
  <2>7. /\ rest + total = bill.tokens + total + tokens /\ rest + total <= TokenLimit
        /\ budget.cost - k + cost = bill.cost + cost + costs
        /\ budget.cost - k + cost <= CostLimit
    BY <1>1, <1>2, <1>3, <2>2, <2>3, <2>4, <2>5, <2>6, LimitsAssumption
  <2>8. /\ budget'.calls = bill'.calls /\ budget'.calls <= CallLimit
        /\ budget'.tokens = bill'.tokens + tokens /\ budget'.tokens <= TokenLimit
        /\ budget'.cost = bill'.cost + costs /\ budget'.cost <= CostLimit
    BY <1>4, <1>5, <2>3, <2>7
  <2> QED
    BY <2>8 DEF Exact, tokens, costs, t, k
<1>7. ~InFlight'
  BY NoValueAssumption DEF PermitHolderWaits, InFlight
<1> QED
  BY <1>4, <1>5, <1>6, <1>7 DEF BudgetIsExact, Exact

-----------------------------------------------------------------------------
(* Who waits.                                                              *)

LEMMA CallerStep ==
    ASSUME BudgetInv, NEW c \in Callers,
           \A d \in Callers \ {c} : call'[d] = call[d] /\ run'[d] = run[d],
           call'[c].pc \in {"called", "stamped", "waiting"} => run'[c].pc = "asked",
           \/ permit' = permit /\ (call'[c].pc = "waiting" <=> call[c].pc = "waiting")
           \/ permit = NoCaller /\ permit' = c /\ call'[c].pc = "waiting"
           \/ permit' = NoCaller /\ call[c].pc = "waiting" /\ call'[c].pc # "waiting"
    PROVE  PermitHolderWaits' /\ OnlyAskedCalls'
<1>1. PermitHolderWaits'
  BY NoValueAssumption DEF BudgetInv, PermitHolderWaits
<1>2. OnlyAskedCalls'
  BY DEF BudgetInv, OnlyAskedCalls
<1> QED
  BY <1>1, <1>2

LEMMA CalmStep ==
    ASSUME BudgetInv, UNCHANGED <<budget, bill, permit>>, PermitHolderWaits', OnlyAskedCalls'
    PROVE  BudgetInv'
<1>1. InFlight' <=> InFlight
  BY DEF BudgetInv, PermitHolderWaits, InFlight
<1> QED
  BY <1>1 DEF BudgetInv, BudgetIsExact

LEMMA ReturnMoves ==
    ASSUME CallTypes, NEW c \in Callers, NEW a, Return(c, a)
    PROVE  call'[c].pc = "done" /\ \A d \in Callers \ {c} : call'[d] = call[d]
<1>1. call[c] \in CallRecords /\ call \in [Callers -> CallRecords]
  BY DEF CallTypes
<1>2. call'[c] = [call[c] EXCEPT !.pc = "done", !.day = 0, !.result = a]
      /\ \A d \in Callers \ {c} : call'[d] = call[d]
  BY <1>1 DEF Return
<1> QED
  BY <1>1, <1>2 DEF CallRecords

LEMMA ReleaseIsSettled ==
    ASSUME BudgetInv
    PROVE  ReleaseReservation = Settled(0, 0) /\ bill = Charged(0, 0)
<1> DEFINE t == Bound.tokens
           k == Bound.cost
           rest == SaturatingSub(budget.tokens, t)
<1>1. t \in Nat /\ k \in Nat
  BY BoundTypes
<1>2. budget \in Budgets /\ budget.tokens \in Nat /\ budget.cost \in Int
  BY DEF BudgetInv, Budgets
<1>3. rest \in Nat
  <2> HIDE DEF t
  <2> QED
    BY <1>1, <1>2 DEF SaturatingSub
<1>4. /\ ReleaseReservation = [budget EXCEPT !.tokens = rest, !.cost = @ - k]
      /\ Settled(0, 0) = [budget EXCEPT !.tokens = rest + 0, !.cost = @ - k + 0]
  BY DEF ReleaseReservation, Settled
<1>5. ReleaseReservation = Settled(0, 0)
  <2> HIDE DEF rest, t, k
  <2>1. rest + 0 = rest /\ budget.cost - k + 0 = budget.cost - k
    BY <1>1, <1>2, <1>3
  <2> QED
    BY <1>2, <1>4, <2>1 DEF Budgets
<1>6. bill = Charged(0, 0)
  <2>1. bill \in Bills /\ bill.tokens + 0 = bill.tokens /\ bill.cost + 0 = bill.cost
    BY DEF BudgetInv, Bills
  <2> QED
    BY <2>1 DEF Charged, Bills
<1> QED
  BY <1>5, <1>6

LEMMA ResetStep ==
    ASSUME BudgetInv, NEW day \in Nat, budget' = AfterReset(day), bill' = BillAfterReset(day),
           permit' = permit, PermitHolderWaits', OnlyAskedCalls'
    PROVE  BudgetInv'
<1>1. /\ budget' \in Budgets /\ bill' \in Bills
      /\ permit' = NoCaller /\ ~bill'.straddled => Exact(budget', bill', bill'.lost + 0)
      /\ permit' # NoCaller /\ ~bill'.straddled => Exact(budget', bill', bill'.lost + 1)
  BY ResetKeeps
<1>2. InFlight' <=> permit' # NoCaller
  BY NoValueAssumption DEF PermitHolderWaits, InFlight
<1>3. BudgetIsExact'
  BY <1>1, <1>2 DEF BudgetIsExact, Exact
<1> QED
  BY <1>1, <1>3 DEF BudgetInv

LEMMA SendStep ==
    ASSUME BudgetInv, CallTypes, NEW c \in Callers, SendRequest(c), run' = run
    PROVE  BudgetInv'
<1> DEFINE b == AfterReset(call[c].day)
           paid == BillAfterReset(call[c].day)
<1>1. call[c] \in CallRecords /\ call[c].day \in Nat /\ call \in [Callers -> CallRecords]
  BY DEF CallTypes, CallRecords
<1>2. /\ call'[c] = [call[c] EXCEPT !.pc = "waiting"] /\ call[c].pc = "stamped"
      /\ \A d \in Callers \ {c} : call'[d] = call[d]
      /\ permit = NoCaller /\ permit' = c
  BY <1>1 DEF SendRequest
<1>3. call'[c].pc = "waiting" /\ run[c].pc = "asked"
  BY <1>1, <1>2 DEF CallRecords, BudgetInv, OnlyAskedCalls
<1>4. PermitHolderWaits' /\ OnlyAskedCalls'
  BY <1>2, <1>3, CallerStep
<1>5. /\ b \in Budgets /\ paid \in Bills
      /\ ~paid.straddled => Exact(b, paid, paid.lost + 0)
  BY <1>1, <1>2, ResetKeeps
<1>6. budget' = Reserved(b) /\ bill' = [paid EXCEPT !.calls = @ + 1] /\ ~Exhausted(b)
  BY DEF SendRequest
<1>7. /\ budget' \in Budgets /\ bill' \in Bills /\ bill'.straddled = paid.straddled
      /\ ~bill'.straddled => Exact(budget', bill', bill'.lost + 1)
  <2> HIDE DEF b, paid
  <2>1. /\ Reserved(b) \in Budgets /\ [paid EXCEPT !.calls = @ + 1] \in Bills
        /\ [paid EXCEPT !.calls = @ + 1].straddled = paid.straddled
        /\ Exact(b, paid, paid.lost + 0) =>
               Exact(Reserved(b), [paid EXCEPT !.calls = @ + 1],
                     [paid EXCEPT !.calls = @ + 1].lost + 1)
    BY <1>5, <1>6, ReserveKeeps
  <2> QED
    BY <1>5, <1>6, <2>1
<1>8. InFlight'
  BY <1>3 DEF InFlight
<1>9. BudgetIsExact'
  BY <1>7, <1>8 DEF BudgetIsExact, Exact
<1> QED
  BY <1>4, <1>7, <1>9 DEF BudgetInv

LEMMA AnswerStep ==
    ASSUME BudgetInv, CallTypes, NEW c \in Callers, run' = run,
           RequestFails(c) \/ UsageBeyondReservation(c) \/ AnswerArrives(c)
    PROVE  BudgetInv'
<1>1. call[c].pc = "waiting" /\ permit' = NoCaller
  BY DEF RequestFails, UsageBeyondReservation, AnswerArrives, Answered
<1>2. permit = c /\ permit # NoCaller
  BY <1>1, NoValueAssumption DEF BudgetInv, PermitHolderWaits
<1>3. \E a : Return(c, a)
  BY DEF RequestFails, UsageBeyondReservation, AnswerArrives, ResponseTooLarge, NotUtf8,
         ContradictoryUsage, NoResponse, ErrorResponse, WrongModelOrChoices, NoPlanInside,
         PlanArrives
<1>4. call'[c].pc = "done" /\ \A d \in Callers \ {c} : call'[d] = call[d]
  BY <1>3, ReturnMoves
<1>5. PermitHolderWaits' /\ OnlyAskedCalls'
  BY <1>1, <1>4, CallerStep
<1>6. \E total, cost \in Nat :
          /\ total <= Bound.tokens /\ cost <= Bound.cost
          /\ budget' = Settled(total, cost) /\ bill' = Charged(total, cost)
  <2>1. CASE RequestFails(c) \/ UsageBeyondReservation(c)
    <3>1. budget' = Settled(0, 0) /\ bill' = Charged(0, 0)
      BY <2>1, ReleaseIsSettled DEF RequestFails, UsageBeyondReservation
    <3>2. 0 <= Bound.tokens /\ 0 <= Bound.cost
      BY BoundTypes
    <3> QED
      BY <3>1, <3>2
  <2>2. CASE AnswerArrives(c)
    <3>1. PICK u \in Reports :
              ~Exceeds(u) /\ budget' = FinalizeReservation(u)
              /\ bill' = [bill EXCEPT !.tokens = @ + u.total, !.cost = @ + Cost(u)]
      BY <2>2 DEF AnswerArrives
    <3>2. u.total \in Nat /\ Cost(u) \in Nat
      BY ReportTypes
    <3>3. u.total <= Bound.tokens /\ Cost(u) <= Bound.cost
      BY <3>1, <3>2, BoundTypes DEF Exceeds
    <3>4. budget' = Settled(u.total, Cost(u)) /\ bill' = Charged(u.total, Cost(u))
      BY <3>1 DEF FinalizeReservation, Settled, Charged
    <3> QED
      BY <3>2, <3>3, <3>4
  <2> QED
    BY <2>1, <2>2
<1>7. budget' \in Budgets /\ bill' \in Bills /\ BudgetIsExact'
  BY <1>1, <1>2, <1>5, <1>6, SettleKeeps
<1> QED
  BY <1>5, <1>7 DEF BudgetInv

LEMMA ProviderBudget ==
    ASSUME BudgetInv, CallTypes, ProviderStep, run' = run
    PROVE  BudgetInv'
<1>1. CASE Midnight \/ \E x \in Contexts : Expire(x)
  <2>1. UNCHANGED <<budget, bill, permit, call>>
    BY <1>1 DEF Midnight, Expire
  <2>2. PermitHolderWaits' /\ OnlyAskedCalls'
    BY <2>1 DEF BudgetInv, PermitHolderWaits, OnlyAskedCalls
  <2> QED
    BY <2>1, <2>2, CalmStep
<1>2. CASE BudgetSnapshot
  <2>1. /\ UNCHANGED <<permit, call>> /\ today \in Nat
        /\ budget' = AfterReset(today) /\ bill' = BillAfterReset(today)
    BY <1>2 DEF BudgetSnapshot, CallTypes
  <2>2. PermitHolderWaits' /\ OnlyAskedCalls'
    BY <2>1 DEF BudgetInv, PermitHolderWaits, OnlyAskedCalls
  <2> QED
    BY <2>1, <2>2, ResetStep
<1>3. ASSUME NEW c \in Callers, NEW a, Return(c, a), permit' = permit, call[c].pc # "waiting"
      PROVE  PermitHolderWaits' /\ OnlyAskedCalls'
  BY <1>3, ReturnMoves, CallerStep
<1>4. ASSUME NEW c \in Callers, RefusePrompt(c) \/ ConcurrencyExhausted(c) PROVE BudgetInv'
  <2>1. /\ Return(c, Failure) /\ call[c].pc # "waiting"
        /\ UNCHANGED <<budget, bill, permit>>
    BY <1>4 DEF RefusePrompt, ConcurrencyExhausted
  <2> QED
    BY <1>3, <2>1, CalmStep
<1>5. ASSUME NEW c \in Callers, StampRequest(c) PROVE BudgetInv'
  <2>1. UNCHANGED <<budget, bill, permit>> /\ call[c].pc = "called"
    BY <1>5 DEF StampRequest
  <2>2. PermitHolderWaits' /\ OnlyAskedCalls'
    <3>1. CASE Return(c, Failure)
      BY <1>3, <2>1, <3>1
    <3>2. CASE ~Return(c, Failure)
      <4>1. call[c] \in CallRecords /\ call \in [Callers -> CallRecords]
        BY DEF CallTypes
      <4>2. /\ call'[c] = [call[c] EXCEPT !.pc = "stamped", !.day = today]
            /\ \A d \in Callers \ {c} : call'[d] = call[d]
        BY <1>5, <3>2, <4>1 DEF StampRequest
      <4>3. call'[c].pc = "stamped" /\ run[c].pc = "asked"
        BY <2>1, <4>1, <4>2 DEF CallRecords, BudgetInv, OnlyAskedCalls
      <4> QED
        BY <2>1, <4>2, <4>3, CallerStep
    <3> QED
      BY <3>1, <3>2
  <2> QED
    BY <2>1, <2>2, CalmStep
<1>6. ASSUME NEW c \in Callers, RefuseBudget(c) PROVE BudgetInv'
  <2>1. /\ Return(c, Failure) /\ call[c].pc # "waiting" /\ permit' = permit
        /\ budget' = AfterReset(call[c].day) /\ bill' = BillAfterReset(call[c].day)
    BY <1>6 DEF RefuseBudget
  <2>2. call[c].day \in Nat
    BY DEF CallTypes, CallRecords
  <2> QED
    BY <1>3, <2>1, <2>2, ResetStep
<1>7. ASSUME NEW c \in Callers, SendRequest(c) PROVE BudgetInv'
  BY <1>7, SendStep
<1>8. ASSUME NEW c \in Callers,
             RequestFails(c) \/ UsageBeyondReservation(c) \/ AnswerArrives(c)
      PROVE  BudgetInv'
  BY <1>8, AnswerStep
<1> QED
  BY <1>1, <1>2, <1>4, <1>5, <1>6, <1>7, <1>8 DEF ProviderStep

-----------------------------------------------------------------------------
(* What a run does to its call.                                            *)

\* A run that is not waiting for the provider may forget its call.
LEMMA RunMoves ==
    ASSUME BudgetInv, CallTypes, NEW r \in Callers, UNCHANGED <<budget, bill, permit>>,
           \A s \in Callers \ {r} : run'[s] = run[s],
           call' = call \/ call' = [call EXCEPT ![r] = Idle],
           run[r].pc # "asked" \/ call[r].pc = "done"
    PROVE  BudgetInv'
<1>1. call[r].pc \notin {"called", "stamped", "waiting"}
  BY DEF BudgetInv, OnlyAskedCalls
<1>2. call'[r].pc \notin {"called", "stamped", "waiting"}
  BY <1>1 DEF CallTypes, Idle
<1>3. \A s \in Callers \ {r} : call'[s] = call[s]
  BY DEF CallTypes
<1>4. PermitHolderWaits' /\ OnlyAskedCalls'
  BY <1>1, <1>2, <1>3, CallerStep
<1> QED
  BY <1>4, CalmStep

LEMMA AskBudget ==
    ASSUME BudgetInv, CycleInv, CallTypes, NEW r \in Callers, AskProvider(r)
    PROVE  BudgetInv'
<1>1. /\ call \in [Callers -> CallRecords] /\ run \in [Callers -> Runs] /\ run[r] \in Runs
  BY DEF CallTypes, CycleInv, RunTypes
<1>2. /\ call[r].pc = "idle" /\ UNCHANGED <<budget, bill, permit>> /\ GoTo(r, "asked")
  BY DEF AskProvider, GeneratePlan
<1>3. run'[r].pc = "asked" /\ \A s \in Callers \ {r} : run'[s] = run[s]
  BY <1>2, Passes
<1>4. call'[r].pc # "waiting" /\ \A s \in Callers \ {r} : call'[s] = call[s]
  BY <1>1 DEF AskProvider, GeneratePlan, Idle
<1>5. PermitHolderWaits' /\ OnlyAskedCalls'
  BY <1>2, <1>3, <1>4, CallerStep
<1> QED
  BY <1>2, <1>5, CalmStep

LEMMA CancelBudget ==
    ASSUME BudgetInv, CycleInv, CallTypes, NEW r \in Callers, Cancel(r)
    PROVE  BudgetInv'
<1>1. /\ call \in [Callers -> CallRecords] /\ run \in [Callers -> Runs]
  BY DEF CallTypes, CycleInv, RunTypes
<1>2. /\ call[r].pc = "waiting" /\ call' = [call EXCEPT ![r] = Idle] /\ permit' = NoCaller
      /\ budget' = budget /\ bill' = [bill EXCEPT !.lost = @ + 1]
      /\ \A s \in Callers \ {r} : run'[s] = run[s]
  BY <1>1 DEF Cancel, DropCall, Ended
<1>3. call'[r].pc = "idle" /\ \A s \in Callers \ {r} : call'[s] = call[s]
  BY <1>1, <1>2 DEF Idle
<1>4. PermitHolderWaits' /\ OnlyAskedCalls'
  BY <1>2, <1>3, CallerStep
<1>5. permit # NoCaller
  BY <1>2, NoValueAssumption DEF BudgetInv, PermitHolderWaits
<1>6. /\ bill.lost \in Nat /\ bill' \in Bills
      /\ bill'.lost = bill.lost + 1 /\ bill'.calls = bill.calls
      /\ bill'.tokens = bill.tokens /\ bill'.cost = bill.cost
      /\ bill'.straddled = bill.straddled
  BY <1>2 DEF BudgetInv, Bills
<1>7. ~bill.straddled => Exact(budget, bill, bill.lost + 1)
  BY <1>5, ExactForm DEF BudgetInv
<1>8. bill'.lost + 0 = bill.lost + 1
  BY <1>6
<1>9. ~InFlight'
  BY <1>2, <1>4, NoValueAssumption DEF PermitHolderWaits, InFlight
<1>10. BudgetIsExact'
  BY <1>2, <1>6, <1>7, <1>8, <1>9 DEF BudgetIsExact, Exact
<1> QED
  BY <1>2, <1>4, <1>6, <1>10 DEF BudgetInv

\* A restart forgets the budget with everything else.
LEMMA FreshBudgetExact ==
    ASSUME budget' = FreshBudget(0), bill' = NoBill, permit' = NoCaller,
           call' = [c \in Callers |-> Idle]
    PROVE  BudgetInv'
<1>1. \A c \in Callers : call'[c].pc = "idle"
  BY DEF Idle
<1>2. PermitHolderWaits' /\ OnlyAskedCalls' /\ ~InFlight'
  BY <1>1, NoValueAssumption DEF PermitHolderWaits, OnlyAskedCalls, InFlight
<1>3. budget' \in Budgets /\ bill' \in Bills
  BY DEF FreshBudget, NoBill, Budgets, Bills
<1>4. (0 + 0) * Bound.tokens = 0 /\ (0 + 0) * Bound.cost = 0
  BY BoundTypes, OneMore
<1>5. BudgetIsExact'
  BY <1>2, <1>4, LimitsAssumption DEF BudgetIsExact, FreshBudget, NoBill
<1> QED
  BY <1>2, <1>3, <1>5 DEF BudgetInv

LEMMA RunBudget ==
    ASSUME BudgetInv, CycleInv, CallTypes, NEW r \in Callers, RunStep(r) \/ StorageFails(r)
    PROVE  BudgetInv'
<1>1. run \in [Callers -> Runs]
  BY DEF CycleInv, RunTypes
<1>2. CASE AskProvider(r)
  BY <1>2, AskBudget
<1>3. CASE ReceiveResult(r)
  <2>1. /\ call[r].pc = "done" /\ UNCHANGED <<budget, bill, permit>>
        /\ call' = call \/ call' = [call EXCEPT ![r] = Idle]
        /\ \A s \in Callers \ {r} : run'[s] = run[s]
    BY <1>1, <1>3 DEF ReceiveResult, GoTo
  <2> QED
    BY <2>1, RunMoves
<1>4. CASE PersistEvidence(r) \/ StorageFails(r)
  <2>1. /\ run[r].pc # "asked" /\ UNCHANGED <<budget, bill, permit>>
        /\ call' = [call EXCEPT ![r] = Idle]
        /\ \A s \in Callers \ {r} : run'[s] = run[s]
    BY <1>1, <1>4 DEF PersistEvidence, StorageFails, At, GoTo, Ended
  <2> QED
    BY <2>1, RunMoves
<1>5. CASE \/ CycleExists(r) \/ Conflict(r) \/ BuildContext(r) \/ ProviderNoAction(r)
           \/ PersistPlan(r) \/ PlanRecorded(r) \/ PersistValidation(r) \/ DecisionLogged(r)
           \/ NextAttempt(r) \/ Submit(r) \/ ExecutionSubmitted(r) \/ ProcessObservation(r)
           \/ ObservationApplied(r) \/ Complete(r) \/ ReturnReport(r)
  <2>1. UNCHANGED providerVars
    BY <1>5 DEF CycleExists, Conflict, BuildContext, ProviderNoAction, PersistPlan,
                PlanRecorded, PersistValidation, DecisionLogged, NextAttempt, Submit,
                ExecutionSubmitted, ProcessObservation, ObservationApplied, Complete,
                ReturnReport, Logs
  <2>2. \A s \in Callers \ {r} : run'[s] = run[s]
    BY <1>1, <1>5 DEF CycleExists, Conflict, BuildContext, ProviderNoAction, PersistPlan,
                      PlanRecorded, PersistValidation, DecisionLogged, NextAttempt, Submit,
                      ExecutionSubmitted, ProcessObservation, ObservationApplied, Complete,
                      ReturnReport, Logs, Append1, GoTo, Ended
  <2>3. run[r].pc # "asked"
    BY <1>5 DEF CycleExists, Conflict, BuildContext, ProviderNoAction, PersistPlan,
                PlanRecorded, PersistValidation, DecisionLogged, NextAttempt, Submit,
                ExecutionSubmitted, ProcessObservation, ObservationApplied, Complete,
                ReturnReport, At, Outcomes
  <2>4. UNCHANGED <<budget, bill, permit>> /\ call' = call
    BY <2>1 DEF providerVars
  <2> QED
    BY <2>2, <2>3, <2>4, RunMoves
<1> QED
  BY <1>2, <1>3, <1>4, <1>5 DEF RunStep

LEMMA NextBudget ==
    ASSUME BudgetInv, CycleInv, CallTypes, [Next]_vars
    PROVE  BudgetInv'
<1>1. CASE ProviderStep /\ UNCHANGED <<storeVars, run>>
  BY <1>1, ProviderBudget
<1>2. CASE \E r \in Callers, c \in Cycles : RunCycle(r, c)
  <2>1. PICK r \in Callers, c \in Cycles : RunCycle(r, c)
    BY <1>2
  <2>2. /\ run[r].pc # "asked" /\ UNCHANGED <<budget, bill, permit, call>>
        /\ \A s \in Callers \ {r} : run'[s] = run[s]
    BY <2>1 DEF RunCycle, At, Ended, providerVars, CycleInv, RunTypes
  <2> QED
    BY <2>2, RunMoves
<1>3. CASE \E r \in Callers : RunStep(r) \/ StorageFails(r)
  BY <1>3, RunBudget
<1>4. CASE \E r \in Callers : Cancel(r)
  BY <1>4, CancelBudget
<1>5. CASE Restart
  BY <1>5, FreshBudgetExact DEF Restart, ProviderRestart
<1>6. CASE UNCHANGED vars
  <2>1. UNCHANGED <<budget, bill, permit, call, run>>
    BY <1>6 DEF vars, providerVars
  <2>2. PermitHolderWaits' /\ OnlyAskedCalls'
    BY <2>1 DEF BudgetInv, PermitHolderWaits, OnlyAskedCalls
  <2> QED
    BY <2>1, <2>2, CalmStep
<1> QED
  BY <1>1, <1>2, <1>3, <1>4, <1>5, <1>6 DEF Next

LEMMA InitBudget == Init => BudgetInv
<1> SUFFICES ASSUME Init PROVE BudgetInv
  OBVIOUS
<1>1. /\ budget = FreshBudget(0) /\ bill = NoBill /\ permit = NoCaller
      /\ \A c \in Callers : call[c].pc = "idle"
  BY DEF Init, ProviderInit, Idle
<1>2. PermitHolderWaits /\ OnlyAskedCalls /\ ~InFlight
  BY <1>1, NoValueAssumption DEF PermitHolderWaits, OnlyAskedCalls, InFlight
<1>3. budget \in Budgets /\ bill \in Bills
  BY <1>1 DEF FreshBudget, NoBill, Budgets, Bills
<1>4. (0 + 0) * Bound.tokens = 0 /\ (0 + 0) * Bound.cost = 0
  BY BoundTypes, OneMore
<1>5. BudgetIsExact
  BY <1>1, <1>2, <1>4, LimitsAssumption DEF BudgetIsExact, FreshBudget, NoBill
<1> QED
  BY <1>2, <1>3, <1>5 DEF BudgetInv

\* The budget of the provider accounts for every request that was sent, finished, lost with a
\* dropped future or is under way, and no limit of a day is passed.
THEOREM ProviderStaysInBudget == Spec => []BudgetIsExact
<1>1. Init => BudgetInv
  BY InitBudget
<1>2. BudgetInv /\ CycleInv /\ ReplanInv /\ [Next]_vars => BudgetInv'
  BY NextBudget DEF ReplanInv
<1>3. BudgetInv => BudgetIsExact
  BY DEF BudgetInv
<1> QED
  BY <1>1, <1>2, <1>3, CycleInvariant, ReplanInvariant, PTL DEF Spec


-----------------------------------------------------------------------------
(***************************************************************************)
(* The log and the store.  Only the writer of a cycle's log changes what   *)
(* the store has of the cycle, and it owes the log at most the event of    *)
(* the effect it has just had; a run that fails leaves that one missing.   *)
(***************************************************************************)
\* The events that tell of an effect on the store, and the effects of a cycle.
Kinds == {"AI_PLAN_RECORDED", "EXECUTION_SUBMITTED", "PAPER_OBSERVATION_APPLIED"}
Effects(c, k) == IF k = "AI_PLAN_RECORDED" THEN PlansOf(c)
                 ELSE IF k = "EXECUTION_SUBMITTED" THEN SubmissionsOf(c) ELSE applied[c]

\* A run between an effect and its event.
OwedAt(k) == IF k = "AI_PLAN_RECORDED" THEN "recorded"
             ELSE IF k = "EXECUTION_SUBMITTED" THEN "accepted" ELSE "observed"
Same(x, y) == IF x = y THEN 1 ELSE 0
Owes(v, k) == Same(v.pc, OwedAt(k))

\* The attempts that have a plan when a run is at v.
Unplanned == {"idle", "exists", "build", "ask", "asked", "evidence", "no_action", "ledger",
              "ProviderNoAction", "ContextRejected"}
HasPlan(v, a) == a < v.attempt \/ (a = v.attempt /\ v.pc \notin Unplanned)

LogTypes == plans \subseteq Cycles \X (1..Attempts) /\ applied \in [Cycles -> Nat]

\* The writer of a log knows what it still has to write.
WriterOK(r) ==
    run[r].pc \notin {"idle", "exists", "build", "return"} =>
        /\ \A k \in Kinds : Effects(CycleOf(r), k) = Logged(CycleOf(r), k) + Owes(run[r], k)
        /\ \A a \in 1..Attempts : <<CycleOf(r), a>> \in plans <=> HasPlan(run[r], a)
FirstAttempt(r) == run[r].pc \in {"idle", "exists", "build"} => run[r].attempt = 1

LogOK(c) ==
    /\ \A k \in Kinds : LogsOrIsAboutTo(Effects(c, k), Logged(c, k), Completed(c))
    /\ events[c] = <<>> => /\ \A k \in Kinds : Effects(c, k) = 0
                           /\ \A a \in 1..Attempts : <<c, a>> \notin plans

LogInv ==
    /\ LogTypes
    /\ \A r \in Callers : WriterOK(r) /\ FirstAttempt(r)
    /\ \A c \in Cycles : LogOK(c)

-----------------------------------------------------------------------------
LEMMA LogCounts ==
    ASSUME CycleInv, LogTypes, NEW c \in Cycles, NEW k
    PROVE  /\ Effects(c, k) \in Nat /\ Logged(c, k) \in Nat
           /\ IsFiniteSet({p \in plans : p[1] = c}) /\ IsFiniteSet({p \in submitted : p[1] = c})
<1>1. events[c] \in Seq(EventTypes)
  BY DEF CycleInv, RunTypes
<1>2. Len(events[c]) \in Nat /\ DOMAIN events[c] = 1..Len(events[c])
  BY <1>1
<1>3. Logged(c, k) \in Nat
  <2>1. IsFiniteSet(1..Len(events[c]))
    BY <1>2, FS_Interval
  <2>2. IsFiniteSet({i \in DOMAIN events[c] : events[c][i] = k})
    BY <1>2, <2>1, FS_Subset
  <2> QED
    BY <2>2, FS_CardinalityType DEF Logged
<1>4. IsFiniteSet({c} \X (1..Attempts))
  <2>1. IsFiniteSet(1..Attempts)
    BY CycleAssumption, FS_Interval
  <2> QED
    BY <2>1, FS_Singleton, FS_Product
<1>5. IsFiniteSet({p \in plans : p[1] = c})
  <2>1. {p \in plans : p[1] = c} \subseteq {c} \X (1..Attempts)
    BY DEF LogTypes
  <2> QED
    BY <1>4, <2>1, FS_Subset
<1>6. IsFiniteSet({p \in submitted : p[1] = c})
  <2>1. {p \in submitted : p[1] = c} \subseteq {c} \X (1..Attempts)
    BY DEF CycleInv, RunTypes
  <2> QED
    BY <1>4, <2>1, FS_Subset
<1>7. Effects(c, k) \in Nat
  BY <1>5, <1>6, FS_CardinalityType DEF Effects, PlansOf, SubmissionsOf, LogTypes
<1> QED
  BY <1>3, <1>5, <1>6, <1>7

\* What a step may do to a run without an effect or an event.
Resting(s, v) ==
    \/ v = run[s]
    \/ v.pc \in {"idle", "exists", "build"} /\ v.attempt = 1
    \/ /\ run[s].pc \notin {"idle", "exists", "build", "return"}
       /\ v.pc \notin {"idle", "exists", "build", "return"} /\ v.cycle = run[s].cycle
       /\ \A k \in Kinds : Owes(v, k) = Owes(run[s], k)
       /\ \A a \in 1..Attempts : HasPlan(v, a) <=> HasPlan(run[s], a)

LEMMA RestKeepsLog ==
    ASSUME LogInv, UNCHANGED <<events, plans, submitted, applied>>,
           \A s \in Callers : Resting(s, run'[s])
    PROVE  LogInv'
<1>1. \A c, k : Effects(c, k)' = Effects(c, k) /\ Logged(c, k)' = Logged(c, k)
  BY DEF Effects, PlansOf, SubmissionsOf, Logged
<1>2. \A c : Completed(c)' = Completed(c)
  BY DEF Completed
<1>3. LogTypes'
  BY DEF LogInv, LogTypes
<1>4. ASSUME NEW c \in Cycles PROVE LogOK(c)'
  BY <1>1, <1>2 DEF LogInv, LogOK, LogsOrIsAboutTo
<1>5. ASSUME NEW s \in Callers PROVE FirstAttempt(s)'
  BY DEF LogInv, FirstAttempt, Resting
<1>6. ASSUME NEW s \in Callers PROVE WriterOK(s)'
  <2>1. SUFFICES ASSUME run'[s].pc \notin {"idle", "exists", "build", "return"}
        PROVE  /\ \A k \in Kinds : Effects(CycleOf(s), k)' = Logged(CycleOf(s), k)'
                                                              + Owes(run'[s], k)
               /\ \A a \in 1..Attempts : <<CycleOf(s), a>>' \in plans' <=> HasPlan(run'[s], a)
    BY DEF WriterOK, Owes, HasPlan
  <2>2. /\ run[s].pc \notin {"idle", "exists", "build", "return"}
        /\ CycleOf(s)' = CycleOf(s)
        /\ \A k \in Kinds : Owes(run'[s], k) = Owes(run[s], k)
        /\ \A a \in 1..Attempts : HasPlan(run'[s], a) <=> HasPlan(run[s], a)
    BY <2>1 DEF Resting, CycleOf
  <2>3. \A k : /\ Effects(CycleOf(s), k)' = Effects(CycleOf(s), k)
               /\ Logged(CycleOf(s), k)' = Logged(CycleOf(s), k)
    BY <2>2 DEF Effects, PlansOf, SubmissionsOf, Logged
  <2> QED
    BY <2>2, <2>3 DEF LogInv, WriterOK
<1> QED
  BY <1>3, <1>4, <1>5, <1>6 DEF LogInv

\* Same more event.
LEMMA LoggedGrows ==
    ASSUME CycleInv, LogTypes, NEW c \in Cycles, NEW type,
           events'[c] = Append(events[c], type), NEW k
    PROVE  Logged(c, k)' = Logged(c, k) + Same(type, k)
<1> DEFINE n == Len(events[c])
           S == {i \in DOMAIN events[c] : events[c][i] = k}
           T == {i \in DOMAIN events'[c] : events'[c][i] = k}
<1>1. /\ events[c] \in Seq(EventTypes) /\ n \in Nat
      /\ DOMAIN events[c] = 1..n /\ DOMAIN events'[c] = 1..(n + 1)
      /\ events'[c][n + 1] = type /\ \A i \in 1..n : events'[c][i] = events[c][i]
  BY DEF CycleInv, RunTypes
<1>2. IsFiniteSet(S) /\ n + 1 \notin S
  <2>1. IsFiniteSet(1..n)
    BY <1>1, FS_Interval
  <2> QED
    BY <1>1, <2>1, FS_Subset
<1>3. T = IF type = k THEN S \cup {n + 1} ELSE S
  BY <1>1
<1>4. Logged(c, k)' = Cardinality(T) /\ Logged(c, k) = Cardinality(S)
  BY DEF Logged
<1> HIDE DEF S, T, n
<1>5. Cardinality(S) \in Nat
  BY <1>2, FS_CardinalityType
<1>6. type = k => Cardinality(T) = Cardinality(S) + 1
  BY <1>2, <1>3, FS_AddElement
<1> QED
  BY <1>3, <1>4, <1>5, <1>6 DEF Same

\* What the writer knows of its cycle, as it writes.
LEMMA WriterKnows ==
    ASSUME CycleInv, LogInv, NEW r \in Callers, run[r].pc \notin {"idle", "exists", "return"},
           run[r].sequence = Len(events[CycleOf(r)])
    PROVE  /\ CycleOf(r) \in Cycles
           /\ \A k \in Kinds : Effects(CycleOf(r), k) = Logged(CycleOf(r), k) + Owes(run[r], k)
           /\ \A a \in 1..Attempts : <<CycleOf(r), a>> \in plans <=> HasPlan(run[r], a)
<1>1. CycleOf(r) \in Cycles
  BY DEF CycleInv, RunOK
<1>2. CASE run[r].pc # "build"
  BY <1>1, <1>2 DEF LogInv, WriterOK
<1>3. CASE run[r].pc = "build"
  <2>1. events[CycleOf(r)] = <<>>
    BY <1>1, <1>3, WriterIsAlone DEF Appended, Fresh
  <2>2. LogOK(CycleOf(r)) /\ run[r].attempt = 1
    BY <1>1, <1>3 DEF LogInv, FirstAttempt
  <2>3. ASSUME NEW k \in Kinds
        PROVE  Effects(CycleOf(r), k) = Logged(CycleOf(r), k) + Owes(run[r], k)
    <3>1. Logged(CycleOf(r), k) \in Nat
      BY <1>1, LogCounts DEF LogInv
    <3>2. Effects(CycleOf(r), k) = 0 /\ Logged(CycleOf(r), k) = 0
      BY <2>1, <2>2, <3>1 DEF LogOK, LogsOrIsAboutTo
    <3>3. Owes(run[r], k) = 0
      BY <1>3 DEF Owes, Same, OwedAt
    <3> QED
      BY <3>2, <3>3
  <2>4. ASSUME NEW a \in 1..Attempts
        PROVE  <<CycleOf(r), a>> \in plans <=> HasPlan(run[r], a)
    BY <1>3, <2>1, <2>2 DEF LogOK, HasPlan, Unplanned
  <2> QED
    BY <1>1, <2>3, <2>4
<1> QED
  BY <1>2, <1>3

\* A step of one run that leaves the rest of its cycle's state as the writer's
\* position says keeps the log in order, whether it has an effect or an event.
LEMMA WriterKeepsLog ==
    ASSUME CycleInv, LogInv, LogTypes', NEW r \in Callers, NEW c \in Cycles, CycleOf(r) = c,
           run[r].pc \notin {"idle", "exists", "return"},
           run[r].sequence = Len(events[c]),
           \A s \in Callers \ {r} : run'[s] = run[s],
           run'[r].pc \notin {"idle", "exists", "build"}, run'[r].cycle = c,
           \A d \in Cycles \ {c} :
              /\ events'[d] = events[d]
              /\ \A k : Effects(d, k)' = Effects(d, k)
              /\ \A a : <<d, a>> \in plans' <=> <<d, a>> \in plans,
           events'[c] # <<>>,
           \A k \in Kinds : /\ Logged(c, k)' \in Nat
                            /\ Effects(c, k)' = Logged(c, k)' + Owes(run'[r], k),
           Completed(c)' => run'[r].pc = "return",
           run'[r].pc # "return" =>
              \A a \in 1..Attempts : <<c, a>> \in plans' <=> HasPlan(run'[r], a)
    PROVE  LogInv'
<1>1. \A s \in Callers \ {r} : Appended(s) => CycleOf(s) # c
  BY WriterIsAlone
<1>2. \A d \in Cycles \ {c} : \A k : Logged(d, k)' = Logged(d, k)
  BY DEF Logged
<1>3. \A d \in Cycles \ {c} : Completed(d)' = Completed(d)
  BY DEF Completed
<1>4. ASSUME NEW d \in Cycles \ {c} PROVE LogOK(d)'
  BY <1>2, <1>3 DEF LogInv, LogOK, LogsOrIsAboutTo
<1>5. LogOK(c)'
  <2>1. ASSUME NEW k \in Kinds
        PROVE  LogsOrIsAboutTo(Effects(c, k)', Logged(c, k)', Completed(c)')
    <3>1. Completed(c)' => Owes(run'[r], k) = 0
      BY DEF Owes, Same, OwedAt
    <3>2. Owes(run'[r], k) \in {0, 1}
      BY DEF Owes, Same
    <3> QED
      BY <3>1, <3>2 DEF LogsOrIsAboutTo
  <2> QED
    BY <2>1 DEF LogOK, LogsOrIsAboutTo
<1>6. WriterOK(r)' /\ FirstAttempt(r)'
  <2>1. CycleOf(r)' = c
    BY DEF CycleOf
  <2>2. FirstAttempt(r)'
    BY DEF FirstAttempt
  <2>3. \A k : Effects(CycleOf(r), k)' = Effects(c, k)' /\ Logged(CycleOf(r), k)' = Logged(c, k)'
    BY <2>1 DEF Effects, PlansOf, SubmissionsOf, Logged
  <2> QED
    BY <2>1, <2>2, <2>3 DEF WriterOK, Owes, HasPlan
<1>7. ASSUME NEW s \in Callers \ {r} PROVE WriterOK(s)' /\ FirstAttempt(s)'
  <2>1. run'[s] = run[s] /\ CycleOf(s)' = CycleOf(s)
    BY DEF CycleOf
  <2>2. FirstAttempt(s)'
    BY <2>1 DEF LogInv, FirstAttempt
  <2>3. CASE run[s].pc \in {"idle", "exists", "build", "return"}
    BY <2>1, <2>2, <2>3 DEF WriterOK
  <2>4. CASE run[s].pc \notin {"idle", "exists", "build", "return"}
    <3>1. CycleOf(s) \in Cycles \ {c}
      BY <1>1, <2>4 DEF Appended, Fresh, CycleInv, RunOK
    <3>2. \A k : /\ Effects(CycleOf(s), k)' = Effects(CycleOf(s), k)
                 /\ Logged(CycleOf(s), k)' = Logged(CycleOf(s), k)
      <4>1. PICK d \in Cycles \ {c} : d = CycleOf(s)
        BY <3>1
      <4>2. \A k : Effects(CycleOf(s), k)' = Effects(d, k)' /\ Logged(CycleOf(s), k)' = Logged(d, k)'
        BY <2>1, <4>1 DEF Effects, PlansOf, SubmissionsOf, Logged
      <4> QED
        BY <1>2, <4>1, <4>2
    <3> QED
      BY <2>1, <2>2, <2>4, <3>1, <3>2 DEF LogInv, WriterOK, Owes, HasPlan
  <2> QED
    BY <2>3, <2>4
<1> QED
  BY <1>4, <1>5, <1>6, <1>7 DEF LogInv

\* An event pays what the run owes, and nothing else.
LEMMA AppendKeepsLog ==
    ASSUME CycleInv, LogInv, NEW r \in Callers,
           run[r].pc \notin {"idle", "exists", "return"},
           NEW type \in EventTypes, NEW pc \in Pcs \ Fresh, Append1(r, type, pc),
           UNCHANGED <<plans, submitted, applied>>,
           \A k \in Kinds : Same(type, k) + Same(pc, OwedAt(k)) = Same(run[r].pc, OwedAt(k)),
           pc = "return" <=> type = "COMPLETED",
           pc # "return" => (pc \in Unplanned <=> run[r].pc \in Unplanned)
    PROVE  LogInv'
<1> PICK c \in Cycles : CycleOf(r) = c
  BY DEF CycleInv, RunOK
<1>1. run[r].sequence = Len(events[c])
  BY DEF Append1
<1>2. /\ events'[c] # <<>> /\ run'[r].pc = pc /\ CycleOf(r)' = c
      /\ Completed(c)' <=> Completed(c) \/ type = "COMPLETED"
      /\ \A s \in Callers \ {r} : run'[s] = run[s]
      /\ \A d \in Cycles \ {c} : events'[d] = events[d]
      /\ events' = [events EXCEPT ![c] = Append(@, type)]
  BY LogGrows
<1>3. /\ \A k \in Kinds : Effects(c, k) = Logged(c, k) + Owes(run[r], k)
      /\ \A a \in 1..Attempts : <<c, a>> \in plans <=> HasPlan(run[r], a)
  BY <1>1, WriterKnows
<1>4. ~Completed(c)
  BY <1>1, WriterIsAlone DEF CycleInv, RunOK
<1>5. events'[c] = Append(events[c], type)
  BY <1>2 DEF CycleInv, RunTypes
<1>6. run'[r].attempt = run[r].attempt /\ run'[r].cycle = c
  <2>1. run[r] \in Runs /\ run' = [run EXCEPT ![r].sequence = @ + 1, ![r].pc = pc]
    BY DEF CycleInv, RunTypes, Append1
  <2>2. run'[r] = [pc |-> pc, cycle |-> run[r].cycle, sequence |-> run[r].sequence + 1,
                   attempt |-> run[r].attempt, observed |-> run[r].observed]
    BY <2>1 DEF CycleInv, RunTypes, Runs
  <2> QED
    BY <2>1, <2>2 DEF Runs, CycleOf
<1>7. \A d : \A k : Effects(d, k)' = Effects(d, k)
  BY DEF Effects, PlansOf, SubmissionsOf
<1>8. LogTypes'
  BY DEF LogInv, LogTypes
<1>9. ASSUME NEW k \in Kinds
      PROVE  /\ Logged(c, k)' \in Nat
             /\ Effects(c, k)' = Logged(c, k)' + Owes(run'[r], k)
  <2>1. Logged(c, k)' = Logged(c, k) + Same(type, k) /\ Logged(c, k) \in Nat
    <3>1. Logged(c, k)' = Logged(c, k) + Same(type, k)
      BY <1>5, LoggedGrows DEF LogInv
    <3>2. Logged(c, k) \in Nat
      BY LogCounts DEF LogInv
    <3> QED
      BY <3>1, <3>2
  <2>2. /\ Same(type, k) \in Nat /\ Same(pc, OwedAt(k)) \in Nat /\ Owes(run[r], k) \in Nat
        /\ Owes(run'[r], k) = Same(pc, OwedAt(k))
        /\ Owes(run[r], k) = Same(type, k) + Same(pc, OwedAt(k))
    BY <1>2 DEF Same, Owes
  <2>3. Effects(c, k)' = Logged(c, k) + Owes(run[r], k)
    BY <1>3, <1>7
  <2> HIDE DEF Same
  <2> QED
    BY <2>1, <2>2, <2>3
<1>10. ASSUME run'[r].pc # "return", NEW a \in 1..Attempts
       PROVE  <<c, a>> \in plans' <=> HasPlan(run'[r], a)
  BY <1>2, <1>3, <1>6, <1>10 DEF HasPlan
<1>11. Completed(c)' => run'[r].pc = "return"
  BY <1>2, <1>4
<1>12. run'[r].pc \notin {"idle", "exists", "build"}
  BY <1>2 DEF Fresh
<1> QED
  BY <1>1, <1>2, <1>6, <1>7, <1>8, <1>9, <1>10, <1>11, <1>12, WriterKeepsLog

\* An effect is owed until its event is written.
LEMMA EffectKeepsLog ==
    ASSUME CycleInv, LogInv, LogTypes', NEW r \in Callers, NEW c \in Cycles, CycleOf(r) = c,
           run[r].pc \notin {"idle", "exists", "build", "return"},
           \A k \in Kinds : Owes(run[r], k) = 0,
           NEW kind \in Kinds, run'[r].pc = OwedAt(kind), run'[r].cycle = run[r].cycle,
           \A s \in Callers \ {r} : run'[s] = run[s], events' = events,
           \A d \in Cycles \ {c} :
              /\ \A k : Effects(d, k)' = Effects(d, k)
              /\ \A a : <<d, a>> \in plans' <=> <<d, a>> \in plans,
           \A k \in Kinds : Effects(c, k)' = Effects(c, k) + Same(kind, k),
           \A a \in 1..Attempts : <<c, a>> \in plans' <=> HasPlan(run'[r], a)
    PROVE  LogInv'
<1>1. /\ run[r].sequence = Len(events[c]) /\ run[r].sequence > 0 /\ ~Completed(c)
      /\ events[c] # <<>>
  <2>1. Appended(r)
    BY DEF Appended, Fresh
  <2>2. run[r].sequence = Len(events[c]) /\ run[r].sequence > 0 /\ ~Completed(c)
    BY <2>1 DEF CycleInv, RunOK
  <2> QED
    BY <2>2
<1>2. \A k \in Kinds : Effects(c, k) = Logged(c, k) + Owes(run[r], k)
  BY <1>1, WriterKnows
<1>3. Completed(c)' = Completed(c) /\ \A k : Logged(c, k)' = Logged(c, k)
  BY DEF Completed, Logged
<1>4. ASSUME NEW k \in Kinds
      PROVE  /\ Logged(c, k)' \in Nat
             /\ Effects(c, k)' = Logged(c, k)' + Owes(run'[r], k)
  <2>1. Logged(c, k) \in Nat
    BY LogCounts DEF LogInv
  <2>2. Owes(run'[r], k) = Same(kind, k)
    BY DEF Owes, Same, OwedAt, Kinds
  <2>3. Effects(c, k)' = Effects(c, k) + Same(kind, k)
    OBVIOUS
  <2>4. Effects(c, k) = Logged(c, k) + 0
    BY <1>2
  <2> QED
    BY <1>3, <2>1, <2>2, <2>3, <2>4 DEF Same
<1>5. run'[r].pc \notin {"idle", "exists", "build"}
  BY DEF OwedAt
<1>6. run'[r].cycle = c
  BY DEF CycleOf
<1> QED
  BY <1>1, <1>3, <1>4, <1>5, <1>6, WriterKeepsLog

LEMMA PersistPlanLog ==
    ASSUME CycleInv, LogInv, NEW r \in Callers, PersistPlan(r)
    PROVE  LogInv'
<1>1. /\ run[r].pc = "ledger" /\ plans' = plans \cup {Key(r)}
      /\ run' = [run EXCEPT ![r].pc = "recorded"]
      /\ UNCHANGED <<events, submitted, applied>>
  BY DEF PersistPlan, At, GoTo
<1> PICK c \in Cycles : CycleOf(r) = c
  BY <1>1 DEF CycleInv, RunOK
<1>2. /\ run[r].attempt \in 1..Attempts
      /\ run'[r].pc = "recorded" /\ run'[r].cycle = run[r].cycle
      /\ run'[r].attempt = run[r].attempt
      /\ \A s \in Callers \ {r} : run'[s] = run[s]
  BY <1>1 DEF CycleInv, RunTypes, Runs
<1>3. Key(r) = <<c, run[r].attempt>>
  BY DEF Key, CycleOf
<1>4. \A a \in 1..Attempts : <<c, a>> \in plans <=> HasPlan(run[r], a)
  BY <1>1 DEF LogInv, WriterOK
<1>5. Key(r) \notin plans
  BY <1>1, <1>2, <1>3, <1>4 DEF HasPlan, Unplanned
<1>6. \A a \in 1..Attempts : <<c, a>> \in plans' <=> HasPlan(run'[r], a)
  <2> SUFFICES ASSUME NEW a \in 1..Attempts
               PROVE  <<c, a>> \in plans' <=> HasPlan(run'[r], a)
    OBVIOUS
  <2>1. <<c, a>> \in plans' <=> <<c, a>> \in plans \/ a = run[r].attempt
    BY <1>1, <1>3
  <2>2. HasPlan(run[r], a) <=> a < run[r].attempt
    BY <1>1 DEF HasPlan, Unplanned
  <2>3. HasPlan(run'[r], a) <=> a < run[r].attempt \/ a = run[r].attempt
    BY <1>2 DEF HasPlan, Unplanned
  <2> QED
    BY <1>4, <2>1, <2>2, <2>3
<1>7. PlansOf(c)' = PlansOf(c) + 1
  <2> DEFINE S == {p \in plans : p[1] = c}
             T == {p \in plans' : p[1] = c}
  <2>1. T = S \cup {Key(r)} /\ Key(r) \notin S
    BY <1>1, <1>3, <1>5
  <2>2. IsFiniteSet(S)
    BY LogCounts DEF LogInv
  <2>3. PlansOf(c) = Cardinality(S) /\ PlansOf(c)' = Cardinality(T)
    BY DEF PlansOf
  <2> HIDE DEF S, T
  <2> QED
    BY <2>1, <2>2, <2>3, FS_AddElement
<1>8. \A d \in Cycles \ {c} : /\ PlansOf(d)' = PlansOf(d)
                              /\ \A a : <<d, a>> \in plans' <=> <<d, a>> \in plans
  <2> SUFFICES ASSUME NEW d \in Cycles \ {c}
               PROVE  /\ PlansOf(d)' = PlansOf(d)
                      /\ \A a : <<d, a>> \in plans' <=> <<d, a>> \in plans
    OBVIOUS
  <2>1. {p \in plans' : p[1] = d} = {p \in plans : p[1] = d}
    BY <1>1, <1>3
  <2> QED
    BY <1>1, <1>3, <2>1 DEF PlansOf
<1>9. \A d, k : k # "AI_PLAN_RECORDED" => Effects(d, k)' = Effects(d, k)
  BY <1>1 DEF Effects, SubmissionsOf
<1>10. \A d : Effects(d, "AI_PLAN_RECORDED") = PlansOf(d)
              /\ Effects(d, "AI_PLAN_RECORDED")' = PlansOf(d)'
  BY DEF Effects
<1>11. \A k \in Kinds : Effects(c, k)' = Effects(c, k) + Same("AI_PLAN_RECORDED", k)
  <2> SUFFICES ASSUME NEW k \in Kinds
               PROVE  Effects(c, k)' = Effects(c, k) + Same("AI_PLAN_RECORDED", k)
    OBVIOUS
  <2>1. Effects(c, k) \in Nat
    BY LogCounts DEF LogInv
  <2> QED
    BY <1>7, <1>9, <1>10, <2>1 DEF Same
<1>12. LogTypes'
  BY <1>1, <1>2, <1>3 DEF LogInv, LogTypes
<1>13. \A k \in Kinds : Owes(run[r], k) = 0
  BY <1>1 DEF Owes, Same, OwedAt
<1>14. run'[r].pc = OwedAt("AI_PLAN_RECORDED") /\ "AI_PLAN_RECORDED" \in Kinds
  BY <1>2 DEF OwedAt, Kinds
<1>15. \A d \in Cycles \ {c} :
          /\ \A k : Effects(d, k)' = Effects(d, k)
          /\ \A a : <<d, a>> \in plans' <=> <<d, a>> \in plans
  BY <1>8, <1>9, <1>10
<1> QED
  BY <1>1, <1>2, <1>6, <1>11, <1>12, <1>13, <1>14, <1>15, EffectKeepsLog

LEMMA SubmitLog ==
    ASSUME CycleInv, LogInv, NEW r \in Callers, Submit(r)
    PROVE  LogInv'
<1>1. /\ run[r].pc = "submit" /\ submitted' = submitted \cup {Key(r)}
      /\ run' = [run EXCEPT ![r].pc = "accepted"]
      /\ UNCHANGED <<events, plans, applied>>
  BY DEF Submit, At, GoTo
<1> PICK c \in Cycles : CycleOf(r) = c
  BY <1>1 DEF CycleInv, RunOK
<1>2. /\ run[r].attempt \in 1..Attempts
      /\ run'[r].pc = "accepted" /\ run'[r].cycle = run[r].cycle
      /\ run'[r].attempt = run[r].attempt
      /\ \A s \in Callers \ {r} : run'[s] = run[s]
  BY <1>1 DEF CycleInv, RunTypes, Runs
<1>3. Key(r) = <<c, run[r].attempt>>
  BY DEF Key, CycleOf
<1>4. \A a \in 1..Attempts : <<c, a>> \in plans' <=> HasPlan(run'[r], a)
  BY <1>1, <1>2 DEF LogInv, WriterOK, HasPlan, Unplanned
<1>5. Key(r) \notin submitted
  <2>1. c \notin Executed
    BY <1>1 DEF CycleInv, RunOK, Appended, Fresh, Executing
  <2> QED
    BY <1>2, <1>3, <2>1 DEF Executed
<1>6. SubmissionsOf(c)' = SubmissionsOf(c) + 1
  <2> DEFINE S == {p \in submitted : p[1] = c}
             T == {p \in submitted' : p[1] = c}
  <2>1. T = S \cup {Key(r)} /\ Key(r) \notin S
    BY <1>1, <1>3, <1>5
  <2>2. IsFiniteSet(S)
    BY LogCounts DEF LogInv
  <2>3. SubmissionsOf(c) = Cardinality(S) /\ SubmissionsOf(c)' = Cardinality(T)
    BY DEF SubmissionsOf
  <2> HIDE DEF S, T
  <2> QED
    BY <2>1, <2>2, <2>3, FS_AddElement
<1>7. ASSUME NEW d \in Cycles \ {c} PROVE SubmissionsOf(d)' = SubmissionsOf(d)
  <2>1. {p \in submitted' : p[1] = d} = {p \in submitted : p[1] = d}
    BY <1>1, <1>3
  <2> QED
    BY <2>1 DEF SubmissionsOf
<1>8. \A d, k : k # "EXECUTION_SUBMITTED" => Effects(d, k)' = Effects(d, k)
  BY <1>1 DEF Effects, PlansOf
<1>9. \A d : Effects(d, "EXECUTION_SUBMITTED") = SubmissionsOf(d)
             /\ Effects(d, "EXECUTION_SUBMITTED")' = SubmissionsOf(d)'
  BY DEF Effects
<1>10. \A k \in Kinds : Effects(c, k)' = Effects(c, k) + Same("EXECUTION_SUBMITTED", k)
  <2> SUFFICES ASSUME NEW k \in Kinds
               PROVE  Effects(c, k)' = Effects(c, k) + Same("EXECUTION_SUBMITTED", k)
    OBVIOUS
  <2>1. Effects(c, k) \in Nat
    BY LogCounts DEF LogInv
  <2> QED
    BY <1>6, <1>8, <1>9, <2>1 DEF Same
<1>11. LogTypes'
  BY <1>1 DEF LogInv, LogTypes
<1>12. \A k \in Kinds : Owes(run[r], k) = 0
  BY <1>1 DEF Owes, Same, OwedAt
<1>13. run'[r].pc = OwedAt("EXECUTION_SUBMITTED") /\ "EXECUTION_SUBMITTED" \in Kinds
  BY <1>2 DEF OwedAt, Kinds
<1>14. \A d \in Cycles \ {c} :
          /\ \A k : Effects(d, k)' = Effects(d, k)
          /\ \A a : <<d, a>> \in plans' <=> <<d, a>> \in plans
  BY <1>1, <1>7, <1>8, <1>9
<1> QED
  BY <1>1, <1>2, <1>4, <1>10, <1>11, <1>12, <1>13, <1>14, EffectKeepsLog

LEMMA ObservationLog ==
    ASSUME CycleInv, LogInv, NEW r \in Callers, ProcessObservation(r)
    PROVE  LogInv'
<1>1. /\ run[r].pc = "observe" /\ applied' = [applied EXCEPT ![CycleOf(r)] = @ + 1]
      /\ run' = [run EXCEPT ![r].observed = @ + 1, ![r].pc = "observed"]
      /\ UNCHANGED <<events, plans, submitted>>
  BY DEF ProcessObservation, At
<1> PICK c \in Cycles : CycleOf(r) = c
  BY <1>1 DEF CycleInv, RunOK
<1>2. /\ run'[r].pc = "observed" /\ run'[r].cycle = run[r].cycle
      /\ run'[r].attempt = run[r].attempt
      /\ \A s \in Callers \ {r} : run'[s] = run[s]
  <2>1. /\ run \in [Callers -> Runs] /\ run[r] \in Runs
        /\ run'[r] = [run[r] EXCEPT !.observed = @ + 1, !.pc = "observed"]
        /\ \A s \in Callers \ {r} : run'[s] = run[s]
    BY <1>1 DEF CycleInv, RunTypes
  <2>2. run'[r] = [pc |-> "observed", cycle |-> run[r].cycle, sequence |-> run[r].sequence,
                   attempt |-> run[r].attempt, observed |-> run[r].observed + 1]
    BY <2>1 DEF Runs
  <2> QED
    BY <2>1, <2>2
<1>3. \A a \in 1..Attempts : <<c, a>> \in plans' <=> HasPlan(run'[r], a)
  BY <1>1, <1>2 DEF LogInv, WriterOK, HasPlan, Unplanned
<1>4. /\ applied[c] \in Nat /\ applied'[c] = applied[c] + 1
      /\ \A d \in Cycles \ {c} : applied'[d] = applied[d]
      /\ LogTypes'
  BY <1>1 DEF LogInv, LogTypes
<1>5. \A d, k : k \in {"AI_PLAN_RECORDED", "EXECUTION_SUBMITTED"} => Effects(d, k)' = Effects(d, k)
  BY <1>1 DEF Effects, PlansOf, SubmissionsOf
<1>6. \A d, k : k \notin {"AI_PLAN_RECORDED", "EXECUTION_SUBMITTED"}
                => Effects(d, k) = applied[d] /\ Effects(d, k)' = applied'[d]
  BY DEF Effects
<1>7. \A k \in Kinds : Effects(c, k)' = Effects(c, k) + Same("PAPER_OBSERVATION_APPLIED", k)
  <2> SUFFICES ASSUME NEW k \in Kinds
               PROVE  Effects(c, k)' = Effects(c, k) + Same("PAPER_OBSERVATION_APPLIED", k)
    OBVIOUS
  <2>1. Effects(c, k) \in Nat
    BY LogCounts DEF LogInv
  <2> QED
    BY <1>4, <1>5, <1>6, <2>1 DEF Same, Kinds
<1>8. \A k \in Kinds : Owes(run[r], k) = 0
  BY <1>1 DEF Owes, Same, OwedAt
<1>9. /\ run'[r].pc = OwedAt("PAPER_OBSERVATION_APPLIED")
      /\ "PAPER_OBSERVATION_APPLIED" \in Kinds
  BY <1>2 DEF OwedAt, Kinds
<1>10. \A d \in Cycles \ {c} :
          /\ \A k : Effects(d, k)' = Effects(d, k)
          /\ \A a : <<d, a>> \in plans' <=> <<d, a>> \in plans
  BY <1>1, <1>4, <1>5, <1>6
<1> QED
  BY <1>1, <1>2, <1>3, <1>4, <1>7, <1>8, <1>9, <1>10, EffectKeepsLog

-----------------------------------------------------------------------------
(* The steps of a run.                                                     *)

LEMMA EndKeepsLog ==
    ASSUME CycleInv, LogInv, NEW r \in Callers, Ended(r),
           UNCHANGED <<events, plans, submitted, applied>>
    PROVE  LogInv'
<1>1. NoRun.pc = "idle" /\ NoRun.attempt = 1
  BY DEF NoRun
<1>2. run'[r] = NoRun /\ \A s \in Callers \ {r} : run'[s] = run[s]
  BY DEF Ended, CycleInv, RunTypes
<1>3. \A s \in Callers : Resting(s, run'[s])
  BY <1>1, <1>2 DEF Resting
<1> QED
  BY <1>3, RestKeepsLog

\* A run that goes on without an effect or an event on its mind.
LEMMA PassKeepsLog ==
    ASSUME CycleInv, LogInv, NEW r \in Callers, NEW pc, GoTo(r, pc),
           UNCHANGED <<events, plans, submitted, applied>>,
           run[r].pc \notin {"idle", "exists", "build", "return", "recorded", "accepted", "observed"},
           pc \notin {"idle", "exists", "build", "return", "recorded", "accepted", "observed"},
           pc \in Unplanned <=> run[r].pc \in Unplanned
    PROVE  LogInv'
<1>1. /\ run'[r].pc = pc /\ run'[r].cycle = run[r].cycle /\ run'[r].attempt = run[r].attempt
      /\ \A s \in Callers \ {r} : run'[s] = run[s]
  BY Passes DEF CycleOf
<1>2. \A k \in Kinds : Owes(run'[r], k) = Owes(run[r], k)
  BY <1>1 DEF Owes, Same, OwedAt
<1>3. \A a \in 1..Attempts : HasPlan(run'[r], a) <=> HasPlan(run[r], a)
  BY <1>1 DEF HasPlan
<1>4. \A s \in Callers : Resting(s, run'[s])
  BY <1>1, <1>2, <1>3 DEF Resting
<1> QED
  BY <1>4, RestKeepsLog

LEMMA CycleExistsLog ==
    ASSUME CycleInv, LogInv, NEW r \in Callers, CycleExists(r)
    PROVE  LogInv'
<1>1. UNCHANGED <<events, plans, submitted, applied>> /\ run[r].pc = "exists"
  BY DEF CycleExists, storeVars, At
<1>2. CASE Ended(r)
  BY <1>1, <1>2, EndKeepsLog
<1>3. CASE GoTo(r, "build")
  <2>1. /\ run'[r].pc = "build" /\ run'[r].attempt = run[r].attempt
        /\ \A s \in Callers \ {r} : run'[s] = run[s]
    BY <1>3, Passes
  <2>2. run[r].attempt = 1
    BY <1>1 DEF LogInv, FirstAttempt
  <2>3. \A s \in Callers : Resting(s, run'[s])
    BY <2>1, <2>2 DEF Resting
  <2> QED
    BY <1>1, <2>3, RestKeepsLog
<1> QED
  BY <1>2, <1>3 DEF CycleExists

LEMMA RunCycleLog ==
    ASSUME CycleInv, LogInv, NEW r \in Callers, NEW c \in Cycles, RunCycle(r, c)
    PROVE  LogInv'
<1>1. UNCHANGED <<events, plans, submitted, applied>>
  BY DEF RunCycle, storeVars
<1>2. CASE Ended(r)
  BY <1>1, <1>2, EndKeepsLog
<1>3. CASE ~Ended(r)
  <2>1. /\ run'[r] = [NoRun EXCEPT !.pc = "exists", !.cycle = c]
        /\ \A s \in Callers \ {r} : run'[s] = run[s]
    BY <1>3 DEF RunCycle, CycleInv, RunTypes
  <2>2. run'[r] = [pc |-> "exists", cycle |-> c, sequence |-> 0, attempt |-> 1, observed |-> 0]
    BY <2>1 DEF NoRun
  <2>3. run'[r].pc = "exists" /\ run'[r].attempt = 1
    BY <2>2
  <2>4. \A s \in Callers : Resting(s, run'[s])
    BY <2>1, <2>3 DEF Resting
  <2> QED
    BY <1>1, <2>4, RestKeepsLog
<1> QED
  BY <1>2, <1>3

LEMMA NextAttemptLog ==
    ASSUME CycleInv, LogInv, NEW r \in Callers, NextAttempt(r)
    PROVE  LogInv'
<1>1. UNCHANGED <<events, plans, submitted, applied>> /\ run[r].pc = "rejected"
  BY DEF NextAttempt, storeVars, At
<1>2. CASE run[r].attempt < Attempts
  <2>1. run \in [Callers -> Runs] /\ run[r] \in Runs
    BY DEF CycleInv, RunTypes
  <2>2. /\ run'[r] = [run[r] EXCEPT !.attempt = @ + 1, !.pc = "ask"]
        /\ \A s \in Callers \ {r} : run'[s] = run[s]
    BY <1>2, <2>1 DEF NextAttempt
  <2>3. run'[r] = [pc |-> "ask", cycle |-> run[r].cycle, sequence |-> run[r].sequence,
                   attempt |-> run[r].attempt + 1, observed |-> run[r].observed]
    BY <2>1, <2>2 DEF Runs
  <2>4. /\ run'[r].pc = "ask" /\ run'[r].cycle = run[r].cycle
        /\ run'[r].attempt = run[r].attempt + 1 /\ run[r].attempt \in Nat
    BY <2>1, <2>3 DEF Runs
  <2>5. \A k \in Kinds : Owes(run'[r], k) = Owes(run[r], k)
    BY <1>1, <2>4 DEF Owes, Same, OwedAt
  <2>6. ASSUME NEW a \in 1..Attempts PROVE HasPlan(run'[r], a) <=> HasPlan(run[r], a)
    <3>1. HasPlan(run'[r], a) <=> a < run[r].attempt + 1
      BY <2>4 DEF HasPlan, Unplanned
    <3>2. HasPlan(run[r], a) <=> a < run[r].attempt \/ a = run[r].attempt
      BY <1>1 DEF HasPlan, Unplanned
    <3> QED
      BY <2>4, <3>1, <3>2
  <2>7. \A s \in Callers : Resting(s, run'[s])
    BY <1>1, <2>2, <2>4, <2>5, <2>6 DEF Resting
  <2> QED
    BY <1>1, <2>7, RestKeepsLog
<1>3. CASE ~(run[r].attempt < Attempts)
  <2>1. GoTo(r, "ValidationRejected")
    BY <1>3 DEF NextAttempt, GoTo
  <2> QED
    BY <1>1, <2>1, PassKeepsLog DEF Unplanned
<1> QED
  BY <1>2, <1>3

\* A run that waits or asks.
LEMMA ProviderStepsLog ==
    ASSUME CycleInv, LogInv, NEW r \in Callers,
           AskProvider(r) \/ ReceiveResult(r) \/ PersistEvidence(r) \/ PersistValidation(r)
    PROVE  LogInv'
<1>1. UNCHANGED <<events, plans, submitted, applied>>
  BY DEF AskProvider, ReceiveResult, PersistEvidence, PersistValidation, storeVars
<1>2. AfterEvidence(r) \in {"ledger", "no_action"}
  BY DEF AfterEvidence
<1>3. CASE AskProvider(r)
  BY <1>1, <1>3, PassKeepsLog DEF AskProvider, At, Unplanned
<1>4. CASE ReceiveResult(r)
  <2>1. run[r].pc = "asked" /\ (GoTo(r, "evidence") \/ GoTo(r, AfterEvidence(r)))
    BY <1>4 DEF ReceiveResult, At
  <2> QED
    BY <1>1, <1>2, <2>1, PassKeepsLog DEF Unplanned
<1>5. CASE PersistEvidence(r)
  <2>1. run[r].pc = "evidence" /\ (GoTo(r, AfterEvidence(r)) \/ Ended(r))
    BY <1>5 DEF PersistEvidence, At
  <2> QED
    BY <1>1, <1>2, <2>1, PassKeepsLog, EndKeepsLog DEF Unplanned
<1>6. CASE PersistValidation(r)
  BY <1>1, <1>6, PassKeepsLog DEF PersistValidation, At, Unplanned
<1> QED
  BY <1>3, <1>4, <1>5, <1>6

\* A run that writes its log.
LEMMA EventStepsLog ==
    ASSUME CycleInv, LogInv, NEW r \in Callers,
           \/ BuildContext(r) \/ ProviderNoAction(r) \/ PlanRecorded(r) \/ DecisionLogged(r)
           \/ ExecutionSubmitted(r) \/ ObservationApplied(r) \/ Complete(r)
    PROVE  LogInv'
<1> USE DEF Kinds, Same, OwedAt, Unplanned, EventTypes, Pcs, Fresh, Outcomes, At, Logs
<1>1. AfterObservation(0) \in {"observe", "Executed"}
      /\ AfterObservation(run[r].observed) \in {"observe", "Executed"}
  BY DEF AfterObservation
<1>2. CASE BuildContext(r)
  <2>1. run[r].pc = "build" /\ UNCHANGED <<plans, submitted, applied>>
    BY <1>2 DEF BuildContext
  <2>2. CASE Append1(r, "CONTEXT_REJECTED", "ContextRejected")
    BY <2>1, <2>2, AppendKeepsLog
  <2>3. CASE Append1(r, "CONTEXT_BUILT", "ask")
    BY <2>1, <2>3, AppendKeepsLog
  <2> QED
    BY <1>2, <2>2, <2>3 DEF BuildContext
<1>3. CASE ProviderNoAction(r)
  BY <1>3, AppendKeepsLog DEF ProviderNoAction
<1>4. CASE PlanRecorded(r)
  BY <1>4, AppendKeepsLog DEF PlanRecorded
<1>5. CASE DecisionLogged(r)
  <2>1. run[r].pc = "decided" /\ UNCHANGED <<plans, submitted, applied>>
    BY <1>5 DEF DecisionLogged
  <2>2. CASE \E pc \in {"Inert", "submit"} : Append1(r, "ACCEPT", pc)
    BY <2>1, <2>2, AppendKeepsLog
  <2>3. CASE Append1(r, "REJECT", "rejected")
    BY <2>1, <2>3, AppendKeepsLog
  <2> QED
    BY <1>5, <2>2, <2>3 DEF DecisionLogged
<1>6. CASE ExecutionSubmitted(r)
  <2>1. /\ run[r].pc = "accepted" /\ UNCHANGED <<plans, submitted, applied>>
        /\ Append1(r, "EXECUTION_SUBMITTED", AfterObservation(0))
    BY <1>6 DEF ExecutionSubmitted
  <2> QED
    BY <1>1, <2>1, AppendKeepsLog
<1>7. CASE ObservationApplied(r)
  <2>1. /\ run[r].pc = "observed" /\ UNCHANGED <<plans, submitted, applied>>
        /\ Append1(r, "PAPER_OBSERVATION_APPLIED", AfterObservation(run[r].observed))
    BY <1>7 DEF ObservationApplied
  <2> QED
    BY <1>1, <2>1, AppendKeepsLog
<1>8. CASE Complete(r)
  <2>1. /\ run[r].pc \in Outcomes /\ UNCHANGED <<plans, submitted, applied>>
        /\ Append1(r, "COMPLETED", "return")
    BY <1>8 DEF Complete
  <2> QED
    BY <2>1, AppendKeepsLog
<1> QED
  BY <1>2, <1>3, <1>4, <1>5, <1>6, <1>7, <1>8

LEMMA RunStepsLog ==
    ASSUME CycleInv, LogInv, NEW r \in Callers, RunStep(r) \/ StorageFails(r) \/ Cancel(r)
    PROVE  LogInv'
<1>1. CASE CycleExists(r)
  BY <1>1, CycleExistsLog
<1>2. CASE \/ BuildContext(r) \/ ProviderNoAction(r) \/ PlanRecorded(r) \/ DecisionLogged(r)
           \/ ExecutionSubmitted(r) \/ ObservationApplied(r) \/ Complete(r)
  BY <1>2, EventStepsLog
<1>3. CASE AskProvider(r) \/ ReceiveResult(r) \/ PersistEvidence(r) \/ PersistValidation(r)
  BY <1>3, ProviderStepsLog
<1>4. CASE PersistPlan(r)
  BY <1>4, PersistPlanLog
<1>5. CASE Submit(r)
  BY <1>5, SubmitLog
<1>6. CASE ProcessObservation(r)
  BY <1>6, ObservationLog
<1>7. CASE NextAttempt(r)
  BY <1>7, NextAttemptLog
<1>8. CASE Conflict(r) \/ ReturnReport(r) \/ StorageFails(r) \/ Cancel(r)
  <2>1. Ended(r) /\ UNCHANGED <<events, plans, submitted, applied>>
    BY <1>8 DEF Conflict, ReturnReport, StorageFails, Cancel, storeVars
  <2> QED
    BY <2>1, EndKeepsLog
<1> QED
  BY <1>1, <1>2, <1>3, <1>4, <1>5, <1>6, <1>7, <1>8 DEF RunStep

LEMMA NextLog ==
    ASSUME CycleInv, LogInv, [Next]_vars
    PROVE  LogInv'
<1>1. CASE UNCHANGED <<storeVars, run>>
  <2>1. UNCHANGED <<events, plans, submitted, applied>>
        /\ \A s \in Callers : Resting(s, run'[s])
    BY <1>1 DEF storeVars, Resting
  <2> QED
    BY <2>1, RestKeepsLog
<1>2. CASE \E r \in Callers, c \in Cycles : RunCycle(r, c)
  BY <1>2, RunCycleLog
<1>3. CASE \E r \in Callers : RunStep(r) \/ StorageFails(r) \/ Cancel(r)
  BY <1>3, RunStepsLog
<1>4. CASE Restart
  <2>1. /\ UNCHANGED <<events, plans, submitted, applied>>
        /\ run' = [r \in Callers |-> NoRun] /\ NoRun.pc = "idle" /\ NoRun.attempt = 1
    BY <1>4 DEF Restart, storeVars, NoRun
  <2>2. \A s \in Callers : Resting(s, run'[s])
    BY <2>1 DEF Resting
  <2> QED
    BY <2>1, <2>2, RestKeepsLog
<1> QED
  BY <1>1, <1>2, <1>3, <1>4 DEF Next, vars

LEMMA InitLog == Init => LogInv
<1> SUFFICES ASSUME Init PROVE LogInv
  OBVIOUS
<1>1. /\ events = [c \in Cycles |-> <<>>] /\ plans = {} /\ submitted = {}
      /\ applied = [c \in Cycles |-> 0] /\ run = [r \in Callers |-> NoRun]
      /\ NoRun.pc = "idle" /\ NoRun.attempt = 1
  BY DEF Init, NoRun
<1>2. LogTypes
  BY <1>1 DEF LogTypes
<1>3. \A r \in Callers : WriterOK(r) /\ FirstAttempt(r)
  BY <1>1 DEF WriterOK, FirstAttempt
<1>4. ASSUME NEW c \in Cycles PROVE LogOK(c)
  <2>1. {p \in plans : p[1] = c} = {} /\ {p \in submitted : p[1] = c} = {}
    BY <1>1
  <2>2. PlansOf(c) = 0 /\ SubmissionsOf(c) = 0 /\ applied[c] = 0
    BY <1>1, <2>1, FS_EmptySet DEF PlansOf, SubmissionsOf
  <2>3. \A k : {i \in DOMAIN events[c] : events[c][i] = k} = {}
    BY <1>1
  <2>4. \A k : Logged(c, k) = 0
    BY <2>3, FS_EmptySet DEF Logged
  <2>5. \A k \in Kinds : Effects(c, k) = 0
    BY <2>2 DEF Effects
  <2> QED
    BY <1>1, <2>4, <2>5 DEF LogOK, LogsOrIsAboutTo
<1> QED
  BY <1>2, <1>3, <1>4 DEF LogInv

\* However runs overlap, fail or are lost between an effect and its event, the log of a
\* cycle misses at most the last effect, and a completed cycle's log misses none.
THEOREM LogKeepsUp == Spec => []LogMatchesEffects
<1>1. Init => LogInv
  BY InitLog
<1>2. CycleInv /\ LogInv /\ [Next]_vars => LogInv'
  BY NextLog
<1>3. LogInv => LogMatchesEffects
  BY DEF LogInv, LogOK, LogMatchesEffects, Effects, Kinds
<1> QED
  BY <1>1, <1>2, <1>3, CycleInvariant, PTL DEF Spec

-----------------------------------------------------------------------------
(***************************************************************************)
(* The observations of a cycle.  Its writer knows how many it has applied, *)
(* and at each place how many that may be; who finds an empty log finds    *)
(* that none was.                                                          *)
(***************************************************************************)
\* What a run at v has applied of the observations it was given.
Place(v) ==
    /\ v.observed <= Observations
    /\ v.pc = "observe" => v.observed < Observations
    /\ v.pc \notin {"observe", "observed", "Executed", "return"} => v.observed = 0
Writes(v) == v.pc \notin Fresh \cup {"return"}

ObservedInv ==
    /\ applied \in [Cycles -> 0..Observations]
    /\ \A r \in Callers : /\ Place(run[r])
                          /\ Writes(run[r]) => applied[CycleOf(r)] = run[r].observed
    /\ \A c \in Cycles : events[c] = <<>> => applied[c] = 0

LEMMA NoRunPlace == Place(NoRun) /\ ~Writes(NoRun)
BY CycleAssumption DEF Place, Writes, NoRun, Fresh

\* A step of one run that applies nothing.
LEMMA PlaceStep ==
    ASSUME CycleInv, ObservedInv, NEW r \in Callers, NEW v, run' = [run EXCEPT ![r] = v],
           Place(v), Writes(v) => applied[v.cycle] = v.observed,
           applied' = applied, \A c \in Cycles : events'[c] = <<>> => events[c] = <<>>
    PROVE  ObservedInv'
<1>1. run'[r] = v /\ \A s \in Callers \ {r} : run'[s] = run[s]
  BY DEF CycleInv, RunTypes
<1>2. ASSUME NEW s \in Callers
      PROVE  /\ Place(run'[s])
             /\ Writes(run'[s]) => applied'[CycleOf(s)'] = run'[s].observed
  BY <1>1 DEF ObservedInv, CycleOf
<1>3. \A s \in Callers : /\ Place(run[s])'
                         /\ (Writes(run[s]) => applied[CycleOf(s)] = run[s].observed)'
  BY <1>2 DEF Place, Writes
<1> QED
  BY <1>3 DEF ObservedInv

LEMMA EndPlace ==
    ASSUME CycleInv, ObservedInv, NEW r \in Callers, Ended(r), UNCHANGED <<applied, events>>
    PROVE  ObservedInv'
BY NoRunPlace, PlaceStep DEF Ended

\* A writer that goes on, and a run that becomes one with the first event.
LEMMA GoesOnPlace ==
    ASSUME CycleInv, ObservedInv, NEW r \in Callers, NEW pc \in Pcs \ Fresh, applied' = applied,
           \/ GoTo(r, pc) /\ events' = events /\ Writes(run[r])
           \/ \E type \in EventTypes :
                 Append1(r, type, pc) /\ (Writes(run[r]) \/ run[r].pc = "build"),
           pc = "observe" => run[r].observed < Observations,
           pc \notin {"observe", "observed", "Executed", "return"} => run[r].observed = 0
    PROVE  ObservedInv'
<1>1. /\ run \in [Callers -> Runs] /\ run[r] \in Runs /\ events \in [Cycles -> Seq(EventTypes)]
      /\ CycleOf(r) \in Cycles
  BY DEF CycleInv, RunTypes, RunOK, Writes, Fresh
<1>2. run[r].observed <= Observations /\ (Writes(run[r]) => applied[CycleOf(r)] = run[r].observed)
  BY DEF ObservedInv, Place
<1>3. CASE GoTo(r, pc) /\ events' = events /\ Writes(run[r])
  <2> DEFINE v == [run[r] EXCEPT !.pc = pc]
  <2>1. v.pc = pc /\ v.cycle = CycleOf(r) /\ v.observed = run[r].observed
    BY <1>1 DEF Runs, CycleOf
  <2>2. run' = [run EXCEPT ![r] = v]
    BY <1>1, <1>3 DEF GoTo
  <2> HIDE DEF v
  <2>3. Place(v) /\ applied[v.cycle] = v.observed
    BY <1>2, <1>3, <2>1 DEF Place
  <2> QED
    BY <1>3, <2>2, <2>3, PlaceStep
<1>4. ASSUME NEW type \in EventTypes, Append1(r, type, pc), Writes(run[r]) \/ run[r].pc = "build"
      PROVE  ObservedInv'
  <2> DEFINE v == [run[r] EXCEPT !.sequence = @ + 1, !.pc = pc]
  <2>1. v.pc = pc /\ v.cycle = CycleOf(r) /\ v.observed = run[r].observed
    BY <1>1 DEF Runs, CycleOf
  <2>2. run' = [run EXCEPT ![r] = v]
    BY <1>1, <1>4 DEF Append1
  <2>3. run[r].pc = "build" => events[CycleOf(r)] = <<>>
    BY <1>1, <1>4 DEF Append1, CycleInv, RunOK, Appended, Fresh
  <2>4. applied[CycleOf(r)] = run[r].observed
    BY <1>1, <1>2, <1>4, <2>3 DEF ObservedInv, Place
  <2>5. \A c \in Cycles : events'[c] = <<>> => events[c] = <<>>
    BY <1>1, <1>4 DEF Append1
  <2> HIDE DEF v
  <2>6. Place(v) /\ applied[v.cycle] = v.observed
    BY <1>2, <2>1, <2>4 DEF Place
  <2> QED
    BY <2>2, <2>5, <2>6, PlaceStep
<1> QED
  BY <1>3, <1>4

LEMMA ProcessObservationPlace ==
    ASSUME CycleInv, ObservedInv, NEW r \in Callers, ProcessObservation(r)
    PROVE  ObservedInv'
<1>1. /\ run[r].pc = "observe" /\ applied' = [applied EXCEPT ![CycleOf(r)] = @ + 1]
      /\ run' = [run EXCEPT ![r].observed = @ + 1, ![r].pc = "observed"] /\ events' = events
  BY DEF ProcessObservation, At
<1> PICK c \in Cycles : CycleOf(r) = c
  BY <1>1 DEF CycleInv, RunOK
<1>2. /\ run \in [Callers -> Runs] /\ run[r] \in Runs
      /\ run'[r] = [run[r] EXCEPT !.observed = @ + 1, !.pc = "observed"]
      /\ \A s \in Callers \ {r} : run'[s] = run[s]
  BY <1>1 DEF CycleInv, RunTypes
<1>3. /\ run'[r].pc = "observed" /\ CycleOf(r)' = c
      /\ run'[r].observed = run[r].observed + 1
  BY <1>2 DEF Runs, CycleOf
<1>4. /\ applied[c] = run[r].observed /\ run[r].observed < Observations
      /\ run[r].observed \in Nat /\ Observations \in Nat
  BY <1>1, <1>2, CycleAssumption DEF ObservedInv, Place, Writes, Fresh, Runs
<1>5. /\ applied'[c] = applied[c] + 1 /\ \A d \in Cycles \ {c} : applied'[d] = applied[d]
      /\ applied' \in [Cycles -> 0..Observations]
  BY <1>1, <1>4 DEF ObservedInv
<1>6. Place(run[r])' /\ (applied[CycleOf(r)] = run[r].observed)'
  BY <1>3, <1>4, <1>5 DEF Place
\* No other run of the cycle has written to its log.
<1>7. \A s \in Callers \ {r} : Writes(run[s]) => CycleOf(s) \in Cycles \ {c}
  BY <1>1 DEF CycleInv, OneWriter, RunOK, Appended, Writes, Fresh
<1>8. ASSUME NEW s \in Callers \ {r}
      PROVE  /\ Place(run[s])'
             /\ (Writes(run[s]) => applied[CycleOf(s)] = run[s].observed)'
  BY <1>2, <1>5, <1>7 DEF ObservedInv, Place, Writes, CycleOf
<1>9. events[c] # <<>>
  BY <1>1 DEF CycleInv, RunOK, Appended, Fresh
<1>10. \A d \in Cycles : events'[d] = <<>> => applied'[d] = 0
  BY <1>1, <1>5, <1>9 DEF ObservedInv
<1> QED
  BY <1>5, <1>6, <1>8, <1>10 DEF ObservedInv

LEMMA RunObserved ==
    ASSUME CycleInv, ObservedInv, NEW r \in Callers, RunStep(r) \/ StorageFails(r) \/ Cancel(r)
    PROVE  ObservedInv'
<1> DEFINE Early == {"build", "ask", "asked", "evidence", "no_action", "ledger", "recorded",
                     "validate", "decided", "rejected", "submit", "accepted"}
<1>0. /\ run \in [Callers -> Runs] /\ run[r] \in Runs /\ run[r].observed \in Nat
      /\ run[r].observed <= Observations /\ Observations \in Nat
      /\ run[r].pc \in Early \cup Fresh => run[r].observed = 0
  BY CycleAssumption DEF CycleInv, RunTypes, Runs, ObservedInv, Place, Fresh
<1>1. CASE CycleExists(r)
  <2>1. run[r].pc = "exists" /\ UNCHANGED <<applied, events>>
    BY <1>1 DEF CycleExists, At, storeVars
  <2>2. CASE GoTo(r, "build")
    <3> DEFINE v == [run[r] EXCEPT !.pc = "build"]
    <3>1. run' = [run EXCEPT ![r] = v]
      BY <1>0, <2>2 DEF GoTo
    <3>2. v.pc = "build" /\ v.observed = 0
      BY <1>0, <2>1 DEF Runs, Fresh
    <3> HIDE DEF v
    <3>3. Place(v) /\ ~Writes(v)
      BY <1>0, <3>2 DEF Place, Writes, Fresh
    <3> QED
      BY <2>1, <3>1, <3>3, PlaceStep
  <2> QED
    BY <1>1, <2>1, <2>2, EndPlace DEF CycleExists
<1>2. CASE Conflict(r) \/ ReturnReport(r) \/ StorageFails(r) \/ Cancel(r)
  BY <1>2, EndPlace DEF Conflict, ReturnReport, StorageFails, Cancel, storeVars
<1>3. CASE \/ BuildContext(r) \/ ProviderNoAction(r) \/ PlanRecorded(r) \/ DecisionLogged(r)
  <2>1. run[r].pc \in Early /\ applied' = applied
    BY <1>3 DEF BuildContext, ProviderNoAction, PlanRecorded, DecisionLogged, At, Logs
  <2>2. PICK pc \in {"ContextRejected", "ask", "ProviderNoAction", "validate", "Inert", "submit",
                     "rejected"} : \E type \in EventTypes : Append1(r, type, pc)
    BY <1>3 DEF BuildContext, ProviderNoAction, PlanRecorded, DecisionLogged, Logs, EventTypes
  <2>3. pc \in Pcs \ Fresh /\ pc # "observe"
    BY <2>2 DEF Pcs, Outcomes, Fresh
  <2>4. Writes(run[r]) \/ run[r].pc = "build"
    BY <2>1 DEF Writes, Fresh
  <2> QED
    BY <1>0, <2>1, <2>2, <2>3, <2>4, GoesOnPlace
<1>4. CASE AskProvider(r) \/ ReceiveResult(r) \/ PersistPlan(r) \/ PersistValidation(r) \/ Submit(r)
  <2>1. run[r].pc \in Early \ {"build"} /\ UNCHANGED <<applied, events>>
    BY <1>4 DEF AskProvider, ReceiveResult, PersistPlan, PersistValidation, Submit, At, storeVars
  <2>2. PICK pc \in {"asked", "evidence", "ledger", "no_action", "recorded", "decided",
                     "accepted"} : GoTo(r, pc)
    BY <1>4 DEF AskProvider, ReceiveResult, PersistPlan, PersistValidation, Submit, AfterEvidence
  <2>3. pc \in Pcs \ Fresh /\ pc # "observe" /\ Writes(run[r])
    BY <2>1, <2>2 DEF Pcs, Outcomes, Fresh, Writes
  <2> QED
    BY <1>0, <2>1, <2>2, <2>3, GoesOnPlace
<1>5. CASE PersistEvidence(r)
  <2>1. run[r].pc = "evidence" /\ UNCHANGED <<applied, events>> /\ Writes(run[r])
    BY <1>5 DEF PersistEvidence, At, Writes, Fresh
  <2>2. Ended(r) \/ GoTo(r, "ledger") \/ GoTo(r, "no_action")
    BY <1>5 DEF PersistEvidence, AfterEvidence
  <2>3. {"ledger", "no_action"} \subseteq Pcs \ Fresh
    BY DEF Pcs, Fresh
  <2> QED
    BY <1>0, <2>1, <2>2, <2>3, GoesOnPlace, EndPlace
<1>6. CASE NextAttempt(r)
  <2>1. /\ run[r].pc = "rejected" /\ UNCHANGED <<applied, events>>
        /\ \/ run' = [run EXCEPT ![r].attempt = @ + 1, ![r].pc = "ask"]
           \/ run' = [run EXCEPT ![r].pc = "ValidationRejected"]
    BY <1>6 DEF NextAttempt, At, storeVars
  <2>2. applied[run[r].cycle] = 0 /\ run[r].observed = 0
    BY <1>0, <2>1 DEF ObservedInv, Writes, Fresh, CycleOf
  <2>3. CASE run' = [run EXCEPT ![r].attempt = @ + 1, ![r].pc = "ask"]
    <3> DEFINE v == [run[r] EXCEPT !.attempt = @ + 1, !.pc = "ask"]
    <3>1. run' = [run EXCEPT ![r] = v]
      BY <1>0, <2>3
    <3>2. v.pc = "ask" /\ v.observed = 0 /\ v.cycle = run[r].cycle
      BY <1>0, <2>2 DEF Runs
    <3> HIDE DEF v
    <3>3. Place(v) /\ applied[v.cycle] = v.observed
      BY <1>0, <2>2, <3>2 DEF Place
    <3> QED
      BY <2>1, <3>1, <3>3, PlaceStep
  <2>4. CASE run' = [run EXCEPT ![r].pc = "ValidationRejected"]
    <3>1. "ValidationRejected" \in Pcs \ Fresh /\ Writes(run[r])
      BY <2>1 DEF Pcs, Outcomes, Fresh, Writes
    <3> QED
      BY <1>0, <2>1, <2>2, <2>4, <3>1, GoesOnPlace DEF GoTo
  <2> QED
    BY <2>1, <2>3, <2>4
<1>7. CASE ExecutionSubmitted(r) \/ ObservationApplied(r)
  <2>1. applied' = applied /\ run[r].pc \in {"accepted", "observed"}
    BY <1>7 DEF ExecutionSubmitted, ObservationApplied, Logs, At
  <2>2. PICK type \in EventTypes : Append1(r, type, AfterObservation(run[r].observed))
    BY <1>0, <1>7, <2>1 DEF ExecutionSubmitted, ObservationApplied, Logs, EventTypes, At
  <2>3. AfterObservation(run[r].observed) = IF run[r].observed < Observations
                                            THEN "observe" ELSE "Executed"
    BY DEF AfterObservation
  <2>4. {"observe", "Executed"} \subseteq Pcs \ Fresh /\ Writes(run[r])
    BY <2>1 DEF Pcs, Outcomes, Fresh, Writes
  <2> QED
    BY <1>0, <2>1, <2>2, <2>3, <2>4, GoesOnPlace
<1>8. CASE ProcessObservation(r)
  BY <1>8, ProcessObservationPlace
<1>9. CASE Complete(r)
  <2>1. run[r].pc \in Outcomes /\ applied' = applied /\ Append1(r, "COMPLETED", "return")
    BY <1>9 DEF Complete
  <2>2. "return" \in Pcs \ Fresh /\ Writes(run[r]) /\ "COMPLETED" \in EventTypes
    BY <2>1 DEF Pcs, Outcomes, Fresh, Writes, EventTypes
  <2> QED
    BY <2>1, <2>2, GoesOnPlace
<1> QED
  BY <1>1, <1>2, <1>3, <1>4, <1>5, <1>6, <1>7, <1>8, <1>9 DEF RunStep

LEMMA NextObserved ==
    ASSUME CycleInv, ObservedInv, [Next]_vars
    PROVE  ObservedInv'
<1>1. CASE UNCHANGED <<storeVars, run>>
  BY <1>1 DEF storeVars, ObservedInv, Place, Writes, CycleOf
<1>2. CASE \E r \in Callers, c \in Cycles : RunCycle(r, c)
  <2>1. PICK r \in Callers, c \in Cycles : RunCycle(r, c)
    BY <1>2
  <2> DEFINE v == [NoRun EXCEPT !.pc = "exists", !.cycle = c]
  <2>2. UNCHANGED <<applied, events>> /\ (Ended(r) \/ run' = [run EXCEPT ![r] = v])
    BY <2>1 DEF RunCycle, storeVars
  <2>3. v.pc = "exists" /\ v.observed = 0
    BY DEF NoRun
  <2> HIDE DEF v
  <2>4. Place(v) /\ ~Writes(v)
    BY <2>3, CycleAssumption DEF Place, Writes, Fresh
  <2> QED
    BY <2>2, <2>4, EndPlace, PlaceStep
<1>3. CASE \E r \in Callers : RunStep(r) \/ StorageFails(r) \/ Cancel(r)
  BY <1>3, RunObserved
<1>4. CASE Restart
  <2>1. run' = [r \in Callers |-> NoRun] /\ UNCHANGED <<applied, events>>
    BY <1>4 DEF Restart, storeVars
  <2>2. \A r \in Callers : Place(run'[r]) /\ ~Writes(run'[r])
    BY <2>1, NoRunPlace
  <2>3. \A r \in Callers : /\ Place(run[r])'
                           /\ (Writes(run[r]) => applied[CycleOf(r)] = run[r].observed)'
    BY <2>2 DEF Place, Writes
  <2> QED
    BY <2>1, <2>3 DEF ObservedInv
<1> QED
  BY <1>1, <1>2, <1>3, <1>4 DEF Next, vars

-----------------------------------------------------------------------------
(* Types: the days of the provider's clock, and the rows of the store.     *)

ClockTypes ==
    /\ today \in 1..MaxDay
    /\ expired \subseteq Contexts /\ replanned \subseteq Contexts
    /\ budget.day \in 0..MaxDay
    /\ \A c \in Callers : call[c].day \in 0..MaxDay

RowTypes ==
    /\ replanRows \subseteq Contexts
    /\ decisions \subseteq Cycles \X (1..Attempts) \X {"ACCEPT", "REJECT"}

TypeInv == ClockTypes /\ RowTypes

LEMMA IdleDay == Idle.day = 0 /\ 0 \in 0..MaxDay
BY DayAssumption DEF Idle

\* Every new day of a call is none or today, every new day of the budget that of a call,
\* today or none.
LEMMA ProviderClock ==
    ASSUME CallTypes, budget \in Budgets, ClockTypes, ProviderStep
    PROVE  ClockTypes'
<1>1. call \in [Callers -> CallRecords]
  BY DEF CallTypes
<1>2. today \in 0..MaxDay /\ 0 \in 0..MaxDay
  BY DayAssumption DEF ClockTypes
<1>3. \A c \in Callers : call[c].day \in 0..MaxDay
  BY Zenon DEF ClockTypes
<1>4. ASSUME NEW day \in 0..MaxDay PROVE AfterReset(day).day \in 0..MaxDay
  BY <1>4 DEF AfterReset, FreshBudget, ClockTypes
<1>5. ASSUME NEW c \in Callers, NEW result, Return(c, result)
      PROVE  \A d \in Callers : call'[d].day \in 0..MaxDay
  <2>1. \A d \in Callers : call'[d].day = IF d = c THEN 0 ELSE call[d].day
    BY <1>1, <1>5 DEF Return, CallRecords
  <2> QED
    BY <1>2, <1>3, <2>1
<1>6. CASE Midnight
  BY <1>6, DayAssumption DEF Midnight, ClockTypes
<1>7. CASE BudgetSnapshot
  BY <1>2, <1>4, <1>7 DEF BudgetSnapshot, ClockTypes
<1>8. CASE \E x \in Contexts : Expire(x)
  BY <1>8 DEF Expire, ClockTypes
<1>9. ASSUME NEW c \in Callers, RefusePrompt(c) \/ ConcurrencyExhausted(c)
      PROVE  ClockTypes'
  <2>1. Return(c, Failure) /\ UNCHANGED <<today, expired, budget, replanned>>
    BY <1>9 DEF RefusePrompt, ConcurrencyExhausted
  <2> QED
    BY <1>5, <2>1 DEF ClockTypes
<1>10. ASSUME NEW c \in Callers, StampRequest(c) PROVE ClockTypes'
  <2>1. UNCHANGED <<today, expired, budget, replanned>>
    BY <1>10 DEF StampRequest
  <2>2. CASE call' = [call EXCEPT ![c].pc = "stamped", ![c].day = today]
    <3>1. \A d \in Callers : call'[d].day = IF d = c THEN today ELSE call[d].day
      BY <1>1, <2>2 DEF CallRecords
    <3> QED
      BY <1>2, <1>3, <2>1, <3>1 DEF ClockTypes
  <2> QED
    BY <1>5, <1>10, <2>1, <2>2 DEF StampRequest, ClockTypes
<1>11. ASSUME NEW c \in Callers, RefuseBudget(c) PROVE ClockTypes'
  <2>1. /\ Return(c, Failure) /\ UNCHANGED <<today, expired, replanned>>
        /\ budget' = AfterReset(call[c].day)
    BY <1>11 DEF RefuseBudget
  <2>2. budget'.day \in 0..MaxDay
    BY <1>3, <1>4, <2>1
  <2> QED
    BY <1>5, <2>1, <2>2 DEF ClockTypes
<1>12. ASSUME NEW c \in Callers, SendRequest(c) PROVE ClockTypes'
  <2>1. /\ UNCHANGED <<today, expired, replanned>>
        /\ budget' = Reserved(AfterReset(call[c].day))
        /\ call' = [call EXCEPT ![c].pc = "waiting"]
    BY <1>12 DEF SendRequest
  <2>2. AfterReset(call[c].day) \in Budgets
    BY <1>1 DEF AfterReset, FreshBudget, Budgets, CallRecords
  <2>3. budget'.day = AfterReset(call[c].day).day
    BY <2>1, <2>2 DEF Reserved, Budgets
  <2>4. \A d \in Callers : call'[d].day = call[d].day
    BY <1>1, <2>1 DEF CallRecords
  <2> QED
    BY <1>3, <1>4, <2>1, <2>3, <2>4 DEF ClockTypes
<1>13. ASSUME NEW c \in Callers, RequestFails(c) \/ UsageBeyondReservation(c) \/ AnswerArrives(c)
       PROVE  ClockTypes'
  <2>1. (\E result : Return(c, result)) /\ UNCHANGED <<today, expired, replanned>>
    BY <1>13, Zenon
       DEF RequestFails, UsageBeyondReservation, AnswerArrives, Answered, ResponseTooLarge,
           NotUtf8, ContradictoryUsage, NoResponse, ErrorResponse, WrongModelOrChoices,
           NoPlanInside, PlanArrives
  <2>2. budget' = ReleaseReservation \/ \E u \in Reports : budget' = FinalizeReservation(u)
    BY <1>13, Zenon DEF RequestFails, UsageBeyondReservation, AnswerArrives
  <2>3. \A x, y : [budget EXCEPT !.tokens = x, !.cost = y].day = budget.day
    BY DEF Budgets
  <2>4. \E x, y : budget' = [budget EXCEPT !.tokens = x, !.cost = y]
    <3>1. CASE budget' = ReleaseReservation
      <4> DEFINE x == SaturatingSub(budget.tokens, Bound.tokens)
                 y == budget.cost - Bound.cost
      <4>1. budget' = [budget EXCEPT !.tokens = x, !.cost = y]
        BY <3>1 DEF ReleaseReservation
      <4> HIDE DEF x, y
      <4> QED
        BY <4>1, Zenon
    <3>2. ASSUME NEW u \in Reports, budget' = FinalizeReservation(u)
          PROVE  \E x, y : budget' = [budget EXCEPT !.tokens = x, !.cost = y]
      <4> DEFINE x == SaturatingSub(budget.tokens, Bound.tokens) + u.total
                 y == budget.cost - Bound.cost + Cost(u)
      <4>1. budget' = [budget EXCEPT !.tokens = x, !.cost = y]
        BY <3>2 DEF FinalizeReservation
      <4> HIDE DEF x, y
      <4> QED
        BY <4>1, Zenon
    <3> QED
      BY <2>2, <3>1, <3>2, Zenon
  <2> QED
    BY <1>5, <2>1, <2>3, <2>4 DEF ClockTypes
<1> QED
  BY <1>6, <1>7, <1>8, <1>9, <1>10, <1>11, <1>12, <1>13 DEF ProviderStep

\* A run forgets a call, or makes one for the Context of its cycle.
LEMMA RunClock ==
    ASSUME CycleInv, CallTypes, ClockTypes, NEW r \in Callers,
           RunStep(r) \/ StorageFails(r) \/ Cancel(r)
    PROVE  ClockTypes'
<1>1. call \in [Callers -> CallRecords]
  BY DEF CallTypes
<1>2. ASSUME UNCHANGED <<today, expired, budget, replanned>>,
             call' = call \/ call' = [call EXCEPT ![r] = Idle]
      PROVE  ClockTypes'
  <2>1. \A d \in Callers : call'[d].day = call[d].day \/ call'[d].day = 0
    BY <1>1, <1>2, IdleDay
  <2> QED
    BY <1>2, <2>1, IdleDay DEF ClockTypes
<1>3. CASE AskProvider(r)
  <2>1. CycleOf(r) \in Cycles
    BY <1>3 DEF AskProvider, At, CycleInv, RunOK
  <2>2. ContextOf[CycleOf(r)] \in Contexts
    BY <2>1, CycleAssumption
  <2>3. /\ UNCHANGED <<today, expired, budget>>
        /\ replanned' \subseteq replanned \cup {ContextOf[CycleOf(r)]}
    BY <1>3 DEF AskProvider, GeneratePlan
  <2>4. \A d \in Callers : call'[d].day = call[d].day \/ call'[d].day = 0
    BY <1>1, <1>3 DEF AskProvider, GeneratePlan, Idle
  <2> QED
    BY <2>2, <2>3, <2>4, IdleDay DEF ClockTypes
<1>4. CASE ReceiveResult(r) \/ PersistEvidence(r) \/ StorageFails(r) \/ Cancel(r)
  BY <1>2, <1>4 DEF ReceiveResult, PersistEvidence, StorageFails, Cancel, DropCall
<1>5. CASE \/ CycleExists(r) \/ Conflict(r) \/ BuildContext(r) \/ ProviderNoAction(r)
           \/ PersistPlan(r) \/ PlanRecorded(r) \/ PersistValidation(r) \/ DecisionLogged(r)
           \/ NextAttempt(r) \/ Submit(r) \/ ExecutionSubmitted(r) \/ ProcessObservation(r)
           \/ ObservationApplied(r) \/ Complete(r) \/ ReturnReport(r)
  <2>1. UNCHANGED providerVars
    BY <1>5 DEF CycleExists, Conflict, BuildContext, ProviderNoAction, PersistPlan,
                PlanRecorded, PersistValidation, DecisionLogged, NextAttempt, Submit,
                ExecutionSubmitted, ProcessObservation, ObservationApplied, Complete,
                ReturnReport, Logs
  <2> QED
    BY <1>2, <2>1 DEF providerVars
<1> QED
  BY <1>3, <1>4, <1>5 DEF RunStep

LEMMA RunRows ==
    ASSUME CycleInv, ReplanInv, RowTypes, NEW r \in Callers,
           RunStep(r) \/ StorageFails(r) \/ Cancel(r)
    PROVE  RowTypes'
<1>1. CASE PersistEvidence(r)
  <2>1. run[r].pc = "evidence" /\ decisions' = decisions
        /\ replanRows' \subseteq replanRows \cup {call[r].context}
    BY <1>1 DEF PersistEvidence, At
  <2>2. CycleOf(r) \in Cycles /\ call[r].context = ContextOf[CycleOf(r)]
    BY <2>1 DEF CycleInv, RunOK, ReplanInv, AttemptOK
  <2> QED
    BY <2>1, <2>2, CycleAssumption DEF RowTypes
<1>2. CASE PersistValidation(r)
  <2>1. /\ run[r].pc = "validate" /\ replanRows' = replanRows
        /\ \E outcome \in {"ACCEPT", "REJECT"} :
              decisions' = decisions \cup {<<CycleOf(r), run[r].attempt, outcome>>}
    BY <1>2 DEF PersistValidation, At
  <2>2. CycleOf(r) \in Cycles /\ run[r].attempt \in 1..Attempts
    BY <2>1 DEF CycleInv, RunOK, RunTypes, Runs
  <2> QED
    BY <2>1, <2>2 DEF RowTypes
<1>3. CASE \/ CycleExists(r) \/ Conflict(r) \/ BuildContext(r) \/ AskProvider(r)
           \/ ReceiveResult(r) \/ ProviderNoAction(r) \/ PersistPlan(r) \/ PlanRecorded(r)
           \/ DecisionLogged(r) \/ NextAttempt(r) \/ Submit(r) \/ ExecutionSubmitted(r)
           \/ ProcessObservation(r) \/ ObservationApplied(r) \/ Complete(r) \/ ReturnReport(r)
           \/ StorageFails(r) \/ Cancel(r)
  <2>1. UNCHANGED <<replanRows, decisions>>
    BY <1>3 DEF CycleExists, Conflict, BuildContext, AskProvider, ReceiveResult,
                ProviderNoAction, PersistPlan, PlanRecorded, DecisionLogged, NextAttempt, Submit,
                ExecutionSubmitted, ProcessObservation, ObservationApplied, Complete,
                ReturnReport, StorageFails, Cancel, Logs, storeVars
  <2> QED
    BY <2>1 DEF RowTypes
<1> QED
  BY <1>1, <1>2, <1>3 DEF RunStep

LEMMA NextTypes ==
    ASSUME CycleInv, ReplanInv, BudgetInv, TypeInv, [Next]_vars
    PROVE  TypeInv'
<1>1. CallTypes /\ budget \in Budgets /\ ClockTypes /\ RowTypes
  BY DEF ReplanInv, BudgetInv, TypeInv
<1>2. CASE ProviderStep /\ UNCHANGED <<storeVars, run>>
  BY <1>1, <1>2, ProviderClock DEF TypeInv, RowTypes, storeVars
<1>3. CASE \E r \in Callers, c \in Cycles : RunCycle(r, c)
  <2>1. UNCHANGED <<providerVars, storeVars>>
    BY <1>3 DEF RunCycle
  <2> QED
    BY <1>1, <2>1 DEF TypeInv, ClockTypes, RowTypes, providerVars, storeVars
<1>4. CASE \E r \in Callers : RunStep(r) \/ StorageFails(r) \/ Cancel(r)
  BY <1>1, <1>4, RunClock, RunRows DEF TypeInv
<1>5. CASE Restart
  <2>1. /\ UNCHANGED <<today, expired, replanRows, decisions>> /\ replanned' = {}
        /\ budget' = FreshBudget(0) /\ call' = [c \in Callers |-> Idle]
    BY <1>5 DEF Restart, ProviderRestart, storeVars
  <2>2. budget'.day = 0 /\ \A c \in Callers : call'[c].day = 0
    BY <2>1, IdleDay DEF FreshBudget
  <2> QED
    BY <1>1, <2>1, <2>2, IdleDay DEF TypeInv, ClockTypes, RowTypes
<1>6. CASE UNCHANGED vars
  BY <1>1, <1>6 DEF TypeInv, ClockTypes, RowTypes, vars, providerVars, storeVars
<1> QED
  BY <1>2, <1>3, <1>4, <1>5, <1>6 DEF Next

LEMMA InitTypes == Init => ObservedInv /\ TypeInv
<1> SUFFICES ASSUME Init PROVE ObservedInv /\ TypeInv
  OBVIOUS
<1>1. /\ today = 1 /\ expired = {} /\ replanned = {} /\ budget = FreshBudget(0)
      /\ call = [c \in Callers |-> Idle] /\ replanRows = {} /\ decisions = {}
      /\ applied = [c \in Cycles |-> 0] /\ run = [r \in Callers |-> NoRun]
  BY DEF Init, ProviderInit
<1>2. ObservedInv
  BY <1>1, NoRunPlace, CycleAssumption DEF ObservedInv
<1>3. budget.day = 0 /\ \A c \in Callers : call[c].day = 0
  BY <1>1, IdleDay DEF FreshBudget
<1> QED
  BY <1>1, <1>2, <1>3, IdleDay, DayAssumption DEF TypeInv, ClockTypes, RowTypes

\* A cycle applies no more observations than it was given, and no fewer than its writer
\* counts, however runs of it overlap or are lost: the log gives each one a single writer.
THEOREM ObservationsInvariant == Spec => []ObservedInv
<1>1. Init => ObservedInv
  BY InitTypes
<1>2. CycleInv /\ ObservedInv /\ [Next]_vars => ObservedInv'
  BY NextObserved
<1> QED
  BY <1>1, <1>2, CycleInvariant, PTL DEF Spec

\* Rows, the provider's records and the local variables of run_cycle stay in their types,
\* with the bounds on days, attempts and observations.
THEOREM RuntimeTypes == Spec => []TypeOK
<1>1. Init => TypeInv /\ BudgetInv /\ LogInv
  BY InitTypes, InitBudget, InitLog
<1>2. CycleInv /\ ReplanInv /\ BudgetInv /\ LogInv /\ TypeInv /\ [Next]_vars
      => TypeInv' /\ BudgetInv' /\ LogInv'
  BY NextTypes, NextBudget, NextLog DEF ReplanInv
<1>3. CycleInv /\ ReplanInv /\ BudgetInv /\ LogInv /\ TypeInv /\ ObservedInv => TypeOK
  <2> SUFFICES ASSUME CycleInv, ReplanInv, BudgetInv, LogInv, TypeInv, ObservedInv PROVE TypeOK
    OBVIOUS
  <2>1. budget \in [day : 0..MaxDay, calls : Nat, tokens : Nat, cost : Int]
    BY DEF BudgetInv, Budgets, TypeInv, ClockTypes
  <2>2. call \in [Callers -> Calls]
    <3> SUFFICES ASSUME NEW c \in Callers PROVE call[c] \in Calls
      BY DEF ReplanInv, CallTypes
    <3>1. call[c] \in CallRecords /\ call[c].day \in 0..MaxDay
      BY DEF ReplanInv, CallTypes, TypeInv, ClockTypes
    <3> QED
      BY <3>1 DEF Calls, CallRecords, Answers
  <2>3. run \in [Callers -> [pc : Pcs, cycle : Cycles \cup {NoCycle}, sequence : Nat,
                             attempt : 1..Attempts, observed : 0..Observations]]
    <3> SUFFICES ASSUME NEW r \in Callers
                 PROVE  run[r] \in [pc : Pcs, cycle : Cycles \cup {NoCycle}, sequence : Nat,
                                    attempt : 1..Attempts, observed : 0..Observations]
      BY DEF CycleInv, RunTypes
    <3>1. run[r] \in Runs /\ run[r].observed <= Observations
      BY DEF CycleInv, RunTypes, ObservedInv, Place
    <3>2. run[r].observed \in 0..Observations
      BY <3>1, CycleAssumption DEF Runs
    <3> QED
      BY <3>1, <3>2 DEF Runs
  <2>4. ProviderTypeOK
    BY <2>1, <2>2 DEF ProviderTypeOK, TypeInv, ClockTypes, BudgetInv, PermitHolderWaits, Bills
  <2> QED
    BY <2>3, <2>4 DEF TypeOK, CycleInv, RunTypes, TypeInv, RowTypes, LogInv, LogTypes, ObservedInv
<1> QED
  BY <1>1, <1>2, <1>3, CycleInvariant, ReplanInvariant, ObservationsInvariant, PTL DEF Spec
=============================================================================
