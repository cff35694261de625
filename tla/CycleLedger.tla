---------------------------- MODULE CycleLedger -----------------------------
(* What a paper runtime cycle promises whoever triggers it: it is opened at   *)
(* most once, executes at most one plan, only while it is open, and once it   *)
(* is closed its outcome stands.                                              *)
CONSTANT Cycles

VARIABLES
    status,    \* of each cycle: "new", "open" or "closed"
    executed,  \* the cycles whose plan was submitted
    outcome    \* of each cycle: "none", or what it was closed with

ledgerVars == <<status, executed, outcome>>

Init ==
    /\ status = [c \in Cycles |-> "new"]
    /\ executed = {}
    /\ outcome = [c \in Cycles |-> "none"]

Open(c) ==
    /\ status[c] = "new"
    /\ status' = [status EXCEPT ![c] = "open"]
    /\ UNCHANGED <<executed, outcome>>

Execute(c) ==
    /\ status[c] = "open"
    /\ c \notin executed
    /\ executed' = executed \cup {c}
    /\ UNCHANGED <<status, outcome>>

\* A cycle reports an execution exactly when it made one.
Close(c) ==
    /\ status[c] = "open"
    /\ status' = [status EXCEPT ![c] = "closed"]
    /\ outcome' = [outcome EXCEPT ![c] = IF c \in executed THEN "executed" ELSE "not_executed"]
    /\ UNCHANGED executed

Next == \E c \in Cycles : Open(c) \/ Execute(c) \/ Close(c)

Spec == Init /\ [][Next]_ledgerVars
=============================================================================
