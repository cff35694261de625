--------------------------- MODULE RuntimeSupervisor ---------------------------
(***************************************************************************)
(* The supervisor of the runtime's tasks and the health it reports         *)
(* (ironpilot-application/src/runtime.rs): bounded spawning, reaping, and  *)
(* a shutdown that waits for its deadline and then aborts.  Tasks end on   *)
(* their own at any time.  shutdown is a future: its caller may drop it at *)
(* an await, and call it again.                                            *)
(***************************************************************************)
EXTENDS Integers, FiniteSets

CONSTANTS Tasks,      \* the tasks that are ever offered to spawn
          Critical,   \* the ones of TaskImportance::Critical
          TaskLimit

ASSUME SupervisorAssumption ==
    IsFiniteSet(Tasks) /\ Critical \subseteq Tasks /\ TaskLimit \in Nat \ {0}

VARIABLES task,          \* task[t]: how far a task is
          tasks,         \* the JoinSet: what was spawned and is not joined
          shuttingDown,  \* RuntimeSupervisor::shutting_down
          call,          \* the call that holds the supervisor
          expired,       \* the deadline of the shutdown has passed
          aborted,       \* abort_all was called
          completed, failed, forced,  \* the counts of the shutdown under way
          asked,         \* the tasks there were when it began
          report,        \* the latest ShutdownReport, as its total and what was asked
          issues,        \* HealthIssues of the process
          taskIssues,    \* <<HealthIssue, task>>
          supervised     \* HealthState::supervised_tasks

counts == <<completed, failed, forced, asked, report>>
health == <<issues, taskIssues, supervised>>
vars == <<task, tasks, shuttingDown, call, expired, aborted, counts, health>>

NoReport == [graceful |-> FALSE, completed |-> 0, failed |-> 0, forced |-> 0, asked |-> 0]

Init ==
    /\ task = [t \in Tasks |-> "new"]
    /\ tasks = {}
    /\ shuttingDown = FALSE /\ call = "none" /\ expired = FALSE /\ aborted = FALSE
    /\ completed = 0 /\ failed = 0 /\ forced = 0 /\ asked = 0
    /\ report = NoReport
    /\ issues = {"ResourceMetricsUnavailable"}
    /\ taskIssues = {}
    /\ supervised = 0

-----------------------------------------------------------------------------
(* The health level *)

Halting == {"ShutdownTimedOut", "CriticalTaskExited", "CriticalTaskFailed", "TaskPanicked"}
Distrusted == {"ResourceMetricsUnavailable", "ShuttingDown"}

AllIssues == issues \cup {i[1] : i \in taskIssues}
Level == IF AllIssues \cap Halting # {} THEN "Halted"
         ELSE IF AllIssues \cap Distrusted # {} THEN "Untrusted"
         ELSE IF AllIssues = {} THEN "Healthy"
         ELSE "Degraded"

RecordResourceSample(exceeded) ==
    /\ issues' = (issues \ {"ResourceMetricsUnavailable", "MemorySoftLimitExceeded"})
                   \cup (IF exceeded THEN {"MemorySoftLimitExceeded"} ELSE {})
    /\ UNCHANGED <<task, tasks, shuttingDown, call, expired, aborted, counts, taskIssues,
                   supervised>>

-----------------------------------------------------------------------------
(* Tasks: the runtime polls them, and cancels an aborted one at an await *)

Finish(t, outcome) ==
    /\ task[t] = "running"
    /\ task' = [task EXCEPT ![t] = outcome]
    /\ UNCHANGED <<tasks, shuttingDown, call, expired, aborted, counts, health>>

Cancel(t) == aborted /\ Finish(t, "cancelled")

Finished == {t \in tasks : task[t] # "running"}

-----------------------------------------------------------------------------
(* spawn and reap_finished *)

Supervising == Cardinality(tasks')

\* A finished task counts until it is joined.
Full == Cardinality(tasks) >= TaskLimit

Spawn(t) ==
    /\ call = "none" /\ task[t] = "new" /\ ~shuttingDown
    /\ IF Full
         THEN /\ issues' = issues \cup {"TaskCapacitySaturated"}
              /\ UNCHANGED <<task, tasks, supervised>>
         ELSE /\ task' = [task EXCEPT ![t] = "running"]
              /\ tasks' = tasks \cup {t}
              /\ supervised' = Supervising
              /\ UNCHANGED issues
    /\ UNCHANGED <<shuttingDown, call, expired, aborted, counts, taskIssues>>

\* mutant: a supporting task's panic passes for an exit
MutantIssueOf(t) ==
    CASE task[t] = "ok" /\ ~shuttingDown ->
           {IF t \in Critical THEN "CriticalTaskExited" ELSE "TaskExited"}
      [] task[t] = "failed" ->
           {IF t \in Critical THEN "CriticalTaskFailed" ELSE "SupportingTaskFailed"}
      [] task[t] = "panicked" -> IF t \in Critical THEN {"TaskPanicked"} ELSE {"TaskExited"}
      [] OTHER -> {}

\* record_task_result.  Returning is expected only of a shutdown, and so is
\* being cancelled.
IssueOf(t) ==
    CASE task[t] = "ok" /\ ~shuttingDown ->
           {IF t \in Critical THEN "CriticalTaskExited" ELSE "TaskExited"}
      [] task[t] = "failed" ->
           {IF t \in Critical THEN "CriticalTaskFailed" ELSE "SupportingTaskFailed"}
      [] task[t] = "panicked" -> {"TaskPanicked"}
      [] task[t] = "cancelled" /\ ~shuttingDown -> {"TaskPanicked"}
      [] OTHER -> {}

Join(t) ==
    /\ t \in Finished
    /\ tasks' = tasks \ {t}
    /\ taskIssues' = taskIssues \cup (IssueOf(t) \X {t})
    /\ UNCHANGED <<task, shuttingDown, aborted, issues>>

ReapFinished ==
    /\ call = "none"
    /\ call' = "reaping"
    /\ UNCHANGED <<task, tasks, shuttingDown, expired, aborted, counts, health>>

ReapNext(t) ==
    /\ call = "reaping" /\ Join(t)
    /\ UNCHANGED <<call, expired, counts, supervised>>

ReapEnd ==
    /\ call = "reaping" /\ Finished = {}
    /\ call' = "none"
    /\ supervised' = Cardinality(tasks)
    /\ UNCHANGED <<task, tasks, shuttingDown, expired, aborted, counts, issues, taskIssues>>

-----------------------------------------------------------------------------
(* shutdown *)

Shutdown ==
    /\ call = "none"
    /\ shuttingDown' = TRUE
    /\ issues' = issues \cup {"ShuttingDown"}
    /\ call' = "draining" /\ expired' = FALSE
    /\ completed' = 0 /\ failed' = 0 /\ forced' = 0 /\ asked' = Cardinality(tasks)
    /\ UNCHANGED <<task, tasks, aborted, report, taskIssues, supervised>>

Expire ==
    /\ call = "draining" /\ ~expired
    /\ expired' = TRUE
    /\ UNCHANGED <<task, tasks, shuttingDown, call, aborted, counts, health>>

Succeeded(t) == task[t] = "ok"

JoinNext(t) ==
    /\ call = "draining" /\ Join(t)
    /\ completed' = completed + (IF Succeeded(t) THEN 1 ELSE 0)
    /\ failed' = failed + (IF Succeeded(t) THEN 0 ELSE 1)
    /\ UNCHANGED <<call, expired, forced, asked, report, supervised>>

\* mutant: the timeout is not recorded
MutantTimedOut == {}

TimedOut == {"ShutdownTimedOut"}

\* mutant: what has finished by then is not forced
MutantForced == Cardinality(tasks \ Finished)

Forced == Cardinality(tasks)

\* The deadline.  A task may have finished: a future that has used up its
\* cooperative budget is not shown what is ready.
TimeOut ==
    /\ call = "draining" /\ expired /\ tasks # {}
    /\ forced' = Forced
    /\ issues' = issues \cup TimedOut
    /\ aborted' = TRUE
    /\ call' = "aborting"
    /\ UNCHANGED <<task, tasks, shuttingDown, expired, completed, failed, asked, report,
                   taskIssues, supervised>>

\* mutant: the loop ends at a task that was not cancelled
MutantJoinAborted(t) ==
    /\ call = "aborting" /\ t \in Finished /\ task[t] = "cancelled"
    /\ tasks' = tasks \ {t}
    /\ UNCHANGED <<task, shuttingDown, call, expired, aborted, counts, health>>

\* The result of a task that is joined after abort_all is dropped.
JoinAborted(t) ==
    /\ call = "aborting" /\ t \in Finished
    /\ tasks' = tasks \ {t}
    /\ UNCHANGED <<task, shuttingDown, call, expired, aborted, counts, health>>

Report ==
    /\ call \in {"draining", "aborting"} /\ tasks = {}
    /\ report' = [graceful |-> forced = 0, completed |-> completed, failed |-> failed,
                  forced |-> forced, asked |-> asked]
    /\ supervised' = 0
    /\ call' = "none"
    /\ UNCHANGED <<task, tasks, shuttingDown, expired, aborted, completed, failed, forced, asked,
                   issues, taskIssues>>

\* The caller drops the future, and its counts with it.
DropShutdown ==
    /\ call \in {"draining", "aborting"} /\ tasks # {}
    /\ call' = "none"
    /\ completed' = 0 /\ failed' = 0 /\ forced' = 0 /\ asked' = 0
    /\ UNCHANGED <<task, tasks, shuttingDown, expired, aborted, report, health>>

Next ==
    \/ \E t \in Tasks :
         \/ Spawn(t) \/ Cancel(t)
         \/ \E outcome \in {"ok", "failed", "panicked"} : Finish(t, outcome)
         \/ ReapNext(t) \/ JoinNext(t) \/ JoinAborted(t)
    \/ ReapFinished \/ ReapEnd
    \/ Shutdown \/ Expire \/ TimeOut \/ Report \/ DropShutdown
    \/ \E exceeded \in BOOLEAN : RecordResourceSample(exceeded)

(***************************************************************************)
(* Time passes, the runtime polls the future while its caller keeps it,    *)
(* and an aborted task reaches an await, where it is cancelled.            *)
(***************************************************************************)
Fairness ==
    /\ WF_vars(Expire) /\ WF_vars(TimeOut) /\ WF_vars(Report)
    /\ \A t \in Tasks : WF_vars(Cancel(t)) /\ WF_vars(JoinNext(t)) /\ WF_vars(JoinAborted(t))

Spec == Init /\ [][Next]_vars
FairSpec == Spec /\ Fairness

-----------------------------------------------------------------------------
TaskStates == {"new", "running", "ok", "failed", "panicked", "cancelled"}
Calls == {"none", "reaping", "draining", "aborting"}
ProcessIssues == {"ResourceMetricsUnavailable", "MemorySoftLimitExceeded",
                  "TaskCapacitySaturated", "ShuttingDown", "ShutdownTimedOut"}
Ends == {"TaskExited", "CriticalTaskExited", "SupportingTaskFailed", "CriticalTaskFailed",
         "TaskPanicked"}
Reports == [graceful : BOOLEAN, completed : Nat, failed : Nat, forced : Nat, asked : Nat]

\* Every variable has its type; the supervisor never holds more than its limit.
TypeOK ==
    /\ task \in [Tasks -> TaskStates]
    /\ tasks \subseteq {t \in Tasks : task[t] # "new"} /\ Cardinality(tasks) <= TaskLimit
    /\ shuttingDown \in BOOLEAN /\ call \in Calls /\ expired \in BOOLEAN /\ aborted \in BOOLEAN
    /\ completed \in Nat /\ failed \in Nat /\ forced \in Nat /\ asked \in Nat
    /\ report \in Reports
    /\ issues \subseteq ProcessIssues
    /\ taskIssues \subseteq Ends \X Tasks
    /\ supervised \in Nat

(***************************************************************************)
(* No fault is lost: once a critical task has failed, or any has panicked  *)
(* or been cancelled, and is no longer in the supervisor, the runtime's    *)
(* health is Halted for good, whichever call joined it, and also when the  *)
(* shutdown that joined it was dropped.                                    *)
(***************************************************************************)
Faulty(t) ==
    task[t] \in IF t \in Critical THEN {"panicked", "cancelled", "failed"} ELSE {"panicked", "cancelled"}
FaultsAreReported ==
    \A t \in Tasks \ tasks : Faulty(t) => Level = "Halted"

(***************************************************************************)
(* A shutdown accounts for every task that it found, in whatever order     *)
(* they end, pass the deadline and are aborted.                            *)
(***************************************************************************)
ReportAccountsForTasks ==
    /\ call = "draining" => completed + failed + Cardinality(tasks) = asked
    /\ call = "aborting" => completed + failed + forced = asked /\ Cardinality(tasks) <= forced
    /\ report.completed + report.failed + report.forced = report.asked

\* A report of failed or forced tasks has left its cause in the health, also
\* when an earlier shutdown aborted the tasks and was dropped.
ReportIsExplained ==
    report.failed + report.forced > 0
      => AllIssues \cap {"ShutdownTimedOut", "CriticalTaskFailed", "SupportingTaskFailed",
                         "TaskPanicked"} # {}

\* The number of supervised tasks that the health shows may be late, never too
\* small: zero means that no task is left.
SupervisedCoversTasks == supervised >= Cardinality(tasks)

\* A shutdown that its caller keeps ends, whatever the tasks do.
ShutdownEnds == call = "draining" ~> call = "none"
=============================================================================
