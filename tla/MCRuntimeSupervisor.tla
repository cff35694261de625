------------------------- MODULE MCRuntimeSupervisor -------------------------
(* Three tasks, one of them critical, of which two fit the supervisor. *)
EXTENDS RuntimeSupervisor
CONSTANTS t1, t2, t3
MCTasks == {t1, t2, t3}
MCCritical == {t1}
=============================================================================
