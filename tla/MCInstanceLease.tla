--------------------------- MODULE MCInstanceLease ---------------------------
(* Two instances, a clock of six ticks, leases of one to three ticks,       *)
(* timestamps up to two ticks old.                                          *)
EXTENDS InstanceLease

MCDurations == 1..3
=============================================================================
