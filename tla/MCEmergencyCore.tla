--------------------------- MODULE MCEmergencyCore ---------------------------
(* Two plans of one instrument, one emergency command, an observation that   *)
(* sells a part and one whose whole sale slips beyond the limit.             *)
EXTENDS EmergencyCore

CONSTANTS i1, i2, b1, b2
OneInstrument == {i1}
TwoPlans == 1..2
ThreeActions == 1..3
MCInstrumentOf == [p \in Plans |-> i1]
EntryAndExit == {"OPEN_LONG", "CANCEL_ENTRY", "EXIT"}
TwoObservations == {b1, b2}
MCObservationOn == [b \in Observations |-> i1]
StartAndRecover == {<<"NONE", "STARTING">>, <<"HALTED", "RECOVERING">>}
MCLiquidityIn == [b \in Observations |-> IF b = b2 THEN 2 ELSE 1]
MCLimitIn == [b \in Observations |-> 1]
=============================================================================
