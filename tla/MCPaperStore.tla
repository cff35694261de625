---------------------------- MODULE MCPaperStore ----------------------------
(* The paper store with plans on one instrument. *)
EXTENDS PaperStore

CONSTANTS i1
MCInstruments == {i1}
TwoPlans == 1..2
ThreeActions == 1..3
FourActions == 1..4
MCInstrumentOf == [p \in Plans |-> i1]
EntryAndExit == {"OPEN_LONG", "CANCEL_ENTRY", "EXIT", "HOLD", "NO_TRADE"}
Managing == {"OPEN_LONG", "MODIFY_PROTECTION", "REDUCE"}
AllKinds == EntryAndExit \cup Managing
=============================================================================
