--------------------------- MODULE MCPaperRuntime ---------------------------
(* Two runs over two cycles with the facts of one Context: each limit of the  *)
(* budget can be the one reached, and an answer may report more than reserved. *)
EXTENDS PaperRuntime, TLC

CONSTANTS x

Interchangeable == Permutations(Callers) \cup Permutations(Cycles)

SameContext == [c \in Cycles |-> x]

\* An output token costs two; answers report a cached prompt, a bare output, more than
\* was reserved, and totals that do not add up.
MCPrices == [hit |-> 0, miss |-> 1, output |-> 2]
MCReports ==
    {[hit |-> 1, miss |-> 0, prompt |-> 1, output |-> 0, total |-> 1],
     [hit |-> 0, miss |-> 0, prompt |-> 0, output |-> 1, total |-> 1],
     [hit |-> 0, miss |-> 1, prompt |-> 1, output |-> 2, total |-> 3],
     [hit |-> 0, miss |-> 0, prompt |-> 1, output |-> 0, total |-> 1]}
=============================================================================
