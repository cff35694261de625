--------------------------- MODULE MCPublicStream ---------------------------
(* One instrument. Its candle trades twice and closes, and the next one      *)
(* opens; its book service restarts once and comes to an id it had before.   *)
EXTENDS PublicStream

CONSTANTS i1
Candle(start, trade, confirmed) == [start |-> start, trade |-> trade, confirmed |-> confirmed]
MCKlines == <<Candle(1, 1, FALSE), Candle(1, 2, FALSE), Candle(1, 2, TRUE), Candle(3, 3, FALSE)>>
MCBooks == <<5, 6, 1, 5>>
=============================================================================
