--------------------------- MODULE MCRowCollection --------------------------
(* Every short result set, and result sets around ten rows, where row_count *)
(* grows a digit.                                                           *)
EXTENDS RowCollection

ShortStreams == UNION {[1..n -> 2..4] : n \in 0..4}
LongStreams == {[i \in 1..n |-> IF i < 9 THEN 2 ELSE last] : n \in 8..12, last \in 2..4}
SomeStreams == ShortStreams \cup LongStreams
AllMaxima == 4..48
=============================================================================
