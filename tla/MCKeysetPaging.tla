--------------------------- MODULE MCKeysetPaging ---------------------------
(* A key of two columns, newest first, then ascending: scans of small       *)
(* tables that change, and of tables of about ten rows, where row_count     *)
(* grows a digit.                                                           *)
EXTENDS KeysetPaging

FewKeys == {<<2, 1>>, <<2, 2>>, <<1, 1>>, <<1, 3>>}
ManyKeys == FewKeys \cup {<<1, i>> : i \in 1..12}
NewestFirst == <<"desc", "asc">>
TimestampThenInteger == <<"timestamp", "integer">>

\* Rows and cursors of different sizes: a short row can have a long cursor.
Sizes == [k \in ManyKeys |-> IF k[2] \in {2, 3} THEN 4 ELSE 2 + k[2] \div 10]
CursorSizes ==
  [k \in ManyKeys |-> IF k = <<2, 2>> THEN 7 ELSE IF k[2] = 3 THEN 3 ELSE 4 + k[2] \div 10]

ChangingScans ==
  [table : SUBSET FewKeys, limit : {1, 2, 3}, maximum : {5, 13, 16, 18, 20, 23, 30, 60},
   changes : {2}, failures : {1}]

\* Every byte budget from one that holds no envelope to one that holds all.
LongScans ==
  [table : {{<<1, i>> : i \in 1..n} : n \in {0, 1, 9, 10, 11, 12}},
   limit : {9, 10, 11, 20}, maximum : 5..66, changes : {0}, failures : {0}]

MCStarts == ChangingScans \cup LongScans
=============================================================================
