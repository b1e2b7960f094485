------------------------- MODULE MC_DataOccurrence -------------------------
(* An occurrence list of three binary clauses and three others: enough for *)
(* both loops to keep, swap and drop a clause in every position.           *)
EXTENDS DataOccurrence
============================================================================
