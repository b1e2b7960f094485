-------------------------- MODULE MC_CacheManager --------------------------
(* Four residual formulas, two of which share header, size and slot.       *)
EXTENDS CacheManager

MCBases == {0, 4, 5}
MCKeys == {"a", "b", "c", "d"}
MCNbVar == [a |-> 12, b |-> 11, c |-> 11, d |-> 10]
MCSzData == [a |-> 3, b |-> 2, c |-> 2, d |-> 1]
MCHash == [a |-> 1, b |-> 2, c |-> 2, d |-> 1]
============================================================================
