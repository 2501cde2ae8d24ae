------------------------------- MODULE MCIdler -------------------------------
(* Two streams on descriptors 3 and 4: enough for one stream served and    *)
(* removed in the middle of an iteration with a ready stream after it,     *)
(* and for one added while the other is iterated.                          *)
EXTENDS Idler

CONSTANTS s1, s2

Descriptors == [s \in {s1, s2} |-> IF s = s1 THEN 3 ELSE 4]
==============================================================================
