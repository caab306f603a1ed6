------------------------------ MODULE MCStrand ------------------------------
(* The instance of Strand for TLC: four functions for one strand, or one for *)
(* one strand and three for the other.                                       *)
EXTENDS Strand

CONSTANTS s1, s2

MCStrands == {s1, s2}
MCQuotas == {[s \in MCStrands |-> IF s = s1 THEN 4 ELSE 0],
             [s \in MCStrands |-> IF s = s1 THEN 3 ELSE 1]}
=============================================================================
