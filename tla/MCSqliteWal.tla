---------------------------- MODULE MCSqliteWal -----------------------------
(* Instances of SqliteWal for TLC.  Pages are interchangeable: nothing in the *)
(* model depends on their numbers.                                           *)
EXTENDS SqliteWal, TLC

CONSTANTS c1, c2, p1, p2

MCPages == {p1, p2}
PageSymmetry == Permutations(MCPages)
=============================================================================
