--------------------------- MODULE MCRoutingSuite ---------------------------
(* Instances of RoutingSuite for TLC. *)
EXTENDS RoutingSuite

SmallAndDefault == {<<8, 10>>} \cup ((0 .. 2) \X (0 .. 2))
=============================================================================
