---------------------------- MODULE MCBoostCache ----------------------------
(* Instances of BoostCache for TLC. *)
EXTENDS BoostCache

CONSTANTS a, b, gcc, clang, usr, opt

SameToolchain == [c \in Clones |-> gcc]
\* Two installations, of one version or of different compilers.
TwoCompilers == [c \in Clones |-> IF c = a THEN usr ELSE opt]
TwoToolchains == [c \in Clones |-> IF c = a THEN gcc ELSE clang]
=============================================================================
