----------------------------- MODULE MCCompiler -----------------------------
(* Instances of Compiler for TLC.  With Word far above any sum of times    *)
(* the time line does not wrap unless a subtraction underflows.            *)
EXTENDS Compiler

Stamped == {0, 1, 3}
=============================================================================
