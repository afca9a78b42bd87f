------------------------------ MODULE MCSpans ------------------------------
(* Instances of Spans for TLC.                                             *)
EXTENDS Spans

CONSTANTS t1, t2, a

MCForeignIds == {-1}
Reliable     == {Delivered}
ThreadSymmetry == Permutations(Threads)
=============================================================================
