----------------------------- MODULE MCProfiler -----------------------------
(* Instances of Profiler for TLC.                                          *)
EXTENDS Profiler, TLC

CONSTANTS t1, t2, a, b

MCForeignIds == {-1}
Reliable     == {Delivered}
ThreadSymmetry == Permutations(Threads)
=============================================================================
