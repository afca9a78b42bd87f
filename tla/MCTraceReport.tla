--------------------------- MODULE MCTraceReport ---------------------------
(* An instance of TraceReport for TLC.                                     *)
EXTENDS TraceReport, TLC

CONSTANTS t1, t2, a, b

MCForeignIds == {-1}
ThreadSymmetry == Permutations(Threads)
NameSymmetry == Permutations(Names)
AnySymmetry == ThreadSymmetry \cup NameSymmetry
=============================================================================
