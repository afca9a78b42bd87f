---------------------------- MODULE MCLogInsight ----------------------------
(* Instances of LogInsight for TLC.                                        *)
EXTENDS LogInsight

CONSTANTS t1, t2, t3
=============================================================================
