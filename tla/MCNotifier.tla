----------------------------- MODULE MCNotifier -----------------------------
(* An instance of Notifier for TLC.                                        *)
EXTENDS Notifier, TLC

CONSTANTS i1, i2, i3, w1

AnyOrder == Permutations(Applications)
=============================================================================
