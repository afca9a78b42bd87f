---------------------------- MODULE MCDbTracing ----------------------------
(* An instance of DbTracing for TLC.                                       *)
EXTENDS DbTracing

CONSTANTS t1, t2, db, wsgi

OneForeignId == {-1}
OneHeader == {[base_id |-> -1, parent_id |-> None]}
Reliable == {Delivered}
ThreadSymmetry == Permutations(Threads)
=============================================================================
