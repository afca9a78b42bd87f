------------------------------- MODULE MCWeb -------------------------------
(* An instance of Web for TLC.                                             *)
EXTENDS Web

CONSTANTS t1, t2, s1, s2, a, wsgi

TwoForeignIds == {-1, -2}
TwoHeaders    == {[base_id |-> -1, parent_id |-> None], [base_id |-> -2, parent_id |-> -1]}
NeverStored   == [stored : {FALSE}, raised : BOOLEAN]
OneWorkerEach == t1 :> s1 @@ t2 :> s2
=============================================================================
