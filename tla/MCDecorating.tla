---------------------------- MODULE MCDecorating ----------------------------
(* An instance of Decorating for TLC: a base class with a method, a static *)
(* method and a class method, a class that inherits all three, and one     *)
(* with a metaclass that overrides the method.                             *)
EXTENDS Decorating

CONSTANTS base, sub, meta, m, s, k, t1, t2

BasesFirst == base :> <<base>> @@ sub :> <<sub, base>> @@ meta :> <<meta, base>>
Nothing == m :> None @@ s :> None @@ k :> None
Bodies  == base :> (m :> "function" @@ s :> "static" @@ k :> "class")
        @@ sub :> Nothing
        @@ meta :> [Nothing EXCEPT ![m] = "function"]
ThreadSymmetry == Permutations(Threads)
=============================================================================
