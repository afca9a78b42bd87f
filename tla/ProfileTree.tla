---------------------------- MODULE ProfileTree ----------------------------
(***************************************************************************)
(* What the profiler promises to its users (doc/source/user/api.rst), with *)
(* no stack in it: trace points form trees by parent id, every thread has  *)
(* one current point, a new point is a child of it, and the point that is  *)
(* finished is the current one, unchanged, whose parent becomes current.   *)
(***************************************************************************)
CONSTANTS Threads, Names, Ids, None

VARIABLES
  point,     \* the points that were started
  finished,  \* those of them that were stopped
  current    \* of every thread: its trace, where it joined it, where it is

vars == <<point, finished, current>>

Points == [name : Names, base_id : Ids, trace_id : Ids, parent_id : Ids]
Sessions == [base_id : Ids, root : Ids, id : Ids]

IdsOf(c) == {c.base_id, c.root, c.id}
UsedIds == {p.trace_id : p \in point}
             \cup UNION {IdsOf(current[t]) : t \in {u \in Threads : current[u] # None}}

Init == /\ point = {}
        /\ finished = {}
        /\ current = [t \in Threads |-> None]

(* A thread joins the trace `base' below the point `parent'.               *)
Join(t, base, parent) ==
  /\ current[t] = None
  /\ current' = [current EXCEPT ![t] = [base_id |-> base, root |-> parent, id |-> parent]]
  /\ UNCHANGED <<point, finished>>

StartPoint(t, n, i) ==
  /\ current[t] # None
  /\ i \notin UsedIds
  /\ point' = point \cup {[name      |-> n,
                           base_id   |-> current[t].base_id,
                           trace_id  |-> i,
                           parent_id |-> current[t].id]}
  /\ current' = [current EXCEPT ![t].id = i]
  /\ UNCHANGED finished

(* The thread's current point, never the point where it joined, finishes   *)
(* once.                                                                   *)
StopPoint(t, p) ==
  /\ current[t] # None
  /\ current[t].id # current[t].root
  /\ p.trace_id = current[t].id
  /\ p.base_id = current[t].base_id
  /\ p \notin finished
  /\ finished' = finished \cup {p}
  /\ current' = [current EXCEPT ![t].id = p.parent_id]
  /\ UNCHANGED point

Leave(t) ==
  /\ current' = [current EXCEPT ![t] = None]
  /\ UNCHANGED <<point, finished>>

Next ==
  \E t \in Threads :
    \/ \E base, parent \in Ids : Join(t, base, parent)
    \/ \E n \in Names, i \in Ids : StartPoint(t, n, i)
    \/ \E p \in point : StopPoint(t, p)
    \/ Leave(t)

Spec == Init /\ [][Next]_vars
=============================================================================
