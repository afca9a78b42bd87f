------------------------------ MODULE MCReport ------------------------------
(* Traces of three points below the base id 0, in every shape, with the    *)
(* clocks of several hosts: a child may start before its parent.           *)
EXTENDS Report

MCIds == 1 .. 3
Shapes == {p \in [MCIds -> 0 .. 2] : \A i \in MCIds : p[i] < i}
Intervals == {<<1, 2>>, <<2, 3>>, <<1, 4>>, <<0, 3>>}
Times == {f \in [MCIds -> Intervals] : f[1] = <<1, 4>>}
MCName == <<<<"db", "read">>, <<"rpc">>, <<"db", "write">>>>
MCEtype == [i \in MCIds |-> IF i = 3 THEN "Error" ELSE "None"]

Record(shape, times, i, half) ==
  [trace_id  |-> i,
   parent_id |-> shape[i],
   name      |-> MCName[i],
   phase     |-> half,
   etype     |-> IF half = "start" THEN "None" ELSE MCEtype[i],
   timestamp |-> times[i][IF half = "start" THEN 1 ELSE 2]]
Trace(shape, times) ==
  {Record(shape, times, i, half) : i \in MCIds, half \in {"start", "stop"}}

(* What is stored when the stop of point 2 raises and the next stop, that  *)
(* of point 1, is recorded with the id of point 2.                         *)
StoppedTwice(trace) ==
  {IF e.trace_id = 1 /\ e.phase = "stop"
     THEN [e EXCEPT !.trace_id = 2, !.parent_id = 1, !.timestamp = 5]
     ELSE e : e \in {f \in trace : f.trace_id < 3}}

MCTraces ==
  {Trace(shape, times) : shape \in Shapes, times \in Times}
    \cup {StoppedTwice(Trace(<<0, 1, 0>>, times)) : times \in Times}
=============================================================================
