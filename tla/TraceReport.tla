---------------------------- MODULE TraceReport ----------------------------
(***************************************************************************)
(* From the calls of a program to the picture of them: the records that    *)
(* the profilers of Profiler have got to the collector at any moment, the  *)
(* report that a driver of Report builds from those of one trace, and the  *)
(* graph that `osprofiler trace show --dot' of cmd/commands.py draws.      *)
(*                                                                         *)
(* The tool reads what is stored when it asks, in the order in which it    *)
(* was stored or, as redis returns it, newest first; every other order is  *)
(* the subject of Report.                                                  *)
(*                                                                         *)
(* Labels are left out.  That of a point named wsgi, rpc or driver is made *)
(* from its start record, so --dot, unlike --json and --html, raises a     *)
(* KeyError when that record was lost or bears another name.               *)
(***************************************************************************)
EXTENDS Profiler, SequencesExt

CONSTANT TicksPerMs  \* how many records are stored in a millisecond

ASSUME TicksPerMsAssumption == TicksPerMs \in Nat \ {0}

(* A new driver object, and one that has the attributes of the record d.   *)
NewDriver == [order |-> << >>, result |-> << >>, started_at |-> None,
              finished_at |-> None, last_started_at |-> None]

Rep(d) == INSTANCE Report WITH
  Traces <- {}, TicksPerMs <- TicksPerMs, Reads <- 1,
  stored <- {}, delivered <- {}, report <- None, phase <- "reading", reads <- 1,
  order <- d.order, result <- d.result, started_at <- d.started_at,
  finished_at <- d.finished_at, last_started_at <- d.last_started_at

(* The records of a trace, with the ticks at which they were stored; their *)
(* names have no hyphen but that of the phase.                             *)
Stamped(i) == [collector[i] EXCEPT !.name = <<@>>] @@ [timestamp |-> i, etype |-> None]
RecordsOf(base_id) ==
  SelectSeq([i \in DOMAIN collector |-> Stamped(i)], LAMBDA r : r.base_id = base_id)
ReadOrders(base_id) == {RecordsOf(base_id), Reverse(RecordsOf(base_id))}

(* get_report() of a new driver.                                           *)
Appended(d, r) ==
  [order           |-> Rep(d)!KeysAfter(r),
   result          |-> (r.trace_id :> Rep(d)!NodeAfter(r)) @@ d.result,
   started_at      |-> Rep(d)!Earlier(d.started_at, r.timestamp),
   finished_at     |-> Rep(d)!Later(d.finished_at, r.timestamp),
   last_started_at |-> IF r.phase = "stop" THEN d.last_started_at
                       ELSE Rep(d)!Later(d.last_started_at, r.timestamp)]

get_report(records) ==
  LET d     == FoldLeft(Appended, NewDriver, records)
      nodes == [id \in DOMAIN d.result |-> Rep(d)!Parsed(d.result[id])]
  IN [children |-> Rep(d)!ReportOf(nodes).children, nodes |-> Rep(d)!WithChildren(nodes)]

-----------------------------------------------------------------------------
(* _create_dot_graph() goes down from the report through the lists of      *)
(* children and draws a node for every way that leads it to a point; a way *)
(* is the places taken in those lists.  More steps than there are points   *)
(* mean that it does not end.                                              *)
ListAt(report, way) ==
  IF way = << >> THEN report.children ELSE report.nodes[Last(way).id].children
OneFurther(report, ways) ==
  UNION {{Append(way, [place |-> i, id |-> ListAt(report, way)[i]]) :
            i \in DOMAIN ListAt(report, way)} : way \in ways}
WaysDown(report) ==
  LET ways[n \in 0 .. Cardinality(DOMAIN report.nodes) + 1] ==
        IF n = 0 THEN {<< >>} ELSE OneFurther(report, ways[n - 1])
  IN ways
Ends(report) == WaysDown(report)[Cardinality(DOMAIN report.nodes) + 1] = {}
Drawn(report) ==
  UNION {WaysDown(report)[n] : n \in 1 .. Cardinality(DOMAIN report.nodes)}

(* show() gives up when the report has no children.                        *)
Found(report) == report.children # << >>

-----------------------------------------------------------------------------
(* Properties.                                                             *)

PointsOf(base_id) == {r.trace_id : r \in Range(RecordsOf(base_id))}
RecordOf(id) == CHOOSE r \in Range(collector) : r.trace_id = id
HasStart(id) == \E r \in Range(collector) : r.trace_id = id /\ r.phase = "start"
IsRecorded(id) == \E r \in Range(collector) : r.trace_id = id
PointAt(way) == Last(way).id

(* At any moment of any program, whatever the notifier lost and from       *)
(* whichever calls it raised, `trace show' finds every trace of which a    *)
(* record was stored, and draws each of its points once: below the call    *)
(* around it if anything of that one was stored, at the top otherwise, and *)
(* siblings in the order of the milliseconds, since the first record of    *)
(* the trace, in which they started.  Those that started within one are in *)
(* the order in which the driver read of them, which redis turns around.   *)
DrawsOnce(base_id, report) ==
  /\ Found(report) /\ Ends(report)
  /\ {PointAt(way) : way \in Drawn(report)} = PointsOf(base_id)
  /\ Cardinality(Drawn(report)) = Cardinality(PointsOf(base_id))

BelowItsCall(way) ==
  LET caller == RecordOf(PointAt(way)).parent_id IN
  IF Len(way) = 1 THEN ~IsRecorded(caller) ELSE way[Len(way) - 1].id = caller

MsOf(records, id) ==
  LET since == Min({r.timestamp : r \in Range(records)})
      start == CHOOSE r \in Range(records) : r.trace_id = id /\ r.phase = "start"
  IN (start.timestamp - since) \div TicksPerMs
FirstRead(records, id) == Min({i \in DOMAIN records : records[i].trace_id = id})

InOrder(records, v, w) ==
  LET id == PointAt(v) next == PointAt(w) IN
  Front(v) = Front(w) /\ Last(v).place < Last(w).place /\ HasStart(id) /\ HasStart(next) =>
    \/ MsOf(records, id) < MsOf(records, next)
    \/ /\ MsOf(records, id) = MsOf(records, next)
       /\ FirstRead(records, id) < FirstRead(records, next)

ShowDrawsTheCalls ==
  \A base_id \in {r.base_id : r \in Range(collector)} :
    \A records \in ReadOrders(base_id) :
      LET report == get_report(records) IN
      /\ DrawsOnce(base_id, report)
      /\ \A way \in Drawn(report) : BelowItsCall(way)
      /\ \A v, w \in Drawn(report) : InOrder(records, v, w)
=============================================================================
