-------------------------------- MODULE Spans --------------------------------
(***************************************************************************)
(* The otlp driver under the profilers of a process: notify() of           *)
(* drivers/otlp.py opens a span for a start record and, for a stop record, *)
(* ends the span it pops from `self.spans'.  Every thread has its own      *)
(* profiler; the driver and its stack are one for all.                     *)
(*                                                                         *)
(* The exporter is external and left out, and so are the attributes of a   *)
(* span: what counts is of which point it is.                              *)
(***************************************************************************)
EXTENDS Profiler, SequencesExt, FiniteSets

VARIABLES
  spans,     \* self.spans, of the ids and parents of their points
  ended,     \* history: for every ended span, the point that stopped then
  failed,    \* history: how many starts the driver refused
  disturbed  \* history: a call failed, or two threads had open points at once

spanVars == <<vars, spans, ended, failed, disturbed>>

(* The driver refuses a start whose infos it cannot serialize, before it   *)
(* opens a span, and a stop when it has no span left (deque.pop).          *)
Refused == [stored |-> FALSE, raised |-> TRUE]
StartOutcome == {Delivered, Refused}
StopOutcome == IF spans = << >> THEN Refused ELSE Delivered

(* Only spans that are not roots of their trace have a parent.             *)
SpanOf(r) == [point |-> r.trace_id,
              parent |-> IF r.base_id = r.parent_id THEN None ELSE r.parent_id]

Mut_AtBottom(r) == <<SpanOf(r)>> \o spans
Mut_NoRootSpan(r) == IF SpanOf(r).parent = None THEN spans ELSE Append(spans, SpanOf(r))
WithSpan(r) == Append(spans, SpanOf(r))
WithoutTop == Front(spans)

OpenPoints(t) == IF local[t] = None THEN 0 ELSE Len(local[t].name)
AllOpenPoints == UNION {{t} \X (1 .. OpenPoints(t)) : t \in Threads}
Busy == {t \in Threads : OpenPoints(t) > 0}
Others(t) == Busy \ {t}

-----------------------------------------------------------------------------
SpanInit == /\ Init
            /\ spans = << >> /\ ended = {}
            /\ failed = 0 /\ disturbed = FALSE

SpanStart(t, n, o) ==
  /\ Start(t, n, o)
  /\ spans' = IF o = Refused THEN spans
              ELSE WithSpan(Notification(local'[t], n, "start"))
  /\ failed' = IF o = Refused THEN failed + 1 ELSE failed
  /\ disturbed' = (disturbed \/ o = Refused \/ Others(t) # {})
  /\ UNCHANGED ended

SpanStop(t) ==
  /\ Stop(t, StopOutcome)
  /\ IF StopOutcome = Refused
       THEN disturbed' = TRUE /\ UNCHANGED <<spans, ended>>
       ELSE /\ spans' = WithoutTop
            /\ ended' = ended \cup {[span |-> Last(spans).point, stopped |-> get_id(local[t])]}
            /\ UNCHANGED disturbed
  /\ UNCHANGED failed

(* clean(), also of a profiler with open points, and init() do not notify. *)
NoNotification(t) ==
  /\ \/ InitFromOutside(t)
     \/ \E u \in Threads : InitFromThread(t, u)
     \/ Clean(t)
  /\ UNCHANGED <<spans, ended, failed, disturbed>>

SpanNext ==
  \E t \in Threads :
    \/ \E n \in Names, o \in StartOutcome : SpanStart(t, n, o)
    \/ SpanStop(t)
    \/ NoNotification(t)

SpanSpec == SpanInit /\ [][SpanNext]_spanVars

-----------------------------------------------------------------------------
(* Properties.                                                             *)

(* As long as no call failed and no two threads had open points at the     *)
(* same time, a stop ends the span of its own point, although profilers    *)
(* were cleaned with points open and left their spans on the stack.        *)
OwnSpans == ~disturbed => \A e \in ended : e.span = e.stopped

(* Threads that interleave end each other's spans, but there is a span     *)
(* for every open point whose start was not refused: without refused       *)
(* starts no stop() raises out of the driver.  No span is ended twice.     *)
EndedOnce == \A i \in DOMAIN spans, e \in ended : spans[i].point # e.span
SpanForEveryPoint ==
  /\ EndedOnce
  /\ Len(spans) + failed >= Cardinality(AllOpenPoints)
=============================================================================
