------------------------------- MODULE Report -------------------------------
(***************************************************************************)
(* The report of a trace: drivers/base.py.  A driver's get_report() reads  *)
(* the stored notifications of the trace in whatever order its backend     *)
(* returns them, hands each to _append_results(), and builds the report    *)
(* with _parse_results() and _build_tree().                                *)
(*                                                                         *)
(* A dictionary that is iterated (`self.result') is a function with the    *)
(* sequence of its keys in insertion order; a node of the tree is its      *)
(* trace id; a name is the sequence of its parts between hyphens, without  *)
(* the last, which is the phase.  Project, service, host and the raw       *)
(* payloads are left out.                                                  *)
(***************************************************************************)
EXTENDS Integers, SequencesExt

CONSTANTS
  Traces,      \* the sets of notifications a collector may hold of a trace
  TicksPerMs,  \* clock ticks (the code's microseconds) in a millisecond
  None,        \* Python's None, and the mark of a missing key
  Reads        \* BOUND: how many times get_report() is called on the driver

Stamps(S) == {e.timestamp : e \in S}

(* All notifications of a point have the same parent (OnePlacePerPoint of  *)
(* Profiler).  A stop() that raised after its record was stored leaves the *)
(* id on the stack, and the next one stops the point again, with the name  *)
(* of another: nothing is assumed of how many there are, or of their names.*)
ASSUME TracesAssumption ==
  \A S \in Traces : \A e, f \in S :
    /\ e.phase \in {"start", "stop"}
    /\ e.timestamp \in Int
    /\ e.trace_id = f.trace_id => e.parent_id = f.parent_id
ASSUME NoneAssumption ==
  /\ \A S \in Traces : None \notin Stamps(S) \cup {e.trace_id : e \in S}
  /\ None \notin [type : {"datetime", "int"}, value : Int]
ASSUME TicksAssumption == TicksPerMs \in Nat \ {0}
ASSUME ReadsAssumption == Reads \in Nat

VARIABLES
  stored,           \* the notifications of the trace in the backend
  delivered,        \* history: those that this driver has read
  order, result,    \* self.result: its keys as inserted, and its nodes
  started_at, finished_at, last_started_at,
  report,           \* what get_report() returned
  phase,            \* "reading" notifications, "returned", or "failed"
  reads             \* how many times it was called

driver == <<order, result, started_at, finished_at, last_started_at>>
vars == <<stored, delivered, order, result, started_at, finished_at,
          last_started_at, report, phase, reads>>

(* `started' and `finished' of a node hold a datetime until the report is  *)
(* built, and a number of milliseconds afterwards.                         *)
DateTime(t) == [type |-> "datetime", value |-> t]
Millis(m)   == [type |-> "int", value |-> m]
IsInt(x) == x # None /\ x.type = "int"

-----------------------------------------------------------------------------
(* _append_results                                                         *)

(* name.split("-")[0]: points that differ in what follows are one in the   *)
(* statistics.                                                             *)
FirstPart(name) == Head(name)

NewNode(e) ==
  [name |-> FirstPart(e.name), parent_id |-> e.parent_id, started |-> None,
   finished |-> None, exception |-> None, children |-> << >>]
Mut_NodeBeforeNew(e) == NewNode(e)
NodeBefore(e) ==
  IF e.trace_id \in DOMAIN result THEN result[e.trace_id] ELSE NewNode(e)

NodeAfter(e) ==
  IF e.phase = "stop"
    THEN [NodeBefore(e) EXCEPT !.finished = DateTime(e.timestamp),
                               !.exception = e.etype]
    ELSE [NodeBefore(e) EXCEPT !.started = DateTime(e.timestamp)]

Mut_KeysAfter(e) == Append(order, e.trace_id)
KeysAfter(e) ==
  IF e.trace_id \in DOMAIN result THEN order ELSE Append(order, e.trace_id)

Earlier(old, t) == IF old = None \/ old > t THEN t ELSE old
Later(old, t)   == IF old = None \/ old < t THEN t ELSE old

AppendResults(e) ==
  /\ result' = [id \in DOMAIN result \cup {e.trace_id} |->
                  IF id = e.trace_id THEN NodeAfter(e) ELSE result[id]]
  /\ order' = KeysAfter(e)
  /\ last_started_at' = IF e.phase = "stop" THEN last_started_at
                        ELSE Later(last_started_at, e.timestamp)
  /\ started_at' = Earlier(started_at, e.timestamp)
  /\ finished_at' = Later(finished_at, e.timestamp)

-----------------------------------------------------------------------------
(* _parse_results                                                          *)

msec(ticks) == ticks \div TicksPerMs
SinceStart(t) == msec(t - started_at)

(* A notification that was lost makes the duration 0.                      *)
StartedOf(n)  == IF n.started = None THEN n.finished.value ELSE n.started.value
FinishedOf(n) == IF n.finished = None THEN n.started.value ELSE n.finished.value

Parsed(n) == [n EXCEPT !.started = Millis(SinceStart(StartedOf(n))),
                       !.finished = Millis(SinceStart(FinishedOf(n)))]

(* Subtracting a datetime from a number of milliseconds that an earlier    *)
(* report left in the node is a TypeError.                                 *)
NotATime(n) == IsInt(n.started) \/ IsInt(n.finished)

Duration(n) == n.finished.value - n.started.value
OpNodes(nodes, op) == {i \in DOMAIN nodes : nodes[i].name = op}
Mut_Stats(nodes) ==
  [op \in {nodes[i].name : i \in DOMAIN nodes} |->
     [count |-> 1, duration |-> Duration(nodes[CHOOSE i \in OpNodes(nodes, op) : TRUE])]]
Stats(nodes) ==
  [op \in {nodes[i].name : i \in DOMAIN nodes} |->
     [count    |-> Cardinality(OpNodes(nodes, op)),
      duration |-> SumFunction([i \in OpNodes(nodes, op) |-> Duration(nodes[i])])]]

(* _build_tree: every node is appended to the children of its parent, or   *)
(* to the top level, and both are sorted by `started', which keeps the     *)
(* order of equal nodes.                                                   *)
Before(nodes, s, j, i) ==
  \/ nodes[s[j]].started.value < nodes[s[i]].started.value
  \/ nodes[s[j]].started.value = nodes[s[i]].started.value /\ j < i
Mut_SortedByStart(nodes, s) == s
SortedByStart(nodes, s) ==
  LET place(i) == 1 + Cardinality({j \in DOMAIN s : Before(nodes, s, j, i)})
  IN [k \in DOMAIN s |-> s[CHOOSE i \in DOMAIN s : place(i) = k]]

(* The keys at the places I, in the order in which they were inserted.     *)
Keys(I) ==
  [k \in 1 .. Cardinality(I) |->
     order[CHOOSE i \in I : 1 + Cardinality({j \in I : j < i}) = k]]
ChildrenOf(nodes, id) ==
  nodes[id].children \o Keys({i \in DOMAIN order : nodes[order[i]].parent_id = id})
Mut_TopLevel(nodes) == Keys({i \in DOMAIN order : nodes[order[i]].parent_id = 0})
TopLevel(nodes) ==
  Keys({i \in DOMAIN order : nodes[order[i]].parent_id \notin DOMAIN nodes})

WithChildren(nodes) ==
  [id \in DOMAIN nodes |->
     [nodes[id] EXCEPT !.children = SortedByStart(nodes, ChildrenOf(nodes, id))]]

Elapsed(t) == IF t = None THEN None ELSE SinceStart(t)

ReportOf(nodes) ==
  [finished           |-> Elapsed(finished_at),
   last_trace_started |-> Elapsed(last_started_at),
   children           |-> SortedByStart(nodes, TopLevel(nodes)),
   stats              |-> Stats(nodes)]

ParseResults ==
  LET nodes == [id \in DOMAIN result |-> Parsed(result[id])] IN
  /\ \A id \in DOMAIN result : ~NotATime(result[id])
  /\ result' = WithChildren(nodes)
  /\ report' = ReportOf(nodes)
  /\ UNCHANGED <<order, started_at, finished_at, last_started_at>>

-----------------------------------------------------------------------------
Init == /\ stored \in Traces
        /\ delivered = {}
        /\ order = << >>
        /\ result = << >>
        /\ started_at = None /\ finished_at = None /\ last_started_at = None
        /\ report = None
        /\ phase = "reading"
        /\ reads = 1

Reading == phase = "reading"

(* A backend returns the notifications in any order, some of them twice    *)
(* and, when it has not consumed or stored them all, some of them never.   *)
Deliver == \E e \in stored :
  /\ Reading
  /\ AppendResults(e)
  /\ delivered' = delivered \cup {e}
  /\ UNCHANGED <<stored, report, phase, reads>>

Return == /\ Reading
          /\ ParseResults
          /\ phase' = "returned"
          /\ UNCHANGED <<stored, delivered, reads>>

(* get_report() raises: the loop over the nodes stops at the first bad     *)
(* one, and has converted those before it.                                 *)
Fail == \E bad \in DOMAIN order :
  LET converted == {order[i] : i \in 1 .. bad - 1} IN
  /\ Reading
  /\ NotATime(result[order[bad]])
  /\ \A id \in converted : ~NotATime(result[id])
  /\ result' = [id \in DOMAIN result |->
                  IF id \in converted THEN Parsed(result[id]) ELSE result[id]]
  /\ phase' = "failed"
  /\ UNCHANGED <<stored, delivered, order, started_at, finished_at,
                 last_started_at, report, reads>>

(* The caller asks the same driver for the same trace once more: nothing   *)
(* of its state is reset.                                                  *)
ReadAgain == /\ ~Reading
             /\ reads < Reads
             /\ reads' = reads + 1
             /\ phase' = "reading"
             /\ report' = None
             /\ UNCHANGED <<stored, delivered, driver>>

Next == Deliver \/ Return \/ Fail \/ ReadAgain

Spec == Init /\ [][Next]_vars

-----------------------------------------------------------------------------
(* Properties.  They say what a report is in terms of the SET of           *)
(* notifications that the driver has read: their order and those read      *)
(* twice must not matter, but for a point that was stopped twice.          *)

Returned == phase = "returned"
Seen == {e.trace_id : e \in delivered}
Of(id, half) == {e \in delivered : e.trace_id = id /\ e.phase = half}
Either(S, T) == IF S = {} THEN T ELSE S
Since(e) == msec(e.timestamp - Min(Stamps(delivered)))

StartOf(id) == result[id].started.value
FinishOf(id) == result[id].finished.value
NamesOf(id) == {FirstPart(e.name) : e \in {f \in delivered : f.trace_id = id}}
ParentOf(id) == (CHOOSE e \in delivered : e.trace_id = id).parent_id

(* The times and the exception of every node of a report are those of one  *)
(* start and one stop that were read, in any order (of the only ones, when *)
(* the point was stopped once), and the exception is that of the stop      *)
(* whose time is shown; a point of which one half was lost takes no time.  *)
NodesAsRecorded ==
  Returned => \A id \in Seen :
    \E e \in Either(Of(id, "stop"), Of(id, "start")) :
      /\ FinishOf(id) = Since(e)
      /\ result[id].exception = IF e.phase = "stop" THEN e.etype ELSE None
      /\ \E s \in Either(Of(id, "start"), {e}) : StartOf(id) = Since(s)

(* The statistics have a line for every first part of a name, db for       *)
(* db-read and db-write together; every point of the report is counted in  *)
(* one of them, once and with its time, and that line is named as one of   *)
(* its notifications is.  The whole report lasts from the first            *)
(* notification to the last.                                               *)
StatsAddUp ==
  Returned /\ delivered # {} =>
    /\ report.finished = msec(Max(Stamps(delivered)) - Min(Stamps(delivered)))
    /\ \A id \in Seen : result[id].name \in NamesOf(id)
    /\ DOMAIN report.stats = {result[id].name : id \in Seen}
    /\ \A op \in DOMAIN report.stats :
         LET ids == {id \in Seen : result[id].name = op} IN
         /\ report.stats[op].count = Cardinality(ids)
         /\ report.stats[op].duration =
              SumFunction([id \in ids |-> FinishOf(id) - StartOf(id)])

(* "Forms and returns report composed from the stored notifications":      *)
(* every point read is in the tree below its parent, or at the top when    *)
(* the parent was not read, and nowhere else, whatever order, duplicates   *)
(* and losses its notifications arrive with: once in the first report of a *)
(* driver, in which a later one finds the children of those before it.     *)
Occurrences(s, id) == {i \in DOMAIN s : s[i] = id}
Lists == Seen \cup {None}
ListOf(l) == IF l = None THEN report.children ELSE result[l].children
PlaceOf(id) == IF ParentOf(id) \in Seen THEN ParentOf(id) ELSE None
Copies(l) == IF l = None THEN {1} ELSE 1 .. reads
TreeHoldsEachNode ==
  Returned => \A id \in Seen, l \in Lists :
    Cardinality(Occurrences(ListOf(l), id)) \in IF l = PlaceOf(id) THEN Copies(l) ELSE {0}

(* Siblings are listed in the order of the milliseconds at which they are  *)
(* shown to start; of those within one nothing is said.                    *)
SiblingsInOrder ==
  Returned => \A l \in Lists : \A i, j \in DOMAIN ListOf(l) :
    i < j => StartOf(ListOf(l)[i]) <= StartOf(ListOf(l)[j])
=============================================================================
