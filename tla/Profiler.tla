------------------------------ MODULE Profiler ------------------------------
(***************************************************************************)
(* The profiler of osprofiler/profiler.py: one `_Profiler' per thread, in  *)
(* the thread-local `__local_ctx', and the notifications it hands to the   *)
(* notifier.  A profiler keeps two stacks, `_trace_stack' of identifiers   *)
(* (the base id, the id of the point it was called from, then one id per   *)
(* open point) and `_name' of the names of the open points.                *)
(*                                                                         *)
(* Identifiers are integers: the uuids this process generates are 1, 2, .. *)
(* in the order in which it generates them, and the members of ForeignIds  *)
(* are negative, ids that arrived from elsewhere.  Infos, hosts and        *)
(* timestamps are left out; the place of a notification in `collector' is  *)
(* its time.                                                               *)
(***************************************************************************)
EXTENDS Integers, Sequences

CONSTANTS
  Threads,      \* the threads of the process
  Names,        \* the names of trace points
  ForeignIds,   \* base and parent ids that callers pass to init()
  None,         \* Python's None
  Outcomes,     \* what a call of notifier.notify() may do
  MaxIds        \* BOUND: how many uuids the process generates

(* A call of the notifier may store the record or not, and may raise or    *)
(* not: a driver can fail before the record is stored, and after (redis.py *)
(* pushes the record, then writes a second key).                           *)
AllOutcomes == [stored : BOOLEAN, raised : BOOLEAN]

(* The notifier of a deployment whose collector is up.                     *)
Delivered == [stored |-> TRUE, raised |-> FALSE]

ASSUME ForeignIdsAssumption == ForeignIds \subseteq {i \in Int : i < 0}
ASSUME OutcomesAssumption == Outcomes \subseteq AllOutcomes
ASSUME MaxIdsAssumption == MaxIds \in Nat
VARIABLES
  local,      \* __local_ctx.profiler of every thread
  collector,  \* the records the collector has stored, oldest first
  next_id     \* the next uuid that generate_uuid() returns

vars == <<local, collector, next_id>>

Ids == ForeignIds \cup (1 .. MaxIds)
Phases == {"start", "stop"}
Profilers == [trace_stack : Seq(Ids), name : Seq(Names)]
Notifications == [name : Names, phase : Phases, base_id : Ids,
                  trace_id : Ids, parent_id : Ids]

ASSUME NoneAssumption == None \notin Ids \cup Profilers \cup [base_id : Ids, root : Ids, id : Ids]

-----------------------------------------------------------------------------
(* The operations of a `_Profiler', as functions of its state.  A          *)
(* definition whose name starts with Mut_ is a plausible error in the one  *)
(* after it, used to see that the properties notice it.                    *)

(* __init__: a base id is generated when none was given, and the parent    *)
(* of the first point is the base id when no parent was given.             *)
Mut_BaseIdRenewed(base) == next_id
BaseId(base) == IF base = None THEN next_id ELSE base
Mut_NewProfilerNoDefault(base, parent) ==
  [trace_stack |-> <<BaseId(base), parent>>, name |-> << >>]
NewProfiler(base, parent) ==
  [trace_stack |-> <<BaseId(base), IF parent = None THEN BaseId(base) ELSE parent>>,
   name        |-> << >>]

get_base_id(p)   == p.trace_stack[1]
Mut_get_parent_id_base(p) == p.trace_stack[1]
Mut_get_parent_id_top(p)  == p.trace_stack[Len(p.trace_stack)]
get_parent_id(p) == p.trace_stack[Len(p.trace_stack) - 1]
get_id(p)        == p.trace_stack[Len(p.trace_stack)]

Popped(s) == SubSeq(s, 1, Len(s) - 1)
TopName(p) == p.name[Len(p.name)]

(* What _notify() sends of a profiler in state p.                          *)
Mut_NotificationAfterPop(p, n, phase) ==
  LET q == IF phase = "stop" THEN [p EXCEPT !.trace_stack = Popped(@)] ELSE p
  IN [name      |-> n,
      phase     |-> phase,
      base_id   |-> get_base_id(q),
      trace_id  |-> get_id(q),
      parent_id |-> get_parent_id(q)]
Notification(p, n, phase) ==
  [name      |-> n,
   phase     |-> phase,
   base_id   |-> get_base_id(p),
   trace_id  |-> get_id(p),
   parent_id |-> get_parent_id(p)]

(* start() pushes on both stacks before it notifies, so what it pushed     *)
(* stays when the notifier raises.                                         *)
Pushed(p, n) == [trace_stack |-> Append(p.trace_stack, next_id),
                 name        |-> Append(p.name, n)]

(* stop() pops the name to build the notification and the id only once the *)
(* notifier has returned: when it raises, the id stays.                    *)
Mut_StackAfterStopKept(p, o) == p.trace_stack
StackAfterStop(p, o) ==
  IF o.raised THEN p.trace_stack ELSE Popped(p.trace_stack)
Mut_AfterStopNameLast(p, o) ==
  [trace_stack |-> Popped(p.trace_stack),
   name        |-> IF o.raised THEN p.name ELSE Popped(p.name)]
AfterStop(p, o) == [trace_stack |-> StackAfterStop(p, o),
                    name        |-> Popped(p.name)]

(* notifier.notify() of one record.                                        *)
Notify(r, o) == collector' = IF o.stored THEN Append(collector, r) ELSE collector

-----------------------------------------------------------------------------
(* The functions of the module, called by thread t.                        *)

Init == /\ local = [t \in Threads |-> None]
        /\ collector = << >>
        /\ next_id = 1

(* init(): a thread that has a profiler keeps it, ids included.            *)
InitProfiler(t, base, parent) ==
  /\ local[t] = None
  /\ base = None => next_id <= MaxIds
  /\ local' = [local EXCEPT ![t] = NewProfiler(base, parent)]
  /\ next_id' = IF base = None THEN next_id + 1 ELSE next_id
  /\ UNCHANGED collector

KeepProfiler(t) == local[t] # None /\ UNCHANGED vars

(* start() and stop() of a thread without a profiler do nothing.           *)
NotProfiled(t) == local[t] = None /\ UNCHANGED vars

Start(t, n, o) ==
  /\ local[t] # None
  /\ next_id <= MaxIds
  /\ local' = [local EXCEPT ![t] = Pushed(@, n)]
  /\ next_id' = next_id + 1
  /\ Notify(Notification(Pushed(local[t], n), n, "start"), o)

(* stop() of a profiler with no open point returns at its guard.           *)
StopUnmatched(t) ==
  /\ local[t] # None
  /\ local[t].name = << >>
  /\ UNCHANGED vars

Stop(t, o) ==
  /\ local[t] # None
  /\ local[t].name # << >>
  /\ local' = [local EXCEPT ![t] = AfterStop(@, o)]
  /\ Notify(Notification(local[t], TopName(local[t]), "stop"), o)
  /\ UNCHANGED next_id

Clean(t) ==
  /\ local' = [local EXCEPT ![t] = None]
  /\ UNCHANGED <<collector, next_id>>

(* init() is called with ids that came from outside, or with those of the  *)
(* profiler of another thread, as get_trace_id_headers() publishes them.   *)
InitFromOutside(t) ==
  \E base \in ForeignIds \cup {None}, parent \in ForeignIds \cup {None} :
    InitProfiler(t, base, parent)

InitFromThread(t, u) ==
  /\ local[u] # None
  /\ InitProfiler(t, get_base_id(local[u]), get_id(local[u]))

Next ==
  \E t \in Threads :
    \/ InitFromOutside(t)
    \/ \E u \in Threads : InitFromThread(t, u)
    \/ KeepProfiler(t)
    \/ NotProfiled(t)
    \/ \E n \in Names, o \in Outcomes : Start(t, n, o)
    \/ StopUnmatched(t)
    \/ \E o \in Outcomes : Stop(t, o)
    \/ Clean(t)

Spec == Init /\ [][Next]_vars

-----------------------------------------------------------------------------
(* Properties.                                                             *)

(* The types of the variables; how high the stacks are is the subject of   *)
(* StackAboveNames.                                                        *)
TypeOK ==
  /\ local \in [Threads -> Profilers \cup {None}]
  /\ collector \in Seq(Notifications)
  /\ next_id \in 1 .. (MaxIds + 1)

(* stop() pops the two stacks in step: while the notifier never raises, a  *)
(* profiler has exactly one id per open name above the two of __init__.    *)
StackMatchesNames ==
  \A t \in Threads : local[t] # None =>
    Len(local[t].trace_stack) = Len(local[t].name) + 2

(* Whatever the notifier does, the guard of stop() on `_name' alone keeps  *)
(* it from popping the ids of __init__: there is an id for every name.     *)
StackAboveNames ==
  \A t \in Threads : local[t] # None =>
    Len(local[t].trace_stack) >= Len(local[t].name) + 2

(* Whatever the notifier does, every record is of a point this process     *)
(* generated, younger than its parent: no point is its own ancestor, so    *)
(* the report's tree has no cycle.                                         *)
ParentOlder ==
  \A i \in DOMAIN collector :
    collector[i].trace_id > 0 /\ collector[i].parent_id < collector[i].trace_id

(* Whatever the notifier does, all records of one point, started and       *)
(* stopped, name the same trace and the same parent.                       *)
OnePlacePerPoint ==
  \A i, j \in DOMAIN collector :
    collector[i].trace_id = collector[j].trace_id =>
      /\ collector[i].base_id = collector[j].base_id
      /\ collector[i].parent_id = collector[j].parent_id

(* Whatever the notifier does, a record of a point's child is in the same  *)
(* trace as the point, handed over between threads or not: the base id     *)
(* finds the whole tree.                                                   *)
TreeStaysInTrace ==
  \A i, j \in DOMAIN collector :
    collector[i].parent_id = collector[j].trace_id =>
      collector[i].base_id = collector[j].base_id

(* The refinement: the records are the points, the top of `_trace_stack'   *)
(* is the current one.                                                     *)
PointOf(r) == [name |-> r.name, base_id |-> r.base_id,
               trace_id |-> r.trace_id, parent_id |-> r.parent_id]
Recorded(phase) ==
  {PointOf(collector[i]) : i \in {j \in DOMAIN collector : collector[j].phase = phase}}
SessionOf(p) == IF p = None THEN None
                ELSE [base_id |-> get_base_id(p), root |-> p.trace_stack[2], id |-> get_id(p)]
Sessions == [t \in Threads |-> SessionOf(local[t])]

Tree == INSTANCE ProfileTree WITH
  point    <- Recorded("start"),
  finished <- Recorded("stop"),
  current  <- Sessions

(* While the notifier delivers, the two stacks of profiler.py implement    *)
(* the tree of points: each is recorded once when it starts below the      *)
(* current point, and once when it, the current one, stops.                *)
ImplementsTree == Tree!Spec
=============================================================================
