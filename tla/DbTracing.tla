----------------------------- MODULE DbTracing -----------------------------
(***************************************************************************)
(* SQLAlchemy's statements as trace points: the listeners that             *)
(* osprofiler/sqlalchemy.py adds to an engine, wrap_session(), which adds  *)
(* them to an engine that has none, and the traced calls of TracePoints    *)
(* around the statements.  The threads share one engine; the notifier      *)
(* delivers.                                                               *)
(*                                                                         *)
(* External, as SQLAlchemy does it: a statement runs the before listeners, *)
(* then the cursor, then the after listeners, or on an error the           *)
(* handle_error listeners; handle_error is also called for errors outside  *)
(* of a statement (connecting, committing); listening twice with the same  *)
(* function counts once, with two closures twice.                          *)
(***************************************************************************)
EXTENDS TracePoints

CONSTANT DbName     \* the name given to add_tracing, "db" in wrap_session

ASSUME DbNameAssumption == DbName \in Names
ASSUME NoSequenceAssumption == None \notin Seq(Ids)

VARIABLES
  engine,     \* how many before and after listeners it has, whether it has
              \* handle_error, and whether it is marked as traced
  disabled,   \* _DISABLED
  session,    \* where each thread is in wrap_session(): "none", "before",
              \* "after", "error", "mark", or, in its body, "open"
  statement,  \* of every thread, the points that the running statement
              \* started, None between statements
  overlapped, \* HISTORY: listeners were added to an engine that had some
              \* already, or that another thread was about to give some
  leaked,     \* HISTORY: a statement stopped less points than it started
  overrun     \* HISTORY: a statement or an error stopped more

dbVars == <<engine, disabled, session, statement, overlapped, leaked, overrun>>

Attaching == {"before", "after", "error", "mark"}

-----------------------------------------------------------------------------
(* profiler.start() for each before listener, profiler.stop() for each     *)
(* after listener or for the error.                                        *)

StartedIds == [i \in 1 .. engine.before |-> next_id + i - 1]
AfterStarts(p, k) ==
  [trace_stack |-> p.trace_stack \o [i \in 1 .. k |-> next_id + i - 1],
   name        |-> p.name \o [i \in 1 .. k |-> DbName]]
StartsRecords(p) ==
  [i \in DOMAIN StartedIds |-> Notification(AfterStarts(p, i), DbName, "start")]

(* stop() does nothing when no point is open.                              *)
Stops(p, k) == IF k <= Len(p.name) THEN k ELSE Len(p.name)
AfterStops(p, k) ==
  [trace_stack |-> SubSeq(p.trace_stack, 1, Len(p.trace_stack) - k),
   name        |-> SubSeq(p.name, 1, Len(p.name) - k)]
StopsRecords(p, k) ==
  [i \in 1 .. k |-> LET q == AfterStops(p, i - 1) IN Notification(q, TopName(q), "stop")]

(* The stops at the end of a statement, or of an error outside of one.     *)
DoStops(t, k, started) ==
  /\ SetLocal(t, AfterStops(local[t], Stops(local[t], k)))
  /\ collector' = collector \o StopsRecords(local[t], Stops(local[t], k))
  /\ leaked' = (leaked \/ k < started)
  /\ overrun' = (overrun \/ k > started)

-----------------------------------------------------------------------------
Bare  == [before |-> 0, after |-> 0, error |-> FALSE, traced |-> FALSE]
(* An engine to which the service itself has applied add_tracing(), which  *)
(* does not mark it.                                                       *)
Added == [before |-> 1, after |-> 1, error |-> TRUE, traced |-> FALSE]

DbInit == /\ CallInit
          /\ engine \in {Bare, Added}
          /\ disabled = FALSE
          /\ session = [t \in Threads |-> "none"]
          /\ statement = [t \in Threads |-> None]
          /\ overlapped = FALSE
          /\ leaked = FALSE
          /\ overrun = FALSE

SetSession(t, s) == session' = [session EXCEPT ![t] = s]

(* wrap_session(): the check of the engine's mark and of _DISABLED.  The   *)
(* session that the thread had before, if any, is over; its end leaves     *)
(* everything here alone.                                                  *)
AnyListening == engine.before > 0 \/ \E u \in Threads : session[u] \in Attaching
Mut_IsTraced(e) == FALSE
IsTraced(e) == e.traced

WrapSession(t) ==
  /\ session[t] \in {"none", "open"}
  /\ statement[t] = None
  /\ SetSession(t, IF IsTraced(engine) THEN "open"
                   ELSE IF disabled THEN "mark" ELSE "before")
  /\ overlapped' = (overlapped \/ (~engine.traced /\ AnyListening))
  /\ UNCHANGED <<callVars, engine, disabled, statement, leaked, overrun>>

(* The three calls of listen() in add_tracing().                           *)
ListenBefore(t) == /\ session[t] = "before"
                   /\ engine' = [engine EXCEPT !.before = @ + 1]
                   /\ SetSession(t, "after")
ListenAfter(t) == /\ session[t] = "after"
                  /\ engine' = [engine EXCEPT !.after = @ + 1]
                  /\ SetSession(t, "error")
ListenError(t) == /\ session[t] = "error"
                  /\ engine' = [engine EXCEPT !.error = TRUE]
                  /\ SetSession(t, "mark")

(* The mark is set when add_tracing() has returned, whether it added       *)
(* listeners or, while disabled, none; the body of the session follows.    *)
Mark(t) == /\ session[t] = "mark"
           /\ engine' = [engine EXCEPT !.traced = TRUE]
           /\ SetSession(t, "open")

Attach(t) ==
  /\ \/ ListenBefore(t)
     \/ ListenAfter(t)
     \/ ListenError(t)
     \/ Mark(t)
  /\ UNCHANGED <<callVars, disabled, statement, overlapped, leaked, overrun>>

(* disable() and enable() of the module.                                   *)
Switch == /\ disabled' = ~disabled
          /\ UNCHANGED <<callVars, engine, session, statement, overlapped, leaked, overrun>>

-----------------------------------------------------------------------------
(* Statements of a thread without a profiler run the listeners to no       *)
(* effect, and are left out.                                               *)
InSession(t) == /\ session[t] = "open"
                /\ statement[t] = None
                /\ local[t] # None
                /\ ~raising[t]

BeginStatement(t) ==
  /\ InSession(t)
  /\ next_id + engine.before - 1 <= MaxIds
  /\ SetLocal(t, AfterStarts(local[t], engine.before))
  /\ collector' = collector \o StartsRecords(local[t])
  /\ next_id' = next_id + engine.before
  /\ statement' = [statement EXCEPT ![t] = StartedIds]
  /\ UNCHANGED <<calls, raising, engine, disabled, session, overlapped, leaked, overrun>>

EndStatement(t) ==
  /\ statement[t] # None
  /\ DoStops(t, engine.after, Len(statement[t]))
  /\ statement' = [statement EXCEPT ![t] = None]
  /\ UNCHANGED <<next_id, calls, raising, engine, disabled, session, overlapped>>

(* The listener stops one point, whatever the number of starts.            *)
Mut_ErrorStops(e) == 0
ErrorStops(e) == IF e.error THEN 1 ELSE 0

FailStatement(t) ==
  /\ statement[t] # None
  /\ DoStops(t, ErrorStops(engine), Len(statement[t]))
  /\ statement' = [statement EXCEPT ![t] = None]
  /\ SetRaising(t, TRUE)
  /\ UNCHANGED <<next_id, calls, engine, disabled, session, overlapped>>

(* An error event outside of a statement.                                  *)
handle_error(t) ==
  /\ InSession(t)
  /\ DoStops(t, ErrorStops(engine), 0)
  /\ SetRaising(t, TRUE)
  /\ UNCHANGED <<next_id, calls, engine, disabled, session, statement, overlapped>>

(* The application's own calls, outside of wrap_session() and statements.  *)
OwnCall(t) ==
  /\ session[t] \notin Attaching
  /\ statement[t] = None
  /\ CallStep(t)
  /\ UNCHANGED dbVars

DbNext ==
  \/ Switch
  \/ \E t \in Threads : \/ OwnCall(t)
                        \/ WrapSession(t)
                        \/ Attach(t)
                        \/ BeginStatement(t)
                        \/ EndStatement(t)
                        \/ FailStatement(t)
                        \/ handle_error(t)

DbSpec == DbInit /\ [][DbNext]_<<callVars, dbVars>>

-----------------------------------------------------------------------------
(* Properties.                                                             *)

(* However sessions are opened by many threads, and tracing switched, an   *)
(* engine gets its listeners once unless two of them were opening at the   *)
(* same time or add_tracing() was applied before; only then does a         *)
(* statement leave a start over.  Once nobody is adding, each start has    *)
(* its stop and its error handler.                                         *)
ListenersPaired ==
  /\ engine.before > 1 \/ leaked => overlapped
  /\ (\A t \in Threads : session[t] \notin Attaching) =>
       engine.after = engine.before /\ engine.error = (engine.before > 0)

(* Between and within statements, through errors of both and exceptions of *)
(* calls, the stack of a thread's profiler is the points of its calls in   *)
(* progress and of its statement, and no other, while nothing was stopped  *)
(* too often or too rarely.                                                *)
Unprofiled(t) == Cardinality({i \in DOMAIN calls[t] : calls[t][i].point = None})
PointsInProgress(t) ==
  SubSeq([i \in DOMAIN calls[t] |-> calls[t][i].point], Unprofiled(t) + 1, Len(calls[t]))
    \o (IF statement[t] = None THEN << >> ELSE statement[t])
StackMirrorsCalls ==
  ~leaked /\ ~overrun =>
    \A t \in Threads : local[t] # None =>
      /\ SubSeq(local[t].trace_stack, 3, Len(local[t].trace_stack)) = PointsInProgress(t)
      /\ Len(local[t].name) = Len(PointsInProgress(t))

(* "Every trace point creates 2 records": the point of a call or statement *)
(* that is over was started once and stopped once, in this order, even     *)
(* when stray errors stopped points of calls too early; only starts that   *)
(* were left over break it.                                                *)
LivePoints == UNION {Range(PointsInProgress(t)) : t \in Threads}
RecordsOf(id, phase) ==
  {i \in DOMAIN collector : collector[i].trace_id = id /\ collector[i].phase = phase}
Recorded2(id) ==
  \E i, j \in DOMAIN collector :
    /\ i < j
    /\ RecordsOf(id, "start") = {i}
    /\ RecordsOf(id, "stop") = {j}
TwoRecords ==
  ~leaked => \A i \in DOMAIN collector :
               collector[i].trace_id \notin LivePoints => Recorded2(collector[i].trace_id)
=============================================================================
