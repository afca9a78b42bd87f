---------------------------- MODULE TracePoints ----------------------------
(***************************************************************************)
(* The ways a program opens and closes trace points, composed with the     *)
(* profiler: the `trace' decorator, `with Trace(..)', the patched          *)
(* HTTPAdapter.send of requests.py and the WsgiMiddleware of web.py.  Each *)
(* thread runs nested calls, any of which may raise an exception that      *)
(* unwinds the calls around it until the application catches it.           *)
(*                                                                         *)
(* A profiler belongs to its thread, so what one call does to it between   *)
(* two lines of the application is one step.                               *)
(***************************************************************************)
EXTENDS Profiler, SequencesExt

CONSTANTS
  Kinds,      \* which of the four the program uses
  WsgiName,   \* the name of the middleware's points, "wsgi"
  OutsideHeaders, \* what requests of other services carry in their headers
  NestedWsgi, \* whether the middleware may run inside itself, on one thread
  MaxDepth    \* BOUND: nested traced calls of a thread

AppNames == Names \ {WsgiName}
ForeignHeaders == [base_id : ForeignIds, parent_id : ForeignIds \cup {None}]
AllKinds == {"trace", "with", "requests", "wsgi"}

ASSUME KindsAssumption == Kinds \subseteq AllKinds
ASSUME WsgiNameAssumption == WsgiName \in Names
ASSUME OutsideHeadersAssumption == OutsideHeaders \subseteq ForeignHeaders
ASSUME MaxDepthAssumption == MaxDepth \in Nat /\ NestedWsgi \in BOOLEAN

VARIABLES
  calls,    \* of every thread, its traced calls in progress, innermost last
  raising   \* whether an exception is propagating in the thread

callVars == <<local, collector, next_id, calls, raising>>

(* A call is of a kind, with a name; point is the id of its trace point,   *)
(* None when the thread had no profiler; header is what the middleware     *)
(* read from the request, None for the other kinds.                        *)

-----------------------------------------------------------------------------
(* profiler.start() and profiler.stop() on the profiler p of the thread,   *)
(* which may be None: the profiler after the call, what the collector      *)
(* stores, and whether the call raises.                                    *)

Started(p, n) == IF p = None THEN None ELSE Pushed(p, n)
StartRecords(p, n, o) ==
  IF p # None /\ o.stored THEN <<Notification(Pushed(p, n), n, "start")>> ELSE << >>
StartRaises(p, o) == p # None /\ o.raised
PointOfStart(p) == IF p = None THEN None ELSE next_id

CanStop(p) == p # None /\ p.name # << >>
Stopped(p, o) == IF CanStop(p) THEN AfterStop(p, o) ELSE p
StopRecords(p, o) ==
  IF CanStop(p) /\ o.stored THEN <<Notification(p, TopName(p), "stop")>> ELSE << >>
StopRaises(p, o) == CanStop(p) /\ o.raised

(* profiler.init() inside the middleware.                                  *)
Inited(p, base, parent) == IF p = None THEN NewProfiler(base, parent) ELSE p

CountId(p) == next_id' = IF p = None THEN next_id ELSE next_id + 1
SetLocal(t, p) == local' = [local EXCEPT ![t] = p]
SetRaising(t, b) == raising' = [raising EXCEPT ![t] = b]
PushCall(t, f) == calls' = [calls EXCEPT ![t] = Append(@, f)]
PopCall(t) == calls' = [calls EXCEPT ![t] = Popped(@)]

MayEnter(t, kind, p) ==
  /\ kind \in Kinds
  /\ ~raising[t]
  /\ Len(calls[t]) < MaxDepth
  /\ p # None => next_id <= MaxIds

-----------------------------------------------------------------------------
CallInit == /\ Init
            /\ calls = [t \in Threads |-> << >>]
            /\ raising = [t \in Threads |-> FALSE]

(* A call of any of the four whose start() returns.                        *)
Enter(t, kind, n, o) ==
  /\ kind # "wsgi"
  /\ MayEnter(t, kind, local[t])
  /\ ~StartRaises(local[t], o)
  /\ SetLocal(t, Started(local[t], n))
  /\ CountId(local[t])
  /\ collector' = collector \o StartRecords(local[t], n, o)
  /\ PushCall(t, [kind |-> kind, name |-> n, header |-> None,
                  point |-> PointOfStart(local[t])])
  /\ UNCHANGED raising

(* The decorator calls start() inside its try, so when it raises the       *)
(* finally clause calls stop() before the exception reaches the caller.    *)
AfterFailedTrace(p, n, o) == Stopped(Pushed(p, n), o)

EnterTraceFails(t, n, o, oStop) ==
  /\ MayEnter(t, "trace", local[t])
  /\ StartRaises(local[t], o)
  /\ SetLocal(t, AfterFailedTrace(local[t], n, oStop))
  /\ CountId(local[t])
  /\ collector' = collector \o StartRecords(local[t], n, o)
                            \o StopRecords(Pushed(local[t], n), oStop)
  /\ SetRaising(t, TRUE)
  /\ UNCHANGED calls

(* When start() raises in Trace.__enter__ or in send(), no stop() follows. *)
EnterFails(t, kind, n, o) ==
  /\ kind \in {"with", "requests"}
  /\ MayEnter(t, kind, local[t])
  /\ StartRaises(local[t], o)
  /\ SetLocal(t, Pushed(local[t], n))
  /\ CountId(local[t])
  /\ collector' = collector \o StartRecords(local[t], n, o)
  /\ SetRaising(t, TRUE)
  /\ UNCHANGED calls

(* The middleware on a request with valid headers: init() and the          *)
(* __enter__ of Trace.  When that raises, the finally clause cleans.       *)
InMiddleware(t) == \E i \in DOMAIN calls[t] : calls[t][i].kind = "wsgi"

Mut_AfterFailedWsgi(p) == Pushed(p, WsgiName)
AfterFailedWsgi(p) == None

EnterWsgi(t, h, o) ==
  LET p == Inited(local[t], h.base_id, h.parent_id) IN
  /\ MayEnter(t, "wsgi", p)
  /\ InMiddleware(t) => NestedWsgi
  /\ next_id' = next_id + 1
  /\ collector' = collector \o StartRecords(p, WsgiName, o)
  /\ \/ /\ ~o.raised
        /\ SetLocal(t, Pushed(p, WsgiName))
        /\ PushCall(t, [kind |-> "wsgi", name |-> WsgiName, header |-> h,
                         point |-> next_id])
        /\ UNCHANGED raising
     \/ /\ o.raised
        /\ SetLocal(t, AfterFailedWsgi(p))
        /\ SetRaising(t, TRUE)
        /\ UNCHANGED calls

(* The headers of a request: from another service, or those that send() in *)
(* some thread of this process attached while it waits for the response.   *)
Requesting(u) ==
  /\ calls[u] # << >> /\ Last(calls[u]).kind = "requests"
  /\ ~raising[u]
  /\ local[u] # None

get_trace_id_headers(p) == [base_id |-> get_base_id(p), parent_id |-> get_id(p)]

Serve(t, o) ==
  \/ \E h \in OutsideHeaders : EnterWsgi(t, h, o)
  \/ \E u \in Threads : /\ Requesting(u)
                        /\ EnterWsgi(t, get_trace_id_headers(local[u]), o)

(* What a returning call does with the profiler: stop(), and the           *)
(* middleware's finally clause clean() even when stop() raised.            *)
Mut_AfterReturn(kind, p, o) ==
  IF kind = "wsgi" /\ ~StopRaises(p, o) THEN None ELSE Stopped(p, o)
AfterReturn(kind, p, o) == IF kind = "wsgi" THEN None ELSE Stopped(p, o)

Leave(t, o) ==
  /\ ~raising[t]
  /\ calls[t] # << >>
  /\ SetLocal(t, AfterReturn(Last(calls[t]).kind, local[t], o))
  /\ collector' = collector \o StopRecords(local[t], o)
  /\ SetRaising(t, StopRaises(local[t], o))
  /\ PopCall(t)
  /\ UNCHANGED next_id

(* The application raises an exception in its innermost call, or catches   *)
(* the one that propagates.                                                *)
Raise(t) ==
  /\ calls[t] # << >>
  /\ ~raising[t]
  /\ SetRaising(t, TRUE)
  /\ UNCHANGED <<local, collector, next_id, calls>>

Catch(t) ==
  /\ raising[t]
  /\ SetRaising(t, FALSE)
  /\ UNCHANGED <<local, collector, next_id, calls>>

(* The exception leaves a call: the decorator, Trace and the middleware    *)
(* stop in a finally clause or in __exit__, send() has neither.            *)
Mut_StopsOnException(kind) == kind = "wsgi"
StopsOnException(kind) == kind # "requests"

Unwind(t, o) ==
  /\ raising[t]
  /\ calls[t] # << >>
  /\ IF StopsOnException(Last(calls[t]).kind)
       THEN /\ SetLocal(t, AfterReturn(Last(calls[t]).kind, local[t], o))
            /\ collector' = collector \o StopRecords(local[t], o)
       ELSE UNCHANGED <<local, collector>>
  /\ PopCall(t)
  /\ UNCHANGED <<next_id, raising>>

AppStep(t) ==
  \/ \E kind \in Kinds, n \in AppNames, o \in Outcomes : Enter(t, kind, n, o)
  \/ \E n \in AppNames, o, oStop \in Outcomes : EnterTraceFails(t, n, o, oStop)
  \/ \E kind \in Kinds, n \in AppNames, o \in Outcomes : EnterFails(t, kind, n, o)
  \/ \E o \in Outcomes : Leave(t, o)
  \/ Raise(t)
  \/ Catch(t)
  \/ \E o \in Outcomes : Unwind(t, o)

CallStep(t) == AppStep(t) \/ \E o \in Outcomes : Serve(t, o)

CallNext == \E t \in Threads : CallStep(t)

CallSpec == CallInit /\ [][CallNext]_callVars

-----------------------------------------------------------------------------
(* Properties.                                                             *)

(* Whatever the notifier and the calls do, a thread that serves nothing    *)
(* has no profiler: the next request it serves cannot join the last trace. *)
IdleThreadsClean ==
  \A t \in Threads : calls[t] = << >> => local[t] = None

(* Whatever the notifier and the calls do, the profiler of a thread that   *)
(* serves one request is that of the request's headers: init(), which      *)
(* keeps a profiler it finds, never finds that of an earlier request.      *)
Middlewares(t) == {i \in DOMAIN calls[t] : calls[t][i].kind = "wsgi"}
JoinedTrace(p) == [base_id |-> get_base_id(p), parent_id |-> p.trace_stack[2]]
AskedTrace(h) == [h EXCEPT !.parent_id = IF @ = None THEN h.base_id ELSE @]
RequestJoinsItsTrace ==
  \A t \in Threads, i \in 1 .. MaxDepth :
    Middlewares(t) = {i} /\ local[t] # None =>
      JoinedTrace(local[t]) = AskedTrace(calls[t][i].header)
=============================================================================
