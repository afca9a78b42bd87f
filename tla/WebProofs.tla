----------------------------- MODULE WebProofs -----------------------------
(***************************************************************************)
(* Theorems about the traced calls of TracePoints and the services of Web, *)
(* for every number of threads, services and nested calls, any headers and *)
(* every behaviour of the notifier.                                        *)
(***************************************************************************)
EXTENDS Web, ProfilerProofs

-----------------------------------------------------------------------------
(* The invariant of the calls, thread by thread, of its profiler p and its *)
(* calls s: a profiler is there for a request in progress, and when there  *)
(* is one request it is in the trace that this request asks for.           *)
Headers == [base_id : Ids, parent_id : Ids \cup {None}]
Calls == [kind : AllKinds, name : Names, header : Headers \cup {None}, point : Ids \cup {None}]

ProfilerOK(p) == p = None \/ (p \in Profilers /\ WellFormed(p))
WsgiIn(s) == {i \in DOMAIN s : s[i].kind = "wsgi"}
Served(p, s) == p # None => WsgiIn(s) # {}
Joined(p, s) ==
  \A i \in DOMAIN s : WsgiIn(s) = {i} /\ p # None =>
    s[i].header \in Headers /\ JoinedTrace(p) = AskedTrace(s[i].header)
ThreadOK(p, s) == ProfilerOK(p) /\ s \in Seq(Calls) /\ Served(p, s) /\ Joined(p, s)

CallInv ==
  /\ next_id \in 1 .. (MaxIds + 1)
  /\ local \in [Threads -> Profilers \cup {None}]
  /\ calls \in [Threads -> Seq(Calls)]
  /\ \A t \in Threads : ThreadOK(local[t], calls[t])

-----------------------------------------------------------------------------
(* The invariant of the keys.  During the upgrade all services accept the  *)
(* user's key, and as long as some profiler signs with the old key, they   *)
(* all accept it.                                                          *)
KeySets == {{OldKey}, {OldKey, NewKey}, {NewKey}}
Globals == [enabled : BOOLEAN \cup {None}, hmac_keys : KeySets \cup {{}, None}]
Options == [enabled : BOOLEAN, hmac_keys : KeySets \cup {{}}]

KeysInv ==
  /\ web \in [Services -> Globals] /\ paste \in [Services -> Options]
  /\ hmac_key \in [Threads -> {None, OldKey, NewKey}]
  /\ user_key \in {OldKey, NewKey}
  /\ \A s \in Services : IF s \in ByConf THEN web[s].hmac_keys \in KeySets
                         ELSE /\ web[s].hmac_keys \in {None, {}}
                              /\ paste[s].hmac_keys \in KeySets

UpgradeInv ==
  /\ \A s \in Services : user_key \in AcceptedKeys(s)
  /\ \A t \in Threads : local[t] # None => hmac_key[t] # None
  /\ \A t \in Threads : hmac_key[t] = OldKey => \A s \in Services : OldKey \in AcceptedKeys(s)
  /\ \A t \in Threads : hmac_key[t] = NewKey => user_key = NewKey

WebInv == CallInv /\ KeysInv /\ UpgradeInv

-----------------------------------------------------------------------------
(* The profiler of a thread: start() and stop() leave it in its trace.     *)

Follows(q, p) == q = None \/ (p # None /\ JoinedTrace(q) = JoinedTrace(p))

LEMMA StackOfProfiler ==
  ASSUME NEW p \in Profilers, WellFormed(p)
  PROVE  /\ p.trace_stack \in Seq(Ids) /\ p.name \in Seq(Names)
         /\ Len(p.trace_stack) \in Nat /\ Len(p.name) \in Nat
         /\ Len(p.trace_stack) >= 2 /\ Len(p.trace_stack) >= Len(p.name) + 2
         /\ p # None
<1>1. p.trace_stack \in Seq(Ids) /\ p.name \in Seq(Names) /\ p # None
  BY NoneAssumption DEF Profilers
<1>. QED BY <1>1 DEF WellFormed

LEMMA PushedFollows ==
  ASSUME NEW p \in Profilers, WellFormed(p), NEW n \in Names, next_id \in Ids
  PROVE  /\ ProfilerOK(Pushed(p, n)) /\ Pushed(p, n) \in Profilers
         /\ WellFormed(Pushed(p, n)) /\ Follows(Pushed(p, n), p)
<1>1. Pushed(p, n) \in Profilers /\ WellFormed(Pushed(p, n))
  BY PushedType
<1>2. JoinedTrace(Pushed(p, n)) = JoinedTrace(p)
  BY StackOfProfiler DEF JoinedTrace, get_base_id, Pushed
<1>. QED BY <1>1, <1>2, StackOfProfiler DEF ProfilerOK, Follows

LEMMA AfterStopFollows ==
  ASSUME NEW p \in Profilers, WellFormed(p), p.name # << >>, NEW o \in AllOutcomes
  PROVE  ProfilerOK(AfterStop(p, o)) /\ Follows(AfterStop(p, o), p)
<1>1. AfterStop(p, o) \in Profilers /\ WellFormed(AfterStop(p, o))
  BY AfterStopType
<1>2. /\ p.trace_stack \in Seq(Ids) /\ Len(p.trace_stack) \in Nat
      /\ Len(p.trace_stack) >= 3 /\ p.trace_stack # << >>
  <2>1. Len(p.name) > 0
    BY StackOfProfiler
  <2>. QED BY <2>1, StackOfProfiler
<1>3. /\ Popped(p.trace_stack)[1] = p.trace_stack[1]
      /\ Popped(p.trace_stack)[2] = p.trace_stack[2]
  BY <1>2, PoppedProperties
<1>4. JoinedTrace(AfterStop(p, o)) = JoinedTrace(p)
  BY <1>3 DEF JoinedTrace, get_base_id, AfterStop, StackAfterStop
<1>. QED BY <1>1, <1>4, StackOfProfiler DEF ProfilerOK, Follows

LEMMA FollowsItself ==
  ASSUME NEW p
  PROVE  Follows(p, p)
BY DEF Follows

LEMMA StoppedFollows ==
  ASSUME NEW p, ProfilerOK(p), NEW o \in AllOutcomes
  PROVE  ProfilerOK(Stopped(p, o)) /\ Follows(Stopped(p, o), p)
<1>1. CASE CanStop(p)
  <2>1. p \in Profilers /\ WellFormed(p) /\ p.name # << >>
    BY <1>1 DEF CanStop, ProfilerOK
  <2>. QED BY <1>1, <2>1, AfterStopFollows DEF Stopped
<1>2. CASE ~CanStop(p)
  BY <1>2, FollowsItself DEF Stopped
<1>. QED BY <1>1, <1>2

LEMMA StartedFollows ==
  ASSUME NEW p, ProfilerOK(p), NEW n \in Names, p # None => next_id \in Ids
  PROVE  ProfilerOK(Started(p, n)) /\ Follows(Started(p, n), p)
BY PushedFollows, FollowsItself DEF Started, ProfilerOK

-----------------------------------------------------------------------------
(* The calls of a thread: how they grow and shrink under its profiler.     *)

LEMMA NoProfilerOK ==
  ASSUME NEW s \in Seq(Calls)
  PROVE  ThreadOK(None, s)
BY DEF ThreadOK, ProfilerOK, Served, Joined

LEMMA SameCallsOK ==
  ASSUME NEW p, NEW s, ThreadOK(p, s), NEW q, ProfilerOK(q), Follows(q, p)
  PROVE  ThreadOK(q, s)
BY DEF ThreadOK, Served, Joined, Follows

LEMMA WsgiInAppend ==
  ASSUME NEW s \in Seq(Calls), NEW f \in Calls
  PROVE  /\ Append(s, f) \in Seq(Calls)
         /\ \A i \in DOMAIN s : i \in DOMAIN Append(s, f) /\ Append(s, f)[i] = s[i]
         /\ Len(s) + 1 \in DOMAIN Append(s, f) /\ Append(s, f)[Len(s) + 1] = f
         /\ Len(s) + 1 \notin DOMAIN s
         /\ WsgiIn(Append(s, f)) =
              IF f.kind = "wsgi" THEN WsgiIn(s) \cup {Len(s) + 1} ELSE WsgiIn(s)
<1>1. /\ Len(s) \in Nat /\ DOMAIN s = 1 .. Len(s)
      /\ DOMAIN Append(s, f) = 1 .. (Len(s) + 1)
      /\ Append(s, f) \in Seq(Calls)
      /\ \A i \in 1 .. Len(s) : Append(s, f)[i] = s[i]
      /\ Append(s, f)[Len(s) + 1] = f
  OBVIOUS
<1>2. DOMAIN Append(s, f) = DOMAIN s \cup {Len(s) + 1}
  BY <1>1
<1>. QED BY <1>1, <1>2 DEF WsgiIn

LEMMA WsgiInPopped ==
  ASSUME NEW s \in Seq(Calls), s # << >>
  PROVE  /\ Popped(s) \in Seq(Calls)
         /\ \A i \in DOMAIN Popped(s) : i \in DOMAIN s /\ Popped(s)[i] = s[i]
         /\ Last(s).kind # "wsgi" => WsgiIn(Popped(s)) = WsgiIn(s)
<1>1. /\ Len(s) \in Nat /\ Len(s) > 0 /\ DOMAIN s = 1 .. Len(s)
      /\ Popped(s) \in Seq(Calls)
      /\ Len(Popped(s)) = Len(s) - 1
      /\ \A i \in 1 .. (Len(s) - 1) : Popped(s)[i] = s[i]
  BY PoppedProperties
<1>2. DOMAIN Popped(s) = 1 .. (Len(s) - 1)
  BY <1>1
<1>3. DOMAIN s = DOMAIN Popped(s) \cup {Len(s)}
  BY <1>1, <1>2
<1>. QED BY <1>1, <1>2, <1>3 DEF WsgiIn, Last

LEMMA PushCallOK ==
  ASSUME NEW p, NEW s, ThreadOK(p, s), NEW q, ProfilerOK(q), Follows(q, p),
         NEW f \in Calls, f.kind # "wsgi"
  PROVE  ThreadOK(q, Append(s, f))
<1>1. ThreadOK(q, s) /\ s \in Seq(Calls)
  BY SameCallsOK DEF ThreadOK
<1>2. /\ Append(s, f) \in Seq(Calls)
      /\ \A i \in DOMAIN s : Append(s, f)[i] = s[i]
      /\ WsgiIn(Append(s, f)) = WsgiIn(s)
  BY <1>1, WsgiInAppend
<1>3. \A i : WsgiIn(s) = {i} => i \in DOMAIN s
  BY DEF WsgiIn
<1>. QED BY <1>1, <1>2, <1>3 DEF ThreadOK, Served, Joined

LEMMA PopCallOK ==
  ASSUME NEW p, NEW s, ThreadOK(p, s), NEW q, ProfilerOK(q), Follows(q, p),
         s # << >>, Last(s).kind # "wsgi"
  PROVE  ThreadOK(q, Popped(s))
<1>1. ThreadOK(q, s) /\ s \in Seq(Calls)
  BY SameCallsOK DEF ThreadOK
<1>2. /\ Popped(s) \in Seq(Calls)
      /\ \A i \in DOMAIN Popped(s) : i \in DOMAIN s /\ Popped(s)[i] = s[i]
      /\ WsgiIn(Popped(s)) = WsgiIn(s)
  BY <1>1, WsgiInPopped
<1>. QED BY <1>1, <1>2 DEF ThreadOK, Served, Joined

(* The middleware in a thread that serves nothing finds no profiler, and   *)
(* makes that of the request.                                              *)
LEMMA PushWsgiOK ==
  ASSUME NEW p, NEW s, ThreadOK(p, s), NEW h \in Headers, next_id \in Ids,
         NEW q, q \in Profilers, WellFormed(q), Follows(q, Inited(p, h.base_id, h.parent_id)),
         NEW f \in Calls, f.kind = "wsgi", f.header = h
  PROVE  ThreadOK(q, Append(s, f))
<1>1. s \in Seq(Calls)
  BY DEF ThreadOK
<1>2. /\ Append(s, f) \in Seq(Calls)
      /\ \A i \in DOMAIN s : Append(s, f)[i] = s[i]
      /\ Append(s, f)[Len(s) + 1] = f
      /\ Len(s) + 1 \notin DOMAIN s
      /\ WsgiIn(Append(s, f)) = WsgiIn(s) \cup {Len(s) + 1}
  BY <1>1, WsgiInAppend
<1>3. q # None
  BY StackOfProfiler
<1>4. ASSUME NEW i \in DOMAIN Append(s, f), WsgiIn(Append(s, f)) = {i}
      PROVE  /\ Append(s, f)[i].header \in Headers
             /\ JoinedTrace(q) = AskedTrace(Append(s, f)[i].header)
  <2>1. i = Len(s) + 1 /\ WsgiIn(s) = {}
    BY <1>2, <1>4 DEF WsgiIn
  <2>2. p = None
    BY <2>1 DEF ThreadOK, Served
  <2>3. JoinedTrace(q) = JoinedTrace(NewProfiler(h.base_id, h.parent_id))
    BY <1>3, <2>2 DEF Follows, Inited
  <2>4. BaseId(h.base_id) = h.base_id
    BY NoneAssumption DEF BaseId, Headers
  <2>5. JoinedTrace(NewProfiler(h.base_id, h.parent_id)) = AskedTrace(h)
    BY <2>4 DEF JoinedTrace, get_base_id, NewProfiler, AskedTrace, Headers
  <2>. QED BY <1>2, <2>1, <2>3, <2>5
<1>5. WsgiIn(Append(s, f)) # {}
  BY <1>2
<1>. QED BY <1>2, <1>4, <1>5 DEF ThreadOK, ProfilerOK, Served, Joined

-----------------------------------------------------------------------------
(* The invariant of the calls along a step.                                *)

LEMMA CallInvInit == CallInit => CallInv
<1>. SUFFICES ASSUME CallInit PROVE CallInv
  OBVIOUS
<1>1. /\ local = [t \in Threads |-> None] /\ next_id = 1
      /\ calls = [t \in Threads |-> << >>]
  BY DEF CallInit, Init
<1>2. << >> \in Seq(Calls)
  OBVIOUS
<1>3. ThreadOK(None, << >>)
  BY <1>2, NoProfilerOK
<1>. QED BY <1>1, <1>2, <1>3, MaxIdsAssumption DEF CallInv

(* A step of one thread.                                                   *)
LEMMA CallUpdate ==
  ASSUME CallInv, NEW t \in Threads, NEW p, NEW s, ThreadOK(p, s),
         local' = [local EXCEPT ![t] = p], calls' = [calls EXCEPT ![t] = s],
         next_id' \in 1 .. (MaxIds + 1)
  PROVE  CallInv'
<1>1. /\ local \in [Threads -> Profilers \cup {None}]
      /\ calls \in [Threads -> Seq(Calls)]
      /\ p \in Profilers \cup {None} /\ s \in Seq(Calls)
  BY DEF CallInv, ThreadOK, ProfilerOK
<1>2. /\ local' \in [Threads -> Profilers \cup {None}]
      /\ calls' \in [Threads -> Seq(Calls)]
  BY <1>1
<1>3. ASSUME NEW u \in Threads PROVE ThreadOK(local'[u], calls'[u])
  <2>1. CASE u = t
    BY <1>1, <2>1
  <2>2. CASE u # t
    BY <1>1, <2>2 DEF CallInv
  <2>. QED BY <2>1, <2>2
<1>. QED BY <1>2, <1>3 DEF CallInv

LEMMA CallFacts ==
  ASSUME CallInv, NEW t \in Threads
  PROVE  /\ ThreadOK(local[t], calls[t]) /\ ProfilerOK(local[t])
         /\ calls[t] \in Seq(Calls)
         /\ calls = [calls EXCEPT ![t] = calls[t]]
         /\ local = [local EXCEPT ![t] = local[t]]
         /\ next_id \in 1 .. (MaxIds + 1) /\ next_id \in Nat
         /\ next_id <= MaxIds => next_id \in Ids /\ next_id + 1 \in 1 .. (MaxIds + 1)
BY MaxIdsAssumption DEF CallInv, ThreadOK, Ids

LEMMA CountIdType ==
  ASSUME CallInv, NEW p, p # None => next_id <= MaxIds, CountId(p)
  PROVE  next_id' \in 1 .. (MaxIds + 1)
BY MaxIdsAssumption DEF CallInv, CountId

LEMMA EnterOK ==
  ASSUME CallInv, NEW t \in Threads, NEW kind \in Kinds, NEW n \in Names, NEW o \in Outcomes,
         Enter(t, kind, n, o)
  PROVE  CallInv'
<1>. DEFINE f == [kind |-> kind, name |-> n, header |-> None, point |-> PointOfStart(local[t])]
            q == Started(local[t], n)
<1>1. /\ kind # "wsgi" /\ MayEnter(t, kind, local[t]) /\ CountId(local[t])
      /\ local' = [local EXCEPT ![t] = q]
      /\ calls' = [calls EXCEPT ![t] = Append(calls[t], f)]
  BY DEF Enter, SetLocal, PushCall
<1>2. local[t] # None => next_id <= MaxIds /\ next_id \in Ids
  BY <1>1, CallFacts DEF MayEnter
<1>3. PointOfStart(local[t]) \in Ids \cup {None}
  BY <1>2 DEF PointOfStart
<1>4. f \in Calls /\ f.kind # "wsgi"
  BY <1>1, <1>3, KindsAssumption DEF Calls
<1>5. ProfilerOK(q) /\ Follows(q, local[t])
  BY <1>2, CallFacts, StartedFollows
<1>6. ThreadOK(q, Append(calls[t], f))
  BY <1>4, <1>5, CallFacts, PushCallOK
<1>7. next_id' \in 1 .. (MaxIds + 1)
  BY <1>1, <1>2, CountIdType
<1>. QED BY <1>1, <1>6, <1>7, CallUpdate

LEMMA EnterFailsOK ==
  ASSUME CallInv, NEW t \in Threads, NEW kind, NEW n \in Names, NEW o \in Outcomes,
         EnterFails(t, kind, n, o)
  PROVE  CallInv'
<1>1. /\ MayEnter(t, kind, local[t]) /\ CountId(local[t]) /\ local[t] # None
      /\ local' = [local EXCEPT ![t] = Pushed(local[t], n)]
      /\ calls' = calls
  BY DEF EnterFails, SetLocal, StartRaises
<1>2. next_id <= MaxIds /\ next_id \in Ids /\ local[t] \in Profilers /\ WellFormed(local[t])
  BY <1>1, CallFacts DEF MayEnter, ProfilerOK
<1>3. ThreadOK(Pushed(local[t], n), calls[t])
  BY <1>2, CallFacts, PushedFollows, SameCallsOK
<1>4. next_id' \in 1 .. (MaxIds + 1)
  BY <1>1, <1>2, CountIdType
<1>. QED BY <1>1, <1>3, <1>4, CallFacts, CallUpdate

LEMMA FollowsTransitive ==
  ASSUME NEW p, NEW q, NEW r, Follows(r, q), Follows(q, p)
  PROVE  Follows(r, p)
BY DEF Follows

LEMMA EnterTraceFailsOK ==
  ASSUME CallInv, NEW t \in Threads, NEW n \in Names, NEW o \in Outcomes, NEW oStop \in Outcomes,
         EnterTraceFails(t, n, o, oStop)
  PROVE  CallInv'
<1>. DEFINE p == Pushed(local[t], n)
            q == Stopped(p, oStop)
<1>1. /\ MayEnter(t, "trace", local[t]) /\ CountId(local[t]) /\ local[t] # None
      /\ local' = [local EXCEPT ![t] = q]
      /\ calls' = calls
  BY DEF EnterTraceFails, SetLocal, StartRaises, AfterFailedTrace
<1>2. next_id <= MaxIds /\ next_id \in Ids /\ local[t] \in Profilers /\ WellFormed(local[t])
  BY <1>1, CallFacts DEF MayEnter, ProfilerOK
<1>3. ProfilerOK(p) /\ Follows(p, local[t])
  BY <1>2, PushedFollows
<1>4. ProfilerOK(q) /\ Follows(q, p)
  BY <1>3, StoppedFollows, OutcomesAssumption
<1>5. Follows(q, local[t])
  BY <1>3, <1>4, FollowsTransitive
<1>6. ThreadOK(q, calls[t])
  BY <1>4, <1>5, CallFacts, SameCallsOK
<1>7. next_id' \in 1 .. (MaxIds + 1)
  BY <1>1, <1>2, CountIdType
<1>. QED BY <1>1, <1>6, <1>7, CallFacts, CallUpdate

LEMMA EnterWsgiOK ==
  ASSUME CallInv, NEW t \in Threads, NEW h \in Headers, NEW o \in Outcomes, EnterWsgi(t, h, o)
  PROVE  CallInv'
<1>. DEFINE p == Inited(local[t], h.base_id, h.parent_id)
            q == Pushed(p, WsgiName)
            f == [kind |-> "wsgi", name |-> WsgiName, header |-> h, point |-> next_id]
<1>1. /\ MayEnter(t, "wsgi", p) /\ next_id' = next_id + 1
      /\ \/ /\ local' = [local EXCEPT ![t] = q]
            /\ calls' = [calls EXCEPT ![t] = Append(calls[t], f)]
         \/ /\ local' = [local EXCEPT ![t] = None]
            /\ calls' = calls
  BY DEF EnterWsgi, SetLocal, PushCall, AfterFailedWsgi
<1>2. p \in Profilers /\ WellFormed(p)
  <2>1. CASE local[t] # None
    BY <2>1, CallFacts DEF Inited, ProfilerOK
  <2>2. CASE local[t] = None
    <3>1. h.base_id \in Ids /\ h.parent_id \in Ids \cup {None}
      BY DEF Headers
    <3>2. h.base_id # None
      BY <3>1, NoneAssumption
    <3>. QED BY <2>2, <3>1, <3>2, NewProfilerType DEF Inited
  <2>. QED BY <2>1, <2>2
<1>3. next_id \in Ids /\ next_id' \in 1 .. (MaxIds + 1)
  BY <1>1, <1>2, CallFacts, StackOfProfiler DEF MayEnter
<1>4. f \in Calls
  BY <1>3, WsgiNameAssumption DEF Calls, AllKinds
<1>5. q \in Profilers /\ WellFormed(q) /\ Follows(q, p)
  BY <1>2, <1>3, PushedFollows, WsgiNameAssumption
<1>6. ThreadOK(q, Append(calls[t], f))
  BY <1>3, <1>4, <1>5, CallFacts, PushWsgiOK
<1>7. ThreadOK(None, calls[t])
  BY CallFacts, NoProfilerOK
<1>8. CASE local' = [local EXCEPT ![t] = q] /\ calls' = [calls EXCEPT ![t] = Append(calls[t], f)]
  BY <1>3, <1>6, <1>8, CallUpdate
<1>9. CASE local' = [local EXCEPT ![t] = None] /\ calls' = calls
  <2>1. calls' = [calls EXCEPT ![t] = calls[t]]
    BY <1>9, CallFacts
  <2>. QED BY <1>3, <1>7, <1>9, <2>1, CallUpdate
<1>. QED BY <1>1, <1>8, <1>9

(* A call that ends in either way, after which the middleware cleans.      *)
LEMMA EndOfCallOK ==
  ASSUME NEW p, NEW s, ThreadOK(p, s), s # << >>, NEW o \in Outcomes
  PROVE  ThreadOK(AfterReturn(Last(s).kind, p, o), Popped(s))
<1>1. s \in Seq(Calls) /\ ProfilerOK(p) /\ Popped(s) \in Seq(Calls)
  BY WsgiInPopped DEF ThreadOK
<1>2. CASE Last(s).kind = "wsgi"
  BY <1>1, <1>2, NoProfilerOK DEF AfterReturn
<1>3. CASE Last(s).kind # "wsgi"
  <2>1. ProfilerOK(Stopped(p, o)) /\ Follows(Stopped(p, o), p)
    BY <1>1, StoppedFollows, OutcomesAssumption
  <2>. QED BY <1>3, <2>1, PopCallOK DEF AfterReturn
<1>. QED BY <1>2, <1>3

LEMMA LeaveOK ==
  ASSUME CallInv, NEW t \in Threads, NEW o \in Outcomes, Leave(t, o)
  PROVE  CallInv'
<1>1. /\ calls[t] # << >>
      /\ local' = [local EXCEPT ![t] = AfterReturn(Last(calls[t]).kind, local[t], o)]
      /\ calls' = [calls EXCEPT ![t] = Popped(calls[t])]
      /\ next_id' = next_id
  BY DEF Leave, SetLocal, PopCall
<1>. QED BY <1>1, CallFacts, EndOfCallOK, CallUpdate

LEMMA UnwindOK ==
  ASSUME CallInv, NEW t \in Threads, NEW o \in Outcomes, Unwind(t, o)
  PROVE  CallInv'
<1>1. /\ calls[t] # << >>
      /\ calls' = [calls EXCEPT ![t] = Popped(calls[t])]
      /\ next_id' = next_id
  BY DEF Unwind, PopCall
<1>2. CASE StopsOnException(Last(calls[t]).kind)
  <2>1. local' = [local EXCEPT ![t] = AfterReturn(Last(calls[t]).kind, local[t], o)]
    BY <1>2 DEF Unwind, SetLocal
  <2>. QED BY <1>1, <2>1, CallFacts, EndOfCallOK, CallUpdate
<1>3. CASE ~StopsOnException(Last(calls[t]).kind)
  <2>1. local' = local
    BY <1>3 DEF Unwind
  <2>2. Last(calls[t]).kind # "wsgi"
    BY <1>3 DEF StopsOnException
  <2>3. ThreadOK(local[t], Popped(calls[t]))
    BY <1>1, <2>2, CallFacts, FollowsItself, PopCallOK
  <2>. QED BY <1>1, <2>1, <2>3, CallFacts, CallUpdate
<1>. QED BY <1>2, <1>3

(* The headers that send() attaches are those of a profiler.               *)
LEMMA HeadersType ==
  ASSUME CallInv, NEW u \in Threads, Requesting(u)
  PROVE  get_trace_id_headers(local[u]) \in Headers
<1>1. local[u] \in Profilers /\ WellFormed(local[u])
  BY CallFacts DEF Requesting, ProfilerOK
<1>2. /\ local[u].trace_stack \in Seq(Ids) /\ Len(local[u].trace_stack) \in Nat
      /\ Len(local[u].trace_stack) >= 2
  BY <1>1, StackOfProfiler
<1>. QED BY <1>2 DEF get_trace_id_headers, get_base_id, get_id, Headers

LEMMA OutsideHeadersType == OutsideHeaders \subseteq Headers
BY OutsideHeadersAssumption DEF ForeignHeaders, Headers, Ids

LEMMA CallInvNext == CallInv /\ [CallNext]_callVars => CallInv'
<1>. SUFFICES ASSUME CallInv, [CallNext]_callVars PROVE CallInv'
  OBVIOUS
<1>1. ASSUME NEW t \in Threads, AppStep(t) PROVE CallInv'
  <2>1. ASSUME Raise(t) \/ Catch(t) PROVE CallInv'
    BY <2>1 DEF Raise, Catch, CallInv
  <2>. QED BY <1>1, <2>1, EnterOK, EnterFailsOK, EnterTraceFailsOK, LeaveOK, UnwindOK
           DEF AppStep, AppNames
<1>2. ASSUME NEW t \in Threads, NEW o \in Outcomes, Serve(t, o) PROVE CallInv'
  BY <1>2, EnterWsgiOK, HeadersType, OutsideHeadersType DEF Serve
<1>3. ASSUME UNCHANGED callVars PROVE CallInv'
  BY <1>3 DEF callVars, CallInv
<1>. QED BY <1>1, <1>2, <1>3 DEF CallNext, CallStep

LEMMA CallInvProperties == CallInv => IdleThreadsClean /\ RequestJoinsItsTrace
<1>. SUFFICES ASSUME CallInv PROVE IdleThreadsClean /\ RequestJoinsItsTrace
  OBVIOUS
<1>1. ASSUME NEW t \in Threads, calls[t] = << >> PROVE local[t] = None
  <2>1. WsgiIn(calls[t]) = {}
    BY <1>1 DEF WsgiIn
  <2>. QED BY <2>1, CallFacts DEF ThreadOK, Served
<1>2. ASSUME NEW t \in Threads, NEW i, Middlewares(t) = {i}, local[t] # None
      PROVE  JoinedTrace(local[t]) = AskedTrace(calls[t][i].header)
  <2>1. WsgiIn(calls[t]) = {i} /\ i \in DOMAIN calls[t]
    BY <1>2 DEF WsgiIn, Middlewares
  <2>. QED BY <1>2, <2>1, CallFacts DEF ThreadOK, Joined
<1>. QED BY <1>1, <1>2 DEF IdleThreadsClean, RequestJoinsItsTrace

(* However calls raise and whatever the notifier does, the decorator,      *)
(* Trace, send() and the middleware leave no profiler in a thread that has *)
(* returned from all of them.                                              *)
THEOREM NoProfilerIsLeft == CallSpec => []IdleThreadsClean
BY CallInvInit, CallInvNext, CallInvProperties, PTL DEF CallSpec

(* And so the profiler of a thread that serves one request is in the trace *)
(* of its headers, never in that of a request that the thread served       *)
(* before.                                                                 *)
THEOREM RequestsAreNotMixed == CallSpec => []RequestJoinsItsTrace
BY CallInvInit, CallInvNext, CallInvProperties, PTL DEF CallSpec

-----------------------------------------------------------------------------
(* The services call the middleware and the application as TracePoints     *)
(* does: Web refines it.                                                   *)

LEMMA AcceptIsServe ==
  ASSUME NEW t \in Threads, NEW o \in Outcomes, ServeUser(t, o) \/ ServeCall(t, o)
  PROVE  Serve(t, o)
BY DEF ServeUser, ServeCall, Accept, Serve, Requests, SentRequest

LEMMA WebStepIsCallStep == [WebNext]_<<callVars, webVars>> => [CallNext]_callVars
<1>. SUFFICES ASSUME [WebNext]_<<callVars, webVars>> PROVE [CallNext]_callVars
  OBVIOUS
<1>1. ASSUME NEW t \in Threads, ApplicationStep(t) PROVE CallNext
  BY <1>1 DEF ApplicationStep, CallNext, CallStep
<1>2. ASSUME NEW t \in Threads, NEW o \in Outcomes, ServeUser(t, o) \/ ServeCall(t, o)
      PROVE  CallNext
  BY <1>2, AcceptIsServe DEF CallNext, CallStep
<1>3. ASSUME NEW s \in Services, disable(s) \/ enable(s) \/ AddKey(s) \/ RemoveKey(s)
      PROVE  UNCHANGED callVars
  BY <1>3 DEF disable, enable, AddKey, RemoveKey, Restart
<1>4. ASSUME SwitchUser PROVE UNCHANGED callVars
  BY <1>4 DEF SwitchUser
<1>5. ASSUME UNCHANGED <<callVars, webVars>> PROVE UNCHANGED callVars
  BY <1>5
<1>. QED BY <1>1, <1>2, <1>3, <1>4, <1>5 DEF WebNext

(* Keys, switches and the upgrade add nothing to what the calls of a       *)
(* thread do to its profiler.                                              *)
THEOREM ServicesCallAsModelled == WebSpec => CallSpec
<1>1. WebInit => CallInit
  BY DEF WebInit
<1>. QED BY <1>1, WebStepIsCallStep, PTL DEF WebSpec, CallSpec

-----------------------------------------------------------------------------
(* The keys.                                                               *)

LEMMA KeySetsProperties ==
  /\ \A K \in KeySets : K # {} /\ K # None /\ K \subseteq {OldKey, NewKey}
                        /\ Stranger \notin K /\ None \notin K
  /\ None \notin {OldKey, NewKey, Stranger} /\ OldKey # NewKey
  /\ TRUE # None /\ FALSE # None /\ {} # None
<1>1. \A K \in KeySets : K \in SUBSET Keys
  BY DEF KeySets, Keys
<1>2. None \notin {OldKey, NewKey, Stranger}
  BY KeysAssumption DEF Keys
<1>3. {} \in SUBSET Keys
  OBVIOUS
<1>. QED BY <1>1, <1>2, <1>3, KeysAssumption DEF KeySets

LEMMA AcceptedKeysType ==
  ASSUME KeysInv, NEW s \in Services
  PROVE  AcceptedKeys(s) \in KeySets
BY KeySetsProperties DEF KeysInv, AcceptedKeys

(* A service is configured, by either source, with the keys ks.            *)
LEMMA StartedType ==
  ASSUME NEW s \in Services, NEW ks \in KeySets
  PROVE  /\ StartedGlobals(s, ks) \in Globals /\ StartedPaste(s, ks) \in Options
         /\ IF s \in ByConf THEN StartedGlobals(s, ks).hmac_keys \in KeySets
            ELSE /\ StartedGlobals(s, ks).hmac_keys \in {None, {}}
                 /\ StartedPaste(s, ks).hmac_keys \in KeySets
         /\ ks = IF StartedGlobals(s, ks).hmac_keys \notin {None, {}}
                 THEN StartedGlobals(s, ks).hmac_keys ELSE StartedPaste(s, ks).hmac_keys
<1>1. TRUE \in BOOLEAN /\ FALSE \in BOOLEAN
  OBVIOUS
<1>2. StartedGlobals(s, ks) \in Globals /\ StartedPaste(s, ks) \in Options
  <2>1. CASE s \in ByConf
    BY <1>1, <2>1, Zenon DEF StartedGlobals, StartedPaste, Globals, Options
  <2>2. CASE s \notin ByConf
    BY <1>1, <2>2, Zenon DEF StartedGlobals, StartedPaste, Globals, Options
  <2>. QED BY <2>1, <2>2
<1>3. ks # None /\ ks # {}
  BY KeySetsProperties
<1>4. CASE s \in ByConf
  BY <1>2, <1>3, <1>4 DEF StartedGlobals, StartedPaste
<1>5. CASE s \notin ByConf
  BY <1>2, <1>3, <1>5 DEF StartedGlobals, StartedPaste
<1>. QED BY <1>4, <1>5

LEMMA Configured ==
  ASSUME KeysInv, NEW s \in Services, NEW ks \in KeySets, Restart(s, ks)
  PROVE  /\ web' \in [Services -> Globals] /\ paste' \in [Services -> Options]
         /\ \A r \in Services : IF r \in ByConf THEN web'[r].hmac_keys \in KeySets
                                ELSE /\ web'[r].hmac_keys \in {None, {}}
                                     /\ paste'[r].hmac_keys \in KeySets
         /\ \A r \in Services : AcceptedKeys(r)' = IF r = s THEN ks ELSE AcceptedKeys(r)
<1>1. /\ web' = [web EXCEPT ![s] = StartedGlobals(s, ks)]
      /\ paste' = [paste EXCEPT ![s] = StartedPaste(s, ks)]
      /\ web \in [Services -> Globals] /\ paste \in [Services -> Options]
  BY DEF Restart, KeysInv
<1>2. StartedGlobals(s, ks) \in Globals /\ StartedPaste(s, ks) \in Options
  BY StartedType
<1>3. /\ web' \in [Services -> Globals] /\ paste' \in [Services -> Options]
      /\ \A r \in Services : r # s => web'[r] = web[r] /\ paste'[r] = paste[r]
      /\ web'[s] = StartedGlobals(s, ks) /\ paste'[s] = StartedPaste(s, ks)
  BY <1>1, <1>2
<1>4. ASSUME NEW r \in Services
      PROVE  IF r \in ByConf THEN web'[r].hmac_keys \in KeySets
             ELSE web'[r].hmac_keys \in {None, {}} /\ paste'[r].hmac_keys \in KeySets
  <2>1. CASE r = s
    BY <1>3, <2>1, StartedType
  <2>2. CASE r # s
    BY <1>3, <2>2 DEF KeysInv
  <2>. QED BY <2>1, <2>2
<1>5. ASSUME NEW r \in Services
      PROVE  AcceptedKeys(r)' = IF r = s THEN ks ELSE AcceptedKeys(r)
  <2>1. CASE r = s
    BY <1>3, <2>1, StartedType DEF AcceptedKeys
  <2>2. CASE r # s
    BY <1>3, <2>2 DEF AcceptedKeys
  <2>. QED BY <2>1, <2>2
<1>. QED BY <1>3, <1>4, <1>5

LEMMA KeysInit == WebInit => KeysInv /\ UpgradeInv
<1>. SUFFICES ASSUME WebInit PROVE KeysInv /\ UpgradeInv
  OBVIOUS
<1>1. /\ web = [s \in Services |-> StartedGlobals(s, {OldKey})]
      /\ paste = [s \in Services |-> StartedPaste(s, {OldKey})]
      /\ hmac_key = [t \in Threads |-> None]
      /\ user_key = OldKey
      /\ local = [t \in Threads |-> None]
  BY DEF WebInit, CallInit, Init
<1>2. {OldKey} \in KeySets
  BY DEF KeySets
<1>3. ASSUME NEW s \in Services
      PROVE  /\ web[s] \in Globals /\ paste[s] \in Options
             /\ IF s \in ByConf THEN web[s].hmac_keys \in KeySets
                ELSE web[s].hmac_keys \in {None, {}} /\ paste[s].hmac_keys \in KeySets
             /\ AcceptedKeys(s) = {OldKey}
  <2>1. web[s] = StartedGlobals(s, {OldKey}) /\ paste[s] = StartedPaste(s, {OldKey})
    BY <1>1
  <2>2. AcceptedKeys(s) = {OldKey}
    BY <1>2, <2>1, StartedType DEF AcceptedKeys
  <2>. QED BY <1>2, <2>1, <2>2, StartedType
<1>4. web \in [Services -> Globals] /\ paste \in [Services -> Options]
  BY <1>1, <1>3
<1>5. KeysInv
  BY <1>1, <1>3, <1>4 DEF KeysInv
<1>6. UpgradeInv
  BY <1>1, <1>3, KeySetsProperties DEF UpgradeInv
<1>. QED BY <1>5, <1>6

-----------------------------------------------------------------------------
(* A step of a thread: the application makes no profiler, and the          *)
(* middleware gives a new one a key that its service accepts.              *)

LEMMA OthersKeepTheirs ==
  ASSUME CallInv, NEW t \in Threads, NEW p, local' = [local EXCEPT ![t] = p]
  PROVE  /\ \A u \in Threads : u # t => local'[u] = local[u]
         /\ local'[t] = p
BY DEF CallInv

LEMMA ApplicationProfilers ==
  ASSUME CallInv, NEW t \in Threads, AppStep(t)
  PROVE  \A u \in Threads : local'[u] # None => local[u] # None
<1>1. ASSUME NEW p, local' = [local EXCEPT ![t] = p], p # None => local[t] # None
      PROVE  \A u \in Threads : local'[u] # None => local[u] # None
  BY <1>1, OthersKeepTheirs
<1>2. ASSUME NEW p, local' = [local EXCEPT ![t] = p], local[t] # None
      PROVE  \A u \in Threads : local'[u] # None => local[u] # None
  BY <1>2, OthersKeepTheirs
<1>3. ASSUME NEW kind \in Kinds, NEW n \in AppNames, NEW o \in Outcomes, Enter(t, kind, n, o)
      PROVE  \A u \in Threads : local'[u] # None => local[u] # None
  <2>1. local' = [local EXCEPT ![t] = Started(local[t], n)]
    BY <1>3 DEF Enter, SetLocal
  <2>2. Started(local[t], n) # None => local[t] # None
    BY DEF Started
  <2>. QED BY <1>1, <2>1, <2>2
<1>4. ASSUME NEW kind \in Kinds, NEW n \in AppNames, NEW o \in Outcomes,
             EnterFails(t, kind, n, o)
      PROVE  \A u \in Threads : local'[u] # None => local[u] # None
  <2>1. local' = [local EXCEPT ![t] = Pushed(local[t], n)] /\ local[t] # None
    BY <1>4 DEF EnterFails, SetLocal, StartRaises
  <2>. QED BY <1>2, <2>1
<1>5. ASSUME NEW n \in AppNames, NEW o \in Outcomes, NEW oStop \in Outcomes,
             EnterTraceFails(t, n, o, oStop)
      PROVE  \A u \in Threads : local'[u] # None => local[u] # None
  <2>1. /\ local' = [local EXCEPT ![t] = AfterFailedTrace(local[t], n, oStop)]
        /\ local[t] # None
    BY <1>5 DEF EnterTraceFails, SetLocal, StartRaises
  <2>. QED BY <1>2, <2>1
<1>6. ASSUME NEW o \in Outcomes, Leave(t, o) \/ Unwind(t, o)
      PROVE  \A u \in Threads : local'[u] # None => local[u] # None
  <2>1. AfterReturn(Last(calls[t]).kind, local[t], o) # None => local[t] # None
    BY DEF AfterReturn, Stopped, CanStop
  <2>2. \/ local' = [local EXCEPT ![t] = AfterReturn(Last(calls[t]).kind, local[t], o)]
        \/ local' = local
    BY <1>6 DEF Leave, Unwind, SetLocal
  <2>. QED BY <1>1, <2>1, <2>2
<1>7. ASSUME Raise(t) \/ Catch(t)
      PROVE  \A u \in Threads : local'[u] # None => local[u] # None
  BY <1>7 DEF Raise, Catch
<1>. QED BY <1>3, <1>4, <1>5, <1>6, <1>7 DEF AppStep

LEMMA MiddlewareProfilers ==
  ASSUME CallInv, NEW t \in Threads, NEW h, NEW o, EnterWsgi(t, h, o)
  PROVE  \A u \in Threads : u # t => local'[u] = local[u]
BY OthersKeepTheirs DEF EnterWsgi, SetLocal

(* The key k that a request brings is the user's, or that of a profiler,   *)
(* and the service accepts it.                                             *)
LEMMA AcceptKeys ==
  ASSUME WebInv, NEW t \in Threads, NEW r, NEW o, Accept(t, r, o),
         \/ r.signed_with \in {user_key, Stranger, None}
         \/ \E u \in Threads : Requesting(u) /\ r.signed_with = hmac_key[u],
         ServiceOf[t] \in Services
  PROVE  KeysInv' /\ UpgradeInv'
<1>. DEFINE k == r.signed_with
<1>1. /\ CallInv /\ KeysInv /\ UpgradeInv
      /\ hmac_key \in [Threads -> {None, OldKey, NewKey}]
      /\ user_key \in {OldKey, NewKey}
  BY DEF WebInv, KeysInv
<1>2. /\ k \in AcceptedKeys(ServiceOf[t])
      /\ hmac_key' = [hmac_key EXCEPT ![t] = IF local'[t] = None THEN None
                                             ELSE IF local[t] = None THEN k ELSE @]
      /\ UNCHANGED <<web, paste, user_key>>
      /\ \A u \in Threads : u # t => local'[u] = local[u]
  BY <1>1, MiddlewareProfilers DEF Accept, IsAccepted, VerifiedKey
<1>3. k \in {OldKey, NewKey}
  BY <1>1, <1>2, AcceptedKeysType, KeySetsProperties
<1>4. \/ k = user_key
      \/ \E u \in Threads : k = hmac_key[u]
  BY <1>1, <1>2, AcceptedKeysType, KeySetsProperties
<1>5. /\ k = OldKey => \A s \in Services : OldKey \in AcceptedKeys(s)
      /\ k = NewKey => user_key = NewKey
  BY <1>1, <1>4 DEF UpgradeInv
<1>6. \A s \in Services : AcceptedKeys(s)' = AcceptedKeys(s)
  BY <1>2 DEF AcceptedKeys
<1>7. \A u \in Threads :
        \/ u # t /\ hmac_key'[u] = hmac_key[u] /\ local'[u] = local[u]
        \/ u = t /\ hmac_key'[u] = None /\ local'[u] = None
        \/ u = t /\ hmac_key'[u] = k
        \/ u = t /\ hmac_key'[u] = hmac_key[u] /\ local[u] # None
  BY <1>1, <1>2
<1>8. hmac_key' \in [Threads -> {None, OldKey, NewKey}]
  BY <1>1, <1>2, <1>3
<1>9. KeysInv'
  BY <1>1, <1>2, <1>8 DEF KeysInv
<1>10. UpgradeInv'
  BY <1>1, <1>2, <1>3, <1>5, <1>6, <1>7, KeySetsProperties DEF UpgradeInv
<1>. QED BY <1>9, <1>10

LEMMA ServeOK ==
  ASSUME WebInv, NEW t \in Threads, NEW o \in Outcomes, ServeUser(t, o) \/ ServeCall(t, o)
  PROVE  KeysInv' /\ UpgradeInv'
<1>1. ServiceOf[t] \in Services
  BY ServiceAssumption
<1>2. CASE ServeUser(t, o)
  BY <1>1, <1>2, AcceptKeys DEF ServeUser
<1>3. CASE ServeCall(t, o)
  <2>1. PICK u \in Threads : Requesting(u) /\ Accept(t, SentRequest(u), o)
    BY <1>3 DEF ServeCall
  <2>2. SentRequest(u).signed_with = hmac_key[u]
    BY DEF SentRequest
  <2>. QED BY <1>1, <2>1, <2>2, AcceptKeys
<1>. QED BY <1>2, <1>3

LEMMA ApplicationOK ==
  ASSUME WebInv, NEW t \in Threads, ApplicationStep(t)
  PROVE  KeysInv' /\ UpgradeInv'
<1>1. /\ CallInv /\ KeysInv /\ UpgradeInv
      /\ hmac_key \in [Threads -> {None, OldKey, NewKey}]
  BY DEF WebInv, KeysInv
<1>2. /\ hmac_key' = [hmac_key EXCEPT ![t] = IF local'[t] = None THEN None ELSE @]
      /\ UNCHANGED <<web, paste, user_key>>
      /\ \A u \in Threads : local'[u] # None => local[u] # None
  BY <1>1, ApplicationProfilers DEF ApplicationStep
<1>3. \A s \in Services : AcceptedKeys(s)' = AcceptedKeys(s)
  BY <1>2 DEF AcceptedKeys
<1>4. \A u \in Threads : \/ hmac_key'[u] = hmac_key[u]
                         \/ hmac_key'[u] = None /\ local'[u] = None
  BY <1>1, <1>2
<1>5. KeysInv'
  <2>1. hmac_key' \in [Threads -> {None, OldKey, NewKey}]
    BY <1>1, <1>2
  <2>. QED BY <1>1, <1>2, <2>1 DEF KeysInv
<1>6. UpgradeInv'
  BY <1>1, <1>2, <1>3, <1>4, KeySetsProperties DEF UpgradeInv
<1>. QED BY <1>5, <1>6

-----------------------------------------------------------------------------
(* The steps of the operators.  Switching a service keeps its keys, and a  *)
(* restart keeps the key that is in use.                                   *)

LEMMA SwitchOK ==
  ASSUME WebInv, NEW s \in Services, disable(s) \/ enable(s)
  PROVE  KeysInv' /\ UpgradeInv'
<1>1. /\ KeysInv /\ UpgradeInv
      /\ web \in [Services -> Globals] /\ paste \in [Services -> Options]
      /\ AcceptedKeys(s) \in KeySets
  BY AcceptedKeysType DEF WebInv, KeysInv
<1>2. UNCHANGED <<callVars, paste, hmac_key, user_key>>
  BY DEF disable, enable
<1>3. web[s] \in Globals /\ TRUE \in BOOLEAN /\ FALSE \in BOOLEAN
  BY <1>1
<1>4. PICK g \in Globals : /\ web' = [web EXCEPT ![s] = g]
                         /\ \/ g.hmac_keys = web[s].hmac_keys
                            \/ s \in ByConf /\ g.hmac_keys = AcceptedKeys(s)
                            \/ s \notin ByConf /\ g.hmac_keys = {}
  <2>1. CASE disable(s)
    <3>1. [web[s] EXCEPT !.enabled = FALSE] \in Globals
      BY <1>3 DEF Globals
    <3>2. [web[s] EXCEPT !.enabled = FALSE].hmac_keys = web[s].hmac_keys
      BY <1>3 DEF Globals
    <3>3. web' = [web EXCEPT ![s] = [web[s] EXCEPT !.enabled = FALSE]]
      BY <2>1 DEF disable
    <3>. QED BY <3>1, <3>2, <3>3
  <2>2. CASE enable(s)
    <3>. DEFINE ks == IF s \in ByConf THEN AcceptedKeys(s) ELSE {}
    <3>1. ks \in KeySets \cup {{}, None}
      BY <1>1
    <3>2. [enabled |-> TRUE, hmac_keys |-> ks] \in Globals
      BY <1>3, <3>1, Zenon DEF Globals
    <3>3. web' = [web EXCEPT ![s] = [enabled |-> TRUE, hmac_keys |-> ks]]
      BY <2>2 DEF enable
    <3>. QED BY <3>2, <3>3
  <2>. QED BY <2>1, <2>2
<1>5. /\ web' \in [Services -> Globals] /\ web'[s] = g
      /\ \A r \in Services : r # s => web'[r] = web[r]
  BY <1>1, <1>4
<1>6. ASSUME NEW r \in Services
      PROVE  /\ IF r \in ByConf THEN web'[r].hmac_keys \in KeySets
                ELSE web'[r].hmac_keys \in {None, {}} /\ paste'[r].hmac_keys \in KeySets
             /\ AcceptedKeys(r)' = AcceptedKeys(r)
  <2>1. CASE r # s
    BY <1>1, <1>2, <1>5, <2>1 DEF KeysInv, AcceptedKeys
  <2>2. CASE r = s /\ s \in ByConf
    BY <1>1, <1>2, <1>4, <1>5, <2>2, KeySetsProperties DEF KeysInv, AcceptedKeys
  <2>3. CASE r = s /\ s \notin ByConf
    BY <1>1, <1>2, <1>4, <1>5, <2>3 DEF KeysInv, AcceptedKeys
  <2>. QED BY <2>1, <2>2, <2>3
<1>7. KeysInv'
  BY <1>1, <1>2, <1>5, <1>6 DEF KeysInv
<1>8. UpgradeInv'
  BY <1>1, <1>2, <1>6 DEF UpgradeInv, callVars
<1>. QED BY <1>7, <1>8

LEMMA RestartOK ==
  ASSUME WebInv, NEW s \in Services, NEW ks \in KeySets, Restart(s, ks),
         user_key \in ks, (\E t \in Threads : hmac_key[t] = OldKey) => OldKey \in ks
  PROVE  KeysInv' /\ UpgradeInv'
<1>1. KeysInv /\ UpgradeInv /\ UNCHANGED <<callVars, hmac_key, user_key>>
  BY DEF WebInv, Restart
<1>2. /\ web' \in [Services -> Globals] /\ paste' \in [Services -> Options]
      /\ \A r \in Services : IF r \in ByConf THEN web'[r].hmac_keys \in KeySets
                             ELSE /\ web'[r].hmac_keys \in {None, {}}
                                  /\ paste'[r].hmac_keys \in KeySets
      /\ \A r \in Services : AcceptedKeys(r)' = IF r = s THEN ks ELSE AcceptedKeys(r)
  BY <1>1, Configured
<1>3. KeysInv'
  BY <1>1, <1>2 DEF KeysInv
<1>4. UpgradeInv'
  BY <1>1, <1>2 DEF UpgradeInv, callVars
<1>. QED BY <1>3, <1>4

LEMMA UpgradeOK ==
  ASSUME WebInv, (\E s \in Services : AddKey(s) \/ RemoveKey(s)) \/ SwitchUser
  PROVE  KeysInv' /\ UpgradeInv'
<1>1. KeysInv /\ UpgradeInv /\ user_key \in {OldKey, NewKey}
  BY DEF WebInv, KeysInv
<1>2. {OldKey, NewKey} \in KeySets /\ {NewKey} \in KeySets
  BY DEF KeySets
<1>3. ASSUME NEW s \in Services, AddKey(s) PROVE KeysInv' /\ UpgradeInv'
  BY <1>1, <1>2, <1>3, RestartOK DEF AddKey
<1>4. ASSUME NEW s \in Services, RemoveKey(s) PROVE KeysInv' /\ UpgradeInv'
  BY <1>1, <1>2, <1>4, RestartOK DEF RemoveKey
<1>5. ASSUME SwitchUser PROVE KeysInv' /\ UpgradeInv'
  <2>1. /\ UNCHANGED <<callVars, web, paste, hmac_key>> /\ user_key' = NewKey
        /\ \A s \in Services : NewKey \in AcceptedKeys(s)
    BY <1>5 DEF SwitchUser
  <2>2. \A s \in Services : AcceptedKeys(s)' = AcceptedKeys(s)
    BY <2>1 DEF AcceptedKeys
  <2>. QED BY <1>1, <2>1, <2>2 DEF KeysInv, UpgradeInv, callVars
<1>. QED BY <1>3, <1>4, <1>5

-----------------------------------------------------------------------------
LEMMA WebInvInit == WebInit => WebInv
BY CallInvInit, KeysInit DEF WebInit, WebInv

LEMMA WebInvNext == WebInv /\ [WebNext]_<<callVars, webVars>> => WebInv'
<1>. SUFFICES ASSUME WebInv, [WebNext]_<<callVars, webVars>> PROVE WebInv'
  OBVIOUS
<1>1. CallInv'
  BY WebStepIsCallStep, CallInvNext DEF WebInv
<1>2. KeysInv' /\ UpgradeInv'
  <2>1. ASSUME UNCHANGED <<callVars, webVars>> PROVE KeysInv' /\ UpgradeInv'
    <3>1. \A s \in Services : AcceptedKeys(s)' = AcceptedKeys(s)
      BY <2>1 DEF AcceptedKeys, webVars
    <3>. QED BY <2>1, <3>1 DEF WebInv, KeysInv, UpgradeInv, webVars, callVars
  <2>. QED BY <2>1, ApplicationOK, ServeOK, SwitchOK, UpgradeOK DEF WebNext
<1>. QED BY <1>1, <1>2 DEF WebInv

LEMMA WebInvProperties == WebInv => UpgradeHasNoImpact /\ TracesAreOfTheUser
<1>. SUFFICES ASSUME WebInv PROVE UpgradeHasNoImpact /\ TracesAreOfTheUser
  OBVIOUS
<1>1. ASSUME NEW t \in Threads, local[t] # None
      PROVE  /\ hmac_key[t] \in {OldKey, user_key}
             /\ \A s \in Services : hmac_key[t] \in AcceptedKeys(s)
  BY <1>1 DEF WebInv, KeysInv, UpgradeInv
<1>2. TracesAreOfTheUser
  BY <1>1, ServiceAssumption DEF TracesAreOfTheUser
<1>3. ASSUME NEW s \in Services, IsEnabled(s), NEW u \in Threads, Requesting(u)
      PROVE  IsAccepted(s, SentRequest(u))
  BY <1>1, <1>3 DEF Requesting, IsAccepted, SentRequest
<1>. QED BY <1>2, <1>3 DEF UpgradeHasNoImpact, WebInv, UpgradeInv

(* Replacing the key as the documentation recommends loses no trace: every *)
(* enabled service accepts, at every moment of the upgrade, the user's     *)
(* request and every request that a service has sent within a trace.       *)
THEOREM UpgradesLoseNoTrace == WebSpec => []UpgradeHasNoImpact
BY WebInvInit, WebInvNext, WebInvProperties, PTL DEF WebSpec

(* A profiler in any service signs with a key that the user has signed     *)
(* with, and which its service accepts: a stranger starts no trace.        *)
THEOREM StrangersStartNothing == WebSpec => []TracesAreOfTheUser
BY WebInvInit, WebInvNext, WebInvProperties, PTL DEF WebSpec
=============================================================================
