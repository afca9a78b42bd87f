--------------------------- MODULE ProfilerProofs ---------------------------
(***************************************************************************)
(* Theorems about Profiler, for every set of threads, names and ids, every *)
(* bound on the uuids, and (except where a theorem assumes that the        *)
(* notifier delivers) every behaviour of the notifier: its stacks, the     *)
(* places of the points that its records name, and the refinement of       *)
(* ProfileTree.                                                            *)
(***************************************************************************)
EXTENDS Profiler, TLAPS

-----------------------------------------------------------------------------
(* The stacks are sequences that grow and shrink at their end.             *)

LEMMA PoppedProperties ==
  ASSUME NEW S, NEW s \in Seq(S), s # << >>
  PROVE  /\ Popped(s) \in Seq(S)
         /\ Len(Popped(s)) = Len(s) - 1
         /\ \A i \in 1 .. (Len(s) - 1) : Popped(s)[i] = s[i]
<1>1. Len(s) \in Nat /\ Len(s) > 0
  OBVIOUS
<1>2. DOMAIN s = 1 .. Len(s) /\ \A i \in 1 .. Len(s) : s[i] \in S
  OBVIOUS
<1>3. Popped(s) = [i \in 1 .. (Len(s) - 1) |-> s[i]]
  BY <1>1 DEF Popped
<1>4. \A i \in 1 .. (Len(s) - 1) : s[i] \in S
  BY <1>1, <1>2
<1>. QED BY <1>1, <1>3, <1>4

LEMMA TopInS ==
  ASSUME NEW S, NEW s \in Seq(S), s # << >>
  PROVE  s[Len(s)] \in S
OBVIOUS

(* What a profiler must satisfy for its operations to be defined: __init__ *)
(* pushed two ids, and stop() is guarded by the names alone.               *)
WellFormed(p) == Len(p.trace_stack) >= Len(p.name) + 2

LEMMA NewProfilerType ==
  ASSUME NEW base \in Ids \cup {None}, NEW parent \in Ids \cup {None},
         next_id \in Ids \/ base # None
  PROVE  /\ NewProfiler(base, parent) \in Profilers
         /\ WellFormed(NewProfiler(base, parent))
BY DEF NewProfiler, BaseId, Profilers, WellFormed

LEMMA PushedType ==
  ASSUME NEW p \in Profilers, WellFormed(p), NEW n \in Names, next_id \in Ids
  PROVE  /\ Pushed(p, n) \in Profilers
         /\ WellFormed(Pushed(p, n))
BY DEF Pushed, Profilers, WellFormed

LEMMA AfterStopType ==
  ASSUME NEW p \in Profilers, WellFormed(p), p.name # << >>, NEW o \in AllOutcomes
  PROVE  /\ AfterStop(p, o) \in Profilers
         /\ WellFormed(AfterStop(p, o))
<1>1. p.trace_stack \in Seq(Ids) /\ p.name \in Seq(Names)
  BY DEF Profilers
<1>2. Len(p.name) \in Nat /\ Len(p.trace_stack) \in Nat /\ Len(p.name) > 0
  BY <1>1
<1>3. p.trace_stack # << >>
  BY <1>1, <1>2 DEF WellFormed
<1>4. /\ Popped(p.name) \in Seq(Names)
      /\ Len(Popped(p.name)) = Len(p.name) - 1
  BY <1>1, PoppedProperties
<1>5. /\ StackAfterStop(p, o) \in Seq(Ids)
      /\ Len(StackAfterStop(p, o)) >= Len(p.trace_stack) - 1
  <2>1. CASE o.raised
    BY <2>1, <1>1, <1>2 DEF StackAfterStop
  <2>2. CASE ~o.raised
    BY <2>2, <1>1, <1>3, PoppedProperties DEF StackAfterStop
  <2>. QED BY <2>1, <2>2
<1>. QED BY <1>2, <1>4, <1>5 DEF AfterStop, Profilers, WellFormed

LEMMA NotificationType ==
  ASSUME NEW p \in Profilers, Len(p.trace_stack) >= 2,
         NEW n \in Names, NEW phase \in Phases
  PROVE  Notification(p, n, phase) \in Notifications
<1>1. p.trace_stack \in Seq(Ids)
  BY DEF Profilers
<1>. QED
  BY <1>1 DEF Notification, Notifications, get_base_id, get_id, get_parent_id

LEMMA NotifyType ==
  ASSUME NEW r \in Notifications, NEW o \in AllOutcomes,
         collector \in Seq(Notifications), Notify(r, o)
  PROVE  collector' \in Seq(Notifications)
BY DEF Notify

-----------------------------------------------------------------------------
(* Type correctness and the guard of stop(): StackAboveNames says that the *)
(* two ids of __init__ are never popped, and TypeOK needs it, because the  *)
(* ids of a notification are read at the end of the stack.                 *)

Inv == TypeOK /\ StackAboveNames

LEMMA InvInit == Init => Inv
BY MaxIdsAssumption DEF Init, Inv, TypeOK, StackAboveNames

(* Replacing the profiler of one thread by a well-formed one.              *)
LEMMA LocalUpdate ==
  ASSUME Inv, NEW t \in Threads, NEW p,
         p = None \/ (p \in Profilers /\ WellFormed(p)),
         local' = [local EXCEPT ![t] = p]
  PROVE  /\ local' \in [Threads -> Profilers \cup {None}]
         /\ StackAboveNames'
<1>1. local \in [Threads -> Profilers \cup {None}]
  BY DEF Inv, TypeOK
<1>2. local' \in [Threads -> Profilers \cup {None}]
  BY <1>1
<1>3. ASSUME NEW u \in Threads, local'[u] # None
      PROVE  Len(local'[u].trace_stack) >= Len(local'[u].name) + 2
  <2>1. CASE u = t
    BY <2>1, <1>1, <1>3 DEF WellFormed
  <2>2. CASE u # t
    BY <2>2, <1>1, <1>3 DEF Inv, StackAboveNames
  <2>. QED BY <2>1, <2>2
<1>. QED BY <1>2, <1>3 DEF StackAboveNames

(* One step, with any outcome that a notifier may have.                    *)
StepOf(t) ==
  \/ InitFromOutside(t)
  \/ \E u \in Threads : InitFromThread(t, u)
  \/ \E n \in Names, o \in AllOutcomes : Start(t, n, o)
  \/ \E o \in AllOutcomes : Stop(t, o)
  \/ Clean(t)

LEMMA InvStep ==
  ASSUME Inv, NEW t \in Threads, StepOf(t)
  PROVE  Inv'
<1>. USE MaxIdsAssumption
<1>0. /\ local \in [Threads -> Profilers \cup {None}]
      /\ collector \in Seq(Notifications)
      /\ next_id \in 1 .. (MaxIds + 1)
      /\ StackAboveNames
  BY DEF Inv, TypeOK
<1>1. ASSUME NEW base \in Ids \cup {None}, NEW parent \in Ids \cup {None},
             InitProfiler(t, base, parent)
      PROVE  Inv'
  <2>1. next_id \in Ids \/ base # None
    BY <1>0, <1>1 DEF InitProfiler, Ids
  <2>2. /\ local' \in [Threads -> Profilers \cup {None}]
        /\ StackAboveNames'
    BY <1>1, <2>1, NewProfilerType, LocalUpdate DEF InitProfiler
  <2>3. next_id' \in 1 .. (MaxIds + 1) /\ collector' = collector
    BY <1>0, <1>1 DEF InitProfiler
  <2>. QED BY <2>2, <2>3, <1>0 DEF Inv, TypeOK
<1>2. ASSUME InitFromOutside(t) PROVE Inv'
  BY <1>1, <1>2 DEF InitFromOutside, Ids
<1>3. ASSUME NEW u \in Threads, InitFromThread(t, u) PROVE Inv'
  <2>1. local[u].trace_stack \in Seq(Ids) /\ Len(local[u].trace_stack) >= 2
    BY <1>0, <1>3 DEF InitFromThread, StackAboveNames, Profilers
  <2>2. get_base_id(local[u]) \in Ids /\ get_id(local[u]) \in Ids
    BY <2>1 DEF get_base_id, get_id
  <2>. QED BY <1>1, <1>3, <2>2 DEF InitFromThread
<1>4. ASSUME NEW n \in Names, NEW o \in AllOutcomes, Start(t, n, o)
      PROVE  Inv'
  <2>1. next_id \in Ids /\ next_id' \in 1 .. (MaxIds + 1)
    BY <1>0, <1>4 DEF Start, Ids
  <2>2. local[t] \in Profilers /\ WellFormed(local[t])
    BY <1>0, <1>4 DEF Start, StackAboveNames, WellFormed
  <2>3. Pushed(local[t], n) \in Profilers /\ WellFormed(Pushed(local[t], n))
    BY <2>1, <2>2, PushedType
  <2>4. local' = [local EXCEPT ![t] = Pushed(local[t], n)]
    BY <1>4 DEF Start
  <2>5. local' \in [Threads -> Profilers \cup {None}] /\ StackAboveNames'
    BY <2>3, <2>4, LocalUpdate
  <2>6. Len(Pushed(local[t], n).trace_stack) >= 2
    BY <2>3 DEF WellFormed, Profilers
  <2>7. Notification(Pushed(local[t], n), n, "start") \in Notifications
    BY <2>3, <2>6, NotificationType DEF Phases
  <2>8. collector' \in Seq(Notifications)
    BY <1>0, <1>4, <2>7, NotifyType DEF Start
  <2>. QED BY <2>1, <2>5, <2>8 DEF Inv, TypeOK
<1>5. ASSUME NEW o \in AllOutcomes, Stop(t, o)
      PROVE  Inv'
  <2>1. local[t] \in Profilers /\ WellFormed(local[t]) /\ local[t].name # << >>
    BY <1>0, <1>5 DEF Stop, StackAboveNames, WellFormed
  <2>2. AfterStop(local[t], o) \in Profilers /\ WellFormed(AfterStop(local[t], o))
    BY <2>1, AfterStopType
  <2>3. local' = [local EXCEPT ![t] = AfterStop(local[t], o)]
    BY <1>5 DEF Stop
  <2>4. local' \in [Threads -> Profilers \cup {None}] /\ StackAboveNames'
    BY <2>2, <2>3, LocalUpdate
  <2>5. Len(local[t].trace_stack) >= 2 /\ TopName(local[t]) \in Names
    BY <2>1, TopInS DEF WellFormed, Profilers, TopName
  <2>6. Notification(local[t], TopName(local[t]), "stop") \in Notifications
    BY <2>1, <2>5, NotificationType DEF Phases
  <2>7. collector' \in Seq(Notifications)
    BY <1>0, <1>5, <2>6, NotifyType DEF Stop
  <2>8. next_id' = next_id
    BY <1>5 DEF Stop
  <2>. QED BY <1>0, <2>4, <2>7, <2>8 DEF Inv, TypeOK
<1>6. ASSUME Clean(t) PROVE Inv'
  <2>1. local' = [local EXCEPT ![t] = None] /\ UNCHANGED <<collector, next_id>>
    BY <1>6 DEF Clean
  <2>2. local' \in [Threads -> Profilers \cup {None}] /\ StackAboveNames'
    BY <2>1, LocalUpdate
  <2>. QED BY <1>0, <2>1, <2>2 DEF Inv, TypeOK
<1>. QED BY <1>2, <1>3, <1>4, <1>5, <1>6 DEF StepOf

LEMMA InvStutter == Inv /\ UNCHANGED vars => Inv'
BY DEF vars, Inv, TypeOK, StackAboveNames

LEMMA InvNext == Inv /\ [Next]_vars => Inv'
<1>. SUFFICES ASSUME Inv, [Next]_vars PROVE Inv'
  OBVIOUS
<1>1. UNCHANGED vars \/ \E t \in Threads : StepOf(t)
  BY OutcomesAssumption DEF Next, StepOf, KeepProfiler, NotProfiled, StopUnmatched
<1>. QED BY <1>1, InvStep, InvStutter

(* The variables keep the types that profiler.py gives them.               *)
THEOREM TypeCorrect == Spec => []TypeOK
<1>1. Inv => TypeOK
  BY DEF Inv
<1>. QED BY <1>1, InvInit, InvNext, PTL DEF Spec

(* However start(), stop(), init() and clean() are called, and whatever    *)
(* the notifier raises, stop() never pops one of the two ids of __init__.  *)
THEOREM GuardSuffices == Spec => []StackAboveNames
<1>1. Inv => StackAboveNames
  BY DEF Inv
<1>. QED BY <1>1, InvInit, InvNext, PTL DEF Spec

-----------------------------------------------------------------------------
(* ParentOlder.  The strengthening: along every stack, above the two ids   *)
(* of __init__, ids are generated and grow, and none is yet to come.       *)

Growing(s, n) ==
  /\ \A i \in 1 .. Len(s) : s[i] \in Int /\ s[i] < n
  /\ \A i \in 3 .. Len(s) : s[i] > 0 /\ s[i - 1] < s[i]

StacksGrow ==
  \A t \in Threads : local[t] # None => Growing(local[t].trace_stack, next_id)

OlderInv == Inv /\ StacksGrow /\ ParentOlder

LEMMA GrowingPopped ==
  ASSUME NEW S, NEW s \in Seq(S), s # << >>, NEW n, Growing(s, n)
  PROVE  Growing(Popped(s), n)
<1>1. Len(s) \in Nat
  OBVIOUS
<1>2. /\ Len(Popped(s)) = Len(s) - 1
      /\ \A i \in 1 .. (Len(s) - 1) : Popped(s)[i] = s[i]
  BY PoppedProperties
<1>3. ASSUME NEW i \in 1 .. Len(Popped(s))
      PROVE  Popped(s)[i] \in Int /\ Popped(s)[i] < n
  BY <1>1, <1>2 DEF Growing
<1>4. ASSUME NEW i \in 3 .. Len(Popped(s))
      PROVE  Popped(s)[i] > 0 /\ Popped(s)[i - 1] < Popped(s)[i]
  <2>1. i \in 3 .. Len(s) /\ i \in 1 .. (Len(s) - 1) /\ i - 1 \in 1 .. (Len(s) - 1)
    BY <1>1, <1>2
  <2>2. Popped(s)[i] = s[i] /\ Popped(s)[i - 1] = s[i - 1]
    BY <1>2, <2>1
  <2>. QED BY <2>1, <2>2 DEF Growing
<1>. QED BY <1>3, <1>4 DEF Growing

LEMMA GrowingAppend ==
  ASSUME NEW S, NEW s \in Seq(S), Len(s) >= 2, NEW n \in S, n \in Nat, n > 0, Growing(s, n)
  PROVE  Growing(Append(s, n), n + 1)
<1>1. Len(s) \in Nat
  OBVIOUS
<1>2. /\ Len(Append(s, n)) = Len(s) + 1
      /\ Append(s, n)[Len(s) + 1] = n
      /\ \A i \in 1 .. Len(s) : Append(s, n)[i] = s[i]
  OBVIOUS
<1>3. \A i \in 1 .. Len(s) : s[i] \in Int /\ s[i] < n
  BY DEF Growing
<1>4. ASSUME NEW i \in 1 .. (Len(s) + 1)
      PROVE  Append(s, n)[i] \in Int /\ Append(s, n)[i] < n + 1
  <2>1. CASE i = Len(s) + 1
    BY <1>1, <1>2, <2>1
  <2>2. CASE i # Len(s) + 1
    BY <1>1, <1>2, <1>3, <2>2
  <2>. QED BY <2>1, <2>2
<1>5. ASSUME NEW i \in 3 .. (Len(s) + 1)
      PROVE  Append(s, n)[i] > 0 /\ Append(s, n)[i - 1] < Append(s, n)[i]
  <2>1. CASE i = Len(s) + 1
    BY <1>1, <1>2, <1>3, <2>1
  <2>2. CASE i # Len(s) + 1
    BY <1>1, <1>2, <2>2 DEF Growing
  <2>. QED BY <2>1, <2>2
<1>. QED BY <1>2, <1>4, <1>5 DEF Growing

(* A bound that holds keeps holding when more uuids are generated.         *)
LEMMA GrowingLater ==
  ASSUME NEW s, NEW n \in Int, NEW m \in Int, n <= m, Growing(s, n)
  PROVE  Growing(s, m)
BY DEF Growing

(* What a record says of its point is read at the top of a growing stack.  *)
Older(r) == r.trace_id > 0 /\ r.parent_id < r.trace_id

LEMMA OlderNotification ==
  ASSUME NEW p \in Profilers, Len(p.trace_stack) >= 3, NEW m, Growing(p.trace_stack, m),
         NEW n, NEW phase
  PROVE  Older(Notification(p, n, phase))
<1>1. Len(p.trace_stack) \in Nat
  BY DEF Profilers
<1>. QED BY <1>1 DEF Older, Notification, get_id, get_parent_id, Growing

LEMMA OlderNotify ==
  ASSUME NEW r, Older(r), NEW o, Notify(r, o), ParentOlder,
         collector \in Seq(Notifications)
  PROVE  ParentOlder'
<1>1. CASE ~o.stored
  BY <1>1 DEF Notify, ParentOlder
<1>2. CASE o.stored
  <2>1. collector' = Append(collector, r) /\ Len(collector) \in Nat
    BY <1>2 DEF Notify
  <2>2. /\ DOMAIN collector' = 1 .. (Len(collector) + 1)
        /\ collector'[Len(collector) + 1] = r
        /\ \A i \in 1 .. Len(collector) : collector'[i] = collector[i]
    BY <2>1
  <2>3. DOMAIN collector = 1 .. Len(collector)
    OBVIOUS
  <2>. QED BY <2>1, <2>2, <2>3 DEF ParentOlder, Older
<1>. QED BY <1>1, <1>2

LEMMA OlderInit == Init => OlderInv
<1>. SUFFICES ASSUME Init PROVE OlderInv
  OBVIOUS
<1>1. Inv
  BY InvInit
<1>. QED BY <1>1 DEF Init, OlderInv, StacksGrow, ParentOlder

(* Replacing the stack of one thread by one that grows below the new bound.*)
LEMMA StacksGrowUpdate ==
  ASSUME Inv, StacksGrow, NEW t \in Threads, NEW p,
         p # None => Growing(p.trace_stack, next_id'),
         next_id' \in Int, next_id <= next_id',
         local' = [local EXCEPT ![t] = p]
  PROVE  StacksGrow'
<1>1. local \in [Threads -> Profilers \cup {None}] /\ next_id \in Int
  BY MaxIdsAssumption DEF Inv, TypeOK
<1>2. ASSUME NEW u \in Threads, local'[u] # None
      PROVE  Growing(local'[u].trace_stack, next_id')
  <2>1. CASE u = t
    BY <1>1, <1>2, <2>1
  <2>2. CASE u # t
    <3>1. local'[u] = local[u]
      BY <1>1, <2>2
    <3>. QED BY <1>1, <1>2, <3>1, GrowingLater DEF StacksGrow
  <2>. QED BY <2>1, <2>2
<1>. QED BY <1>2 DEF StacksGrow

LEMMA OlderNext == OlderInv /\ [Next]_vars => OlderInv'
<1>. SUFFICES ASSUME OlderInv, [Next]_vars PROVE OlderInv'
  OBVIOUS
<1>0. /\ Inv /\ Inv' /\ StacksGrow /\ ParentOlder
      /\ local \in [Threads -> Profilers \cup {None}]
      /\ collector \in Seq(Notifications)
      /\ next_id \in 1 .. (MaxIds + 1)
      /\ next_id \in Int /\ next_id > 0
  BY InvNext, MaxIdsAssumption DEF OlderInv, Inv, TypeOK
<1>1. ASSUME NEW t \in Threads, NEW base \in Ids \cup {None}, NEW parent \in Ids \cup {None},
             InitProfiler(t, base, parent),
             base # None => base \in Int /\ base < next_id,
             parent # None => parent \in Int /\ parent < next_id
      PROVE  OlderInv'
  <2>1. /\ local' = [local EXCEPT ![t] = NewProfiler(base, parent)]
        /\ next_id' = IF base = None THEN next_id + 1 ELSE next_id
        /\ collector' = collector
    BY <1>1 DEF InitProfiler
  <2>2. BaseId(base) \in Int /\ BaseId(base) < next_id'
    BY <1>0, <1>1, <2>1 DEF BaseId
  <2>3. Growing(NewProfiler(base, parent).trace_stack, next_id')
    BY <1>0, <1>1, <2>1, <2>2 DEF Growing, NewProfiler
  <2>4. next_id' \in Int /\ next_id <= next_id'
    BY <1>0, <2>1
  <2>5. StacksGrow'
    BY <1>0, <2>1, <2>3, <2>4, StacksGrowUpdate
  <2>. QED BY <1>0, <2>1, <2>5 DEF OlderInv, ParentOlder
<1>2. ASSUME NEW t \in Threads, InitFromOutside(t) PROVE OlderInv'
  <2>1. \A i \in ForeignIds : i \in Int /\ i < next_id /\ i \in Ids
    BY <1>0, ForeignIdsAssumption DEF Ids
  <2>2. PICK base \in ForeignIds \cup {None}, parent \in ForeignIds \cup {None} :
          InitProfiler(t, base, parent)
    BY <1>2 DEF InitFromOutside
  <2>. QED BY <1>1, <2>1, <2>2
<1>3. ASSUME NEW t \in Threads, NEW u \in Threads, InitFromThread(t, u) PROVE OlderInv'
  <2>1. /\ local[u] # None
        /\ InitProfiler(t, get_base_id(local[u]), get_id(local[u]))
    BY <1>3 DEF InitFromThread
  <2>2. local[u].trace_stack \in Seq(Ids) /\ Len(local[u].trace_stack) >= 2
    BY <1>0, <2>1 DEF Inv, StackAboveNames, Profilers
  <2>3. Growing(local[u].trace_stack, next_id)
    BY <1>0, <2>1 DEF StacksGrow
  <2>4. /\ get_base_id(local[u]) \in Ids \cap Int /\ get_base_id(local[u]) < next_id
        /\ get_id(local[u]) \in Ids \cap Int /\ get_id(local[u]) < next_id
    BY <2>2, <2>3 DEF get_base_id, get_id, Growing
  <2>. QED BY <1>1, <2>1, <2>4
<1>4. ASSUME NEW t \in Threads, NEW n \in Names, NEW o \in Outcomes, Start(t, n, o)
      PROVE  OlderInv'
  <2>1. /\ local[t] # None /\ next_id \in Ids
        /\ local' = [local EXCEPT ![t] = Pushed(local[t], n)]
        /\ next_id' = next_id + 1
        /\ Notify(Notification(Pushed(local[t], n), n, "start"), o)
    BY <1>0, <1>4 DEF Start, Ids
  <2>2. local[t] \in Profilers /\ WellFormed(local[t])
    BY <1>0, <2>1 DEF Inv, StackAboveNames, WellFormed
  <2>3. /\ local[t].trace_stack \in Seq(Ids)
        /\ Len(local[t].trace_stack) \in Nat
        /\ Len(local[t].trace_stack) >= 2
    BY <2>2 DEF WellFormed, Profilers
  <2>4. Growing(Pushed(local[t], n).trace_stack, next_id')
    <3>1. Growing(local[t].trace_stack, next_id) /\ next_id \in Nat
      BY <1>0, <2>1 DEF StacksGrow
    <3>2. Growing(Append(local[t].trace_stack, next_id), next_id + 1)
      BY <1>0, <2>1, <2>3, <3>1, GrowingAppend
    <3>. QED BY <2>1, <3>2 DEF Pushed
  <2>a. next_id' \in Int /\ next_id <= next_id'
    BY <1>0, <2>1
  <2>5. StacksGrow'
    BY <1>0, <2>1, <2>4, <2>a, StacksGrowUpdate
  <2>b. Pushed(local[t], n) \in Profilers
    BY <2>1, <2>2, PushedType
  <2>c. Len(Pushed(local[t], n).trace_stack) >= 3
    BY <2>1, <2>3 DEF Pushed
  <2>6. Pushed(local[t], n) \in Profilers /\ Len(Pushed(local[t], n).trace_stack) >= 3
    BY <2>b, <2>c
  <2>7. ParentOlder'
    BY <1>0, <2>1, <2>4, <2>6, OlderNotification, OlderNotify
  <2>. QED BY <1>0, <2>5, <2>7 DEF OlderInv
<1>5. ASSUME NEW t \in Threads, NEW o \in Outcomes, Stop(t, o)
      PROVE  OlderInv'
  <2>1. /\ local[t] # None /\ local[t].name # << >>
        /\ local' = [local EXCEPT ![t] = AfterStop(local[t], o)]
        /\ Notify(Notification(local[t], TopName(local[t]), "stop"), o)
        /\ next_id' = next_id
    BY <1>5 DEF Stop
  <2>2. local[t] \in Profilers /\ WellFormed(local[t])
    BY <1>0, <2>1 DEF Inv, StackAboveNames, WellFormed
  <2>3. /\ local[t].trace_stack \in Seq(Ids) /\ local[t].name \in Seq(Names)
        /\ Len(local[t].name) \in Nat /\ Len(local[t].name) > 0
        /\ Len(local[t].trace_stack) \in Nat
    BY <2>1, <2>2 DEF Profilers
  <2>4. Len(local[t].trace_stack) >= 3 /\ local[t].trace_stack # << >>
    BY <2>2, <2>3 DEF WellFormed
  <2>5. Growing(local[t].trace_stack, next_id)
    BY <1>0, <2>1 DEF StacksGrow
  <2>6. Growing(AfterStop(local[t], o).trace_stack, next_id')
    BY <2>1, <2>3, <2>4, <2>5, GrowingPopped DEF AfterStop, StackAfterStop
  <2>a. next_id' \in Int /\ next_id <= next_id'
    BY <1>0, <2>1
  <2>7. StacksGrow'
    BY <1>0, <2>1, <2>6, <2>a, StacksGrowUpdate
  <2>8. ParentOlder'
    BY <1>0, <2>1, <2>2, <2>4, <2>5, OlderNotification, OlderNotify
  <2>. QED BY <1>0, <2>7, <2>8 DEF OlderInv
<1>6. ASSUME NEW t \in Threads, Clean(t) PROVE OlderInv'
  <2>1. local' = [local EXCEPT ![t] = None] /\ UNCHANGED <<collector, next_id>>
    BY <1>6 DEF Clean
  <2>a. next_id' \in Int /\ next_id <= next_id'
    BY <1>0, <2>1
  <2>2. StacksGrow'
    BY <1>0, <2>1, <2>a, StacksGrowUpdate
  <2>. QED BY <1>0, <2>1, <2>2 DEF OlderInv, ParentOlder
<1>7. ASSUME UNCHANGED vars PROVE OlderInv'
  BY <1>0, <1>7 DEF vars, OlderInv, StacksGrow, ParentOlder
<1>. QED
  BY <1>2, <1>3, <1>4, <1>5, <1>6, <1>7 DEF Next, KeepProfiler, NotProfiled, StopUnmatched

(* However the notifier fails, no record makes a point its own ancestor:   *)
(* base.py's tree of any set of records of this process is a forest.       *)
THEOREM NoCycles == Spec => []ParentOlder
<1>1. OlderInv => ParentOlder
  BY DEF OlderInv
<1>. QED BY <1>1, OlderInit, OlderNext, PTL DEF Spec

-----------------------------------------------------------------------------
(* StackMatchesNames, for a notifier that never raises: stop() then pops   *)
(* both stacks, and start() pushes on both whatever happens.               *)

NeverRaises == \A o \in Outcomes : ~o.raised
InStep(p) == Len(p.trace_stack) = Len(p.name) + 2
MatchInv == Inv /\ StackMatchesNames

LEMMA MatchUpdate ==
  ASSUME MatchInv, NEW t \in Threads, NEW p, p # None => InStep(p),
         local' = [local EXCEPT ![t] = p]
  PROVE  StackMatchesNames'
<1>1. local \in [Threads -> Profilers \cup {None}]
  BY DEF MatchInv, Inv, TypeOK
<1>2. ASSUME NEW u \in Threads, local'[u] # None
      PROVE  Len(local'[u].trace_stack) = Len(local'[u].name) + 2
  <2>1. CASE u = t
    BY <1>1, <1>2, <2>1 DEF InStep
  <2>2. CASE u # t
    BY <1>1, <1>2, <2>2 DEF MatchInv, StackMatchesNames
  <2>. QED BY <2>1, <2>2
<1>. QED BY <1>2 DEF StackMatchesNames

LEMMA AfterStopInStep ==
  ASSUME NEW p \in Profilers, InStep(p), p.name # << >>, NEW o, ~o.raised
  PROVE  InStep(AfterStop(p, o))
<1>1. p.trace_stack \in Seq(Ids) /\ p.name \in Seq(Names)
  BY DEF Profilers
<1>2. Len(p.name) \in Nat /\ Len(p.trace_stack) > 0 /\ p.trace_stack # << >>
  BY <1>1 DEF InStep
<1>3. /\ Len(Popped(p.name)) = Len(p.name) - 1
      /\ Len(Popped(p.trace_stack)) = Len(p.trace_stack) - 1
  BY <1>1, <1>2, PoppedProperties
<1>. QED BY <1>2, <1>3 DEF InStep, AfterStop, StackAfterStop

LEMMA MatchNext ==
  ASSUME NeverRaises
  PROVE  MatchInv /\ [Next]_vars => MatchInv'
<1>. SUFFICES ASSUME MatchInv, [Next]_vars PROVE MatchInv'
  OBVIOUS
<1>0. Inv' /\ local \in [Threads -> Profilers \cup {None}] /\ StackMatchesNames
  BY InvNext DEF MatchInv, Inv, TypeOK
<1>1. ASSUME NEW t \in Threads, NEW base, NEW parent, InitProfiler(t, base, parent)
      PROVE  StackMatchesNames'
  <2>1. local' = [local EXCEPT ![t] = NewProfiler(base, parent)]
    BY <1>1 DEF InitProfiler
  <2>2. InStep(NewProfiler(base, parent))
    BY DEF InStep, NewProfiler
  <2>. QED BY <2>1, <2>2, MatchUpdate
<1>2. ASSUME NEW t \in Threads, NEW n \in Names, NEW o \in Outcomes, Start(t, n, o)
      PROVE  StackMatchesNames'
  <2>1. local' = [local EXCEPT ![t] = Pushed(local[t], n)] /\ local[t] # None
    BY <1>2 DEF Start
  <2>2. local[t] \in Profilers /\ InStep(local[t])
    BY <1>0, <2>1 DEF StackMatchesNames, InStep
  <2>3. InStep(Pushed(local[t], n))
    BY <2>2 DEF InStep, Pushed, Profilers
  <2>. QED BY <2>1, <2>3, MatchUpdate
<1>3. ASSUME NEW t \in Threads, NEW o \in Outcomes, Stop(t, o)
      PROVE  StackMatchesNames'
  <2>1. /\ local' = [local EXCEPT ![t] = AfterStop(local[t], o)]
        /\ local[t] # None /\ local[t].name # << >>
    BY <1>3 DEF Stop
  <2>2. local[t] \in Profilers /\ InStep(local[t])
    BY <1>0, <2>1 DEF StackMatchesNames, InStep
  <2>3. InStep(AfterStop(local[t], o))
    BY <2>1, <2>2, AfterStopInStep DEF NeverRaises
  <2>. QED BY <2>1, <2>3, MatchUpdate
<1>4. ASSUME NEW t \in Threads, Clean(t) PROVE StackMatchesNames'
  BY <1>4, MatchUpdate DEF Clean
<1>5. ASSUME UNCHANGED vars PROVE StackMatchesNames'
  BY <1>0, <1>5 DEF vars, StackMatchesNames
<1>6. StackMatchesNames'
  BY <1>1, <1>2, <1>3, <1>4, <1>5
     DEF Next, InitFromOutside, InitFromThread, KeepProfiler, NotProfiled, StopUnmatched
<1>. QED BY <1>0, <1>6 DEF MatchInv

(* While the notifier never raises, stored or lost records alike, a        *)
(* profiler has exactly one id per open name above the two of __init__:    *)
(* start() and stop() of profiler.py keep the two stacks in step.          *)
THEOREM StacksInStep ==
  ASSUME NeverRaises
  PROVE  Spec => []StackMatchesNames
<1>1. Init => MatchInv
  BY InvInit DEF Init, MatchInv, StackMatchesNames
<1>2. MatchInv /\ [Next]_vars => MatchInv'
  BY MatchNext
<1>3. MatchInv => StackMatchesNames
  BY DEF MatchInv
<1>. QED BY <1>1, <1>2, <1>3, PTL DEF Spec

-----------------------------------------------------------------------------
(* The place of a point is its trace and its parent.  It shows in the      *)
(* records of the point and, while the point is open, on a stack: above    *)
(* the two ids of __init__, an id lies on its parent.                      *)

Places == [base_id : Ids, trace_id : Ids, parent_id : Ids]
PlaceOf(r) == [base_id |-> r.base_id, trace_id |-> r.trace_id, parent_id |-> r.parent_id]
PlacesOn(s) == {[base_id |-> s[1], trace_id |-> s[i], parent_id |-> s[i - 1]] : i \in 3 .. Len(s)}
Profiled == {t \in Threads : local[t] # None}
PlacesRecorded == {PlaceOf(collector[i]) : i \in DOMAIN collector}
PlacesOpen == UNION {PlacesOn(local[t].trace_stack) : t \in Profiled}
AllPlaces == PlacesRecorded \cup PlacesOpen

(* A trace mentions an id when a point of the trace has it as parent, or a *)
(* thread has joined the trace below it: the ids that can be handed over.  *)
MentionsOn(s) == {[base_id |-> s[1], id |-> s[i]] : i \in 2 .. Len(s)}
MentionsOpen == UNION {MentionsOn(local[t].trace_stack) : t \in Profiled}
MentionsRecorded == {[base_id |-> collector[i].base_id, id |-> collector[i].parent_id] :
                       i \in DOMAIN collector}
AllMentions == MentionsRecorded \cup MentionsOpen

(* The inductive invariant, of the places P and the mentions M below the   *)
(* next uuid n: every id has one place, and only the trace of its place    *)
(* mentions it.                                                            *)
Consistent(P, M, n) ==
  /\ \A p \in P : p.trace_id \in 1 .. (n - 1)
  /\ \A m \in M : m.id \in Int /\ m.id < n
  /\ \A p, q \in P : p.trace_id = q.trace_id => p = q
  /\ \A p \in P, m \in M : p.trace_id = m.id => p.base_id = m.base_id

PlaceInv == OlderInv /\ Consistent(AllPlaces, AllMentions, next_id)

LEMMA ConsistentLess ==
  ASSUME NEW P, NEW M, NEW n \in Int, NEW Q, NEW L, NEW m \in Int,
         Consistent(P, M, n), Q \subseteq P, L \subseteq M, n <= m
  PROVE  Consistent(Q, L, m)
BY DEF Consistent

(* A thread joins the trace b below the id i, which is no point of another *)
(* trace.                                                                  *)
LEMMA ConsistentJoin ==
  ASSUME NEW P, NEW M, NEW n \in Int, NEW Q, NEW L, NEW m \in Int, NEW b, NEW i \in Int,
         Consistent(P, M, n), n <= m, i < m,
         \A p \in P : p.trace_id = i => p.base_id = b,
         Q \subseteq P, L \subseteq M \cup {[base_id |-> b, id |-> i]}
  PROVE  Consistent(Q, L, m)
BY DEF Consistent

(* A new point takes the next uuid.                                        *)
LEMMA ConsistentStart ==
  ASSUME NEW P, NEW M, NEW n \in Int, n > 0, NEW Q, NEW L, NEW b, NEW a,
         Consistent(P, M, n),
         Q \subseteq P \cup {[base_id |-> b, trace_id |-> n, parent_id |-> a]},
         L \subseteq M \cup {[base_id |-> b, id |-> n]}
  PROVE  Consistent(Q, L, n + 1)
<1>. DEFINE new == [base_id |-> b, trace_id |-> n, parent_id |-> a]
            men == [base_id |-> b, id |-> n]
<1>1. ASSUME NEW p \in Q PROVE p.trace_id \in 1 .. n
  BY <1>1 DEF Consistent
<1>2. ASSUME NEW m \in L PROVE m.id \in Int /\ m.id < n + 1
  BY <1>2 DEF Consistent
<1>3. ASSUME NEW p \in Q, NEW q \in Q, p.trace_id = q.trace_id PROVE p = q
  <2>1. (p \in P \/ p = new) /\ (q \in P \/ q = new)
    BY <1>3
  <2>. QED BY <1>3, <2>1 DEF Consistent
<1>4. ASSUME NEW p \in Q, NEW m \in L, p.trace_id = m.id PROVE p.base_id = m.base_id
  <2>1. (p \in P \/ p = new) /\ (m \in M \/ m = men)
    BY <1>4
  <2>. QED BY <1>4, <2>1 DEF Consistent
<1>. QED BY <1>1, <1>2, <1>3, <1>4 DEF Consistent

-----------------------------------------------------------------------------
(* How the operations of a profiler change its places and mentions.        *)

LEMMA OnPlaces ==
  ASSUME NEW s, NEW i \in 3 .. Len(s)
  PROVE  [base_id |-> s[1], trace_id |-> s[i], parent_id |-> s[i - 1]] \in PlacesOn(s)
BY DEF PlacesOn

LEMMA OnMentions ==
  ASSUME NEW s, NEW i \in 2 .. Len(s)
  PROVE  [base_id |-> s[1], id |-> s[i]] \in MentionsOn(s)
BY DEF MentionsOn

LEMMA PlacesPopped ==
  ASSUME NEW S, NEW s \in Seq(S), Len(s) >= 3
  PROVE  /\ PlacesOn(Popped(s)) \subseteq PlacesOn(s)
         /\ MentionsOn(Popped(s)) \subseteq MentionsOn(s)
<1>1. Len(s) \in Nat /\ s # << >>
  OBVIOUS
<1>2. /\ Len(Popped(s)) = Len(s) - 1
      /\ \A i \in 1 .. (Len(s) - 1) : Popped(s)[i] = s[i]
  BY <1>1, PoppedProperties
<1>3. ASSUME NEW i \in 3 .. (Len(s) - 1)
      PROVE  [base_id |-> Popped(s)[1], trace_id |-> Popped(s)[i],
              parent_id |-> Popped(s)[i - 1]] \in PlacesOn(s)
  <2>1. Popped(s)[1] = s[1] /\ Popped(s)[i] = s[i] /\ Popped(s)[i - 1] = s[i - 1]
    BY <1>1, <1>2
  <2>2. i \in 3 .. Len(s)
    BY <1>1
  <2>. QED BY <2>1, <2>2, OnPlaces
<1>4. ASSUME NEW i \in 2 .. (Len(s) - 1)
      PROVE  [base_id |-> Popped(s)[1], id |-> Popped(s)[i]] \in MentionsOn(s)
  <2>1. Popped(s)[1] = s[1] /\ Popped(s)[i] = s[i]
    BY <1>1, <1>2
  <2>2. i \in 2 .. Len(s)
    BY <1>1
  <2>. QED BY <2>1, <2>2, OnMentions
<1>. QED BY <1>2, <1>3, <1>4 DEF PlacesOn, MentionsOn

LEMMA PlacesPushed ==
  ASSUME NEW S, NEW s \in Seq(S), Len(s) >= 2, NEW n \in S
  PROVE  /\ PlacesOn(Append(s, n)) \subseteq
              PlacesOn(s) \cup {[base_id |-> s[1], trace_id |-> n, parent_id |-> s[Len(s)]]}
         /\ MentionsOn(Append(s, n)) \subseteq
              MentionsOn(s) \cup {[base_id |-> s[1], id |-> n]}
<1>1. Len(s) \in Nat
  OBVIOUS
<1>2. /\ Len(Append(s, n)) = Len(s) + 1
      /\ Append(s, n)[Len(s) + 1] = n
      /\ \A i \in 1 .. Len(s) : Append(s, n)[i] = s[i]
  OBVIOUS
<1>3. ASSUME NEW i \in 3 .. (Len(s) + 1)
      PROVE  [base_id |-> Append(s, n)[1], trace_id |-> Append(s, n)[i],
              parent_id |-> Append(s, n)[i - 1]] \in
               PlacesOn(s) \cup {[base_id |-> s[1], trace_id |-> n, parent_id |-> s[Len(s)]]}
  <2>1. Append(s, n)[1] = s[1] /\ Append(s, n)[i - 1] = s[i - 1]
    BY <1>1, <1>2
  <2>2. CASE i = Len(s) + 1
    BY <1>1, <1>2, <2>1, <2>2
  <2>3. CASE i # Len(s) + 1
    <3>1. i \in 3 .. Len(s) /\ Append(s, n)[i] = s[i]
      BY <1>1, <1>2, <2>3
    <3>. QED BY <2>1, <3>1, OnPlaces
  <2>. QED BY <2>2, <2>3
<1>4. ASSUME NEW i \in 2 .. (Len(s) + 1)
      PROVE  [base_id |-> Append(s, n)[1], id |-> Append(s, n)[i]] \in
               MentionsOn(s) \cup {[base_id |-> s[1], id |-> n]}
  <2>1. Append(s, n)[1] = s[1]
    BY <1>1, <1>2
  <2>2. CASE i = Len(s) + 1
    BY <1>1, <1>2, <2>1, <2>2
  <2>3. CASE i # Len(s) + 1
    <3>1. i \in 2 .. Len(s) /\ Append(s, n)[i] = s[i]
      BY <1>1, <1>2, <2>3
    <3>. QED BY <2>1, <3>1, OnMentions
  <2>. QED BY <2>2, <2>3
<1>. QED BY <1>2, <1>3, <1>4 DEF PlacesOn, MentionsOn

(* Replacing the profiler of one thread.                                   *)
LEMMA OpenUpdate ==
  ASSUME TypeOK, NEW t \in Threads, NEW p, local' = [local EXCEPT ![t] = p]
  PROVE  /\ p # None => /\ PlacesOpen' \subseteq PlacesOpen \cup PlacesOn(p.trace_stack)
                        /\ MentionsOpen' \subseteq MentionsOpen \cup MentionsOn(p.trace_stack)
         /\ p = None => PlacesOpen' \subseteq PlacesOpen /\ MentionsOpen' \subseteq MentionsOpen
<1>1. \A u \in Threads : local'[u] = IF u = t THEN p ELSE local[u]
  BY DEF TypeOK
<1>2. ASSUME NEW u \in Profiled'
      PROVE  \/ p # None /\ local'[u] = p
             \/ u \in Profiled /\ local'[u] = local[u]
  BY <1>1, <1>2 DEF Profiled
<1>. QED BY <1>2 DEF PlacesOpen, MentionsOpen

(* A notification adds its place and its parent, or nothing.               *)
LEMMA RecordedUpdate ==
  ASSUME TypeOK, NEW r, NEW o, Notify(r, o)
  PROVE  /\ PlacesRecorded' \subseteq PlacesRecorded \cup {PlaceOf(r)}
         /\ MentionsRecorded' \subseteq
              MentionsRecorded \cup {[base_id |-> r.base_id, id |-> r.parent_id]}
<1>1. collector \in Seq(Notifications)
  BY DEF TypeOK
<1>2. CASE ~o.stored
  BY <1>2 DEF Notify, PlacesRecorded, MentionsRecorded
<1>3. CASE o.stored
  <2>1. collector' = Append(collector, r) /\ Len(collector) \in Nat
    BY <1>1, <1>3 DEF Notify
  <2>2. \A i \in DOMAIN collector' :
          collector'[i] = r \/ (i \in DOMAIN collector /\ collector'[i] = collector[i])
    BY <1>1, <2>1
  <2>. QED BY <2>2 DEF PlacesRecorded, MentionsRecorded
<1>. QED BY <1>2, <1>3

(* An id that a thread can hand over is mentioned by its trace.            *)
LEMMA HandedOver ==
  ASSUME Inv, NEW u \in Threads, local[u] # None
  PROVE  [base_id |-> get_base_id(local[u]), id |-> get_id(local[u])] \in AllMentions
<1>1. u \in Profiled /\ local[u] \in Profilers /\ WellFormed(local[u])
  BY DEF Profiled, Inv, TypeOK, StackAboveNames, WellFormed
<1>2. Len(local[u].trace_stack) \in 2 .. Len(local[u].trace_stack)
  BY <1>1 DEF WellFormed, Profilers
<1>3. [base_id |-> get_base_id(local[u]), id |-> get_id(local[u])]
        \in MentionsOn(local[u].trace_stack)
  BY <1>2 DEF MentionsOn, get_base_id, get_id
<1>. QED BY <1>1, <1>3 DEF AllMentions, MentionsOpen

-----------------------------------------------------------------------------
(* The invariant along a step.                                             *)

LEMMA PlaceInit == Init => PlaceInv
<1>. SUFFICES ASSUME Init PROVE PlaceInv
  OBVIOUS
<1>1. OlderInv
  BY OlderInit
<1>2. AllPlaces = {} /\ AllMentions = {}
  BY DEF Init, AllPlaces, AllMentions, PlacesRecorded, PlacesOpen,
         MentionsRecorded, MentionsOpen, Profiled
<1>. QED BY <1>1, <1>2 DEF PlaceInv, Consistent

LEMMA PlaceNext == PlaceInv /\ [Next]_vars => PlaceInv'
<1>. SUFFICES ASSUME PlaceInv, [Next]_vars PROVE PlaceInv'
  OBVIOUS
<1>0. /\ OlderInv' /\ Inv /\ TypeOK /\ StacksGrow
      /\ Consistent(AllPlaces, AllMentions, next_id)
      /\ local \in [Threads -> Profilers \cup {None}]
      /\ next_id \in 1 .. (MaxIds + 1)
      /\ next_id \in Int /\ next_id > 0
  BY OlderNext, MaxIdsAssumption DEF PlaceInv, OlderInv, Inv, TypeOK
<1>1. ASSUME NEW t \in Threads, NEW base, NEW parent, InitProfiler(t, base, parent),
             NEW b, NEW i \in Int,
             NewProfiler(base, parent).trace_stack = <<b, i>>,
             i < next_id',
             \A p \in AllPlaces : p.trace_id = i => p.base_id = b
      PROVE  Consistent(AllPlaces, AllMentions, next_id)'
  <2>. DEFINE new == NewProfiler(base, parent)
  <2>1. /\ local' = [local EXCEPT ![t] = new]
        /\ next_id' \in Int /\ next_id <= next_id'
        /\ collector' = collector
    BY <1>0, <1>1 DEF InitProfiler
  <2>2. Len(new.trace_stack) = 2 /\ new.trace_stack[1] = b /\ new.trace_stack[2] = i
    BY <1>1
  <2>3. /\ PlacesOn(new.trace_stack) = {}
        /\ MentionsOn(new.trace_stack) = {[base_id |-> b, id |-> i]}
    BY <2>2 DEF PlacesOn, MentionsOn
  <2>4. /\ PlacesOpen' \subseteq PlacesOpen
        /\ MentionsOpen' \subseteq MentionsOpen \cup {[base_id |-> b, id |-> i]}
    BY <1>0, <2>1, <2>3, OpenUpdate
  <2>5. PlacesRecorded' = PlacesRecorded /\ MentionsRecorded' = MentionsRecorded
    BY <2>1 DEF PlacesRecorded, MentionsRecorded
  <2>6. /\ AllPlaces' \subseteq AllPlaces
        /\ AllMentions' \subseteq AllMentions \cup {[base_id |-> b, id |-> i]}
    BY <2>4, <2>5 DEF AllPlaces, AllMentions
  <2>. QED BY <1>0, <1>1, <2>1, <2>6, ConsistentJoin
<1>2. ASSUME NEW t \in Threads, InitFromOutside(t)
      PROVE  Consistent(AllPlaces, AllMentions, next_id)'
  <2>1. PICK base \in ForeignIds \cup {None}, parent \in ForeignIds \cup {None} :
          InitProfiler(t, base, parent)
    BY <1>2 DEF InitFromOutside
  <2>. DEFINE i == IF parent = None THEN BaseId(base) ELSE parent
  <2>2. NewProfiler(base, parent).trace_stack = <<BaseId(base), i>>
    BY DEF NewProfiler
  <2>3. next_id' = IF base = None THEN next_id + 1 ELSE next_id
    BY <2>1 DEF InitProfiler
  <2>4. \A f \in ForeignIds : f \in Int /\ f < 0
    BY ForeignIdsAssumption
  <2>5. i \in Int /\ i < next_id' /\ (i < 0 \/ i = next_id)
    <3>1. CASE parent # None
      BY <1>0, <2>1, <2>3, <2>4, <3>1
    <3>2. CASE parent = None /\ base # None
      BY <1>0, <2>1, <2>3, <2>4, <3>2 DEF BaseId
    <3>3. CASE parent = None /\ base = None
      BY <1>0, <2>3, <3>3 DEF BaseId
    <3>. QED BY <3>1, <3>2, <3>3
  <2>6. \A p \in AllPlaces : p.trace_id # i
    BY <1>0, <2>5 DEF Consistent
  <2>. QED BY <1>1, <2>1, <2>2, <2>5, <2>6
<1>3. ASSUME NEW t \in Threads, NEW u \in Threads, InitFromThread(t, u)
      PROVE  Consistent(AllPlaces, AllMentions, next_id)'
  <2>. DEFINE b == get_base_id(local[u])
              i == get_id(local[u])
  <2>1. local[u] # None /\ InitProfiler(t, b, i)
    BY <1>3 DEF InitFromThread
  <2>2. b \in Ids /\ i \in Ids
    <3>1. local[u].trace_stack \in Seq(Ids) /\ Len(local[u].trace_stack) >= 2
      BY <1>0, <2>1 DEF Inv, StackAboveNames, Profilers
    <3>. QED BY <3>1 DEF get_base_id, get_id
  <2>3. NewProfiler(b, i).trace_stack = <<b, i>>
    BY <2>2, NoneAssumption DEF NewProfiler, BaseId
  <2>4. [base_id |-> b, id |-> i] \in AllMentions
    BY <1>0, <2>1, HandedOver
  <2>5. i \in Int /\ i < next_id /\ \A p \in AllPlaces : p.trace_id = i => p.base_id = b
    BY <1>0, <2>4 DEF Consistent
  <2>6. next_id' = next_id
    BY <2>1, <2>2, NoneAssumption DEF InitProfiler
  <2>. QED BY <1>1, <2>1, <2>3, <2>5, <2>6
<1>4. ASSUME NEW t \in Threads, NEW n \in Names, NEW o \in Outcomes, Start(t, n, o)
      PROVE  Consistent(AllPlaces, AllMentions, next_id)'
  <2>. DEFINE p == Pushed(local[t], n)
              s == local[t].trace_stack
              place == [base_id |-> s[1], trace_id |-> next_id, parent_id |-> s[Len(s)]]
              mention == [base_id |-> s[1], id |-> next_id]
              r == Notification(p, n, "start")
  <2>1. /\ local[t] # None /\ next_id \in Ids
        /\ local' = [local EXCEPT ![t] = p]
        /\ next_id' = next_id + 1
        /\ Notify(r, o)
    BY <1>0, <1>4 DEF Start, Ids
  <2>2. s \in Seq(Ids) /\ Len(s) \in Nat /\ Len(s) >= 2 /\ t \in Profiled
    BY <1>0, <2>1 DEF Inv, StackAboveNames, Profilers, Profiled
  <2>3. p.trace_stack = Append(s, next_id)
    BY DEF Pushed
  <2>4. /\ PlacesOn(s) \subseteq PlacesOpen
        /\ MentionsOn(s) \subseteq MentionsOpen
    BY <2>2 DEF PlacesOpen, MentionsOpen
  <2>5. /\ PlacesOn(p.trace_stack) \subseteq PlacesOpen \cup {place}
        /\ MentionsOn(p.trace_stack) \subseteq MentionsOpen \cup {mention}
    BY <2>1, <2>2, <2>3, <2>4, PlacesPushed
  <2>6. /\ PlacesOpen' \subseteq PlacesOpen \cup {place}
        /\ MentionsOpen' \subseteq MentionsOpen \cup {mention}
    BY <1>0, <2>1, <2>5, OpenUpdate
  <2>7. /\ r.base_id = s[1] /\ r.trace_id = next_id /\ r.parent_id = s[Len(s)]
    BY <2>1, <2>2, <2>3 DEF Notification, get_base_id, get_id, get_parent_id
  <2>8. /\ PlacesRecorded' \subseteq PlacesRecorded \cup {place}
        /\ MentionsRecorded' \subseteq
             MentionsRecorded \cup {[base_id |-> s[1], id |-> s[Len(s)]]}
    BY <1>0, <2>1, <2>7, RecordedUpdate DEF PlaceOf
  <2>9. [base_id |-> s[1], id |-> s[Len(s)]] \in MentionsOpen
    BY <2>2, <2>4, OnMentions
  <2>10. /\ AllPlaces' \subseteq AllPlaces \cup {place}
         /\ AllMentions' \subseteq AllMentions \cup {mention}
    BY <2>6, <2>8, <2>9 DEF AllPlaces, AllMentions
  <2>. HIDE DEF place, mention
  <2>11. Consistent(AllPlaces', AllMentions', next_id + 1)
    BY <1>0, <2>10, ConsistentStart DEF place, mention
  <2>. QED BY <2>1, <2>11
<1>5. ASSUME NEW t \in Threads, NEW o \in Outcomes, Stop(t, o)
      PROVE  Consistent(AllPlaces, AllMentions, next_id)'
  <2>. DEFINE p == AfterStop(local[t], o)
              s == local[t].trace_stack
              r == Notification(local[t], TopName(local[t]), "stop")
  <2>1. /\ local[t] # None /\ local[t].name # << >>
        /\ local' = [local EXCEPT ![t] = p]
        /\ next_id' = next_id
        /\ Notify(r, o)
    BY <1>5 DEF Stop
  <2>2. s \in Seq(Ids) /\ Len(s) \in Nat /\ Len(s) >= 3 /\ t \in Profiled
    BY <1>0, <2>1 DEF Inv, StackAboveNames, Profilers, Profiled
  <2>3. p.trace_stack = IF o.raised THEN s ELSE Popped(s)
    BY DEF AfterStop, StackAfterStop
  <2>4. /\ PlacesOn(s) \subseteq PlacesOpen
        /\ MentionsOn(s) \subseteq MentionsOpen
    BY <2>2 DEF PlacesOpen, MentionsOpen
  <2>5. /\ PlacesOn(p.trace_stack) \subseteq PlacesOpen
        /\ MentionsOn(p.trace_stack) \subseteq MentionsOpen
    BY <2>2, <2>3, <2>4, PlacesPopped
  <2>6. /\ PlacesOpen' \subseteq PlacesOpen
        /\ MentionsOpen' \subseteq MentionsOpen
    BY <1>0, <2>1, <2>5, OpenUpdate
  <2>7. /\ r.base_id = s[1] /\ r.trace_id = s[Len(s)] /\ r.parent_id = s[Len(s) - 1]
    BY <2>1 DEF Notification, get_base_id, get_id, get_parent_id
  <2>8. PlaceOf(r) \in PlacesOpen
    <3>1. Len(s) \in 3 .. Len(s)
      BY <2>2
    <3>2. PlaceOf(r) \in PlacesOn(s)
      BY <2>7, <3>1, OnPlaces DEF PlaceOf
    <3>. QED BY <2>4, <3>2
  <2>9. [base_id |-> r.base_id, id |-> r.parent_id] \in MentionsOpen
    <3>1. Len(s) - 1 \in 2 .. Len(s)
      BY <2>2
    <3>2. [base_id |-> r.base_id, id |-> r.parent_id] \in MentionsOn(s)
      BY <2>7, <3>1, OnMentions
    <3>. QED BY <2>4, <3>2
  <2>10. AllPlaces' \subseteq AllPlaces /\ AllMentions' \subseteq AllMentions
    BY <1>0, <2>1, <2>6, <2>8, <2>9, RecordedUpdate DEF AllPlaces, AllMentions
  <2>. QED BY <1>0, <2>1, <2>10, ConsistentLess
<1>6. ASSUME NEW t \in Threads, Clean(t)
      PROVE  Consistent(AllPlaces, AllMentions, next_id)'
  <2>1. local' = [local EXCEPT ![t] = None] /\ collector' = collector /\ next_id' = next_id
    BY <1>6 DEF Clean
  <2>2. PlacesOpen' \subseteq PlacesOpen /\ MentionsOpen' \subseteq MentionsOpen
    BY <1>0, <2>1, OpenUpdate
  <2>3. PlacesRecorded' = PlacesRecorded /\ MentionsRecorded' = MentionsRecorded
    BY <2>1 DEF PlacesRecorded, MentionsRecorded
  <2>4. AllPlaces' \subseteq AllPlaces /\ AllMentions' \subseteq AllMentions
    BY <2>2, <2>3 DEF AllPlaces, AllMentions
  <2>. QED BY <1>0, <2>1, <2>4, ConsistentLess
<1>7. ASSUME UNCHANGED vars PROVE Consistent(AllPlaces, AllMentions, next_id)'
  BY <1>0, <1>7 DEF vars, AllPlaces, AllMentions, PlacesRecorded, PlacesOpen,
                    MentionsRecorded, MentionsOpen, Profiled
<1>8. Consistent(AllPlaces, AllMentions, next_id)'
  BY <1>2, <1>3, <1>4, <1>5, <1>6, <1>7 DEF Next, KeepProfiler, NotProfiled, StopUnmatched
<1>. QED BY <1>0, <1>8 DEF PlaceInv

(* However the notifier fails, and whatever is handed over between         *)
(* threads, the records of a point, those of start() and of stop(), name   *)
(* the same trace and the same parent.                                     *)
THEOREM PlacesAreUnique == Spec => []OnePlacePerPoint
<1>1. PlaceInv => OnePlacePerPoint
  <2>. SUFFICES ASSUME PlaceInv, NEW i \in DOMAIN collector, NEW j \in DOMAIN collector,
                       collector[i].trace_id = collector[j].trace_id
                PROVE  /\ collector[i].base_id = collector[j].base_id
                       /\ collector[i].parent_id = collector[j].parent_id
    BY DEF OnePlacePerPoint
  <2>1. PlaceOf(collector[i]) \in AllPlaces /\ PlaceOf(collector[j]) \in AllPlaces
    BY DEF AllPlaces, PlacesRecorded
  <2>2. PlaceOf(collector[i]) = PlaceOf(collector[j])
    BY <2>1 DEF PlaceInv, Consistent, PlaceOf
  <2>. QED BY <2>2 DEF PlaceOf
<1>. QED BY <1>1, PlaceInit, PlaceNext, PTL DEF Spec

(* However the notifier fails, the children of a point are recorded in its *)
(* trace, those of another thread that init() put below it included.       *)
THEOREM TreesAreWhole == Spec => []TreeStaysInTrace
<1>1. PlaceInv => TreeStaysInTrace
  <2>. SUFFICES ASSUME PlaceInv, NEW i \in DOMAIN collector, NEW j \in DOMAIN collector,
                       collector[i].parent_id = collector[j].trace_id
                PROVE  collector[i].base_id = collector[j].base_id
    BY DEF TreeStaysInTrace
  <2>1. /\ PlaceOf(collector[j]) \in AllPlaces
        /\ [base_id |-> collector[i].base_id, id |-> collector[i].parent_id] \in AllMentions
    BY DEF AllPlaces, PlacesRecorded, AllMentions, MentionsRecorded
  <2>. QED BY <2>1 DEF PlaceInv, Consistent, PlaceOf
<1>. QED BY <1>1, PlaceInit, PlaceNext, PTL DEF Spec

-----------------------------------------------------------------------------
(* The refinement of ProfileTree, while the notifier delivers every record.*)

(* The notifier stores every record and never raises: the collector is up. *)
Delivers == Outcomes \subseteq {Delivered}

(* The point that the k-th open name of a profiler stands for.             *)
OpenPoint(p, k) == [name      |-> p.name[k],
                    base_id   |-> p.trace_stack[1],
                    trace_id  |-> p.trace_stack[k + 2],
                    parent_id |-> p.trace_stack[k + 1]]
OpenId(p, k) == p.trace_stack[k + 2]

(* What the refinement needs: an open point is a started and no finished   *)
(* one, is not the one where its thread joined, and is open once.          *)
OpenStarted(t, k) == OpenPoint(local[t], k) \in Recorded("start")
OpenUnfinished(t, k) == \A f \in Recorded("stop") : f.trace_id # OpenId(local[t], k)
OpenBelowRoot(t, k) == OpenId(local[t], k) # local[t].trace_stack[2]
OpenOnce(t, k) ==
  \A u \in Profiled : \A l \in 1 .. Len(local[u].name) :
    OpenId(local[t], k) = OpenId(local[u], l) => t = u /\ k = l

OpenTracked ==
  \A t \in Profiled : \A k \in 1 .. Len(local[t].name) :
    OpenStarted(t, k) /\ OpenUnfinished(t, k) /\ OpenBelowRoot(t, k) /\ OpenOnce(t, k)

TreeInv == PlaceInv /\ MatchInv /\ OpenTracked

-----------------------------------------------------------------------------
(* How the operations change the open points and the recorded ones.        *)

LEMMA OpenShape ==
  ASSUME MatchInv, NEW t \in Profiled
  PROVE  /\ local[t] \in Profilers /\ local[t] # None
         /\ local[t].trace_stack \in Seq(Ids) /\ local[t].name \in Seq(Names)
         /\ Len(local[t].name) \in Nat
         /\ Len(local[t].trace_stack) = Len(local[t].name) + 2
BY DEF MatchInv, Inv, TypeOK, StackMatchesNames, Profiled, Profilers

LEMMA OpenPushed ==
  ASSUME NEW p \in Profilers, InStep(p), NEW n \in Names, next_id \in Ids
  PROVE  /\ Len(Pushed(p, n).name) = Len(p.name) + 1
         /\ \A k \in 1 .. Len(p.name) : OpenPoint(Pushed(p, n), k) = OpenPoint(p, k)
         /\ OpenPoint(Pushed(p, n), Len(p.name) + 1) =
              [name |-> n, base_id |-> p.trace_stack[1], trace_id |-> next_id,
               parent_id |-> get_id(p)]
         /\ Pushed(p, n).trace_stack[1] = p.trace_stack[1]
         /\ Pushed(p, n).trace_stack[2] = p.trace_stack[2]
         /\ get_id(Pushed(p, n)) = next_id
<1>. DEFINE s == p.trace_stack
            q == Pushed(p, n)
<1>1. /\ s \in Seq(Ids) /\ p.name \in Seq(Names)
      /\ Len(p.name) \in Nat /\ Len(s) = Len(p.name) + 2
  BY DEF Profilers, InStep
<1>2. /\ Len(q.trace_stack) = Len(s) + 1
      /\ \A i \in 1 .. Len(s) : q.trace_stack[i] = s[i]
      /\ q.trace_stack[Len(s) + 1] = next_id
  BY <1>1 DEF Pushed
<1>3. /\ Len(q.name) = Len(p.name) + 1
      /\ \A i \in 1 .. Len(p.name) : q.name[i] = p.name[i]
      /\ q.name[Len(p.name) + 1] = n
  BY <1>1 DEF Pushed
<1>4. ASSUME NEW k \in 1 .. Len(p.name)
      PROVE  OpenPoint(q, k) = OpenPoint(p, k)
  <2>1. k + 2 \in 1 .. Len(s) /\ k + 1 \in 1 .. Len(s) /\ 1 \in 1 .. Len(s)
    BY <1>1
  <2>. QED BY <1>2, <1>3, <2>1 DEF OpenPoint
<1>5. OpenPoint(q, Len(p.name) + 1) =
        [name |-> n, base_id |-> s[1], trace_id |-> next_id, parent_id |-> get_id(p)]
  <2>1. /\ q.trace_stack[1] = s[1]
        /\ q.trace_stack[(Len(p.name) + 1) + 2] = next_id
        /\ q.trace_stack[(Len(p.name) + 1) + 1] = s[Len(s)]
    BY <1>1, <1>2
  <2>. QED BY <1>3, <2>1 DEF OpenPoint, get_id
<1>6. /\ q.trace_stack[1] = s[1] /\ q.trace_stack[2] = s[2]
      /\ get_id(q) = next_id
  BY <1>1, <1>2 DEF get_id
<1>. QED BY <1>3, <1>4, <1>5, <1>6

LEMMA OpenPopped ==
  ASSUME NEW p \in Profilers, InStep(p), p.name # << >>, NEW o, ~o.raised
  PROVE  /\ Len(AfterStop(p, o).name) = Len(p.name) - 1
         /\ \A k \in 1 .. (Len(p.name) - 1) : OpenPoint(AfterStop(p, o), k) = OpenPoint(p, k)
         /\ AfterStop(p, o).trace_stack[1] = p.trace_stack[1]
         /\ AfterStop(p, o).trace_stack[2] = p.trace_stack[2]
         /\ get_id(AfterStop(p, o)) = get_parent_id(p)
<1>. DEFINE s == p.trace_stack
            q == AfterStop(p, o)
<1>1. /\ s \in Seq(Ids) /\ p.name \in Seq(Names)
      /\ Len(p.name) \in Nat /\ Len(p.name) > 0 /\ Len(s) = Len(p.name) + 2
      /\ s # << >>
  BY DEF Profilers, InStep
<1>2. q.trace_stack = Popped(s) /\ q.name = Popped(p.name)
  BY DEF AfterStop, StackAfterStop
<1>3. /\ Len(q.trace_stack) = Len(s) - 1
      /\ \A i \in 1 .. (Len(s) - 1) : q.trace_stack[i] = s[i]
  BY <1>1, <1>2, PoppedProperties
<1>4. /\ Len(q.name) = Len(p.name) - 1
      /\ \A i \in 1 .. (Len(p.name) - 1) : q.name[i] = p.name[i]
  BY <1>1, <1>2, PoppedProperties
<1>5. ASSUME NEW k \in 1 .. (Len(p.name) - 1)
      PROVE  OpenPoint(q, k) = OpenPoint(p, k)
  <2>1. k + 2 \in 1 .. (Len(s) - 1) /\ k + 1 \in 1 .. (Len(s) - 1) /\ 1 \in 1 .. (Len(s) - 1)
    BY <1>1
  <2>. QED BY <1>3, <1>4, <2>1 DEF OpenPoint
<1>6. /\ q.trace_stack[1] = s[1] /\ q.trace_stack[2] = s[2]
      /\ get_id(q) = get_parent_id(p)
  BY <1>1, <1>3 DEF get_id, get_parent_id
<1>. QED BY <1>4, <1>5, <1>6

(* A delivered record is among the recorded ones of its phase.             *)
LEMMA RecordedNotify ==
  ASSUME TypeOK, NEW r, NEW o, o.stored, Notify(r, o), NEW phase
  PROVE  Recorded(phase)' =
           IF r.phase = phase THEN Recorded(phase) \cup {PointOf(r)} ELSE Recorded(phase)
<1>1. /\ collector \in Seq(Notifications) /\ Len(collector) \in Nat
      /\ DOMAIN collector = 1 .. Len(collector)
      /\ collector' = Append(collector, r)
  BY DEF TypeOK, Notify
<1>2. /\ DOMAIN collector' = 1 .. (Len(collector) + 1)
      /\ \A i \in 1 .. Len(collector) : collector'[i] = collector[i]
      /\ collector'[Len(collector) + 1] = r
  BY <1>1
<1>3. ASSUME NEW x \in Recorded(phase)'
      PROVE  x \in Recorded(phase) \/ (r.phase = phase /\ x = PointOf(r))
  <2>1. PICK i \in DOMAIN collector' : collector'[i].phase = phase /\ x = PointOf(collector'[i])
    BY <1>3 DEF Recorded
  <2>. QED BY <1>1, <1>2, <2>1 DEF Recorded
<1>4. ASSUME NEW x \in Recorded(phase) PROVE x \in Recorded(phase)'
  <2>1. PICK i \in DOMAIN collector : collector[i].phase = phase /\ x = PointOf(collector[i])
    BY <1>4 DEF Recorded
  <2>2. i \in DOMAIN collector' /\ collector'[i] = collector[i]
    BY <1>1, <1>2, <2>1
  <2>. QED BY <2>1, <2>2 DEF Recorded
<1>5. ASSUME r.phase = phase PROVE PointOf(r) \in Recorded(phase)'
  <2>1. Len(collector) + 1 \in DOMAIN collector'
    BY <1>1, <1>2
  <2>. QED BY <1>2, <1>5, <2>1 DEF Recorded
<1>. QED BY <1>3, <1>4, <1>5

(* Every recorded id is older than the next uuid.                          *)
LEMMA RecordedOld ==
  ASSUME PlaceInv, NEW phase, NEW q \in Recorded(phase)
  PROVE  q.trace_id \in Int /\ q.trace_id < next_id
<1>1. PICK i \in DOMAIN collector : q = PointOf(collector[i])
  BY DEF Recorded
<1>2. PlaceOf(collector[i]) \in AllPlaces
  BY DEF AllPlaces, PlacesRecorded
<1>3. next_id \in Int
  BY MaxIdsAssumption DEF PlaceInv, OlderInv, Inv, TypeOK
<1>. QED BY <1>1, <1>2, <1>3 DEF PlaceInv, Consistent, PlaceOf, PointOf

(* So is every id on a stack.                                              *)
LEMMA StackedOld ==
  ASSUME PlaceInv, NEW t \in Profiled, NEW i \in 1 .. Len(local[t].trace_stack)
  PROVE  local[t].trace_stack[i] \in Int /\ local[t].trace_stack[i] < next_id
BY DEF PlaceInv, OlderInv, StacksGrow, Growing, Profiled

-----------------------------------------------------------------------------
(* The open points along a step.                                           *)

(* A step that opens no point, and records as stopped none that is open.   *)
LEMMA TrackedLess ==
  ASSUME OpenTracked,
         \A u \in Profiled' : \A k \in 1 .. Len(local'[u].name) :
           /\ u \in Profiled
           /\ k \in 1 .. Len(local[u].name)
           /\ OpenPoint(local'[u], k) = OpenPoint(local[u], k)
           /\ local'[u].trace_stack[2] = local[u].trace_stack[2],
         Recorded("start") \subseteq Recorded("start")',
         \A f \in Recorded("stop")' :
           \/ f \in Recorded("stop")
           \/ \A u \in Profiled' : \A k \in 1 .. Len(local'[u].name) :
                f.trace_id # OpenId(local'[u], k)
  PROVE  OpenTracked'
<1>. SUFFICES ASSUME NEW t \in Profiled', NEW k \in 1 .. Len(local'[t].name)
              PROVE  /\ OpenStarted(t, k)' /\ OpenUnfinished(t, k)'
                     /\ OpenBelowRoot(t, k)' /\ OpenOnce(t, k)'
  BY DEF OpenTracked
<1>1. \A p, i : OpenPoint(p, i).trace_id = OpenId(p, i)
  BY DEF OpenPoint, OpenId
<1>2. /\ t \in Profiled /\ k \in 1 .. Len(local[t].name)
      /\ OpenPoint(local'[t], k) = OpenPoint(local[t], k)
      /\ OpenId(local'[t], k) = OpenId(local[t], k)
      /\ local'[t].trace_stack[2] = local[t].trace_stack[2]
  BY <1>1
<1>3. OpenStarted(t, k) /\ OpenUnfinished(t, k) /\ OpenBelowRoot(t, k) /\ OpenOnce(t, k)
  BY <1>2 DEF OpenTracked
<1>4. OpenStarted(t, k)' /\ OpenBelowRoot(t, k)'
  BY <1>2, <1>3 DEF OpenStarted, OpenBelowRoot
<1>5. OpenUnfinished(t, k)'
  BY <1>2, <1>3 DEF OpenUnfinished
<1>6. OpenOnce(t, k)'
  <2>. SUFFICES ASSUME NEW u \in Profiled', NEW l \in 1 .. Len(local'[u].name),
                       OpenId(local'[t], k) = OpenId(local'[u], l)
                PROVE  t = u /\ k = l
    BY DEF OpenOnce
  <2>1. /\ u \in Profiled /\ l \in 1 .. Len(local[u].name)
        /\ OpenId(local'[u], l) = OpenId(local[u], l)
    BY <1>1
  <2>. QED BY <1>2, <1>3, <2>1 DEF OpenOnce
<1>. QED BY <1>4, <1>5, <1>6

LEMMA OpenPointId ==
  ASSUME NEW p, NEW k
  PROVE  OpenPoint(p, k).trace_id = OpenId(p, k)
BY DEF OpenPoint, OpenId

LEMMA TrackedStart ==
  ASSUME TreeInv, NEW t \in Threads, NEW n \in Names, NEW o, o.stored, Start(t, n, o)
  PROVE  OpenTracked'
<1>. DEFINE p == local[t]
            q == Pushed(local[t], n)
            r == Notification(q, n, "start")
            top == Len(p.name) + 1
<1>1. /\ PlaceInv /\ MatchInv /\ OpenTracked /\ TypeOK
      /\ next_id \in Int
  BY MaxIdsAssumption DEF TreeInv, MatchInv, Inv, TypeOK
<1>2. /\ t \in Profiled /\ next_id \in Ids
      /\ local' = [local EXCEPT ![t] = q]
      /\ Notify(r, o)
  BY <1>1, MaxIdsAssumption DEF Start, Profiled, Ids, TypeOK
<1>3. /\ p \in Profilers /\ InStep(p) /\ Len(p.name) \in Nat
      /\ p.trace_stack \in Seq(Ids) /\ Len(p.trace_stack) = Len(p.name) + 2
  BY <1>1, <1>2, OpenShape DEF InStep
<1>4. /\ Len(q.name) = top
      /\ \A k \in 1 .. Len(p.name) : OpenPoint(q, k) = OpenPoint(p, k)
      /\ OpenId(q, top) = next_id
      /\ q.trace_stack[2] = p.trace_stack[2]
      /\ OpenPoint(q, top) = [name |-> n, base_id |-> p.trace_stack[1], trace_id |-> next_id,
                              parent_id |-> get_id(p)]
  BY <1>2, <1>3, OpenPushed, OpenPointId
<1>5. PointOf(r) = OpenPoint(q, top) /\ r.phase = "start"
  <2>1. /\ q.trace_stack[1] = p.trace_stack[1]
        /\ get_id(q) = next_id
    BY <1>2, <1>3, OpenPushed
  <2>2. get_parent_id(q) = get_id(p)
    BY <1>3 DEF get_parent_id, get_id, Pushed
  <2>. QED BY <1>4, <2>1, <2>2 DEF PointOf, Notification, get_base_id
<1>6. /\ Recorded("start")' = Recorded("start") \cup {OpenPoint(q, top)}
      /\ Recorded("stop")' = Recorded("stop")
  BY <1>1, <1>2, <1>5, RecordedNotify
<1>7. \A u \in Threads : local'[u] = IF u = t THEN q ELSE local[u]
  BY <1>1, <1>2 DEF TypeOK
(* Of what is open after the step, the new point alone has the new uuid.   *)
<1>8. ASSUME NEW u \in Profiled', NEW k \in 1 .. Len(local'[u].name), ~(u = t /\ k = top)
      PROVE  /\ u \in Profiled /\ k \in 1 .. Len(local[u].name)
             /\ OpenPoint(local'[u], k) = OpenPoint(local[u], k)
             /\ OpenId(local'[u], k) = OpenId(local[u], k)
             /\ local'[u].trace_stack[2] = local[u].trace_stack[2]
             /\ OpenId(local'[u], k) # next_id
  <2>1. /\ u \in Profiled /\ k \in 1 .. Len(local[u].name)
        /\ OpenPoint(local'[u], k) = OpenPoint(local[u], k)
        /\ local'[u].trace_stack[2] = local[u].trace_stack[2]
    <3>1. CASE u = t
      BY <1>2, <1>3, <1>4, <1>7, <1>8, <3>1
    <3>2. CASE u # t
      BY <1>7, <1>8, <3>2 DEF Profiled
    <3>. QED BY <3>1, <3>2
  <2>2. OpenId(local'[u], k) = OpenId(local[u], k)
    BY <2>1, OpenPointId
  <2>3. k + 2 \in 1 .. Len(local[u].trace_stack)
    BY <1>1, <2>1, OpenShape
  <2>4. OpenId(local[u], k) \in Int /\ OpenId(local[u], k) < next_id
    BY <1>1, <2>1, <2>3, StackedOld DEF OpenId
  <2>. QED BY <1>1, <2>1, <2>2, <2>4
<1>9. ASSUME NEW u \in Profiled', NEW k \in 1 .. Len(local'[u].name)
      PROVE  /\ OpenStarted(u, k)' /\ OpenUnfinished(u, k)'
             /\ OpenBelowRoot(u, k)' /\ OpenOnce(u, k)'
  <2>1. CASE u = t /\ k = top
    <3>1. local'[u] = q /\ OpenId(local'[u], k) = next_id
      BY <1>2, <1>4, <1>7, <2>1
    <3>2. OpenStarted(u, k)'
      BY <1>6, <2>1, <3>1 DEF OpenStarted
    <3>3. OpenUnfinished(u, k)'
      BY <1>1, <1>6, <3>1, RecordedOld DEF OpenUnfinished
    <3>4. OpenBelowRoot(u, k)'
      <4>1. 2 \in 1 .. Len(p.trace_stack)
        BY <1>3
      <4>2. p.trace_stack[2] \in Int /\ p.trace_stack[2] < next_id
        BY <1>1, <1>2, <4>1, StackedOld
      <4>. QED BY <1>1, <1>4, <3>1, <4>2 DEF OpenBelowRoot
    <3>5. OpenOnce(u, k)'
      BY <1>8, <2>1, <3>1 DEF OpenOnce
    <3>. QED BY <3>2, <3>3, <3>4, <3>5
  <2>2. CASE ~(u = t /\ k = top)
    <3>1. /\ u \in Profiled /\ k \in 1 .. Len(local[u].name)
          /\ OpenPoint(local'[u], k) = OpenPoint(local[u], k)
          /\ OpenId(local'[u], k) = OpenId(local[u], k)
          /\ local'[u].trace_stack[2] = local[u].trace_stack[2]
          /\ OpenId(local'[u], k) # next_id
      BY <1>8, <2>2
    <3>2. /\ OpenStarted(u, k) /\ OpenUnfinished(u, k)
          /\ OpenBelowRoot(u, k) /\ OpenOnce(u, k)
      BY <1>1, <3>1 DEF OpenTracked
    <3>3. OpenStarted(u, k)' /\ OpenUnfinished(u, k)' /\ OpenBelowRoot(u, k)'
      BY <1>6, <3>1, <3>2 DEF OpenStarted, OpenUnfinished, OpenBelowRoot
    <3>4. OpenOnce(u, k)'
      <4>. SUFFICES ASSUME NEW v \in Profiled', NEW l \in 1 .. Len(local'[v].name),
                           OpenId(local'[u], k) = OpenId(local'[v], l)
                    PROVE  u = v /\ k = l
        BY DEF OpenOnce
      <4>1. ~(v = t /\ l = top)
        BY <1>2, <1>4, <1>7, <3>1
      <4>2. /\ v \in Profiled /\ l \in 1 .. Len(local[v].name)
            /\ OpenId(local'[v], l) = OpenId(local[v], l)
        BY <1>8, <4>1
      <4>. QED BY <3>1, <3>2, <4>2 DEF OpenOnce
    <3>. QED BY <3>3, <3>4
  <2>. QED BY <2>1, <2>2
<1>. QED BY <1>9 DEF OpenTracked

LEMMA TrackedStop ==
  ASSUME TreeInv, NEW t \in Threads, NEW o, o.stored, ~o.raised, Stop(t, o)
  PROVE  OpenTracked'
<1>. DEFINE p == local[t]
            q == AfterStop(local[t], o)
            r == Notification(p, TopName(p), "stop")
            top == Len(p.name)
<1>1. PlaceInv /\ MatchInv /\ OpenTracked /\ TypeOK
  BY DEF TreeInv, MatchInv, Inv
<1>2. /\ t \in Profiled /\ p.name # << >>
      /\ local' = [local EXCEPT ![t] = q]
      /\ Notify(r, o)
  BY DEF Stop, Profiled
<1>3. /\ p \in Profilers /\ InStep(p) /\ top \in Nat /\ top > 0
      /\ p.trace_stack \in Seq(Ids) /\ Len(p.trace_stack) = top + 2
  <2>1. p.name \in Seq(Names)
    BY <1>1, <1>2, OpenShape
  <2>. QED BY <1>1, <1>2, <2>1, OpenShape DEF InStep
<1>4. /\ Len(q.name) = top - 1
      /\ \A k \in 1 .. (top - 1) : OpenPoint(q, k) = OpenPoint(p, k)
      /\ q.trace_stack[2] = p.trace_stack[2]
  BY <1>2, <1>3, OpenPopped
<1>5. PointOf(r).trace_id = OpenId(p, top) /\ r.phase = "stop"
  BY <1>3 DEF PointOf, Notification, get_id, OpenId
<1>6. /\ Recorded("start")' = Recorded("start")
      /\ Recorded("stop")' = Recorded("stop") \cup {PointOf(r)}
  BY <1>1, <1>2, <1>5, RecordedNotify
<1>7. \A u \in Threads : local'[u] = IF u = t THEN q ELSE local[u]
  BY <1>1, <1>2 DEF TypeOK
<1>8. ASSUME NEW u \in Profiled', NEW k \in 1 .. Len(local'[u].name)
      PROVE  /\ u \in Profiled /\ k \in 1 .. Len(local[u].name)
             /\ OpenPoint(local'[u], k) = OpenPoint(local[u], k)
             /\ local'[u].trace_stack[2] = local[u].trace_stack[2]
             /\ ~(u = t /\ k = top)
  <2>1. CASE u = t
    BY <1>2, <1>3, <1>4, <1>7, <1>8, <2>1
  <2>2. CASE u # t
    BY <1>7, <1>8, <2>2 DEF Profiled
  <2>. QED BY <2>1, <2>2
<1>9. ASSUME NEW u \in Profiled', NEW k \in 1 .. Len(local'[u].name)
      PROVE  PointOf(r).trace_id # OpenId(local'[u], k)
  <2>1. /\ u \in Profiled /\ k \in 1 .. Len(local[u].name) /\ ~(u = t /\ k = top)
        /\ OpenId(local'[u], k) = OpenId(local[u], k)
    BY <1>8, OpenPointId
  <2>2. top \in 1 .. Len(local[t].name)
    BY <1>3
  <2>3. OpenOnce(t, top)
    BY <1>1, <1>2, <2>2 DEF OpenTracked
  <2>. QED BY <1>5, <2>1, <2>3 DEF OpenOnce
<1>. QED BY <1>1, <1>6, <1>8, <1>9, TrackedLess

LEMMA TreeInvInit == Init => TreeInv
<1>. SUFFICES ASSUME Init PROVE TreeInv
  OBVIOUS
<1>1. PlaceInv /\ MatchInv
  BY PlaceInit, InvInit DEF Init, MatchInv, StackMatchesNames
<1>. QED BY <1>1 DEF Init, TreeInv, OpenTracked, Profiled

LEMMA TreeInvNext ==
  ASSUME Delivers
  PROVE  TreeInv /\ [Next]_vars => TreeInv'
<1>. SUFFICES ASSUME TreeInv, [Next]_vars PROVE TreeInv'
  OBVIOUS
<1>0. \A o \in Outcomes : o.stored /\ ~o.raised
  BY DEF Delivers, Delivered
<1>1. PlaceInv' /\ MatchInv' /\ OpenTracked /\ TypeOK
  BY <1>0, PlaceNext, MatchNext DEF TreeInv, NeverRaises, MatchInv, Inv
(* A thread whose new profiler, if any, has no open point.                 *)
<1>2. ASSUME NEW t \in Threads, NEW p, p = None \/ p.name = << >>,
             local' = [local EXCEPT ![t] = p], collector' = collector
      PROVE  OpenTracked'
  <2>1. \A u \in Threads : local'[u] = IF u = t THEN p ELSE local[u]
    BY <1>1, <1>2 DEF TypeOK
  <2>2. ASSUME NEW u \in Profiled', NEW k \in 1 .. Len(local'[u].name)
        PROVE  u \in Profiled /\ local'[u] = local[u]
    BY <1>2, <2>1, <2>2 DEF Profiled
  <2>3. Recorded("start")' = Recorded("start") /\ Recorded("stop")' = Recorded("stop")
    BY <1>2 DEF Recorded
  <2>. QED BY <1>1, <2>2, <2>3, TrackedLess
<1>3. ASSUME NEW t \in Threads, NEW base, NEW parent, InitProfiler(t, base, parent)
      PROVE  OpenTracked'
  BY <1>2, <1>3 DEF InitProfiler, NewProfiler
<1>4. ASSUME NEW t \in Threads, Clean(t) PROVE OpenTracked'
  BY <1>2, <1>4 DEF Clean
<1>5. ASSUME NEW t \in Threads, NEW n \in Names, NEW o \in Outcomes, Start(t, n, o)
      PROVE  OpenTracked'
  BY <1>0, <1>5, TrackedStart
<1>6. ASSUME NEW t \in Threads, NEW o \in Outcomes, Stop(t, o) PROVE OpenTracked'
  BY <1>0, <1>6, TrackedStop
<1>7. ASSUME UNCHANGED vars PROVE OpenTracked'
  BY <1>1, <1>7 DEF vars, OpenTracked, OpenStarted, OpenUnfinished, OpenBelowRoot, OpenOnce,
                    Profiled, Recorded
<1>8. OpenTracked'
  BY <1>3, <1>4, <1>5, <1>6, <1>7
     DEF Next, InitFromOutside, InitFromThread, KeepProfiler, NotProfiled, StopUnmatched
<1>. QED BY <1>1, <1>8 DEF TreeInv

-----------------------------------------------------------------------------
(* Every step of the profiler is one of the tree, or leaves it alone.      *)

LEMMA SessionsUpdate ==
  ASSUME TypeOK, NEW t \in Threads, NEW p, local' = [local EXCEPT ![t] = p]
  PROVE  /\ Sessions \in [Threads -> {SessionOf(local[u]) : u \in Threads}]
         /\ \A u \in Threads : Sessions[u] = SessionOf(local[u])
         /\ Sessions' = [Sessions EXCEPT ![t] = SessionOf(p)]
BY DEF TypeOK, Sessions

LEMMA SessionExists ==
  ASSUME MatchInv, NEW t \in Profiled
  PROVE  /\ SessionOf(local[t]) # None
         /\ SessionOf(local[t]) = [base_id |-> get_base_id(local[t]),
                                   root |-> local[t].trace_stack[2],
                                   id |-> get_id(local[t])]
         /\ SessionOf(local[t]) \in [base_id : Ids, root : Ids, id : Ids]
<1>1. /\ local[t] # None /\ local[t].trace_stack \in Seq(Ids)
      /\ Len(local[t].trace_stack) >= 2
  BY OpenShape
<1>2. /\ get_base_id(local[t]) \in Ids /\ local[t].trace_stack[2] \in Ids
      /\ get_id(local[t]) \in Ids
  BY <1>1 DEF get_base_id, get_id
<1>. QED BY <1>1, <1>2, NoneAssumption DEF SessionOf

(* The uuid of a new point is one that the tree has not seen.              *)
LEMMA NextIdUnused ==
  ASSUME TreeInv
  PROVE  next_id \notin Tree!UsedIds
<1>1. PlaceInv /\ MatchInv /\ TypeOK /\ next_id \in Int
  BY MaxIdsAssumption DEF TreeInv, MatchInv, Inv, TypeOK
<1>2. \A p \in Recorded("start") : p.trace_id # next_id
  BY <1>1, RecordedOld
<1>3. ASSUME NEW t \in Threads, Sessions[t] # None
      PROVE  next_id \notin Tree!IdsOf(Sessions[t])
  <2>1. t \in Profiled /\ Sessions[t] = SessionOf(local[t])
    BY <1>3 DEF Sessions, SessionOf, Profiled
  <2>2. /\ Len(local[t].trace_stack) \in Nat /\ Len(local[t].trace_stack) >= 2
    BY <1>1, <2>1, OpenShape
  <2>3. /\ local[t].trace_stack[1] # next_id
        /\ local[t].trace_stack[2] # next_id
        /\ local[t].trace_stack[Len(local[t].trace_stack)] # next_id
    BY <1>1, <2>1, <2>2, StackedOld
  <2>4. Sessions[t] = [base_id |-> get_base_id(local[t]), root |-> local[t].trace_stack[2],
                       id |-> get_id(local[t])]
    BY <1>1, <2>1, SessionExists
  <2>. QED BY <2>3, <2>4 DEF Tree!IdsOf, get_base_id, get_id
<1>. QED BY <1>2, <1>3 DEF Tree!UsedIds

LEMMA InitRefines == Init => Tree!Init
BY DEF Init, Tree!Init, Recorded, Sessions, SessionOf

LEMMA JoinRefines ==
  ASSUME TypeOK, NEW t \in Threads, NEW base \in Ids \cup {None}, NEW parent \in Ids \cup {None},
         InitProfiler(t, base, parent)
  PROVE  \E b \in Ids, i \in Ids : Tree!Join(t, b, i)
<1>. DEFINE b == BaseId(base)
            i == IF parent = None THEN BaseId(base) ELSE parent
            p == NewProfiler(base, parent)
<1>1. /\ local' = [local EXCEPT ![t] = p] /\ collector' = collector
      /\ local[t] = None
      /\ base = None => next_id \in Ids
  BY MaxIdsAssumption DEF InitProfiler, TypeOK, Ids
<1>2. b \in Ids /\ i \in Ids
  BY <1>1 DEF BaseId
<1>3. p = [trace_stack |-> <<b, i>>, name |-> << >>]
  BY DEF NewProfiler
<1>4. p \in Profilers
  BY <1>2, <1>3 DEF Profilers
<1>5. SessionOf(p) = [base_id |-> b, root |-> i, id |-> i]
  BY <1>3, <1>4, NoneAssumption DEF SessionOf, get_base_id, get_id
<1>6. Sessions[t] = None /\ Sessions' = [Sessions EXCEPT ![t] = SessionOf(p)]
  BY <1>1, SessionsUpdate DEF SessionOf
<1>7. Recorded("start")' = Recorded("start") /\ Recorded("stop")' = Recorded("stop")
  BY <1>1 DEF Recorded
<1>8. Tree!Join(t, b, i)
  BY <1>5, <1>6, <1>7 DEF Tree!Join
<1>. QED BY <1>2, <1>8

LEMMA StartRefines ==
  ASSUME TreeInv, NEW t \in Threads, NEW n \in Names, NEW o, o.stored, Start(t, n, o)
  PROVE  \E i \in Ids : Tree!StartPoint(t, n, i)
<1>. DEFINE p == local[t]
            q == Pushed(local[t], n)
            r == Notification(q, n, "start")
<1>1. PlaceInv /\ MatchInv /\ TypeOK
  BY DEF TreeInv, MatchInv, Inv
<1>2. /\ t \in Profiled /\ next_id \in Ids
      /\ local' = [local EXCEPT ![t] = q]
      /\ Notify(r, o)
  BY <1>1, MaxIdsAssumption DEF Start, Profiled, Ids, TypeOK
<1>3. /\ p \in Profilers /\ InStep(p) /\ WellFormed(p)
      /\ p.trace_stack \in Seq(Ids) /\ Len(p.trace_stack) \in Nat
  BY <1>1, <1>2, OpenShape DEF InStep, WellFormed
<1>4. /\ get_base_id(q) = get_base_id(p)
      /\ q.trace_stack[2] = p.trace_stack[2]
      /\ get_id(q) = next_id
  BY <1>2, <1>3, OpenPushed DEF get_base_id
<1>5. get_parent_id(q) = get_id(p)
  <2>1. q.trace_stack = Append(p.trace_stack, next_id)
    BY DEF Pushed
  <2>2. Len(p.trace_stack) \in 1 .. Len(p.trace_stack)
    BY <1>3 DEF WellFormed, Profilers
  <2>3. /\ Len(q.trace_stack) - 1 = Len(p.trace_stack)
        /\ q.trace_stack[Len(p.trace_stack)] = p.trace_stack[Len(p.trace_stack)]
    BY <1>2, <1>3, <2>1, <2>2
  <2>. QED BY <2>3 DEF get_parent_id, get_id
<1>a. /\ SessionOf(p) # None
      /\ SessionOf(p) = [base_id |-> get_base_id(p), root |-> p.trace_stack[2], id |-> get_id(p)]
  BY <1>1, <1>2, SessionExists
<1>6. q \in Profilers
  BY <1>2, <1>3, PushedType
<1>7. SessionOf(q) = [SessionOf(p) EXCEPT !.id = next_id]
  <2>1. SessionOf(q) = [base_id |-> get_base_id(p), root |-> p.trace_stack[2], id |-> next_id]
    BY <1>4, <1>6, NoneAssumption DEF SessionOf
  <2>. QED BY <1>a, <2>1
<1>8. /\ Sessions[t] = SessionOf(p) /\ Sessions[t] # None
      /\ Sessions' = [Sessions EXCEPT ![t].id = next_id]
  <2>1. /\ Sessions[t] = SessionOf(p)
        /\ Sessions \in [Threads -> {SessionOf(local[u]) : u \in Threads}]
        /\ Sessions' = [Sessions EXCEPT ![t] = SessionOf(q)]
    BY <1>1, <1>2, SessionsUpdate
  <2>2. [Sessions EXCEPT ![t].id = next_id] =
          [Sessions EXCEPT ![t] = [SessionOf(p) EXCEPT !.id = next_id]]
    BY <2>1
  <2>. QED BY <1>a, <1>7, <2>1, <2>2
<1>9. PointOf(r) = [name |-> n, base_id |-> Sessions[t].base_id, trace_id |-> next_id,
                    parent_id |-> Sessions[t].id]
  <2>1. /\ r.name = n /\ r.base_id = get_base_id(p)
        /\ r.trace_id = next_id /\ r.parent_id = get_id(p)
    BY <1>4, <1>5 DEF Notification
  <2>2. Sessions[t].base_id = get_base_id(p) /\ Sessions[t].id = get_id(p)
    BY <1>a, <1>8
  <2>. QED BY <2>1, <2>2 DEF PointOf
<1>10. r.phase = "start"
  BY DEF Notification
<1>11. /\ Recorded("start")' = Recorded("start") \cup {PointOf(r)}
       /\ Recorded("stop")' = Recorded("stop")
  BY <1>1, <1>2, <1>10, RecordedNotify
<1>12. next_id \notin Tree!UsedIds
  BY NextIdUnused
<1>13. Tree!StartPoint(t, n, next_id)
  BY <1>8, <1>9, <1>11, <1>12 DEF Tree!StartPoint
<1>. QED BY <1>2, <1>13

LEMMA StopRefines ==
  ASSUME TreeInv, NEW t \in Threads, NEW o, o.stored, ~o.raised, Stop(t, o)
  PROVE  \E x \in Recorded("start") : Tree!StopPoint(t, x)
<1>. DEFINE p == local[t]
            q == AfterStop(local[t], o)
            r == Notification(p, TopName(p), "stop")
            top == Len(p.name)
<1>1. PlaceInv /\ MatchInv /\ OpenTracked /\ TypeOK
  BY DEF TreeInv, MatchInv, Inv
<1>2. /\ t \in Profiled /\ p.name # << >>
      /\ local' = [local EXCEPT ![t] = q]
      /\ Notify(r, o)
  BY DEF Stop, Profiled
<1>3. /\ p \in Profilers /\ InStep(p) /\ WellFormed(p) /\ top \in Nat /\ top > 0
      /\ p.trace_stack \in Seq(Ids) /\ Len(p.trace_stack) = top + 2
  <2>1. p.name \in Seq(Names)
    BY <1>1, <1>2, OpenShape
  <2>. QED BY <1>1, <1>2, <2>1, OpenShape DEF InStep, WellFormed
<1>4. /\ get_base_id(q) = get_base_id(p)
      /\ q.trace_stack[2] = p.trace_stack[2]
      /\ get_id(q) = get_parent_id(p)
  BY <1>2, <1>3, OpenPopped DEF get_base_id
(* The record of stop() is of the open point at the top, which was started.*)
<1>5. /\ PointOf(r) = OpenPoint(p, top) /\ r.phase = "stop"
      /\ PointOf(r).trace_id = OpenId(p, top)
  BY <1>3 DEF PointOf, Notification, OpenPoint, OpenId, get_base_id, get_id, get_parent_id, TopName
<1>6. /\ OpenStarted(t, top) /\ OpenUnfinished(t, top) /\ OpenBelowRoot(t, top)
  <2>1. top \in 1 .. Len(local[t].name)
    BY <1>3
  <2>. QED BY <1>1, <1>2, <2>1 DEF OpenTracked
<1>7. /\ PointOf(r) \in Recorded("start")
      /\ PointOf(r) \notin Recorded("stop")
      /\ get_id(p) # p.trace_stack[2]
  BY <1>3, <1>5, <1>6 DEF OpenStarted, OpenUnfinished, OpenBelowRoot, OpenId, get_id
<1>a. /\ SessionOf(p) # None
      /\ SessionOf(p) = [base_id |-> get_base_id(p), root |-> p.trace_stack[2], id |-> get_id(p)]
  BY <1>1, <1>2, SessionExists
<1>8. SessionOf(q) = [SessionOf(p) EXCEPT !.id = get_parent_id(p)]
  <2>1. q \in Profilers /\ q # None
    <3>1. AfterStop(p, o) = AfterStop(p, [stored |-> TRUE, raised |-> FALSE])
      BY DEF AfterStop, StackAfterStop
    <3>2. [stored |-> TRUE, raised |-> FALSE] \in AllOutcomes
      BY DEF AllOutcomes
    <3>. QED BY <1>2, <1>3, <3>1, <3>2, AfterStopType, NoneAssumption
  <2>2. SessionOf(q) = [base_id |-> get_base_id(p), root |-> p.trace_stack[2],
                        id |-> get_parent_id(p)]
    BY <1>4, <2>1 DEF SessionOf
  <2>. QED BY <1>a, <2>2
<1>9. /\ Sessions[t] = SessionOf(p) /\ Sessions[t] # None
      /\ Sessions' = [Sessions EXCEPT ![t].id = get_parent_id(p)]
  <2>1. /\ Sessions[t] = SessionOf(p)
        /\ Sessions \in [Threads -> {SessionOf(local[u]) : u \in Threads}]
        /\ Sessions' = [Sessions EXCEPT ![t] = SessionOf(q)]
    BY <1>1, <1>2, SessionsUpdate
  <2>2. [Sessions EXCEPT ![t].id = get_parent_id(p)] =
          [Sessions EXCEPT ![t] = [SessionOf(p) EXCEPT !.id = get_parent_id(p)]]
    BY <2>1
  <2>. QED BY <1>a, <1>8, <2>1, <2>2
<1>10. /\ PointOf(r).trace_id = Sessions[t].id /\ PointOf(r).base_id = Sessions[t].base_id
       /\ PointOf(r).parent_id = get_parent_id(p)
       /\ Sessions[t].id # Sessions[t].root
  <2>1. /\ r.trace_id = get_id(p) /\ r.base_id = get_base_id(p)
        /\ r.parent_id = get_parent_id(p)
    BY DEF Notification
  <2>2. /\ Sessions[t].id = get_id(p) /\ Sessions[t].base_id = get_base_id(p)
        /\ Sessions[t].root = p.trace_stack[2]
    BY <1>a, <1>9
  <2>. QED BY <1>7, <2>1, <2>2 DEF PointOf
<1>11. /\ Recorded("start")' = Recorded("start")
       /\ Recorded("stop")' = Recorded("stop") \cup {PointOf(r)}
  BY <1>1, <1>2, <1>5, RecordedNotify
<1>12. Tree!StopPoint(t, PointOf(r))
  BY <1>7, <1>9, <1>10, <1>11 DEF Tree!StopPoint
<1>. QED BY <1>7, <1>12

LEMMA StepRefines ==
  ASSUME Delivers
  PROVE  TreeInv /\ [Next]_vars => [Tree!Next]_(Tree!vars)
<1>. SUFFICES ASSUME TreeInv, [Next]_vars PROVE [Tree!Next]_(Tree!vars)
  OBVIOUS
<1>0. \A o \in Outcomes : o.stored /\ ~o.raised
  BY DEF Delivers, Delivered
<1>1. MatchInv /\ Inv /\ TypeOK
  BY DEF TreeInv, MatchInv, Inv
<1>2. ASSUME NEW t \in Threads, InitFromOutside(t) PROVE Tree!Next
  <2>1. \E base \in Ids \cup {None}, parent \in Ids \cup {None} : InitProfiler(t, base, parent)
    BY <1>2 DEF InitFromOutside, Ids
  <2>. QED BY <1>1, <2>1, JoinRefines DEF Tree!Next
<1>3. ASSUME NEW t \in Threads, NEW u \in Threads, InitFromThread(t, u) PROVE Tree!Next
  <2>1. u \in Profiled /\ InitProfiler(t, get_base_id(local[u]), get_id(local[u]))
    BY <1>3 DEF InitFromThread, Profiled
  <2>2. local[u].trace_stack \in Seq(Ids) /\ Len(local[u].trace_stack) >= 2
    BY <1>1, <2>1, OpenShape
  <2>3. get_base_id(local[u]) \in Ids /\ get_id(local[u]) \in Ids
    BY <2>2 DEF get_base_id, get_id
  <2>. QED BY <1>1, <2>1, <2>3, JoinRefines DEF Tree!Next
<1>4. ASSUME NEW t \in Threads, NEW n \in Names, NEW o \in Outcomes, Start(t, n, o)
      PROVE  Tree!Next
  BY <1>0, <1>4, StartRefines DEF Tree!Next
<1>5. ASSUME NEW t \in Threads, NEW o \in Outcomes, Stop(t, o) PROVE Tree!Next
  BY <1>0, <1>5, StopRefines DEF Tree!Next
<1>6. ASSUME NEW t \in Threads, Clean(t) PROVE Tree!Next
  <2>1. local' = [local EXCEPT ![t] = None] /\ collector' = collector
    BY <1>6 DEF Clean
  <2>2. Sessions' = [Sessions EXCEPT ![t] = None]
    BY <1>1, <2>1, SessionsUpdate DEF SessionOf
  <2>3. Recorded("start")' = Recorded("start") /\ Recorded("stop")' = Recorded("stop")
    BY <2>1 DEF Recorded
  <2>4. Tree!Leave(t)
    BY <2>2, <2>3 DEF Tree!Leave
  <2>. QED BY <2>4 DEF Tree!Next
<1>7. ASSUME UNCHANGED vars PROVE UNCHANGED Tree!vars
  BY <1>7 DEF vars, Tree!vars, Recorded, Sessions
<1>. QED
  BY <1>2, <1>3, <1>4, <1>5, <1>6, <1>7 DEF Next, KeepProfiler, NotProfiled, StopUnmatched

(* While the notifier delivers, start() and stop() of profiler.py build    *)
(* the tree of points that its users are promised: whatever the threads    *)
(* call, each point is recorded once when it starts, below the current     *)
(* one, and once when it, the current one, stops.                          *)
THEOREM TreeIsImplemented ==
  ASSUME Delivers
  PROVE  Spec => ImplementsTree
<1>1. Init => TreeInv
  BY TreeInvInit
<1>2. TreeInv /\ [Next]_vars => TreeInv'
  BY TreeInvNext
<1>3. Init => Tree!Init
  BY InitRefines
<1>4. TreeInv /\ [Next]_vars => [Tree!Next]_(Tree!vars)
  BY StepRefines
<1>. QED BY <1>1, <1>2, <1>3, <1>4, PTL DEF Spec, ImplementsTree, Tree!Spec
=============================================================================
