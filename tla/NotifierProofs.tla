--------------------------- MODULE NotifierProofs ---------------------------
(***************************************************************************)
(* Theorems about Notifier, for any number of applications and workers,    *)
(* drivers made and times the cache is cleared.                            *)
(***************************************************************************)
EXTENDS Notifier, TLAPS

Notifiers == 0 .. drivers
Steps == {"idle", "look", "make", "store", "read", "set", "enable", "failed"}

(* The shape of the variables, and what the steps of create() rely on:     *)
(* there is an answer to store and to set.                                 *)
Shape ==
  /\ cache \in Notifiers \cup {None}
  /\ notifier \in Notifiers
  /\ drivers \in Nat
  /\ pc \in [Applications -> Steps]
  /\ result \in [Applications -> Notifiers \cup {None}]
  /\ enabled \in BOOLEAN
  /\ point \in [Workers -> Notifiers \cup {None}]
  /\ clears \in Nat
  /\ raced \in BOOLEAN /\ failed \in BOOLEAN /\ split \in BOOLEAN
  /\ \A i \in Applications : pc[i] \in {"store", "set"} => result[i] # None

(* create() finds its answer in the cache unless it was cleared.           *)
Answering ==
  clears = 0 => \A i \in Applications : /\ pc[i] = "read" => cache # None
                                        /\ pc[i] # "failed"

(* Without a race, a driver is made by one application, for an empty cache.*)
Alone ==
  ~raced => \A i \in Applications : Making(i) =>
              /\ cache = None
              /\ \A j \in Applications : Making(j) => j = i

(* While no driver could not be made, no answer is the no-op notifier, and *)
(* who is about to enable the middleware has set the notifier.             *)
Recorded ==
  ~failed => /\ cache # Noop
             /\ \A i \in Applications : /\ pc[i] \in {"store", "set"} => result[i] # Noop
                                        /\ pc[i] = "enable" => notifier # Noop
             /\ enabled => notifier # Noop

(* Without a race and a clearing: as long as nothing is cached, nothing    *)
(* has been answered, and the only driver is the one about to be stored.   *)
Before ==
  cache = None =>
    /\ notifier = Noop /\ ~enabled
    /\ \A i \in Applications : /\ pc[i] \in {"idle", "look", "make", "store"}
                               /\ pc[i] # "store" => result[i] = None
    /\ \A w \in Workers : point[w] = None
    /\ (\A i \in Applications : pc[i] # "store") => drivers = 0
    /\ drivers <= 1

(* From then on everybody has what is cached, and so has every point.      *)
Afterwards ==
  cache # None =>
    /\ drivers <= 1
    /\ \A i \in Applications : /\ result[i] \in {None, cache}
                               /\ pc[i] = "enable" => notifier = cache
    /\ notifier \in {Noop, cache}
    /\ enabled => notifier = cache
    /\ \A w \in Workers : point[w] # None => point[w] = cache /\ enabled

Single == ~raced /\ clears = 0 => Before /\ Afterwards /\ ~split

NotifierInv == Shape /\ Answering /\ Alone /\ Recorded /\ Single

-----------------------------------------------------------------------------
LEMMA NotifierInit == ASSUME Init PROVE NotifierInv
<1>. USE NoneAssumption DEF Init, Noop
<1>1. Shape
  <2>1. /\ enabled \in BOOLEAN
        /\ raced \in BOOLEAN /\ failed \in BOOLEAN /\ split \in BOOLEAN
    BY Zenon
  <2>2. 0 \in Notifiers
    BY DEF Notifiers
  <2>. QED
    BY <2>1, <2>2 DEF Shape, Steps
<1>2. Answering /\ Recorded
  BY DEF Answering, Recorded
<1>3. Alone
  BY DEF Alone, Making
<1>4. Single
  BY DEF Single, Before, Afterwards
<1>. QED
  BY <1>1, <1>2, <1>3, <1>4 DEF NotifierInv

(* What a step of one application may be.                                  *)
ApplicationStep(i) == \/ Begin(i) \/ Look(i) \/ get_driver(i) \/ Store(i)
                      \/ Read(i) \/ Set(i) \/ Enable(i)
WorkerStep(w) == StartPoint(w) \/ StopPoint(w)

LEMMA NextSteps ==
  ASSUME Next
  PROVE  \/ \E i \in Applications : ApplicationStep(i)
         \/ clear_notifier_cache
         \/ \E w \in Workers : WorkerStep(w)
BY DEF Next, ApplicationStep, WorkerStep

LEMMA ShapeStep ==
  ASSUME NotifierInv, Next
  PROVE  Shape'
<1>. USE NoneAssumption DEF NotifierInv, Shape, GoTo, Take
<1>1. /\ Noop \in Notifiers /\ Noop # None
      /\ drivers' = drivers => Notifiers' = Notifiers
  BY DEF Notifiers, Noop
<1>2. ASSUME NEW i \in Applications, Begin(i) \/ Look(i)
      PROVE  Shape'
  BY <1>1, <1>2 DEF Begin, Look, history, Steps, IsCached
<1>3. ASSUME NEW i \in Applications, get_driver(i)
      PROVE  Shape'
  <2>1. /\ drivers' \in Nat
        /\ result'[i] \in Notifiers' /\ Notifiers \subseteq Notifiers'
        /\ result'[i] # None
    BY <1>3 DEF get_driver, Notifiers, Noop
  <2>2. /\ result' = [result EXCEPT ![i] = result'[i]]
        /\ pc' = [pc EXCEPT ![i] = "store"]
        /\ failed' \in BOOLEAN
        /\ UNCHANGED <<cache, notifier, enabled, point, clears, raced, split>>
    BY <1>3 DEF get_driver
  <2>. QED
    BY <2>1, <2>2 DEF Steps
<1>4. ASSUME NEW i \in Applications, Store(i)
      PROVE  Shape'
  BY <1>1, <1>4 DEF Store, Cached, history, Steps
<1>5. ASSUME NEW i \in Applications, Read(i)
      PROVE  Shape'
  BY <1>1, <1>5 DEF Read, Answered, history, Steps
<1>6. ASSUME NEW i \in Applications, Set(i) \/ Enable(i)
      PROVE  Shape'
  BY <1>1, <1>6 DEF Set, Enable, EnableIn, After, history, Steps
<1>7. ASSUME clear_notifier_cache
      PROVE  Shape'
  BY <1>1, <1>7 DEF clear_notifier_cache, history
<1>8. ASSUME NEW w \in Workers, WorkerStep(w)
      PROVE  Shape'
  BY <1>1, <1>8 DEF WorkerStep, StartPoint, StopPoint, history
<1>. QED
  BY NextSteps, <1>2, <1>3, <1>4, <1>5, <1>6, <1>7, <1>8 DEF ApplicationStep

LEMMA AnsweringStep ==
  ASSUME NotifierInv, Next
  PROVE  Answering'
<1>. USE NoneAssumption DEF NotifierInv, Shape, Answering, GoTo, Take
<1>1. ASSUME NEW i \in Applications, Begin(i) \/ Look(i) \/ get_driver(i)
      PROVE  Answering'
  BY <1>1 DEF Begin, Look, get_driver, IsCached, history
<1>2. ASSUME NEW i \in Applications, Store(i)
      PROVE  Answering'
  BY <1>2 DEF Store, Cached, history
<1>3. ASSUME NEW i \in Applications, Read(i)
      PROVE  Answering'
  BY <1>3 DEF Read, Answered, history
<1>4. ASSUME NEW i \in Applications, Set(i) \/ Enable(i)
      PROVE  Answering'
  BY <1>4 DEF Set, Enable, EnableIn, After, history
<1>5. ASSUME clear_notifier_cache
      PROVE  Answering'
  BY <1>5 DEF clear_notifier_cache
<1>6. ASSUME NEW w \in Workers, WorkerStep(w)
      PROVE  Answering'
  BY <1>6 DEF WorkerStep, StartPoint, StopPoint, history
<1>. QED
  BY NextSteps, <1>1, <1>2, <1>3, <1>4, <1>5, <1>6 DEF ApplicationStep

LEMMA AloneStep ==
  ASSUME NotifierInv, Next
  PROVE  Alone'
<1>. USE DEF NotifierInv, Shape, Alone, Making, GoTo, Take
<1>1. ASSUME NEW i \in Applications, Begin(i) \/ get_driver(i)
      PROVE  Alone'
  BY <1>1 DEF Begin, get_driver, history
<1>2. ASSUME NEW i \in Applications, Look(i)
      PROVE  Alone'
  BY <1>2 DEF Look, IsCached, history
<1>3. ASSUME NEW i \in Applications, Store(i)
      PROVE  Alone'
  BY <1>3 DEF Store, Cached, history
<1>4. ASSUME NEW i \in Applications, Read(i) \/ Set(i) \/ Enable(i)
      PROVE  Alone'
  BY <1>4 DEF Read, Answered, Set, Enable, EnableIn, After, history
<1>5. ASSUME clear_notifier_cache
      PROVE  Alone'
  BY <1>5 DEF clear_notifier_cache, history
<1>6. ASSUME NEW w \in Workers, WorkerStep(w)
      PROVE  Alone'
  BY <1>6 DEF WorkerStep, StartPoint, StopPoint, history
<1>. QED
  BY NextSteps, <1>1, <1>2, <1>3, <1>4, <1>5, <1>6 DEF ApplicationStep

LEMMA RecordedStep ==
  ASSUME NotifierInv, Next
  PROVE  Recorded'
<1>. USE NoneAssumption DEF NotifierInv, Shape, Recorded, GoTo, Take, Noop
<1>1. ASSUME NEW i \in Applications, Begin(i) \/ Look(i)
      PROVE  Recorded'
  BY <1>1 DEF Begin, Look, history
<1>2. ASSUME NEW i \in Applications, get_driver(i)
      PROVE  Recorded'
  BY <1>2 DEF get_driver
<1>3. ASSUME NEW i \in Applications, Store(i)
      PROVE  Recorded'
  BY <1>3 DEF Store, Cached, history
<1>4. ASSUME NEW i \in Applications, Read(i)
      PROVE  Recorded'
  BY <1>4 DEF Read, Answered, history
<1>5. ASSUME NEW i \in Applications, Set(i) \/ Enable(i)
      PROVE  Recorded'
  BY <1>5 DEF Set, Enable, EnableIn, After, history
<1>6. ASSUME clear_notifier_cache
      PROVE  Recorded'
  BY <1>6 DEF clear_notifier_cache, history
<1>7. ASSUME NEW w \in Workers, WorkerStep(w)
      PROVE  Recorded'
  BY <1>7 DEF WorkerStep, StartPoint, StopPoint, history
<1>. QED
  BY NextSteps, <1>1, <1>2, <1>3, <1>4, <1>5, <1>6, <1>7 DEF ApplicationStep

LEMMA SingleStep ==
  ASSUME NotifierInv, Next
  PROVE  Single'
<1>. USE NoneAssumption DEF NotifierInv, Shape, Single, Before, Afterwards, GoTo, Take, Noop
<1>1. ASSUME NEW i \in Applications, Begin(i) \/ Look(i)
      PROVE  Single'
  BY <1>1 DEF Begin, Look, IsCached, Answering, history
<1>2. ASSUME NEW i \in Applications, get_driver(i)
      PROVE  Single'
  BY <1>2 DEF get_driver, Alone, Making
<1>3. ASSUME NEW i \in Applications, Store(i)
      PROVE  Single'
  BY <1>3 DEF Store, Cached, Alone, Making, history
<1>4. ASSUME NEW i \in Applications, Read(i)
      PROVE  Single'
  BY <1>4 DEF Read, Answered, Answering, history
<1>5. ASSUME NEW i \in Applications, Set(i)
      PROVE  Single'
  BY <1>5 DEF Set, After, history
<1>6. ASSUME NEW i \in Applications, Enable(i)
      PROVE  Single'
  BY <1>6 DEF Enable, EnableIn, After, history
<1>7. ASSUME clear_notifier_cache
      PROVE  Single'
  BY <1>7 DEF clear_notifier_cache, history
<1>8. ASSUME NEW w \in Workers, WorkerStep(w)
      PROVE  Single'
  BY <1>8 DEF WorkerStep, StartPoint, StopPoint, history
<1>. QED
  BY NextSteps, <1>1, <1>2, <1>3, <1>4, <1>5, <1>6, <1>7, <1>8 DEF ApplicationStep

LEMMA InvStep == ASSUME NotifierInv, [Next]_vars PROVE NotifierInv'
<1>1. CASE Next
  BY <1>1, ShapeStep, AnsweringStep, AloneStep, RecordedStep, SingleStep DEF NotifierInv
<1>2. CASE UNCHANGED vars
  BY <1>2 DEF vars, history, NotifierInv, Shape, Answering, Alone, Recorded, Single, Before,
              Afterwards, Notifiers, Making
<1>. QED
  BY <1>1, <1>2

LEMMA InvHolds == Spec => []NotifierInv
<1>1. Init => NotifierInv
  BY NotifierInit
<1>2. NotifierInv /\ [Next]_vars => NotifierInv'
  BY InvStep
<1>. QED
  BY <1>1, <1>2, PTL DEF Spec

-----------------------------------------------------------------------------
(* A connection string has one driver, which everybody uses and which gets *)
(* both records of every point, and create() answers, unless applications  *)
(* raced for it or the cache was cleared (notifier.py, create()).          *)
THEOREM DriverIsShared == Spec => []OneDriver
<1>1. NotifierInv => OneDriver
  <2>. SUFFICES ASSUME NotifierInv PROVE OneDriver
    OBVIOUS
  <2>1. (\E i \in Applications : pc[i] = "failed") => clears > 0
    BY DEF NotifierInv, Shape, Answering
  <2>2. ASSUME ~raced, clears = 0
        PROVE  /\ drivers <= 1 /\ ~split
               /\ \A n \in InUse : cache \in {n, None}
    BY <2>2 DEF NotifierInv, Shape, Single, Before, Afterwards, InUse, Noop
  <2>. QED
    BY <2>1, <2>2 DEF OneDriver
<1>. QED
  BY <1>1, InvHolds, PTL

(* The middleware is enabled after the notifier is set, by every           *)
(* application (initializer.py, init_from_conf()).                         *)
THEOREM TracingIsRecorded == Spec => []EnabledIsRecorded
<1>1. NotifierInv => EnabledIsRecorded
  BY DEF NotifierInv, Recorded, EnabledIsRecorded
<1>. QED
  BY <1>1, InvHolds, PTL

(* What create() answered stays the answer, a failure included, but for a  *)
(* race or a clearing (notifier.py, create() and clear_notifier_cache()).  *)
THEOREM AnswersStick == Spec => AnswerSticks
<1>. DEFINE Sticks == cache # None /\ cache' # cache =>
                        clears' > clears \/ (raced /\ \E i \in Applications : Making(i))
<1>1. ASSUME NotifierInv, Next
      PROVE  Sticks
  <2>1. ASSUME NEW i \in Applications, Store(i)
        PROVE  Sticks
    BY <1>1, <2>1 DEF NotifierInv, Shape, Alone, Store, Making
  <2>2. ASSUME clear_notifier_cache
        PROVE  Sticks
    BY <1>1, <2>2 DEF NotifierInv, Shape, clear_notifier_cache
  <2>3. ASSUME NEW i \in Applications, ApplicationStep(i), ~Store(i)
        PROVE  cache' = cache
    BY <2>3 DEF ApplicationStep, Begin, Look, get_driver, Read, Set, Enable
  <2>4. ASSUME NEW w \in Workers, WorkerStep(w)
        PROVE  cache' = cache
    BY <2>4 DEF WorkerStep, StartPoint, StopPoint
  <2>. QED
    BY <1>1, NextSteps, <2>1, <2>2, <2>3, <2>4
<1>2. NotifierInv /\ [Next]_vars => [Sticks]_vars
  BY <1>1
<1>. QED
  BY <1>2, InvHolds, PTL DEF Spec, AnswerSticks
=============================================================================
