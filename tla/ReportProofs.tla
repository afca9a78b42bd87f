---------------------------- MODULE ReportProofs ----------------------------
(***************************************************************************)
(* Theorems about the reports of Report: for any traces whose points have  *)
(* one parent each, however often they are stopped, any order in which     *)
(* their notifications are read, some more than once and some never, and   *)
(* any number of reports of one driver, some of which fail.                *)
(***************************************************************************)
EXTENDS Report, FiniteSetTheorems, TLAPS

-----------------------------------------------------------------------------
(* The invariant.  A node holds the times of notifications that were read, *)
(* unless an earlier report has left a number of milliseconds there.       *)

Moments == {None} \cup [type : {"datetime", "int"}, value : Int]

NodeOK(n) ==
  /\ n = [name |-> n.name, parent_id |-> n.parent_id, started |-> n.started,
          finished |-> n.finished, exception |-> n.exception, children |-> n.children]
  /\ n.started \in Moments /\ n.finished \in Moments

DataOK ==
  /\ stored \in Traces /\ delivered \subseteq stored
  /\ reads \in Nat \ {0}
  /\ DOMAIN result = Seen
  /\ result = [id \in DOMAIN result |-> result[id]]
  /\ \A id \in Seen :
       /\ NodeOK(result[id])
       /\ result[id].name \in NamesOf(id)
       /\ \E e \in delivered : e.trace_id = id /\ e.parent_id = result[id].parent_id

(* The extremes are the times of notifications that were read.             *)
ExtremesOK ==
  /\ delivered = {} => started_at = None /\ finished_at = None
  /\ delivered # {} => started_at \in Stamps(delivered) /\ finished_at \in Stamps(delivered)
  /\ \A e \in delivered : started_at <= e.timestamp /\ e.timestamp <= finished_at

StartedOK(n, S) ==
  IF n.started = None THEN S = {}
  ELSE IsInt(n.started) \/ \E e \in S : n.started = DateTime(e.timestamp)
FinishedOK(n, T) ==
  IF n.finished = None THEN T = {} /\ n.exception = None
  ELSE IsInt(n.finished)
       \/ \E e \in T : n.finished = DateTime(e.timestamp) /\ n.exception = e.etype
HalvesOK == \A id \in Seen : /\ StartedOK(result[id], Of(id, "start"))
                             /\ FinishedOK(result[id], Of(id, "stop"))

TimesInv == DataOK /\ ExtremesOK /\ HalvesOK

LEMMA TraceFacts ==
  ASSUME DataOK
  PROVE  /\ \A e \in stored : e.phase \in {"start", "stop"} /\ e.timestamp \in Int
                              /\ e.timestamp # None /\ e.trace_id # None
         /\ \A e, f \in stored : e.trace_id = f.trace_id => e.parent_id = f.parent_id
BY TracesAssumption, NoneAssumption DEF DataOK, Stamps

LEMMA MomentFacts ==
  /\ \A t \in Int : /\ DateTime(t) \in Moments /\ DateTime(t) # None
                    /\ DateTime(t).value = t /\ ~IsInt(DateTime(t))
                    /\ Millis(t) \in Moments /\ Millis(t).value = t /\ IsInt(Millis(t))
  /\ \A x \in Moments : x # None => x.value \in Int
<1>1. ASSUME NEW t \in Int
      PROVE  /\ DateTime(t) \in [type : {"datetime", "int"}, value : Int]
             /\ Millis(t) \in [type : {"datetime", "int"}, value : Int]
  BY DEF DateTime, Millis
<1>2. \A t \in Int : DateTime(t) # None /\ Millis(t) # None
  BY <1>1, NoneAssumption
<1>. QED BY <1>1, <1>2 DEF Moments, IsInt, DateTime, Millis

LEMMA TimesInvInit == Init => TimesInv
<1>. SUFFICES ASSUME Init PROVE TimesInv
  OBVIOUS
<1>1. /\ stored \in Traces /\ delivered = {} /\ result = << >> /\ DOMAIN result = {}
      /\ started_at = None /\ finished_at = None /\ reads = 1 /\ Seen = {}
  BY DEF Init, Seen
<1>2. DataOK
  BY <1>1 DEF DataOK
<1>. QED BY <1>1, <1>2 DEF TimesInv, ExtremesOK, HalvesOK

(* What a notification does to the nodes.                                  *)
LEMMA AppendedNode ==
  ASSUME DataOK, NEW e \in stored, AppendResults(e)
  PROVE  /\ DOMAIN result' = DOMAIN result \cup {e.trace_id}
         /\ result' = [id \in DOMAIN result' |-> result'[id]]
         /\ \A id \in DOMAIN result \ {e.trace_id} : result'[id] = result[id]
         /\ LET n == NodeBefore(e)
                m == result'[e.trace_id] IN
            /\ e.trace_id \in DOMAIN result => n = result[e.trace_id]
            /\ e.trace_id \notin DOMAIN result =>
                 /\ n.name = FirstPart(e.name) /\ n.children = << >>
                 /\ n.started = None /\ n.finished = None /\ n.exception = None
            /\ NodeOK(n) /\ NodeOK(m)
            /\ m.name = n.name /\ m.parent_id = e.parent_id /\ m.children = n.children
            /\ e.phase = "stop" => /\ m.started = n.started
                                   /\ m.finished = DateTime(e.timestamp)
                                   /\ m.exception = e.etype
            /\ e.phase # "stop" => /\ m.started = DateTime(e.timestamp)
                                   /\ m.finished = n.finished
                                   /\ m.exception = n.exception
<1>. DEFINE n == NodeBefore(e)
            m == NodeAfter(e)
<1>1. /\ DOMAIN result' = DOMAIN result \cup {e.trace_id}
      /\ result' = [id \in DOMAIN result' |-> result'[id]]
      /\ \A id \in DOMAIN result \ {e.trace_id} : result'[id] = result[id]
      /\ result'[e.trace_id] = m
  <2>1. result' = [id \in DOMAIN result \cup {e.trace_id} |->
                     IF id = e.trace_id THEN m ELSE result[id]]
    BY DEF AppendResults
  <2>. HIDE DEF m
  <2>. QED BY <2>1
<1>2. /\ NodeOK(n) /\ n.parent_id = e.parent_id
      /\ e.trace_id \in DOMAIN result => n = result[e.trace_id]
      /\ e.trace_id \notin DOMAIN result =>
           /\ n.name = FirstPart(e.name) /\ n.children = << >>
           /\ n.started = None /\ n.finished = None /\ n.exception = None
  <2>1. CASE e.trace_id \in DOMAIN result
    <3>1. n = result[e.trace_id]
      BY <2>1 DEF NodeBefore
    <3>2. NodeOK(result[e.trace_id])
      BY <2>1 DEF DataOK
    <3>3. result[e.trace_id].parent_id = e.parent_id
      BY <2>1, TraceFacts DEF DataOK
    <3>. HIDE DEF n
    <3>. QED BY <2>1, <3>1, <3>2, <3>3
  <2>2. CASE e.trace_id \notin DOMAIN result
    <3>1. n = NewNode(e)
      BY <2>2 DEF NodeBefore
    <3>. QED BY <2>2, <3>1 DEF NewNode, NodeOK, Moments
  <2>. QED BY <2>1, <2>2
<1>3. m = [name |-> n.name, parent_id |-> e.parent_id,
           started |-> IF e.phase = "stop" THEN n.started ELSE DateTime(e.timestamp),
           finished |-> IF e.phase = "stop" THEN DateTime(e.timestamp) ELSE n.finished,
           exception |-> IF e.phase = "stop" THEN e.etype ELSE n.exception,
           children |-> n.children]
  <2>1. /\ m = IF e.phase = "stop"
                 THEN [n EXCEPT !.finished = DateTime(e.timestamp), !.exception = e.etype]
                 ELSE [n EXCEPT !.started = DateTime(e.timestamp)]
        /\ n = [name |-> n.name, parent_id |-> n.parent_id, started |-> n.started,
                finished |-> n.finished, exception |-> n.exception, children |-> n.children]
    BY <1>2 DEF NodeAfter, NodeOK
  <2>. HIDE DEF n, m
  <2>. QED BY <1>2, <2>1
<1>4. NodeOK(m)
  <2>1. DateTime(e.timestamp) \in Moments
    BY TraceFacts, MomentFacts
  <2>2. n.started \in Moments /\ n.finished \in Moments
    BY <1>2 DEF NodeOK
  <2>. HIDE DEF n, m
  <2>. QED BY <1>3, <2>1, <2>2 DEF NodeOK
<1>. HIDE DEF m
<1>. QED BY <1>1, <1>2, <1>3, <1>4

LEMMA ReadFacts ==
  ASSUME NEW e, delivered' = delivered \cup {e}
  PROVE  /\ Seen' = Seen \cup {e.trace_id}
         /\ Stamps(delivered)' = Stamps(delivered) \cup {e.timestamp}
         /\ FirstPart(e.name) \in NamesOf(e.trace_id)'
         /\ \A id : NamesOf(id) \subseteq NamesOf(id)'
         /\ \A id, half : Of(id, half)' =
              IF id = e.trace_id /\ half = e.phase THEN Of(id, half) \cup {e} ELSE Of(id, half)
<1>1. Seen' = Seen \cup {e.trace_id} /\ Stamps(delivered)' = Stamps(delivered) \cup {e.timestamp}
  BY DEF Seen, Stamps
<1>2. FirstPart(e.name) \in NamesOf(e.trace_id)'
  BY DEF NamesOf
<1>3. \A id : NamesOf(id) \subseteq NamesOf(id)'
  BY DEF NamesOf
<1>4. \A id, half : Of(id, half)' =
        IF id = e.trace_id /\ half = e.phase THEN Of(id, half) \cup {e} ELSE Of(id, half)
  BY DEF Of
<1>. QED BY <1>1, <1>2, <1>3, <1>4

LEMMA DeliverData ==
  ASSUME DataOK, NEW e \in stored, AppendResults(e), delivered' = delivered \cup {e},
         UNCHANGED <<stored, report, phase, reads>>
  PROVE  DataOK'
<1>1. /\ stored' \in Traces /\ delivered' \subseteq stored' /\ reads' \in Nat \ {0}
      /\ result' = [id \in DOMAIN result' |-> result'[id]]
  BY AppendedNode DEF DataOK
<1>2. DOMAIN result' = Seen'
  <2>1. DOMAIN result' = DOMAIN result \cup {e.trace_id}
    BY AppendedNode
  <2>. QED BY <2>1, ReadFacts DEF DataOK
<1>3. ASSUME NEW id \in Seen'
      PROVE  /\ NodeOK(result'[id])
             /\ result'[id].name \in NamesOf(id)'
             /\ \E f \in delivered' : f.trace_id = id /\ f.parent_id = result'[id].parent_id
  <2>1. CASE id = e.trace_id
    <3>1. NodeOK(result'[e.trace_id])
      BY AppendedNode
    <3>2. result'[e.trace_id].name = NodeBefore(e).name /\ result'[e.trace_id].parent_id = e.parent_id
      BY AppendedNode
    <3>3. NodeBefore(e).name \in NamesOf(id)'
      <4>1. CASE e.trace_id \in DOMAIN result
        <5>1. NodeBefore(e).name \in NamesOf(id)
          BY <2>1, <4>1, AppendedNode DEF DataOK
        <5>. QED BY <5>1, ReadFacts
      <4>2. CASE e.trace_id \notin DOMAIN result
        <5>1. NodeBefore(e).name = FirstPart(e.name)
          BY <4>2, AppendedNode
        <5>. QED BY <2>1, <5>1, ReadFacts
      <4>. QED BY <4>1, <4>2
    <3>. QED BY <2>1, <3>1, <3>2, <3>3
  <2>2. CASE id # e.trace_id
    <3>1. id \in Seen /\ id \in DOMAIN result /\ result'[id] = result[id]
      <4>1. id \in Seen
        BY <1>3, <2>2, ReadFacts
      <4>2. id \in DOMAIN result \ {e.trace_id}
        BY <2>2, <4>1 DEF DataOK
      <4>. QED BY <4>1, <4>2, AppendedNode
    <3>2. NodeOK(result[id]) /\ result[id].name \in NamesOf(id)
      BY <3>1 DEF DataOK
    <3>3. \E f \in delivered : f.trace_id = id /\ f.parent_id = result[id].parent_id
      BY <3>1 DEF DataOK
    <3>4. NamesOf(id) \subseteq NamesOf(id)'
      BY ReadFacts
    <3>. QED BY <3>1, <3>2, <3>3, <3>4
  <2>. QED BY <2>1, <2>2
<1>. QED BY <1>1, <1>2, <1>3, Zenon DEF DataOK, NodeOK

LEMMA DeliverExtremes ==
  ASSUME DataOK, ExtremesOK, NEW e \in stored, AppendResults(e), delivered' = delivered \cup {e}
  PROVE  ExtremesOK'
<1>. DEFINE t == e.timestamp
            T == Stamps(delivered)
<1>1. /\ t \in Int /\ t # None
      /\ started_at' = Earlier(started_at, t) /\ finished_at' = Later(finished_at, t)
      /\ \A f \in delivered : f.timestamp \in Int /\ f.timestamp \in T /\ f.timestamp # None
      /\ T \subseteq Int /\ None \notin T
  BY TraceFacts DEF AppendResults, DataOK, Stamps
<1>2. Stamps(delivered)' = T \cup {t} /\ delivered' = delivered \cup {e}
  BY ReadFacts
<1>3. CASE delivered = {}
  <2>1. started_at' = t /\ finished_at' = t
    BY <1>1, <1>3 DEF ExtremesOK, Earlier, Later
  <2>. HIDE DEF T
  <2>. QED BY <1>1, <1>2, <1>3, <2>1 DEF ExtremesOK
<1>4. CASE delivered # {}
  <2>1. /\ started_at \in T /\ finished_at \in T
        /\ \A f \in delivered : started_at <= f.timestamp /\ f.timestamp <= finished_at
    BY <1>4 DEF ExtremesOK
  <2>. HIDE DEF T, t
  <2>2. /\ started_at' \in T \cup {t} /\ finished_at' \in T \cup {t}
        /\ started_at' <= t /\ t <= finished_at'
        /\ started_at' <= started_at /\ finished_at <= finished_at'
        /\ started_at \in Int /\ finished_at \in Int /\ started_at' \in Int /\ finished_at' \in Int
    <3>1. started_at \in Int /\ finished_at \in Int /\ started_at # None /\ finished_at # None
      BY <1>1, <2>1
    <3>2. started_at' = IF started_at > t THEN t ELSE started_at
      BY <1>1, <3>1 DEF Earlier
    <3>3. finished_at' = IF finished_at < t THEN t ELSE finished_at
      BY <1>1, <3>1 DEF Later
    <3>. QED BY <1>1, <2>1, <3>1, <3>2, <3>3
  <2>3. ASSUME NEW f \in delivered
        PROVE  started_at' <= f.timestamp /\ f.timestamp <= finished_at'
    <3>1. f.timestamp \in Int /\ started_at <= f.timestamp /\ f.timestamp <= finished_at
      BY <1>1, <2>1
    <3>. QED BY <2>2, <3>1
  <2>4. \A f \in delivered' : started_at' <= f.timestamp /\ f.timestamp <= finished_at'
    BY <1>2, <2>2, <2>3 DEF t
  <2>. QED BY <1>2, <2>2, <2>4 DEF ExtremesOK
<1>. QED BY <1>3, <1>4

LEMMA DeliverHalves ==
  ASSUME DataOK, HalvesOK, NEW e \in stored, AppendResults(e), delivered' = delivered \cup {e}
  PROVE  HalvesOK'
<1>. DEFINE n == NodeBefore(e)
            m == result'[e.trace_id]
            S == Of(e.trace_id, "start")
            T == Of(e.trace_id, "stop")
<1>1. DateTime(e.timestamp) # None /\ e.phase \in {"start", "stop"}
  BY TraceFacts, MomentFacts
<1>2. StartedOK(n, S) /\ FinishedOK(n, T)
  <2>1. CASE e.trace_id \in DOMAIN result
    <3>1. n = result[e.trace_id] /\ e.trace_id \in Seen
      BY <2>1, AppendedNode DEF DataOK
    <3>. HIDE DEF n
    <3>. QED BY <3>1 DEF HalvesOK
  <2>2. CASE e.trace_id \notin DOMAIN result
    <3>1. n.started = None /\ n.finished = None /\ n.exception = None
      BY <2>2, AppendedNode
    <3>2. S = {} /\ T = {}
      BY <2>2 DEF DataOK, Of, Seen
    <3>. HIDE DEF n, S, T
    <3>. QED BY <3>1, <3>2 DEF StartedOK, FinishedOK
  <2>. QED BY <2>1, <2>2
<1>3. StartedOK(m, S') /\ FinishedOK(m, T')
  <2>1. CASE e.phase = "stop"
    <3>1. m.started = n.started /\ m.finished = DateTime(e.timestamp) /\ m.exception = e.etype
      BY <2>1, AppendedNode
    <3>2. S' = S /\ T' = T \cup {e}
      BY <2>1, ReadFacts
    <3>. HIDE DEF n, m, S, T
    <3>3. StartedOK(m, S')
      BY <1>2, <3>1, <3>2 DEF StartedOK
    <3>4. FinishedOK(m, T')
      BY <1>1, <3>1, <3>2 DEF FinishedOK
    <3>. QED BY <3>3, <3>4
  <2>2. CASE e.phase # "stop"
    <3>1. /\ m.started = DateTime(e.timestamp)
          /\ m.finished = n.finished /\ m.exception = n.exception
      BY <2>2, AppendedNode
    <3>2. S' = S \cup {e} /\ T' = T
      BY <1>1, <2>2, ReadFacts
    <3>. HIDE DEF n, m, S, T
    <3>3. StartedOK(m, S')
      BY <1>1, <3>1, <3>2 DEF StartedOK
    <3>4. FinishedOK(m, T')
      BY <1>2, <3>1, <3>2 DEF FinishedOK
    <3>. QED BY <3>3, <3>4
  <2>. QED BY <2>1, <2>2
<1>4. ASSUME NEW id \in Seen', id # e.trace_id
      PROVE  StartedOK(result'[id], Of(id, "start")') /\ FinishedOK(result'[id], Of(id, "stop")')
  <2>1. id \in Seen /\ result'[id] = result[id]
    <3>1. id \in Seen
      BY <1>4, ReadFacts
    <3>2. id \in DOMAIN result \ {e.trace_id}
      BY <1>4, <3>1 DEF DataOK
    <3>. QED BY <3>1, <3>2, AppendedNode
  <2>2. Of(id, "start")' = Of(id, "start") /\ Of(id, "stop")' = Of(id, "stop")
    BY <1>4, ReadFacts
  <2>3. StartedOK(result[id], Of(id, "start")) /\ FinishedOK(result[id], Of(id, "stop"))
    BY <2>1 DEF HalvesOK
  <2>. QED BY <2>1, <2>2, <2>3
<1>5. \A id \in Seen' :
        StartedOK(result'[id], Of(id, "start")') /\ FinishedOK(result'[id], Of(id, "stop")')
  BY <1>3, <1>4
<1>. QED BY <1>5 DEF HalvesOK, StartedOK, FinishedOK

(* A node that the loop of _parse_results() reaches holds times of its     *)
(* notifications, and is left with the milliseconds since the first.       *)
LEMMA ParsedNode ==
  ASSUME TimesInv, NEW id \in Seen, ~NotATime(result[id])
  PROVE  LET n == result[id] IN
         /\ n.started # None \/ n.finished # None
         /\ StartedOf(n) \in Int /\ FinishedOf(n) \in Int
         /\ SinceStart(StartedOf(n)) \in Int /\ SinceStart(FinishedOf(n)) \in Int
         /\ Parsed(n) = [name |-> n.name, parent_id |-> n.parent_id,
                         started |-> Millis(SinceStart(StartedOf(n))),
                         finished |-> Millis(SinceStart(FinishedOf(n))),
                         exception |-> n.exception, children |-> n.children]
<1>. DEFINE n == result[id]
            s == SinceStart(StartedOf(n))
            t == SinceStart(FinishedOf(n))
<1>1. n = [name |-> n.name, parent_id |-> n.parent_id, started |-> n.started,
           finished |-> n.finished, exception |-> n.exception, children |-> n.children]
      /\ n.started \in Moments /\ n.finished \in Moments
  BY DEF TimesInv, DataOK, NodeOK
<1>2. n.started # None \/ n.finished # None
  <2>1. PICK e \in delivered : e.trace_id = id
    BY DEF Seen
  <2>2. e.phase = "start" \/ e.phase = "stop"
    BY TraceFacts DEF TimesInv, DataOK
  <2>3. Of(id, "start") # {} \/ Of(id, "stop") # {}
    BY <2>1, <2>2 DEF Of
  <2>4. StartedOK(n, Of(id, "start")) /\ FinishedOK(n, Of(id, "stop"))
    BY DEF TimesInv, HalvesOK
  <2>. HIDE DEF n
  <2>. QED BY <2>3, <2>4 DEF StartedOK, FinishedOK
<1>3. started_at \in Int
  <2>1. delivered # {} /\ Stamps(delivered) \subseteq Int
    BY TraceFacts DEF Seen, Stamps, TimesInv, DataOK
  <2>. QED BY <2>1 DEF TimesInv, ExtremesOK
<1>. HIDE DEF n
<1>4. StartedOf(n) \in Int /\ FinishedOf(n) \in Int
  BY <1>1, <1>2, MomentFacts DEF StartedOf, FinishedOf
<1>5. s \in Int /\ t \in Int
  BY <1>3, <1>4, TicksAssumption DEF SinceStart, msec
<1>6. Parsed(n) = [n EXCEPT !.started = Millis(s), !.finished = Millis(t)]
  BY DEF Parsed
<1>. HIDE DEF s, t
<1>7. Parsed(n) = [name |-> n.name, parent_id |-> n.parent_id, started |-> Millis(s),
                   finished |-> Millis(t), exception |-> n.exception, children |-> n.children]
  BY <1>1, <1>6
<1>. QED BY <1>2, <1>4, <1>5, <1>7 DEF n, s, t

LEMMA ParsedInv ==
  ASSUME TimesInv, NEW id \in Seen, ~NotATime(result[id])
  PROVE  LET n == Parsed(result[id]) IN
         /\ NodeOK(n) /\ IsInt(n.started) /\ IsInt(n.finished)
         /\ n.started # None /\ n.finished # None
         /\ n.name = result[id].name /\ n.parent_id = result[id].parent_id
         /\ n.exception = result[id].exception /\ n.children = result[id].children
         /\ n.started.value = SinceStart(StartedOf(result[id])) /\ n.started.value \in Int
         /\ n.finished.value = SinceStart(FinishedOf(result[id])) /\ n.finished.value \in Int
<1>. DEFINE n == Parsed(result[id])
            r == result[id]
            s == SinceStart(StartedOf(r))
            t == SinceStart(FinishedOf(r))
<1>1. s \in Int /\ t \in Int
  BY ParsedNode
<1>2. n = [name |-> r.name, parent_id |-> r.parent_id, started |-> Millis(s),
           finished |-> Millis(t), exception |-> r.exception, children |-> r.children]
  BY ParsedNode
<1>. HIDE DEF n, r, s, t
<1>3. /\ Millis(s) \in Moments /\ IsInt(Millis(s)) /\ Millis(s).value = s
      /\ Millis(t) \in Moments /\ IsInt(Millis(t)) /\ Millis(t).value = t
  BY <1>1, MomentFacts
<1>4. Millis(s) # None /\ Millis(t) # None
  BY <1>3 DEF IsInt
<1>5. /\ n.name = r.name /\ n.parent_id = r.parent_id /\ n.started = Millis(s)
      /\ n.finished = Millis(t) /\ n.exception = r.exception /\ n.children = r.children
  BY <1>2
<1>6. NodeOK(n)
  BY <1>2, <1>3, <1>5 DEF NodeOK
<1>. QED BY <1>1, <1>3, <1>4, <1>5, <1>6 DEF n, r, s, t

(* What _parse_results() leaves of every node.                             *)
LEMMA ReturnedNodes ==
  ASSUME TimesInv, Return
  PROVE  /\ DOMAIN result' = Seen /\ DOMAIN result = Seen /\ Seen' = Seen
         /\ delivered' = delivered
         /\ result' = [id \in DOMAIN result' |-> result'[id]]
         /\ \A id \in Seen :
              /\ ~NotATime(result[id]) /\ NodeOK(result'[id])
              /\ IsInt(result'[id].started) /\ IsInt(result'[id].finished)
              /\ result'[id].started # None /\ result'[id].finished # None
              /\ result'[id].name = result[id].name
              /\ result'[id].parent_id = result[id].parent_id
              /\ result'[id].exception = result[id].exception
              /\ result'[id].started.value = SinceStart(StartedOf(result[id]))
              /\ result'[id].finished.value = SinceStart(FinishedOf(result[id]))
              /\ result'[id].started.value \in Int /\ result'[id].finished.value \in Int
<1>. DEFINE nodes == [id \in DOMAIN result |-> Parsed(result[id])]
<1>1. /\ \A id \in DOMAIN result : ~NotATime(result[id])
      /\ result' = WithChildren(nodes) /\ delivered' = delivered /\ Seen' = Seen
      /\ DOMAIN result = Seen
  BY DEF Return, ParseResults, Seen, TimesInv, DataOK
<1>2. /\ result' = [id \in Seen |->
                      [nodes[id] EXCEPT !.children = SortedByStart(nodes, ChildrenOf(nodes, id))]]
      /\ \A id \in Seen : nodes[id] = Parsed(result[id])
  BY <1>1 DEF WithChildren
<1>3. ASSUME NEW id \in Seen
      PROVE  /\ NodeOK(result'[id])
             /\ result'[id].name = nodes[id].name
             /\ result'[id].parent_id = nodes[id].parent_id
             /\ result'[id].exception = nodes[id].exception
             /\ result'[id].started = nodes[id].started
             /\ result'[id].finished = nodes[id].finished
  <2>. DEFINE c == SortedByStart(nodes, ChildrenOf(nodes, id))
              n == nodes[id]
  <2>1. NodeOK(n)
    BY <1>1, <1>2, ParsedInv
  <2>2. result'[id] = [n EXCEPT !.children = c]
    BY <1>2
  <2>. HIDE DEF c, n
  <2>3. result'[id] = [name |-> n.name, parent_id |-> n.parent_id, started |-> n.started,
                       finished |-> n.finished, exception |-> n.exception, children |-> c]
    BY <2>1, <2>2 DEF NodeOK
  <2>4. /\ result'[id].name = n.name /\ result'[id].parent_id = n.parent_id
        /\ result'[id].exception = n.exception /\ result'[id].started = n.started
        /\ result'[id].finished = n.finished /\ result'[id].children = c
    BY <2>3
  <2>5. NodeOK(result'[id])
    BY <2>1, <2>3, <2>4 DEF NodeOK
  <2>. QED BY <2>4, <2>5 DEF n
<1>4. result' = [id \in DOMAIN result' |-> result'[id]] /\ DOMAIN result' = Seen
  <2>. HIDE DEF nodes
  <2>. QED BY <1>2
<1>. HIDE DEF nodes
<1>5. ASSUME NEW id \in Seen
      PROVE  /\ IsInt(nodes[id].started) /\ IsInt(nodes[id].finished)
             /\ nodes[id].started # None /\ nodes[id].finished # None
             /\ nodes[id].name = result[id].name
             /\ nodes[id].parent_id = result[id].parent_id
             /\ nodes[id].exception = result[id].exception
             /\ nodes[id].started.value = SinceStart(StartedOf(result[id]))
             /\ nodes[id].finished.value = SinceStart(FinishedOf(result[id]))
             /\ nodes[id].started.value \in Int /\ nodes[id].finished.value \in Int
  <2>1. ~NotATime(result[id]) /\ nodes[id] = Parsed(result[id])
    BY <1>1, <1>2
  <2>. QED BY <2>1, ParsedInv
<1>6. ASSUME NEW id \in Seen
      PROVE  /\ ~NotATime(result[id]) /\ NodeOK(result'[id])
             /\ IsInt(result'[id].started) /\ IsInt(result'[id].finished)
             /\ result'[id].started # None /\ result'[id].finished # None
             /\ result'[id].name = result[id].name
             /\ result'[id].parent_id = result[id].parent_id
             /\ result'[id].exception = result[id].exception
             /\ result'[id].started.value = SinceStart(StartedOf(result[id]))
             /\ result'[id].finished.value = SinceStart(FinishedOf(result[id]))
             /\ result'[id].started.value \in Int /\ result'[id].finished.value \in Int
  BY <1>1, <1>3, <1>5
<1>. QED BY <1>1, <1>4, <1>6

LEMMA SameReading ==
  ASSUME delivered' = delivered
  PROVE  /\ Seen' = Seen /\ Stamps(delivered)' = Stamps(delivered)
         /\ \A id : /\ ParentOf(id)' = ParentOf(id) /\ NamesOf(id)' = NamesOf(id)
                    /\ Of(id, "start")' = Of(id, "start") /\ Of(id, "stop")' = Of(id, "stop")
         /\ \A e : Since(e)' = Since(e)
<1>1. Seen' = Seen /\ Stamps(delivered)' = Stamps(delivered)
  BY DEF Seen, Stamps
<1>2. ASSUME NEW id PROVE Of(id, "stop")' = Of(id, "stop") /\ Of(id, "start")' = Of(id, "start")
  BY DEF Of
<1>3. ASSUME NEW id PROVE ParentOf(id)' = ParentOf(id)
  BY DEF ParentOf
<1>4. ASSUME NEW id PROVE NamesOf(id)' = NamesOf(id)
  BY DEF NamesOf
<1>5. ASSUME NEW e PROVE Since(e)' = Since(e)
  BY <1>1 DEF Since
<1>. QED BY <1>1, <1>2, <1>3, <1>4, <1>5

(* A step that only turns times of some nodes into milliseconds.           *)
LEMMA ConvertedTimes ==
  ASSUME TimesInv, UNCHANGED <<stored, delivered, reads, started_at, finished_at>>,
         DOMAIN result' = Seen, result' = [id \in DOMAIN result' |-> result'[id]],
         \A id \in Seen :
           \/ result'[id] = result[id]
           \/ /\ NodeOK(result'[id])
              /\ IsInt(result'[id].started) /\ IsInt(result'[id].finished)
              /\ result'[id].started # None /\ result'[id].finished # None
              /\ result'[id].name = result[id].name
              /\ result'[id].parent_id = result[id].parent_id
  PROVE  TimesInv'
<1>1. /\ Seen' = Seen
      /\ \A id : /\ NamesOf(id)' = NamesOf(id)
                 /\ Of(id, "start")' = Of(id, "start") /\ Of(id, "stop")' = Of(id, "stop")
  BY SameReading
<1>2. ASSUME NEW id \in Seen'
      PROVE  /\ NodeOK(result'[id]) /\ result'[id].name \in NamesOf(id)'
             /\ \E e \in delivered' : e.trace_id = id /\ e.parent_id = result'[id].parent_id
             /\ StartedOK(result'[id], Of(id, "start")')
             /\ FinishedOK(result'[id], Of(id, "stop")')
  <2>1. /\ NodeOK(result[id]) /\ result[id].name \in NamesOf(id)
        /\ \E e \in delivered : e.trace_id = id /\ e.parent_id = result[id].parent_id
    BY <1>1 DEF TimesInv, DataOK
  <2>2. StartedOK(result[id], Of(id, "start")) /\ FinishedOK(result[id], Of(id, "stop"))
    BY <1>1 DEF TimesInv, HalvesOK
  <2>3. CASE result'[id] = result[id]
    BY <1>1, <2>1, <2>2, <2>3
  <2>4. CASE /\ NodeOK(result'[id])
             /\ IsInt(result'[id].started) /\ IsInt(result'[id].finished)
             /\ result'[id].started # None /\ result'[id].finished # None
             /\ result'[id].name = result[id].name
             /\ result'[id].parent_id = result[id].parent_id
    BY <1>1, <2>1, <2>4 DEF StartedOK, FinishedOK
  <2>. QED BY <1>1, <2>3, <2>4
<1>3. DataOK'
  BY <1>1, <1>2, Zenon DEF TimesInv, DataOK, NodeOK
<1>4. ExtremesOK'
  BY SameReading DEF TimesInv, ExtremesOK
<1>5. HalvesOK'
  BY <1>2 DEF HalvesOK, StartedOK, FinishedOK
<1>. QED BY <1>3, <1>4, <1>5 DEF TimesInv

LEMMA ReturnTimes == ASSUME TimesInv, Return PROVE TimesInv'
<1>1. UNCHANGED <<stored, delivered, reads, started_at, finished_at>>
  BY DEF Return, ParseResults
<1>2. /\ DOMAIN result' = Seen /\ result' = [id \in DOMAIN result' |-> result'[id]]
      /\ \A id \in Seen : /\ NodeOK(result'[id])
              /\ IsInt(result'[id].started) /\ IsInt(result'[id].finished)
              /\ result'[id].started # None /\ result'[id].finished # None
              /\ result'[id].name = result[id].name
              /\ result'[id].parent_id = result[id].parent_id
  BY ReturnedNodes
<1>. QED BY <1>1, <1>2, ConvertedTimes

(* A report that fails has converted some of the nodes.                    *)
LEMMA FailedNodes ==
  ASSUME TimesInv, Fail
  PROVE  /\ DOMAIN result' = Seen /\ result' = [id \in DOMAIN result' |-> result'[id]]
         /\ \A id \in Seen : \/ result'[id] = result[id]
                             \/ result'[id] = Parsed(result[id]) /\ ~NotATime(result[id])
<1>1. PICK bad \in DOMAIN order :
        LET converted == {order[i] : i \in 1 .. bad - 1} IN
        /\ \A id \in converted : ~NotATime(result[id])
        /\ result' = [id \in DOMAIN result |->
                        IF id \in converted THEN Parsed(result[id]) ELSE result[id]]
  BY DEF Fail
<1>. DEFINE converted == {order[i] : i \in 1 .. bad - 1}
<1>2. /\ \A id \in converted : ~NotATime(result[id])
      /\ result' = [id \in Seen |->
                        IF id \in converted THEN Parsed(result[id]) ELSE result[id]]
  BY <1>1 DEF TimesInv, DataOK
<1>. HIDE DEF converted
<1>. QED BY <1>2

LEMMA FailTimes == ASSUME TimesInv, Fail PROVE TimesInv'
<1>1. UNCHANGED <<stored, delivered, reads, started_at, finished_at>>
  BY DEF Fail
<1>2. ASSUME NEW id \in Seen
      PROVE  \/ result'[id] = result[id]
             \/ /\ NodeOK(result'[id])
                /\ IsInt(result'[id].started) /\ IsInt(result'[id].finished)
                /\ result'[id].started # None /\ result'[id].finished # None
                /\ result'[id].name = result[id].name
                /\ result'[id].parent_id = result[id].parent_id
  <2>1. CASE result'[id] = Parsed(result[id]) /\ ~NotATime(result[id])
    BY <2>1, ParsedInv
  <2>. QED BY <2>1, FailedNodes
<1>3. DOMAIN result' = Seen /\ result' = [id \in DOMAIN result' |-> result'[id]]
  BY FailedNodes
<1>. QED BY <1>1, <1>2, <1>3, ConvertedTimes

(* The times that a driver keeps of each point, in every reachable state:  *)
(* TimesInv is an invariant of the driver.                                 *)
THEOREM TimesInvariant == Spec => []TimesInv
<1>1. ASSUME TimesInv, [Next]_vars PROVE TimesInv'
  <2>1. CASE Deliver
    <3>1. PICK e \in stored : /\ AppendResults(e)
                              /\ delivered' = delivered \cup {e}
                              /\ UNCHANGED <<stored, report, phase, reads>>
      BY <2>1 DEF Deliver
    <3>2. DataOK' /\ ExtremesOK' /\ HalvesOK'
      BY <1>1, <3>1, DeliverData, DeliverExtremes, DeliverHalves DEF TimesInv
    <3>. QED BY <3>2 DEF TimesInv
  <2>2. CASE Return
    BY <1>1, <2>2, ReturnTimes
  <2>3. CASE Fail
    BY <1>1, <2>3, FailTimes
  <2>4. CASE ReadAgain
    <3>1. /\ delivered' = delivered /\ stored' = stored /\ reads' = reads + 1
          /\ result' = result /\ started_at' = started_at /\ finished_at' = finished_at
      BY <2>4 DEF ReadAgain, driver
    <3>2. DataOK'
      BY <1>1, <3>1, SameReading DEF TimesInv, DataOK, NodeOK
    <3>3. ExtremesOK'
      BY <1>1, <3>1, SameReading DEF TimesInv, ExtremesOK
    <3>4. HalvesOK'
      BY <1>1, <3>1, SameReading DEF TimesInv, HalvesOK, StartedOK, FinishedOK
    <3>. QED BY <3>2, <3>3, <3>4 DEF TimesInv
  <2>5. CASE UNCHANGED vars
    <3>1. /\ delivered' = delivered /\ stored' = stored /\ reads' = reads
          /\ result' = result /\ started_at' = started_at /\ finished_at' = finished_at
      BY <2>5 DEF vars
    <3>2. DataOK'
      BY <1>1, <3>1, SameReading DEF TimesInv, DataOK, NodeOK
    <3>3. ExtremesOK'
      BY <1>1, <3>1, SameReading DEF TimesInv, ExtremesOK
    <3>4. HalvesOK'
      BY <1>1, <3>1, SameReading DEF TimesInv, HalvesOK, StartedOK, FinishedOK
    <3>. QED BY <3>2, <3>3, <3>4 DEF TimesInv
  <2>. QED BY <1>1, <2>1, <2>2, <2>3, <2>4, <2>5 DEF Next
<1>. QED BY TimesInvInit, <1>1, PTL DEF Spec

-----------------------------------------------------------------------------
(* What a report says, in terms of what was read.                          *)

LEMMA ExtremesOf ==
  ASSUME NEW T, T \subseteq Int, NEW a \in T, NEW b \in T, \A t \in T : a <= t /\ t <= b
  PROVE  Min(T) = a /\ Max(T) = b
<1>1. \E x \in T : \A t \in T : x <= t
  BY Zenon
<1>2. \E x \in T : \A t \in T : x >= t
  BY SMT
<1>3. Min(T) = a
  <2>1. Min(T) \in T /\ \A t \in T : Min(T) <= t
    BY <1>1, Zenon DEF Min
  <2>2. Min(T) <= a /\ a <= Min(T) /\ Min(T) \in Int /\ a \in Int
    BY <2>1
  <2>. QED BY <2>2
<1>4. Max(T) = b
  <2>1. Max(T) \in T /\ \A t \in T : Max(T) >= t
    BY <1>2, Zenon DEF Max
  <2>2. Max(T) >= b /\ b >= Max(T) /\ Max(T) \in Int /\ b \in Int
    BY <2>1
  <2>. QED BY <2>2
<1>. QED BY <1>3, <1>4

LEMMA ExtremeStamps ==
  ASSUME TimesInv, delivered # {}
  PROVE  /\ Min(Stamps(delivered)) = started_at /\ Max(Stamps(delivered)) = finished_at
         /\ started_at # None /\ finished_at # None
<1>. DEFINE T == Stamps(delivered)
<1>1. /\ started_at \in T /\ finished_at \in T
      /\ \A e \in delivered : started_at <= e.timestamp /\ e.timestamp <= finished_at
  BY DEF TimesInv, ExtremesOK
<1>2. \A e \in delivered : e.timestamp \in Int /\ e.timestamp # None
  BY TraceFacts DEF TimesInv, DataOK
<1>3. T \subseteq Int /\ \A t \in T : started_at <= t /\ t <= finished_at /\ t # None
  BY <1>1, <1>2 DEF Stamps
<1>. HIDE DEF T
<1>4. Min(T) = started_at /\ Max(T) = finished_at
  BY <1>1, <1>3, ExtremesOf
<1>. QED BY <1>1, <1>3, <1>4 DEF T

LEMMA ReportedTimes ==
  ASSUME TimesInv, NEW id \in Seen, ~NotATime(result[id])
  PROVE  /\ \E e \in Either(Of(id, "stop"), Of(id, "start")) :
              /\ SinceStart(FinishedOf(result[id])) = Since(e)
              /\ result[id].exception = IF e.phase = "stop" THEN e.etype ELSE None
              /\ \E s \in Either(Of(id, "start"), {e}) :
                   SinceStart(StartedOf(result[id])) = Since(s)
         /\ result[id].parent_id = ParentOf(id)
<1>. DEFINE n == result[id]
            S == Of(id, "start")
            T == Of(id, "stop")
<1>1. /\ StartedOK(n, S) /\ FinishedOK(n, T)
      /\ n.started # None \/ n.finished # None
      /\ ~IsInt(n.started) /\ ~IsInt(n.finished)
  BY ParsedNode DEF TimesInv, HalvesOK, NotATime
<1>2. /\ \A e \in S : e \in delivered /\ e.phase = "start"
      /\ \A e \in T : e \in delivered /\ e.phase = "stop"
  BY DEF Of
<1>3. ASSUME NEW e \in delivered
      PROVE  SinceStart(e.timestamp) = Since(e) /\ DateTime(e.timestamp).value = e.timestamp
  <2>1. Min(Stamps(delivered)) = started_at
    BY ExtremeStamps
  <2>2. e.timestamp \in Int
    BY TraceFacts DEF TimesInv, DataOK
  <2>. QED BY <2>1, <2>2, MomentFacts DEF SinceStart, Since
<1>. HIDE DEF n, S, T
<1>4. \E e \in Either(T, S) :
        /\ SinceStart(FinishedOf(n)) = Since(e)
        /\ n.exception = IF e.phase = "stop" THEN e.etype ELSE None
        /\ \E s \in Either(S, {e}) : SinceStart(StartedOf(n)) = Since(s)
  <2>1. CASE n.finished = None
    <3>1. T = {} /\ n.exception = None /\ n.started # None
      BY <1>1, <2>1 DEF FinishedOK
    <3>2. PICK e \in S : n.started = DateTime(e.timestamp)
      BY <1>1, <3>1 DEF StartedOK
    <3>3. StartedOf(n) = e.timestamp /\ FinishedOf(n) = e.timestamp
      BY <1>2, <1>3, <2>1, <3>1, <3>2 DEF StartedOf, FinishedOf
    <3>4. e \in Either(T, S) /\ e \in Either(S, {e}) /\ e.phase # "stop"
      BY <1>2, <3>1 DEF Either
    <3>. QED BY <1>2, <1>3, <3>1, <3>3, <3>4
  <2>2. CASE n.finished # None
    <3>1. PICK e \in T : n.finished = DateTime(e.timestamp) /\ n.exception = e.etype
      BY <1>1, <2>2 DEF FinishedOK
    <3>2. FinishedOf(n) = e.timestamp
      BY <1>2, <1>3, <2>2, <3>1 DEF FinishedOf
    <3>3. e \in Either(T, S) /\ e.phase = "stop"
      BY <1>2 DEF Either
    <3>4. \E s \in Either(S, {e}) : SinceStart(StartedOf(n)) = Since(s)
      <4>1. CASE n.started = None
        <5>1. S = {} /\ StartedOf(n) = e.timestamp
          BY <1>1, <1>2, <1>3, <3>1, <4>1 DEF StartedOK, StartedOf
        <5>2. e \in Either(S, {e})
          BY <5>1 DEF Either
        <5>. QED BY <1>2, <1>3, <5>1, <5>2
      <4>2. CASE n.started # None
        <5>1. PICK s \in S : n.started = DateTime(s.timestamp)
          BY <1>1, <4>2 DEF StartedOK
        <5>2. StartedOf(n) = s.timestamp
          BY <1>2, <1>3, <4>2, <5>1 DEF StartedOf
        <5>3. s \in Either(S, {e})
          BY DEF Either
        <5>. QED BY <1>2, <1>3, <5>2, <5>3
      <4>. QED BY <4>1, <4>2
    <3>. QED BY <1>2, <1>3, <3>1, <3>2, <3>3, <3>4
  <2>. QED BY <2>1, <2>2
<1>5. n.parent_id = ParentOf(id)
  <2>1. PICK e \in delivered : e.trace_id = id /\ e.parent_id = n.parent_id
    BY DEF TimesInv, DataOK, n
  <2>2. PICK f \in delivered : f = CHOOSE g \in delivered : g.trace_id = id
    BY <2>1
  <2>3. f.trace_id = id
    BY <2>1, <2>2
  <2>4. f.parent_id = e.parent_id
    BY <2>1, <2>3, TraceFacts DEF TimesInv, DataOK
  <2>. QED BY <2>1, <2>2, <2>4 DEF ParentOf
<1>. QED BY <1>4, <1>5 DEF n, S, T

LEMMA ReturnRecords == ASSUME TimesInv, Return PROVE NodesAsRecorded'
<1>1. delivered' = delivered /\ Seen' = Seen
  BY ReturnedNodes
<1>2. ASSUME NEW id \in Seen
      PROVE  \E e \in Either(Of(id, "stop"), Of(id, "start")) :
               /\ result'[id].finished.value = Since(e)
               /\ result'[id].exception = IF e.phase = "stop" THEN e.etype ELSE None
               /\ \E s \in Either(Of(id, "start"), {e}) : result'[id].started.value = Since(s)
  <2>1. /\ ~NotATime(result[id])
        /\ result'[id].started.value = SinceStart(StartedOf(result[id]))
        /\ result'[id].finished.value = SinceStart(FinishedOf(result[id]))
        /\ result'[id].exception = result[id].exception
    BY ReturnedNodes
  <2>. QED BY <2>1, ReportedTimes
<1>3. /\ \A id : Of(id, "start")' = Of(id, "start") /\ Of(id, "stop")' = Of(id, "stop")
      /\ \A e : Since(e)' = Since(e)
  BY <1>1, SameReading
<1>. QED BY <1>1, <1>2, <1>3 DEF NodesAsRecorded, StartOf, FinishOf, Either

LEMMA ReturnStats == ASSUME TimesInv, Return PROVE StatsAddUp'
<1>. SUFFICES ASSUME delivered # {} PROVE StatsAddUp'
  BY ReturnedNodes DEF StatsAddUp
<1>. DEFINE nodes == [id \in DOMAIN result |-> Parsed(result[id])]
            took(id) == result'[id].finished.value - result'[id].started.value
            ids(op) == {id \in Seen : result'[id].name = op}
<1>1. delivered' = delivered /\ report' = ReportOf(nodes)
  BY DEF Return, ParseResults
<1>2. DOMAIN nodes = Seen
  BY ReturnedNodes
<1>3. ASSUME NEW id \in Seen
      PROVE  nodes[id].name = result'[id].name /\ Duration(nodes[id]) = took(id)
  <2>1. ~NotATime(result[id]) /\ nodes[id] = Parsed(result[id])
    BY <1>2, ReturnedNodes
  <2>2. /\ nodes[id].name = result[id].name
        /\ nodes[id].started.value = SinceStart(StartedOf(result[id]))
        /\ nodes[id].finished.value = SinceStart(FinishedOf(result[id]))
    BY <2>1, ParsedInv
  <2>3. /\ result'[id].name = result[id].name
        /\ result'[id].started.value = SinceStart(StartedOf(result[id]))
        /\ result'[id].finished.value = SinceStart(FinishedOf(result[id]))
    BY ReturnedNodes
  <2>. HIDE DEF nodes
  <2>. QED BY <2>2, <2>3 DEF Duration
<1>4. report'.finished = msec(Max(Stamps(delivered)) - Min(Stamps(delivered)))
  <2>1. report'.finished = Elapsed(finished_at)
    BY <1>1 DEF ReportOf
  <2>. QED BY <2>1, ExtremeStamps DEF Elapsed, SinceStart
<1>. HIDE DEF nodes
<1>5. report'.stats = Stats(nodes)
  BY <1>1 DEF ReportOf
<1>6. /\ DOMAIN report'.stats = {result'[id].name : id \in Seen}
      /\ \A op \in DOMAIN report'.stats :
           report'.stats[op] =
             [count    |-> Cardinality(OpNodes(nodes, op)),
              duration |-> SumFunction([i \in OpNodes(nodes, op) |-> Duration(nodes[i])])]
  BY <1>2, <1>3, <1>5 DEF Stats
<1>7. ASSUME NEW op
      PROVE  /\ OpNodes(nodes, op) = ids(op)
             /\ [i \in OpNodes(nodes, op) |-> Duration(nodes[i])] = [id \in ids(op) |-> took(id)]
  <2>1. OpNodes(nodes, op) = ids(op)
    BY <1>2, <1>3 DEF OpNodes
  <2>. QED BY <1>3, <2>1
<1>8. ASSUME NEW op \in DOMAIN report'.stats
      PROVE  /\ report'.stats[op].count = Cardinality(ids(op))
             /\ report'.stats[op].duration = SumFunction([id \in ids(op) |-> took(id)])
  <2>. DEFINE D == [i \in OpNodes(nodes, op) |-> Duration(nodes[i])]
              E == [id \in ids(op) |-> took(id)]
  <2>1. report'.stats[op] = [count    |-> Cardinality(OpNodes(nodes, op)),
                             duration |-> SumFunction(D)]
    BY <1>6
  <2>2. OpNodes(nodes, op) = ids(op) /\ D = E
    BY <1>7
  <2>. HIDE DEF D, E, ids
  <2>3. /\ report'.stats[op].count = Cardinality(ids(op))
        /\ report'.stats[op].duration = SumFunction(E)
    BY <2>1, <2>2
  <2>. QED BY <2>3 DEF E
<1>9. \A id \in Seen : result'[id].name \in NamesOf(id)'
  <2>1. \A id \in Seen : result'[id].name = result[id].name /\ result[id].name \in NamesOf(id)
    BY ReturnedNodes DEF TimesInv, DataOK
  <2>. QED BY <1>1, <2>1, SameReading
<1>10. /\ Seen' = Seen /\ Stamps(delivered)' = Stamps(delivered)
  BY <1>1, SameReading
<1>11. /\ report'.finished = msec(Max(Stamps(delivered)') - Min(Stamps(delivered)'))
       /\ \A id \in Seen' : result'[id].name \in NamesOf(id)'
       /\ DOMAIN report'.stats = {result'[id].name : id \in Seen'}
  BY <1>4, <1>6, <1>9, <1>10
<1>12. \A op \in DOMAIN report'.stats :
         /\ report'.stats[op].count = Cardinality({id \in Seen' : result'[id].name = op})
         /\ report'.stats[op].duration =
              SumFunction([id \in {i \in Seen' : result'[i].name = op} |->
                             result'[id].finished.value - result'[id].started.value])
  BY <1>8, <1>10
<1>. QED BY <1>11, <1>12 DEF StatsAddUp, StartOf, FinishOf

(* Where a report is returned, and the steps that change neither it nor    *)
(* what was read.                                                          *)
LEMMA ReturningOrNot ==
  ASSUME [Next]_vars
  PROVE  \/ Return
         \/ ~Returned'
         \/ UNCHANGED <<delivered, result, report, reads, phase>>
BY DEF Next, Deliver, Fail, ReadAgain, Reading, Returned, vars

(* The times and the exceptions of a report are those of notifications it  *)
(* was made of, whatever order they came in.                               *)
THEOREM ReportsAreTrue == Spec => []NodesAsRecorded
<1>1. Init => NodesAsRecorded
  BY DEF Init, NodesAsRecorded, Returned
<1>2. ASSUME TimesInv, NodesAsRecorded, [Next]_vars PROVE NodesAsRecorded'
  <2>1. CASE Return
    BY <1>2, <2>1, ReturnRecords
  <2>2. CASE ~Returned'
    BY <2>2 DEF NodesAsRecorded
  <2>3. CASE UNCHANGED <<delivered, result, report, reads, phase>>
    <3>1. /\ Seen' = Seen /\ Returned' = Returned /\ result' = result
          /\ \A id : Of(id, "start")' = Of(id, "start") /\ Of(id, "stop")' = Of(id, "stop")
          /\ \A e : Since(e)' = Since(e)
      BY <2>3, SameReading DEF Returned
    <3>. QED BY <1>2, <3>1 DEF NodesAsRecorded, StartOf, FinishOf, Either
  <2>. QED BY <1>2, <2>1, <2>2, <2>3, ReturningOrNot
<1>. QED BY TimesInvariant, <1>1, <1>2, PTL DEF Spec

(* The statistics count each point once, under the first part of a name    *)
(* that was recorded of it, and add up the time of each.                   *)
THEOREM StatisticsAddUp == Spec => []StatsAddUp
<1>1. Init => StatsAddUp
  BY DEF Init, StatsAddUp, Returned
<1>2. ASSUME TimesInv, StatsAddUp, [Next]_vars PROVE StatsAddUp'
  <2>1. CASE Return
    BY <1>2, <2>1, ReturnStats
  <2>2. CASE ~Returned'
    BY <2>2 DEF StatsAddUp
  <2>3. CASE UNCHANGED <<delivered, result, report, reads, phase>>
    <3>1. /\ Seen' = Seen /\ Returned' = Returned /\ result' = result /\ report' = report
          /\ delivered' = delivered /\ Stamps(delivered)' = Stamps(delivered)
          /\ \A id : NamesOf(id)' = NamesOf(id)
      BY <2>3, SameReading DEF Returned
    <3>. QED BY <1>2, <3>1 DEF StatsAddUp, StartOf, FinishOf
  <2>. QED BY <1>2, <2>1, <2>2, <2>3, ReturningOrNot
<1>. QED BY TimesInvariant, <1>1, <1>2, PTL DEF Spec

-----------------------------------------------------------------------------
(* Ranks.  A strict order R on a finite set I puts its elements at the     *)
(* places 1 to Cardinality(I).                                             *)

Place(I, R, i) == 1 + Cardinality({j \in I : <<j, i>> \in R})
At(I, R, k) == CHOOSE i \in I : Place(I, R, i) = k

LEMMA Ranks ==
  ASSUME NEW I, IsFiniteSet(I), NEW R,
         \A i \in I : <<i, i>> \notin R,
         \A i, j \in I : i = j \/ <<i, j>> \in R \/ <<j, i>> \in R,
         \A i, j, k \in I : <<i, j>> \in R /\ <<j, k>> \in R => <<i, k>> \in R
  PROVE  /\ Cardinality(I) \in Nat
         /\ \A i \in I : Place(I, R, i) \in 1 .. Cardinality(I)
                         /\ At(I, R, Place(I, R, i)) = i
         /\ \A k \in 1 .. Cardinality(I) : /\ At(I, R, k) \in I
                                           /\ Place(I, R, At(I, R, k)) = k
         /\ \A k, l \in 1 .. Cardinality(I) : k < l => <<At(I, R, k), At(I, R, l)>> \in R
<1>. DEFINE below(i) == {j \in I : <<j, i>> \in R}
            place == [i \in I |-> Place(I, R, i)]
            n == Cardinality(I)
<1>1. n \in Nat
  BY FS_CardinalityType
<1>2. ASSUME NEW i \in I
      PROVE  /\ IsFiniteSet(below(i)) /\ Cardinality(below(i)) \in Nat
             /\ Cardinality(below(i)) < n
  <2>1. IsFiniteSet(below(i)) /\ Cardinality(below(i)) <= n
        /\ (Cardinality(below(i)) = n => below(i) = I)
    BY FS_Subset
  <2>2. i \notin below(i)
    OBVIOUS
  <2>3. Cardinality(below(i)) \in Nat
    BY <2>1, FS_CardinalityType
  <2>4. below(i) # I
    BY <2>2
  <2>. HIDE DEF below, n
  <2>. QED BY <1>1, <2>1, <2>3, <2>4
<1>3. \A i \in I : Place(I, R, i) = 1 + Cardinality(below(i))
  BY DEF Place
<1>4. ASSUME NEW i \in I, NEW j \in I, <<i, j>> \in R
      PROVE  Place(I, R, i) < Place(I, R, j)
  <2>1. below(i) \subseteq below(j) /\ i \in below(j) /\ i \notin below(i)
    BY <1>4
  <2>2. /\ Cardinality(below(i)) <= Cardinality(below(j))
        /\ Cardinality(below(i)) = Cardinality(below(j)) => below(i) = below(j)
    BY <1>2, <2>1, FS_Subset
  <2>. HIDE DEF below
  <2>3. Cardinality(below(i)) < Cardinality(below(j))
    BY <1>2, <2>1, <2>2
  <2>. QED BY <1>2, <1>3, <2>3
<1>5. place \in [I -> 1 .. n]
  <2>1. \A i \in I : Place(I, R, i) \in 1 .. n
    <3>. HIDE DEF below, n
    <3>. QED BY <1>1, <1>2, <1>3
  <2>. QED BY <2>1
<1>6. \A i, j \in I : place[i] = place[j] => i = j
  <2>. SUFFICES ASSUME NEW i \in I, NEW j \in I, i # j PROVE place[i] # place[j]
    OBVIOUS
  <2>1. Place(I, R, i) < Place(I, R, j) \/ Place(I, R, j) < Place(I, R, i)
    BY <1>4
  <2>2. Place(I, R, i) \in Int /\ Place(I, R, j) \in Int
    BY <1>1, <1>5
  <2>. QED BY <2>1, <2>2
<1>7. \A k \in 1 .. n : \E i \in I : place[i] = k
  <2>1. place \in Injection(I, 1 .. n)
    BY <1>5, <1>6 DEF Injection, IsInjective
  <2>2. IsFiniteSet(1 .. n) /\ Cardinality(1 .. n) = n
    BY <1>1, FS_Interval
  <2>3. place \in Surjection(I, 1 .. n)
    BY <2>1, <2>2, FS_Injection
  <2>. QED BY <2>3 DEF Surjection
<1>8. ASSUME NEW k \in 1 .. n
      PROVE  At(I, R, k) \in I /\ Place(I, R, At(I, R, k)) = k
  BY <1>7 DEF At
<1>9. \A i \in I : Place(I, R, i) \in 1 .. n /\ At(I, R, Place(I, R, i)) = i
  BY <1>5, <1>6, <1>8
<1>10. ASSUME NEW k \in 1 .. n, NEW l \in 1 .. n, k < l
       PROVE  <<At(I, R, k), At(I, R, l)>> \in R
  <2>1. CASE <<At(I, R, l), At(I, R, k)>> \in R
    <3>1. l < k
      BY <1>4, <1>8, <2>1
    <3>. QED BY <1>1, <1>10, <3>1
  <2>2. CASE At(I, R, l) = At(I, R, k)
    <3>1. l = k
      BY <1>8, <2>2
    <3>. QED BY <1>1, <1>10, <3>1
  <2>. QED BY <1>8, <2>1, <2>2
<1>. QED BY <1>1, <1>8, <1>9, <1>10

(* The keys at the places I: the key at each of them, once.                *)
LEMMA KeysListed ==
  ASSUME NEW S, order \in Seq(S), NEW I, I \subseteq DOMAIN order,
         \A i, j \in DOMAIN order : order[i] = order[j] => i = j
  PROVE  /\ Keys(I) \in Seq(S)
         /\ \A id : Cardinality(Occurrences(Keys(I), id)) =
                      IF \E i \in I : order[i] = id THEN 1 ELSE 0
<1>. DEFINE R == {p \in I \X I : p[1] < p[2]}
            n == Cardinality(I)
            at(k) == CHOOSE i \in I : 1 + Cardinality({j \in I : j < i}) = k
<1>1. Len(order) \in Nat /\ DOMAIN order = 1 .. Len(order) /\ I \subseteq Nat
      /\ \A i \in DOMAIN order : order[i] \in S
  OBVIOUS
<1>2. IsFiniteSet(I)
  <2>1. IsFiniteSet(1 .. Len(order))
    BY <1>1, FS_Interval
  <2>. QED BY <1>1, <2>1, FS_Subset
<1>3. \A i, j \in I : <<i, j>> \in R <=> i < j
  OBVIOUS
<1>4. ASSUME NEW i \in I PROVE Place(I, R, i) = 1 + Cardinality({j \in I : j < i})
  <2>1. {j \in I : <<j, i>> \in R} = {j \in I : j < i}
    BY <1>3
  <2>. QED BY <2>1 DEF Place
<1>. HIDE DEF R
<1>5. /\ n \in Nat
      /\ \A i \in I : Place(I, R, i) \in 1 .. n /\ At(I, R, Place(I, R, i)) = i
      /\ \A k \in 1 .. n : At(I, R, k) \in I /\ Place(I, R, At(I, R, k)) = k
  <2>1. /\ \A i \in I : <<i, i>> \notin R
        /\ \A i, j \in I : i = j \/ <<i, j>> \in R \/ <<j, i>> \in R
        /\ \A i, j, k \in I : <<i, j>> \in R /\ <<j, k>> \in R => <<i, k>> \in R
    BY <1>1, <1>3
  <2>. QED BY <1>2, <2>1, Ranks
<1>6. ASSUME NEW k \in 1 .. n PROVE at(k) = At(I, R, k)
  <2>1. \E i \in I : 1 + Cardinality({j \in I : j < i}) = k
    BY <1>4, <1>5
  <2>2. at(k) \in I /\ 1 + Cardinality({j \in I : j < at(k)}) = k
    BY <2>1
  <2>. HIDE DEF at
  <2>3. Place(I, R, at(k)) = k
    BY <1>4, <2>2
  <2>. QED BY <1>5, <2>2, <2>3
<1>7. Keys(I) = [k \in 1 .. n |-> order[at(k)]]
  BY DEF Keys
<1>. HIDE DEF at
<1>8. /\ DOMAIN Keys(I) = 1 .. n
      /\ \A k \in 1 .. n : /\ Keys(I)[k] = order[At(I, R, k)]
                           /\ Keys(I)[k] \in S
  BY <1>1, <1>5, <1>6, <1>7
<1>. HIDE DEF n
<1>9. Keys(I) \in Seq(S)
  BY <1>5, <1>7, <1>8
<1>10. ASSUME NEW id
       PROVE  Cardinality(Occurrences(Keys(I), id)) = IF \E i \in I : order[i] = id THEN 1 ELSE 0
  <2>1. CASE \E i \in I : order[i] = id
    <3>1. PICK i \in I : order[i] = id
      BY <2>1
    <3>2. \A k \in 1 .. n : Keys(I)[k] = id <=> k = Place(I, R, i)
      BY <1>5, <1>8, <3>1
    <3>3. Occurrences(Keys(I), id) = {Place(I, R, i)}
      BY <1>5, <1>8, <3>2 DEF Occurrences
    <3>. QED BY <2>1, <3>3, FS_Singleton
  <2>2. CASE ~\E i \in I : order[i] = id
    <3>1. Occurrences(Keys(I), id) = {}
      BY <1>5, <1>8, <2>2 DEF Occurrences
    <3>. QED BY <2>2, <3>1, FS_EmptySet
  <2>. QED BY <2>1, <2>2
<1>. QED BY <1>9, <1>10

(* Sorting keeps the elements, each as often, and puts them in order.      *)
LEMMA SortedListed ==
  ASSUME NEW S, NEW s \in Seq(S), NEW nodes, \A x \in S : nodes[x].started.value \in Int
  PROVE  /\ SortedByStart(nodes, s) \in Seq(S)
         /\ \A id : Cardinality(Occurrences(SortedByStart(nodes, s), id)) =
                      Cardinality(Occurrences(s, id))
         /\ \A k, l \in DOMAIN SortedByStart(nodes, s) : k < l =>
              nodes[SortedByStart(nodes, s)[k]].started.value <=
                nodes[SortedByStart(nodes, s)[l]].started.value
<1>. DEFINE I == DOMAIN s
            n == Cardinality(I)
            R == {p \in I \X I : Before(nodes, s, p[1], p[2])}
            v(i) == nodes[s[i]].started.value
            place(i) == 1 + Cardinality({j \in I : Before(nodes, s, j, i)})
            at(k) == CHOOSE i \in I : place(i) = k
            t == SortedByStart(nodes, s)
<1>1. /\ I = 1 .. Len(s) /\ Len(s) \in Nat /\ IsFiniteSet(I) /\ n = Len(s)
      /\ \A i \in I : s[i] \in S /\ v(i) \in Int
  <2>1. Len(s) \in Nat /\ I = 1 .. Len(s) /\ \A i \in I : s[i] \in S
    OBVIOUS
  <2>. QED BY <2>1, FS_Interval
<1>2. \A i, j \in I : <<i, j>> \in R <=> v(i) < v(j) \/ (v(i) = v(j) /\ i < j)
  BY DEF Before
<1>3. ASSUME NEW i \in I PROVE Place(I, R, i) = place(i)
  <2>1. {j \in I : <<j, i>> \in R} = {j \in I : Before(nodes, s, j, i)}
    OBVIOUS
  <2>. QED BY <2>1 DEF Place
<1>4. t = [k \in I |-> s[at(k)]]
  BY DEF SortedByStart
<1>. HIDE DEF R, place, t, v, n, I
<1>5. /\ \A i \in I : Place(I, R, i) \in 1 .. n /\ At(I, R, Place(I, R, i)) = i
      /\ \A k \in 1 .. n : At(I, R, k) \in I /\ Place(I, R, At(I, R, k)) = k
      /\ \A k, l \in 1 .. n : k < l => <<At(I, R, k), At(I, R, l)>> \in R
  <2>1. /\ \A i \in I : <<i, i>> \notin R
        /\ \A i, j \in I : i = j \/ <<i, j>> \in R \/ <<j, i>> \in R
        /\ \A i, j, k \in I : <<i, j>> \in R /\ <<j, k>> \in R => <<i, k>> \in R
    BY <1>1, <1>2
  <2>2. IsFiniteSet(I)
    BY <1>1
  <2>3. /\ \A i \in I : Place(I, R, i) \in 1 .. Cardinality(I)
                       /\ At(I, R, Place(I, R, i)) = i
        /\ \A k \in 1 .. Cardinality(I) : /\ At(I, R, k) \in I
                                         /\ Place(I, R, At(I, R, k)) = k
        /\ \A k, l \in 1 .. Cardinality(I) : k < l => <<At(I, R, k), At(I, R, l)>> \in R
    BY <2>1, <2>2, Ranks
  <2>. QED BY <2>3 DEF n
<1>6. ASSUME NEW k \in I PROVE at(k) = At(I, R, k)
  <2>1. \E i \in I : place(i) = k
    BY <1>1, <1>3, <1>5
  <2>2. at(k) \in I /\ place(at(k)) = k
    BY <2>1
  <2>. HIDE DEF at
  <2>3. Place(I, R, at(k)) = k
    BY <1>3, <2>2
  <2>. QED BY <1>5, <2>2, <2>3
<1>. HIDE DEF at
<1>7. /\ DOMAIN t = I
      /\ \A k \in I : At(I, R, k) \in I /\ t[k] = s[At(I, R, k)] /\ t[k] \in S
  BY <1>1, <1>4, <1>5, <1>6
<1>8. t \in Seq(S)
  BY <1>1, <1>4, <1>7
<1>9. ASSUME NEW id
      PROVE  Cardinality(Occurrences(t, id)) = Cardinality(Occurrences(s, id))
  <2>. DEFINE T == Occurrences(t, id)
              U == Occurrences(s, id)
              f == [k \in T |-> At(I, R, k)]
  <2>1. T = {k \in I : t[k] = id} /\ U = {k \in I : s[k] = id}
    BY <1>7 DEF Occurrences, I
  <2>. HIDE DEF T, U
  <2>2. IsFiniteSet(T)
    BY <1>1, <2>1, FS_Subset
  <2>3. f \in [T -> U]
    BY <1>1, <1>7, <2>1
  <2>4. \A k, l \in T : f[k] = f[l] => k = l
    BY <1>1, <1>5, <2>1
  <2>5. \A i \in U : \E k \in T : f[k] = i
    <3>1. \A i \in U : Place(I, R, i) \in T /\ At(I, R, Place(I, R, i)) = i
      BY <1>1, <1>5, <1>7, <2>1
    <3>. QED BY <3>1
  <2>6. ExistsBijection(T, U)
    BY <2>3, <2>4, <2>5 DEF ExistsBijection, Bijection, Injection, Surjection, IsInjective
  <2>. QED BY <2>2, <2>6, FS_Bijection DEF T, U
<1>10. ASSUME NEW k \in DOMAIN t, NEW l \in DOMAIN t, k < l
       PROVE  nodes[t[k]].started.value <= nodes[t[l]].started.value
  <2>1. v(At(I, R, k)) <= v(At(I, R, l))
    <3>1. k \in 1 .. n /\ l \in 1 .. n
      BY <1>1, <1>7, <1>10
    <3>2. /\ At(I, R, k) \in I /\ At(I, R, l) \in I
          /\ <<At(I, R, k), At(I, R, l)>> \in R
      BY <1>5, <1>10, <3>1
    <3>3. \A i, j \in I : <<i, j>> \in R => v(i) <= v(j)
      BY <1>1, <1>2
    <3>. QED BY <3>2, <3>3
  <2>. QED BY <1>7, <2>1 DEF v
<1>. QED BY <1>8, <1>9, <1>10 DEF t

LEMMA OccurrencesJoined ==
  ASSUME NEW S, NEW s \in Seq(S), NEW t \in Seq(S), NEW id
  PROVE  /\ IsFiniteSet(Occurrences(s, id))
         /\ Cardinality(Occurrences(s, id)) \in Nat
         /\ Cardinality(Occurrences(s \o t, id)) =
              Cardinality(Occurrences(s, id)) + Cardinality(Occurrences(t, id))
<1>. DEFINE A == Occurrences(s, id)
            B == Occurrences(t, id)
            C == {i \in DOMAIN (s \o t) : i > Len(s) /\ (s \o t)[i] = id}
            f == [i \in B |-> i + Len(s)]
<1>1. /\ Len(s) \in Nat /\ Len(t) \in Nat /\ DOMAIN s = 1 .. Len(s) /\ DOMAIN t = 1 .. Len(t)
      /\ DOMAIN (s \o t) = 1 .. Len(s) + Len(t)
      /\ \A i \in 1 .. Len(s) + Len(t) :
           (s \o t)[i] = IF i <= Len(s) THEN s[i] ELSE t[i - Len(s)]
  OBVIOUS
<1>2. A = {i \in 1 .. Len(s) : s[i] = id} /\ B = {i \in 1 .. Len(t) : t[i] = id}
  BY <1>1 DEF Occurrences
<1>3. C = {i \in 1 .. Len(s) + Len(t) : i > Len(s) /\ t[i - Len(s)] = id}
  BY <1>1
<1>4. Occurrences(s \o t, id) = A \cup C
  BY <1>1, <1>2, <1>3 DEF Occurrences
<1>5. IsFiniteSet(A) /\ IsFiniteSet(B)
  <2>1. IsFiniteSet(1 .. Len(s)) /\ IsFiniteSet(1 .. Len(t))
    BY <1>1, FS_Interval
  <2>2. A \subseteq 1 .. Len(s) /\ B \subseteq 1 .. Len(t)
    BY <1>2
  <2>. QED BY <2>1, <2>2, FS_Subset
<1>. HIDE DEF A, B, C
<1>6. Cardinality(C) = Cardinality(B) /\ IsFiniteSet(C)
  <2>1. f \in [B -> C]
    BY <1>1, <1>2, <1>3
  <2>2. \A i, j \in B : f[i] = f[j] => i = j
    BY <1>1, <1>2
  <2>3. \A i \in C : \E j \in B : f[j] = i
    <3>1. \A i \in C : i - Len(s) \in B /\ (i - Len(s)) + Len(s) = i
      BY <1>1, <1>2, <1>3
    <3>. QED BY <3>1
  <2>4. ExistsBijection(B, C)
    BY <2>1, <2>2, <2>3 DEF ExistsBijection, Bijection, Injection, Surjection, IsInjective
  <2>. QED BY <1>5, <2>4, FS_Bijection
<1>7. A \cap C = {}
  BY <1>1, <1>2, <1>3
<1>8. Cardinality(A \cup C) = Cardinality(A) + Cardinality(C)
  <2>1. Cardinality(A \cup C) = Cardinality(A) + Cardinality(C) - Cardinality(A \cap C)
    BY <1>5, <1>6, FS_Union
  <2>2. Cardinality(A \cap C) = 0
    BY <1>7, FS_EmptySet
  <2>. QED BY <1>5, <1>6, <2>1, <2>2, FS_CardinalityType
<1>. QED BY <1>4, <1>5, <1>6, <1>8, FS_CardinalityType DEF A, B

-----------------------------------------------------------------------------
(* The tree.  The keys are the nodes, each once; a node is in the list of  *)
(* children of its parent once for every report made, and in no other.     *)

OrderOK ==
  /\ order \in Seq(DOMAIN result)
  /\ \A i, j \in DOMAIN order : order[i] = order[j] => i = j
  /\ \A id \in DOMAIN result : \E i \in DOMAIN order : order[i] = id

Count(l, id) == Cardinality(Occurrences(result[l].children, id))
Reports == IF Returned THEN 1 .. reads ELSE 0 .. reads - 1
ChildrenOK ==
  /\ \A l \in DOMAIN result : result[l].children \in Seq(DOMAIN result)
  /\ \A l, id \in DOMAIN result :
       Count(l, id) \in IF result[id].parent_id = l THEN Reports ELSE {0}

TreeInv == OrderOK /\ ChildrenOK

LEMMA TreeInvInit == Init => TreeInv
<1>. SUFFICES ASSUME Init PROVE TreeInv
  OBVIOUS
<1>1. order = << >> /\ DOMAIN result = {}
  BY DEF Init
<1>. QED BY <1>1 DEF TreeInv, OrderOK, ChildrenOK

LEMMA DeliverTree ==
  ASSUME DataOK, TreeInv, ~Returned, NEW e \in stored, AppendResults(e),
         UNCHANGED <<stored, report, phase, reads>>
  PROVE  TreeInv'
<1>. DEFINE new == e.trace_id
<1>1. /\ DOMAIN result' = DOMAIN result \cup {new} /\ reads \in Nat \ {0}
      /\ order' = IF new \in DOMAIN result THEN order ELSE Append(order, new)
      /\ ~Returned' /\ reads' = reads
  <2>1. DOMAIN result' = DOMAIN result \cup {new}
    BY AppendedNode
  <2>. QED BY <2>1 DEF AppendResults, KeysAfter, DataOK, Returned
<1>2. ASSUME NEW l \in DOMAIN result
      PROVE  result'[l].children = result[l].children /\ result'[l].parent_id = result[l].parent_id
  <2>1. CASE l # new
    <3>1. result'[l] = result[l]
      BY <2>1, AppendedNode
    <3>. QED BY <3>1
  <2>2. CASE l = new
    <3>1. NodeBefore(e) = result[new]
      BY <2>2, AppendedNode
    <3>2. /\ result'[new].children = NodeBefore(e).children
          /\ result'[new].parent_id = e.parent_id
      BY AppendedNode
    <3>3. result[new].parent_id = e.parent_id
      BY <2>2, TraceFacts DEF DataOK
    <3>. QED BY <2>2, <3>1, <3>2, <3>3
  <2>. QED BY <2>1, <2>2
<1>3. new \notin DOMAIN result => result'[new].children = << >>
  <2>1. result'[new].children = NodeBefore(e).children
    BY AppendedNode
  <2>2. new \notin DOMAIN result => NodeBefore(e).children = << >>
    BY AppendedNode
  <2>. QED BY <2>1, <2>2
<1>4. OrderOK'
  <2>1. CASE new \in DOMAIN result
    <3>1. DOMAIN result' = DOMAIN result /\ order' = order
      BY <1>1, <2>1
    <3>. QED BY <3>1 DEF TreeInv, OrderOK
  <2>2. CASE new \notin DOMAIN result
    <3>. DEFINE s == Append(order, new)
                S == DOMAIN result
    <3>1. order \in Seq(S) /\ order' = s /\ DOMAIN result' = S \cup {new}
      BY <1>1, <2>2 DEF TreeInv, OrderOK
    <3>2. /\ Len(order) \in Nat /\ DOMAIN order = 1 .. Len(order)
          /\ DOMAIN s = 1 .. Len(order) + 1
          /\ \A i \in DOMAIN order : s[i] = order[i] /\ order[i] \in S
          /\ s[Len(order) + 1] = new
      BY <3>1
    <3>3. s \in Seq(S \cup {new})
      <4>1. order \in Seq(S \cup {new})
        BY <3>1
      <4>. QED BY <4>1
    <3>. HIDE DEF s
    <3>4. \A i, j \in DOMAIN s : s[i] = s[j] => i = j
      <4>1. \A i \in DOMAIN s : i \in DOMAIN order \/ i = Len(order) + 1
        BY <3>2
      <4>2. \A i, j \in DOMAIN order : order[i] = order[j] => i = j
        BY DEF TreeInv, OrderOK
      <4>. QED BY <2>2, <3>2, <4>1, <4>2
    <3>5. \A id \in S \cup {new} : \E i \in DOMAIN s : s[i] = id
      <4>1. \A id \in S : \E i \in DOMAIN order : order[i] = id
        BY DEF TreeInv, OrderOK
      <4>2. DOMAIN order \subseteq DOMAIN s /\ Len(order) + 1 \in DOMAIN s
        BY <3>2
      <4>. QED BY <3>2, <4>1, <4>2
    <3>. QED BY <3>1, <3>3, <3>4, <3>5 DEF OrderOK
  <2>. QED BY <2>1, <2>2
<1>5. \A l \in DOMAIN result' : result'[l].children \in Seq(DOMAIN result')
  <2>1. ASSUME NEW l \in DOMAIN result PROVE result'[l].children \in Seq(DOMAIN result')
    <3>1. result[l].children \in Seq(DOMAIN result)
      BY DEF TreeInv, ChildrenOK
    <3>2. DOMAIN result \subseteq DOMAIN result'
      BY <1>1
    <3>. HIDE DEF new
    <3>. QED BY <1>2, <3>1, <3>2
  <2>2. << >> \in Seq(DOMAIN result')
    OBVIOUS
  <2>. QED BY <1>1, <1>3, <2>1, <2>2
<1>6. ASSUME NEW l \in DOMAIN result', NEW id \in DOMAIN result'
      PROVE  Count(l, id)' \in IF result'[id].parent_id = l THEN Reports' ELSE {0}
  <2>1. Reports' = Reports /\ 0 \in Reports
    BY <1>1 DEF Reports
  <2>2. CASE l \in DOMAIN result /\ id \in DOMAIN result
    <3>1. Count(l, id)' = Count(l, id) /\ result'[id].parent_id = result[id].parent_id
      BY <1>2, <2>2 DEF Count
    <3>. QED BY <2>1, <2>2, <3>1 DEF TreeInv, ChildrenOK
  <2>3. CASE l \notin DOMAIN result \/ id \notin DOMAIN result
    <3>1. Occurrences(result'[l].children, id) = {}
      <4>1. CASE l \notin DOMAIN result
        <5>1. result'[l].children = << >>
          BY <1>1, <1>3, <4>1
        <5>. QED BY <5>1 DEF Occurrences
      <4>2. CASE l \in DOMAIN result /\ id \notin DOMAIN result
        <5>1. result'[l].children \in Seq(DOMAIN result)
          BY <1>2, <4>2 DEF TreeInv, ChildrenOK
        <5>2. \A i \in DOMAIN result'[l].children : result'[l].children[i] \in DOMAIN result
          BY <5>1
        <5>. QED BY <4>2, <5>2 DEF Occurrences
      <4>. QED BY <2>3, <4>1, <4>2
    <3>2. Count(l, id)' = 0
      BY <3>1, FS_EmptySet DEF Count
    <3>. QED BY <2>1, <3>2
  <2>. QED BY <2>2, <2>3
<1>. QED BY <1>4, <1>5, <1>6 DEF TreeInv, ChildrenOK

(* What the tree of a report is built from.                                *)
LEMMA ParsedNodes ==
  ASSUME TimesInv, Return, NEW id \in Seen
  PROVE  LET n == Parsed(result[id]) IN
         /\ NodeOK(n)
         /\ n.children = result[id].children /\ n.parent_id = ParentOf(id)
         /\ n.started.value = result'[id].started.value
         /\ result'[id].started.value \in Int
         /\ result[id].parent_id = ParentOf(id) /\ result'[id].parent_id = ParentOf(id)
<1>. DEFINE n == Parsed(result[id])
<1>1. /\ ~NotATime(result[id])
      /\ result'[id].started.value = SinceStart(StartedOf(result[id]))
      /\ result'[id].started.value \in Int
      /\ result'[id].parent_id = result[id].parent_id
  BY ReturnedNodes
<1>2. result[id].parent_id = ParentOf(id)
  BY <1>1, ReportedTimes
<1>3. /\ NodeOK(n) /\ n.children = result[id].children /\ n.parent_id = result[id].parent_id
      /\ n.started.value = SinceStart(StartedOf(result[id]))
  BY <1>1, ParsedInv
<1>. HIDE DEF n
<1>. QED BY <1>1, <1>2, <1>3 DEF n

LEMMA ReturnedChildren ==
  ASSUME TimesInv, TreeInv, Return, NEW l \in Seen
  PROVE  /\ result'[l].children \in Seq(Seen)
         /\ \A id \in Seen :
              Count(l, id)' = Count(l, id) + IF ParentOf(id) = l THEN 1 ELSE 0
         /\ \A i, j \in DOMAIN result'[l].children : i < j =>
              result'[result'[l].children[i]].started.value <=
                result'[result'[l].children[j]].started.value
<1>. DEFINE nodes == [id \in DOMAIN result |-> Parsed(result[id])]
            I == {i \in DOMAIN order : nodes[order[i]].parent_id = l}
            old == result[l].children
            c == SortedByStart(nodes, old \o Keys(I))
<1>1. DOMAIN result = Seen /\ result' = WithChildren(nodes)
  BY ReturnedNodes DEF Return, ParseResults
<1>2. \A id \in Seen : /\ nodes[id].children = result[id].children
                       /\ nodes[id].parent_id = ParentOf(id)
                       /\ nodes[id].started.value = result'[id].started.value
                       /\ result'[id].started.value \in Int
  BY <1>1, ParsedNodes
<1>3. DOMAIN nodes = Seen
  BY <1>1
<1>. HIDE DEF nodes
<1>4. result'[l].children = c
  <2>1. result'[l] = [nodes[l] EXCEPT !.children = SortedByStart(nodes, ChildrenOf(nodes, l))]
    BY <1>1, <1>3 DEF WithChildren
  <2>2. "children" \in DOMAIN nodes[l]
    <3>. DEFINE n == nodes[l]
    <3>1. n = [name |-> n.name, parent_id |-> n.parent_id, started |-> n.started,
               finished |-> n.finished, exception |-> n.exception, children |-> n.children]
      BY <1>1, ParsedNodes DEF nodes, NodeOK
    <3>. HIDE DEF n
    <3>2. DOMAIN n = {"name", "parent_id", "started", "finished", "exception", "children"}
      BY <3>1
    <3>. QED BY <3>2 DEF n
  <2>3. ChildrenOf(nodes, l) = old \o Keys(I)
    BY <1>2 DEF ChildrenOf
  <2>. QED BY <2>1, <2>2, <2>3
<1>5. /\ order \in Seq(Seen) /\ old \in Seq(Seen)
      /\ \A i, j \in DOMAIN order : order[i] = order[j] => i = j
      /\ \A id \in Seen : \E i \in DOMAIN order : order[i] = id
  BY <1>1 DEF TreeInv, OrderOK, ChildrenOK
<1>6. I \subseteq DOMAIN order
  OBVIOUS
<1>7. ASSUME NEW id \in Seen
      PROVE  (\E i \in I : order[i] = id) <=> ParentOf(id) = l
  BY <1>2, <1>5
<1>. HIDE DEF I
<1>8. /\ Keys(I) \in Seq(Seen)
      /\ \A id \in Seen : Cardinality(Occurrences(Keys(I), id)) =
                            IF ParentOf(id) = l THEN 1 ELSE 0
  <2>1. /\ Keys(I) \in Seq(Seen)
        /\ \A id : Cardinality(Occurrences(Keys(I), id)) =
                     IF \E i \in I : order[i] = id THEN 1 ELSE 0
    BY <1>5, <1>6, KeysListed
  <2>. QED BY <1>7, <2>1
<1>. HIDE DEF old
<1>9. old \o Keys(I) \in Seq(Seen)
  BY <1>5, <1>8
<1>10. /\ c \in Seq(Seen)
       /\ \A id : Cardinality(Occurrences(c, id)) = Cardinality(Occurrences(old \o Keys(I), id))
       /\ \A i, j \in DOMAIN c : i < j => nodes[c[i]].started.value <= nodes[c[j]].started.value
  <2>1. \A x \in Seen : nodes[x].started.value \in Int
    BY <1>2
  <2>. QED BY <1>9, <2>1, SortedListed
<1>. HIDE DEF c
<1>11. \A i \in DOMAIN c : c[i] \in Seen
  BY <1>10
<1>12. ASSUME NEW id \in Seen
       PROVE  Count(l, id)' = Count(l, id) + IF ParentOf(id) = l THEN 1 ELSE 0
  <2>1. Cardinality(Occurrences(c, id)) =
          Cardinality(Occurrences(old, id)) + Cardinality(Occurrences(Keys(I), id))
    BY <1>5, <1>8, <1>10, OccurrencesJoined
  <2>. QED BY <1>4, <1>8, <2>1 DEF Count, old
<1>13. \A i, j \in DOMAIN c : i < j => result'[c[i]].started.value <= result'[c[j]].started.value
  BY <1>2, <1>10, <1>11
<1>. QED BY <1>4, <1>10, <1>12, <1>13

LEMMA ReturnTree == ASSUME TimesInv, TreeInv, Return PROVE TreeInv'
<1>1. /\ DOMAIN result' = Seen /\ DOMAIN result = Seen /\ order' = order
      /\ Returned' /\ ~Returned /\ reads' = reads /\ reads \in Nat \ {0}
  BY ReturnedNodes DEF Return, Reading, Returned, ParseResults, TimesInv, DataOK
<1>2. OrderOK'
  BY <1>1 DEF TreeInv, OrderOK
<1>3. \A l \in DOMAIN result' : result'[l].children \in Seq(DOMAIN result')
  BY <1>1, ReturnedChildren
<1>4. ASSUME NEW l \in DOMAIN result', NEW id \in DOMAIN result'
      PROVE  Count(l, id)' \in IF result'[id].parent_id = l THEN Reports' ELSE {0}
  <2>1. /\ result'[id].parent_id = result[id].parent_id
        /\ result[id].parent_id = ParentOf(id)
    BY <1>1, ParsedNodes
  <2>2. Count(l, id) \in IF ParentOf(id) = l THEN Reports ELSE {0}
    BY <1>1, <2>1 DEF TreeInv, ChildrenOK
  <2>3. Count(l, id)' = Count(l, id) + IF ParentOf(id) = l THEN 1 ELSE 0
    BY <1>1, ReturnedChildren
  <2>. QED BY <1>1, <2>1, <2>2, <2>3 DEF Reports
<1>. QED BY <1>2, <1>3, <1>4 DEF TreeInv, ChildrenOK

LEMMA FailTree == ASSUME TimesInv, TreeInv, Fail PROVE TreeInv'
<1>1. /\ DOMAIN result' = Seen /\ DOMAIN result = Seen
      /\ order' = order /\ reads' = reads /\ ~Returned /\ ~Returned'
  <2>1. DOMAIN result' = Seen
    BY FailedNodes
  <2>. QED BY <2>1 DEF Fail, Reading, Returned, TimesInv, DataOK
<1>2. ASSUME NEW id \in Seen
      PROVE  result'[id].children = result[id].children /\ result'[id].parent_id = result[id].parent_id
  <2>1. CASE result'[id] = result[id]
    BY <2>1
  <2>2. CASE result'[id] = Parsed(result[id]) /\ ~NotATime(result[id])
    BY <2>2, ParsedInv
  <2>. QED BY <2>1, <2>2, FailedNodes
<1>3. Reports' = Reports /\ \A l \in Seen : \A id : Count(l, id)' = Count(l, id)
  BY <1>1, <1>2 DEF Reports, Count
<1>4. OrderOK'
  BY <1>1 DEF TreeInv, OrderOK
<1>5. ChildrenOK'
  BY <1>1, <1>2, <1>3 DEF TreeInv, ChildrenOK
<1>. QED BY <1>4, <1>5 DEF TreeInv

(* The tree of the points that a driver has read and reported, in every    *)
(* reachable state: TreeInv is an invariant of the driver.                 *)
THEOREM TreeInvariant == Spec => [](TimesInv /\ TreeInv)
<1>1. ASSUME TimesInv, TreeInv, [Next]_vars PROVE TreeInv'
  <2>1. CASE Deliver
    <3>1. PICK e \in stored : /\ Reading /\ AppendResults(e)
                              /\ UNCHANGED <<stored, report, phase, reads>>
      BY <2>1 DEF Deliver
    <3>. QED BY <1>1, <3>1, DeliverTree DEF Reading, Returned, TimesInv
  <2>2. CASE Return
    BY <1>1, <2>2, ReturnTree
  <2>3. CASE Fail
    BY <1>1, <2>3, FailTree
  <2>4. CASE ReadAgain
    <3>1. /\ result' = result /\ order' = order /\ reads' = reads + 1
          /\ ~Returned' /\ reads \in Nat \ {0}
      BY <1>1, <2>4 DEF ReadAgain, driver, Returned, TimesInv, DataOK
    <3>2. \A l, id : Count(l, id)' = Count(l, id)
      BY <3>1 DEF Count
    <3>3. \A k \in Reports : k \in Reports'
      BY <3>1 DEF Reports
    <3>. QED BY <1>1, <3>1, <3>2, <3>3 DEF TreeInv, OrderOK, ChildrenOK
  <2>5. CASE UNCHANGED vars
    <3>1. result' = result /\ order' = order /\ reads' = reads /\ Returned' = Returned
      BY <2>5 DEF vars, Returned
    <3>2. \A l, id : Count(l, id)' = Count(l, id)
      BY <3>1 DEF Count
    <3>. QED BY <1>1, <3>1, <3>2 DEF TreeInv, OrderOK, ChildrenOK, Reports
  <2>. QED BY <1>1, <2>1, <2>2, <2>3, <2>4, <2>5 DEF Next
<1>. QED BY TimesInvariant, TreeInvInit, <1>1, PTL DEF Spec

LEMMA ReturnedTop ==
  ASSUME TimesInv, TreeInv, Return
  PROVE  /\ report'.children \in Seq(Seen)
         /\ \A id \in Seen : Cardinality(Occurrences(report'.children, id)) =
                               IF ParentOf(id) \in Seen THEN 0 ELSE 1
         /\ \A i, j \in DOMAIN report'.children : i < j =>
              result'[report'.children[i]].started.value <= result'[report'.children[j]].started.value
<1>. DEFINE nodes == [id \in DOMAIN result |-> Parsed(result[id])]
            I == {i \in DOMAIN order : nodes[order[i]].parent_id \notin DOMAIN nodes}
            c == SortedByStart(nodes, Keys(I))
<1>1. DOMAIN result = Seen /\ report' = ReportOf(nodes)
  BY ReturnedNodes DEF Return, ParseResults
<1>2. \A id \in Seen : /\ nodes[id].parent_id = ParentOf(id)
                       /\ nodes[id].started.value = result'[id].started.value
                       /\ result'[id].started.value \in Int
  BY <1>1, ParsedNodes
<1>3. DOMAIN nodes = Seen
  BY <1>1
<1>. HIDE DEF nodes
<1>4. report'.children = c
  BY <1>1 DEF ReportOf, TopLevel
<1>5. /\ order \in Seq(Seen)
      /\ \A i, j \in DOMAIN order : order[i] = order[j] => i = j
      /\ \A id \in Seen : \E i \in DOMAIN order : order[i] = id
  BY <1>1 DEF TreeInv, OrderOK
<1>6. I \subseteq DOMAIN order
  OBVIOUS
<1>7. ASSUME NEW id \in Seen
      PROVE  (\E i \in I : order[i] = id) <=> ParentOf(id) \notin Seen
  BY <1>2, <1>3, <1>5
<1>. HIDE DEF I
<1>8. /\ Keys(I) \in Seq(Seen)
      /\ \A id \in Seen : Cardinality(Occurrences(Keys(I), id)) =
                            IF ParentOf(id) \in Seen THEN 0 ELSE 1
  <2>1. /\ Keys(I) \in Seq(Seen)
        /\ \A id : Cardinality(Occurrences(Keys(I), id)) =
                     IF \E i \in I : order[i] = id THEN 1 ELSE 0
    BY <1>5, <1>6, KeysListed
  <2>. QED BY <1>7, <2>1
<1>9. /\ c \in Seq(Seen)
      /\ \A id : Cardinality(Occurrences(c, id)) = Cardinality(Occurrences(Keys(I), id))
      /\ \A i, j \in DOMAIN c : i < j => nodes[c[i]].started.value <= nodes[c[j]].started.value
  <2>1. \A x \in Seen : nodes[x].started.value \in Int
    BY <1>2
  <2>. QED BY <1>8, <2>1, SortedListed
<1>. HIDE DEF c
<1>10. \A i \in DOMAIN c : c[i] \in Seen
  BY <1>9
<1>11. \A i, j \in DOMAIN c : i < j => result'[c[i]].started.value <= result'[c[j]].started.value
  BY <1>2, <1>9, <1>10
<1>. QED BY <1>4, <1>8, <1>9, <1>11

LEMMA ReturnTreeHolds ==
  ASSUME TimesInv, TreeInv, Return
  PROVE  TreeHoldsEachNode' /\ SiblingsInOrder'
<1>1. /\ delivered' = delivered /\ reads' = reads /\ Returned' /\ ~Returned
      /\ DOMAIN result = Seen /\ DOMAIN result' = Seen
  BY ReturnedNodes DEF Return, Reading, Returned
<1>2. /\ Seen' = Seen /\ Lists' = Lists
      /\ \A id : /\ PlaceOf(id)' = PlaceOf(id)
                 /\ ParentOf(id)' = ParentOf(id) /\ Copies(id)' = Copies(id)
  BY <1>1, SameReading DEF Lists, PlaceOf, Copies
<1>3. None \notin Seen
  BY TraceFacts DEF TimesInv, DataOK, Seen
<1>4. /\ ListOf(None)' = report'.children
      /\ \A l \in Seen : ListOf(l)' = result'[l].children
  BY <1>3 DEF ListOf
<1>5. ASSUME NEW id \in Seen, NEW l \in Lists
      PROVE  Cardinality(Occurrences(ListOf(l)', id)) \in
               IF l = PlaceOf(id) THEN Copies(l) ELSE {0}
  <2>1. CASE l = None
    <3>1. Cardinality(Occurrences(report'.children, id)) =
            IF ParentOf(id) \in Seen THEN 0 ELSE 1
      BY ReturnedTop
    <3>. QED BY <1>3, <1>4, <2>1, <3>1 DEF PlaceOf, Copies
  <2>2. CASE l \in Seen
    <3>1. TreeInv' /\ l \in DOMAIN result' /\ id \in DOMAIN result'
      BY <1>1, <2>2, ReturnTree
    <3>2. Count(l, id)' \in IF result'[id].parent_id = l THEN Reports' ELSE {0}
      BY <3>1 DEF TreeInv, ChildrenOK
    <3>3. result'[id].parent_id = ParentOf(id)
      BY ParsedNodes
    <3>4. l = PlaceOf(id) <=> ParentOf(id) = l
      BY <1>3, <2>2 DEF PlaceOf
    <3>5. Reports' = Copies(l)
      BY <1>1, <1>3, <2>2 DEF Reports, Copies
    <3>6. Count(l, id)' = Cardinality(Occurrences(ListOf(l)', id))
      BY <1>4, <2>2 DEF Count
    <3>. QED BY <3>2, <3>3, <3>4, <3>5, <3>6
  <2>. QED BY <2>1, <2>2 DEF Lists
<1>6. ASSUME NEW l \in Lists
      PROVE  \A i, j \in DOMAIN ListOf(l)' : i < j =>
               result'[ListOf(l)'[i]].started.value <= result'[ListOf(l)'[j]].started.value
  <2>1. CASE l = None
    BY <1>4, <2>1, ReturnedTop
  <2>2. CASE l \in Seen
    BY <1>4, <2>2, ReturnedChildren
  <2>. QED BY <2>1, <2>2 DEF Lists
<1>7. TreeHoldsEachNode'
  BY <1>2, <1>5 DEF TreeHoldsEachNode, Occurrences
<1>8. SiblingsInOrder'
  BY <1>2, <1>6 DEF SiblingsInOrder, StartOf
<1>. QED BY <1>7, <1>8

LEMMA SameReport ==
  ASSUME TimesInv, TreeInv, [Next]_vars, TreeHoldsEachNode, SiblingsInOrder
  PROVE  TreeHoldsEachNode' /\ SiblingsInOrder'
<1>1. CASE Return
  BY <1>1, ReturnTreeHolds
<1>2. CASE ~Returned'
  BY <1>2 DEF TreeHoldsEachNode, SiblingsInOrder
<1>3. CASE UNCHANGED <<delivered, result, report, reads, phase>>
  <2>1. /\ delivered' = delivered /\ result' = result /\ report' = report /\ reads' = reads
        /\ Returned' = Returned
    BY <1>3 DEF Returned
  <2>2. /\ Seen' = Seen /\ Lists' = Lists
        /\ \A id : /\ PlaceOf(id)' = PlaceOf(id)
                   /\ ListOf(id)' = ListOf(id) /\ Copies(id)' = Copies(id)
    BY <2>1, SameReading DEF Lists, PlaceOf, Copies, ListOf
  <2>3. TreeHoldsEachNode'
    BY <2>1, <2>2 DEF TreeHoldsEachNode, Occurrences
  <2>4. SiblingsInOrder'
    BY <2>1, <2>2 DEF SiblingsInOrder, StartOf
  <2>. QED BY <2>3, <2>4
<1>. QED BY <1>1, <1>2, <1>3, ReturningOrNot

(* What both say of the reports that are returned: each point in its place *)
(* and siblings in the order of their start times.                         *)
THEOREM TreeInReport == Spec => [](TreeHoldsEachNode /\ SiblingsInOrder)
<1>1. Init => TreeHoldsEachNode /\ SiblingsInOrder
  BY DEF Init, TreeHoldsEachNode, SiblingsInOrder, Returned
<1>. QED BY TreeInvariant, <1>1, SameReport, PTL DEF Spec

(* Every point that was read is in the tree of the report below its        *)
(* parent, or at the top, and nowhere else: build_tree() loses no node and *)
(* doubles none, whatever order, duplicates and losses they came with.     *)
THEOREM EveryNodeHasItsPlace == Spec => []TreeHoldsEachNode
BY TreeInReport, PTL

(* The children of a node are listed in the order of the milliseconds at   *)
(* which they are shown to start.                                          *)
THEOREM ChildrenInOrder == Spec => []SiblingsInOrder
BY TreeInReport, PTL
=============================================================================
