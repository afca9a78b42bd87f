---------------------------- MODULE DriverProofs ----------------------------
(***************************************************************************)
(* Theorems about the drivers that keep what services notify: first about  *)
(* Stores, for any services, notifications, old schema and size of pages,  *)
(* then about LogInsight, for any number of threads, of sessions that      *)
(* expire and of requests that fail.                                       *)
(***************************************************************************)
EXTENDS Stores, LogInsight, FiniteSetTheorems, TLAPS

(* The shape of the variables; a tool is answered, and asks no driver for  *)
(* what it does not override.                                              *)
Filed == [Traces -> Seq(Events)]
StoreShape ==
  /\ driver \in AllDrivers
  /\ data \in Filed /\ marks \in Filed /\ snapshot \in Filed
  /\ unsent \in [Services -> Seq(Events)]
  /\ marking \subseteq Services
  /\ read \subseteq Traces
  /\ hits \in Seq(Events) /\ result \in Seq(Events)
  /\ phase \in {"idle", "reading", "done"}
  /\ phase # "idle" => op \in Overridden /\ asked \in Traces

(* A row is filed under its trace, and is in the data once.                *)
UnderItsTrace(f) == \A k \in Traces : \A e \in Range(f[k]) : e.base_id = k
EachOnce(f) == \A k \in Traces : IsInjective(f[k])
Filing ==
  /\ UnderItsTrace(data) /\ UnderItsTrace(marks) /\ UnderItsTrace(snapshot)
  /\ EachOnce(data)
  /\ op # "errors" => EachOnce(snapshot)
  /\ IsFiniteSet(RowsIn(data)) /\ IsFiniteSet(RowsIn(snapshot))

(* What a service has yet to send is not stored, but for the notification  *)
(* of an error between its two writes.                                     *)
Unsent(s) ==
  /\ IsInjective(unsent[s])
  /\ Range(unsent[s]) \subseteq Range(Sent[s])
  /\ \A i \in DOMAIN unsent[s] : unsent[s][i] \in RowsIn(data) => i = 1 /\ s \in marking
InBetween(s) == /\ unsent[s] # << >>
                /\ unsent[s][1] \in RowsIn(data)
                /\ MarksErrors(unsent[s][1])
Writers ==
  /\ \A s \in Services : Unsent(s)
  /\ \A s \in marking : InBetween(s)
  /\ RowsIn(data) \subseteq UNION {Range(Sent[s]) : s \in Services}

(* ErrorsMarked, but for the answer.                                       *)
Marking ==
  /\ \A e \in RowsIn(data) : MarksErrors(e) =>
       e.base_id \in KeysOf(marks) \/ e \in Pending \cup unmarked
  /\ RowsIn(marks) \subseteq {e \in RowsIn(data) : MarksErrors(e)}
  /\ driver # "elasticsearch" => \A k \in Traces : Len(marks[k]) <= 1

(* Nothing is lost of what was there when the tool called.                 *)
Snapshots ==
  op \in {"traces", "report"} => \A k \in Traces :
    Len(snapshot[k]) <= Len(data[k]) /\ Range(snapshot[k]) \subseteq Range(data[k])

(* A listing by key, as far as it has come: of each schema one row of a    *)
(* trace, of the old one the earliest.                                     *)
IsOld(i) == result[i] \in OldSchema
RowsAreOfTheirSchema ==
  \A i \in DOMAIN result : ~ IsOld(i) => result[i].base_id \in read
OneRowOfASchema ==
  \A i, j \in DOMAIN result :
    result[i].base_id = result[j].base_id /\ (IsOld(i) <=> IsOld(j)) => i = j
OldTracesListed ==
  \A k \in OldKeys : \E i \in DOMAIN result : result[i] = Earliest(OldRows(k))
EarliestListed(k) ==
  \E i \in DOMAIN result : /\ result[i].base_id = k
                           /\ \A e \in Range(snapshot[k]) : result[i].timestamp <= e.timestamp
NewTracesListed ==
  \A k \in read : /\ driver = "mongodb" => EarliestListed(k)
                  /\ driver = "redis" /\ Len(snapshot[k]) >= 2 => RowsOf(k) # {}
ListsByKey == phase # "idle" /\ op = "traces" /\ driver \in {"redis", "mongodb"}
Listing ==
  ListsByKey =>
    /\ read \subseteq KeysOf(data)
    /\ RowsAreOfTheirSchema
    /\ OneRowOfASchema
    /\ OldTracesListed
    /\ NewTracesListed
    /\ phase = "done" => KeysOf(snapshot) \subseteq read

(* Elasticsearch: the pages read are the beginning of the hits.            *)
RightHits == hits \in IF op = "report" THEN SetToSeqs(Range(snapshot[asked]))
                      ELSE InTimeOrder(RowsIn(snapshot))
Paging ==
  phase # "idle" /\ ByPage =>
    /\ RightHits
    /\ Len(result) <= Len(hits)
    /\ \A i \in DOMAIN result : result[i] = hits[i]
    /\ phase = "done" => Len(result) = Len(hits)

(* The answer to one query; and the marks of redis, which are sorted.      *)
Answering == phase = "done" /\ ~ ByKey /\ ~ ByPage => result \in Answers
MarksSorted == Done("errors") /\ ByKey => Sorted(result)

StoreInv == /\ StoreShape /\ Filing /\ Writers /\ Marking
            /\ Snapshots /\ Listing /\ Paging /\ Answering /\ MarksSorted

-----------------------------------------------------------------------------
(* Sequences, and the sets they are made from.                             *)

LEMMA AppendRange ==
  ASSUME NEW S, NEW q \in Seq(S), NEW e \in S
  PROVE  /\ Append(q, e) \in Seq(S)
         /\ Append(q, e) # << >>
         /\ Len(Append(q, e)) = Len(q) + 1
         /\ Range(Append(q, e)) = Range(q) \cup {e}
         /\ IsInjective(q) /\ e \notin Range(q) => IsInjective(Append(q, e))
<1>. DEFINE r == Append(q, e)
<1>1. /\ r \in Seq(S) /\ Len(r) = Len(q) + 1 /\ Len(q) \in Nat
      /\ DOMAIN q = 1 .. Len(q) /\ DOMAIN r = 1 .. Len(q) + 1
      /\ \A i \in 1 .. Len(q) : r[i] = q[i]
      /\ r[Len(q) + 1] = e
  OBVIOUS
<1>. HIDE DEF r
<1>2. r # << >>
  BY <1>1
<1>3. Range(r) = Range(q) \cup {e}
  <2>1. Len(q) + 1 \in DOMAIN r /\ \A i \in DOMAIN q : i \in DOMAIN r
    BY <1>1
  <2>2. \A i \in DOMAIN r : i \in DOMAIN q \/ i = Len(q) + 1
    BY <1>1
  <2>. QED BY <1>1, <2>1, <2>2 DEF Range
<1>4. ASSUME IsInjective(q), e \notin Range(q) PROVE IsInjective(r)
  BY <1>1, <1>4 DEF IsInjective, Range
<1>. QED BY <1>1, <1>2, <1>3, <1>4 DEF r

LEMMA TailRange ==
  ASSUME NEW S, NEW q \in Seq(S), q # << >>
  PROVE  /\ Tail(q) \in Seq(S) /\ Head(q) = q[1] /\ q[1] \in S
         /\ 1 \in DOMAIN q /\ q[1] \in Range(q)
         /\ Range(Tail(q)) \subseteq Range(q)
         /\ \A i \in DOMAIN Tail(q) : i + 1 \in DOMAIN q /\ Tail(q)[i] = q[i + 1] /\ i + 1 # 1
         /\ IsInjective(q) => IsInjective(Tail(q))
<1>1. /\ Tail(q) \in Seq(S) /\ Head(q) = q[1] /\ Len(q) \in Nat /\ Len(q) > 0
      /\ Len(Tail(q)) = Len(q) - 1
      /\ \A i \in 1 .. Len(q) - 1 : Tail(q)[i] = q[i + 1]
      /\ DOMAIN q = 1 .. Len(q) /\ DOMAIN Tail(q) = 1 .. Len(q) - 1
  OBVIOUS
<1>2. 1 \in DOMAIN q /\ q[1] \in S /\ q[1] \in Range(q)
  BY <1>1 DEF Range
<1>3. \A i \in DOMAIN Tail(q) : i + 1 \in DOMAIN q /\ Tail(q)[i] = q[i + 1] /\ i + 1 # 1
  BY <1>1
<1>4. Range(Tail(q)) \subseteq Range(q)
  BY <1>3 DEF Range
<1>5. IsInjective(q) => IsInjective(Tail(q))
  BY <1>1, <1>3 DEF IsInjective
<1>. QED BY <1>1, <1>2, <1>3, <1>4, <1>5

LEMMA SeqOfSet ==
  ASSUME NEW S, IsFiniteSet(S), NEW q \in SetToSeqs(S)
  PROVE  q \in Seq(S) /\ IsInjective(q) /\ Range(q) = S
<1>. DEFINE D == 1 .. Cardinality(S)
<1>1. Cardinality(S) \in Nat
  BY FS_CardinalityType
<1>2. q \in [D -> S] /\ \A i, j \in D : i # j => q[i] # q[j]
  BY DEF SetToSeqs
<1>3. q \in Seq(S) /\ IsInjective(q)
  BY <1>1, <1>2 DEF IsInjective
<1>4. q \in Injection(D, S)
  BY <1>2, <1>3 DEF Injection
<1>5. Cardinality(D) = Cardinality(S)
  BY <1>1, FS_Interval
<1>. HIDE DEF D
<1>6. q \in Surjection(D, S)
  BY <1>4, <1>5, FS_Injection
<1>7. Range(q) = S
  BY <1>6, <1>2 DEF Surjection, Range
<1>. QED BY <1>3, <1>7

LEMMA OrderOfSet ==
  ASSUME NEW S, IsFiniteSet(S), NEW q \in InTimeOrder(S)
  PROVE  q \in Seq(S) /\ IsInjective(q) /\ Range(q) = S /\ Sorted(q) /\ q \in SetToSeqs(S)
BY SeqOfSet DEF InTimeOrder

LEMMA SeqOfNothing == ASSUME NEW q \in SetToSeqs({}) PROVE q = << >>
<1>1. q \in Seq({})
  BY SeqOfSet, FS_EmptySet
<1>. QED BY <1>1

LEMMA SeqOfPart ==
  ASSUME NEW S, NEW T, T \subseteq S, NEW q \in Seq(T)
  PROVE  q \in Seq(S)
OBVIOUS

LEMMA LeastNatural ==
  ASSUME NEW S \in SUBSET Nat, S # {}
  PROVE  \E i \in S : \A j \in S : i <= j
<1>. DEFINE R == OpToRel(<, Nat)
<1>1. IsWellFoundedOn(R, Nat)
  BY NatLessThanWellFounded, Zenon
<1>2. \A i, j \in Nat : <<i, j>> \in R <=> i < j
  BY DEF OpToRel
<1>. HIDE DEF R
<1>3. PICK i \in S : \A j \in S : ~ (<<j, i>> \in R)
  BY <1>1, WFMin
<1>4. ASSUME NEW j \in S PROVE i <= j
  <2>1. i \in Nat /\ j \in Nat /\ ~ (<<j, i>> \in R)
    BY <1>3
  <2>2. ~ (j < i)
    BY <1>2, <2>1
  <2>. QED BY <2>1, <2>2
<1>. QED BY <1>4

(* Earliest() picks a notification that is no later than any of the others.*)
LEMMA EarliestOf ==
  ASSUME NEW S \in SUBSET Events, S # {}
  PROVE  Earliest(S) \in S /\ \A f \in S : Earliest(S).timestamp <= f.timestamp
<1>. DEFINE Times == {e.timestamp : e \in S}
<1>1. Times \in SUBSET Nat /\ Times # {}
  BY EventsAssumption
<1>2. PICK i \in Times : \A j \in Times : i <= j
  BY <1>1, LeastNatural
<1>3. \E e \in S : \A f \in S : e.timestamp <= f.timestamp
  BY <1>2
<1>. QED BY <1>3 DEF Earliest

LEMMA EventIsFiled == ASSUME NEW e \in Events PROVE e.base_id \in Traces
BY DEF Traces

LEMMA RangeOfRow ==
  ASSUME NEW f \in Filed, NEW k \in Traces
  PROVE  /\ f[k] \in Seq(Events) /\ Range(f[k]) \subseteq Events
         /\ Range(f[k]) \subseteq RowsIn(f)
         /\ Range(f[k]) # {} <=> f[k] # << >>
         /\ Range(f[k]) # {} <=> Len(f[k]) > 0
         /\ Len(f[k]) \in Nat
<1>1. f[k] \in Seq(Events)
  BY DEF Filed
<1>2. /\ f[k] # << >> <=> Len(f[k]) > 0
      /\ Len(f[k]) \in Nat /\ DOMAIN f[k] = 1 .. Len(f[k])
      /\ \A i \in DOMAIN f[k] : f[k][i] \in Events
  BY <1>1
<1>3. Range(f[k]) \subseteq Events
  BY <1>2 DEF Range
<1>4. Range(f[k]) # {} <=> Len(f[k]) > 0
  <2>1. Range(f[k]) # {} <=> DOMAIN f[k] # {}
    BY DEF Range
  <2>2. DOMAIN f[k] # {} <=> Len(f[k]) > 0
    BY <1>2
  <2>. QED BY <2>1, <2>2
<1>5. Range(f[k]) \subseteq RowsIn(f)
  BY DEF RowsIn
<1>. QED BY <1>1, <1>2, <1>3, <1>4, <1>5

LEMMA RowsAreEvents == ASSUME NEW f \in Filed PROVE RowsIn(f) \subseteq Events
BY RangeOfRow DEF RowsIn

(* What filing one more row changes.                                       *)
Refiled(f, g, e, q) == g = [f EXCEPT ![e.base_id] = q]

LEMMA OneMoreRow ==
  ASSUME NEW f \in Filed, NEW e \in Events, NEW q \in Seq(Events), NEW g,
         Refiled(f, g, e, q)
  PROVE  /\ g \in Filed /\ g[e.base_id] = q
         /\ \A k \in Traces : k # e.base_id => g[k] = f[k]
         /\ Range(q) = Range(f[e.base_id]) \cup {e} => RowsIn(g) = RowsIn(f) \cup {e}
         /\ Range(q) = {e} => RowsIn(g) \subseteq RowsIn(f) \cup {e}
         /\ UnderItsTrace(f) /\ Range(q) \subseteq Range(f[e.base_id]) \cup {e} =>
              UnderItsTrace(g)
<1>0. e.base_id \in Traces
  BY EventIsFiled
<1>1. /\ g \in Filed /\ g[e.base_id] = q
      /\ \A k \in Traces : k # e.base_id => g[k] = f[k]
  BY <1>0 DEF Filed, Refiled
<1>. DEFINE b == e.base_id
<1>. HIDE DEF b
<1>2. b \in Traces /\ g[b] = q /\ \A k \in Traces : k # b => g[k] = f[k]
  BY <1>0, <1>1 DEF b
<1>3. ASSUME Range(q) = Range(f[b]) \cup {e} PROVE RowsIn(g) = RowsIn(f) \cup {e}
  <2>1. ASSUME NEW x PROVE x \in RowsIn(g) <=> x \in RowsIn(f) \cup {e}
    BY <1>2, <1>3 DEF RowsIn
  <2>. QED BY <2>1
<1>4. ASSUME Range(q) = {e} PROVE RowsIn(g) \subseteq RowsIn(f) \cup {e}
  BY <1>2, <1>4 DEF RowsIn
<1>5. ASSUME UnderItsTrace(f), Range(q) \subseteq Range(f[b]) \cup {e} PROVE UnderItsTrace(g)
  BY <1>2, <1>5 DEF UnderItsTrace, b
<1>. QED BY <1>1, <1>3, <1>4, <1>5 DEF b

-----------------------------------------------------------------------------
(* The services.                                                           *)

LEMMA StoreStart == ASSUME StoreInit PROVE StoreInv
<1>. USE DEF StoreInit
<1>1. Empty \in Filed /\ \A k \in Traces : Empty[k] = << >> /\ Range(Empty[k]) = {}
  <2>1. Range(<< >>) = {}
    BY DEF Range
  <2>. QED BY <2>1 DEF Empty, Filed
<1>2. RowsIn(Empty) = {}
  BY <1>1 DEF RowsIn
<1>3. StoreShape
  BY <1>1, DriversAssumption, EventsAssumption DEF StoreShape
<1>4. Filing
  <2>1. EachOnce(Empty)
    BY <1>1 DEF EachOnce, IsInjective
  <2>2. UnderItsTrace(Empty)
    BY <1>1 DEF UnderItsTrace
  <2>. QED BY <1>2, <2>1, <2>2, FS_EmptySet DEF Filing
<1>5. Writers
  BY <1>2, DistinctAssumption DEF Writers, Unsent
<1>6. Marking
  <2>1. \A k \in Traces : Len(marks[k]) <= 1
    BY <1>1
  <2>. QED BY <1>2, <2>1 DEF Marking
<1>. QED BY <1>3, <1>4, <1>5, <1>6
         DEF StoreInv, Snapshots, Listing, ListsByKey, Paging, Answering, MarksSorted, Done

(* The data only grows, so what a tool has read stays right.               *)
DataGrows == \A k \in Traces : Len(data[k]) <= Len(data'[k]) /\ Range(data[k]) \subseteq Range(data'[k])

LEMMA ToolUndisturbed ==
  ASSUME StoreInv, ToolWaits, data' \in Filed, DataGrows
  PROVE  Snapshots' /\ Listing' /\ Paging' /\ Answering' /\ MarksSorted'
<1>. USE DEF ToolWaits, reading
<1>1. Snapshots'
  <2>1. \A k \in Traces : Len(snapshot[k]) \in Nat /\ Len(data[k]) \in Nat /\ Len(data'[k]) \in Nat
    BY RangeOfRow DEF StoreInv, StoreShape
  <2>. SUFFICES ASSUME op \in {"traces", "report"}, NEW k \in Traces
                PROVE  Len(snapshot[k]) <= Len(data'[k]) /\ Range(snapshot[k]) \subseteq Range(data'[k])
    BY DEF Snapshots
  <2>2. Len(snapshot[k]) <= Len(data[k]) /\ Range(snapshot[k]) \subseteq Range(data[k])
    BY DEF StoreInv, Snapshots
  <2>3. Len(data[k]) <= Len(data'[k]) /\ Range(data[k]) \subseteq Range(data'[k])
    BY DEF DataGrows
  <2>. QED BY <2>1, <2>2, <2>3
<1>2. KeysOf(data) \subseteq KeysOf(data')
  <2>1. \A k \in Traces : /\ data[k] # << >> => Range(data[k]) # {}
                          /\ Range(data'[k]) # {} => data'[k] # << >>
    BY RangeOfRow DEF StoreInv, StoreShape
  <2>. QED BY <2>1 DEF KeysOf, DataGrows
<1>3. Listing'
  <2>1. Listing
    BY DEF StoreInv
  <2>. QED BY <1>2, <2>1
           DEF Listing, ListsByKey, RowsAreOfTheirSchema, OneRowOfASchema, OldTracesListed,
               NewTracesListed, EarliestListed, IsOld, OldSchema, OldRows, OldKeys, RowsOf, KeysOf
<1>4. Paging'
  BY DEF StoreInv, Paging, ByPage, RightHits
<1>5. Answering' /\ MarksSorted'
  <2>1. Answers' = Answers
    BY DEF Answers, ReportRows, TraceRows, OldRows, OldSchema
  <2>. QED BY <2>1 DEF StoreInv, Answering, MarksSorted, ByKey, ByPage, Done
<1>. QED BY <1>1, <1>3, <1>4, <1>5

LEMMA OwnNotifications ==
  ASSUME NEW s \in Services, NEW t \in Services, NEW e,
         e \in Range(Sent[s]), e \in Range(Sent[t])
  PROVE  s = t
BY DistinctAssumption

LEMMA Advanced ==
  ASSUME StoreShape, NEW s \in Services, unsent[s] # << >>, Advance(s),
         \A t \in Services : Unsent(t),
         RowsIn(data') \subseteq RowsIn(data) \cup {unsent[s][1]},
         marking' = marking \ {s}
  PROVE  /\ unsent' \in [Services -> Seq(Events)]
         /\ \A t \in Services : Unsent(t)'
         /\ \A t \in Services : t # s => unsent'[t] = unsent[t]
<1>1. \A t \in Services : unsent[t] \in Seq(Events)
  BY DEF StoreShape
<1>2. /\ unsent' \in [Services -> Seq(Events)]
      /\ unsent'[s] = Tail(unsent[s])
      /\ \A t \in Services : t # s => unsent'[t] = unsent[t]
  BY <1>1, TailRange DEF StoreShape, Advance
<1>3. Unsent(s)'
  <2>. DEFINE q == unsent[s]
  <2>1. /\ Range(Tail(q)) \subseteq Range(q)
        /\ \A i \in DOMAIN Tail(q) : i + 1 \in DOMAIN q /\ Tail(q)[i] = q[i + 1] /\ i + 1 # 1
        /\ IsInjective(q) => IsInjective(Tail(q))
        /\ 1 \in DOMAIN q
    BY <1>1, TailRange
  <2>2. /\ IsInjective(q) /\ Range(q) \subseteq Range(Sent[s])
        /\ \A i \in DOMAIN q : q[i] \in RowsIn(data) => i = 1
    BY DEF Unsent
  <2>3. \A i \in DOMAIN Tail(q) : Tail(q)[i] \notin RowsIn(data')
    <3>. SUFFICES ASSUME NEW i \in DOMAIN Tail(q), Tail(q)[i] \in RowsIn(data') PROVE FALSE
      OBVIOUS
    <3>. HIDE DEF q
    <3>1. i + 1 \in DOMAIN q /\ Tail(q)[i] = q[i + 1] /\ i + 1 # 1
      BY <2>1
    <3>2. q[i + 1] \in RowsIn(data) \/ q[i + 1] = q[1]
      BY <3>1 DEF q
    <3>. QED BY <2>1, <2>2, <3>1, <3>2 DEF IsInjective
  <2>. QED BY <1>2, <2>1, <2>2, <2>3 DEF Unsent
<1>4. ASSUME NEW t \in Services, t # s PROVE Unsent(t)'
  <2>1. unsent[s][1] \in Range(Sent[s])
    BY <1>1, TailRange DEF Unsent
  <2>2. \A i \in DOMAIN unsent[t] : unsent[t][i] \in Range(Sent[t])
    BY DEF Unsent, Range
  <2>3. \A i \in DOMAIN unsent[t] : unsent[t][i] # unsent[s][1]
    BY <2>1, <2>2, <1>4, OwnNotifications
  <2>4. Unsent(t) /\ unsent'[t] = unsent[t] /\ (t \in marking => t \in marking')
    BY <1>2, <1>4
  <2>. QED BY <2>3, <2>4 DEF Unsent
<1>. QED BY <1>2, <1>3, <1>4

(* The invariants that writers disturb.                                    *)
Written == StoreShape /\ Filing /\ Writers /\ Marking

LEMMA NotifyKeeps ==
  ASSUME StoreInv, NEW s \in Services, Notify(s)
  PROVE  Written' /\ data' \in Filed /\ DataGrows
<1>. DEFINE e == unsent[s][1]
            b == e.base_id
            q == Append(data[b], e)
<1>0. StoreShape /\ Filing /\ Writers /\ Marking
  BY DEF StoreInv
<1>1. /\ unsent[s] \in Seq(Events) /\ unsent[s] # << >> /\ s \notin marking
      /\ Head(unsent[s]) = e /\ e \in Events /\ b \in Traces /\ 1 \in DOMAIN unsent[s]
      /\ e \in Range(unsent[s])
  BY <1>0, TailRange, EventIsFiled DEF Notify, MayNotify, StoreShape
<1>2. /\ data' = [data EXCEPT ![b] = q]
      /\ marks' = marks /\ unmarked' = unmarked /\ ToolWaits
      /\ IF MarksErrors(e) THEN marking' = marking \cup {s} /\ unsent' = unsent
                           ELSE Advance(s) /\ marking' = marking
  BY <1>1 DEF Notify
<1>3. /\ e \notin RowsIn(data) /\ e \in Range(Sent[s])
      /\ \A t \in Services : Unsent(t)
  BY <1>0, <1>1 DEF Writers, Unsent
<1>4. data \in Filed /\ data[b] \in Seq(Events) /\ Range(data[b]) \subseteq RowsIn(data)
      /\ Len(data[b]) \in Nat
  BY <1>0, <1>1, RangeOfRow DEF StoreShape
<1>5. /\ q \in Seq(Events) /\ q # << >> /\ Len(q) = Len(data[b]) + 1
      /\ Range(q) = Range(data[b]) \cup {e}
      /\ IsInjective(data[b]) => IsInjective(q)
  BY <1>1, <1>3, <1>4, AppendRange
<1>. HIDE DEF q
<1>6. /\ data' \in Filed /\ data'[b] = q
      /\ \A k \in Traces : k # b => data'[k] = data[k]
      /\ RowsIn(data') = RowsIn(data) \cup {e}
      /\ UnderItsTrace(data) => UnderItsTrace(data')
  <2>. HIDE DEF e
  <2>1. b = e.base_id
    OBVIOUS
  <2>. HIDE DEF b
  <2>2. /\ e \in Events /\ data \in Filed /\ q \in Seq(Events)
        /\ Range(q) = Range(data[e.base_id]) \cup {e}
    BY <1>1, <1>4, <1>5, <2>1
  <2>3. Refiled(data, data', e, q)
    BY <1>2, <2>1 DEF Refiled
  <2>4. /\ data' \in Filed /\ data'[e.base_id] = q
        /\ \A k \in Traces : k # e.base_id => data'[k] = data[k]
        /\ RowsIn(data') = RowsIn(data) \cup {e}
        /\ UnderItsTrace(data) => UnderItsTrace(data')
    BY <2>2, <2>3, OneMoreRow
  <2>. QED BY <2>1, <2>4
<1>. HIDE DEF b
<1>7. DataGrows
  <2>1. \A k \in Traces : Len(data[k]) \in Nat
    BY <1>4, RangeOfRow
  <2>. QED BY <1>4, <1>5, <1>6, <2>1 DEF DataGrows
<1>8. /\ unsent' \in [Services -> Seq(Events)]
      /\ \A t \in Services : Unsent(t)'
      /\ \A t \in Services : t # s => unsent'[t] = unsent[t]
  <2>1. CASE MarksErrors(e)
    <3>1. unsent' = unsent /\ marking' = marking \cup {s}
      BY <1>2, <2>1
    <3>2. ASSUME NEW t \in Services PROVE Unsent(t)'
      <4>1. Unsent(t)
        BY <1>3
      <4>2. ASSUME NEW i \in DOMAIN unsent[t], unsent[t][i] = e PROVE i = 1 /\ t = s
        <5>1. t = s
          BY <1>3, <4>1, <4>2, OwnNotifications DEF Unsent, Range
        <5>. QED BY <1>1, <4>1, <4>2, <5>1 DEF Unsent, IsInjective
      <4>. HIDE DEF e
      <4>. QED BY <1>6, <3>1, <4>1, <4>2 DEF Unsent
    <3>. QED BY <1>0, <3>1, <3>2 DEF StoreShape
  <2>2. CASE ~ MarksErrors(e)
    <3>1. Advance(s) /\ marking' = marking \ {s}
      BY <1>1, <1>2, <2>2
    <3>. QED BY <1>0, <1>1, <1>3, <1>6, <3>1, Advanced
  <2>. QED BY <2>1, <2>2
<1>9. \A x : MarksErrors(x)' <=> MarksErrors(x)
  BY <1>2 DEF MarksErrors, ToolWaits
<1>10. StoreShape'
  BY <1>0, <1>2, <1>6, <1>8 DEF StoreShape, ToolWaits, reading, Overridden
<1>11. Filing'
  <2>1. EachOnce(data')
    BY <1>0, <1>4, <1>5, <1>6 DEF Filing, EachOnce
  <2>2. IsFiniteSet(RowsIn(data'))
    <3>1. IsFiniteSet(RowsIn(data)) /\ RowsIn(data') = RowsIn(data) \cup {e}
      BY <1>0, <1>6 DEF Filing
    <3>. HIDE DEF e
    <3>. QED BY <3>1, FS_AddElement
  <2>. QED BY <1>0, <1>2, <1>6, <2>1, <2>2 DEF Filing, ToolWaits, reading
<1>. HIDE DEF e
<1>12. \A t \in marking : unsent'[t] = unsent[t]
  BY <1>0, <1>1, <1>8 DEF StoreShape
<1>13. marking \subseteq marking' /\ \A t \in marking' : t \in marking \/ (t = s /\ unsent'[s] = unsent[s] /\ MarksErrors(e))
  BY <1>2
<1>14. Writers'
  <2>1. \A t \in marking' : InBetween(t)'
    <3>. SUFFICES ASSUME NEW t \in marking' PROVE InBetween(t)'
      OBVIOUS
    <3>1. CASE t \in marking
      BY <1>0, <1>6, <1>9, <1>12, <3>1 DEF Writers, InBetween
    <3>2. CASE t = s /\ unsent'[s] = unsent[s] /\ MarksErrors(e)
      BY <1>1, <1>6, <1>9, <3>2 DEF InBetween, e
    <3>. QED BY <1>13, <3>1, <3>2
  <2>. QED BY <1>0, <1>3, <1>6, <1>8, <2>1 DEF Writers
<1>15. Marking'
  <2>1. Pending \subseteq Pending'
    BY <1>12, <1>13 DEF Pending
  <2>2. MarksErrors(e) => e \in Pending'
    BY <1>1, <1>2 DEF Pending
  <2>3. \A x \in RowsIn(data)' : MarksErrors(x)' =>
          x.base_id \in KeysOf(marks)' \/ x \in (Pending \cup unmarked)'
    BY <1>0, <1>2, <1>6, <1>9, <2>1, <2>2 DEF Marking, KeysOf
  <2>4. RowsIn(marks)' \subseteq {x \in RowsIn(data) : MarksErrors(x)}'
    BY <1>0, <1>2, <1>6, <1>9 DEF Marking
  <2>. QED BY <1>0, <1>2, <2>3, <2>4 DEF Marking, ToolWaits
<1>. QED BY <1>6, <1>7, <1>10, <1>11, <1>14, <1>15 DEF Written

(* The steps that leave the data alone: a first write that fails, and the  *)
(* end of a second write.                                                  *)
LEMMA DataKept ==
  ASSUME StoreInv, UNCHANGED data
  PROVE  data' \in Filed /\ DataGrows
<1>1. \A k \in Traces : Len(data[k]) \in Nat
  BY RangeOfRow DEF StoreInv, StoreShape
<1>. QED BY <1>1 DEF StoreInv, StoreShape, DataGrows

LEMMA QueueKeeps ==
  ASSUME StoreInv, NEW s \in Services, unsent[s] # << >>, Advance(s),
         UNCHANGED data, marking' = marking \ {s}, ToolWaits
  PROVE  /\ Writers'
         /\ unsent' \in [Services -> Seq(Events)] /\ marking' \subseteq Services
         /\ \A t \in marking : t # s => unsent'[t] = unsent[t]
<1>0. StoreShape /\ Writers
  BY DEF StoreInv
<1>1. /\ unsent' \in [Services -> Seq(Events)]
      /\ \A t \in Services : Unsent(t)'
      /\ \A t \in Services : t # s => unsent'[t] = unsent[t]
  BY <1>0, Advanced DEF Writers
<1>2. \A t \in marking : t # s => unsent'[t] = unsent[t]
  BY <1>0, <1>1 DEF StoreShape
<1>3. \A t \in marking' : InBetween(t)'
  <2>. SUFFICES ASSUME NEW t \in marking' PROVE InBetween(t)'
    OBVIOUS
  <2>1. t \in marking /\ InBetween(t) /\ unsent'[t] = unsent[t]
    BY <1>0, <1>2 DEF Writers
  <2>. QED BY <2>1 DEF InBetween, MarksErrors, ToolWaits
<1>. QED BY <1>0, <1>1, <1>2, <1>3 DEF Writers, StoreShape

LEMMA NotifyFailsKeeps ==
  ASSUME StoreInv, NEW s \in Services, NotifyFails(s)
  PROVE  Written'
<1>0. /\ unsent[s] # << >> /\ Advance(s) /\ UNCHANGED <<data, marks, unmarked>>
      /\ marking' = marking /\ marking' = marking \ {s} /\ s \notin marking /\ ToolWaits
  BY DEF NotifyFails, MayNotify
<1>1. /\ Writers'
      /\ unsent' \in [Services -> Seq(Events)] /\ marking' \subseteq Services
      /\ \A t \in marking : t # s => unsent'[t] = unsent[t]
  BY <1>0, QueueKeeps
<1>2. StoreShape'
  BY <1>0, <1>1 DEF StoreInv, StoreShape, ToolWaits, reading, Overridden
<1>3. Filing'
  BY <1>0 DEF StoreInv, Filing, ToolWaits, reading
<1>4. Pending' = Pending
  BY <1>0, <1>1 DEF Pending
<1>5. Marking'
  BY <1>0, <1>4 DEF StoreInv, Marking, MarksErrors, ToolWaits, KeysOf
<1>. QED BY <1>1, <1>2, <1>3, <1>5 DEF Written

LEMMA SecondWrite ==
  ASSUME StoreInv, NEW s \in marking
  PROVE  /\ s \in Services /\ unsent[s] # << >> /\ Head(unsent[s]) = unsent[s][1]
         /\ unsent[s][1] \in Events /\ unsent[s][1].base_id \in Traces
         /\ unsent[s][1] \in RowsIn(data) /\ MarksErrors(unsent[s][1])
<1>1. s \in Services /\ unsent[s] \in Seq(Events) /\ InBetween(s)
  BY DEF StoreInv, StoreShape, Writers
<1>. QED BY <1>1, TailRange, EventIsFiled DEF InBetween

LEMMA NotifyErrorTraceKeeps ==
  ASSUME StoreInv, NEW s \in Services, NotifyErrorTrace(s)
  PROVE  Written'
<1>. DEFINE e == unsent[s][1]
<1>0. /\ Advance(s) /\ UNCHANGED <<data, unmarked>> /\ s \in marking
      /\ marking' = marking \ {s} /\ ToolWaits
      /\ marks' = [marks EXCEPT ![Head(unsent[s]).base_id] = Marked(Head(unsent[s]))]
  BY DEF NotifyErrorTrace
<1>1. /\ unsent[s] # << >> /\ Head(unsent[s]) = e
      /\ e \in Events /\ e.base_id \in Traces /\ e \in RowsIn(data) /\ MarksErrors(e)
  BY <1>0, SecondWrite
<1>2. /\ Writers'
      /\ unsent' \in [Services -> Seq(Events)] /\ marking' \subseteq Services
      /\ \A t \in marking : t # s => unsent'[t] = unsent[t]
  BY <1>0, <1>1, QueueKeeps
<1>3. Refiled(marks, marks', e, Marked(e))
  BY <1>0, <1>1 DEF Refiled
<1>. HIDE DEF e
<1>4. marks \in Filed /\ marks[e.base_id] \in Seq(Events)
  BY <1>1, RangeOfRow DEF StoreInv, StoreShape
<1>5. /\ Marked(e) \in Seq(Events) /\ Marked(e) # << >>
      /\ driver # "elasticsearch" => Len(Marked(e)) = 1
      /\ \/ Range(Marked(e)) = Range(marks[e.base_id]) \cup {e}
         \/ Range(Marked(e)) = {e}
  <2>1. CASE driver = "elasticsearch"
    BY <1>1, <1>4, <2>1, AppendRange DEF Marked
  <2>2. CASE driver # "elasticsearch"
    <3>1. Marked(e) = <<e>>
      BY <2>2 DEF Marked
    <3>2. <<e>> \in Seq(Events) /\ Len(<<e>>) = 1 /\ <<e>> # << >> /\ Range(<<e>>) = {e}
      BY <1>1 DEF Range
    <3>. QED BY <3>1, <3>2
  <2>. QED BY <2>1, <2>2
<1>6. /\ marks' \in Filed /\ marks'[e.base_id] = Marked(e)
      /\ \A k \in Traces : k # e.base_id => marks'[k] = marks[k]
      /\ RowsIn(marks') \subseteq RowsIn(marks) \cup {e}
      /\ UnderItsTrace(marks) => UnderItsTrace(marks')
  <2>1. /\ marks' \in Filed /\ marks'[e.base_id] = Marked(e)
        /\ \A k \in Traces : k # e.base_id => marks'[k] = marks[k]
    BY <1>1, <1>3, <1>4, <1>5, OneMoreRow
  <2>2. RowsIn(marks') \subseteq RowsIn(marks) \cup {e}
    BY <1>1, <1>3, <1>4, <1>5, OneMoreRow
  <2>3. Range(Marked(e)) \subseteq Range(marks[e.base_id]) \cup {e}
    BY <1>5
  <2>4. UnderItsTrace(marks) => UnderItsTrace(marks')
    BY <1>1, <1>3, <1>4, <1>5, <2>3, OneMoreRow
  <2>. QED BY <2>1, <2>2, <2>4
<1>7. StoreShape'
  BY <1>0, <1>2, <1>6 DEF StoreInv, StoreShape, ToolWaits, reading, Overridden
<1>8. Filing'
  BY <1>0, <1>6 DEF StoreInv, Filing, ToolWaits, reading
<1>9. \A x : MarksErrors(x)' <=> MarksErrors(x)
  BY <1>0 DEF MarksErrors, ToolWaits
<1>10. Marking'
  <2>0. Marking
    BY DEF StoreInv
  <2>1. \A x \in Pending : x \in Pending' \/ x = e
    BY <1>0, <1>1, <1>2 DEF Pending
  <2>2. KeysOf(marks) \cup {e.base_id} \subseteq KeysOf(marks')
    BY <1>1, <1>5, <1>6 DEF KeysOf
  <2>3. \A x \in RowsIn(data)' : MarksErrors(x)' =>
          x.base_id \in KeysOf(marks)' \/ x \in (Pending \cup unmarked)'
    BY <1>0, <1>9, <2>0, <2>1, <2>2 DEF Marking
  <2>4. RowsIn(marks)' \subseteq {x \in RowsIn(data) : MarksErrors(x)}'
    BY <1>0, <1>1, <1>6, <1>9, <2>0 DEF Marking
  <2>5. driver' # "elasticsearch" => \A k \in Traces : Len(marks'[k]) <= 1
    <3>1. driver' = driver
      BY <1>0 DEF ToolWaits
    <3>. SUFFICES ASSUME driver # "elasticsearch", NEW k \in Traces PROVE Len(marks'[k]) <= 1
      BY <3>1
    <3>2. CASE k = e.base_id
      <4>1. marks'[k] = Marked(e)
        BY <1>6, <3>2
      <4>2. Len(Marked(e)) = 1
        BY <1>5
      <4>. QED BY <4>1, <4>2
    <3>3. CASE k # e.base_id
      BY <1>6, <2>0, <3>3 DEF Marking
    <3>. QED BY <3>2, <3>3
  <2>. QED BY <2>3, <2>4, <2>5 DEF Marking
<1>. QED BY <1>2, <1>7, <1>8, <1>10 DEF Written

LEMMA NotifyErrorTraceFailsKeeps ==
  ASSUME StoreInv, NEW s \in Services, NotifyErrorTraceFails(s)
  PROVE  Written'
<1>0. /\ Advance(s) /\ UNCHANGED <<data, marks>> /\ s \in marking
      /\ marking' = marking \ {s} /\ ToolWaits
      /\ unmarked' = unmarked \cup {Head(unsent[s])}
      /\ unsent[s] # << >>
  BY SecondWrite DEF NotifyErrorTraceFails
<1>1. /\ Writers'
      /\ unsent' \in [Services -> Seq(Events)] /\ marking' \subseteq Services
      /\ \A t \in marking : t # s => unsent'[t] = unsent[t]
  BY <1>0, QueueKeeps
<1>2. StoreShape'
  BY <1>0, <1>1 DEF StoreInv, StoreShape, ToolWaits, reading, Overridden
<1>3. Filing'
  BY <1>0 DEF StoreInv, Filing, ToolWaits, reading
<1>4. Pending \cup unmarked \subseteq (Pending \cup unmarked)'
  BY <1>0, <1>1 DEF Pending
<1>5. Marking'
  BY <1>0, <1>4 DEF StoreInv, Marking, MarksErrors, ToolWaits, KeysOf
<1>. QED BY <1>1, <1>2, <1>3, <1>5 DEF Written

LEMMA ServiceKeeps ==
  ASSUME StoreInv, NEW s \in Services,
         Notify(s) \/ NotifyFails(s) \/ NotifyErrorTrace(s) \/ NotifyErrorTraceFails(s)
  PROVE  StoreInv'
<1>1. Written' /\ data' \in Filed /\ DataGrows
  BY NotifyKeeps, NotifyFailsKeeps, NotifyErrorTraceKeeps, NotifyErrorTraceFailsKeeps, DataKept
     DEF NotifyFails, NotifyErrorTrace, NotifyErrorTraceFails
<1>2. ToolWaits
  BY DEF Notify, NotifyFails, NotifyErrorTrace, NotifyErrorTraceFails
<1>. QED BY <1>1, <1>2, ToolUndisturbed DEF StoreInv, Written

-----------------------------------------------------------------------------
(* The tool.                                                               *)

LEMMA Keys ==
  /\ OldSchema \subseteq Events /\ IsFiniteSet(OldSchema)
  /\ driver # "redis" => OldSchema = {} /\ OldKeys = {}
  /\ \A k \in OldKeys : k \in Traces /\ OldRows(k) # {}
  /\ \A k : OldRows(k) \subseteq OldSchema /\ \A e \in OldRows(k) : e.base_id = k
  /\ \A k : OldRows(k) # {} => k \in OldKeys
<1>1. OldSchema \subseteq Events
  BY DEF OldSchema, Events
<1>2. IsFiniteSet(OldSchema)
  BY EventsAssumption, FS_EmptySet DEF OldSchema
<1>. QED BY <1>1, <1>2, EventIsFiled DEF OldSchema, OldKeys, OldRows

LEMMA FirstOfTheOld ==
  ASSUME NEW k \in OldKeys
  PROVE  /\ Earliest(OldRows(k)) \in OldRows(k)
         /\ Earliest(OldRows(k)).base_id = k
         /\ \A e \in OldRows(k) : Earliest(OldRows(k)).timestamp <= e.timestamp
<1>1. OldRows(k) \in SUBSET Events /\ OldRows(k) # {}
  BY Keys
<1>. QED BY <1>1, EarliestOf, Keys

(* The rows of the old schema: one of every trace.                         *)
LEMMA LegacyListed ==
  ASSUME NEW q \in LegacyRows
  PROVE  /\ q \in Seq(Events)
         /\ \A i \in DOMAIN q : q[i] \in OldSchema
         /\ \A i, j \in DOMAIN q : q[i].base_id = q[j].base_id => i = j
         /\ \A k \in OldKeys : \E i \in DOMAIN q : q[i] = Earliest(OldRows(k))
         /\ driver # "redis" => q = << >>
<1>. DEFINE Firsts == {Earliest(OldRows(k)) : k \in OldKeys}
<1>1. Firsts \in SUBSET OldSchema
  BY FirstOfTheOld, Keys
<1>2. IsFiniteSet(Firsts)
  BY <1>1, Keys, FS_Subset
<1>3. q \in InTimeOrder(Firsts)
  BY DEF LegacyRows
<1>4. \A e, f \in Firsts : e.base_id = f.base_id => e = f
  BY FirstOfTheOld
<1>5. driver # "redis" => Firsts = {}
  BY Keys
<1>6. \A k \in OldKeys : Earliest(OldRows(k)) \in Firsts
  OBVIOUS
<1>. HIDE DEF Firsts
<1>7. q \in Seq(Firsts) /\ IsInjective(q) /\ Range(q) = Firsts /\ q \in SetToSeqs(Firsts)
  BY <1>2, <1>3, OrderOfSet
<1>8. \A i \in DOMAIN q : q[i] \in Firsts
  BY <1>7 DEF Range
<1>9. q \in Seq(Events)
  <2>1. Firsts \subseteq Events
    BY <1>1, Keys
  <2>. QED BY <1>7, <2>1, SeqOfPart
<1>10. driver # "redis" => q = << >>
  BY <1>5, <1>7, SeqOfNothing
<1>11. \A k \in OldKeys : \E i \in DOMAIN q : q[i] = Earliest(OldRows(k))
  BY <1>6, <1>7 DEF Range
<1>12. \A i, j \in DOMAIN q : q[i].base_id = q[j].base_id => i = j
  BY <1>4, <1>7, <1>8 DEF IsInjective
<1>. QED BY <1>1, <1>8, <1>9, <1>10, <1>11, <1>12

LEMMA FiniteRow ==
  ASSUME NEW f \in Filed, IsFiniteSet(RowsIn(f)), NEW k \in Traces
  PROVE  IsFiniteSet(Range(f[k])) /\ Range(f[k]) \subseteq Events
<1>1. Range(f[k]) \in SUBSET RowsIn(f) /\ Range(f[k]) \subseteq Events
  BY RangeOfRow
<1>. QED BY <1>1, FS_Subset

LEMMA SourceIsFiled ==
  ASSUME StoreInv, NEW o \in Operations
  PROVE  /\ Source(o) \in Filed /\ UnderItsTrace(Source(o))
         /\ IsFiniteSet(RowsIn(Source(o)))
         /\ o # "errors" => Source(o) = data /\ EachOnce(Source(o))
<1>1. IsFiniteSet(RowsIn(marks))
  <2>1. RowsIn(marks) \in SUBSET RowsIn(data)
    BY DEF StoreInv, Marking
  <2>2. IsFiniteSet(RowsIn(data))
    BY DEF StoreInv, Filing
  <2>. QED BY <2>1, <2>2, FS_Subset
<1>. QED BY <1>1 DEF StoreInv, StoreShape, Filing, Source

LEMMA HitsAre ==
  ASSUME StoreInv, NEW o \in Operations, NEW k \in Traces, NEW h \in Hits(o, k)
  PROVE  h \in Seq(Events)
<1>1. data \in Filed /\ IsFiniteSet(RowsIn(data))
  BY DEF StoreInv, StoreShape, Filing
<1>2. CASE o = "report"
  <2>1. IsFiniteSet(Range(data[k])) /\ Range(data[k]) \subseteq Events
    BY <1>1, FiniteRow
  <2>2. h \in SetToSeqs(Range(data[k]))
    BY <1>2 DEF Hits
  <2>3. h \in Seq(Range(data[k]))
    BY <2>1, <2>2, SeqOfSet
  <2>. QED BY <2>1, <2>3, SeqOfPart
<1>3. CASE o # "report"
  <2>1. IsFiniteSet(RowsIn(Source(o))) /\ RowsIn(Source(o)) \subseteq Events
    BY SourceIsFiled, RowsAreEvents
  <2>2. h \in InTimeOrder(RowsIn(Source(o)))
    BY <1>3 DEF Hits
  <2>3. h \in Seq(RowsIn(Source(o)))
    BY <2>1, <2>2, OrderOfSet
  <2>. QED BY <2>1, <2>3, SeqOfPart
<1>. QED BY <1>2, <1>3

LEMMA CallKeeps ==
  ASSUME StoreInv, NEW o \in Operations, NEW k \in Traces, Call(o, k)
  PROVE  StoreInv'
<1>0. /\ o \in Overridden /\ op' = o /\ asked' = k /\ snapshot' = Source(o)
      /\ hits' \in IF ByPage THEN Hits(o, k) ELSE {<< >>}
      /\ read' = {} /\ phase' = "reading"
      /\ result' \in IF o = "traces" THEN LegacyRows ELSE {<< >>}
      /\ UNCHANGED <<driver, filter_error_trace, data, marks, unsent, marking, unmarked>>
  BY DEF Call, writing
<1>1. /\ Source(o) \in Filed /\ UnderItsTrace(Source(o)) /\ IsFiniteSet(RowsIn(Source(o)))
      /\ o # "errors" => Source(o) = data /\ EachOnce(Source(o))
  BY SourceIsFiled
<1>2. hits' \in Seq(Events)
  <2>1. << >> \in Seq(Events)
    OBVIOUS
  <2>. QED BY <1>0, <2>1, HitsAre
<1>3. /\ result' \in Seq(Events)
      /\ o # "traces" \/ driver # "redis" => result' = << >>
      /\ o = "traces" => result' \in LegacyRows
  <2>1. << >> \in Seq(Events)
    OBVIOUS
  <2>. QED BY <1>0, <2>1, LegacyListed
<1>4. StoreShape'
  BY <1>0, <1>1, <1>2, <1>3 DEF StoreInv, StoreShape, Overridden
<1>5. Filing'
  BY <1>0, <1>1 DEF StoreInv, Filing
<1>6. Writers'
  BY <1>0 DEF StoreInv, Writers, Unsent, InBetween, MarksErrors
<1>7. Marking'
  BY <1>0 DEF StoreInv, Marking, MarksErrors, Pending, KeysOf
<1>8. Snapshots'
  <2>1. \A j \in Traces : Len(data[j]) \in Nat
    BY RangeOfRow DEF StoreInv, StoreShape
  <2>. QED BY <1>0, <1>1, <2>1 DEF Snapshots
<1>9. Listing'
  <2>. SUFFICES ASSUME ListsByKey'
                PROVE  RowsAreOfTheirSchema' /\ OneRowOfASchema' /\ OldTracesListed'
    BY <1>0 DEF Listing, NewTracesListed
  <2>1. OldSchema' = OldSchema /\ OldKeys' = OldKeys /\ \A j : OldRows(j)' = OldRows(j)
    BY <1>0 DEF OldSchema, OldKeys, OldRows
  <2>2. result' \in LegacyRows
    BY <1>0, <1>3 DEF ListsByKey
  <2>3. /\ \A i \in DOMAIN result' : result'[i] \in OldSchema
        /\ \A i, j \in DOMAIN result' : result'[i].base_id = result'[j].base_id => i = j
        /\ \A j \in OldKeys : \E i \in DOMAIN result' : result'[i] = Earliest(OldRows(j))
    BY <2>2, LegacyListed
  <2>. QED BY <2>1, <2>3 DEF RowsAreOfTheirSchema, OneRowOfASchema, OldTracesListed, IsOld
<1>10. Paging'
  <2>. SUFFICES ASSUME ByPage PROVE RightHits' /\ result' = << >>
    <3>1. Len(hits') \in Nat
      BY <1>2
    <3>. QED BY <1>0, <3>1 DEF Paging, ByPage
  <2>1. driver # "redis"
    BY DEF ByPage
  <2>2. hits' \in Hits(o, k)
    BY <1>0
  <2>. QED BY <1>0, <1>1, <1>3, <2>1, <2>2 DEF RightHits, Hits
<1>. QED BY <1>0, <1>4, <1>5, <1>6, <1>7, <1>8, <1>9, <1>10
         DEF StoreInv, Answering, MarksSorted, Done

(* A step of the tool that only reads.                                     *)
LEMMA ReaderKeeps ==
  ASSUME StoreInv, phase # "idle",
         UNCHANGED <<driver, filter_error_trace, writing, op, asked, snapshot, hits>>,
         read' \subseteq Traces, result' \in Seq(Events), phase' \in {"reading", "done"}
  PROVE  /\ Written' /\ Snapshots'
         /\ Listing' /\ Paging' /\ Answering' /\ MarksSorted' => StoreInv'
<1>. USE DEF writing
<1>1. StoreShape'
  BY DEF StoreInv, StoreShape, Overridden
<1>2. Filing'
  BY DEF StoreInv, Filing
<1>3. Writers'
  BY DEF StoreInv, Writers, Unsent, InBetween, MarksErrors
<1>4. Marking'
  BY DEF StoreInv, Marking, MarksErrors, Pending, KeysOf
<1>5. Snapshots'
  BY DEF StoreInv, Snapshots
<1>. QED BY <1>1, <1>2, <1>3, <1>4, <1>5 DEF Written, StoreInv

(* The row of a key: none, or one of the data of that trace.               *)
LEMMA RowIs ==
  ASSUME StoreInv, op = "traces", driver \in {"redis", "mongodb"}, NEW k \in KeysOf(data)
  PROVE  /\ RowOf(k) = << >> \/ \E r \in Range(data[k]) : RowOf(k) = <<r>>
         /\ driver = "redis" /\ Len(data[k]) >= 2 => RowOf(k) # << >>
         /\ driver = "mongodb" =>
              \E r \in Range(data[k]) : /\ RowOf(k) = <<r>>
                                        /\ \A e \in Range(data[k]) : r.timestamp <= e.timestamp
<1>1. /\ k \in Traces /\ data \in Filed /\ data[k] # << >>
  BY DEF KeysOf, StoreInv, StoreShape
<1>2. /\ data[k] \in Seq(Events) /\ Range(data[k]) \in SUBSET Events /\ Range(data[k]) # {}
      /\ Len(data[k]) \in Nat /\ DOMAIN data[k] = 1 .. Len(data[k])
  BY <1>1, RangeOfRow
<1>3. CASE driver = "mongodb"
  BY <1>2, <1>3, EarliestOf DEF RowOf
<1>4. CASE driver = "redis"
  <2>1. RowOf(k) = NextToNewest(data[k])
    BY <1>4 DEF RowOf
  <2>2. CASE Len(data[k]) < 2
    BY <1>2, <1>4, <2>1, <2>2 DEF NextToNewest
  <2>3. CASE Len(data[k]) >= 2
    <3>1. Len(data[k]) - 1 \in DOMAIN data[k]
      BY <1>2, <2>3
    <3>2. RowOf(k) = <<data[k][Len(data[k]) - 1]>>
      BY <1>2, <2>1, <2>3 DEF NextToNewest
    <3>3. RowOf(k) # << >>
      BY <3>2
    <3>. QED BY <1>4, <3>1, <3>2, <3>3 DEF Range
  <2>. QED BY <1>2, <2>2, <2>3
<1>. QED BY <1>3, <1>4

LEMMA OneRowMore ==
  ASSUME NEW S, NEW q \in Seq(S), NEW r \in S, NEW p, p = q \o <<r>>
  PROVE  /\ p \in Seq(S) /\ DOMAIN q \subseteq DOMAIN p
         /\ \A i \in DOMAIN q : p[i] = q[i]
         /\ Len(q) + 1 \in DOMAIN p /\ p[Len(q) + 1] = r
         /\ \A i \in DOMAIN p : i \in DOMAIN q \/ (i = Len(q) + 1 /\ p[i] = r)
         /\ Len(q) + 1 \notin DOMAIN q
<1>1. Len(q) \in Nat /\ DOMAIN q = 1 .. Len(q) /\ <<r>> \in Seq(S) /\ Len(<<r>>) = 1 /\ <<r>>[1] = r
  OBVIOUS
<1>2. p \in Seq(S) /\ Len(p) = Len(q) + 1 /\ DOMAIN p = 1 .. Len(q) + 1
  BY <1>1
<1>3. \A i \in 1 .. Len(q) : p[i] = q[i]
  BY <1>1
<1>4. p[Len(q) + 1] = r
  BY <1>1
<1>. QED BY <1>1, <1>2, <1>3, <1>4

(* A listing by key reads one more key.                                    *)
LEMMA KeyListed ==
  ASSUME StoreInv, op = "traces", NEW k \in Traces, ReadKey(k)
  PROVE  Listing' /\ result' \in Seq(Events)
<1>0. /\ phase = "reading" /\ driver \in {"redis", "mongodb"} /\ k \in KeysMet /\ k \notin read
      /\ read' = read \cup {k} /\ result' = result \o RowOf(k)
      /\ UNCHANGED <<driver, data, snapshot, op, phase>>
  BY DEF ReadKey, ByKey, writing
<1>1. /\ read \subseteq KeysOf(data) /\ RowsAreOfTheirSchema /\ OneRowOfASchema
      /\ OldTracesListed /\ NewTracesListed
  BY <1>0 DEF StoreInv, Listing, ListsByKey
<1>2. Range(snapshot[k]) \subseteq Range(data[k]) /\ Len(snapshot[k]) <= Len(data[k])
  BY DEF StoreInv, Snapshots
<1>3. data \in Filed /\ snapshot \in Filed /\ result \in Seq(Events)
  BY DEF StoreInv, StoreShape
<1>4. k \in KeysOf(data)
  <2>1. Range(snapshot[k]) # {} <=> snapshot[k] # << >>
    BY <1>3, RangeOfRow
  <2>2. Range(data[k]) # {} <=> data[k] # << >>
    BY <1>3, RangeOfRow
  <2>. QED BY <1>0, <1>2, <2>1, <2>2 DEF KeysMet, KeysOf, Source
<1>5. /\ OldSchema' = OldSchema /\ OldKeys' = OldKeys /\ \A j : OldRows(j)' = OldRows(j)
  BY <1>0 DEF OldSchema, OldKeys, OldRows
<1>6. /\ Len(snapshot[k]) \in Nat /\ Len(data[k]) \in Nat
      /\ driver = "redis" /\ Len(snapshot[k]) >= 2 => RowOf(k) # << >>
  BY <1>0, <1>2, <1>3, <1>4, RangeOfRow, RowIs
<1>7. \A r \in Range(data[k]) : r \in Events /\ r.base_id = k /\ r \notin OldSchema
  <2>1. Range(data[k]) \subseteq RowsIn(data) /\ Range(data[k]) \subseteq Events
    BY <1>3, RangeOfRow
  <2>2. \A r \in RowsIn(data) : r \notin Legacy
    BY DistinctAssumption DEF StoreInv, Writers
  <2>3. UnderItsTrace(data)
    BY DEF StoreInv, Filing
  <2>. QED BY <2>1, <2>2, <2>3 DEF UnderItsTrace, OldSchema
<1>8. SUFFICES /\ RowsAreOfTheirSchema' /\ OneRowOfASchema' /\ OldTracesListed' /\ NewTracesListed'
               /\ result' \in Seq(Events)
  BY <1>0, <1>1, <1>4 DEF Listing, KeysOf
<1>9. CASE RowOf(k) = << >>
  <2>1. result' = result
    BY <1>0, <1>3, <1>9
  <2>2. driver # "mongodb"
    BY <1>0, <1>4, <1>9, RowIs
  <2>3. RowsAreOfTheirSchema' /\ OneRowOfASchema' /\ OldTracesListed'
    BY <1>0, <1>1, <1>5, <2>1 DEF RowsAreOfTheirSchema, OneRowOfASchema, OldTracesListed, IsOld
  <2>4. NewTracesListed'
    BY <1>0, <1>1, <1>6, <1>9, <2>1, <2>2 DEF NewTracesListed, RowsOf
  <2>. QED BY <1>3, <2>1, <2>3, <2>4
<1>10. CASE RowOf(k) # << >>
  <2>1. PICK r \in Range(data[k]) :
          /\ RowOf(k) = <<r>>
          /\ driver = "mongodb" => \A e \in Range(data[k]) : r.timestamp <= e.timestamp
    BY <1>0, <1>4, <1>10, RowIs
  <2>. DEFINE n == Len(result) + 1
  <2>2. /\ result' \in Seq(Events) /\ DOMAIN result \subseteq DOMAIN result'
        /\ \A i \in DOMAIN result : result'[i] = result[i]
        /\ n \in DOMAIN result' /\ result'[n] = r
        /\ \A i \in DOMAIN result' : i \in DOMAIN result \/ (i = n /\ result'[i] = r)
    <3>1. r \in Events /\ result' = result \o <<r>>
      BY <1>0, <1>7, <2>1
    <3>. QED BY <1>3, <3>1, OneRowMore
  <2>. HIDE DEF n
  <2>3. r.base_id = k /\ r \notin OldSchema
    BY <1>7
  <2>4. RowsAreOfTheirSchema'
    BY <1>0, <1>1, <1>5, <2>2, <2>3 DEF RowsAreOfTheirSchema, IsOld
  <2>5. \A i \in DOMAIN result : ~ (result[i].base_id = k /\ result[i] \notin OldSchema)
    BY <1>0, <1>1 DEF RowsAreOfTheirSchema, IsOld
  <2>6. OneRowOfASchema'
    <3>. SUFFICES ASSUME NEW i \in DOMAIN result', NEW j \in DOMAIN result',
                         result'[i].base_id = result'[j].base_id,
                         result'[i] \in OldSchema <=> result'[j] \in OldSchema
                  PROVE  i = j
      BY <1>5 DEF OneRowOfASchema, IsOld
    <3>1. CASE i \in DOMAIN result /\ j \in DOMAIN result
      BY <1>1, <2>2, <3>1 DEF OneRowOfASchema, IsOld
    <3>2. CASE i = n /\ result'[i] = r
      BY <2>2, <2>3, <2>5, <3>2
    <3>3. CASE j = n /\ result'[j] = r
      BY <2>2, <2>3, <2>5, <3>3
    <3>. QED BY <2>2, <3>1, <3>2, <3>3
  <2>7. OldTracesListed'
    BY <1>1, <1>5, <2>2 DEF OldTracesListed
  <2>8. NewTracesListed'
    <3>. SUFFICES ASSUME NEW j \in read'
                  PROVE  /\ driver = "mongodb" => EarliestListed(j)'
                         /\ driver = "redis" /\ Len(snapshot[j]) >= 2 => RowsOf(j)' # {}
      BY <1>0 DEF NewTracesListed
    <3>1. CASE j = k
      BY <1>0, <1>2, <2>1, <2>2, <2>3, <3>1 DEF EarliestListed, RowsOf
    <3>2. CASE j \in read
      <4>1. driver = "mongodb" => EarliestListed(j)
        BY <1>1, <3>2 DEF NewTracesListed
      <4>2. EarliestListed(j) => EarliestListed(j)'
        BY <1>0, <2>2 DEF EarliestListed
      <4>3. driver = "redis" /\ Len(snapshot[j]) >= 2 => RowsOf(j) # {}
        BY <1>1, <3>2 DEF NewTracesListed
      <4>4. RowsOf(j) # {} => RowsOf(j)' # {}
        BY <2>2 DEF RowsOf
      <4>. QED BY <4>1, <4>2, <4>3, <4>4
    <3>. QED BY <1>0, <3>1, <3>2
  <2>. QED BY <2>2, <2>4, <2>6, <2>7, <2>8
<1>. QED BY <1>9, <1>10

LEMMA ReadKeyKeeps ==
  ASSUME StoreInv, NEW k \in Traces, ReadKey(k)
  PROVE  StoreInv'
<1>0. /\ phase = "reading" /\ ByKey /\ read' = read \cup {k} /\ result' = result \o RowOf(k)
      /\ UNCHANGED <<driver, filter_error_trace, writing, op, asked, snapshot, hits>>
      /\ phase' = "reading"
  BY DEF ReadKey
<1>1. result' \in Seq(Events) /\ Listing'
  <2>1. CASE op = "traces"
    BY <2>1, KeyListed
  <2>2. CASE op # "traces"
    <3>1. RowOf(k) = marks[k] /\ marks[k] \in Seq(Events) /\ result \in Seq(Events)
      BY <1>0, <2>2, RangeOfRow DEF ByKey, RowOf, StoreInv, StoreShape
    <3>2. result' \in Seq(Events)
      BY <1>0, <3>1
    <3>. QED BY <1>0, <2>2, <3>2 DEF Listing, ListsByKey
  <2>. QED BY <2>1, <2>2
<1>2. read' \subseteq Traces
  BY <1>0 DEF StoreInv, StoreShape
<1>3. Paging' /\ Answering' /\ MarksSorted'
  BY <1>0 DEF Paging, Answering, MarksSorted, Done, ByKey, ByPage
<1>. QED BY <1>0, <1>1, <1>2, <1>3, ReaderKeeps

LEMMA FiniteRange ==
  ASSUME NEW S, NEW q \in Seq(S)
  PROVE  IsFiniteSet(Range(q)) /\ Range(q) \subseteq S
<1>1. Len(q) \in Nat /\ DOMAIN q = 1 .. Len(q) /\ q \in [1 .. Len(q) -> S]
  OBVIOUS
<1>2. q \in Surjection(1 .. Len(q), Range(q))
  BY <1>1 DEF Surjection, Range
<1>3. IsFiniteSet(1 .. Len(q))
  BY <1>1, FS_Interval
<1>. QED BY <1>1, <1>2, <1>3, FS_Surjection DEF Range

LEMMA KeysEndKeeps ==
  ASSUME StoreInv, KeysEnd
  PROVE  StoreInv'
<1>0. /\ phase = "reading" /\ ByKey /\ KeysOf(snapshot) \subseteq read /\ read' = read
      /\ result' \in IF op = "errors" THEN InTimeOrder(Range(result)) ELSE {result}
      /\ UNCHANGED <<driver, filter_error_trace, writing, op, asked, snapshot, hits>>
      /\ phase' = "done" /\ UNCHANGED data
  BY DEF KeysEnd, LastKeyRead, writing
<1>1. result \in Seq(Events) /\ read \subseteq Traces
  BY DEF StoreInv, StoreShape
<1>2. result' \in Seq(Events) /\ (op = "errors" => Sorted(result'))
  <2>1. CASE op = "errors"
    <3>1. IsFiniteSet(Range(result)) /\ Range(result) \subseteq Events
      BY <1>1, FiniteRange
    <3>2. result' \in InTimeOrder(Range(result))
      BY <1>0, <2>1
    <3>3. result' \in Seq(Range(result)) /\ Sorted(result')
      BY <3>1, <3>2, OrderOfSet
    <3>. QED BY <3>1, <3>3, SeqOfPart
  <2>2. CASE op # "errors"
    BY <1>0, <1>1, <2>2
  <2>. QED BY <2>1, <2>2
<1>3. Listing'
  <2>. SUFFICES ASSUME op = "traces" PROVE Listing'
    BY <1>0 DEF Listing, ListsByKey
  <2>1. result' = result
    BY <1>0
  <2>2. /\ read \subseteq KeysOf(data) /\ RowsAreOfTheirSchema /\ OneRowOfASchema
        /\ OldTracesListed /\ NewTracesListed
    BY <1>0 DEF StoreInv, Listing, ListsByKey, ByKey
  <2>3. /\ OldSchema' = OldSchema /\ OldKeys' = OldKeys /\ \A j : OldRows(j)' = OldRows(j)
    BY <1>0 DEF OldSchema, OldKeys, OldRows
  <2>. QED BY <1>0, <2>1, <2>2, <2>3
           DEF Listing, RowsAreOfTheirSchema, OneRowOfASchema, OldTracesListed, NewTracesListed,
               EarliestListed, RowsOf, IsOld, KeysOf
<1>4. Paging' /\ Answering' /\ MarksSorted'
  BY <1>0, <1>2 DEF Paging, Answering, MarksSorted, Done, ByKey, ByPage
<1>. QED BY <1>0, <1>1, <1>2, <1>3, <1>4, ReaderKeeps

(* A page of the hits.                                                     *)
LEMMA PageIs ==
  ASSUME hits \in Seq(Events), NEW n \in Nat, n <= Len(hits)
  PROVE  /\ PageAfter(n) \in Seq(Events)
         /\ n + Len(PageAfter(n)) <= Len(hits)
         /\ \A i \in 1 .. Len(PageAfter(n)) : PageAfter(n)[i] = hits[n + i]
         /\ PageAfter(n) = << >> => n = Len(hits)
<1>. DEFINE m == Min({n + PageSize, Len(hits)})
<1>1. PageSize \in Nat /\ PageSize > 0 /\ Len(hits) \in Nat
  BY PageSizeAssumption
<1>2. m \in Nat /\ n <= m /\ m <= Len(hits) /\ (m = n => n = Len(hits))
  <2>1. m = IF n + PageSize <= Len(hits) THEN n + PageSize ELSE Len(hits)
    BY <1>1 DEF Min
  <2>. QED BY <1>1, <2>1
<1>3. PageAfter(n) = SubSeq(hits, n + 1, m)
  BY DEF PageAfter
<1>. HIDE DEF m
<1>4. /\ SubSeq(hits, n + 1, m) \in Seq(Events)
      /\ Len(SubSeq(hits, n + 1, m)) = m - n
      /\ \A i \in 1 .. m - n : SubSeq(hits, n + 1, m)[i] = hits[n + i]
  BY <1>1, <1>2
<1>5. PageAfter(n) = << >> => m = n
  <2>1. Len(<< >>) = 0
    OBVIOUS
  <2>. QED BY <1>2, <1>3, <1>4, <2>1
<1>. DEFINE page == PageAfter(n)
<1>. HIDE DEF page
<1>6. /\ page \in Seq(Events) /\ Len(page) = m - n
      /\ \A i \in 1 .. m - n : page[i] = hits[n + i]
  BY <1>3, <1>4 DEF page
<1>7. n + Len(page) <= Len(hits) /\ 1 .. Len(page) = 1 .. m - n
  BY <1>1, <1>2, <1>6
<1>8. \A i \in 1 .. Len(page) : page[i] = hits[n + i]
  BY <1>6, <1>7
<1>. QED BY <1>2, <1>5, <1>6, <1>7, <1>8 DEF page

LEMMA ReadPageKeeps ==
  ASSUME StoreInv, ReadPage
  PROVE  StoreInv'
<1>. DEFINE n == Len(result)
            page == PageAfter(n)
<1>0. /\ phase = "reading" /\ ByPage /\ result' = result \o page
      /\ UNCHANGED <<driver, filter_error_trace, writing, op, asked, snapshot, hits, read, phase>>
  BY DEF ReadPage
<1>1. /\ result \in Seq(Events) /\ read \subseteq Traces /\ hits \in Seq(Events)
      /\ RightHits /\ Len(result) <= Len(hits)
      /\ \A i \in DOMAIN result : result[i] = hits[i]
  BY <1>0 DEF StoreInv, StoreShape, Paging
<1>2. /\ page \in Seq(Events) /\ n + Len(page) <= Len(hits)
      /\ \A i \in 1 .. Len(page) : page[i] = hits[n + i]
      /\ n \in Nat /\ Len(page) \in Nat
  <2>1. n \in Nat /\ n <= Len(hits) /\ hits \in Seq(Events)
    BY <1>1
  <2>. HIDE DEF n
  <2>2. /\ PageAfter(n) \in Seq(Events)
        /\ n + Len(PageAfter(n)) <= Len(hits)
        /\ \A i \in 1 .. Len(PageAfter(n)) : PageAfter(n)[i] = hits[n + i]
    BY <2>1, PageIs
  <2>3. Len(PageAfter(n)) \in Nat
    BY <2>2
  <2>. QED BY <2>1, <2>2, <2>3
<1>. HIDE DEF page
<1>3. /\ result' \in Seq(Events) /\ Len(result') = n + Len(page)
      /\ DOMAIN result' = 1 .. n + Len(page) /\ DOMAIN result = 1 .. n
      /\ \A i \in 1 .. n : result'[i] = result[i]
      /\ \A i \in n + 1 .. n + Len(page) : result'[i] = page[i - n]
  BY <1>0, <1>1, <1>2
<1>. HIDE DEF n
<1>4. \A i \in DOMAIN result' : result'[i] = hits[i]
  <2>. SUFFICES ASSUME NEW i \in DOMAIN result' PROVE result'[i] = hits[i]
    OBVIOUS
  <2>1. CASE i \in 1 .. n
    BY <1>1, <1>3, <2>1
  <2>2. CASE i \in n + 1 .. n + Len(page)
    <3>1. i - n \in 1 .. Len(page) /\ n + (i - n) = i
      BY <1>2, <2>2
    <3>. QED BY <1>2, <1>3, <2>2, <3>1
  <2>. QED BY <1>2, <1>3, <2>1, <2>2
<1>5. Paging'
  <2>1. RightHits'
    BY <1>0, <1>1 DEF RightHits
  <2>. QED BY <1>0, <1>2, <1>3, <1>4, <2>1 DEF Paging
<1>6. Listing' /\ Answering' /\ MarksSorted'
  BY <1>0 DEF Listing, ListsByKey, Answering, MarksSorted, Done, ByPage
<1>. QED BY <1>0, <1>1, <1>3, <1>5, <1>6, ReaderKeeps

LEMMA PagesEndKeeps ==
  ASSUME StoreInv, PagesEnd
  PROVE  StoreInv'
<1>0. /\ phase = "reading" /\ ByPage /\ PageAfter(Len(result)) = << >> /\ phase' = "done"
      /\ UNCHANGED <<driver, filter_error_trace, writing, op, asked, snapshot, hits, read, result>>
  BY DEF PagesEnd, MorePages
<1>1. /\ result \in Seq(Events) /\ read \subseteq Traces /\ hits \in Seq(Events)
      /\ RightHits /\ Len(result) <= Len(hits)
      /\ \A i \in DOMAIN result : result[i] = hits[i]
  BY <1>0 DEF StoreInv, StoreShape, Paging
<1>2. Len(result) = Len(hits)
  <2>1. Len(result) \in Nat
    BY <1>1
  <2>. QED BY <1>0, <1>1, <2>1, PageIs
<1>3. Paging'
  <2>1. RightHits'
    BY <1>0, <1>1 DEF RightHits
  <2>2. Len(result') <= Len(hits')
    BY <1>0, <1>1
  <2>. QED BY <1>0, <1>1, <1>2, <2>1, <2>2 DEF Paging
<1>4. Listing' /\ Answering' /\ MarksSorted'
  BY <1>0 DEF Listing, ListsByKey, Answering, MarksSorted, Done, ByKey, ByPage
<1>. QED BY <1>0, <1>1, <1>3, <1>4, ReaderKeeps

LEMMA FirstRowsAre ==
  ASSUME StoreInv, NEW q \in TraceRows
  PROVE  \E row \in [KeysOf(snapshot) -> RowsIn(snapshot)] :
           LET S == {row[k] : k \in KeysOf(snapshot)} IN
           /\ \A k \in KeysOf(snapshot) : row[k] \in Range(snapshot[k]) /\ row[k].base_id = k
           /\ q \in Seq(Events) /\ IsInjective(q) /\ Range(q) = S
<1>1. PICK row \in [KeysOf(snapshot) -> RowsIn(snapshot)] :
        /\ \A k \in KeysOf(snapshot) : row[k] \in Range(snapshot[k])
        /\ q \in SetToSeqs({row[k] : k \in KeysOf(snapshot)})
  BY DEF TraceRows
<1>. DEFINE S == {row[k] : k \in KeysOf(snapshot)}
<1>2. S \in SUBSET RowsIn(snapshot)
  OBVIOUS
<1>3. IsFiniteSet(S) /\ S \subseteq Events
  BY <1>2, FS_Subset, RowsAreEvents DEF StoreInv, Filing, StoreShape
<1>4. q \in Seq(S) /\ IsInjective(q) /\ Range(q) = S
  <2>1. q \in SetToSeqs(S)
    BY <1>1
  <2>. HIDE DEF S
  <2>. QED BY <1>3, <2>1, SeqOfSet
<1>5. q \in Seq(Events)
  BY <1>3, <1>4, SeqOfPart
<1>6. \A k \in KeysOf(snapshot) : row[k].base_id = k
  BY <1>1 DEF StoreInv, Filing, UnderItsTrace, KeysOf
<1>. QED BY <1>1, <1>4, <1>5, <1>6

LEMMA ReportRowsAre ==
  ASSUME StoreInv, phase # "idle", NEW q \in ReportRows
  PROVE  /\ q \in Seq(Events)
         /\ op = "report" => Range(q) = AtCall(asked) /\ IsInjective(q)
<1>. DEFINE t == snapshot[asked]
<1>1. asked \in Traces /\ snapshot \in Filed /\ t \in Seq(Events)
  BY RangeOfRow DEF StoreInv, StoreShape
<1>2. PICK old \in SetToSeqs(OldRows(asked)) : q = old \o t
  BY DEF ReportRows
<1>3. OldRows(asked) \in SUBSET OldSchema /\ OldRows(asked) \subseteq Events
  BY Keys
<1>4. IsFiniteSet(OldRows(asked))
  BY <1>3, Keys, FS_Subset
<1>5. old \in Seq(OldRows(asked)) /\ IsInjective(old) /\ Range(old) = OldRows(asked)
  BY <1>4, SeqOfSet
<1>6. old \in Seq(Events)
  BY <1>3, <1>5, SeqOfPart
<1>. HIDE DEF t
<1>7. /\ q \in Seq(Events) /\ Len(old) \in Nat /\ Len(t) \in Nat
      /\ DOMAIN old = 1 .. Len(old) /\ DOMAIN t = 1 .. Len(t)
      /\ DOMAIN q = 1 .. Len(old) + Len(t)
      /\ \A i \in 1 .. Len(old) : q[i] = old[i]
      /\ \A i \in Len(old) + 1 .. Len(old) + Len(t) : q[i] = t[i - Len(old)]
  BY <1>1, <1>2, <1>6
<1>8. ASSUME op = "report" PROVE Range(q) = AtCall(asked) /\ IsInjective(q)
  <2>1. IsInjective(t)
    BY <1>1, <1>8 DEF StoreInv, Filing, EachOnce, t
  <2>2. \A e \in Range(t) : e \notin OldRows(asked)
    <3>1. Range(t) \subseteq Range(data[asked])
      BY <1>1, <1>8 DEF StoreInv, Snapshots, t
    <3>2. Range(data[asked]) \subseteq RowsIn(data)
      BY <1>1, RangeOfRow DEF StoreInv, StoreShape
    <3>3. \A e \in RowsIn(data) : e \notin Legacy
      BY DistinctAssumption DEF StoreInv, Writers
    <3>. QED BY <3>1, <3>2, <3>3 DEF OldRows, OldSchema
  <2>3. \A i \in DOMAIN q : \/ i \in DOMAIN old /\ q[i] = old[i]
                            \/ i - Len(old) \in DOMAIN t /\ i > Len(old) /\ q[i] = t[i - Len(old)]
    BY <1>7
  <2>4. \A i \in DOMAIN old : i \in DOMAIN q /\ q[i] = old[i]
    BY <1>7
  <2>5. \A i \in DOMAIN t : Len(old) + i \in DOMAIN q /\ q[Len(old) + i] = t[i]
    BY <1>7
  <2>6. Range(q) = Range(old) \cup Range(t)
    BY <2>3, <2>4, <2>5 DEF Range
  <2>7. IsInjective(q)
    <3>. SUFFICES ASSUME NEW i \in DOMAIN q, NEW j \in DOMAIN q, q[i] = q[j] PROVE i = j
      BY DEF IsInjective
    <3>1. \A a \in DOMAIN old, b \in DOMAIN t : old[a] # t[b]
      BY <1>5, <2>2 DEF Range
    <3>2. CASE i \in DOMAIN old /\ j \in DOMAIN old /\ q[i] = old[i] /\ q[j] = old[j]
      BY <1>5, <3>2 DEF IsInjective
    <3>3. CASE /\ i - Len(old) \in DOMAIN t /\ q[i] = t[i - Len(old)]
               /\ j - Len(old) \in DOMAIN t /\ q[j] = t[j - Len(old)]
      <4>1. i - Len(old) = j - Len(old)
        BY <2>1, <3>3 DEF IsInjective
      <4>. QED BY <1>7, <4>1
    <3>. QED BY <2>3, <3>1, <3>2, <3>3
  <2>. QED BY <1>5, <2>6, <2>7 DEF AtCall, t
<1>. QED BY <1>7, <1>8

LEMMA AnswersAre ==
  ASSUME StoreInv, phase # "idle", NEW q \in Answers
  PROVE  /\ q \in Seq(Events)
         /\ op = "traces" => q \in TraceRows
         /\ op = "report" => q \in ReportRows
<1>1. op \in Operations
  BY DEF StoreInv, StoreShape, Overridden, Operations
<1>2. CASE op = "traces"
  BY <1>2, FirstRowsAre DEF Answers
<1>3. CASE op = "report"
  BY <1>3, ReportRowsAre DEF Answers
<1>4. CASE op = "errors"
  <2>1. q \in SetToSeqs(RowsIn(snapshot))
    BY <1>4 DEF Answers
  <2>2. IsFiniteSet(RowsIn(snapshot)) /\ RowsIn(snapshot) \subseteq Events
    BY RowsAreEvents DEF StoreInv, StoreShape, Filing
  <2>3. q \in Seq(Events)
    BY <2>1, <2>2, SeqOfSet, SeqOfPart
  <2>. QED BY <1>4, <2>3
<1>. QED BY <1>1, <1>2, <1>3, <1>4 DEF Operations

LEMMA ReadAnswerKeeps ==
  ASSUME StoreInv, ReadAnswer
  PROVE  StoreInv'
<1>0. /\ phase = "reading" /\ ~ ByKey /\ ~ ByPage /\ result' \in Answers /\ phase' = "done"
      /\ UNCHANGED <<driver, filter_error_trace, writing, op, asked, snapshot, hits, read>>
  BY DEF ReadAnswer
<1>1. result' \in Seq(Events) /\ read' \subseteq Traces
  BY <1>0, AnswersAre DEF StoreInv, StoreShape
<1>2. Answering'
  <2>1. Answers' = Answers
    BY <1>0 DEF Answers, ReportRows, TraceRows, OldRows, OldSchema
  <2>. QED BY <1>0, <2>1 DEF Answering
<1>3. Listing' /\ Paging' /\ MarksSorted'
  BY <1>0 DEF Listing, ListsByKey, Paging, MarksSorted, Done, ByKey, ByPage
<1>. QED BY <1>0, <1>1, <1>2, <1>3, ReaderKeeps

LEMMA StoreStep == ASSUME StoreInv, [StoreNext]_storeVars PROVE StoreInv'
<1>1. CASE StoreNext
  BY <1>1, ServiceKeeps, CallKeeps, ReadKeyKeeps, KeysEndKeeps, ReadPageKeeps, PagesEndKeeps,
     ReadAnswerKeeps DEF StoreNext
<1>2. CASE UNCHANGED storeVars
  <2>1. ToolWaits /\ data' = data /\ UNCHANGED writing
    BY <1>2 DEF storeVars, ToolWaits, writing
  <2>2. Snapshots' /\ Listing' /\ Paging' /\ Answering' /\ MarksSorted'
    BY <2>1, DataKept, ToolUndisturbed
  <2>3. StoreShape' /\ Filing'
    BY <2>1 DEF StoreInv, StoreShape, Filing, ToolWaits, reading, writing, Overridden
  <2>4. Writers' /\ Marking'
    BY <2>1 DEF StoreInv, Writers, Unsent, InBetween, Marking, MarksErrors, Pending, KeysOf,
                ToolWaits, writing
  <2>. QED BY <2>2, <2>3, <2>4 DEF StoreInv
<1>. QED BY <1>1, <1>2

-----------------------------------------------------------------------------
(* What the answers hold.                                                  *)

LEMMA OpWhenDone ==
  ASSUME StoreInv, phase = "done"
  PROVE  /\ op \in Operations
         /\ op = "errors" => driver \in {"redis", "mongodb", "elasticsearch"}
         /\ op = "traces" => driver \in {"redis", "mongodb", "elasticsearch", "sqlalchemy"}
         /\ asked \in Traces
<1>1. op \in Overridden /\ asked \in Traces /\ driver \in AllDrivers
  BY DEF StoreInv, StoreShape
<1>. QED BY <1>1 DEF Overridden, Operations, AllDrivers

(* All the hits were read.                                                 *)
LEMMA AllPages ==
  ASSUME StoreInv, phase = "done", ByPage
  PROVE  /\ result = hits
         /\ op = "report" => /\ IsInjective(result)
                             /\ Range(result) = Range(snapshot[asked])
         /\ op # "report" => /\ IsInjective(result) /\ Sorted(result)
                             /\ Range(result) = RowsIn(snapshot)
<1>1. /\ RightHits /\ Len(result) = Len(hits) /\ \A i \in DOMAIN result : result[i] = hits[i]
      /\ result \in Seq(Events) /\ hits \in Seq(Events)
      /\ snapshot \in Filed /\ IsFiniteSet(RowsIn(snapshot)) /\ asked \in Traces
  BY DEF StoreInv, StoreShape, Paging, Filing
<1>2. result = hits
  BY <1>1
<1>3. CASE op = "report"
  <2>1. IsFiniteSet(Range(snapshot[asked]))
    BY <1>1, FiniteRow
  <2>2. result \in SetToSeqs(Range(snapshot[asked]))
    BY <1>1, <1>2, <1>3 DEF RightHits
  <2>. QED BY <1>2, <1>3, <2>1, <2>2, SeqOfSet
<1>4. CASE op # "report"
  <2>1. result \in InTimeOrder(RowsIn(snapshot))
    BY <1>1, <1>2, <1>4 DEF RightHits
  <2>. QED BY <1>1, <1>2, <1>4, <2>1, OrderOfSet
<1>. QED BY <1>2, <1>3, <1>4

LEMMA RowOfItsTrace ==
  ASSUME StoreInv, NEW e \in RowsIn(snapshot)
  PROVE  e.base_id \in Traces /\ e \in Range(snapshot[e.base_id])
BY DEF StoreInv, Filing, UnderItsTrace, RowsIn

LEMMA SnapshotKeys ==
  ASSUME StoreInv, op = "traces"
  PROVE  /\ KeysOf(snapshot) \subseteq KeysOf(data)
         /\ \A k \in Traces : Range(snapshot[k]) # {} <=> k \in KeysOf(snapshot)
         /\ \A k \in Traces : Len(snapshot[k]) \in Nat /\ (Len(snapshot[k]) > 0 => k \in KeysOf(snapshot))
<1>1. snapshot \in Filed /\ data \in Filed /\ Snapshots
  BY DEF StoreInv, StoreShape
<1>2. \A k \in Traces : Range(snapshot[k]) \subseteq Range(data[k])
  BY <1>1 DEF Snapshots
<1>3. \A k \in Traces : /\ Range(snapshot[k]) # {} <=> snapshot[k] # << >>
                        /\ Range(snapshot[k]) # {} <=> Len(snapshot[k]) > 0
                        /\ Range(data[k]) # {} <=> data[k] # << >>
                        /\ Len(snapshot[k]) \in Nat
  BY <1>1, RangeOfRow
<1>. QED BY <1>2, <1>3 DEF KeysOf

LEMMA ListedByKey ==
  ASSUME StoreInv, Done("traces"), driver \in {"redis", "mongodb"}
  PROVE  /\ read \subseteq KeysOf(data) /\ KeysOf(snapshot) \subseteq read
         /\ RowsAreOfTheirSchema /\ OneRowOfASchema /\ OldTracesListed /\ NewTracesListed
BY DEF StoreInv, Listing, ListsByKey, Done

LEMMA ListedByQuery ==
  ASSUME StoreInv, Done("traces"), driver = "sqlalchemy"
  PROVE  \E row \in [KeysOf(snapshot) -> RowsIn(snapshot)] :
           LET S == {row[k] : k \in KeysOf(snapshot)} IN
           /\ \A k \in KeysOf(snapshot) : row[k] \in Range(snapshot[k]) /\ row[k].base_id = k
           /\ IsInjective(result) /\ Range(result) = S
<1>1. result \in TraceRows
  BY AnswersAre DEF StoreInv, Answering, Done, ByKey, ByPage
<1>. QED BY <1>1, FirstRowsAre

LEMMA InvTracesListed == ASSUME StoreInv PROVE StoredTracesListed
<1>. SUFFICES ASSUME Done("traces"), NEW k \in Traces, Enough(k) PROVE RowsOf(k) # {}
  BY DEF StoredTracesListed
<1>1. op = "traces" /\ phase = "done" /\ driver \in {"redis", "mongodb", "elasticsearch", "sqlalchemy"}
  BY OpWhenDone DEF Done
<1>2. driver # "redis" => k \in KeysOf(snapshot)
  BY <1>1, Keys, SnapshotKeys DEF Enough, AtCall
<1>3. CASE driver = "redis"
  <2>1. CASE Len(snapshot[k]) >= 2
    <3>1. k \in read
      BY <1>1, <1>3, <2>1, SnapshotKeys, ListedByKey
    <3>. QED BY <1>3, <2>1, <3>1, ListedByKey DEF NewTracesListed
  <2>2. CASE k \in OldKeys
    <3>1. \E i \in DOMAIN result : result[i] = Earliest(OldRows(k))
      BY <1>3, <2>2, ListedByKey DEF OldTracesListed
    <3>. QED BY <2>2, <3>1, FirstOfTheOld DEF RowsOf
  <2>. QED BY <1>3, <2>1, <2>2 DEF Enough
<1>4. CASE driver = "mongodb"
  <2>1. EarliestListed(k)
    BY <1>2, <1>4, ListedByKey DEF NewTracesListed
  <2>. QED BY <2>1 DEF EarliestListed, RowsOf
<1>5. CASE driver = "elasticsearch"
  <2>1. Range(result) = RowsIn(snapshot)
    BY <1>1, <1>5, AllPages DEF ByPage
  <2>2. PICK e : e \in Range(snapshot[k])
    BY <1>1, <1>2, <1>5, SnapshotKeys
  <2>3. e \in RowsIn(snapshot) /\ e.base_id = k
    BY <2>2 DEF RowsIn, StoreInv, Filing, UnderItsTrace
  <2>. QED BY <2>1, <2>3 DEF Range, RowsOf
<1>6. CASE driver = "sqlalchemy"
  <2>1. PICK row \in [KeysOf(snapshot) -> RowsIn(snapshot)] :
          /\ \A j \in KeysOf(snapshot) : row[j] \in Range(snapshot[j]) /\ row[j].base_id = j
          /\ Range(result) = {row[j] : j \in KeysOf(snapshot)}
    BY <1>6, ListedByQuery
  <2>2. row[k] \in Range(result) /\ row[k].base_id = k
    BY <1>2, <1>6, <2>1
  <2>. QED BY <2>2 DEF Range, RowsOf
<1>. QED BY <1>1, <1>3, <1>4, <1>5, <1>6

LEMMA AtMostOne ==
  ASSUME NEW S, \A i, j \in S : i = j
  PROVE  /\ IsFiniteSet(S) /\ Cardinality(S) \in Nat
         /\ Cardinality(S) <= 1
         /\ S = {} => Cardinality(S) = 0
<1>1. CASE S = {}
  BY <1>1, FS_EmptySet
<1>2. CASE S # {}
  <2>1. PICK x : x \in S
    BY <1>2
  <2>2. S = {x}
    BY <2>1
  <2>3. IsFiniteSet({x}) /\ Cardinality({x}) = 1
    BY FS_Singleton
  <2>. QED BY <1>2, <2>2, <2>3
<1>. QED BY <1>1, <1>2

LEMMA InvListedOnce == ASSUME StoreInv PROVE TracesListedOnce
<1>. SUFFICES ASSUME Done("traces"), NEW k \in Traces
              PROVE  Cardinality(RowsOf(k)) <= IF driver = "elasticsearch"
                                               THEN Cardinality(AtCall(k)) ELSE Schemas(k)
  BY DEF TracesListedOnce
<1>1. op = "traces" /\ phase = "done" /\ driver \in {"redis", "mongodb", "elasticsearch", "sqlalchemy"}
  BY OpWhenDone DEF Done
<1>2. CASE driver \in {"redis", "mongodb"}
  <2>. DEFINE Old == {i \in RowsOf(k) : IsOld(i)}
              New == {i \in RowsOf(k) : ~ IsOld(i)}
  <2>1. (\A i, j \in Old : i = j) /\ (\A i, j \in New : i = j)
    BY <1>2, ListedByKey DEF OneRowOfASchema, RowsOf
  <2>2. k \notin OldKeys => Old = {}
    BY DEF IsOld, OldKeys, RowsOf
  <2>3. k \notin KeysOf(data) => New = {}
    BY <1>2, ListedByKey DEF RowsAreOfTheirSchema, RowsOf
  <2>4. RowsOf(k) = Old \cup New /\ Old \cap New = {}
    OBVIOUS
  <2>. HIDE DEF Old, New
  <2>5. /\ IsFiniteSet(Old) /\ Cardinality(Old) \in Nat /\ Cardinality(Old) <= 1
        /\ Old = {} => Cardinality(Old) = 0
    BY <2>1, AtMostOne
  <2>6. /\ IsFiniteSet(New) /\ Cardinality(New) \in Nat /\ Cardinality(New) <= 1
        /\ New = {} => Cardinality(New) = 0
    BY <2>1, AtMostOne
  <2>7. Cardinality(Old \cup New) = Cardinality(Old) + Cardinality(New) - Cardinality({})
    BY <2>4, <2>5, <2>6, FS_Union
  <2>8. Cardinality({}) = 0
    BY FS_EmptySet
  <2>9. Cardinality(RowsOf(k)) = Cardinality(Old) + Cardinality(New)
    BY <2>4, <2>5, <2>6, <2>7, <2>8
  <2>. QED BY <1>2, <2>2, <2>3, <2>5, <2>6, <2>9 DEF Schemas
<1>3. CASE driver = "elasticsearch"
  <2>1. IsInjective(result) /\ Range(result) = RowsIn(snapshot)
    BY <1>1, <1>3, AllPages DEF ByPage
  <2>. DEFINE f == [i \in RowsOf(k) |-> result[i]]
  <2>2. IsFiniteSet(AtCall(k))
    <3>1. IsFiniteSet(Range(snapshot[k])) /\ OldRows(k) = {}
      BY <1>3, FiniteRow, Keys DEF StoreInv, StoreShape, Filing
    <3>. QED BY <3>1 DEF AtCall
  <2>3. \A i \in RowsOf(k) : result[i] \in AtCall(k)
    <3>. SUFFICES ASSUME NEW i \in RowsOf(k) PROVE result[i] \in AtCall(k)
      OBVIOUS
    <3>1. result[i] \in RowsIn(snapshot) /\ result[i].base_id = k
      BY <2>1 DEF RowsOf, Range
    <3>. QED BY <3>1, RowOfItsTrace DEF AtCall
  <2>4. f \in Injection(RowsOf(k), AtCall(k))
    BY <2>1, <2>3 DEF Injection, IsInjective, RowsOf
  <2>. QED BY <1>3, <2>2, <2>4, FS_Injection
<1>4. CASE driver = "sqlalchemy"
  <2>1. PICK row \in [KeysOf(snapshot) -> RowsIn(snapshot)] :
          /\ \A j \in KeysOf(snapshot) : row[j].base_id = j
          /\ IsInjective(result) /\ Range(result) = {row[j] : j \in KeysOf(snapshot)}
    BY <1>4, ListedByQuery
  <2>2. \A i \in RowsOf(k) : k \in KeysOf(snapshot) /\ result[i] = row[k]
    BY <2>1 DEF RowsOf, Range
  <2>3. \A i, j \in RowsOf(k) : i = j
    BY <2>1, <2>2 DEF IsInjective, RowsOf
  <2>4. k \notin KeysOf(data) => RowsOf(k) = {}
    BY <1>1, <2>2, SnapshotKeys
  <2>5. /\ Cardinality(RowsOf(k)) \in Nat /\ Cardinality(RowsOf(k)) <= 1
        /\ RowsOf(k) = {} => Cardinality(RowsOf(k)) = 0
    BY <2>3, AtMostOne
  <2>. QED BY <1>4, <2>4, <2>5 DEF Schemas
<1>. QED BY <1>1, <1>2, <1>3, <1>4

LEMMA InvAtItsStart == ASSUME StoreInv PROVE ListedAtItsStart
<1>. SUFFICES ASSUME Done("traces"), NEW k \in Traces, driver # "sqlalchemy",
                     NEW known, known = IF driver = "redis" THEN OldRows(k) ELSE AtCall(k),
                     known # {}
              PROVE  \E i \in RowsOf(k) : \A e \in known : result[i].timestamp <= e.timestamp
  BY DEF ListedAtItsStart
<1>1. op = "traces" /\ phase = "done" /\ driver \in {"redis", "mongodb", "elasticsearch"}
  BY OpWhenDone DEF Done
<1>2. driver # "redis" => known = Range(snapshot[k]) /\ k \in KeysOf(snapshot)
  <2>1. driver # "redis" => OldRows(k) = {}
    BY Keys
  <2>. QED BY <1>1, <2>1, SnapshotKeys DEF AtCall
<1>3. CASE driver = "redis"
  <2>1. k \in OldKeys
    BY <1>3, Keys
  <2>2. PICK i \in DOMAIN result : result[i] = Earliest(OldRows(k))
    BY <1>3, <2>1, ListedByKey DEF OldTracesListed
  <2>. QED BY <1>3, <2>1, <2>2, FirstOfTheOld DEF RowsOf
<1>4. CASE driver = "mongodb"
  <2>1. EarliestListed(k)
    BY <1>2, <1>4, ListedByKey DEF NewTracesListed
  <2>. QED BY <1>2, <1>4, <2>1 DEF EarliestListed, RowsOf
<1>5. CASE driver = "elasticsearch"
  <2>1. Range(result) = RowsIn(snapshot)
    BY <1>1, <1>5, AllPages DEF ByPage
  <2>2. known \in SUBSET Events
    BY <1>2, <1>5, RangeOfRow DEF StoreInv, StoreShape
  <2>3. PICK m \in known : \A e \in known : m.timestamp <= e.timestamp
    BY <2>2, EarliestOf
  <2>4. m \in RowsIn(snapshot) /\ m.base_id = k
    BY <1>2, <1>5, <2>3 DEF RowsIn, StoreInv, Filing, UnderItsTrace
  <2>. QED BY <2>1, <2>3, <2>4 DEF Range, RowsOf
<1>. QED BY <1>1, <1>3, <1>4, <1>5

LEMMA InvReportRead == ASSUME StoreInv PROVE ReportReadsItsTrace
<1>. SUFFICES ASSUME Done("report")
              PROVE  Range(result) = AtCall(asked) /\ IsInjective(result)
  BY DEF ReportReadsItsTrace
<1>1. phase = "done" /\ op = "report" /\ ~ ByKey
  BY DEF Done, ByKey
<1>2. CASE ByPage
  <2>1. OldRows(asked) = {}
    BY <1>2, Keys DEF ByPage
  <2>. QED BY <1>1, <1>2, <2>1, AllPages DEF AtCall
<1>3. CASE ~ ByPage
  <2>1. result \in Answers
    BY <1>1, <1>3 DEF StoreInv, Answering
  <2>. QED BY <1>1, <2>1, AnswersAre, ReportRowsAre
<1>. QED BY <1>2, <1>3

LEMMA InvErrorsMarked == ASSUME StoreInv PROVE ErrorsMarked
<1>1. ASSUME Done("errors"), driver # "mongodb" PROVE Sorted(result)
  <2>1. phase = "done" /\ op = "errors" /\ driver \in {"redis", "elasticsearch"}
    BY <1>1, OpWhenDone DEF Done
  <2>2. CASE driver = "redis"
    BY <1>1, <2>1, <2>2 DEF StoreInv, MarksSorted, ByKey
  <2>3. CASE driver = "elasticsearch"
    BY <2>1, <2>3, AllPages DEF ByPage
  <2>. QED BY <2>1, <2>2, <2>3
<1>. QED BY <1>1 DEF StoreInv, Marking, ErrorsMarked

-----------------------------------------------------------------------------
(* StoreInv is an invariant of the stores: whatever the services send and  *)
(* whichever writes fail, what a tool has read fits what was there.        *)
THEOREM StoresInv == StoreSpec => []StoreInv
<1>1. StoreInit => StoreInv
  BY StoreStart
<1>2. StoreInv /\ [StoreNext]_storeVars => StoreInv'
  BY StoreStep
<1>. QED BY <1>1, <1>2, PTL DEF StoreSpec

(* No trace that was stored before a listing began is overlooked by it,    *)
(* but one of which redis has a single notification.                       *)
THEOREM NoTraceOverlooked == StoreSpec => []StoredTracesListed
BY StoresInv, InvTracesListed, PTL

(* A listing has a trace once: twice if redis has it in both schemas, and  *)
(* once for every notification if elasticsearch lists it.                  *)
THEOREM TracesAreListedOnce == StoreSpec => []TracesListedOnce
BY StoresInv, InvListedOnce, PTL

(* A trace is listed with the earliest of the timestamps that were known.  *)
THEOREM TracesAreListedAtTheirStart == StoreSpec => []ListedAtItsStart
BY StoresInv, InvAtItsStart, PTL

(* A report is made of the notifications of its trace, all and each once.  *)
THEOREM ReportsReadTheirTrace == StoreSpec => []ReportReadsItsTrace
BY StoresInv, InvReportRead, PTL

(* Every error stored is marked, being marked, or its driver has raised;   *)
(* redis and mongodb mark a trace once; marks are listed in time order.    *)
THEOREM NoErrorForgotten == StoreSpec => []ErrorsMarked
BY StoresInv, InvErrorsMarked, PTL

-----------------------------------------------------------------------------
(* LogInsight.                                                             *)

Sessions == 1 .. granted \cup {None}
Labels == Ended \cup Locked \cup {"query", "lock", "retry"}

(* The shape of the variables.                                             *)
Shape ==
  /\ session_id \in Sessions
  /\ lock \in Threads \cup {None}
  /\ pc \in [Threads -> Labels]
  /\ attempt \in [Threads -> 0 .. 2]
  /\ used \in [Threads -> Sessions]
  /\ refused \in [Threads -> Sessions]
  /\ active \subseteq 1 .. granted
  /\ granted \in Nat /\ expired \in Nat /\ errors \in Nat

(* login() is left with the lock free, on every way out.                   *)
Mutex == \A t \in Threads : pc[t] \in Locked <=> lock = t

(* Inside login(): the session that is checked is the client's, since only *)
(* the holder of the lock changes it, and the one granted is the newest.   *)
Inside == \A t \in Threads : /\ pc[t] = "check" => used[t] = session_id
                             /\ pc[t] = "granted" => used[t] = granted /\ granted > 0

LoginInv == Shape /\ Mutex /\ Inside

ThreadStep(t) == Query(t) \/ Answer(t) \/ Acquire(t) \/ QueryFails(t) \/ LoginFails(t)

LEMMA NextSteps ==
  ASSUME Next
  PROVE  \/ \E t \in Threads : \/ Query(t) \/ Answered(t) \/ Refused(t) \/ QueryFails(t)
                               \/ Acquire(t) \/ SessionIsActive(t) \/ SessionIsNotActive(t)
                               \/ Grant(t) \/ Login(t) \/ LoginFails(t) \/ Retry(t)
         \/ Construct
         \/ \E s \in active : Expire(s)
BY DEF Next, Answer

LEMMA LoginInit == ASSUME Init PROVE LoginInv
BY NoneAssumption DEF Init, LoginInv, Shape, Mutex, Inside, Sessions, Labels, Ended, Locked

LEMMA LabelsAre ==
  /\ {"idle", "failed", "timedout", "check", "login", "granted", "query", "lock", "retry"}
       \subseteq Labels
  /\ Locked \subseteq Labels /\ Ended \subseteq Labels
BY DEF Labels, Ended, Locked

LEMMA ShapeStep ==
  ASSUME LoginInv, Next
  PROVE  Shape'
<1>. USE DEF LoginInv, Shape, Goto, Attach
<1>0. /\ None \in Sessions /\ None \in Sessions'
      /\ 1 \in 0 .. 2 /\ 2 \in 0 .. 2 /\ 0 \in 0 .. 2
  BY DEF Sessions
<1>a. ServerWaits => Sessions' = Sessions
  BY DEF ServerWaits, Sessions
<1>b. ServerWaits => /\ active' \subseteq 1 .. granted' /\ granted' \in Nat /\ expired' \in Nat
  BY DEF ServerWaits
<1>c. Error => errors' \in Nat
  BY DEF Error
<1>1. ASSUME NEW t \in Threads, Query(t)
      PROVE  Shape'
  BY <1>0, <1>1, <1>a, <1>b, LabelsAre DEF Query
<1>2. ASSUME NEW t \in Threads, Answered(t) \/ QueryFails(t)
      PROVE  Shape'
  BY <1>2, <1>a, <1>b, <1>c, LabelsAre DEF Answered, QueryFails
<1>3. ASSUME NEW t \in Threads, Refused(t)
      PROVE  Shape'
  BY <1>3, <1>a, <1>b, LabelsAre DEF Refused
<1>4. ASSUME NEW t \in Threads, Acquire(t)
      PROVE  Shape'
  BY <1>4, <1>a, <1>b, LabelsAre DEF Acquire, AfterLock
<1>5. ASSUME NEW t \in Threads, SessionIsActive(t)
      PROVE  Shape'
  BY <1>0, <1>5, <1>a, <1>b, LabelsAre DEF SessionIsActive, LoggedIn
<1>6. ASSUME NEW t \in Threads, SessionIsNotActive(t)
      PROVE  Shape'
  BY <1>6, <1>a, <1>b, <1>c, LabelsAre DEF SessionIsNotActive
<1>7. ASSUME NEW t \in Threads, Grant(t)
      PROVE  Shape'
  <2>1. granted' = granted + 1 /\ active' = active \cup {granted'}
    BY <1>7 DEF Grant
  <2>2. active' \subseteq 1 .. granted'
    BY <2>1
  <2>3. Sessions \subseteq Sessions' /\ granted' \in Sessions'
    BY <2>1 DEF Sessions
  <2>4. used' = [used EXCEPT ![t] = granted']
    BY <1>7 DEF Grant
  <2>5. used' \in [Threads -> Sessions']
    BY <2>3, <2>4
  <2>6. refused' \in [Threads -> Sessions'] /\ session_id' \in Sessions'
    BY <1>7, <2>3 DEF Grant
  <2>7. pc' \in [Threads -> Labels]
    BY <1>7, LabelsAre DEF Grant
  <2>. QED BY <1>7, <2>1, <2>2, <2>5, <2>6, <2>7 DEF Grant
<1>8. ASSUME NEW t \in Threads, Login(t)
      PROVE  Shape'
  BY <1>0, <1>8, <1>a, <1>b, LabelsAre DEF Login, LoggedIn
<1>9. ASSUME NEW t \in Threads, LoginFails(t)
      PROVE  Shape'
  BY <1>9, <1>a, <1>b, <1>c, LabelsAre DEF LoginFails, LockAfterError
<1>10. ASSUME Construct
       PROVE  Shape'
  BY <1>10, <1>a, <1>b, LabelsAre, BuilderAssumption DEF Construct
<1>11. ASSUME NEW s \in active, Expire(s)
       PROVE  Shape'
  BY <1>11 DEF Expire, client, Sessions
<1>12. ASSUME NEW t \in Threads, Retry(t)
       PROVE  Shape'
  BY <1>0, <1>12, <1>a, <1>b, LabelsAre DEF Retry, RetryWith
<1>. QED BY NextSteps, <1>1, <1>2, <1>3, <1>4, <1>5, <1>6, <1>7, <1>8, <1>9, <1>10, <1>11, <1>12

LEMMA GrantKeepsOut ==
  ASSUME LoginInv, NEW t \in Threads, Grant(t)
  PROVE  Mutex' /\ Inside'
<1>1. /\ pc' = [pc EXCEPT ![t] = "granted"] /\ used' = [used EXCEPT ![t] = granted']
      /\ pc[t] = "login" /\ lock' = lock
  BY DEF Grant, Goto, Attach
<1>2. pc \in [Threads -> Labels] /\ used \in [Threads -> Sessions] /\ Mutex
  BY DEF LoginInv, Shape
<1>3. lock = t
  BY <1>1, <1>2 DEF Mutex, Locked
<1>4. pc'[t] = "granted" /\ used'[t] = granted'
  BY <1>1, <1>2
<1>5. \A u \in Threads \ {t} : pc'[u] = pc[u] /\ pc[u] \notin Locked
  BY <1>1, <1>2, <1>3 DEF Mutex
<1>6. granted' > 0
  <2>1. granted \in Nat
    BY DEF LoginInv, Shape
  <2>2. granted' = granted + 1
    BY DEF Grant
  <2>. QED BY <2>1, <2>2
<1>7. Mutex'
  BY <1>1, <1>2, <1>3, <1>4, <1>5 DEF Mutex, Locked
<1>8. Inside'
  BY <1>4, <1>5, <1>6 DEF Inside, Locked
<1>. QED BY <1>7, <1>8

LEMMA MutexStep ==
  ASSUME LoginInv, Next
  PROVE  Mutex' /\ Inside'
<1>. USE DEF LoginInv, Shape, Mutex, Inside, Sessions, Labels, Ended, Locked, Goto, Attach,
             ServerWaits
<1>0. None \notin Threads /\ None \notin Nat
  BY NoneAssumption
<1>1. ASSUME NEW t \in Threads, Query(t)
      PROVE  Mutex' /\ Inside'
  BY <1>1 DEF Query
<1>2. ASSUME NEW t \in Threads, Answered(t) \/ QueryFails(t)
      PROVE  Mutex' /\ Inside'
  BY <1>2 DEF Answered, QueryFails
<1>3. ASSUME NEW t \in Threads, Refused(t)
      PROVE  Mutex' /\ Inside'
  BY <1>3 DEF Refused
<1>4. ASSUME NEW t \in Threads, Acquire(t)
      PROVE  Mutex' /\ Inside'
  BY <1>0, <1>4 DEF Acquire, AfterLock, FreeLock
<1>5. ASSUME NEW t \in Threads, SessionIsActive(t)
      PROVE  Mutex' /\ Inside'
  BY <1>0, <1>5 DEF SessionIsActive, LoggedIn
<1>6. ASSUME NEW t \in Threads, SessionIsNotActive(t)
      PROVE  Mutex' /\ Inside'
  BY <1>6 DEF SessionIsNotActive
<1>7. ASSUME NEW t \in Threads, Grant(t)
      PROVE  Mutex' /\ Inside'
  BY <1>7, GrantKeepsOut
<1>8. ASSUME NEW t \in Threads, Login(t)
      PROVE  Mutex' /\ Inside'
  BY <1>0, <1>8 DEF Login, LoggedIn
<1>9. ASSUME NEW t \in Threads, LoginFails(t)
      PROVE  Mutex' /\ Inside'
  BY <1>0, <1>9 DEF LoginFails, LockAfterError
<1>10. ASSUME Construct
       PROVE  Mutex' /\ Inside'
  BY <1>10, BuilderAssumption DEF Construct
<1>11. ASSUME NEW s \in active, Expire(s)
       PROVE  Mutex' /\ Inside'
  BY <1>11 DEF Expire, client
<1>12. ASSUME NEW t \in Threads, Retry(t)
       PROVE  Mutex' /\ Inside'
  BY <1>12 DEF Retry
<1>. QED BY NextSteps, <1>1, <1>2, <1>3, <1>4, <1>5, <1>6, <1>7, <1>8, <1>9, <1>10, <1>11, <1>12

LEMMA LoginInvariant == Spec => []LoginInv
<1>1. ASSUME LoginInv, [Next]_vars
      PROVE  LoginInv'
  <2>1. CASE Next
    BY <1>1, <2>1, ShapeStep, MutexStep DEF LoginInv
  <2>2. CASE UNCHANGED vars
    BY <1>1, <2>2 DEF vars, client, LoginInv, Shape, Mutex, Inside, Sessions
  <2>. QED BY <1>1, <2>1, <2>2
<1>. QED BY <1>1, LoginInit, PTL DEF Spec

(* The lock of login() is held by the one thread that is inside, and free  *)
(* when nobody is, however its requests end.                               *)
THEOREM LockIsReleased == Spec => []LoginTypeOK
<1>1. LoginInv => LoginTypeOK
  BY DEF LoginInv, Shape, Mutex, LoginTypeOK, Sessions, Labels
<1>. QED BY <1>1, LoginInvariant, PTL

-----------------------------------------------------------------------------
(* How many sessions there are.  Those that the server still knows, the    *)
(* one the client uses (or is about to use) apart, are each owed to an     *)
(* error: a login whose answer was lost, or one that followed a check that *)
(* failed.  While the new session is being asked for there is none apart.  *)
Current ==
  IF lock = None THEN {session_id}
  ELSE CASE pc[lock] = "check"   -> {session_id}
         [] pc[lock] = "login"   -> {}
         [] pc[lock] = "granted" -> {used[lock]}

Counted == IsFiniteSet(active) /\ granted = expired + Cardinality(active)
Spare == Cardinality(active \ Current) <= errors
Balance == Counted /\ Spare
CountInv == LoginInv /\ Balance

LEMMA Without ==
  ASSUME NEW S, IsFiniteSet(S), NEW x
  PROVE  /\ IsFiniteSet(S \ {x})
         /\ Cardinality(S) \in Nat /\ Cardinality(S \ {x}) \in Nat
         /\ Cardinality(S \ {x}) <= Cardinality(S)
         /\ Cardinality(S) <= Cardinality(S \ {x}) + 1
         /\ x \notin S => S \ {x} = S
<1>1. IsFiniteSet(S \ {x}) /\ Cardinality(S) \in Nat
  BY FS_RemoveElement, FS_CardinalityType
<1>2. Cardinality(S \ {x}) \in Nat
  BY <1>1, FS_CardinalityType
<1>3. Cardinality(S \ {x}) = IF x \in S THEN Cardinality(S) - 1 ELSE Cardinality(S)
  BY FS_RemoveElement
<1>4. x \notin S => S \ {x} = S
  OBVIOUS
<1>. QED BY <1>1, <1>2, <1>3, <1>4

LEMMA SpareBounds ==
  ASSUME Counted, Spare, errors \in Nat, Current = {} \/ \E x : Current = {x}
  PROVE  Cardinality(active) <= errors + 1
<1>1. Cardinality(active \ Current) <= errors /\ Cardinality(active) \in Nat
  BY FS_CardinalityType DEF Spare, Counted
<1>2. CASE Current = {}
  <2>1. active \ Current = active
    BY <1>2
  <2>. QED BY <1>1, <2>1
<1>3. CASE \E x : Current = {x}
  <2>1. PICK x : Current = {x}
    BY <1>3
  <2>2. Cardinality(active \ Current) \in Nat
    BY <2>1, Without DEF Counted
  <2>3. Cardinality(active) <= Cardinality(active \ Current) + 1
    BY <2>1, Without DEF Counted
  <2>. QED BY <1>1, <2>2, <2>3
<1>. QED BY <1>2, <1>3

(* Who is outside of login() changes neither the lock nor what is current. *)
LEMMA OutsideStep ==
  ASSUME CountInv, UNCHANGED <<session_id, lock, active, granted, expired>>,
         errors' \in Nat, errors' >= errors,
         NEW t \in Threads, pc[t] \notin Locked,
         \A u \in Threads \ {t} : pc'[u] = pc[u] /\ used'[u] = used[u]
  PROVE  Balance'
<1>1. lock # t
  BY DEF CountInv, LoginInv, Mutex
<1>2. lock = None \/ lock \in Threads \ {t}
  BY <1>1 DEF CountInv, LoginInv, Shape
<1>3. Current' = Current
  <2>1. CASE lock = None
    BY <2>1 DEF Current
  <2>2. CASE lock \in Threads \ {t}
    <3>1. pc'[lock] = pc[lock] /\ used'[lock] = used[lock] /\ lock # None
      BY <2>2, NoneAssumption
    <3>. QED BY <3>1 DEF Current
  <2>. QED BY <1>2, <2>1, <2>2
<1>4. active \ Current = active \/ \E x : active \ Current = active \ {x}
  <2>1. lock # None => pc[lock] \in Locked
    BY <1>2 DEF CountInv, LoginInv, Mutex
  <2>2. Current = {} \/ \E x : Current = {x}
    BY <2>1 DEF Current, Locked
  <2>. QED BY <2>2
<1>5. Cardinality(active \ Current) \in Nat /\ errors \in Nat
  BY <1>4, Without, FS_CardinalityType DEF CountInv, Balance, Counted, LoginInv, Shape
<1>. QED BY <1>3, <1>5 DEF CountInv, Balance, Counted, Spare

LEMMA CountInit == ASSUME Init PROVE CountInv
<1>1. IsFiniteSet({}) /\ Cardinality({}) = 0
  BY FS_EmptySet
<1>2. active \ Current = {}
  BY DEF Init
<1>. QED BY <1>1, <1>2, LoginInit DEF Init, CountInv, Balance, Counted, Spare

LEMMA BalanceStep ==
  ASSUME CountInv, Next
  PROVE  Balance'
<1>0. /\ LoginInv /\ Counted /\ Spare
      /\ None \notin Threads /\ None \notin Nat
      /\ errors \in Nat /\ granted \in Nat /\ expired \in Nat /\ active \subseteq 1 .. granted
  BY NoneAssumption DEF CountInv, Balance, LoginInv, Shape
<1>a. Cardinality(active) \in Nat
  BY <1>0, Without DEF Counted
<1>1. ASSUME NEW t \in Threads, Query(t) \/ Answered(t) \/ Refused(t) \/ QueryFails(t) \/ Retry(t)
      PROVE  Balance'
  <2>1. /\ UNCHANGED <<session_id, lock, active, granted, expired>>
        /\ errors' \in Nat /\ errors' >= errors
    <3>1. UNCHANGED <<session_id, lock, active, granted, expired>>
      BY <1>1 DEF Query, Answered, Refused, QueryFails, Retry, ServerWaits
    <3>2. errors' = errors \/ errors' = errors + 1
      BY <1>1 DEF Query, Answered, Refused, QueryFails, Retry, Error
    <3>. QED BY <1>0, <3>1, <3>2
  <2>2. pc[t] \notin Locked
    BY <1>1 DEF Query, Answered, Refused, QueryFails, Retry, Locked, Ended
  <2>3. \A u \in Threads \ {t} : pc'[u] = pc[u] /\ used'[u] = used[u]
    BY <1>0, <1>1 DEF Query, Answered, Refused, QueryFails, Retry, Goto, Attach, LoginInv, Shape
  <2>. QED BY <2>1, <2>2, <2>3, OutsideStep
<1>2. ASSUME Construct
      PROVE  Balance'
  <2>1. UNCHANGED <<session_id, lock, active, granted, expired, errors, used>>
    BY <1>2 DEF Construct, ServerWaits
  <2>2. pc[Builder] \notin Locked
    BY <1>2 DEF Construct, Locked, Ended
  <2>3. \A u \in Threads \ {Builder} : pc'[u] = pc[u]
    BY <1>0, <1>2 DEF Construct, Goto, LoginInv, Shape
  <2>. QED BY <1>0, <2>1, <2>2, <2>3, BuilderAssumption, OutsideStep
<1>3. ASSUME NEW t \in Threads, Acquire(t)
      PROVE  Balance'
  <2>1. lock = None /\ lock' = t /\ pc'[t] = AfterLock
    BY <1>0, <1>3 DEF Acquire, FreeLock, Goto, LoginInv, Shape
  <2>2. UNCHANGED <<session_id, active, granted, expired, errors>>
    BY <1>3 DEF Acquire, ServerWaits
  <2>3. Current = {session_id} /\ t # None
    BY <1>0, <2>1 DEF Current
  <2>4. CASE session_id = None
    <3>1. Current' = {}
      BY <2>1, <2>3, <2>4 DEF Current, AfterLock, Built
    <3>2. active \ {session_id} = active /\ active \ {} = active
      <4>1. \A x \in active : x \in Nat
        BY <1>0
      <4>2. None \notin active
        BY <1>0, <4>1
      <4>. QED BY <2>4, <4>2
    <3>3. active' \ Current' = active \ Current
      BY <2>2, <2>3, <3>1, <3>2
    <3>4. Counted'
      BY <1>0, <2>2 DEF Counted
    <3>. QED BY <1>0, <2>2, <3>3, <3>4 DEF Balance, Spare
  <2>5. CASE session_id # None
    <3>1. Current' = {session_id}
      BY <2>1, <2>2, <2>3, <2>5 DEF Current, AfterLock, Built
    <3>. QED BY <1>0, <2>2, <2>3, <3>1 DEF Balance, Counted, Spare
  <2>. QED BY <2>4, <2>5
<1>4. ASSUME NEW t \in Threads, pc[t] \in Locked, UNCHANGED <<active, granted, expired>>,
             CountInv
      PROVE  lock = t /\ t # None /\ Counted'
  BY <1>0, <1>4 DEF LoginInv, Mutex, Counted
<1>5. ASSUME NEW t \in Threads, SessionIsActive(t)
      PROVE  Balance'
  <2>1. /\ pc[t] = "check" /\ lock' = None
        /\ UNCHANGED <<session_id, active, granted, expired, errors>>
    BY <1>5 DEF SessionIsActive, LoggedIn, ServerWaits
  <2>2. lock = t /\ t # None /\ Counted'
    BY <1>4, <2>1 DEF Locked
  <2>3. Current = {session_id} /\ Current' = {session_id}
    BY <2>1, <2>2 DEF Current
  <2>. QED BY <1>0, <2>1, <2>2, <2>3 DEF Balance, Spare
<1>6. ASSUME NEW t \in Threads, SessionIsNotActive(t)
      PROVE  Balance'
  <2>1. /\ pc[t] = "check"
        /\ UNCHANGED <<session_id, lock, used, active, granted, expired>>
        /\ pc'[t] = "login"
    BY <1>0, <1>6 DEF SessionIsNotActive, ServerWaits, Goto, LoginInv, Shape
  <2>2. lock = t /\ t # None /\ Counted'
    BY <1>4, <2>1 DEF Locked
  <2>3. Current = {session_id} /\ Current' = {} /\ active' \ {} = active
    BY <2>1, <2>2 DEF Current
  <2>4. /\ Cardinality(active) <= Cardinality(active \ {session_id}) + 1
        /\ Cardinality(active \ {session_id}) \in Nat
        /\ session_id \notin active => active \ {session_id} = active
    BY <1>0, Without DEF Counted
  <2>5. used[t] = session_id
    BY <1>0, <2>1 DEF LoginInv, Inside
  <2>6. (session_id \notin active /\ errors' = errors) \/ errors' = errors + 1
    BY <1>6, <2>5 DEF SessionIsNotActive, Error
  <2>7. Cardinality(active \ {session_id}) <= errors
    BY <1>0, <2>3 DEF Spare
  <2>8. Cardinality(active) <= errors'
    <3>1. CASE session_id \notin active /\ errors' = errors
      BY <2>4, <2>7, <3>1
    <3>2. CASE errors' = errors + 1
      BY <1>0, <1>a, <2>4, <2>7, <3>2
    <3>. QED BY <2>6, <3>1, <3>2
  <2>. QED BY <2>2, <2>3, <2>8 DEF Balance, Spare
<1>7. ASSUME NEW t \in Threads, Grant(t)
      PROVE  Balance'
  <2>1. /\ pc[t] = "login" /\ granted' = granted + 1 /\ active' = active \cup {granted'}
        /\ UNCHANGED <<lock, expired, errors>>
        /\ pc'[t] = "granted" /\ used'[t] = granted'
    BY <1>0, <1>7 DEF Grant, Goto, Attach, LoginInv, Shape
  <2>2. lock = t /\ t # None
    BY <1>0, <2>1 DEF LoginInv, Mutex, Locked
  <2>3. Current = {} /\ Current' = {granted'}
    BY <2>1, <2>2 DEF Current
  <2>4. granted' \notin active
    BY <1>0, <2>1
  <2>5. active' \ {granted'} = active /\ active \ {} = active
    BY <2>1, <2>4
  <2>6. IsFiniteSet(active') /\ Cardinality(active') = Cardinality(active) + 1
    BY <1>0, <2>1, <2>4, FS_AddElement DEF Counted
  <2>7. Counted'
    BY <1>0, <1>a, <2>1, <2>6 DEF Counted
  <2>. QED BY <1>0, <2>1, <2>3, <2>5, <2>7 DEF Balance, Spare
<1>8. ASSUME NEW t \in Threads, Login(t)
      PROVE  Balance'
  <2>1. /\ pc[t] = "granted" /\ lock' = None /\ session_id' = used[t]
        /\ UNCHANGED <<active, granted, expired, errors>>
    BY <1>8 DEF Login, LoggedIn, ServerWaits
  <2>2. lock = t /\ t # None /\ Counted'
    BY <1>4, <2>1 DEF Locked
  <2>3. Current = {used[t]} /\ Current' = {used[t]}
    BY <2>1, <2>2 DEF Current
  <2>. QED BY <1>0, <2>1, <2>2, <2>3 DEF Balance, Spare
<1>9. ASSUME NEW t \in Threads, LoginFails(t)
      PROVE  Balance'
  <2>1. /\ pc[t] \in Locked /\ lock' = None /\ errors' = errors + 1
        /\ UNCHANGED <<session_id, active, granted, expired>>
    BY <1>9 DEF LoginFails, LockAfterError, ServerWaits, Error
  <2>2. lock = t /\ t # None /\ Counted'
    BY <1>4, <2>1
  <2>3. Current' = {session_id}
    BY <2>1 DEF Current
  <2>4. Cardinality(active) <= errors + 1
    <3>1. Current = {} \/ Current = {session_id} \/ Current = {used[t]}
      BY <2>1, <2>2 DEF Current, Locked
    <3>. QED BY <1>0, <3>1, SpareBounds
  <2>5. /\ Cardinality(active \ {session_id}) \in Nat
        /\ Cardinality(active \ {session_id}) <= Cardinality(active)
    BY <1>0, Without DEF Counted
  <2>. QED BY <1>0, <1>a, <2>1, <2>2, <2>3, <2>4, <2>5 DEF Balance, Spare
<1>10. ASSUME NEW s \in active, Expire(s)
       PROVE  Balance'
  <2>1. /\ active' = active \ {s} /\ expired' = expired + 1 /\ granted' = granted
        /\ UNCHANGED <<session_id, lock, pc, used, errors>>
    BY <1>10 DEF Expire, client
  <2>2. IsFiniteSet(active') /\ Cardinality(active') = Cardinality(active) - 1
    BY <1>0, <2>1, FS_RemoveElement DEF Counted
  <2>3. Counted'
    BY <1>0, <1>a, <2>1, <2>2 DEF Counted
  <2>4. Current' = Current
    BY <2>1 DEF Current
  <2>5. IsFiniteSet(active \ Current)
    BY <1>0, FS_Subset DEF Counted
  <2>6. active' \ Current \in SUBSET (active \ Current)
    BY <2>1
  <2>7. /\ Cardinality(active' \ Current) <= Cardinality(active \ Current)
        /\ Cardinality(active' \ Current) \in Nat /\ Cardinality(active \ Current) \in Nat
    BY <2>5, <2>6, FS_Subset, FS_CardinalityType
  <2>. QED BY <1>0, <2>1, <2>3, <2>4, <2>7 DEF Balance, Spare
<1>. QED BY NextSteps, <1>1, <1>2, <1>3, <1>5, <1>6, <1>7, <1>8, <1>9, <1>10

LEMMA CountInvariant == Spec => []CountInv
<1>1. ASSUME CountInv, [Next]_vars
      PROVE  CountInv'
  <2>1. CASE Next
    BY <1>1, <2>1, ShapeStep, MutexStep, BalanceStep DEF CountInv, LoginInv
  <2>2. CASE UNCHANGED vars
    BY <1>1, <2>2 DEF vars, client, CountInv, Balance, Counted, Spare, Current,
                      LoginInv, Shape, Mutex, Inside, Sessions
  <2>. QED BY <1>1, <2>1, <2>2
<1>. QED BY <1>1, CountInit, PTL DEF Spec

(* However many threads find the session expired at once, every session    *)
(* but the first is owed to one that expired or to a request that failed:  *)
(* login() asks again once it has the lock.                                *)
THEOREM NoNeedlessLogin == Spec => []LoginsNeeded
<1>1. CountInv => LoginsNeeded
  <2>. SUFFICES ASSUME CountInv PROVE granted <= 1 + expired + errors
    BY DEF LoginsNeeded
  <2>1. /\ Counted /\ Spare /\ errors \in Nat /\ expired \in Nat
        /\ lock # None => lock \in Threads /\ pc[lock] \in Locked
    BY DEF CountInv, Balance, LoginInv, Shape, Mutex
  <2>2. Current = {} \/ \E x : Current = {x}
    BY <2>1 DEF Current, Locked
  <2>3. Cardinality(active) <= errors + 1
    BY <2>1, <2>2, SpareBounds
  <2>4. granted = expired + Cardinality(active) /\ Cardinality(active) \in Nat
    BY <2>1, FS_CardinalityType DEF Counted
  <2>. QED BY <2>1, <2>3, <2>4
<1>. QED BY <1>1, CountInvariant, PTL

-----------------------------------------------------------------------------
(* Retries.  The session of the client only moves on to newer ones, so the *)
(* one that was refused is never offered again: it was the client's when   *)
(* the query began, is not known to the server any more, and a session     *)
(* that is checked or granted later is another one, not an older one.      *)
InLogin == {"lock", "retry"} \cup Locked

Retrying(t) == attempt[t] = 2 /\ pc[t] \in {"query", "timedout"}

RefusedIsGone(t) == /\ refused[t] \in 1 .. session_id
                    /\ refused[t] \notin active

Newest ==
  /\ \A t \in Threads : attempt[t] # 0 => session_id \in 1 .. granted
  /\ \A t \in Threads : pc[t] = "granted" /\ session_id # None => session_id < granted
Asking ==
  \A t \in Threads : pc[t] = "query" =>
    attempt[t] # 0 /\ used[t] \in 1 .. session_id
GoneInLogin ==
  \A t \in Threads : attempt[t] # 0 /\ pc[t] \in InLogin => RefusedIsGone(t)
NewInRetry ==
  \A t \in Threads : pc[t] = "retry" => attempt[t] # 0 /\ session_id > refused[t]
GoneInRetry ==
  \A t \in Threads : Retrying(t) =>
    /\ RefusedIsGone(t)
    /\ used[t] \in 1 .. session_id /\ used[t] > refused[t]
    /\ pc[t] = "timedout" => used[t] \notin active

RetryInv == LoginInv /\ Newest /\ Asking /\ GoneInLogin /\ NewInRetry /\ GoneInRetry

LEMMA NewestStep ==
  ASSUME RetryInv, Next
  PROVE  Newest'
<1>. USE NoneAssumption DEF RetryInv, LoginInv, Shape, Sessions, Newest, Goto, Attach, ServerWaits
<1>1. ASSUME NEW t \in Threads, Query(t) \/ Answered(t) \/ Refused(t) \/ QueryFails(t)
      PROVE  Newest'
  BY <1>1 DEF Query, Answered, Refused, QueryFails, Built
<1>2. ASSUME NEW t \in Threads, Acquire(t)
      PROVE  Newest'
  BY <1>2 DEF Acquire, AfterLock
<1>3. ASSUME NEW t \in Threads, SessionIsActive(t) \/ SessionIsNotActive(t) \/ LoginFails(t)
      PROVE  Newest'
  BY <1>3 DEF SessionIsActive, SessionIsNotActive, LoginFails, LoggedIn
<1>4. ASSUME NEW t \in Threads, Grant(t)
      PROVE  Newest'
  BY <1>4 DEF Grant
<1>5. ASSUME NEW t \in Threads, Login(t)
      PROVE  Newest'
  BY <1>5 DEF Login, LoggedIn, Mutex, Inside, Locked
<1>6. ASSUME Construct \/ \E s \in active : Expire(s)
      PROVE  Newest'
  BY <1>6 DEF Construct, Expire, client
<1>7. ASSUME NEW t \in Threads, Retry(t)
      PROVE  Newest'
  BY <1>7 DEF Retry, NewInRetry
<1>. QED BY NextSteps, <1>1, <1>2, <1>3, <1>4, <1>5, <1>6, <1>7

LEMMA AskingStep ==
  ASSUME RetryInv, Next
  PROVE  Asking'
<1>. USE NoneAssumption
     DEF RetryInv, LoginInv, Shape, Sessions, Newest, Asking, Goto, Attach, ServerWaits
<1>1. ASSUME NEW t \in Threads, Query(t) \/ Answered(t) \/ Refused(t) \/ QueryFails(t)
      PROVE  Asking'
  BY <1>1 DEF Query, Answered, Refused, QueryFails, Built
<1>2. ASSUME NEW t \in Threads, Acquire(t)
      PROVE  Asking'
  BY <1>2 DEF Acquire, AfterLock
<1>3. ASSUME NEW t \in Threads, SessionIsActive(t)
      PROVE  Asking'
  BY <1>3 DEF SessionIsActive, LoggedIn
<1>4. ASSUME NEW t \in Threads, SessionIsNotActive(t) \/ LoginFails(t) \/ Grant(t)
      PROVE  Asking'
  BY <1>4 DEF SessionIsNotActive, LoginFails, Grant
<1>5. ASSUME NEW t \in Threads, Login(t)
      PROVE  Asking'
  BY <1>5 DEF Login, LoggedIn, Inside
<1>6. ASSUME Construct \/ \E s \in active : Expire(s)
      PROVE  Asking'
  BY <1>6 DEF Construct, Expire, client
<1>7. ASSUME NEW t \in Threads, Retry(t)
      PROVE  Asking'
  BY <1>7 DEF Retry, RetryWith, NewInRetry
<1>. QED BY NextSteps, <1>1, <1>2, <1>3, <1>4, <1>5, <1>6, <1>7

LEMMA GoneInLoginStep ==
  ASSUME RetryInv, Next
  PROVE  GoneInLogin'
<1>. USE NoneAssumption
     DEF RetryInv, LoginInv, Shape, Sessions, Newest, GoneInLogin, RefusedIsGone, InLogin, Locked,
         Goto, Attach, ServerWaits
<1>1. ASSUME NEW t \in Threads, Query(t) \/ Answered(t) \/ QueryFails(t) \/ Retry(t)
      PROVE  GoneInLogin'
  BY <1>1 DEF Query, Answered, QueryFails, Retry
<1>2. ASSUME NEW t \in Threads, Refused(t)
      PROVE  GoneInLogin'
  BY <1>2 DEF Refused, Asking
<1>3. ASSUME NEW t \in Threads, Acquire(t)
      PROVE  GoneInLogin'
  BY <1>3 DEF Acquire, AfterLock
<1>4. ASSUME NEW t \in Threads, SessionIsActive(t) \/ SessionIsNotActive(t) \/ LoginFails(t)
      PROVE  GoneInLogin'
  BY <1>4 DEF SessionIsActive, SessionIsNotActive, LoginFails, LoggedIn
<1>5. ASSUME NEW t \in Threads, Grant(t)
      PROVE  GoneInLogin'
  BY <1>5 DEF Grant
<1>6. ASSUME NEW t \in Threads, Login(t)
      PROVE  GoneInLogin'
  BY <1>6 DEF Login, LoggedIn, Inside
<1>7. ASSUME Construct
      PROVE  GoneInLogin'
  BY <1>7 DEF Construct, Built
<1>8. ASSUME \E s \in active : Expire(s)
      PROVE  GoneInLogin'
  BY <1>8 DEF Expire, client
<1>. QED BY NextSteps, <1>1, <1>2, <1>3, <1>4, <1>5, <1>6, <1>7, <1>8

LEMMA NewInRetryStep ==
  ASSUME RetryInv, Next
  PROVE  NewInRetry'
<1>. USE NoneAssumption
     DEF RetryInv, LoginInv, Shape, Sessions, Newest, NewInRetry, GoneInLogin, RefusedIsGone,
         InLogin, Locked, Goto, Attach, ServerWaits
<1>1. ASSUME NEW t \in Threads, Query(t) \/ Answered(t) \/ Refused(t) \/ QueryFails(t) \/ Retry(t)
      PROVE  NewInRetry'
  BY <1>1 DEF Query, Answered, Refused, QueryFails, Retry
<1>2. ASSUME NEW t \in Threads, Acquire(t)
      PROVE  NewInRetry'
  BY <1>2 DEF Acquire, AfterLock
<1>3. ASSUME NEW t \in Threads, SessionIsActive(t)
      PROVE  NewInRetry'
  BY <1>3 DEF SessionIsActive, LoggedIn, Inside
<1>4. ASSUME NEW t \in Threads, SessionIsNotActive(t) \/ LoginFails(t) \/ Grant(t)
      PROVE  NewInRetry'
  BY <1>4 DEF SessionIsNotActive, LoginFails, Grant
<1>5. ASSUME NEW t \in Threads, Login(t)
      PROVE  NewInRetry'
  BY <1>5 DEF Login, LoggedIn, Inside
<1>6. ASSUME Construct \/ \E s \in active : Expire(s)
      PROVE  NewInRetry'
  BY <1>6 DEF Construct, Expire, client
<1>. QED BY NextSteps, <1>1, <1>2, <1>3, <1>4, <1>5, <1>6

LEMMA GoneInRetryStep ==
  ASSUME RetryInv, Next
  PROVE  GoneInRetry'
<1>. USE NoneAssumption
     DEF RetryInv, LoginInv, Shape, Sessions, Newest, GoneInRetry, Retrying, RefusedIsGone,
         Goto, Attach, ServerWaits
<1>1. ASSUME NEW t \in Threads, Query(t) \/ Answered(t) \/ QueryFails(t)
      PROVE  GoneInRetry'
  BY <1>1 DEF Query, Answered, QueryFails
<1>2. ASSUME NEW t \in Threads, Refused(t)
      PROVE  GoneInRetry'
  BY <1>2 DEF Refused, Asking
<1>3. ASSUME NEW t \in Threads, Acquire(t)
      PROVE  GoneInRetry'
  BY <1>3 DEF Acquire, AfterLock
<1>4. ASSUME NEW t \in Threads, SessionIsActive(t)
      PROVE  GoneInRetry'
  BY <1>4 DEF SessionIsActive, LoggedIn
<1>5. ASSUME NEW t \in Threads, SessionIsNotActive(t) \/ LoginFails(t) \/ Grant(t)
      PROVE  GoneInRetry'
  BY <1>5 DEF SessionIsNotActive, LoginFails, Grant
<1>6. ASSUME NEW t \in Threads, Login(t)
      PROVE  GoneInRetry'
  BY <1>6 DEF Login, LoggedIn, Inside
<1>7. ASSUME Construct \/ \E s \in active : Expire(s)
      PROVE  GoneInRetry'
  BY <1>7 DEF Construct, Expire, client
<1>8. ASSUME NEW t \in Threads, Retry(t)
      PROVE  GoneInRetry'
  BY <1>8 DEF Retry, RetryWith, NewInRetry, GoneInLogin, InLogin
<1>. QED BY NextSteps, <1>1, <1>2, <1>3, <1>4, <1>5, <1>6, <1>7, <1>8

(* Two sessions that the server does not know have expired.                *)
LEMMA TwoExpired ==
  ASSUME CountInv, NEW r \in 1 .. granted, NEW u \in 1 .. granted, r # u,
         r \notin active, u \notin active
  PROVE  expired >= 2
<1>1. /\ IsFiniteSet(active) /\ granted = expired + Cardinality(active)
      /\ active \subseteq 1 .. granted /\ granted \in Nat /\ expired \in Nat
  BY DEF CountInv, Balance, Counted, LoginInv, Shape
<1>2. /\ IsFiniteSet(active \cup {r})
      /\ Cardinality(active \cup {r}) = Cardinality(active) + 1
  BY <1>1, FS_AddElement
<1>3. Cardinality((active \cup {r}) \cup {u}) = Cardinality(active \cup {r}) + 1
  BY <1>2, FS_AddElement
<1>4. IsFiniteSet(1 .. granted) /\ Cardinality(1 .. granted) = granted
  BY <1>1, FS_Interval
<1>5. Cardinality((active \cup {r}) \cup {u}) <= granted
  BY <1>1, <1>4, FS_Subset
<1>6. Cardinality(active) \in Nat
  BY <1>1, FS_CardinalityType
<1>. QED BY <1>1, <1>2, <1>3, <1>5, <1>6

(* A retry carries a newer session than the one that was refused, which    *)
(* the server has forgotten, and only a second expiry ends it in a timeout *)
(* (loginsight.py, _is_current_session_active() and login() within the     *)
(* retry of query_events()).                                               *)
THEOREM RetriesAreNew == Spec => []RetryHasNewSession
<1>1. Init => RetryInv
  <2>1. Init => LoginInv
    BY LoginInit
  <2>. QED BY <2>1 DEF Init, RetryInv, Newest, Asking, GoneInLogin, NewInRetry,
                     GoneInRetry, Retrying
<1>2. ASSUME RetryInv, [Next]_vars
      PROVE  RetryInv'
  <2>1. CASE Next
    BY <1>2, <2>1, ShapeStep, MutexStep, NewestStep, AskingStep, GoneInLoginStep,
       NewInRetryStep, GoneInRetryStep
       DEF RetryInv, LoginInv
  <2>2. CASE UNCHANGED vars
    BY <1>2, <2>2 DEF vars, client, RetryInv, Newest, Asking, GoneInLogin, NewInRetry, GoneInRetry, Retrying,
                      RefusedIsGone, LoginInv, Shape, Mutex, Inside, Sessions
  <2>. QED BY <1>2, <2>1, <2>2
<1>3. RetryInv /\ CountInv => RetryHasNewSession
  <2>. SUFFICES ASSUME RetryInv, CountInv, NEW t \in Threads, Retrying(t)
                PROVE  /\ refused[t] # None /\ used[t] > refused[t]
                       /\ refused[t] \notin active
                       /\ pc[t] = "timedout" => used[t] \notin active /\ expired >= 2
    BY DEF RetryHasNewSession, Retrying
  <2>0. session_id \in 1 .. granted /\ granted \in Nat
    <3>1. attempt[t] # 0
      BY DEF Retrying
    <3>2. attempt[t] # 0 => session_id \in 1 .. granted
      BY DEF RetryInv, Newest
    <3>3. granted \in Nat
      BY DEF RetryInv, LoginInv, Shape
    <3>. QED BY <3>1, <3>2, <3>3
  <2>1. /\ refused[t] \in 1 .. granted /\ used[t] \in 1 .. granted
        /\ used[t] > refused[t] /\ refused[t] \notin active
        /\ pc[t] = "timedout" => used[t] \notin active
    BY <2>0 DEF RetryInv, GoneInRetry, RefusedIsGone
  <2>2. refused[t] # used[t] /\ refused[t] # None
    BY <2>0, <2>1, NoneAssumption
  <2>. QED BY <2>1, <2>2, TwoExpired
<1>. QED BY <1>1, <1>2, <1>3, CountInvariant, PTL DEF Spec
=============================================================================
