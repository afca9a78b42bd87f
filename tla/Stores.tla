------------------------------- MODULE Stores -------------------------------
(***************************************************************************)
(* The collectors that keep what services notify: the redis, mongodb,      *)
(* elasticsearch, sqlalchemy and loginsight drivers.  Services send the    *)
(* notifications of several traces while a tool, with a driver of its own, *)
(* lists the traces, those with errors, or reads one for its report.       *)
(*                                                                         *)
(* A notification is a record of which the drivers read the base id, the   *)
(* timestamp (of the clock of its host) and whether it reports an error.   *)
(* A row of an answer, and a mark of an error, is some fields of a         *)
(* notification, and stands for the whole of it.  The backends are         *)
(* external: a write is atomic and seen by the queries that follow.  That  *)
(* goes for mongodb's upsert too, although the driver makes no unique      *)
(* index, without which two upserts at once may both insert.               *)
(***************************************************************************)
EXTENDS Integers, SequencesExt, FiniteSetsExt

CONSTANTS
  Services,    \* the threads that notify
  Sent,        \* of every service, the notifications it sends, in order
  Legacy,      \* what an old version left in redis, each under its own key
  Drivers,     \* the drivers the deployment may have chosen
  PageSize     \* es_scroll_size

AllDrivers == {"redis", "mongodb", "elasticsearch", "sqlalchemy", "loginsight"}
MarkingDrivers == {"redis", "mongodb", "elasticsearch"}
Events == Legacy \cup UNION {Range(Sent[s]) : s \in Services}
Traces == {e.base_id : e \in Events}
Operations == {"traces", "errors", "report"}

ASSUME DriversAssumption == Drivers \subseteq AllDrivers
ASSUME PageSizeAssumption == PageSize \in Nat \ {0}
ASSUME EventsAssumption ==
  /\ Sent \in [Services -> Seq(Events)]
  /\ IsFiniteSet(Legacy)
  /\ \A e \in Events : e.timestamp \in Nat
(* Notifications differ: in the id of their point, or in being its start.  *)
ASSUME DistinctAssumption ==
  /\ \A s \in Services : IsInjective(Sent[s]) /\ Range(Sent[s]) \cap Legacy = {}
  /\ \A s, t \in Services : s # t => Range(Sent[s]) \cap Range(Sent[t]) = {}

VARIABLES
  driver,
  filter_error_trace,
  data,       \* of every trace, its notifications in the backend, oldest first
  marks,      \* of every trace, the marks of its errors in the backend
  unsent,     \* of every service, what it has yet to send
  marking,    \* the services between the two writes of a notify()
  unmarked,   \* history: error notifications whose second write failed
  op, asked,  \* what the tool called, and the base id for a report
  snapshot,   \* what the backend held when it called
  hits,       \* elasticsearch: the rows of the query, in order
  read,       \* the keys read so far
  result,     \* the rows read so far
  phase       \* "idle", "reading" or "done"

writing == <<data, marks, unsent, marking, unmarked>>
reading == <<op, asked, snapshot, hits, read, result, phase>>
storeVars == <<driver, filter_error_trace, writing, reading>>

-----------------------------------------------------------------------------
KeysOf(f) == {k \in Traces : f[k] # << >>}
RowsIn(f) == UNION {Range(f[k]) : k \in Traces}
Mut_Earliest(S) == CHOOSE e \in S : TRUE
Earliest(S) == CHOOSE e \in S : \A f \in S : e.timestamp <= f.timestamp

(* The sequences that a sort by timestamp may return.                      *)
Sorted(q) == \A i, j \in DOMAIN q : i < j => q[i].timestamp <= q[j].timestamp
InTimeOrder(S) == {q \in SetToSeqs(S) : Sorted(q)}

OldSchema == IF driver = "redis" THEN Legacy ELSE {}
OldRows(k) == {e \in OldSchema : e.base_id = k}
OldKeys == {e.base_id : e \in OldSchema}

(* notify_error_trace(): redis and mongodb keep one mark of a trace.       *)
MarksErrors(e) == filter_error_trace /\ driver \in MarkingDrivers /\ e.error

Mut_Marked(e) == Append(marks[e.base_id], e)
Marked(e) ==
  IF driver = "elasticsearch" THEN Append(marks[e.base_id], e) ELSE <<e>>

-----------------------------------------------------------------------------
Empty == [k \in Traces |-> << >>]
StoreInit ==
  /\ driver \in Drivers
  /\ filter_error_trace \in BOOLEAN
  /\ data = Empty /\ marks = Empty
  /\ unsent = Sent
  /\ marking = {} /\ unmarked = {}
  /\ op = "none" /\ asked = "none"
  /\ snapshot = Empty /\ hits = << >>
  /\ read = {} /\ result = << >>
  /\ phase = "idle"

MayNotify(s) == unsent[s] # << >> /\ s \notin marking
Advance(s) == unsent' = [unsent EXCEPT ![s] = Tail(@)]
ToolWaits == UNCHANGED <<driver, filter_error_trace, reading>>

(* notify(), its first write: the notification itself.  A notification of  *)
(* an error is then marked in a second write.                              *)
Notify(s) ==
  LET e == Head(unsent[s]) IN
  /\ MayNotify(s)
  /\ data' = [data EXCEPT ![e.base_id] = Append(@, e)]
  /\ IF MarksErrors(e)
       THEN marking' = marking \cup {s} /\ UNCHANGED unsent
       ELSE Advance(s) /\ UNCHANGED marking
  /\ UNCHANGED <<marks, unmarked>>
  /\ ToolWaits

(* The first write fails: the driver raises, or, sqlalchemy's, logs it.    *)
NotifyFails(s) ==
  /\ MayNotify(s)
  /\ Advance(s)
  /\ UNCHANGED <<data, marks, marking, unmarked>>
  /\ ToolWaits

NotifyErrorTrace(s) ==
  LET e == Head(unsent[s]) IN
  /\ s \in marking
  /\ marks' = [marks EXCEPT ![e.base_id] = Marked(e)]
  /\ marking' = marking \ {s}
  /\ Advance(s)
  /\ UNCHANGED <<data, unmarked>>
  /\ ToolWaits

NotifyErrorTraceFails(s) ==
  /\ s \in marking
  /\ unmarked' = unmarked \cup {Head(unsent[s])}
  /\ marking' = marking \ {s}
  /\ Advance(s)
  /\ UNCHANGED <<data, marks>>
  /\ ToolWaits

-----------------------------------------------------------------------------
(* The tool.  Redis and mongodb list by key: they ask for the keys, then   *)
(* for a row of each; elasticsearch scrolls through the pages of one       *)
(* query; the rest is the answer to one query.                             *)

Source(o) == IF o = "errors" THEN marks ELSE data
ByKey == \/ op = "traces" /\ driver \in {"redis", "mongodb"}
         \/ op = "errors" /\ driver = "redis"
ByPage == driver = "elasticsearch"

(* _list_traces_legacy(): the earliest notification of every trace.        *)
Mut_LegacyRows == SetToSeqs(OldSchema)
LegacyRows == InTimeOrder({Earliest(OldRows(k)) : k \in OldKeys})

(* search(): a listing is sorted, what a report asks for has no order.     *)
Hits(o, k) == IF o = "report" THEN SetToSeqs(Range(data[k]))
              ELSE InTimeOrder(RowsIn(Source(o)))

(* What a driver does not override raises NotImplementedError.             *)
Overridden == CASE driver = "loginsight" -> {"report"}
                [] driver = "sqlalchemy" -> {"traces", "report"}
                [] OTHER -> Operations

Call(o, k) ==
  /\ phase = "idle"
  /\ o \in Overridden
  /\ op' = o /\ asked' = k
  /\ snapshot' = Source(o)
  /\ hits' \in IF ByPage THEN Hits(o, k) ELSE {<< >>}
  /\ read' = {}
  /\ result' \in IF o = "traces" THEN LegacyRows ELSE {<< >>}
  /\ phase' = "reading"
  /\ UNCHANGED <<driver, filter_error_trace, writing>>

(* distinct() is one query; the cursor of scan_iter() meets every key that *)
(* was there when it began, and perhaps some that came later.              *)
KeysMet == IF driver = "mongodb" THEN KeysOf(snapshot) ELSE KeysOf(Source(op))

(* redis: lpush() puts the newest first and lindex(i, 1) is the second.    *)
NextToNewest(s) == IF Len(s) < 2 THEN << >> ELSE <<s[Len(s) - 1]>>
RowOf(k) ==
  IF driver = "mongodb" THEN <<Earliest(Range(data[k]))>>
  ELSE IF op = "traces" THEN NextToNewest(data[k])
  ELSE marks[k]

ReadKey(k) ==
  /\ phase = "reading" /\ ByKey
  /\ k \in KeysMet \ read
  /\ read' = read \cup {k}
  /\ result' = result \o RowOf(k)
  /\ UNCHANGED <<driver, filter_error_trace, writing, op, asked, snapshot, hits, phase>>

Mut_LastKeyRead == read # {} \/ KeysMet = {}
LastKeyRead == KeysOf(snapshot) \subseteq read

(* The marks redis has read are sorted.                                    *)
KeysEnd ==
  /\ phase = "reading" /\ ByKey
  /\ LastKeyRead
  /\ result' \in IF op = "errors" THEN InTimeOrder(Range(result)) ELSE {result}
  /\ phase' = "done"
  /\ UNCHANGED <<driver, filter_error_trace, writing, op, asked, snapshot, hits, read>>

(* _hits(): pages of the query until one is empty.                         *)
PageAfter(n) == SubSeq(hits, n + 1, Min({n + PageSize, Len(hits)}))
Mut_MorePages == Len(PageAfter(Len(result))) = PageSize
MorePages == PageAfter(Len(result)) # << >>

ReadPage ==
  /\ phase = "reading" /\ ByPage
  /\ MorePages
  /\ result' = result \o PageAfter(Len(result))
  /\ UNCHANGED <<driver, filter_error_trace, writing, op, asked, snapshot, hits, read, phase>>

PagesEnd ==
  /\ phase = "reading" /\ ByPage
  /\ ~MorePages
  /\ phase' = "done"
  /\ UNCHANGED <<driver, filter_error_trace, writing, op, asked, snapshot, hits, read, result>>

(* sqlalchemy lists the first row of every trace of a select that has no   *)
(* order: any row of it.  A report of redis has the old schema too.        *)
ReportRows == {old \o snapshot[asked] : old \in SetToSeqs(OldRows(asked))}
TraceRows ==
  UNION {SetToSeqs({row[k] : k \in KeysOf(snapshot)}) :
           row \in {f \in [KeysOf(snapshot) -> RowsIn(snapshot)] :
                      \A k \in KeysOf(snapshot) : f[k] \in Range(snapshot[k])}}
Answers == CASE op = "report" -> ReportRows
             [] op = "errors" -> SetToSeqs(RowsIn(snapshot))
             [] op = "traces" -> TraceRows

ReadAnswer ==
  /\ phase = "reading" /\ ~ByKey /\ ~ByPage
  /\ result' \in Answers
  /\ phase' = "done"
  /\ UNCHANGED <<driver, filter_error_trace, writing, op, asked, snapshot, hits, read>>

StoreNext ==
  \/ \E s \in Services : \/ Notify(s) \/ NotifyFails(s)
                         \/ NotifyErrorTrace(s) \/ NotifyErrorTraceFails(s)
  \/ \E o \in Operations, k \in Traces : Call(o, k)
  \/ \E k \in Traces : ReadKey(k)
  \/ KeysEnd \/ ReadPage \/ PagesEnd \/ ReadAnswer

StoreSpec == StoreInit /\ [][StoreNext]_storeVars

-----------------------------------------------------------------------------
(* Properties.                                                             *)

Done(o) == phase = "done" /\ op = o
AtCall(k) == OldRows(k) \cup Range(snapshot[k])
RowsOf(k) == {i \in DOMAIN result : result[i].base_id = k}

(* A trace is not overlooked by a listing that began after it was stored,  *)
(* while others are being written.  Redis overlooks those of which it has  *)
(* one notification only.                                                  *)
Enough(k) ==
  IF driver = "redis" THEN Len(snapshot[k]) >= 2 \/ k \in OldKeys
  ELSE AtCall(k) # {}
StoredTracesListed ==
  Done("traces") => \A k \in Traces : Enough(k) => RowsOf(k) # {}

(* A listing has every trace once, but redis lists a trace of both schemas *)
(* twice and elasticsearch lists every notification.                       *)
Schemas(k) == (IF k \in OldKeys THEN 1 ELSE 0)
              + (IF k \in KeysOf(data) THEN 1 ELSE 0)
TracesListedOnce ==
  Done("traces") => \A k \in Traces :
    Cardinality(RowsOf(k)) <= IF driver = "elasticsearch"
                              THEN Cardinality(AtCall(k)) ELSE Schemas(k)

(* Mongodb, elasticsearch and the old schema of redis list a trace with a  *)
(* timestamp no later than any notification it had when the listing began, *)
(* although hosts have clocks of their own.                                *)
ListedAtItsStart ==
  Done("traces") => \A k \in Traces :
    LET known == IF driver = "redis" THEN OldRows(k) ELSE AtCall(k) IN
    driver # "sqlalchemy" /\ known # {} =>
      \E i \in RowsOf(k) : \A e \in known : result[i].timestamp <= e.timestamp

(* A report is made of all the notifications of its trace, each once, and  *)
(* of no other, whatever the schema and the size of the pages.             *)
ReportReadsItsTrace ==
  Done("report") => Range(result) = AtCall(asked) /\ IsInjective(result)

(* No error is forgotten silently: its trace is marked, about to be marked *)
(* or the driver raised, and marked only if its notification was stored;   *)
(* redis and mongodb have one mark of a trace, and the list of them is in  *)
(* the order of time.                                                      *)
Pending == {Head(unsent[s]) : s \in marking}
ErrorsMarked ==
  /\ \A e \in RowsIn(data) : MarksErrors(e) =>
       e.base_id \in KeysOf(marks) \/ e \in Pending \cup unmarked
  /\ RowsIn(marks) \subseteq {e \in RowsIn(data) : MarksErrors(e)}
  /\ driver # "elasticsearch" => \A k \in Traces : Len(marks[k]) <= 1
  /\ Done("errors") /\ driver # "mongodb" => Sorted(result)

(* "for each trace query the first event to have a timestamp": the row of  *)
(* a trace of the new schema is the notification that was stored first.    *)
FirstEventListed ==
  Done("traces") /\ driver = "redis" => \A i \in DOMAIN result :
    result[i] \in Legacy \/ result[i] = data[result[i].base_id][1]
=============================================================================
