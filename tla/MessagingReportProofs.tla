----------------------- MODULE MessagingReportProofs -----------------------
(***************************************************************************)
(* Theorems about MessagingReport, for every finite set of events, every   *)
(* idle_timeout and any number of signals.                                 *)
(***************************************************************************)
EXTENDS MessagingReport, FiniteSetTheorems, TLAPS

-----------------------------------------------------------------------------
(* No event is in the topic twice, or in it before it was published.       *)
TopicInv ==
  /\ topic \in Seq(Events)
  /\ unsent \subseteq Events
  /\ \A i \in DOMAIN topic : topic[i] \notin unsent
  /\ \A i, j \in DOMAIN topic : topic[i] = topic[j] => i = j

(* The accounts of the endpoint: what the listener has taken of our trace  *)
(* is in received_messages, or in a call of info() that has not appended.  *)
Pending == {c.event : c \in {d \in handling : ~d.appended}}
AccountsInv ==
  /\ received \in Seq(Mine)
  /\ handling \subseteq [event : Mine, appended : BOOLEAN]
  /\ Range(received) \cup Pending = Taken \cap Mine

(* Once server.wait() has returned nothing moves the accounts any more.    *)
Closed == {"restore", "collect", "done"}
ClosedInv ==
  /\ pc \in Closed => listener = "off" /\ handling = {}
  /\ pc \in Closed \ {"restore"} => handler = "old"
  /\ pc = "done" => report = received

(* Only a signal makes get_report() return before the server has started,  *)
(* and then nothing has been collected.                                    *)
BeforeStart == {"called", "installed", "starting", "nodata"}
AfterStart == {"connected", "stop", "wait"} \cup InLoop \cup Closed
StartedInv ==
  /\ pc \in AfterStart => started
  /\ pc \in BeforeStart => ~started /\ report = << >>
  /\ pc = "nodata" => signals < MaxSignals
  /\ signals \in Int /\ signals <= MaxSignals

MsgInv == TopicInv /\ AccountsInv /\ ClosedInv /\ StartedInv

LEMMA RangeAppend ==
  ASSUME NEW S, NEW s \in Seq(S), NEW e
  PROVE  /\ DOMAIN Append(s, e) = 1 .. (Len(s) + 1)
         /\ Len(s) \in Nat
         /\ \A i \in 1 .. Len(s) : Append(s, e)[i] = s[i]
         /\ Append(s, e)[Len(s) + 1] = e
         /\ Range(Append(s, e)) = Range(s) \cup {e}
<1>1. /\ DOMAIN Append(s, e) = 1 .. (Len(s) + 1)
      /\ Len(s) \in Nat /\ DOMAIN s = 1 .. Len(s)
      /\ \A i \in 1 .. Len(s) : Append(s, e)[i] = s[i]
      /\ Append(s, e)[Len(s) + 1] = e
  OBVIOUS
<1>2. ASSUME NEW x \in Range(Append(s, e)) PROVE x \in Range(s) \cup {e}
  BY <1>1, <1>2 DEF Range
<1>3. ASSUME NEW x \in Range(s) PROVE x \in Range(Append(s, e))
  <2>1. PICK i \in 1 .. Len(s) : x = s[i]
    BY <1>1, <1>3 DEF Range
  <2>2. i \in DOMAIN Append(s, e) /\ Append(s, e)[i] = x
    BY <1>1, <2>1
  <2>. QED BY <2>2 DEF Range
<1>4. e \in Range(Append(s, e))
  <2>1. Len(s) + 1 \in DOMAIN Append(s, e)
    BY <1>1
  <2>. QED BY <1>1, <2>1 DEF Range
<1>. QED BY <1>1, <1>2, <1>3, <1>4

LEMMA RangeTail ==
  ASSUME NEW S, NEW s \in Seq(S), s # << >>,
         \A i, j \in DOMAIN s : s[i] = s[j] => i = j
  PROVE  /\ Tail(s) \in Seq(S) /\ Head(s) \in S /\ Head(s) \in Range(s)
         /\ \A i \in DOMAIN Tail(s) : Tail(s)[i] \in Range(s)
         /\ \A i, j \in DOMAIN Tail(s) : Tail(s)[i] = Tail(s)[j] => i = j
         /\ Range(Tail(s)) = Range(s) \ {Head(s)}
<1>1. /\ Len(s) \in Nat /\ Len(s) > 0 /\ DOMAIN s = 1 .. Len(s)
      /\ Tail(s) \in Seq(S) /\ Head(s) = s[1]
      /\ DOMAIN Tail(s) = 1 .. (Len(s) - 1)
      /\ \A i \in 1 .. (Len(s) - 1) : Tail(s)[i] = s[i + 1]
  OBVIOUS
<1>2. 1 \in DOMAIN s /\ \A i \in DOMAIN Tail(s) : i + 1 \in DOMAIN s /\ i + 1 # 1
  BY <1>1
<1>3. Head(s) \in S /\ Head(s) \in Range(s)
  BY <1>1, <1>2 DEF Range
<1>4. \A i \in DOMAIN Tail(s) : Tail(s)[i] \in Range(s) /\ Tail(s)[i] # Head(s)
  BY <1>1, <1>2 DEF Range
<1>5. \A i, j \in DOMAIN Tail(s) : Tail(s)[i] = Tail(s)[j] => i = j
  <2>. SUFFICES ASSUME NEW i \in DOMAIN Tail(s), NEW j \in DOMAIN Tail(s),
                       Tail(s)[i] = Tail(s)[j]
                PROVE  i = j
    OBVIOUS
  <2>1. s[i + 1] = s[j + 1]
    BY <1>1
  <2>2. i + 1 = j + 1
    BY <1>2, <2>1
  <2>. QED BY <1>1, <2>2
<1>6. ASSUME NEW x \in Range(s), x # Head(s) PROVE x \in Range(Tail(s))
  <2>1. PICK i \in 1 .. Len(s) : x = s[i]
    BY <1>1, <1>6 DEF Range
  <2>2. i # 1
    BY <1>1, <1>6, <2>1
  <2>3. i - 1 \in 1 .. (Len(s) - 1) /\ (i - 1) + 1 = i
    BY <1>1, <2>1, <2>2
  <2>4. i - 1 \in DOMAIN Tail(s) /\ Tail(s)[i - 1] = x
    BY <1>1, <2>1, <2>3
  <2>. QED BY <2>4 DEF Range
<1>7. Range(Tail(s)) = Range(s) \ {Head(s)}
  BY <1>4, <1>6 DEF Range
<1>. QED BY <1>1, <1>3, <1>4, <1>5, <1>7

(* The topics that Init allows hold every event of the set once.           *)
LEMMA TopicOfSet ==
  ASSUME NEW S, IsFiniteSet(S), NEW f \in SetToSeqs(S)
  PROVE  /\ f \in Seq(S)
         /\ \A i, j \in DOMAIN f : f[i] = f[j] => i = j
         /\ Range(f) = S
<1>. DEFINE D == 1 .. Cardinality(S)
<1>1. Cardinality(S) \in Nat
  BY FS_CardinalityType
<1>2. f \in [D -> S] /\ \A i, j \in D : i # j => f[i] # f[j]
  BY DEF SetToSeqs
<1>3. f \in Injection(D, S)
  BY <1>2 DEF Injection, IsInjective
<1>4. IsFiniteSet(D) /\ Cardinality(D) = Cardinality(S)
  <2>1. IsFiniteSet(D) /\ Cardinality(D) = IF 1 > Cardinality(S) THEN 0 ELSE Cardinality(S) - 1 + 1
    BY <1>1, FS_Interval
  <2>. QED BY <1>1, <2>1
<1>5. f \in Surjection(D, S)
  BY <1>3, <1>4, FS_Injection
<1>6. Range(f) = S
  BY <1>2, <1>5 DEF Surjection, Range
<1>. QED BY <1>1, <1>2, <1>6

-----------------------------------------------------------------------------
LEMMA MsgInvInit == Init => MsgInv
<1>. SUFFICES ASSUME Init PROVE MsgInv
  OBVIOUS
<1>1. PICK S \in SUBSET Events : topic \in SetToSeqs(S) /\ unsent = Events \ S
  BY DEF Init
<1>2. IsFiniteSet(S)
  BY EventsAssumption, FS_Subset
<1>3. /\ topic \in Seq(S) /\ Range(topic) = S
      /\ \A i, j \in DOMAIN topic : topic[i] = topic[j] => i = j
  BY <1>1, <1>2, TopicOfSet
<1>4. TopicInv
  BY <1>1, <1>3 DEF TopicInv
<1>5. Taken = {}
  BY <1>1, <1>3 DEF Taken
<1>6. received = << >> /\ handling = {} /\ pc = "called"
  BY DEF Init
<1>7. Range(received) = {} /\ Pending = {}
  BY <1>6 DEF Range, Pending
<1>8. AccountsInv
  BY <1>5, <1>6, <1>7 DEF AccountsInv
<1>9. ClosedInv
  BY <1>6 DEF ClosedInv, Closed
<1>10. StartedInv
  BY MaxSignalsAssumption DEF Init, StartedInv, Closed, BeforeStart, AfterStart, InLoop
<1>. QED BY <1>4, <1>8, <1>9, <1>10 DEF MsgInv

(* A step that leaves the topic, the services and the endpoint alone.      *)
LEMMA AccountsUnchanged ==
  ASSUME TopicInv, AccountsInv, UNCHANGED <<topic, unsent, handling, received>>
  PROVE  TopicInv' /\ AccountsInv'
BY DEF TopicInv, AccountsInv, Pending, Taken

LEMMA PublishAccounts ==
  ASSUME TopicInv, AccountsInv, NEW e \in Events, Publish(e)
  PROVE  TopicInv' /\ AccountsInv'
<1>1. /\ e \in unsent /\ unsent' = unsent \ {e} /\ topic' = Append(topic, e)
      /\ handling' = handling /\ received' = received
  BY DEF Publish
<1>2. /\ topic \in Seq(Events) /\ Len(topic) \in Nat /\ DOMAIN topic = 1 .. Len(topic)
      /\ DOMAIN topic' = 1 .. (Len(topic) + 1)
      /\ \A i \in 1 .. Len(topic) : topic'[i] = topic[i]
      /\ topic'[Len(topic) + 1] = e
      /\ Range(topic') = Range(topic) \cup {e}
  BY <1>1, RangeAppend DEF TopicInv
<1>3. \A i \in 1 .. Len(topic) : topic[i] \notin unsent
  BY <1>2 DEF TopicInv
<1>4. \A i, j \in 1 .. Len(topic) : topic[i] = topic[j] => i = j
  BY <1>2 DEF TopicInv
<1>5. \A i \in DOMAIN topic' : topic'[i] \notin unsent'
  BY <1>1, <1>2, <1>3
<1>6. \A i, j \in DOMAIN topic' : topic'[i] = topic'[j] => i = j
  BY <1>1, <1>2, <1>3, <1>4
<1>7. TopicInv'
  BY <1>1, <1>2, <1>5, <1>6 DEF TopicInv
<1>8. Taken' = Taken
  BY <1>1, <1>2 DEF Taken
<1>. QED BY <1>1, <1>7, <1>8 DEF AccountsInv, Pending

LEMMA TakeAccounts ==
  ASSUME TopicInv, AccountsInv, Take
  PROVE  TopicInv' /\ AccountsInv'
<1>. DEFINE e == Head(topic)
            call == [event |-> e, appended |-> FALSE]
<1>1. /\ topic # << >> /\ topic' = Tail(topic)
      /\ handling' = handling \cup ({call} \cap [event : Mine, appended : BOOLEAN])
      /\ unsent' = unsent /\ received' = received
  BY DEF Take
<1>2. /\ topic' \in Seq(Events) /\ e \in Events /\ e \in Range(topic)
      /\ \A i \in DOMAIN topic' : topic'[i] \in Range(topic)
      /\ \A i, j \in DOMAIN topic' : topic'[i] = topic'[j] => i = j
      /\ Range(topic') = Range(topic) \ {e}
  BY <1>1, RangeTail DEF TopicInv
<1>3. \A x \in Range(topic) : x \notin unsent
  BY DEF TopicInv, Range
<1>4. TopicInv'
  BY <1>1, <1>2, <1>3 DEF TopicInv
<1>5. Taken' = Taken \cup {e}
  BY <1>1, <1>2, <1>3 DEF Taken
<1>6. Pending' = Pending \cup ({e} \cap Mine)
  <2>1. CASE e \in Mine
    <3>1. call \in [event : Mine, appended : BOOLEAN]
      BY <2>1
    <3>2. handling' = handling \cup {call}
      BY <1>1, <3>1
    <3>3. ~call.appended /\ call.event = e
      OBVIOUS
    <3>. HIDE DEF call, e
    <3>4. {d \in handling' : ~d.appended} = {d \in handling : ~d.appended} \cup {call}
      BY <3>2, <3>3
    <3>. QED BY <2>1, <3>3, <3>4 DEF Pending
  <2>2. CASE e \notin Mine
    <3>1. call \notin [event : Mine, appended : BOOLEAN]
      BY <2>2
    <3>. QED BY <1>1, <2>2, <3>1 DEF Pending
  <2>. QED BY <2>1, <2>2
<1>7. handling' \subseteq [event : Mine, appended : BOOLEAN]
  BY <1>1 DEF AccountsInv
<1>. QED BY <1>1, <1>4, <1>5, <1>6, <1>7 DEF AccountsInv

LEMMA InfoAppendAccounts ==
  ASSUME TopicInv, AccountsInv, NEW c, InfoAppend(c)
  PROVE  TopicInv' /\ AccountsInv'
<1>. DEFINE d == [c EXCEPT !.appended = TRUE]
<1>1. /\ c \in handling /\ ~c.appended
      /\ received' = Append(received, c.event)
      /\ handling' = (handling \ {c}) \cup {d}
      /\ topic' = topic /\ unsent' = unsent
  BY DEF InfoAppend
<1>2. c \in [event : Mine, appended : BOOLEAN]
  BY <1>1 DEF AccountsInv
<1>3. d \in [event : Mine, appended : BOOLEAN] /\ d.appended /\ d.event = c.event
  BY <1>2
<1>4. handling' \subseteq [event : Mine, appended : BOOLEAN]
  BY <1>1, <1>3 DEF AccountsInv
<1>5. received' \in Seq(Mine) /\ Range(received') = Range(received) \cup {c.event}
  BY <1>1, <1>2, RangeAppend DEF AccountsInv
<1>6. {x \in handling' : ~x.appended} = {x \in handling : ~x.appended} \ {c}
  BY <1>1, <1>3
<1>7. Pending' \cup {c.event} = Pending
  BY <1>1, <1>6 DEF Pending
<1>8. Taken' = Taken /\ TopicInv'
  BY <1>1 DEF Taken, TopicInv
<1>. QED BY <1>4, <1>5, <1>7, <1>8 DEF AccountsInv

LEMMA InfoTimeAccounts ==
  ASSUME TopicInv, AccountsInv, NEW c, InfoTime(c)
  PROVE  TopicInv' /\ AccountsInv'
<1>1. /\ c.appended /\ handling' = handling \ {c}
      /\ topic' = topic /\ unsent' = unsent /\ received' = received
  BY DEF InfoTime
<1>2. {x \in handling' : ~x.appended} = {x \in handling : ~x.appended}
  BY <1>1
<1>3. Pending' = Pending
  BY <1>2 DEF Pending
<1>4. Taken' = Taken /\ TopicInv'
  BY <1>1 DEF Taken, TopicInv
<1>. QED BY <1>1, <1>3, <1>4 DEF AccountsInv

(* Where the main thread is, what it returns and whether it was signalled, *)
(* in any step.                                                            *)
LEMMA StartedNext == StartedInv /\ [Next]_vars => StartedInv'
<1>. SUFFICES ASSUME StartedInv, [Next]_vars PROVE StartedInv'
  OBVIOUS
<1>. USE DEF main, listening, Closed, BeforeStart, AfterStart, InLoop
<1>1. CASE Begin \/ EnterTry
  BY <1>1 DEF Begin, EnterTry, StartedInv
<1>2. CASE StartReturns
  BY <1>2 DEF StartReturns, StartedInv
<1>3. CASE StartFails
  BY <1>3 DEF StartFails, StartedInv
<1>4. CASE EnterLoop \/ ReadTime \/ CheckTime \/ Wake \/ StopServer
  BY <1>4 DEF EnterLoop, ReadTime, CheckTime, Wake, StopServer, StartedInv
<1>5. CASE WaitServer \/ Restore \/ Collect
  BY <1>5 DEF WaitServer, Restore, Collect, StartedInv
<1>6. CASE Signal
  <2>1. /\ signals > 0 /\ signals' = signals - 1 /\ started' = started /\ report' = report
        /\ pc' \in {"nodata", "stop", "uncaught"}
        /\ pc' = "nodata" => pc = "starting"
        /\ pc' = "stop" => pc \in InLoop
    BY <1>6 DEF Signal, AfterSignal
  <2>2. signals' \in Int /\ signals' < MaxSignals /\ signals' <= MaxSignals
    BY <2>1, MaxSignalsAssumption DEF StartedInv
  <2>. QED BY <2>1, <2>2 DEF StartedInv
<1>7. CASE UNCHANGED <<pc, started, report, signals>>
  BY <1>7 DEF StartedInv
<1>8. Connect \/ Take \/ Info \/ Tick \/ UNCHANGED vars \/ (\E e \in Events : Publish(e))
        => UNCHANGED <<pc, started, report, signals>>
  BY DEF Connect, Take, Info, InfoAppend, InfoTime, Tick, Publish, vars
<1>. QED BY <1>1, <1>2, <1>3, <1>4, <1>5, <1>6, <1>7, <1>8 DEF Next, Main

LEMMA MsgInvNext == MsgInv /\ [Next]_vars => MsgInv'
<1>. SUFFICES ASSUME MsgInv, [Next]_vars PROVE MsgInv'
  OBVIOUS
<1>. USE DEF main, listening
<1>0. TopicInv /\ AccountsInv /\ ClosedInv /\ StartedInv'
  BY StartedNext DEF MsgInv
<1>1. ASSUME Main PROVE MsgInv'
  <2>1. UNCHANGED <<topic, unsent, handling, received>>
    BY <1>1 DEF Main, Begin, EnterTry, Connect, StartReturns, EnterLoop, ReadTime, CheckTime, Wake,
                StopServer, WaitServer, Restore, Collect
  <2>2. ClosedInv'
    <3>1. ASSUME Begin \/ EnterTry \/ Connect \/ StartReturns \/ EnterLoop \/ ReadTime \/ CheckTime \/ Wake
                   \/ StopServer
          PROVE  pc' \notin Closed
      BY <3>1 DEF Begin, EnterTry, Connect, StartReturns, EnterLoop, ReadTime, CheckTime, Wake,
                  StopServer, Closed
    <3>2. ASSUME WaitServer PROVE ClosedInv'
      BY <3>2 DEF WaitServer, CallsReturned, ClosedInv, Closed
    <3>3. ASSUME Restore PROVE ClosedInv'
      BY <1>0, <3>3 DEF Restore, ClosedInv, Closed
    <3>4. ASSUME Collect PROVE ClosedInv'
      BY <1>0, <3>4 DEF Collect, ClosedInv, Closed
    <3>5. pc' \notin Closed => ClosedInv'
      BY DEF ClosedInv, Closed
    <3>. QED BY <1>1, <3>1, <3>2, <3>3, <3>4, <3>5 DEF Main
  <2>. QED BY <1>0, <2>1, <2>2, AccountsUnchanged DEF MsgInv
<1>2. ASSUME StartFails \/ Signal PROVE MsgInv'
  <2>1. UNCHANGED <<topic, unsent, handling, received>>
    BY <1>2 DEF StartFails, Signal
  <2>2. pc' \notin Closed
    BY <1>2 DEF StartFails, Signal, AfterSignal, Closed
  <2>3. ClosedInv'
    BY <2>2 DEF ClosedInv, Closed
  <2>. QED BY <1>0, <2>1, <2>3, AccountsUnchanged DEF MsgInv
<1>3. ASSUME NEW e \in Events, Publish(e) PROVE MsgInv'
  <2>1. ClosedInv'
    BY <1>0, <1>3 DEF Publish, ClosedInv
  <2>. QED BY <1>0, <1>3, <2>1, PublishAccounts DEF MsgInv
<1>4. ASSUME Take PROVE MsgInv'
  <2>1. ClosedInv'
    BY <1>0, <1>4 DEF Take, ClosedInv
  <2>. QED BY <1>0, <1>4, <2>1, TakeAccounts DEF MsgInv
<1>5. ASSUME NEW c, InfoAppend(c) PROVE MsgInv'
  <2>1. ClosedInv'
    <3>1. handling # {} /\ UNCHANGED main
      BY <1>5 DEF InfoAppend
    <3>2. pc' \notin Closed
      BY <1>0, <3>1 DEF ClosedInv
    <3>. QED BY <3>2 DEF ClosedInv, Closed
  <2>. QED BY <1>0, <1>5, <2>1, InfoAppendAccounts DEF MsgInv
<1>6. ASSUME NEW c, InfoTime(c) PROVE MsgInv'
  <2>1. ClosedInv'
    <3>1. handling # {} /\ UNCHANGED main
      BY <1>6 DEF InfoTime
    <3>2. pc' \notin Closed
      BY <1>0, <3>1 DEF ClosedInv
    <3>. QED BY <3>2 DEF ClosedInv, Closed
  <2>. QED BY <1>0, <1>6, <2>1, InfoTimeAccounts DEF MsgInv
<1>7. ASSUME Tick \/ UNCHANGED vars PROVE MsgInv'
  <2>1. UNCHANGED <<pc, handler, report, listener, topic, unsent, handling, received>>
    BY <1>7 DEF Tick, vars
  <2>2. ClosedInv'
    BY <1>0, <2>1 DEF ClosedInv
  <2>. QED BY <1>0, <2>1, <2>2, AccountsUnchanged DEF MsgInv
<1>. QED BY <1>1, <1>2, <1>3, <1>4, <1>5, <1>6, <1>7 DEF Next, Info

(* What get_report() returns once the server was started holds every event *)
(* of the trace that a listener thread has taken, however the threads      *)
(* interleave and whenever a signal interrupts the waiting, since          *)
(* server.wait() comes before the messages are read; and the server is     *)
(* stopped and the caller's signal handlers are back.  What it returns     *)
(* before that is empty, and is returned for a signal only.                *)
THEOREM NothingTakenIsLost == Spec => []ReportHasAllTaken
<1>1. ASSUME MsgInv PROVE ReportHasAllTaken
  <2>1. CASE pc = "done"
    <3>1. started /\ listener = "off" /\ handling = {} /\ handler = "old" /\ report = received
      BY <1>1, <2>1 DEF MsgInv, ClosedInv, StartedInv, AfterStart, Closed
    <3>2. Pending = {}
      BY <3>1 DEF Pending
    <3>3. Range(report) = Taken \cap Mine
      BY <1>1, <3>1, <3>2 DEF MsgInv, AccountsInv
    <3>. QED BY <3>1, <3>3 DEF ReportHasAllTaken
  <2>2. CASE pc = "nodata"
    <3>1. ~started /\ report = << >> /\ signals < MaxSignals
      BY <1>1, <2>2 DEF MsgInv, StartedInv, BeforeStart
    <3>. QED BY <3>1 DEF ReportHasAllTaken
  <2>. QED BY <2>1, <2>2 DEF ReportHasAllTaken
<1>. QED BY <1>1, MsgInvInit, MsgInvNext, PTL DEF Spec
=============================================================================
