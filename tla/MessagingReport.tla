-------------------------- MODULE MessagingReport --------------------------
(***************************************************************************)
(* Messaging.get_report() of drivers/messaging.py: the report is read from *)
(* a message topic by a listener whose threads call the endpoint, while    *)
(* the main thread waits until nothing of the trace has arrived for        *)
(* idle_timeout, or a signal interrupts it.                                *)
(*                                                                         *)
(* Time is kept as ages: how long ago something happened, up to the age at *)
(* which idle_timeout is over, so no clock grows without end.  oslo.       *)
(* messaging (the topic, the listener and its threads) is external.        *)
(***************************************************************************)
EXTENDS Integers, SequencesExt

CONSTANTS
  Events,       \* the notifications in the topic, of every trace
  Mine,         \* those of the trace that is asked for
  IdleTimeout,  \* self.idle_timeout, in ticks
  MaxSignals    \* BOUND: how often SIGINT or SIGTERM arrives

ASSUME EventsAssumption == IsFiniteSet(Events) /\ Mine \subseteq Events
ASSUME IdleTimeoutAssumption == IdleTimeout \in Nat
ASSUME MaxSignalsAssumption == MaxSignals \in Nat

VARIABLES
  pc,        \* where the main thread is in get_report()
  started,   \* history: whether server.start() has returned
  running,   \* state["running"]
  handler,   \* whose signal handlers are installed: "old" or "ours"
  idle,      \* age of notification_endpoint.last_read_time
  seen,      \* age of the local last_read_time
  rest,      \* what remains of time.sleep(wait)
  received,  \* notification_endpoint.received_messages
  report,    \* the events the report was made of
  topic,     \* external: the messages not yet taken from the topic
  unsent,    \* external: events that services have yet to publish
  listener,  \* external: "off", "on", "stopping"
  handling,  \* external: calls of endpoint.info() in progress
  signals    \* how many more signals may come

main == <<pc, started, running, handler, seen, rest, report, signals>>
listening == <<topic, unsent, listener, handling>>
vars == <<main, listening, received, idle>>

Expired == IdleTimeout + 1
Over == {"done", "nodata", "raised", "uncaught"}
InLoop == {"loop", "check", "sleep"}

Older(age) == IF age < Expired THEN age + 1 ELSE age

-----------------------------------------------------------------------------
(* Some of the events are in the topic before get_report() is called.      *)
Init == /\ pc = "called" /\ started = FALSE /\ running = FALSE /\ handler = "old"
        /\ idle = 0 /\ seen = 0 /\ rest = 0
        /\ received = << >> /\ report = << >>
        /\ \E S \in SUBSET Events : /\ topic \in SetToSeqs(S)
                                    /\ unsent = Events \ S
        /\ listener = "off" /\ handling = {}
        /\ signals = MaxSignals

(* The endpoint is built and our handlers are installed.                   *)
Begin == /\ pc = "called"
         /\ pc' = "installed"
         /\ handler' = "ours"
         /\ idle' = 0
         /\ UNCHANGED <<started, running, seen, rest, report, signals, received, listening>>

EnterTry == /\ pc = "installed"
            /\ pc' = "starting"
            /\ UNCHANGED <<started, running, handler, seen, rest, report, signals,
                           listening, received, idle>>

(* server.start() connects and polls from threads of its own before it     *)
(* returns; it may fail with ServerListenError, which is raised on.        *)
Connect == /\ pc = "starting" /\ listener = "off"
           /\ listener' = "on"
           /\ UNCHANGED <<main, topic, unsent, handling, received, idle>>

StartReturns == /\ pc = "starting" /\ listener = "on"
                /\ pc' = "connected"
                /\ started' = TRUE
                /\ UNCHANGED <<running, handler, seen, rest, report, signals,
                               listening, received, idle>>

StartFails == /\ pc = "starting" /\ listener = "off"
              /\ pc' = "raised"
              /\ UNCHANGED <<started, running, handler, seen, rest, report, signals,
                             listening, received, idle>>

EnterLoop == /\ pc = "connected"
             /\ pc' = "loop"
             /\ running' = TRUE
             /\ UNCHANGED <<started, handler, seen, rest, report, signals,
                            listening, received, idle>>

(* while state["running"]: last_read_time = endpoint.get_last_read_time()  *)
ReadTime == /\ pc = "loop"
            /\ pc' = IF running THEN "check" ELSE "stop"
            /\ seen' = IF running THEN idle ELSE seen
            /\ UNCHANGED <<started, running, handler, rest, report, signals,
                           listening, received, idle>>

Mut_Wait == IF IdleTimeout >= seen THEN IdleTimeout - seen ELSE 0
Wait == IdleTimeout - seen

CheckTime == /\ pc = "check"
             /\ IF Wait < 0
                  THEN pc' = "loop" /\ running' = FALSE /\ UNCHANGED rest
                  ELSE pc' = "sleep" /\ rest' = Wait /\ UNCHANGED running
             /\ UNCHANGED <<started, handler, seen, report, signals,
                            listening, received, idle>>

Wake == /\ pc = "sleep" /\ rest = 0
        /\ pc' = "loop"
        /\ UNCHANGED <<started, running, handler, seen, rest, report, signals,
                       listening, received, idle>>

(* finally: server.stop() takes no more messages; server.wait() returns    *)
(* when the calls of the endpoint have.                                    *)
StopServer == /\ pc = "stop"
              /\ pc' = "wait"
              /\ listener' = "stopping"
              /\ UNCHANGED <<started, running, handler, seen, rest, report, signals,
                             topic, unsent, handling, received, idle>>

Mut_CallsReturned == TRUE
CallsReturned == handling = {}

WaitServer == /\ pc = "wait" /\ CallsReturned
              /\ pc' = "restore"
              /\ listener' = "off"
              /\ UNCHANGED <<started, running, handler, seen, rest, report, signals,
                             topic, unsent, handling, received, idle>>

Restore == /\ pc = "restore"
           /\ pc' = "collect"
           /\ handler' = "old"
           /\ UNCHANGED <<started, running, seen, rest, report, signals,
                          listening, received, idle>>

Collect == /\ pc = "collect"
           /\ pc' = "done"
           /\ report' = received
           /\ UNCHANGED <<started, running, handler, seen, rest, signals,
                          listening, received, idle>>

(* A signal while our handlers are installed: SignalExit is raised in the  *)
(* main thread, wherever it is, and caught around server.start() and       *)
(* around the loop only.                                                   *)
AfterSignal == IF pc = "starting" THEN "nodata"
               ELSE IF pc \in InLoop THEN "stop"
               ELSE "uncaught"

Signal == /\ handler = "ours" /\ pc \notin Over /\ signals > 0
          /\ signals' = signals - 1
          /\ running' = FALSE
          /\ pc' = AfterSignal
          /\ UNCHANGED <<started, handler, seen, rest, report, listening, received, idle>>

-----------------------------------------------------------------------------
(* A service publishes; a thread of the listener takes a message and, when *)
(* the filter of the endpoint lets it pass, calls endpoint.info(), which   *)
(* appends the message and then notes the time.                            *)
Publish(e) == /\ e \in unsent
              /\ unsent' = unsent \ {e}
              /\ topic' = Append(topic, e)
              /\ UNCHANGED <<main, listener, handling, received, idle>>

Take == /\ listener = "on" /\ topic # << >>
        /\ topic' = Tail(topic)
        /\ handling' = handling \cup ({[event |-> Head(topic), appended |-> FALSE]}
                                        \cap [event : Mine, appended : BOOLEAN])
        /\ UNCHANGED <<main, unsent, listener, received, idle>>

InfoAppend(c) == /\ c \in handling /\ ~c.appended
                 /\ received' = Append(received, c.event)
                 /\ handling' = (handling \ {c}) \cup {[c EXCEPT !.appended = TRUE]}
                 /\ UNCHANGED <<main, topic, unsent, listener, idle>>

InfoTime(c) == /\ c \in handling /\ c.appended
               /\ idle' = 0
               /\ handling' = handling \ {c}
               /\ UNCHANGED <<main, topic, unsent, listener, received>>

Info == \E c \in handling : InfoAppend(c) \/ InfoTime(c)

Tick == /\ idle' = Older(idle)
        /\ seen' = Older(seen)
        /\ rest' = IF rest > 0 THEN rest - 1 ELSE 0
        /\ UNCHANGED <<pc, started, running, handler, report, signals, listening, received>>

Main == \/ Begin \/ EnterTry \/ Connect \/ StartReturns \/ EnterLoop
        \/ ReadTime \/ CheckTime \/ Wake
        \/ StopServer \/ WaitServer \/ Restore \/ Collect

Next == \/ Main \/ StartFails \/ Signal
        \/ \E e \in Events : Publish(e)
        \/ Take \/ Info \/ Tick

(* Threads are scheduled, time passes and server.start() returns.          *)
Spec == Init /\ [][Next]_vars
        /\ WF_vars(Main) /\ WF_vars(Take) /\ WF_vars(Info) /\ WF_vars(Tick)

-----------------------------------------------------------------------------
(* Properties.                                                             *)

(* When get_report() returns and the server had been started, interrupted  *)
(* in its loop or not, it misses no event of the trace that a listener     *)
(* thread has taken, since those threads are through when the messages are *)
(* collected, the server is stopped and the signal handlers of the caller  *)
(* are back: "restore original signal handlers".  The one other way to     *)
(* return is a signal within server.start(): then the report is empty.  Of *)
(* that return nothing more holds in the code: threads of the listener may *)
(* have taken events, which are dropped ("No data was collected"), go on   *)
(* taking them, and the handlers that raise SignalExit stay installed.     *)
Taken == (Events \ unsent) \ Range(topic)
ReportHasAllTaken ==
  pc \in {"done", "nodata"} =>
    IF started
      THEN /\ Range(report) = Taken \cap Mine /\ handling = {}
           /\ listener = "off" /\ handler = "old"
      ELSE report = << >> /\ signals < MaxSignals

(* The waiting ends: however the events arrive, get_report() returns or    *)
(* raises.  Sleeping for a wait of 0 is no exception.                      *)
Terminates == <>(pc \in Over)
=============================================================================
