# A TLA+ model of osprofiler

osprofiler is a library that OpenStack services use to trace a request through
many processes.  Every traced call opens and closes a *trace point*; opening
and closing each send one record to a collector, and a tool later reads the
records of one trace back and prints them as a tree.  The library is small and
runs inside other programs: in any of their threads, in the middle of their
exceptions, over a notifier whose backend may be down.  This directory models
that behaviour, checks it with TLC and proves part of it with TLAPS.

## Inventory

| component | state | operations | who calls it |
|---|---|---|---|
| profiler (`profiler.py`) | `__local_ctx.profiler` per thread; in it `_trace_stack` and `_name` | `init`, `get`, `start`, `stop`, `clean`, `_notify` | everything below |
| trace points (`profiler.py`) | `info` of a decorated function, `__traced__` | `trace`, `Trace`, `trace_cls`, `TracedMeta` | the application |
| middleware (`web.py`) | `_ENABLED`, `_HMAC_KEYS`, and those of the instance | `__call__`, `get_trace_id_headers`, `enable`, `disable` | a WSGI server; HTTP clients |
| requests (`requests.py`) | the patched `HTTPAdapter.send` | `send`, `enable` | the application's HTTP calls |
| SQLAlchemy (`sqlalchemy.py`) | `_DISABLED`, `engine.traced`, listeners | `add_tracing`, `wrap_session`, the three handlers | SQLAlchemy's event hooks |
| notifier (`notifier.py`) | the notifier in use, the cache of drivers | `create`, `set`, `notify`, `clear_notifier_cache` | `_notify`, the initializer |
| stores (`drivers/{redis,mongodb,sqlalchemy,elasticsearch}`) | the backend: notifications, marks of error traces | `notify`, `notify_error_trace`, `list_traces`, `list_error_traces`, `get_report` | notifier, command line |
| messaging (`drivers/messaging.py`) | the topic, the endpoint, signal handlers | `notify`, `get_report` | notifier, command line |
| loginsight (`drivers/loginsight.py`) | session id, login lock | `login`, `send_event`, `query_events` | notifier, command line |
| otlp (`drivers/otlp.py`) | one stack of spans per process | `notify` | notifier |
| report (`drivers/base.py`) | `result`, `started_at`, `finished_at`, `last_started_at` | `_append_results`, `_parse_results`, `_build_tree` | every `get_report` |
| command line (`cmd/commands.py`) | none that lasts | `trace show`, `trace list` | the operator |
| utilities, options, checks | none that lasts | `signed_pack`, `signed_unpack` | the middleware, HTTP clients |

A traced call runs `start`, its body and `stop` in one thread; `start` and
`stop` call the notifier, which writes to a backend and may raise into the
application.  Between processes the base id and the current id travel in two
HTTP headers; the middleware of the other process hands them to `init`, so that
its points hang below the caller's.  Much later another process reads the
records of a base id, in any order, and rebuilds the tree.

Hard behaviours: exceptions that unwind some of the traced calls; a notifier
that raises in the middle of `start` or `stop`; worker threads that are used
again for the next request; middlewares inside middlewares; records that are
lost, doubled or out of order; drivers that are used twice; listings that read
keys first and rows later, or page by page, while services write; the listener
threads, timeouts and signals of the messaging driver; caches, sessions and
stacks that threads share.  PROJECT.json lists each under "hazards" with its
line, and with the properties that would catch it.

What makes each component correct:

- profiler: its two stacks are one stack of open points; a record's parent is
  the enclosing point, in the same trace; a stop is of the point that was
  started last; none of this may be lost for good when a call fails.
- trace points, middleware, requests: a point that was opened is closed, once,
  however its call ends; a thread never carries a profiler into another request.
- report: made of what was recorded, in whatever order it is read; every
  record's point is in the tree once, and in the statistics once.
- messaging: all that was received is reported; the waiting ends; once the server
  has started, the caller's signal handlers come back with the report.
- stores: a stored trace is listed, once, with its first time stamp; a report
  reads its trace, all of it and nothing else; no error is forgotten silently.
- otlp: a stop ends the span of its own point, and there is one to end.
- loginsight: one login at a time and none without need; an operation that
  timed out is retried once, with a new session; every query ends.
- notifier: one driver per connection string, in use before the middleware
  accepts traced requests; what `create` answered once it answers again.
- SQLAlchemy tracing: an engine has its listeners once; two records per
  statement, also on errors.
- keys and the switch of the middleware: whoever is enabled accepts the requests
  of its user and of its peers, throughout a change of keys, and no others.
- class tracing: a call opens one point, however classes inherit; a traced method
  is bound as before; a class is traced wholly or not at all.
- `trace show`: what it draws are the calls that were recorded, each once, below
  the call around it.

## Modules

| module | what it is | code |
|---|---|---|
| `Profiler` | the profilers of all threads, and the collector | `profiler.py` `_Profiler` and the module functions |
| `ProfileTree` | what they promise: a tree of points, one current point per thread | abstract |
| `ProfilerProofs` | theorems about the stacks, records and trees of `Profiler`, and the refinement of `ProfileTree` | |
| `TracePoints` | nested calls with exceptions: decorator, `Trace`, `send`, middleware; extends `Profiler` | `profiler.py`, `requests.py`, `web.py` |
| `DbTracing` | statements of several threads on one engine among these calls; extends `TracePoints` | `sqlalchemy.py` |
| `Web` | services that call each other, their keys and switches; extends `TracePoints` | `web.py`, `_utils.py`, `initializer.py` |
| `WebProofs` | theorems about `TracePoints` and `Web` | |
| `Notifier` | applications that initialize one process, its cache of notifiers, its workers | `notifier.py`, `drivers/base.py`, `initializer.py` |
| `NotifierProofs` | theorems about `Notifier` | |
| `Decorating` | which methods of which classes are wrapped, and what their calls record | `profiler.py` `trace`, `trace_cls`, `TracedMeta` |
| `DecoratingProofs` | theorems about `Decorating` | |
| `Spans` | the otlp driver below all profilers of a process; extends `Profiler` | `drivers/otlp.py` |
| `AttachedProofs` | theorems about `DbTracing` and `Spans`, what is attached to the profilers | |
| `Stores` | five backends, the services that write, a tool that reads | `drivers/{redis_driver,mongodb,elasticsearch_driver,sqlalchemy_driver,loginsight}.py` |
| `Report` | one driver that reads the records of a trace and builds the report | `drivers/base.py` |
| `ReportProofs` | theorems about `Report` | |
| `TraceReport` | the reports and graphs of what programs have stored; composes `Profiler` and `Report` | `cmd/commands.py`, `drivers/*` `get_report` |
| `MessagingReport` | `get_report` of the messaging driver, its threads and signals | `drivers/messaging.py` |
| `MessagingReportProofs` | a theorem about `MessagingReport` | |
| `LogInsight` | the client that threads share, its session, lock and retry | `drivers/loginsight.py` |
| `DriverProofs` | theorems about `Stores` and `LogInsight` | |
| `MCProfiler`, `MCTraceReport`, `MCDbTracing`, `MCWeb`, `MCNotifier`, `MCDecorating`, `MCSpans`, `MCStores`, `MCReport`, `MCMessagingReport`, `MCLogInsight` | instances for TLC; `TracePoints` is run within `MCDbTracing` and `MCWeb` | |

A definition whose name starts with `Mut_` is a plausible error in the
definition after it; replacing one by the other breaks a property, which shows
that the property depends on that code.

**Profiler.** `local[t]` is the thread-local profiler, a record of the two
stacks of the code.  A uuid is the number of its generation (`next_id`); ids
that come from other processes are negative.  `Start` and `Stop` are the whole
methods, the call of the notifier included, whose outcome is a parameter: the
record is stored or not, and the call raises or not.  `InitFromThread` is a
hand-over inside the process: another thread calls `init` with the two ids that
`get_trace_id_headers` publishes.  The order of `stop` is that of the code: the
name is popped, the notifier is called, the id is popped only when it returns.

**ProfileTree** has no stack.  A point is a record with a parent, `current[t]`
is where the thread is in the tree, `StartPoint` adds a child of the current
point, `StopPoint` finishes the current point, unchanged and once, and goes to
its parent.  `Profiler` implements it (`ImplementsTree`) while the notifier
delivers: the points are the start records in the collector, the finished ones
the stop records, and the current id is the top of `_trace_stack`.

**TracePoints** extends `Profiler` with a call stack per thread and a flag that
says that an exception propagates.  Each way of opening a point is a kind of
frame; `Enter`, `Leave` and `Unwind` do with the profiler what the code of that
kind does, with the helpers of `Profiler`.  Since a profiler belongs to its
thread, the two or three profiler calls that one kind makes between two lines of
the application (`init`+`start`, `stop`+`clean`, `start`+`stop`) are one step.

**DbTracing** adds SQLAlchemy's statements to these calls.  `wrap_session` is
a sequence of steps (the check of the engine's mark, the three `listen` calls of
`add_tracing`, the mark), so that sessions of two threads overlap, and statements
of others run between the steps with as many listeners as there are by then.  A
statement starts a point for each before listener and stops one for each after
listener; an error runs the one error handler.  Three history variables say what
happened that excuses a deviation: listeners were added to an engine that had or
was getting some (`overlapped`), a statement left a start over (`leaked`), or
something was stopped that was not started (`overrun`: an error outside of a
statement).  External: the order in which SQLAlchemy calls its listeners, and
that listening twice counts once for a function but twice for two closures.

**Web** gives every thread to a service.  A service has its switch and its keys
either in the globals of `web.py` (set by `enable` from the `[profiler]`
section) or in the middleware itself (from `api-paste.ini`); the globals win when
they are set.  A request is made by the user, by somebody without a key, or by
`send` in a traced call of another thread, and `Accept` is `__call__` up to the
application.  Around the requests the operators replace the key of all services
as `doc/source/user/integration.rst` recommends: add, switch the user, remove.
External: an HMAC verifies with the key that made it, and only with that one.

**Notifier** has a program counter per application in `init_from_conf`: the check
of the cache, the making of the driver (which may fail), the store, the read,
`notifier.set` and `web.enable` are steps of their own, since two applications
interleave between any of them and `clear_notifier_cache` may come in between.
Workers open and close points once the middleware is enabled.  `raced`, `failed`
and `split` remember what the properties except.

**Decorating** represents a function object by a pair, so that a wrapper, what it
wraps and what a subclass inherits can be told apart, and a class by its
dictionary.  `trace_cls` looks attributes up as Python does and assigns to the
class it decorates; the mark `__traced__` is of the function object, which base
and subclasses share, and `functools.wraps` copies it.  A call is three steps:
the wrapper writes the arguments into the dictionary that all its calls share,
sends the dictionary, and calls what it wraps.  Left out: results and
`hide_args`, the decoration of an instance, two attributes for one function, and
one decorator object that is applied to several functions.

**Spans** runs the actions of `Profiler` with the outcome that the otlp driver
gives: a start may be refused (its infos cannot be serialized) before its span
is pushed, and a stop is refused when the stack is empty.  `ended` remembers for
every ended span which point stopped then; `disturbed` and `failed` remember
that a start was refused or that two threads had open points at once, which is
what the properties are conditional on.

**Stores** is one module for the five drivers, since they keep the same two
collections (notifications, and marks of error traces) and differ in how they
ask for them.  Both collections are kept by trace, as redis does, since no driver
depends on the order of notifications of different traces: what a query returns is
every sequence that its order, or the lack of one, allows (`InTimeOrder`,
`SetToSeqs`).  `Notify` and `NotifyErrorTrace` are the two writes of `notify()`,
either of which may fail.  A tool with its own driver calls one operation, and
reads by key (redis, mongodb: the keys, then a row of each while services go on
writing), by page (elasticsearch: the pages of one query until one is empty) or
by one query (sqlalchemy, loginsight).  Redis has the old schema as well, one key
per notification.
External: a single write is atomic and seen by later queries; `SCAN` returns a
key that was there when it began, and returns none twice; a distinct value is
returned once.

**Report** is one driver object.  `Deliver` is `_append_results` of any stored
record; delivering in any order, twice or never stands for the backends, which
promise nothing.  `Return` is `_parse_results` with `_build_tree`, and `Fail` the
same when it raises: the nodes before the bad one have been converted.  After
either the driver may be asked again (`ReadAgain`), with all that is in it.  A
dictionary that is iterated is a function and the sequence of its keys.  A name
is the sequence of its parts between hyphens, because a node is named by the
first (`FirstPart`).  The type of `started` and `finished`, a datetime first and a
number after the report, is kept, because a second report subtracts one from the
other.  A point may be stopped more than once, as in `Profiler` after a `stop`
that stored its record and raised.

**TraceReport** joins two ends that never run in one process.  It has the
behaviours of `Profiler`, and at every state of them it asks what a tool would
show: `get_report` folds the operators of `Report` over the records of a trace,
oldest or newest first, with an instance of `Report` whose variables are the
fields of the driver at that point, and `_create_dot_graph` follows the lists of
children down from the report.  The clock ticks once for each record, and
`TicksPerMs` of them are a millisecond, so that points start within the same one.

**MessagingReport** has the program counter of `get_report`, the listener's calls
of the endpoint (append, then the time, as two steps), the topic, and signals.
Our signal handlers are installed a step before the `try` is entered (`Begin`,
`EnterTry`), and `started`, a history variable, says whether `server.start()` has
returned.  Time is kept as ages that saturate just above `idle_timeout`, so the
model is finite with no bound on time.

**LogInsight** has a program counter per thread: a query, the wait for the lock,
the check of the current session, the login, the time between a session being
granted and its answer arriving, and the retry, which reads the client's session
after the lock was released (`Retry`), when others may have logged in.  The server
is external: it numbers the sessions it grants, forgets any of them at any time
(`Expire`), and any request may end in an error.  `attempt` tells the first try of
a query from the retry, and both from the login in the driver's `__init__`.

## Runs

| run | instance | what it shows |
|---|---|---|
| `profiler_reliable` | 2 threads, 2 names, 3 uuids, 1 foreign id | the stacks are in step and implement the tree |
| `profiler_failing` | `TraceReport`: the same, every outcome of the notifier | what survives failures: the ids of `__init__` stay, parents are older, a point has one place, in one trace, and `trace show` draws the calls; 3 records are stored per millisecond |
| `points_reliable` | `DbTracing`: 2 threads, 3 uuids, `Trace` blocks and middleware, depth 2, engine with and without listeners | listeners come once and in pairs; calls, statements and profiler agree through errors; two records per point |
| `services` | `Web`: 2 services, 3 uuids, all kinds, nested, depth 2, a notifier that raises | no profiler leaks into another request, a request joins the trace it names, a change of keys rejects nothing, only the user starts traces |
| `notifier` | 3 applications, 1 worker, 4 drivers, 1 clearing | one driver, both records of a point to it; an enabled middleware records; answers stick |
| `decorating` | a class, a subclass, one with the metaclass; a method, a static one, a class method; 2 decorations, 2 calls, 2 threads | one point per call, binding kept, records of their own call, other classes untouched, all or nothing |
| `report` | every tree of 3 points, 16 timings, and a point stopped twice; any order, loss and duplication, up to three reports by one driver, some of which fail | times, exceptions and names are such as were read; each point is counted once and is in the tree once, or, in a later report, up to once for every report made |
| `messaging` | 3 events, 2 of the trace, 1 signal, timeout of 2 ticks | once the server has started nothing taken is lost and handlers come back with the report; before, the report is empty, and after a signal only; the waiting ends |
| `stores` | 5 drivers, 2 services, 5 notifications of 2 traces, 3 of the old schema, pages of 2 | what listings and reports hold of what was stored, while services write and writes fail |
| `stores_first_event` | the same | finding: redis lists a trace with its notification before the last |
| `loginsight` | 3 threads, 2 expiries, 1 error | no needless login, retries carry a new session, every query ends |
| `spans` | 2 threads, 4 uuids, refused starts | whose span a stop ends, when there is one to end, and that none ends twice |

The bounds are enough for the cases to happen.  Three uuids make a point, its
child and a point after a failed stop, or a point handed to another thread with
a child there; threads share only the collector and the generator of uuids, so a
third adds no new interaction.  Four uuids make two points in each of two
threads, the first case in which both threads have an enclosing and an inner
span.  `points_reliable` has three uuids: a statement in a call is two, and the
third is that of a second listener, of a call in a later session, or of the
other thread; depth 2 is a request with a block in it.  In `services`, whose
properties do not read the collector, the notifier never stores, which keeps
the states few; two services are one of each way of configuring, and a middleware
inside a middleware with a call of the other service in it is depth 2.  With
three applications one can store its driver after another has read its own and
while a third finds the cache full; four drivers are one for each and one after
the clearing.  Two decorations are the second one on a base, on a subclass or on
the same class, and two calls are a recursion or a race of two threads.
In a report, three points are the first number with a grandchild, with two
siblings and with an orphan; two of them are named `db-read` and `db-write`, one
line of the statistics, apart from `rpc`; a clock tick is half a millisecond, so that
truncation happens; timings include a child that starts before its parent, as
clocks of two hosts allow.  Of three reports the second can fail and the third
succeed, or all three be returned.  In `TraceReport` three records share a
millisecond, so that two siblings may start in the same one or in different
ones.  In the stores a trace has three notifications of two
hosts, one more than a page, with an earlier time stamp stored later; error and
other notifications mix; one trace has both schemas of redis and one only the
old.  Two messages of the trace and one of another are enough for a call in
progress while another waits.  With two expiries and an error a session can
expire, its successor expire under the retry, and a login fail in between, with
a third thread waiting for the lock throughout.

**Fairness.** Only `MessagingReport` and `LogInsight` state liveness.  The first
says that the main thread, the listener and its calls are scheduled, that time
passes and that `server.start()` returns.  Services publish without fairness.
Events are finitely many: with an endless stream closer than `idle_timeout` the
code does not return, by design.  The second says for every thread that the server
answers its request, be it with an error, and that a thread that waits for a lock
that is free gets it: weak fairness is enough because logins are bounded by
expiries and errors, so that the lock is not taken from a waiting thread for ever.
That requests end is an assumption about the server and the network, not about the
code: `_send_request` sets no timeout, so a connection that neither answers nor
breaks keeps its thread, and with it the lock, for ever.  Queries are begun
without fairness.  Runs of `Report`, `MessagingReport`, `Stores` and `Decorating`
really end, so they do not check for deadlock.  Threads, names and applications
are symmetric in the runs that say so in their configuration; none of those checks
liveness.

**Types.** A type invariant is a run's property where a theorem states it
(`TypeOK` of `Profiler`, `LoginTypeOK`); elsewhere runs are spent on the
properties that relate the variables.

**Violations.** A run with `expect: violation` checks one sentence of a comment,
docstring or guide of the repository that the code does not keep; PROJECT.json
quotes it under "findings".  There is one, `stores_first_event`.

**Known behaviours without a run.** The models contain these too.  Where a
property has a condition, one of them is its reason.

- After a `stop` that raised, the name of its point is gone and its id is not
  (`profiler.py:472`): the next `stop` sends the name of the enclosing point with
  the id of the one that failed.
- The patched `send` has no `finally` (`requests.py:67`): a request that raises
  leaves its point open until the profiler is cleaned.
- A middleware inside another one cleans the profiler of the outer, whose stop is
  then lost.
- The second report of one driver lists children again, because `_build_tree`
  appends to the lists of the first.  It is a TypeError unless both notifications
  of every node were read again (`base.py:273`); the nodes it came to before the
  bad one then hold milliseconds, and a third attempt, with all of them read,
  succeeds.
- Siblings that start within a millisecond are listed in the order in which they
  were read (`base.py:185`, `273`): a driver on redis, which reads the newest
  first, turns them around.
- The statistics merge points whose names differ behind the first hyphen
  (`base.py:219`).
- A point that was stopped twice, after a `stop` that stored its record and
  raised, has the time and the exception of whichever stop was read last
  (`base.py:231`).  Which name it has depends on the order too.
- When `server.start()` of the messaging driver is interrupted, `get_report`
  returns an empty dictionary, with its own signal handlers installed, a server
  that may be listening and is not stopped, and what its threads have taken
  dropped (`messaging.py:145`), although the code speaks of a graceful
  interruption, of no data collected, and of restoring the handlers
  (`messaging.py:136`, `148`, `170`).  `ReportHasAllTaken`
  says what is left there: the report is empty, and there was a signal.
- A signal between the installation of our handlers and the `try`
  (`messaging.py:138`), or while the server is stopped or the handlers are put
  back, raises out of `get_report`.
- It returns an empty report when connecting takes longer than `idle_timeout`.
- Two sessions that open at the same time, or `add_tracing` by the service before
  a `wrap_session`, double the listeners of an engine; an error then stops one of
  the two points of its statement.
- An engine whose first session is opened while tracing is disabled is marked as
  traced, and never gets listeners.
- Two applications that initialize at the same time make two drivers, and the one
  that stores last stays in the cache, be it the no-op notifier of a driver that
  could not be made.  A cached notifier ignores what later callers pass.
- A class method that is traced is called with its class a second time, and is
  never marked as traced.  The mark of an inherited function is shared: a sibling
  class that inherits it too is refused.
- `enabled` from `api-paste.ini` is a string, and so is always true.

Some more are outside of the models.  `trace()` makes one info for all the
functions that its result is applied to (`profiler.py:136`), so that two of them
send the name of the first and share the race between writing and sending it;
in `Decorating` every wrapper has its own (`InfoOf`).  `trace show --dot` takes the
label of a point named `wsgi`, `rpc` or `driver` from its start record, and
raises a KeyError if that was lost.  A Log Insight query returns at most 20000
events.  A signature of other than ASCII characters makes the request fail with a
TypeError (`_utils.py:132`), where any other bad one lets it pass untraced.  The
mark of an error in mongodb is an upsert without a unique index, so that two
services may leave a trace two of them; the model has one.

## Proofs

The theorems hold for every value of the constants that satisfies the assumptions
the modules declare.  These are: foreign ids are negative (no id of another
process equals one generated here), `None` is no id, no profiler, no point, no
sequence of ids, and in `Web` no key and nothing that a configuration holds;
`Outcomes` is a set of outcomes, bounds are numbers, the events of
`MessagingReport` finitely many; in `Web` the two keys differ and every thread
belongs to a service; in `Decorating` the MRO of a class is a sequence of classes
that starts with it, no class is a number, and `None` is no class, kind or entry
of a dictionary; in `Report` all notifications of a point have one parent (what
`PlacesAreUnique` shows of those that profilers send), time stamps are integers,
and `None` is no id and no time; in `Stores` the notifications that services send
are all different and none is of the old schema, which has finitely many, their
timestamps are naturals, and a page has a row at least; in `LogInsight` the
builder is a thread, and `None` no thread and no session.

Five theorems have a hypothesis of their own.  `StacksInStep` is about a notifier
that never raises, `TreeIsImplemented` about one that only delivers; the run
`profiler_reliable` instantiates both.  With failures neither property holds, and
what remains is `GuardSuffices`, `NoCycles`, `PlacesAreUnique` and
`TreesAreWhole`.  `StacksMirrorTheCalls` and `PointsHaveTwoRecords` are about calls
that all stop what they started: no middleware inside another, and no patched
`send`; the first needs a notifier that never raises, the second one that
delivers; the run `points_reliable` instantiates both.  `OtlpIsANotifier` needs
`Profiler` to allow the two outcomes that the otlp driver has.

| theorem | property | argument |
|---|---|---|
| `TypeCorrect` | `TypeOK` | inductive together with the next |
| `GuardSuffices` | `StackAboveNames` | `Inv`: types and one id per name above the two of `__init__` |
| `StacksInStep` | `StackMatchesNames`, if the notifier never raises | `MatchInv`: with equality, a stop pops both stacks |
| `NoCycles` | `ParentOlder` | `OlderInv`: ids grow along every stack |
| `PlacesAreUnique` | `OnePlacePerPoint` | `PlaceInv`: records and stacks agree on the place of every id |
| `TreesAreWhole` | `TreeStaysInTrace` | `PlaceInv`: an id is mentioned only in the trace of its place |
| `TreeIsImplemented` | `ImplementsTree`, if the notifier only delivers | `TreeInv`: every open name is a started, unfinished point, open once |
| `NoProfilerIsLeft` | `IdleThreadsClean` | `CallInv`: a profiler is there for a request in progress |
| `RequestsAreNotMixed` | `RequestJoinsItsTrace` | `CallInv`: `start` and `stop` leave a profiler in its trace |
| `ServicesCallAsModelled` | `WebSpec => CallSpec` | step by step: `Accept` is one of the calls of `TracePoints` |
| `UpgradesLoseNoTrace` | `UpgradeHasNoImpact` | `WebInv`: all accept the user's key, and the old one while a profiler has it |
| `StrangersStartNothing` | `TracesAreOfTheUser` | `WebInv` |
| `EngineIsTracedOnce` | `ListenersPaired` | `DbInv`: the listeners are counted by the threads about to add them |
| `SpansAreTheirPoints` | `OwnSpans` | `SpanInv`: the top of the spans is the top of the one busy stack |
| `StacksMirrorTheCalls` | `StackMirrorsCalls`, if the notifier never raises and every call stops what it started | `MirrorInv`: from the last middleware on, one id per call, and those of the statement |
| `PointsHaveTwoRecords` | `TwoRecords`, if the notifier delivers and every call stops what it started | `TrackInv`: one record of each id on a stack, two of each that was; what is on a stack is a point in progress |
| `SpansEndOnce` | `EndedOnce`, one half of `SpanForEveryPoint`, without its condition | `SpanInv`: the points of spans grow |
| `OpenPointsHaveSpans` | `SpanForEveryPoint` | `SpanCount`: as many spans as open points of all threads, at least |
| `OtlpIsANotifier` | `SpanSpec => Spec` | its outcomes are outcomes of `Profiler` |
| `RecordsAreOfTheirCall` | `RecordsOfTheirCall` | `RecordInv`: what the dictionary of a wrapper holds for those about to send it |
| `CallsOpenOnePoint` | `OnePointPerCall` | `ChainInv`: an entry without a mark has no layer, one with a mark has one |
| `MethodsStayBound` | `MethodsKeepTheirKind` | `ChainInv`: the kind of an entry is that of its original |
| `AllOrNothingIsTraced` | `NeverHalfTraced` | a decoration adds a layer to what it wraps, and none to the rest |
| `OthersAreUntouched` | `OthersUntouched` | a step writes to the dictionary of one class, and a lookup reads those of the MRO |
| `ReportsAreTrue` | `NodesAsRecorded` | `TimesInv`: every half of a node is of a notification that was read, and so are the two extremes |
| `StatisticsAddUp` | `StatsAddUp` | `TimesInv`: every node read has one name, and a duration of two moments of one kind |
| `EveryNodeHasItsPlace` | `TreeHoldsEachNode` | `TreeInv`: how often a list has each child |
| `ChildrenInOrder` | `SiblingsInOrder` | the same, and the lemma `Ranks` on sorting |
| `NothingTakenIsLost` | `ReportHasAllTaken` | `MsgInv`: the accounts of the endpoint, closed when `server.wait()` has returned, and who returns before the server started |
| `NoTraceOverlooked` | `StoredTracesListed` | `StoreInv`: what was there when the tool called stays; the keys read have their rows |
| `TracesAreListedOnce` | `TracesListedOnce` | `StoreInv`: two rows of a trace are of different schemas, or are different hits |
| `TracesAreListedAtTheirStart` | `ListedAtItsStart` | `StoreInv`: the row of a key was the earliest when it was read |
| `ReportsReadTheirTrace` | `ReportReadsItsTrace` | `StoreInv`: the pages read are the beginning of the hits |
| `NoErrorForgotten` | `ErrorsMarked` | `StoreInv`: what a service has yet to send is not stored, unless it is between its writes |
| `LockIsReleased` | `LoginTypeOK` | `LoginInv`: the lock and the program counters agree |
| `NoNeedlessLogin` | `LoginsNeeded` | `CountInv`: an account of the active sessions |
| `RetriesAreNew` | `RetryHasNewSession` | `RetryInv`: the client's session only moves on to newer ones |
| `DriverIsShared` | `OneDriver` | `Single`, with `Alone`: before and after the one driver is cached |
| `TracingIsRecorded` | `EnabledIsRecorded` | `Recorded`: what an answer is on its way to `set` |
| `AnswersStick` | `AnswerSticks` | `Alone`: who makes a driver without a race finds the cache empty |

- `TypeOK` is not inductive: a notification reads the last two ids of the stack,
  and is a notification only if they exist.  `StackAboveNames` supplies them
  (`stop` is guarded by a name, so there are three ids), and itself needs the
  types to know that the pops shorten the stacks.  `LocalUpdate` says what every
  action shares: replacing the profiler of one thread by a well-formed one.
- `ParentOlder` speaks of records, which are read from stacks; the
  strengthening `StacksGrow` says that above the first two every id was
  generated and is greater than the one below it, and that none is yet to be
  generated, so that `start` pushes one greater than all.  It survives stops
  that fail, because an id that stays on the stack is still in order.
- `OnePlacePerPoint` compares two records that may be written by different
  threads long after each other, and `stop` writes what it reads from a stack.
  `PlaceInv` therefore speaks of records and stacks together: the *place* of an id
  (its trace and parent) is in its records and, while it is open, on a stack, and
  an id has one place only.  For the hand-over to another thread this is not
  enough: that thread adds the id to a stack below which new places arise.  So it
  also says which trace *mentions* an id, as a parent or as the point where a
  thread joined, and that only the trace of its place does.  All operations are
  then one of three: they lose places and mentions, join, or add the next uuid.
- The refinement of `ProfileTree` adds to it that names and ids are in step, and
  `OpenTracked`: each open name is a point that is started, not finished, not the
  point where its thread joined, and open in one place of one stack only.  Then
  `Stop` finishes a point of the tree that is unfinished, and the current point
  moves to its parent, which is the id below it on the stack.
- `CallInv` looks at a thread's profiler and its calls together: a profiler is
  there only under a request (`Served`), and if there is one request it is in the
  trace of that request's header (`Joined`).  Nested middlewares are the
  difficulty, since the inner one cleans the profiler of the outer; the invariant
  says nothing of two requests, and when one is left again the profiler is gone or
  still in its trace.
- The keys of `Web` are safe because of two facts about all services at once
  (`UpgradeInv`): each accepts the key that the user signs with now, and as long
  as any profiler signs with the old key each accepts the old one.  The operators
  remove it, "at some time in the future", when no profiler has it any more.
- `ListenersPaired` excludes overlapping sessions with a history variable.
  `AloneInv` says what its absence means, namely that the one thread in
  `add_tracing` is the only one there and how far the engine is; `CountInv` holds
  whatever overlaps, and counts the threads between the second and the third
  listener, so that nobody adding implies that the listeners are in pairs.
- `MirrorInv` splits the calls of a thread at its middleware: those before it have
  no point, and from it on the ids above the two of `__init__` are the points of
  the calls, one each, followed by those of the statement.  Only the middleware
  gives a thread a profiler, and takes it away when it returns, which is why the
  place of the split never moves in between.  The statement of the property is
  about a selection and a concatenation of sequences; the lemmas `PointsOf` and
  `PartProperties` say what these are, element by element.
- `TrackInv` is what remains of this when an error outside of a statement has
  stopped points of calls before their time.  The stack of a thread then lacks
  points, and nothing says which; but it has no other (`Covered`), because a stop
  takes the uppermost id, ids grow along both the stack and the calls, and so the
  id that a returning call leaves behind cannot be its own.  The rest is
  bookkeeping: the collector has the start, and no stop, of every id on a stack,
  and both, in this order, of every id that no stack has any more (`Accounts`);
  no id is on two stacks.  A statement that stopped less than it started breaks
  it, which is why nothing is said once `leaked` is set.
- `SpanInv` ties the stack of spans to the stacks of ids.  That no span ends twice
  needs only that spans are in the order of their ids (`SpansGrow`).  That a stop
  ends its own span needs `Undisturbed`: at most one thread has open points, and
  these are the uppermost spans in the same order; what `clean` left is below.
  `OpenPointsHaveSpans` needs no such condition: the open points of all threads
  are a finite set, which grows by one when a span is pushed or a start refused,
  and loses one when a span is popped.
- `RecordInv` follows the dictionary that all calls of a wrapper share.  A thread
  between writing it and sending it (`StartInv`) finds the name of the function
  there and its own arguments, unless it is in `overtaken`; only the innermost
  call of a thread can be there, so recursion does no harm.  No class is decorated
  once there was a call (`LoadingInv`), so that the chain of wrappers, over which
  `Original` is defined by recursion, is the same function from then on: the
  proof needs this and not what it computes.
- `ChainInv` is about the chains from a wrapper down to the function that a body
  has defined.  `Layers`, `BoundLayers` and `Original` are recursive functions over
  `wraps`; since what a wrapper calls is older (`Descends`), they are defined
  (`ChainsDefined`), two solutions of their equation agree (`ChainsAgree`), and a
  new wrapper adds one layer and leaves the old chains alone (`ChainsGrow`).
  `MarksOK` then ties the mark `__traced__`, which travels with function objects,
  to the number of layers: without a mark there is none.
- `TimesInv` says of every node that its start is that of a notification which was
  read, and its finish and its exception are those of one and the same.  A point
  may be stopped twice, so it does not say of which.  A second report finds
  numbers of milliseconds where the first found times; a report is returned only
  if every number was written over, because the code subtracts a time from each.
  A report that fails converts some of the nodes, and takes nothing from the
  invariant (`ConvertedTimes`).
- `TreeInv` counts: a list has a child once for every report made, if it is the
  child's, and never otherwise.  Sorting is what needs an argument, because
  `SortSeq` is known only by what it returns: `Ranks` shows that a strict order on
  a finite set puts its elements at the places 1 to its cardinality, so the sorted
  sequence has each of them once, in order.
- `MsgInv` keeps the accounts of the endpoint: what the listener took is received
  or in a call that has not appended.  `ClosedInv` says that after `server.wait()`
  there is no such call and nothing moves any more.  `StartedInv` tells the two
  ways of returning apart: on the one before the server has started nothing was
  collected, and a signal has come.
- `StoreInv` has a part for what services write and one for what the tool has
  read.  Notifications differ, an assumption on `Sent` that their ids justify, so
  nothing is stored twice (`EachOnce`) as long as what is still to be sent is not
  stored (`Unsent`); only between its two writes does a service have a stored
  notification in hand (`InBetween`), which its mark is then made from.  For the
  tool the data only grows (`DataGrows`, `Snapshots`), so that whatever it has
  read by key (`Listing`), by page (`Paging`) or by one query (`Answering`) stays
  right while services go on writing.  The rows of a trace are counted by the
  schema they are of, which their notifications tell (`OneRowOfASchema`).
- `LoginInv` adds to mutual exclusion what a thread inside `login` relies on: the
  session it checks is still the client's, because only the holder of the lock
  changes it, and the one granted to it is the newest.
- `LoginsNeeded` bounds a counter by two others.  `CountInv` says where the
  sessions are: granted ones expired or are active (`Counted`), and the active
  ones, apart from the one that the client has or the holder of the lock is
  about to install, are at most as many as the errors (`Spare`).  The check
  inside the lock is what makes it inductive: a login starts either when the
  client's session is not active, and then there is none apart, or after an
  error, which is counted.
- `RetryHasNewSession` compares two sessions of one thread that other threads'
  logins lie between.  `RetryInv` orders all of them: a refused session was the
  client's, so it is not newer than the client's is (`GoneInLogin`), one that is
  being granted is newer than that (`Newest`), and one the server has forgotten
  never becomes active again.  Others may log in between a login and the retry; the
  session it then finds is newer than the refused one all the same
  (`NewInRetry`).  That a timeout needs two expiries is then a matter of counting,
  with `CountInv`.
- `NotifierInv` splits the life of the cache.  `Alone` says that, as long as no
  application has looked while another was making a driver, there is at most one
  maker and its cache is empty.  Then nothing has been answered, set or enabled
  before something is cached (`Before`), and what is cached is what everybody has
  from then on, open points included (`Afterwards`).  `Recorded` needs no such
  condition, because every application sets its answer before it enables.

Only model-checked: `TraceReport`, and liveness.

- Liveness under fairness (`Terminates`, `QueriesEnd`) is out of the prover's
  reach.
- The graph of `TraceReport` (`ShowDrawsTheCalls`) is drawn by recursion over the
  report, and the report is a fold over the records; both need induction over
  that data.

## Plan

Proofs: `TraceReport`, for which the walk of `trace show` over the report would
have to be defined by the paths of the tree instead of by recursion.

Modelling that could be added: one report of a trace through several services
(the records of `Web`, read by `TraceReport`), `requests.enable` in the
initialization, and `notify` of the messaging driver.

## Not modelled

- Option declarations, argument parsing, and output (labels, JSON, HTML, DOT
  text), the hacking checks and the exception classes keep no state.
- The search for driver classes, the connections that drivers open, and
  `requests.enable` happen once, at start-up.
- Infos, hosts, projects and raw payloads travel through the code unread and are
  left out, except the exception class that the report shows and the arguments
  that `Decorating` follows; conversions between uuids, short ids and integers
  are left out with them.
- `notify` of the messaging driver passes its record to oslo.messaging.
