--------------------------- MODULE AttachedProofs ---------------------------
(***************************************************************************)
(* Theorems about what is attached to the profilers of a process: the      *)
(* listeners of SQLAlchemy's engine (DbTracing) and the spans of the otlp  *)
(* driver (Spans), for any number of threads, statements and points.       *)
(***************************************************************************)
EXTENDS DbTracing, Spans, WebProofs, FiniteSetTheorems

-----------------------------------------------------------------------------
(* The listeners.  The invariant counts the threads between their second   *)
(* and third call of listen(); as long as nobody overlapped, there is at   *)
(* most one thread in add_tracing(), and the engine is as far as it is.    *)

Engines == [before : Nat, after : Nat, error : BOOLEAN, traced : BOOLEAN]
SessionStates == {"none", "open"} \cup Attaching

In(s) == {t \in Threads : session[t] = s}
Quiet == \A t \in Threads : session[t] \notin Attaching
Complete == engine.after = engine.before /\ (engine.error <=> engine.before > 0)

DbTypeOK ==
  /\ engine \in Engines
  /\ session \in [Threads -> SessionStates]
  /\ overlapped \in BOOLEAN /\ leaked \in BOOLEAN
  /\ statement = [t \in Threads |-> statement[t]]

(* Whatever the interleaving of sessions.                                  *)
CountInv ==
  /\ IsFiniteSet(In("after"))
  /\ engine.before = engine.after + Cardinality(In("after"))
  /\ engine.error => engine.before > 0
  /\ In("after") \cup In("error") # {} => engine.before > 0
  /\ engine.before > 0 /\ ~engine.error => In("after") \cup In("error") # {}
  /\ \A t \in Threads : session[t] = "open" => engine.traced

(* As long as no two threads added listeners at the same time.             *)
AloneInv ==
  ~overlapped =>
    /\ ~leaked
    /\ engine.before <= 1
    /\ \A t \in Threads : session[t] \in Attaching =>
         /\ ~engine.traced
         /\ \A u \in Threads : session[u] \in Attaching => u = t
         /\ session[t] = "before" => engine.before = 0
         /\ session[t] \in {"after", "error"} => engine.before = 1
         /\ session[t] = "mark" => Complete
    /\ \A t \in Threads : statement[t] # None =>
         session[t] = "open" /\ Len(statement[t]) = engine.before

DbInv == DbTypeOK /\ CountInv /\ AloneInv

LEMMA DbInvInit == DbInit => DbInv
<1>. SUFFICES ASSUME DbInit PROVE DbInv
  OBVIOUS
<1>1. /\ engine \in {Bare, Added}
      /\ session = [t \in Threads |-> "none"]
      /\ statement = [t \in Threads |-> None]
      /\ overlapped = FALSE /\ leaked = FALSE
  BY DEF DbInit
<1>2. /\ engine \in Engines
      /\ engine.before = engine.after /\ engine.before <= 1
      /\ engine.error <=> engine.before > 0
  <2>1. 0 \in Nat /\ 1 \in Nat /\ TRUE \in BOOLEAN /\ FALSE \in BOOLEAN
    OBVIOUS
  <2>2. Bare \in Engines /\ Added \in Engines
    BY <2>1, Zenon DEF Bare, Added, Engines
  <2>3. engine \in Engines
    BY <1>1, <2>2
  <2>4. CASE engine = Bare
    BY <2>3, <2>4 DEF Bare
  <2>5. CASE engine = Added
    BY <2>3, <2>5 DEF Added
  <2>. QED BY <1>1, <2>3, <2>4, <2>5
<1>3. In("after") = {} /\ In("error") = {}
  BY <1>1 DEF In
<1>4. IsFiniteSet(In("after")) /\ Cardinality(In("after")) = 0
  BY <1>3, FS_EmptySet
<1>5. DbTypeOK
  BY <1>1, <1>2 DEF DbTypeOK, SessionStates
<1>6. CountInv
  <2>1. engine.before = engine.after + Cardinality(In("after"))
    BY <1>2, <1>4 DEF Engines
  <2>2. In("after") \cup In("error") = {}
    BY <1>3
  <2>3. ~(engine.before > 0 /\ ~engine.error)
    BY <1>1 DEF Bare, Added
  <2>4. \A t \in Threads : session[t] # "open"
    BY <1>1
  <2>. QED BY <1>2, <1>4, <2>1, <2>2, <2>3, <2>4 DEF CountInv
<1>7. AloneInv
  BY <1>1, <1>2 DEF AloneInv, Attaching
<1>. QED BY <1>5, <1>6, <1>7 DEF DbInv

(* How the threads in each state change when t goes to state s.            *)
LEMMA SessionUpdate ==
  ASSUME DbTypeOK, NEW t \in Threads, NEW s \in SessionStates, SetSession(t, s)
  PROVE  /\ session' \in [Threads -> SessionStates]
         /\ session'[t] = s
         /\ \A u \in Threads : u # t => session'[u] = session[u]
         /\ \A r : r # s /\ r # session[t] => In(r)' = In(r)
         /\ s # session[t] => t \notin In(s) /\ In(s)' = In(s) \cup {t}
         /\ \A r : r # s /\ r = session[t] => t \in In(r) /\ In(r)' = In(r) \ {t}
<1>1. /\ session' \in [Threads -> SessionStates]
      /\ session'[t] = s
      /\ \A u \in Threads : u # t => session'[u] = session[u]
  BY DEF DbTypeOK, SetSession
<1>2. \A r : In(r)' = {u \in Threads : session'[u] = r}
  BY DEF In
<1>3. \A r : r # s /\ r # session[t] => In(r)' = In(r)
  BY <1>1, <1>2 DEF In
<1>4. s # session[t] => t \notin In(s) /\ In(s)' = In(s) \cup {t}
  BY <1>1, <1>2 DEF In
<1>5. \A r : r # s /\ r = session[t] => t \in In(r) /\ In(r)' = In(r) \ {t}
  BY <1>1, <1>2 DEF In
<1>. QED BY <1>1, <1>3, <1>4, <1>5

LEMMA ApartStates ==
  /\ Attaching \subseteq SessionStates
  /\ {"none", "open"} \subseteq SessionStates
  /\ "none" \notin Attaching /\ "open" \notin Attaching
BY DEF Attaching, SessionStates

(* A step that changes neither the engine nor the sessions.                *)
LEMMA EngineKept ==
  ASSUME DbInv, UNCHANGED <<engine, session>>
  PROVE  CountInv'
BY DEF DbInv, CountInv, In

LEMMA WrapSessionOK ==
  ASSUME DbInv, NEW t \in Threads, WrapSession(t)
  PROVE  DbInv'
<1>. DEFINE s == IF IsTraced(engine) THEN "open" ELSE IF disabled THEN "mark" ELSE "before"
<1>1. /\ session[t] \in {"none", "open"} /\ statement[t] = None
      /\ SetSession(t, s)
      /\ overlapped' = (overlapped \/ (~engine.traced /\ AnyListening))
      /\ UNCHANGED <<engine, statement, leaked>>
  BY DEF WrapSession
<1>2. DbTypeOK /\ CountInv /\ AloneInv
  BY DEF DbInv
<1>3. s \in SessionStates /\ s \notin {"after", "error"} /\ (s = "open" <=> engine.traced)
  BY DEF SessionStates, Attaching, IsTraced
<1>4. /\ session' \in [Threads -> SessionStates] /\ session'[t] = s
      /\ \A u \in Threads : u # t => session'[u] = session[u]
      /\ In("after")' = In("after") /\ In("error")' = In("error")
  BY <1>1, <1>2, <1>3, SessionUpdate
<1>5. overlapped' \in BOOLEAN
  BY <1>1, <1>2 DEF DbTypeOK
<1>6. DbTypeOK'
  BY <1>1, <1>2, <1>4, <1>5 DEF DbTypeOK
<1>7. CountInv'
  BY <1>1, <1>2, <1>3, <1>4 DEF CountInv
<1>8. AloneInv'
  <2>. SUFFICES ASSUME ~overlapped' PROVE AloneInv'
    BY DEF AloneInv
  <2>1. ~overlapped /\ (engine.traced \/ ~AnyListening)
    BY <1>1
  <2>2. CASE engine.traced
    <3>1. \A u \in Threads : session[u] \notin Attaching
      BY <1>2, <2>1, <2>2 DEF AloneInv
    <3>2. \A u \in Threads : session'[u] \notin Attaching
      BY <1>3, <1>4, <2>2, <3>1, ApartStates
    <3>. QED BY <1>1, <1>2, <1>3, <1>4, <2>1, <2>2, <3>2 DEF AloneInv
  <2>3. CASE ~engine.traced
    <3>1. /\ \A u \in Threads : session[u] \notin Attaching
          /\ engine.before = 0
      BY <1>2, <2>1, <2>3 DEF AnyListening, DbTypeOK, Engines
    <3>2. \A u \in Threads : session'[u] \in Attaching => u = t
      BY <1>4, <3>1
    <3>3. \A u \in Threads : session[u] # "open"
      BY <1>2, <2>3 DEF CountInv
    <3>4. Complete
      <4>1. In("after") = {} /\ In("error") = {}
        BY <3>1 DEF In, Attaching
      <4>2. Cardinality(In("after")) = 0
        BY <4>1, FS_EmptySet
      <4>. QED BY <1>2, <3>1, <4>2 DEF Complete, CountInv, DbTypeOK, Engines
    <3>5. Complete'
      BY <1>1, <3>4 DEF Complete
    <3>6. \A u \in Threads : statement[u] = None
      BY <1>2, <2>1, <3>3 DEF AloneInv
    <3>. QED BY <1>1, <1>2, <1>3, <1>4, <2>1, <2>3, <3>1, <3>2, <3>5, <3>6 DEF AloneInv
  <2>. QED BY <2>2, <2>3
<1>. QED BY <1>6, <1>7, <1>8 DEF DbInv

(* One of the calls of listen(), or the mark: the thread t is the one that *)
(* is attaching, and no statement runs while it is alone.                  *)
LEMMA AttachesAlone ==
  ASSUME DbInv, ~overlapped, NEW t \in Threads, session[t] \in Attaching
  PROVE  /\ ~leaked /\ ~engine.traced /\ engine.before <= 1
         /\ \A u \in Threads : u # t => session[u] \notin Attaching
         /\ \A u \in Threads : session[u] # "open" /\ statement[u] = None
BY DEF DbInv, AloneInv, CountInv

LEMMA AttachOK ==
  ASSUME DbInv, NEW t \in Threads, Attach(t)
  PROVE  DbInv'
<1>1. /\ UNCHANGED <<statement, overlapped, leaked>>
      /\ ListenBefore(t) \/ ListenAfter(t) \/ ListenError(t) \/ Mark(t)
  BY DEF Attach
<1>2. DbTypeOK /\ CountInv /\ AloneInv /\ engine \in Engines
  BY DEF DbInv, DbTypeOK
<1>3. /\ engine.before \in Nat /\ engine.after \in Nat
      /\ Cardinality(In("after")) \in Nat
  BY <1>2, FS_CardinalityType DEF CountInv, Engines
<1>4. CASE ListenBefore(t)
  <2>1. /\ session[t] = "before" /\ SetSession(t, "after")
        /\ engine' \in Engines
        /\ engine'.before = engine.before + 1 /\ engine'.after = engine.after
        /\ engine'.error = engine.error /\ engine'.traced = engine.traced
    BY <1>2, <1>4 DEF ListenBefore, Engines
  <2>2. /\ session' \in [Threads -> SessionStates] /\ session'[t] = "after"
        /\ \A u \in Threads : u # t => session'[u] = session[u]
        /\ t \notin In("after") /\ In("after")' = In("after") \cup {t}
        /\ In("error")' = In("error")
    BY <1>2, <2>1, ApartStates, SessionUpdate DEF Attaching
  <2>3. /\ IsFiniteSet(In("after")')
        /\ Cardinality(In("after")') = Cardinality(In("after")) + 1
    BY <1>2, <2>2, FS_AddElement DEF CountInv
  <2>4. DbTypeOK'
    BY <1>1, <1>2, <2>1, <2>2 DEF DbTypeOK
  <2>5. CountInv'
    BY <1>2, <1>3, <2>1, <2>2, <2>3 DEF CountInv
  <2>6. AloneInv'
    <3>. SUFFICES ASSUME ~overlapped' PROVE AloneInv'
      BY DEF AloneInv
    <3>1. ~overlapped /\ session[t] \in Attaching
      BY <1>1, <2>1 DEF Attaching
    <3>2. engine.before = 0
      BY <1>2, <2>1, <3>1 DEF AloneInv
    <3>. QED BY <1>1, <2>1, <2>2, <3>1, <3>2, AttachesAlone DEF AloneInv
  <2>. QED BY <2>4, <2>5, <2>6 DEF DbInv
<1>5. CASE ListenAfter(t)
  <2>1. /\ session[t] = "after" /\ SetSession(t, "error")
        /\ engine' \in Engines
        /\ engine'.before = engine.before /\ engine'.after = engine.after + 1
        /\ engine'.error = engine.error /\ engine'.traced = engine.traced
    BY <1>2, <1>5 DEF ListenAfter, Engines
  <2>2. /\ session' \in [Threads -> SessionStates] /\ session'[t] = "error"
        /\ \A u \in Threads : u # t => session'[u] = session[u]
        /\ t \in In("after") /\ In("after")' = In("after") \ {t}
        /\ In("error")' = In("error") \cup {t}
    BY <1>2, <2>1, ApartStates, SessionUpdate DEF Attaching
  <2>3. /\ IsFiniteSet(In("after")')
        /\ Cardinality(In("after")') = Cardinality(In("after")) - 1
    BY <1>2, <2>2, FS_RemoveElement DEF CountInv
  <2>4. DbTypeOK'
    BY <1>1, <1>2, <2>1, <2>2 DEF DbTypeOK
  <2>5. CountInv'
    BY <1>2, <1>3, <2>1, <2>2, <2>3 DEF CountInv
  <2>6. AloneInv'
    <3>. SUFFICES ASSUME ~overlapped' PROVE AloneInv'
      BY DEF AloneInv
    <3>1. ~overlapped /\ session[t] \in Attaching
      BY <1>1, <2>1 DEF Attaching
    <3>2. engine.before = 1
      BY <1>2, <2>1, <3>1 DEF AloneInv
    <3>. QED BY <1>1, <2>1, <2>2, <3>1, <3>2, AttachesAlone DEF AloneInv
  <2>. QED BY <2>4, <2>5, <2>6 DEF DbInv
<1>6. CASE ListenError(t)
  <2>1. /\ session[t] = "error" /\ SetSession(t, "mark")
        /\ engine' \in Engines
        /\ engine'.before = engine.before /\ engine'.after = engine.after
        /\ engine'.error = TRUE /\ engine'.traced = engine.traced
    BY <1>2, <1>6 DEF ListenError, Engines
  <2>2. /\ session' \in [Threads -> SessionStates] /\ session'[t] = "mark"
        /\ \A u \in Threads : u # t => session'[u] = session[u]
        /\ t \in In("error") /\ In("after")' = In("after")
        /\ In("error")' = In("error") \ {t}
    BY <1>2, <2>1, ApartStates, SessionUpdate DEF Attaching
  <2>3. engine.before > 0
    BY <1>2, <2>2 DEF CountInv
  <2>4. DbTypeOK'
    BY <1>1, <1>2, <2>1, <2>2 DEF DbTypeOK
  <2>5. CountInv'
    BY <1>2, <1>3, <2>1, <2>2, <2>3 DEF CountInv
  <2>6. AloneInv'
    <3>. SUFFICES ASSUME ~overlapped' PROVE AloneInv'
      BY DEF AloneInv
    <3>1. ~overlapped /\ session[t] \in Attaching
      BY <1>1, <2>1 DEF Attaching
    <3>2. In("after") = {}
      BY <2>1, <3>1, AttachesAlone DEF In, Attaching
    <3>3. engine.before = engine.after
      <4>1. Cardinality(In("after")) = 0
        BY <3>2, FS_EmptySet
      <4>. QED BY <1>2, <1>3, <4>1 DEF CountInv
    <3>4. Complete'
      BY <2>1, <2>3, <3>3 DEF Complete
    <3>. QED BY <1>1, <2>1, <2>2, <3>1, <3>4, AttachesAlone DEF AloneInv
  <2>. QED BY <2>4, <2>5, <2>6 DEF DbInv
<1>7. CASE Mark(t)
  <2>1. /\ session[t] = "mark" /\ SetSession(t, "open")
        /\ engine' \in Engines
        /\ engine'.before = engine.before /\ engine'.after = engine.after
        /\ engine'.error = engine.error /\ engine'.traced = TRUE
    BY <1>2, <1>7 DEF Mark, Engines
  <2>2. /\ session' \in [Threads -> SessionStates] /\ session'[t] = "open"
        /\ \A u \in Threads : u # t => session'[u] = session[u]
        /\ In("after")' = In("after") /\ In("error")' = In("error")
    BY <1>2, <2>1, ApartStates, SessionUpdate DEF Attaching
  <2>3. DbTypeOK'
    BY <1>1, <1>2, <2>1, <2>2 DEF DbTypeOK
  <2>4. CountInv'
    BY <1>2, <1>3, <2>1, <2>2 DEF CountInv
  <2>5. AloneInv'
    <3>. SUFFICES ASSUME ~overlapped' PROVE AloneInv'
      BY DEF AloneInv
    <3>1. ~overlapped /\ session[t] \in Attaching
      BY <1>1, <2>1 DEF Attaching
    <3>2. \A u \in Threads : session'[u] \notin Attaching
      BY <2>2, <3>1, AttachesAlone, ApartStates
    <3>. QED BY <1>1, <2>1, <2>2, <3>1, <3>2, AttachesAlone DEF AloneInv
  <2>. QED BY <2>3, <2>4, <2>5 DEF DbInv
<1>. QED BY <1>1, <1>4, <1>5, <1>6, <1>7

-----------------------------------------------------------------------------
(* Statements.                                                             *)

LEMMA QuietIsComplete ==
  ASSUME DbInv, Quiet
  PROVE  Complete
<1>1. DbTypeOK /\ CountInv
  BY DEF DbInv
<1>2. In("after") = {} /\ In("error") = {}
  BY DEF Quiet, In, Attaching
<1>3. Cardinality(In("after")) = 0
  BY <1>2, FS_EmptySet
<1>. QED BY <1>1, <1>2, <1>3 DEF CountInv, Complete, DbTypeOK, Engines

(* An open session has a marked engine, to which nobody adds any more.     *)
LEMMA OpenIsQuiet ==
  ASSUME DbInv, ~overlapped, NEW t \in Threads, session[t] = "open"
  PROVE  Quiet /\ Complete /\ engine.before \in {0, 1}
<1>1. engine.traced
  BY DEF DbInv, CountInv
<1>2. Quiet
  BY <1>1 DEF DbInv, AloneInv, Quiet
<1>3. engine.before \in Nat /\ engine.before <= 1
  BY DEF DbInv, DbTypeOK, AloneInv, Engines
<1>. QED BY <1>2, <1>3, QuietIsComplete

(* A step of a statement leaves the engine and the sessions alone.         *)
LEMMA StatementStep ==
  ASSUME DbInv, NEW t \in Threads, NEW s, statement' = [statement EXCEPT ![t] = s],
         UNCHANGED <<engine, session, overlapped>>, leaked' \in BOOLEAN,
         ~overlapped => ~leaked',
         ~overlapped /\ s # None => session[t] = "open" /\ Len(s) = engine.before
  PROVE  DbInv'
<1>1. DbTypeOK /\ CountInv /\ AloneInv
  BY DEF DbInv
<1>2. DbTypeOK'
  BY <1>1 DEF DbTypeOK
<1>3. \A u \in Threads : statement'[u] = IF u = t THEN s ELSE statement[u]
  BY <1>1 DEF DbTypeOK
<1>4. AloneInv'
  <2>. SUFFICES ASSUME ~overlapped' PROVE AloneInv'
    BY DEF AloneInv
  <2>1. ~overlapped
    OBVIOUS
  <2>2. \A u \in Threads : statement'[u] # None =>
          session[u] = "open" /\ Len(statement'[u]) = engine.before
    BY <1>1, <1>3, <2>1 DEF AloneInv
  <2>. QED BY <1>1, <2>1, <2>2 DEF AloneInv, Complete
<1>. QED BY <1>2, <1>4, EngineKept DEF DbInv

LEMMA BeginStatementOK ==
  ASSUME DbInv, NEW t \in Threads, BeginStatement(t)
  PROVE  DbInv'
<1>1. /\ session[t] = "open" /\ statement' = [statement EXCEPT ![t] = StartedIds]
      /\ UNCHANGED <<engine, session, overlapped, leaked>>
  BY DEF BeginStatement, InSession
<1>2. Len(StartedIds) = engine.before
  BY DEF StartedIds, DbInv, DbTypeOK, Engines
<1>. QED BY <1>1, <1>2, StatementStep DEF DbInv, DbTypeOK, AloneInv

LEMMA EndStatementOK ==
  ASSUME DbInv, NEW t \in Threads, EndStatement(t) \/ FailStatement(t)
  PROVE  DbInv'
<1>1. PICK k \in {engine.after, ErrorStops(engine)} :
        /\ leaked' = (leaked \/ k < Len(statement[t]))
        /\ statement[t] # None /\ statement' = [statement EXCEPT ![t] = None]
        /\ UNCHANGED <<engine, session, overlapped>>
  BY DEF EndStatement, FailStatement, DoStops
<1>2. leaked' \in BOOLEAN
  BY <1>1
<1>3. ASSUME ~overlapped PROVE ~leaked'
  <2>1. /\ ~leaked /\ session[t] = "open" /\ Len(statement[t]) = engine.before
    BY <1>1, <1>3 DEF DbInv, AloneInv
  <2>2. Complete /\ engine.before \in {0, 1}
    BY <1>3, <2>1, OpenIsQuiet
  <2>3. ~(k < Len(statement[t]))
    BY <1>1, <2>1, <2>2 DEF Complete, ErrorStops
  <2>4. leaked' = (leaked \/ k < Len(statement[t]))
    BY <1>1
  <2>. QED BY <2>1, <2>3, <2>4
<1>. QED BY <1>1, <1>2, <1>3, StatementStep

LEMMA HandleErrorOK ==
  ASSUME DbInv, NEW t \in Threads, handle_error(t)
  PROVE  DbInv'
<1>1. /\ leaked' = (leaked \/ ErrorStops(engine) < 0)
      /\ statement[t] = None
      /\ UNCHANGED <<engine, session, statement, overlapped>>
  BY DEF handle_error, DoStops, InSession
<1>2. ~(ErrorStops(engine) < 0)
  BY DEF ErrorStops
<1>3. statement' = [statement EXCEPT ![t] = statement[t]]
  BY <1>1 DEF DbInv, DbTypeOK
<1>4. leaked' = leaked
  BY <1>1, <1>2 DEF DbInv, DbTypeOK
<1>5. leaked' \in BOOLEAN /\ (~overlapped => ~leaked')
  BY <1>4 DEF DbInv, DbTypeOK, AloneInv
<1>. QED BY <1>1, <1>3, <1>5, StatementStep

LEMMA DbInvNext == DbInv /\ [DbNext]_<<callVars, dbVars>> => DbInv'
<1>. SUFFICES ASSUME DbInv, [DbNext]_<<callVars, dbVars>> PROVE DbInv'
  OBVIOUS
<1>1. ASSUME UNCHANGED <<engine, session, statement, overlapped, leaked>> PROVE DbInv'
  <2>1. DbTypeOK' /\ AloneInv'
    BY <1>1 DEF DbInv, DbTypeOK, AloneInv, Complete
  <2>. QED BY <1>1, <2>1, EngineKept DEF DbInv
<1>2. ASSUME Switch PROVE DbInv'
  BY <1>1, <1>2 DEF Switch
<1>3. ASSUME NEW t \in Threads, OwnCall(t) PROVE DbInv'
  BY <1>1, <1>3 DEF OwnCall, dbVars
<1>4. ASSUME UNCHANGED <<callVars, dbVars>> PROVE DbInv'
  BY <1>1, <1>4 DEF dbVars
<1>5. ASSUME NEW t \in Threads,
             \/ WrapSession(t) \/ Attach(t) \/ BeginStatement(t)
             \/ EndStatement(t) \/ FailStatement(t) \/ handle_error(t)
      PROVE  DbInv'
  BY <1>5, WrapSessionOK, AttachOK, BeginStatementOK, EndStatementOK, HandleErrorOK
<1>6. DbNext => \/ Switch
                \/ \E t \in Threads :
                     \/ OwnCall(t)
                     \/ WrapSession(t) \/ Attach(t) \/ BeginStatement(t)
                     \/ EndStatement(t) \/ FailStatement(t) \/ handle_error(t)
  BY DEF DbNext
<1>. QED BY <1>2, <1>3, <1>4, <1>5, <1>6

LEMMA DbInvPairs == DbInv => ListenersPaired
<1>. SUFFICES ASSUME DbInv PROVE ListenersPaired
  OBVIOUS
<1>1. DbTypeOK /\ AloneInv
  BY DEF DbInv
<1>2. engine.before > 1 \/ leaked => overlapped
  BY <1>1 DEF DbTypeOK, AloneInv, Engines
<1>3. ASSUME Quiet
      PROVE  engine.after = engine.before /\ engine.error = (engine.before > 0)
  <2>1. engine.after = engine.before /\ (engine.error <=> engine.before > 0)
    BY <1>3, QuietIsComplete DEF Complete
  <2>2. engine.error \in BOOLEAN
    BY <1>1 DEF DbTypeOK, Engines
  <2>3. (engine.before > 0) \in BOOLEAN
    OBVIOUS
  <2>. QED BY <2>1, <2>2, <2>3, Zenon
<1>. QED BY <1>2, <1>3 DEF ListenersPaired, Quiet

(* However many threads open sessions on an engine, whatever they do in    *)
(* them and whenever tracing is switched, the engine is traced once unless *)
(* two of them overlapped, only then can a statement lose a stop, and once *)
(* nobody is adding, every before listener has its after listener.         *)
THEOREM EngineIsTracedOnce == DbSpec => []ListenersPaired
BY DbInvInit, DbInvNext, DbInvPairs, PTL DEF DbSpec

-----------------------------------------------------------------------------
(* The spans.  The points of spans grow like those of the stacks, so no    *)
(* span comes back; and while nothing was disturbed, at most one thread    *)
(* has open points, and the spans on the top of the stack are theirs.      *)
SpanRecords == [point : Ids, parent : Ids \cup {None}]

SpansGrow ==
  /\ \A i \in DOMAIN spans : spans[i].point < next_id
  /\ \A i, j \in DOMAIN spans : i < j => spans[i].point < spans[j].point
  /\ \A e \in ended : e.span \in Int /\ e.span < next_id
  /\ EndedOnce

TopSpans(s, p) ==
  /\ Len(p.trace_stack) = Len(p.name) + 2
  /\ Len(s) >= Len(p.name)
  /\ \A i \in 1 .. Len(p.name) : s[Len(s) - Len(p.name) + i].point = p.trace_stack[i + 2]

Undisturbed ==
  ~disturbed =>
    /\ \A t \in Threads : local[t] # None =>
         /\ TopSpans(spans, local[t])
         /\ local[t].name # << >> => \A u \in Threads \ {t} :
              local[u] = None \/ local[u].name = << >>
    /\ OwnSpans

SpanInv == Inv /\ spans \in Seq(SpanRecords) /\ SpansGrow /\ Undisturbed

LEMMA SpanInvInit == SpanInit => SpanInv
<1>. SUFFICES ASSUME SpanInit PROVE SpanInv
  OBVIOUS
<1>1. Init /\ local = [t \in Threads |-> None] /\ spans = << >> /\ ended = {}
  BY DEF SpanInit, Init
<1>2. Inv
  BY <1>1, InvInit
<1>3. SpansGrow
  BY <1>1 DEF SpansGrow, EndedOnce
<1>4. Undisturbed
  BY <1>1 DEF Undisturbed, OwnSpans
<1>. QED BY <1>1, <1>2, <1>3, <1>4 DEF SpanInv

LEMMA SpanFacts ==
  ASSUME SpanInv
  PROVE  /\ Inv /\ spans \in Seq(SpanRecords) /\ Len(spans) \in Nat
         /\ DOMAIN spans = 1 .. Len(spans)
         /\ local \in [Threads -> Profilers \cup {None}]
         /\ next_id \in Nat /\ Ids \subseteq Int
         /\ \A i \in DOMAIN spans : spans[i] \in SpanRecords
         /\ \A t \in Threads : local[t] # None =>
              /\ local[t] \in Profilers /\ WellFormed(local[t])
              /\ local[t].trace_stack \in Seq(Ids) /\ Len(local[t].trace_stack) \in Nat
              /\ local[t].name \in Seq(Names) /\ Len(local[t].name) \in Nat
<1>1. Inv /\ spans \in Seq(SpanRecords)
  BY DEF SpanInv
<1>2. /\ local \in [Threads -> Profilers \cup {None}] /\ next_id \in Nat
      /\ \A t \in Threads : local[t] # None => local[t] \in Profilers /\ WellFormed(local[t])
  BY <1>1, MaxIdsAssumption DEF Inv, TypeOK, StackAboveNames, WellFormed
<1>3. Ids \subseteq Int
  BY ForeignIdsAssumption, MaxIdsAssumption DEF Ids
<1>. QED BY <1>1, <1>2, <1>3 DEF Profilers

(* Without a notification, only profilers without points come and go.      *)
LEMMA NoNotificationOK ==
  ASSUME SpanInv, NEW t \in Threads, NoNotification(t)
  PROVE  SpanInv'
<1>1. /\ \/ InitFromOutside(t) \/ \E u \in Threads : InitFromThread(t, u) \/ Clean(t)
      /\ UNCHANGED <<spans, ended, disturbed>>
  BY DEF NoNotification
<1>2. Inv'
  BY <1>1, InvStep DEF SpanInv, StepOf
<1>3. \/ \E base, parent : InitProfiler(t, base, parent)
      \/ Clean(t)
  BY <1>1 DEF InitFromOutside, InitFromThread
<1>4. next_id' >= next_id /\ next_id' \in Int
  BY <1>3, SpanFacts DEF InitProfiler, Clean
<1>5. SpansGrow'
  <2>1. \A i \in DOMAIN spans : spans[i].point \in Int
    BY SpanFacts DEF SpanRecords
  <2>2. \A e \in ended : e.span \in Int /\ e.span < next_id'
    BY <1>4, SpanFacts DEF SpanInv, SpansGrow
  <2>. QED BY <1>1, <1>4, <2>1, <2>2, SpanFacts DEF SpanInv, SpansGrow, EndedOnce
<1>6. PICK p : /\ local' = [local EXCEPT ![t] = p]
               /\ p # None => p.name = << >> /\ Len(p.trace_stack) = 2
  <2>1. CASE Clean(t)
    BY <2>1 DEF Clean
  <2>2. ASSUME NEW base, NEW parent, InitProfiler(t, base, parent)
        PROVE  /\ local' = [local EXCEPT ![t] = NewProfiler(base, parent)]
               /\ NewProfiler(base, parent).name = << >>
               /\ Len(NewProfiler(base, parent).trace_stack) = 2
    BY <2>2 DEF InitProfiler, NewProfiler
  <2>. QED BY <1>3, <2>1, <2>2
<1>7. Undisturbed'
  <2>. SUFFICES ASSUME ~disturbed' PROVE Undisturbed'
    BY DEF Undisturbed
  <2>1. /\ \A u \in Threads : local'[u] = IF u = t THEN p ELSE local[u]
        /\ Undisturbed /\ ~disturbed
    BY <1>1, <1>6, SpanFacts DEF SpanInv
  <2>2. ASSUME p # None PROVE TopSpans(spans, p)
    <3>1. Len(p.name) = 0 /\ Len(p.trace_stack) = 2
      BY <1>6, <2>2
    <3>. QED BY <3>1, SpanFacts DEF TopSpans
  <2>3. ASSUME NEW u \in Threads, local'[u] # None
        PROVE  /\ TopSpans(spans', local'[u])
               /\ local'[u].name # << >> => \A v \in Threads \ {u} :
                    local'[v] = None \/ local'[v].name = << >>
    BY <1>1, <1>6, <2>1, <2>2, <2>3 DEF Undisturbed
  <2>. QED BY <1>1, <2>1, <2>3 DEF Undisturbed, OwnSpans
<1>. QED BY <1>1, <1>2, <1>5, <1>7 DEF SpanInv

LEMMA SpanStartOK ==
  ASSUME SpanInv, NEW t \in Threads, NEW n \in Names, NEW o \in StartOutcome, SpanStart(t, n, o)
  PROVE  SpanInv'
<1>. DEFINE p == Pushed(local[t], n)
            r == Notification(p, n, "start")
<1>1. /\ Start(t, n, o) /\ local[t] # None /\ next_id <= MaxIds /\ next_id' = next_id + 1
      /\ local' = [local EXCEPT ![t] = p] /\ ended' = ended
      /\ disturbed' = (disturbed \/ o = Refused \/ Others(t) # {})
  BY DEF SpanStart, Start
<1>2. o \in AllOutcomes
  <2>1. TRUE \in BOOLEAN /\ FALSE \in BOOLEAN
    OBVIOUS
  <2>2. Delivered \in AllOutcomes /\ Refused \in AllOutcomes
    BY <2>1, Zenon DEF Delivered, Refused, AllOutcomes
  <2>. QED BY <2>2 DEF StartOutcome
<1>3. Inv'
  BY <1>1, <1>2, InvStep DEF SpanInv, StepOf
<1>4. next_id \in Ids /\ next_id \in Nat /\ local[t] \in Profilers /\ WellFormed(local[t])
  BY <1>1, SpanFacts, MaxIdsAssumption DEF Inv, TypeOK, Ids
<1>5. /\ p \in Profilers /\ local'[t] = p
      /\ Len(p.trace_stack) = Len(local[t].trace_stack) + 1
      /\ Len(p.name) = Len(local[t].name) + 1
      /\ p.trace_stack[Len(p.trace_stack)] = next_id
      /\ \A i \in 1 .. Len(local[t].trace_stack) : p.trace_stack[i] = local[t].trace_stack[i]
  <2>1. p \in Profilers /\ local'[t] = p
    BY <1>1, <1>4, PushedType, SpanFacts
  <2>2. /\ p.trace_stack = Append(local[t].trace_stack, next_id)
        /\ p.name = Append(local[t].name, n)
    BY DEF Pushed
  <2>3. /\ local[t].trace_stack \in Seq(Ids) /\ Len(local[t].trace_stack) \in Nat
        /\ local[t].name \in Seq(Names)
    BY <1>1, SpanFacts
  <2>. QED BY <1>4, <2>1, <2>2, <2>3
<1>6. r \in Notifications /\ r.trace_id = next_id
  <2>1. Len(p.trace_stack) >= 2
    BY <1>1, <1>4, <1>5, SpanFacts DEF WellFormed
  <2>. QED BY <1>5, <2>1, NotificationType DEF Phases, Notification, get_id
<1>7. SpanOf(r) \in SpanRecords /\ SpanOf(r).point = next_id
  BY <1>6 DEF SpanOf, SpanRecords, Notifications
<1>8. CASE spans' = spans /\ o = Refused
  <2>1. SpansGrow'
    <3>1. \A i \in DOMAIN spans : spans[i].point \in Int
      BY SpanFacts DEF SpanRecords
    <3>2. \A i \in DOMAIN spans : spans[i].point < next_id + 1
      BY <1>4, <3>1 DEF SpanInv, SpansGrow
    <3>3. \A e \in ended : e.span \in Int /\ e.span < next_id + 1
      BY <1>4 DEF SpanInv, SpansGrow
    <3>. QED BY <1>1, <1>8, <3>2, <3>3 DEF SpanInv, SpansGrow, EndedOnce
  <2>2. Undisturbed'
    BY <1>1, <1>8 DEF Undisturbed
  <2>. QED BY <1>3, <1>8, <2>1, <2>2 DEF SpanInv
<1>9. CASE spans' = Append(spans, SpanOf(r))
  <2>1. /\ spans' \in Seq(SpanRecords) /\ Len(spans') = Len(spans) + 1
        /\ DOMAIN spans' = 1 .. (Len(spans) + 1)
        /\ spans'[Len(spans) + 1] = SpanOf(r)
        /\ \A i \in 1 .. Len(spans) : spans'[i] = spans[i]
    BY <1>7, <1>9, SpanFacts
  <2>2. SpansGrow'
    <3>1. \A i \in 1 .. Len(spans) : spans[i].point \in Int /\ spans[i].point < next_id
      BY SpanFacts DEF SpanRecords, SpanInv, SpansGrow
    <3>2. \A i \in DOMAIN spans' :
            \/ i \in 1 .. Len(spans) /\ spans'[i] = spans[i]
            \/ i = Len(spans) + 1 /\ spans'[i].point = next_id
      BY <1>7, <2>1, SpanFacts
    <3>3. \A i \in DOMAIN spans' : spans'[i].point < next_id'
      BY <1>1, <1>4, <3>1, <3>2
    <3>4. \A i, j \in DOMAIN spans' : i < j => spans'[i].point < spans'[j].point
      BY <1>4, <2>1, <3>1, <3>2, SpanFacts DEF SpanInv, SpansGrow
    <3>5. \A e \in ended' : e.span \in Int /\ e.span < next_id'
      BY <1>1, <1>4 DEF SpanInv, SpansGrow
    <3>6. EndedOnce'
      BY <1>1, <1>4, <3>2, SpanFacts DEF SpanInv, SpansGrow, EndedOnce
    <3>. QED BY <3>3, <3>4, <3>5, <3>6 DEF SpansGrow
  <2>3. Undisturbed'
    <3>. SUFFICES ASSUME ~disturbed' PROVE Undisturbed'
      BY DEF Undisturbed
    <3>1. ~disturbed /\ Others(t) = {} /\ Undisturbed
      BY <1>1 DEF SpanInv
    <3>2. \A u \in Threads \ {t} : local[u] = None \/ local[u].name = << >>
      BY <3>1, SpanFacts DEF Others, Busy, OpenPoints
    <3>3. \A u \in Threads : local'[u] = IF u = t THEN p ELSE local[u]
      BY <1>1, SpanFacts
    <3>4. TopSpans(spans, local[t])
      BY <1>1, <3>1 DEF Undisturbed
    <3>5. TopSpans(spans', p)
      <4>. DEFINE d == Len(spans) - Len(local[t].name)
      <4>1. /\ Len(local[t].name) \in Nat /\ d \in Nat /\ d = Len(spans') - Len(p.name)
            /\ Len(p.trace_stack) = Len(p.name) + 2
            /\ Len(local[t].trace_stack) = Len(local[t].name) + 2
        BY <1>1, <1>5, <2>1, <3>4, SpanFacts DEF TopSpans
      <4>2. ASSUME NEW i \in 1 .. Len(p.name)
            PROVE  spans'[d + i].point = p.trace_stack[i + 2]
        <5>1. CASE i = Len(p.name)
          BY <1>5, <1>7, <2>1, <4>1, <5>1, SpanFacts
        <5>2. CASE i # Len(p.name)
          <6>1. i \in 1 .. Len(local[t].name)
            BY <1>5, <4>1, <4>2, <5>2
          <6>2. spans[d + i].point = local[t].trace_stack[i + 2]
            BY <3>4, <6>1 DEF TopSpans
          <6>3. d + i \in 1 .. Len(spans) /\ i + 2 \in 1 .. Len(local[t].trace_stack)
            BY <4>1, <6>1, SpanFacts
          <6>. QED BY <1>5, <2>1, <6>2, <6>3
        <5>. QED BY <5>1, <5>2
      <4>3. Len(spans') >= Len(p.name)
        BY <1>5, <2>1, <4>1, SpanFacts
      <4>4. \A i \in 1 .. Len(p.name) :
              spans'[Len(spans') - Len(p.name) + i].point = p.trace_stack[i + 2]
        BY <4>1, <4>2
      <4>. QED BY <4>1, <4>3, <4>4 DEF TopSpans
    <3>6. ASSUME NEW u \in Threads \ {t}, local[u] # None
          PROVE  TopSpans(spans', local[u])
      <4>1. TopSpans(spans, local[u]) /\ Len(local[u].name) = 0
        BY <3>1, <3>2, <3>6 DEF Undisturbed
      <4>. QED BY <2>1, <4>1, SpanFacts DEF TopSpans
    <3>. QED BY <1>1, <3>1, <3>2, <3>3, <3>5, <3>6 DEF Undisturbed, OwnSpans
  <2>. QED BY <1>3, <2>1, <2>2, <2>3 DEF SpanInv
<1>. QED BY <1>5, <1>8, <1>9 DEF SpanStart, WithSpan

LEMMA SpanStopOK ==
  ASSUME SpanInv, NEW t \in Threads, SpanStop(t)
  PROVE  SpanInv'
<1>. DEFINE p == local[t]
            q == AfterStop(p, StopOutcome)
<1>1. /\ Stop(t, StopOutcome) /\ p # None /\ p.name # << >> /\ next_id' = next_id
      /\ local' = [local EXCEPT ![t] = q]
  BY DEF SpanStop, Stop
<1>2. StopOutcome \in AllOutcomes
  <2>1. TRUE \in BOOLEAN /\ FALSE \in BOOLEAN
    OBVIOUS
  <2>2. Delivered \in AllOutcomes /\ Refused \in AllOutcomes
    BY <2>1, Zenon DEF Delivered, Refused, AllOutcomes
  <2>. QED BY <2>2 DEF StopOutcome
<1>3. Inv'
  BY <1>1, <1>2, InvStep DEF SpanInv, StepOf
<1>4. CASE StopOutcome = Refused
  <2>1. disturbed' = TRUE /\ UNCHANGED <<spans, ended>>
    BY <1>4 DEF SpanStop
  <2>2. SpansGrow'
    BY <1>1, <2>1 DEF SpanInv, SpansGrow, EndedOnce
  <2>3. Undisturbed'
    BY <2>1 DEF Undisturbed
  <2>. QED BY <1>3, <2>1, <2>2, <2>3 DEF SpanInv
<1>5. CASE StopOutcome # Refused
  <2>. DEFINE e == [span |-> Last(spans).point, stopped |-> get_id(p)]
  <2>1. /\ spans # << >> /\ StopOutcome = Delivered
        /\ spans' = WithoutTop /\ ended' = ended \cup {e} /\ disturbed' = disturbed
    BY <1>5 DEF SpanStop, StopOutcome
  <2>2. /\ Len(spans) \in Nat /\ Len(spans) > 0
        /\ spans' \in Seq(SpanRecords) /\ Len(spans') = Len(spans) - 1
        /\ DOMAIN spans' = 1 .. (Len(spans) - 1)
        /\ \A i \in 1 .. (Len(spans) - 1) : spans'[i] = spans[i]
    <3>1. spans' = Popped(spans) /\ spans \in Seq(SpanRecords)
      BY <2>1, SpanFacts DEF WithoutTop, Front, Popped
    <3>2. Len(spans) \in Nat /\ Len(spans) > 0
      BY <2>1, <3>1
    <3>3. /\ Popped(spans) \in Seq(SpanRecords) /\ Len(Popped(spans)) = Len(spans) - 1
          /\ \A i \in 1 .. (Len(spans) - 1) : Popped(spans)[i] = spans[i]
      BY <2>1, <3>1, PoppedProperties
    <3>. QED BY <3>1, <3>2, <3>3
  <2>3. \A i \in 1 .. Len(spans) : spans[i].point \in Int /\ spans[i].point < next_id
    BY SpanFacts DEF SpanRecords, SpanInv, SpansGrow
  <2>4. e.span = spans[Len(spans)].point /\ e.span \in Int /\ e.span < next_id
    BY <2>2, <2>3 DEF Last
  <2>5. SpansGrow'
    <3>1. EndedOnce'
      <4>1. ASSUME NEW i \in DOMAIN spans' PROVE spans'[i].point # e.span
        <5>1. i \in 1 .. Len(spans) /\ Len(spans) \in 1 .. Len(spans) /\ i < Len(spans)
          BY <2>2
        <5>2. spans[i].point < spans[Len(spans)].point
          BY <5>1, SpanFacts DEF SpanInv, SpansGrow
        <5>. QED BY <2>2, <2>3, <2>4, <5>1, <5>2
      <4>2. \A i \in DOMAIN spans', f \in ended : spans'[i].point # f.span
        BY <2>2, SpanFacts DEF SpanInv, SpansGrow, EndedOnce
      <4>. QED BY <2>1, <4>1, <4>2 DEF EndedOnce
    <3>2. \A i \in DOMAIN spans' : spans'[i].point < next_id'
      BY <1>1, <2>2, <2>3
    <3>3. \A i, j \in DOMAIN spans' : i < j => spans'[i].point < spans'[j].point
      BY <2>2, SpanFacts DEF SpanInv, SpansGrow
    <3>4. \A f \in ended' : f.span \in Int /\ f.span < next_id'
      BY <1>1, <2>1, <2>4 DEF SpanInv, SpansGrow
    <3>. QED BY <3>1, <3>2, <3>3, <3>4 DEF SpansGrow
  <2>6. Undisturbed'
    <3>. SUFFICES ASSUME ~disturbed' PROVE Undisturbed'
      BY DEF Undisturbed
    <3>1. ~disturbed /\ Undisturbed
      BY <2>1 DEF SpanInv
    <3>2. /\ TopSpans(spans, p) /\ OwnSpans
          /\ \A u \in Threads \ {t} : local[u] = None \/ local[u].name = << >>
      BY <1>1, <3>1 DEF Undisturbed
    <3>3. /\ Len(p.name) \in Nat /\ Len(p.name) > 0 /\ Len(spans) >= Len(p.name)
          /\ Len(p.trace_stack) = Len(p.name) + 2
          /\ p.trace_stack \in Seq(Ids) /\ p.name \in Seq(Names) /\ p.trace_stack # << >>
      BY <1>1, <3>2, SpanFacts DEF TopSpans
    <3>4. /\ Len(q.name) = Len(p.name) - 1
          /\ Len(q.trace_stack) = Len(p.trace_stack) - 1
          /\ \A i \in 1 .. (Len(p.trace_stack) - 1) : q.trace_stack[i] = p.trace_stack[i]
      <4>1. q.trace_stack = Popped(p.trace_stack) /\ q.name = Popped(p.name)
        BY <2>1 DEF AfterStop, StackAfterStop, Delivered
      <4>. QED BY <1>1, <3>3, <4>1, PoppedProperties
    <3>5. TopSpans(spans', q)
      <4>1. \A i \in 1 .. Len(q.name) :
              spans'[Len(spans') - Len(q.name) + i].point = q.trace_stack[i + 2]
        <5>1. Len(spans') - Len(q.name) = Len(spans) - Len(p.name)
          BY <2>2, <3>3, <3>4
        <5>2. ASSUME NEW i \in 1 .. Len(q.name)
              PROVE  spans'[Len(spans) - Len(p.name) + i].point = q.trace_stack[i + 2]
          <6>1. /\ i \in 1 .. Len(p.name) /\ i + 2 \in 1 .. (Len(p.trace_stack) - 1)
                /\ Len(spans) - Len(p.name) + i \in 1 .. (Len(spans) - 1)
            BY <2>2, <3>3, <3>4
          <6>2. spans[Len(spans) - Len(p.name) + i].point = p.trace_stack[i + 2]
            BY <3>2, <6>1 DEF TopSpans
          <6>. QED BY <2>2, <3>4, <6>1, <6>2
        <5>. QED BY <5>1, <5>2
      <4>2. Len(q.trace_stack) = Len(q.name) + 2 /\ Len(spans') >= Len(q.name)
        BY <2>2, <3>3, <3>4
      <4>. QED BY <4>1, <4>2 DEF TopSpans
    <3>6. ASSUME NEW u \in Threads \ {t}, local[u] # None
          PROVE  TopSpans(spans', local[u])
      <4>1. TopSpans(spans, local[u]) /\ Len(local[u].name) = 0
        BY <3>1, <3>2, <3>6 DEF Undisturbed
      <4>. QED BY <2>2, <4>1, SpanFacts DEF TopSpans
    <3>7. e.span = e.stopped
      <4>1. /\ Len(p.name) \in 1 .. Len(p.name)
            /\ Len(spans) - Len(p.name) + Len(p.name) = Len(spans)
        BY <2>2, <3>3
      <4>2. spans[Len(spans)].point = p.trace_stack[Len(p.name) + 2]
        BY <3>2, <4>1 DEF TopSpans
      <4>. QED BY <2>4, <3>3, <4>2 DEF get_id
    <3>8. \A u \in Threads : local'[u] = IF u = t THEN q ELSE local[u]
      BY <1>1, SpanFacts
    <3>9. OwnSpans'
      BY <2>1, <3>1, <3>2, <3>7 DEF OwnSpans
    <3>. QED BY <1>1, <3>2, <3>5, <3>6, <3>8, <3>9 DEF Undisturbed
  <2>. QED BY <1>3, <2>2, <2>5, <2>6 DEF SpanInv
<1>. QED BY <1>4, <1>5

LEMMA SpanInvNext == SpanInv /\ [SpanNext]_spanVars => SpanInv'
<1>. SUFFICES ASSUME SpanInv, [SpanNext]_spanVars PROVE SpanInv'
  OBVIOUS
<1>1. ASSUME UNCHANGED spanVars PROVE SpanInv'
  <2>1. UNCHANGED <<vars, local, next_id, spans, ended, disturbed>>
    BY <1>1 DEF spanVars, vars
  <2>2. Inv'
    BY <2>1, InvStutter DEF SpanInv
  <2>3. SpansGrow' /\ Undisturbed'
    BY <2>1 DEF SpanInv, SpansGrow, Undisturbed, EndedOnce, OwnSpans
  <2>. QED BY <2>1, <2>2, <2>3 DEF SpanInv
<1>. QED BY <1>1, NoNotificationOK, SpanStartOK, SpanStopOK DEF SpanNext

(* While no call fails and threads do not overlap, a stop ends the span of *)
(* its own point: the points that clean() left open stay below.            *)
THEOREM SpansAreTheirPoints == SpanSpec => []OwnSpans
<1>1. SpanInv => OwnSpans
  BY DEF SpanInv, Undisturbed, OwnSpans
<1>. QED BY <1>1, SpanInvInit, SpanInvNext, PTL DEF SpanSpec

(* Whatever fails and however threads interleave, no span ends twice.      *)
THEOREM SpansEndOnce == SpanSpec => []EndedOnce
<1>1. SpanInv => EndedOnce
  BY DEF SpanInv, SpansGrow
<1>. QED BY <1>1, SpanInvInit, SpanInvNext, PTL DEF SpanSpec

(* The open points are finitely many, and for every one that a step opens  *)
(* it pushes a span or counts a refusal; a step closes one where it pops.  *)
SpanCount ==
  /\ failed \in Nat
  /\ IsFiniteSet(AllOpenPoints)
  /\ Len(spans) + failed >= Cardinality(AllOpenPoints)

LEMMA OpenPointsOf ==
  ASSUME SpanInv, NEW t \in Threads, NEW p, local' = [local EXCEPT ![t] = p]
  PROVE  /\ OpenPoints(t)' = IF p = None THEN 0 ELSE Len(p.name)
         /\ \A u \in Threads \ {t} : OpenPoints(u)' = OpenPoints(u)
         /\ \A u \in Threads : OpenPoints(u) \in Nat
<1>1. \A u \in Threads : local'[u] = IF u = t THEN p ELSE local[u]
  BY SpanFacts
<1>2. \A u \in Threads : OpenPoints(u) \in Nat
  BY SpanFacts DEF OpenPoints
<1>. QED BY <1>1, <1>2 DEF OpenPoints

LEMMA AllOpenPointsOf ==
  /\ \A x : x \in AllOpenPoints <=> \E u \in Threads : \E i \in 1 .. OpenPoints(u) : x = <<u, i>>
  /\ \A x : x \in AllOpenPoints' <=>
       \E u \in Threads : \E i \in 1 .. OpenPoints(u)' : x = <<u, i>>
BY DEF AllOpenPoints

LEMMA SpanCountStart ==
  ASSUME SpanInv, SpanCount, NEW t \in Threads, NEW n \in Names, NEW o \in StartOutcome,
         SpanStart(t, n, o)
  PROVE  SpanCount'
<1>. DEFINE x == <<t, OpenPoints(t) + 1>>
<1>1. /\ local[t] # None /\ local' = [local EXCEPT ![t] = Pushed(local[t], n)]
      /\ Pushed(local[t], n).name = Append(local[t].name, n)
      /\ Pushed(local[t], n) # None
  <2>1. local[t] # None /\ next_id <= MaxIds /\ local[t] \in Profilers
        /\ local' = [local EXCEPT ![t] = Pushed(local[t], n)]
    BY SpanFacts DEF SpanStart, Start
  <2>2. next_id \in Ids
    BY <2>1, SpanFacts, MaxIdsAssumption DEF Inv, TypeOK, Ids
  <2>3. Pushed(local[t], n) \in Profilers
    BY <2>1, <2>2, PushedType, SpanFacts
  <2>. QED BY <2>1, <2>3, NoneAssumption DEF Pushed
<1>2. /\ OpenPoints(t)' = OpenPoints(t) + 1 /\ OpenPoints(t) \in Nat
      /\ \A u \in Threads \ {t} : OpenPoints(u)' = OpenPoints(u)
  BY <1>1, OpenPointsOf, SpanFacts DEF OpenPoints
<1>3. AllOpenPoints' \subseteq AllOpenPoints \cup {x}
  <2>1. ASSUME NEW u \in Threads, NEW i \in 1 .. OpenPoints(u)'
        PROVE  <<u, i>> = x \/ i \in 1 .. OpenPoints(u)
    BY <1>2
  <2>. QED BY <2>1, AllOpenPointsOf
<1>4. /\ IsFiniteSet(AllOpenPoints') /\ Cardinality(AllOpenPoints') \in Nat
      /\ Cardinality(AllOpenPoints') <= Cardinality(AllOpenPoints) + 1
      /\ Cardinality(AllOpenPoints) \in Nat
  <2>1. IsFiniteSet(AllOpenPoints) /\ Cardinality(AllOpenPoints) \in Nat
    BY FS_CardinalityType DEF SpanCount
  <2>2. /\ IsFiniteSet(AllOpenPoints \cup {x})
        /\ Cardinality(AllOpenPoints \cup {x}) <= Cardinality(AllOpenPoints) + 1
        /\ Cardinality(AllOpenPoints \cup {x}) \in Nat
    <3>1. /\ IsFiniteSet(AllOpenPoints \cup {x})
          /\ Cardinality(AllOpenPoints \cup {x}) = IF x \in AllOpenPoints
               THEN Cardinality(AllOpenPoints) ELSE Cardinality(AllOpenPoints) + 1
      BY <2>1, FS_AddElement
    <3>. HIDE DEF x
    <3>. QED BY <2>1, <3>1
  <2>3. /\ IsFiniteSet(AllOpenPoints')
        /\ Cardinality(AllOpenPoints') <= Cardinality(AllOpenPoints \cup {x})
    BY <1>3, <2>2, FS_Subset
  <2>4. Cardinality(AllOpenPoints') \in Nat
    BY <2>3, FS_CardinalityType
  <2>. QED BY <2>1, <2>2, <2>3, <2>4
<1>5. /\ failed' \in Nat /\ Len(spans) \in Nat /\ Len(spans') \in Nat
      /\ Len(spans') + failed' = Len(spans) + failed + 1
  <2>1. failed \in Nat /\ Len(spans) \in Nat
    BY SpanFacts DEF SpanCount
  <2>2. CASE o = Refused
    BY <2>1, <2>2 DEF SpanStart
  <2>3. CASE o # Refused
    <3>1. \E s : spans' = Append(spans, s)
      BY <2>3 DEF SpanStart, WithSpan
    <3>2. failed' = failed
      BY <2>3 DEF SpanStart
    <3>3. spans \in Seq({spans[i] : i \in 1 .. Len(spans)})
      BY SpanFacts
    <3>4. Len(spans') = Len(spans) + 1
      BY <3>1, <3>3
    <3>. QED BY <2>1, <3>2, <3>4
  <2>. QED BY <2>2, <2>3
<1>. QED BY <1>4, <1>5 DEF SpanCount

LEMMA SpanCountStop ==
  ASSUME SpanInv, SpanCount, NEW t \in Threads, SpanStop(t)
  PROVE  SpanCount'
<1>. DEFINE x == <<t, OpenPoints(t)>>
<1>1. /\ local[t] # None /\ local[t].name # << >> /\ local[t].name \in Seq(Names)
      /\ local' = [local EXCEPT ![t] = AfterStop(local[t], StopOutcome)]
      /\ AfterStop(local[t], StopOutcome).name = Popped(local[t].name)
  BY SpanFacts DEF SpanStop, Stop, AfterStop
<1>2. /\ OpenPoints(t) \in Nat /\ OpenPoints(t) > 0
      /\ OpenPoints(t)' = OpenPoints(t) - 1 \/ OpenPoints(t)' = 0
      /\ \A u \in Threads \ {t} : OpenPoints(u)' = OpenPoints(u)
  <2>1. Len(local[t].name) > 0 /\ Len(Popped(local[t].name)) = Len(local[t].name) - 1
    BY <1>1, PoppedProperties, SpanFacts
  <2>. DEFINE q == AfterStop(local[t], StopOutcome)
  <2>2. OpenPoints(t) = Len(local[t].name) /\ Len(local[t].name) \in Nat
    BY <1>1, SpanFacts DEF OpenPoints
  <2>3. local' = [local EXCEPT ![t] = q] /\ q.name = Popped(local[t].name)
    BY <1>1
  <2>. HIDE DEF q
  <2>4. /\ OpenPoints(t)' = IF q = None THEN 0 ELSE Len(q.name)
        /\ \A u \in Threads \ {t} : OpenPoints(u)' = OpenPoints(u)
    BY <2>3, OpenPointsOf
  <2>. QED BY <2>1, <2>2, <2>3, <2>4
<1>3. AllOpenPoints' \subseteq AllOpenPoints \ {x} /\ x \in AllOpenPoints
  <2>1. ASSUME NEW u \in Threads, NEW i \in 1 .. OpenPoints(u)'
        PROVE  <<u, i>> # x /\ i \in 1 .. OpenPoints(u)
    BY <1>2
  <2>2. OpenPoints(t) \in 1 .. OpenPoints(t)
    BY <1>2
  <2>. QED BY <2>1, <2>2, AllOpenPointsOf
<1>4. /\ IsFiniteSet(AllOpenPoints') /\ Cardinality(AllOpenPoints') \in Nat
      /\ Cardinality(AllOpenPoints') <= Cardinality(AllOpenPoints) - 1
      /\ Cardinality(AllOpenPoints) \in Nat
  <2>1. IsFiniteSet(AllOpenPoints) /\ Cardinality(AllOpenPoints) \in Nat
    BY FS_CardinalityType DEF SpanCount
  <2>2. /\ IsFiniteSet(AllOpenPoints \ {x})
        /\ Cardinality(AllOpenPoints \ {x}) = Cardinality(AllOpenPoints) - 1
    BY <1>3, <2>1, FS_RemoveElement
  <2>3. /\ IsFiniteSet(AllOpenPoints')
        /\ Cardinality(AllOpenPoints') <= Cardinality(AllOpenPoints \ {x})
    BY <1>3, <2>2, FS_Subset
  <2>4. Cardinality(AllOpenPoints') \in Nat
    BY <2>3, FS_CardinalityType
  <2>. QED BY <2>1, <2>2, <2>3, <2>4
<1>5. failed' = failed /\ failed \in Nat /\ Len(spans) \in Nat
      /\ Len(spans) + failed >= Cardinality(AllOpenPoints)
  BY SpanFacts DEF SpanStop, SpanCount
<1>6. CASE spans = << >>
  <2>1. spans' = spans
    BY <1>6 DEF SpanStop, StopOutcome
  <2>. QED BY <1>4, <1>5, <2>1 DEF SpanCount
<1>7. CASE spans # << >>
  <2>1. spans' = Popped(spans)
    <3>1. Delivered # Refused
      BY DEF Delivered, Refused
    <3>. QED BY <1>7, <3>1 DEF SpanStop, StopOutcome, WithoutTop, Front, Popped
  <2>2. Len(spans') = Len(spans) - 1
    BY <1>7, <2>1, PoppedProperties, SpanFacts
  <2>. QED BY <1>4, <1>5, <2>2 DEF SpanCount
<1>. QED BY <1>6, <1>7

LEMMA SpanCountQuiet ==
  ASSUME SpanInv, SpanCount, NEW t \in Threads, NoNotification(t)
  PROVE  SpanCount'
<1>1. \/ \E base, parent : InitProfiler(t, base, parent)
      \/ Clean(t)
  BY DEF NoNotification, InitFromOutside, InitFromThread
<1>2. PICK p : /\ local' = [local EXCEPT ![t] = p]
               /\ p # None => p.name = << >>
  <2>1. CASE Clean(t)
    BY <2>1 DEF Clean
  <2>2. ASSUME NEW base, NEW parent, InitProfiler(t, base, parent)
        PROVE  /\ local' = [local EXCEPT ![t] = NewProfiler(base, parent)]
               /\ NewProfiler(base, parent).name = << >>
    BY <2>2 DEF InitProfiler, NewProfiler
  <2>. QED BY <1>1, <2>1, <2>2
<1>3. /\ OpenPoints(t)' = 0
      /\ \A u \in Threads \ {t} : OpenPoints(u)' = OpenPoints(u)
  BY <1>2, OpenPointsOf
<1>4. AllOpenPoints' \subseteq AllOpenPoints
  <2>1. ASSUME NEW u \in Threads, NEW i \in 1 .. OpenPoints(u)'
        PROVE  i \in 1 .. OpenPoints(u)
    BY <1>3
  <2>. QED BY <2>1, AllOpenPointsOf
<1>5. /\ IsFiniteSet(AllOpenPoints') /\ Cardinality(AllOpenPoints') \in Nat
      /\ Cardinality(AllOpenPoints) \in Nat
      /\ Cardinality(AllOpenPoints') <= Cardinality(AllOpenPoints)
  BY <1>4, FS_Subset, FS_CardinalityType DEF SpanCount
<1>6. UNCHANGED <<spans, failed>> /\ Len(spans) \in Nat
  BY SpanFacts DEF NoNotification
<1>. QED BY <1>5, <1>6 DEF SpanCount

LEMMA SpanCountNext == SpanInv /\ SpanCount /\ [SpanNext]_spanVars => SpanCount'
<1>. SUFFICES ASSUME SpanInv, SpanCount, [SpanNext]_spanVars PROVE SpanCount'
  OBVIOUS
<1>1. ASSUME UNCHANGED spanVars PROVE SpanCount'
  BY <1>1 DEF spanVars, vars, SpanCount, AllOpenPoints, OpenPoints
<1>. QED BY <1>1, SpanCountStart, SpanCountStop, SpanCountQuiet DEF SpanNext

LEMMA SpanCountInit == SpanInit => SpanCount
<1>. SUFFICES ASSUME SpanInit PROVE SpanCount
  OBVIOUS
<1>1. \A t \in Threads : OpenPoints(t) = 0
  BY DEF SpanInit, Init, OpenPoints
<1>2. AllOpenPoints = {}
  BY <1>1 DEF AllOpenPoints
<1>. QED BY <1>2, FS_EmptySet DEF SpanInit, SpanCount

(* Whatever fails and however threads interleave: there are spans for all  *)
(* open points but those whose start was refused, so that without refusals *)
(* a stop finds a span to end and does not raise.                          *)
THEOREM OpenPointsHaveSpans == SpanSpec => []SpanForEveryPoint
<1>1. SpanInv /\ SpanCount => SpanForEveryPoint
  BY DEF SpanInv, SpansGrow, SpanCount, SpanForEveryPoint
<1>. QED BY <1>1, SpanInvInit, SpanInvNext, SpanCountInit, SpanCountNext, PTL DEF SpanSpec

(* The driver is a notifier as Profiler assumes it, so that what is proved *)
(* of its records holds of the points that the spans are made of.          *)
THEOREM OtlpIsANotifier ==
  ASSUME {Delivered, Refused} \subseteq Outcomes
  PROVE  SpanSpec => Spec
<1>1. SpanInit => Init
  BY DEF SpanInit
<1>2. [SpanNext]_spanVars => [Next]_vars
  <2>. SUFFICES ASSUME SpanNext PROVE Next
    BY DEF spanVars
  <2>1. PICK t \in Threads : \/ \E n \in Names, o \in StartOutcome : SpanStart(t, n, o)
                            \/ SpanStop(t)
                            \/ NoNotification(t)
    BY DEF SpanNext
  <2>2. StartOutcome \subseteq Outcomes /\ StopOutcome \in Outcomes
    BY DEF StartOutcome, StopOutcome
  <2>. QED BY <2>1, <2>2 DEF SpanStart, SpanStop, NoNotification, Next
<1>. QED BY <1>1, <1>2, PTL DEF SpanSpec, Spec

-----------------------------------------------------------------------------
(* The stack of a thread.  The middleware gives the thread its profiler:   *)
(* the calls before it, u of them, have no point, the calls from it on     *)
(* have theirs on the stack, above the two ids of __init__ and below those *)
(* of the running statement.                                               *)

Ongoing(st) == IF st = None THEN << >> ELSE st

Split(p, s, u) ==
  /\ u \in 0 .. Len(s)
  /\ p = None <=> u = Len(s)
  /\ \A i \in DOMAIN s : /\ s[i].kind \in Kinds
                         /\ s[i].point = None <=> i <= u
                         /\ s[i].kind = "wsgi" <=> i = u + 1

Mirrors(p, s, st, u) ==
  /\ Len(p.trace_stack) = 2 + (Len(s) - u) + Len(Ongoing(st))
  /\ Len(p.name) + 2 = Len(p.trace_stack)
  /\ \A i \in (u + 1) .. Len(s) : p.trace_stack[2 + i - u] = s[i].point
  /\ \A j \in DOMAIN Ongoing(st) : p.trace_stack[2 + (Len(s) - u) + j] = Ongoing(st)[j]

Sound == ~leaked /\ ~overrun
ThreadMirrors(t) ==
  /\ statement[t] # None => local[t] # None
  /\ \E u \in 0 .. Len(calls[t]) :
       /\ Split(local[t], calls[t], u)
       /\ Sound /\ local[t] # None => Mirrors(local[t], calls[t], statement[t], u)

MirrorInv ==
  /\ statement \in [Threads -> Seq(Ids) \cup {None}]
  /\ \A t \in Threads : ThreadMirrors(t)

LEMMA SplitFacts ==
  ASSUME NEW p, NEW s \in Seq(Calls), NEW u, Split(p, s, u)
  PROVE  /\ Len(s) \in Nat /\ DOMAIN s = 1 .. Len(s)
         /\ u \in Nat /\ u <= Len(s) /\ u \in 0 .. Len(s)
         /\ p = None <=> u = Len(s)
         /\ \A i \in 1 .. Len(s) : /\ s[i].kind \in Kinds
                                   /\ s[i].point = None <=> i <= u
                                   /\ s[i].kind = "wsgi" <=> i = u + 1
<1>1. Len(s) \in Nat /\ DOMAIN s = 1 .. Len(s)
  OBVIOUS
<1>2. u \in 0 .. Len(s)
  BY DEF Split
<1>3. u \in Nat /\ u <= Len(s)
  BY <1>1, <1>2
<1>. QED BY <1>1, <1>2, <1>3 DEF Split

(* One more call.                                                          *)
LEMMA SplitAppend ==
  ASSUME NEW p, NEW s \in Seq(Calls), NEW u, Split(p, s, u), NEW q, NEW v \in 0 .. Len(s) + 1,
         NEW f \in Calls, f.kind \in Kinds, v = u \/ (v = Len(s) + 1 /\ u = Len(s)),
         q = None <=> v = Len(s) + 1,
         f.point = None <=> v = Len(s) + 1,
         f.kind = "wsgi" <=> Len(s) = v
  PROVE  Split(q, Append(s, f), v)
<1>. DEFINE r == Append(s, f)
<1>1. /\ Len(r) = Len(s) + 1 /\ DOMAIN r = 1 .. (Len(s) + 1)
      /\ \A i \in 1 .. Len(s) : r[i] = s[i]
      /\ r[Len(s) + 1] = f
  OBVIOUS
<1>2. /\ Len(s) \in Nat /\ u \in Nat /\ u <= Len(s) /\ v \in Nat
      /\ \A i \in 1 .. Len(s) : /\ s[i].kind \in Kinds
                                /\ s[i].point = None <=> i <= u
                                /\ s[i].kind = "wsgi" <=> i = u + 1
  BY SplitFacts
<1>. HIDE DEF r
<1>3. ASSUME NEW i \in DOMAIN r
      PROVE  /\ r[i].kind \in Kinds
             /\ r[i].point = None <=> i <= v
             /\ r[i].kind = "wsgi" <=> i = v + 1
  <2>1. CASE i = Len(s) + 1
    BY <1>1, <1>2, <2>1
  <2>2. CASE i # Len(s) + 1
    <3>1. i \in 1 .. Len(s) /\ i \in Int /\ i <= Len(s)
      BY <1>1, <1>2, <2>2
    <3>2. r[i] = s[i]
      BY <1>1, <3>1
    <3>3. (i <= v <=> i <= u) /\ (i = v + 1 <=> i = u + 1)
      BY <1>2, <3>1
    <3>. QED BY <1>2, <3>1, <3>2, <3>3
  <2>. QED BY <2>1, <2>2
<1>. QED BY <1>1, <1>2, <1>3 DEF Split, r

(* A call that starts its point, if the thread has a profiler.             *)
LEMMA EnteredMirrors ==
  ASSUME NEW p, ProfilerOK(p), NEW s \in Seq(Calls), NEW u, Split(p, s, u),
         NEW n \in Names, p # None => next_id \in Ids,
         NEW f \in Calls, f.kind \in Kinds, f.kind # "wsgi", f.point = PointOfStart(p)
  PROVE  \E v \in 0 .. Len(Append(s, f)) :
           /\ Split(Started(p, n), Append(s, f), v)
           /\ (p # None => Mirrors(p, s, None, u)) /\ Started(p, n) # None =>
                Mirrors(Started(p, n), Append(s, f), None, v)
<1>. DEFINE r == Append(s, f)
<1>1. /\ Len(s) \in Nat /\ Len(r) = Len(s) + 1 /\ DOMAIN s = 1 .. Len(s)
      /\ DOMAIN r = 1 .. (Len(s) + 1)
      /\ \A i \in 1 .. Len(s) : r[i] = s[i]
      /\ r[Len(s) + 1] = f
  OBVIOUS
<1>. HIDE DEF r
<1>0. Len(s) \in Nat
  OBVIOUS
<1>2. CASE p = None
  <2>1. Started(p, n) = None /\ f.point = None /\ u = Len(s)
    BY <1>2 DEF Started, PointOfStart, Split
  <2>2. Split(None, r, Len(s) + 1)
    BY <1>1, <1>2, <2>1, SplitAppend DEF r
  <2>. QED BY <1>1, <2>1, <2>2 DEF r
<1>3. CASE p # None
  <2>. DEFINE q == Pushed(p, n)
  <2>1. /\ Started(p, n) = q /\ q # None /\ p \in Profilers /\ WellFormed(p)
        /\ f.point = next_id /\ f.point # None
    BY <1>3, PushedFollows, StackOfProfiler, NoneAssumption
       DEF Started, PointOfStart, ProfilerOK
  <2>2. /\ p.trace_stack \in Seq(Ids) /\ p.name \in Seq(Names)
        /\ q.trace_stack = Append(p.trace_stack, next_id) /\ q.name = Append(p.name, n)
    BY <2>1 DEF Profilers, Pushed
  <2>3. /\ Len(q.trace_stack) = Len(p.trace_stack) + 1 /\ Len(q.name) = Len(p.name) + 1
        /\ Len(p.trace_stack) \in Nat /\ Len(p.name) \in Nat
        /\ \A i \in 1 .. Len(p.trace_stack) : q.trace_stack[i] = p.trace_stack[i]
        /\ q.trace_stack[Len(p.trace_stack) + 1] = next_id
    BY <2>2
  <2>. HIDE DEF q
  <2>4. u \in Nat /\ u < Len(s)
    <3>1. u \in Nat /\ u <= Len(s) /\ u # Len(s)
      BY <1>3, SplitFacts
    <3>. QED BY <1>0, <3>1
  <2>6. Split(q, r, u) /\ u \in 0 .. Len(r) /\ u \in Int
    <3>1. u \in 0 .. Len(s) + 1 /\ u # Len(s) + 1 /\ u # Len(s)
      BY <1>0, <2>4
    <3>2. Split(q, r, u)
      BY <2>1, <3>1, SplitAppend DEF r
    <3>3. u \in 0 .. Len(r)
      BY <1>1, <3>1
    <3>. QED BY <2>4, <3>2, <3>3
  <2>5. ASSUME Mirrors(p, s, None, u) PROVE Mirrors(q, r, None, u)
    <3>1. Len(p.trace_stack) = 2 + (Len(s) - u) /\ Len(p.name) + 2 = Len(p.trace_stack)
          /\ \A i \in (u + 1) .. Len(s) : p.trace_stack[2 + i - u] = s[i].point
      BY <1>1, <2>4, <2>5 DEF Mirrors, Ongoing
    <3>2. u <= Len(s) /\ u >= 0
      BY <1>1, <2>4
    <3>3. ASSUME NEW i \in (u + 1) .. Len(r) PROVE q.trace_stack[2 + i - u] = r[i].point
      <4>1. CASE i = Len(s) + 1
        BY <1>1, <2>1, <2>3, <2>4, <3>1, <4>1
      <4>2. CASE i # Len(s) + 1
        <5>1. i \in (u + 1) .. Len(s) /\ 2 + i - u \in 1 .. Len(p.trace_stack)
          <6>1. Len(s) \in Nat /\ u \in Nat /\ Len(r) = Len(s) + 1
            BY <1>1, <2>4
          <6>2. i \in (u + 1) .. Len(s)
            BY <3>3, <4>2, <6>1
          <6>3. 2 + i - u \in 1 .. 2 + (Len(s) - u)
            BY <6>1, <6>2
          <6>. QED BY <3>1, <6>2, <6>3
        <5>2. r[i] = s[i]
          BY <1>1, <3>2, <2>4, <5>1
        <5>. QED BY <2>3, <3>1, <5>1, <5>2
      <4>. QED BY <4>1, <4>2
    <3>4. /\ Len(q.trace_stack) = 2 + (Len(r) - u) + 0
          /\ Len(q.name) + 2 = Len(q.trace_stack)
      <4>1. Len(r) = Len(s) + 1
        BY <1>1
      <4>2. /\ Len(q.trace_stack) = Len(p.trace_stack) + 1 /\ Len(q.name) = Len(p.name) + 1
            /\ Len(p.trace_stack) \in Nat /\ Len(p.name) \in Nat
        BY <2>3
      <4>3. Len(p.trace_stack) = 2 + (Len(s) - u) /\ Len(p.name) + 2 = Len(p.trace_stack)
        BY <3>1
      <4>. QED BY <1>0, <2>4, <4>1, <4>2, <4>3
    <3>5. Ongoing(None) = << >> /\ Len(<< >>) = 0 /\ DOMAIN << >> = {}
      BY DEF Ongoing
    <3>. QED BY <3>3, <3>4, <3>5 DEF Mirrors
  <2>. QED BY <1>3, <2>1, <2>5, <2>6 DEF r
<1>. QED BY <1>2, <1>3

(* The middleware gives a thread that has none its profiler, with a point. *)
LEMMA ServedMirrors ==
  ASSUME NEW s \in Seq(Calls), NEW u, Split(None, s, u),
         NEW base, NEW parent, NewProfiler(base, parent) \in Profilers,
         NEW n \in Names, next_id \in Ids, "wsgi" \in Kinds,
         NEW f \in Calls, f.kind = "wsgi", f.point = next_id
  PROVE  \E v \in 0 .. Len(Append(s, f)) :
           /\ Split(Pushed(NewProfiler(base, parent), n), Append(s, f), v)
           /\ Mirrors(Pushed(NewProfiler(base, parent), n), Append(s, f), None, v)
<1>. DEFINE r == Append(s, f)
            p == NewProfiler(base, parent)
            q == Pushed(p, n)
<1>1. /\ Len(s) \in Nat /\ Len(r) = Len(s) + 1 /\ DOMAIN s = 1 .. Len(s)
      /\ DOMAIN r = 1 .. (Len(s) + 1)
      /\ \A i \in 1 .. Len(s) : r[i] = s[i]
      /\ r[Len(s) + 1] = f
  OBVIOUS
<1>2. u = Len(s)
  BY DEF Split
<1>3. q # None
  <2>1. WellFormed(p)
    BY DEF NewProfiler, WellFormed
  <2>2. q \in Profilers /\ WellFormed(q)
    BY <2>1, PushedType
  <2>. QED BY <2>2, StackOfProfiler
<1>4. /\ Len(q.trace_stack) = 3 /\ Len(q.name) = 1 /\ q.trace_stack[3] = next_id
  BY DEF Pushed, NewProfiler
<1>5. next_id # None
  BY NoneAssumption
<1>. HIDE DEF r, q
<1>6. Split(q, r, u) /\ u \in 0 .. Len(r)
  <2>1. u \in 0 .. Len(s) + 1 /\ u # Len(s) + 1
    <3>1. Len(s) \in Nat
      OBVIOUS
    <3>. QED BY <1>2, <3>1
  <2>2. Split(q, r, u)
    BY <1>2, <1>3, <1>5, <2>1, SplitAppend DEF r
  <2>. QED BY <1>1, <1>2, <2>2
<1>7. Mirrors(q, r, None, u)
  BY <1>1, <1>2, <1>4 DEF Mirrors, Ongoing
<1>. QED BY <1>6, <1>7 DEF r, q

(* The end of a call, which stops its point if the thread has a profiler.  *)
LEMMA ShortenedProperties ==
  ASSUME NEW S, NEW s \in Seq(S), NEW k \in 0 .. Len(s)
  PROVE  LET r == SubSeq(s, 1, Len(s) - k) IN
         /\ r \in Seq(S) /\ Len(r) = Len(s) - k /\ DOMAIN r = 1 .. (Len(s) - k)
         /\ \A i \in 1 .. (Len(s) - k) : r[i] = s[i]
<1>1. Len(s) \in Nat /\ k \in Nat /\ k <= Len(s) /\ \A i \in 1 .. Len(s) : s[i] \in S
  OBVIOUS
<1>2. SubSeq(s, 1, Len(s) - k) = [i \in 1 .. (Len(s) - k) |-> s[i]]
  BY <1>1
<1>3. Len(s) - k \in Nat /\ \A i \in 1 .. (Len(s) - k) : s[i] \in S
  BY <1>1
<1>. QED BY <1>2, <1>3

LEMMA SplitPopped ==
  ASSUME NEW p, NEW s \in Seq(Calls), NEW u, Split(p, s, u), s # << >>
  PROVE  /\ Last(s).kind # "wsgi" =>
              \A q : (q = None <=> p = None) =>
                Split(q, Popped(s), IF p = None THEN u - 1 ELSE u)
         /\ Last(s).kind # "wsgi" /\ p # None => u < Len(s) - 1
         /\ Last(s).kind = "wsgi" => p # None /\ u = Len(s) - 1 /\ Split(None, Popped(s), u)
         /\ Last(s).kind \in Kinds
<1>. DEFINE r == Popped(s)
<1>1. /\ Len(s) \in Nat /\ Len(s) > 0 /\ r \in Seq(Calls) /\ Len(r) = Len(s) - 1
      /\ DOMAIN r = 1 .. (Len(s) - 1) /\ \A i \in 1 .. (Len(s) - 1) : r[i] = s[i]
  <2>1. Len(s) \in Nat /\ Len(s) > 0
    OBVIOUS
  <2>2. /\ r \in Seq(Calls) /\ Len(r) = Len(s) - 1
        /\ \A i \in 1 .. (Len(s) - 1) : r[i] = s[i]
    BY PoppedProperties
  <2>3. DOMAIN r = 1 .. Len(r)
    BY <2>2
  <2>. QED BY <2>1, <2>2, <2>3
<1>2. /\ u \in Nat /\ u <= Len(s)
      /\ p = None <=> u = Len(s)
      /\ \A i \in 1 .. Len(s) : /\ s[i].kind \in Kinds
                                /\ s[i].point = None <=> i <= u
                                /\ s[i].kind = "wsgi" <=> i = u + 1
  BY SplitFacts
<1>. HIDE DEF r
<1>3. Last(s) = s[Len(s)] /\ Len(s) \in 1 .. Len(s)
  BY <1>1 DEF Last
<1>4. Last(s).kind \in Kinds /\ (Last(s).kind = "wsgi" <=> Len(s) = u + 1)
  BY <1>2, <1>3
<1>5. ASSUME NEW v \in Nat, v <= Len(s) - 1, NEW q, q = None <=> v = Len(s) - 1,
             v = u \/ (v = Len(s) - 1 /\ v = u - 1)
      PROVE  Split(q, r, v)
  <2>1. ASSUME NEW i \in DOMAIN r
        PROVE  /\ r[i].kind \in Kinds
               /\ r[i].point = None <=> i <= v
               /\ r[i].kind = "wsgi" <=> i = v + 1
    <3>1. i \in 1 .. Len(s) /\ i \in Int /\ i <= Len(s) - 1 /\ r[i] = s[i]
      BY <1>1, <2>1
    <3>2. (i <= v <=> i <= u) /\ (i = v + 1 <=> i = u + 1)
      <4>1. Len(s) \in Nat
        BY <1>1
      <4>. QED BY <1>2, <1>5, <3>1, <4>1
    <3>. QED BY <1>2, <3>1, <3>2
  <2>2. v \in 0 .. Len(r) /\ (q = None <=> v = Len(r))
    BY <1>1, <1>5
  <2>. QED BY <2>1, <2>2 DEF Split
<1>6. ASSUME Last(s).kind # "wsgi"
      PROVE  /\ \A q : (q = None <=> p = None) => Split(q, r, IF p = None THEN u - 1 ELSE u)
             /\ p # None => u < Len(s) - 1
  <2>1. Len(s) \in Nat /\ Len(s) > 0 /\ u \in Nat /\ u <= Len(s) /\ Len(s) # u + 1
    BY <1>1, <1>2, <1>4, <1>6
  <2>2. CASE p = None
    <3>1. u = Len(s) /\ u - 1 \in Nat /\ u - 1 <= Len(s) - 1 /\ u - 1 = Len(s) - 1
      BY <1>2, <2>1, <2>2
    <3>. QED BY <1>5, <2>2, <3>1
  <2>3. CASE p # None
    <3>1. u # Len(s)
      BY <1>2, <2>3
    <3>2. u < Len(s) - 1 /\ u <= Len(s) - 1 /\ u # Len(s) - 1
      BY <2>1, <3>1
    <3>. QED BY <1>5, <2>1, <2>3, <3>2
  <2>. QED BY <2>2, <2>3
<1>7. ASSUME Last(s).kind = "wsgi"
      PROVE  p # None /\ u = Len(s) - 1 /\ Split(None, r, u)
  <2>1. Len(s) \in Nat /\ Len(s) > 0 /\ u \in Nat /\ Len(s) = u + 1
    BY <1>1, <1>2, <1>4, <1>7
  <2>2. u = Len(s) - 1 /\ u <= Len(s) - 1 /\ u # Len(s)
    BY <2>1
  <2>. QED BY <1>2, <1>5, <2>1, <2>2
<1>. QED BY <1>4, <1>6, <1>7 DEF r

LEMMA LeftMirrors ==
  ASSUME NEW p, ProfilerOK(p), NEW s \in Seq(Calls), s # << >>, NEW u, Split(p, s, u),
         NEW o \in AllOutcomes, ~o.raised
  PROVE  LET kind == Last(s).kind
             q == AfterReturn(kind, p, o) IN
         \E v \in 0 .. Len(Popped(s)) :
           /\ Split(q, Popped(s), v)
           /\ (p # None => Mirrors(p, s, None, u)) /\ q # None => Mirrors(q, Popped(s), None, v)
<1>. DEFINE r == Popped(s)
            q == AfterReturn(Last(s).kind, p, o)
<1>1. /\ Len(s) \in Nat /\ Len(s) > 0 /\ r \in Seq(Calls) /\ Len(r) = Len(s) - 1
      /\ \A i \in 1 .. (Len(s) - 1) : r[i] = s[i]
      /\ u \in Nat
  BY PoppedProperties, SplitFacts
<1>2. CASE Last(s).kind = "wsgi"
  <2>1. q = None /\ Split(None, r, u)
    BY <1>2, SplitPopped DEF AfterReturn
  <2>2. u \in 0 .. Len(r)
    BY <2>1 DEF Split
  <2>. QED BY <2>1, <2>2
<1>3. CASE Last(s).kind # "wsgi" /\ p = None
  <2>1. q = None
    BY <1>3 DEF AfterReturn, Stopped, CanStop
  <2>2. Split(None, r, u - 1)
    BY <1>3, <2>1, SplitPopped
  <2>3. u - 1 \in 0 .. Len(r)
    BY <2>2 DEF Split
  <2>. QED BY <2>1, <2>2, <2>3
<1>4. CASE Last(s).kind # "wsgi" /\ p # None
  <2>1. /\ q = Stopped(p, o) /\ p \in Profilers /\ WellFormed(p)
    BY <1>4 DEF AfterReturn, ProfilerOK
  <2>2. q # None
    <3>1. CASE CanStop(p)
      <4>1. p.name # << >>
        BY <3>1 DEF CanStop
      <4>2. AfterStop(p, o) \in Profilers
        BY <2>1, <4>1, AfterStopType
      <4>. QED BY <2>1, <3>1, <4>2, NoneAssumption DEF Stopped
    <3>2. CASE ~CanStop(p)
      BY <1>4, <2>1, <3>2 DEF Stopped
    <3>. QED BY <3>1, <3>2
  <2>3. Split(q, r, u) /\ u < Len(s) - 1
    BY <1>4, <2>2, SplitPopped
  <2>4. u \in 0 .. Len(r)
    BY <2>3 DEF Split
  <2>5. ASSUME Mirrors(p, s, None, u) PROVE Mirrors(q, r, None, u)
    <3>1. /\ Len(p.trace_stack) = 2 + (Len(s) - u) /\ Len(p.name) + 2 = Len(p.trace_stack)
          /\ \A i \in (u + 1) .. Len(s) : p.trace_stack[2 + i - u] = s[i].point
      <4>1. Len(s) \in Nat /\ u \in Nat
        BY <1>1
      <4>2. Len(p.trace_stack) = 2 + (Len(s) - u) + 0 /\ Len(p.name) + 2 = Len(p.trace_stack)
            /\ \A i \in (u + 1) .. Len(s) : p.trace_stack[2 + i - u] = s[i].point
        BY <2>5 DEF Mirrors, Ongoing
      <4>. QED BY <4>1, <4>2
    <3>2. p.trace_stack \in Seq(Ids) /\ p.name \in Seq(Names)
      BY <2>1 DEF Profilers
    <3>3. Len(p.trace_stack) \in Nat /\ Len(p.name) \in Nat
      BY <3>2
    <3>4. Len(p.trace_stack) > 0 /\ Len(p.name) > 0
      <4>1. Len(s) \in Nat /\ u \in Nat /\ u < Len(s) - 1
        BY <1>1, <2>3
      <4>2. Len(p.trace_stack) = 2 + (Len(s) - u) /\ Len(p.name) + 2 = Len(p.trace_stack)
        BY <3>1
      <4>. QED BY <3>3, <4>1, <4>2
    <3>5. p.trace_stack # << >> /\ p.name # << >>
      BY <3>2, <3>4
    <3>6. q.trace_stack = Popped(p.trace_stack) /\ q.name = Popped(p.name)
      BY <1>4, <2>1, <3>5 DEF Stopped, CanStop, AfterStop, StackAfterStop
    <3>7. /\ Len(q.trace_stack) = Len(p.trace_stack) - 1 /\ Len(q.name) = Len(p.name) - 1
          /\ \A i \in 1 .. (Len(p.trace_stack) - 1) : q.trace_stack[i] = p.trace_stack[i]
      BY <3>2, <3>5, <3>6, PoppedProperties
    <3>. HIDE DEF q, r
    <3>8. /\ Len(q.trace_stack) = 2 + (Len(r) - u) + 0
          /\ Len(q.name) + 2 = Len(q.trace_stack)
      <4>1. Len(s) \in Nat /\ u \in Nat /\ Len(r) = Len(s) - 1
        BY <1>1
      <4>2. Len(p.trace_stack) = 2 + (Len(s) - u) /\ Len(p.name) + 2 = Len(p.trace_stack)
        BY <3>1
      <4>3. Len(q.trace_stack) = Len(p.trace_stack) - 1 /\ Len(q.name) = Len(p.name) - 1
        BY <3>7
      <4>. QED BY <3>3, <4>1, <4>2, <4>3
    <3>9. ASSUME NEW i \in (u + 1) .. Len(r) PROVE q.trace_stack[2 + i - u] = r[i].point
      <4>1. Len(s) \in Nat /\ u \in Nat /\ Len(r) = Len(s) - 1
        BY <1>1
      <4>2. i \in (u + 1) .. Len(s) /\ i \in 1 .. (Len(s) - 1)
        BY <3>9, <4>1
      <4>3. 2 + i - u \in 1 .. (Len(p.trace_stack) - 1)
        <5>1. Len(p.trace_stack) = 2 + (Len(s) - u)
          BY <3>1
        <5>. QED BY <3>9, <4>1, <5>1
      <4>4. r[i] = s[i]
        BY <1>1, <4>2
      <4>. QED BY <3>1, <3>7, <4>2, <4>3, <4>4
    <3>10. Ongoing(None) = << >> /\ Len(<< >>) = 0 /\ DOMAIN << >> = {}
      BY DEF Ongoing
    <3>. QED BY <3>8, <3>9, <3>10 DEF Mirrors
  <2>. QED BY <1>4, <2>2, <2>3, <2>4, <2>5
<1>. QED BY <1>2, <1>3, <1>4

LEMMA ConcatProperties ==
  ASSUME NEW S, NEW s \in Seq(S), NEW r \in Seq(S)
  PROVE  /\ s \o r \in Seq(S) /\ Len(s \o r) = Len(s) + Len(r)
         /\ \A i \in 1 .. Len(s) : (s \o r)[i] = s[i]
         /\ \A j \in 1 .. Len(r) : (s \o r)[Len(s) + j] = r[j]
OBVIOUS

(* A statement starts a point for each before listener, and stops those    *)
(* that it started when there are as many stops.                           *)
LEMMA LongerStack ==
  ASSUME NEW a \in Int, NEW b \in Int, NEW k \in Int, NEW names \in Int,
         NEW ids, ids = 2 + (a - b), names + 2 = ids
  PROVE  ids + k = 2 + (a - b) + k /\ (names + k) + 2 = ids + k
OBVIOUS

LEMMA AfterStartsShape ==
  ASSUME NEW p \in Profilers, WellFormed(p), NEW k \in Nat,
         next_id \in Nat, next_id > 0, next_id + k - 1 <= MaxIds
  PROVE  LET q == AfterStarts(p, k)
             T == p.trace_stack IN
         /\ q \in Profilers /\ WellFormed(q) /\ q # None
         /\ Len(q.trace_stack) = Len(T) + k /\ Len(q.name) = Len(p.name) + k
         /\ \A i \in 1 .. Len(T) : q.trace_stack[i] = T[i]
         /\ \A j \in 1 .. k : q.trace_stack[Len(T) + j] = next_id + j - 1
<1>. DEFINE ids == [i \in 1 .. k |-> next_id + i - 1]
            names == [i \in 1 .. k |-> DbName]
            q == AfterStarts(p, k)
            T == p.trace_stack
<1>1. /\ T \in Seq(Ids) /\ p.name \in Seq(Names) /\ Len(T) \in Nat /\ Len(p.name) \in Nat
      /\ Len(T) >= 2 /\ Len(T) >= Len(p.name) + 2 /\ p # None
  BY StackOfProfiler
<1>2. ids \in Seq(Ids) /\ Len(ids) = k /\ \A j \in 1 .. k : ids[j] = next_id + j - 1
  <2>1. \A i \in 1 .. k : next_id + i - 1 \in Ids
    BY MaxIdsAssumption DEF Ids
  <2>. QED BY <2>1
<1>3. names \in Seq(Names) /\ Len(names) = k
  BY DbNameAssumption
<1>4. q = [trace_stack |-> T \o ids, name |-> p.name \o names]
  BY DEF AfterStarts
<1>. HIDE DEF ids, names, q
<1>5. /\ T \o ids \in Seq(Ids) /\ Len(T \o ids) = Len(T) + k
      /\ \A i \in 1 .. Len(T) : (T \o ids)[i] = T[i]
      /\ \A j \in 1 .. k : (T \o ids)[Len(T) + j] = ids[j]
  <2>1. /\ T \o ids \in Seq(Ids) /\ Len(T \o ids) = Len(T) + Len(ids)
        /\ \A i \in 1 .. Len(T) : (T \o ids)[i] = T[i]
        /\ \A j \in 1 .. Len(ids) : (T \o ids)[Len(T) + j] = ids[j]
    <3>1. T \in Seq(Ids) /\ ids \in Seq(Ids)
      BY <1>1, <1>2
    <3>. HIDE DEF T
    <3>. QED BY <3>1, ConcatProperties
  <2>. QED BY <1>2, <2>1
<1>6. p.name \o names \in Seq(Names) /\ Len(p.name \o names) = Len(p.name) + k
  <2>1. p.name \o names \in Seq(Names) /\ Len(p.name \o names) = Len(p.name) + Len(names)
    BY <1>1, <1>3, ConcatProperties
  <2>. QED BY <1>3, <2>1
<1>7. q \in Profilers
  BY <1>4, <1>5, <1>6 DEF Profilers
<1>8. q.trace_stack = T \o ids /\ q.name = p.name \o names
  BY <1>4
<1>9. /\ Len(q.trace_stack) = Len(T) + k /\ Len(q.name) = Len(p.name) + k
      /\ \A i \in 1 .. Len(T) : q.trace_stack[i] = T[i]
      /\ \A j \in 1 .. k : q.trace_stack[Len(T) + j] = next_id + j - 1
  BY <1>2, <1>5, <1>6, <1>8
<1>. HIDE DEF T
<1>10. WellFormed(q)
  BY <1>1, <1>9 DEF WellFormed, T
<1>11. q # None
  BY <1>7, NoneAssumption
<1>. QED BY <1>7, <1>9, <1>10, <1>11 DEF q, T

LEMMA BegunMirrors ==
  ASSUME NEW p \in Profilers, WellFormed(p), NEW s \in Seq(Calls), NEW u, Split(p, s, u),
         engine.before \in Nat, next_id \in Nat, next_id > 0,
         next_id + engine.before - 1 <= MaxIds
  PROVE  LET q == AfterStarts(p, engine.before) IN
         /\ StartedIds \in Seq(Ids) /\ StartedIds # None
         /\ q \in Profilers /\ WellFormed(q) /\ q # None /\ Follows(q, p)
         /\ Split(q, s, u)
         /\ Mirrors(p, s, None, u) => Mirrors(q, s, StartedIds, u)
<1>. DEFINE k == engine.before
            ids == [i \in 1 .. k |-> next_id + i - 1]
            q == AfterStarts(p, k)
            T == p.trace_stack
<1>1. /\ T \in Seq(Ids) /\ p.name \in Seq(Names) /\ Len(T) \in Nat /\ Len(p.name) \in Nat
      /\ Len(T) >= 2 /\ Len(T) >= Len(p.name) + 2 /\ p # None
  BY StackOfProfiler
<1>2. ids \in Seq(Ids) /\ Len(ids) = k /\ DOMAIN ids = 1 .. k /\ StartedIds = ids
  <2>1. \A i \in 1 .. k : next_id + i - 1 \in Ids
    BY MaxIdsAssumption DEF Ids
  <2>. QED BY <2>1 DEF StartedIds
<1>3. ids # None
  BY <1>2, NoSequenceAssumption
<1>4. /\ q \in Profilers /\ WellFormed(q) /\ q # None
      /\ Len(q.trace_stack) = Len(T) + k /\ Len(q.name) = Len(p.name) + k
      /\ \A i \in 1 .. Len(T) : q.trace_stack[i] = T[i]
      /\ \A j \in 1 .. k : q.trace_stack[Len(T) + j] = next_id + j - 1
  BY AfterStartsShape
<1>5. \A j \in 1 .. k : q.trace_stack[Len(T) + j] = ids[j]
  BY <1>4
<1>. HIDE DEF ids, q, T
<1>6. Follows(q, p)
  <2>0. 1 \in 1 .. Len(T) /\ 2 \in 1 .. Len(T)
    <3>1. Len(T) \in Nat /\ Len(T) >= 2
      BY <1>1
    <3>. QED BY <3>1
  <2>1. q.trace_stack[1] = T[1] /\ q.trace_stack[2] = T[2]
    BY <1>4, <2>0
  <2>. QED BY <1>1, <2>1 DEF Follows, JoinedTrace, get_base_id, T
<1>7. Split(q, s, u)
  BY <1>1, <1>4 DEF Split
<1>8. ASSUME Mirrors(p, s, None, u) PROVE Mirrors(q, s, ids, u)
  <2>1. Len(s) \in Nat /\ u \in Nat /\ u <= Len(s) /\ k \in Nat
    BY SplitFacts
  <2>2. /\ Len(T) = 2 + (Len(s) - u) /\ Len(p.name) + 2 = Len(T)
        /\ \A i \in (u + 1) .. Len(s) : T[2 + i - u] = s[i].point
    <3>1. Len(T) = 2 + (Len(s) - u) + 0 /\ Len(p.name) + 2 = Len(T)
          /\ \A i \in (u + 1) .. Len(s) : T[2 + i - u] = s[i].point
      BY <1>8 DEF Mirrors, Ongoing, T
    <3>. QED BY <2>1, <3>1
  <2>3. Len(q.trace_stack) = Len(T) + k /\ Len(q.name) = Len(p.name) + k
    BY <1>4
  <2>4. Ongoing(ids) = ids /\ Len(ids) = k /\ DOMAIN ids = 1 .. k
    BY <1>2, <1>3 DEF Ongoing
  <2>5. /\ Len(q.trace_stack) = 2 + (Len(s) - u) + k
        /\ Len(q.name) + 2 = Len(q.trace_stack)
    <3>1. Len(T) = 2 + (Len(s) - u) /\ Len(p.name) + 2 = Len(T) /\ Len(p.name) \in Nat
      BY <1>1, <2>2
    <3>2. Len(s) \in Int /\ u \in Int /\ k \in Int /\ Len(p.name) \in Int /\ Len(T) \in Int
      BY <1>1, <2>1
    <3>3. Len(T) + k = 2 + (Len(s) - u) + k /\ (Len(p.name) + k) + 2 = Len(T) + k
      <4>. HIDE DEF k
      <4>. QED BY ONLY <3>1, <3>2, LongerStack
    <3>. QED BY <2>3, <3>3
  <2>6. ASSUME NEW i \in (u + 1) .. Len(s) PROVE q.trace_stack[2 + i - u] = s[i].point
    <3>1. 2 + i - u \in 1 .. Len(T)
      <4>1. Len(T) = 2 + (Len(s) - u)
        BY <2>2
      <4>. QED BY <2>1, <2>6, <4>1
    <3>. QED BY <1>4, <2>2, <3>1
  <2>7. ASSUME NEW j \in 1 .. k PROVE q.trace_stack[2 + (Len(s) - u) + j] = ids[j]
    BY <1>5, <2>2
  <2>. QED BY <2>4, <2>5, <2>6, <2>7 DEF Mirrors
<1>. QED BY <1>2, <1>3, <1>4, <1>6, <1>7, <1>8 DEF q

LEMMA AfterStopsShape ==
  ASSUME NEW p \in Profilers, WellFormed(p), NEW m \in Nat, m <= Len(p.name)
  PROVE  LET q == AfterStops(p, m)
             T == p.trace_stack IN
         /\ q \in Profilers /\ WellFormed(q) /\ q # None
         /\ Len(q.trace_stack) = Len(T) - m /\ Len(q.name) = Len(p.name) - m
         /\ \A i \in 1 .. (Len(T) - m) : q.trace_stack[i] = T[i]
<1>. DEFINE q == AfterStops(p, m)
            T == p.trace_stack
<1>1. /\ T \in Seq(Ids) /\ p.name \in Seq(Names) /\ Len(T) \in Nat /\ Len(p.name) \in Nat
      /\ Len(T) >= 2 /\ Len(T) >= Len(p.name) + 2 /\ p # None
  BY StackOfProfiler
<1>2. q.trace_stack = SubSeq(T, 1, Len(T) - m) /\ q.name = SubSeq(p.name, 1, Len(p.name) - m)
  BY DEF AfterStops
<1>3. /\ q.trace_stack \in Seq(Ids) /\ Len(q.trace_stack) = Len(T) - m
      /\ \A i \in 1 .. (Len(T) - m) : q.trace_stack[i] = T[i]
  <2>1. m \in 0 .. Len(T)
    BY <1>1
  <2>. QED BY <1>1, <1>2, <2>1, ShortenedProperties
<1>4. q.name \in Seq(Names) /\ Len(q.name) = Len(p.name) - m
  <2>1. m \in 0 .. Len(p.name)
    BY <1>1
  <2>. QED BY <1>1, <1>2, <2>1, ShortenedProperties
<1>5. q \in Profilers
  <2>1. q = [trace_stack |-> SubSeq(T, 1, Len(T) - m), name |-> SubSeq(p.name, 1, Len(p.name) - m)]
    BY DEF AfterStops
  <2>. HIDE DEF q
  <2>. QED BY <1>2, <1>3, <1>4, <2>1 DEF Profilers
<1>. HIDE DEF q
<1>6. WellFormed(q)
  <2>1. Len(q.trace_stack) = Len(T) - m /\ Len(q.name) = Len(p.name) - m
    BY <1>3, <1>4
  <2>. QED BY <1>1, <2>1 DEF WellFormed
<1>7. q # None
  BY <1>5, NoneAssumption
<1>. QED BY <1>3, <1>4, <1>5, <1>6, <1>7 DEF q

LEMMA EndedMirrors ==
  ASSUME NEW p \in Profilers, WellFormed(p), NEW s \in Seq(Calls), NEW u, Split(p, s, u),
         NEW st \in Seq(Ids) \cup {None}, NEW k \in Nat
  PROVE  LET q == AfterStops(p, Stops(p, k)) IN
         /\ q \in Profilers /\ WellFormed(q) /\ q # None /\ Follows(q, p)
         /\ Split(q, s, u)
         /\ Mirrors(p, s, st, u) /\ k = Len(Ongoing(st)) => Mirrors(q, s, None, u)
<1>. DEFINE m == Stops(p, k)
            q == AfterStops(p, m)
            T == p.trace_stack
<1>1. /\ T \in Seq(Ids) /\ p.name \in Seq(Names) /\ Len(T) \in Nat /\ Len(p.name) \in Nat
      /\ Len(T) >= 2 /\ Len(T) >= Len(p.name) + 2 /\ p # None
  BY StackOfProfiler
<1>2. m \in Nat /\ m <= Len(p.name) /\ (k <= Len(p.name) => m = k)
  BY <1>1 DEF Stops
<1>. HIDE DEF m
<1>3. /\ q \in Profilers /\ WellFormed(q) /\ q # None
      /\ Len(q.trace_stack) = Len(T) - m /\ Len(q.name) = Len(p.name) - m
      /\ \A i \in 1 .. (Len(T) - m) : q.trace_stack[i] = T[i]
  BY <1>2, AfterStopsShape
<1>. HIDE DEF q, T
<1>4. Follows(q, p)
  <2>1. 1 \in 1 .. (Len(T) - m) /\ 2 \in 1 .. (Len(T) - m)
    BY <1>1, <1>2
  <2>2. q.trace_stack[1] = T[1] /\ q.trace_stack[2] = T[2]
    BY <1>3, <2>1
  <2>. QED BY <1>1, <2>2 DEF Follows, JoinedTrace, get_base_id, T
<1>5. Split(q, s, u)
  BY <1>1, <1>3 DEF Split
<1>6. ASSUME Mirrors(p, s, st, u), k = Len(Ongoing(st)) PROVE Mirrors(q, s, None, u)
  <2>1. Len(s) \in Nat /\ u \in Nat /\ u <= Len(s)
    BY SplitFacts
  <2>2. /\ Len(T) = 2 + (Len(s) - u) + k /\ Len(p.name) + 2 = Len(T)
        /\ \A i \in (u + 1) .. Len(s) : T[2 + i - u] = s[i].point
    BY <1>6 DEF Mirrors, T
  <2>3. Len(T) = 2 + (Len(s) - u) + k /\ Len(p.name) + 2 = Len(T)
    BY <2>2
  <2>4. m = k
    BY <1>1, <1>2, <2>1, <2>3
  <2>5. Len(q.trace_stack) = Len(T) - m /\ Len(q.name) = Len(p.name) - m
    BY <1>3
  <2>6. /\ Len(q.trace_stack) = 2 + (Len(s) - u) + 0
        /\ Len(q.name) + 2 = Len(q.trace_stack)
    BY <1>1, <2>1, <2>3, <2>4, <2>5
  <2>7. ASSUME NEW i \in (u + 1) .. Len(s) PROVE q.trace_stack[2 + i - u] = s[i].point
    <3>1. 2 + i - u \in 1 .. (Len(T) - m)
      BY <2>1, <2>3, <2>4, <2>7
    <3>. QED BY <1>3, <2>2, <3>1
  <2>8. Ongoing(None) = << >> /\ Len(<< >>) = 0 /\ DOMAIN << >> = {}
    BY DEF Ongoing
  <2>. QED BY <2>6, <2>7, <2>8 DEF Mirrors
<1>. QED BY <1>3, <1>4, <1>5, <1>6 DEF q, m

-----------------------------------------------------------------------------
(* The invariant of DbTracing's threads, all of them.                      *)

StackInv == DbInv /\ CallInv /\ MirrorInv

(* The program is one of those that the runs of DbTracing are about.       *)
Plain == NeverRaises /\ "requests" \notin Kinds /\ ~NestedWsgi

LEMMA MirrorUpdate ==
  ASSUME MirrorInv, CallInv, NEW t \in Threads, NEW p, NEW s, NEW st \in Seq(Ids) \cup {None},
         local' = [local EXCEPT ![t] = p], calls' = [calls EXCEPT ![t] = s],
         statement' = [statement EXCEPT ![t] = st], Sound' => Sound,
         st # None => p # None,
         NEW v \in 0 .. Len(s), Split(p, s, v), Sound' /\ p # None => Mirrors(p, s, st, v)
  PROVE  MirrorInv'
<1>1. /\ statement \in [Threads -> Seq(Ids) \cup {None}]
      /\ \A u \in Threads : ThreadMirrors(u)
  BY DEF MirrorInv
<1>2. \A u \in Threads : /\ local'[u] = IF u = t THEN p ELSE local[u]
                         /\ calls'[u] = IF u = t THEN s ELSE calls[u]
  BY DEF CallInv
<1>3. \A u \in Threads : statement'[u] = IF u = t THEN st ELSE statement[u]
  BY <1>1
<1>4. statement' \in [Threads -> Seq(Ids) \cup {None}]
  BY <1>1
<1>5. ASSUME NEW u \in Threads PROVE ThreadMirrors(u)'
  <2>1. CASE u = t
    BY <1>2, <1>3, <2>1 DEF ThreadMirrors
  <2>2. CASE u # t
    <3>1. local'[u] = local[u] /\ calls'[u] = calls[u] /\ statement'[u] = statement[u]
      BY <1>2, <1>3, <2>2
    <3>2. ThreadMirrors(u)
      BY <1>1
    <3>. QED BY <3>1, <3>2 DEF ThreadMirrors
  <2>. QED BY <2>1, <2>2
<1>. QED BY <1>4, <1>5 DEF MirrorInv

LEMMA MirrorKept ==
  ASSUME MirrorInv, UNCHANGED <<local, calls, statement>>, Sound' => Sound
  PROVE  MirrorInv'
BY DEF MirrorInv, ThreadMirrors

(* A thread without a running statement.                                   *)
LEMMA MirrorFacts ==
  ASSUME MirrorInv, CallInv, NEW t \in Threads
  PROVE  /\ statement[t] \in Seq(Ids) \cup {None}
         /\ statement[t] # None => local[t] # None
         /\ statement = [statement EXCEPT ![t] = statement[t]]
         /\ \E u \in 0 .. Len(calls[t]) :
              /\ Split(local[t], calls[t], u)
              /\ Sound /\ local[t] # None => Mirrors(local[t], calls[t], statement[t], u)
BY DEF MirrorInv, ThreadMirrors

LEMMA EnterMirrors ==
  ASSUME StackInv, NEW t \in Threads, NEW kind \in Kinds, NEW n \in Names, NEW o \in Outcomes,
         statement[t] = None, UNCHANGED dbVars, Enter(t, kind, n, o)
  PROVE  MirrorInv'
<1>. DEFINE f == [kind |-> kind, name |-> n, header |-> None, point |-> PointOfStart(local[t])]
            p == local[t]
            s == calls[t]
<1>1. /\ kind # "wsgi" /\ MayEnter(t, kind, p)
      /\ local' = [local EXCEPT ![t] = Started(p, n)]
      /\ calls' = [calls EXCEPT ![t] = Append(s, f)]
  BY DEF Enter, SetLocal, PushCall
<1>2. MirrorInv /\ CallInv
  BY DEF StackInv
<1>3. p # None => next_id \in Ids
  BY <1>1, <1>2, CallFacts DEF MayEnter
<1>4. PointOfStart(p) \in Ids \cup {None}
  BY <1>3 DEF PointOfStart
<1>5. f \in Calls /\ f.kind \in Kinds /\ f.kind # "wsgi" /\ f.point = PointOfStart(p)
  BY <1>1, <1>4, KindsAssumption DEF Calls
<1>6. ProfilerOK(p) /\ s \in Seq(Calls)
  BY <1>2, CallFacts
<1>7. PICK u \in 0 .. Len(s) : Split(p, s, u) /\ (Sound /\ p # None => Mirrors(p, s, None, u))
  BY <1>2, MirrorFacts
<1>. HIDE DEF f, p, s
<1>8. PICK v \in 0 .. Len(Append(s, f)) :
        /\ Split(Started(p, n), Append(s, f), v)
        /\ (p # None => Mirrors(p, s, None, u)) /\ Started(p, n) # None =>
             Mirrors(Started(p, n), Append(s, f), None, v)
  BY <1>3, <1>5, <1>6, <1>7, EnteredMirrors
<1>9. Sound' = Sound /\ statement' = [statement EXCEPT ![t] = None]
  BY <1>2, MirrorFacts DEF Sound, dbVars
<1>10. Sound' /\ Started(p, n) # None => Mirrors(Started(p, n), Append(s, f), None, v)
  BY <1>7, <1>8, <1>9
<1>. QED BY <1>1, <1>2, <1>8, <1>9, <1>10, MirrorUpdate

LEMMA NotServing ==
  ASSUME MirrorInv, CallInv, NEW t \in Threads, ~InMiddleware(t)
  PROVE  local[t] = None
<1>. DEFINE s == calls[t]
<1>. SUFFICES ASSUME local[t] # None PROVE FALSE
  OBVIOUS
<1>1. s \in Seq(Calls)
  BY CallFacts
<1>2. PICK u \in 0 .. Len(s) : Split(local[t], s, u)
  BY MirrorFacts
<1>3. /\ Len(s) \in Nat /\ DOMAIN s = 1 .. Len(s) /\ u \in Nat /\ u <= Len(s)
      /\ u # Len(s)
  BY <1>1, <1>2, SplitFacts
<1>4. u + 1 \in 1 .. Len(s)
  BY <1>3
<1>5. s[u + 1].kind = "wsgi"
  BY <1>2, <1>3, <1>4 DEF Split
<1>. QED BY <1>3, <1>4, <1>5 DEF InMiddleware

LEMMA ServeMirrors ==
  ASSUME StackInv, NEW t \in Threads, NEW h \in Headers, NEW o \in Outcomes, ~o.raised,
         ~NestedWsgi, statement[t] = None, UNCHANGED dbVars, EnterWsgi(t, h, o)
  PROVE  MirrorInv'
<1>. DEFINE f == [kind |-> "wsgi", name |-> WsgiName, header |-> h, point |-> next_id]
            s == calls[t]
            p == NewProfiler(h.base_id, h.parent_id)
            q == Pushed(p, WsgiName)
<1>1. MirrorInv /\ CallInv /\ ~InMiddleware(t)
  BY DEF StackInv, EnterWsgi
<1>2. s \in Seq(Calls)
  BY <1>1, CallFacts
<1>3. PICK u \in 0 .. Len(s) : Split(local[t], s, u)
  BY <1>1, MirrorFacts
<1>4. local[t] = None
  BY <1>1, NotServing
<1>5. /\ MayEnter(t, "wsgi", p)
      /\ local' = [local EXCEPT ![t] = q]
      /\ calls' = [calls EXCEPT ![t] = Append(s, f)]
  BY <1>4 DEF EnterWsgi, SetLocal, PushCall, Inited
<1>6. p \in Profilers
  <2>1. h.base_id \in Ids /\ h.parent_id \in Ids \cup {None}
    BY DEF Headers
  <2>2. h.base_id # None
    BY <2>1, NoneAssumption
  <2>. QED BY <2>1, <2>2, NewProfilerType
<1>7. next_id \in Ids /\ "wsgi" \in Kinds
  BY <1>1, <1>5, <1>6, NoneAssumption, CallFacts DEF MayEnter
<1>8. f \in Calls /\ f.kind = "wsgi" /\ f.point = next_id
  BY <1>7, WsgiNameAssumption DEF Calls, AllKinds
<1>9. Split(None, s, u)
  BY <1>3, <1>4
<1>. HIDE DEF f, s
<1>10. PICK v \in 0 .. Len(Append(s, f)) :
         Split(q, Append(s, f), v) /\ Mirrors(q, Append(s, f), None, v)
  BY <1>2, <1>6, <1>7, <1>8, <1>9, WsgiNameAssumption, ServedMirrors
<1>11. Sound' = Sound /\ statement' = [statement EXCEPT ![t] = None]
  BY <1>1, MirrorFacts DEF Sound, dbVars
<1>. HIDE DEF q
<1>. QED BY <1>1, <1>5, <1>10, <1>11, MirrorUpdate

LEMMA LeaveMirrors ==
  ASSUME StackInv, Plain, NEW t \in Threads, NEW o \in Outcomes,
         statement[t] = None, UNCHANGED dbVars, Leave(t, o) \/ Unwind(t, o)
  PROVE  MirrorInv'
<1>. DEFINE s == calls[t]
            q == AfterReturn(Last(s).kind, local[t], o)
<1>1. MirrorInv /\ CallInv /\ "requests" \notin Kinds
  BY DEF StackInv, Plain
<1>2. s \in Seq(Calls) /\ s # << >> /\ ProfilerOK(local[t])
  BY <1>1, CallFacts DEF Leave, Unwind
<1>3. PICK u \in 0 .. Len(s) :
        /\ Split(local[t], s, u)
        /\ Sound /\ local[t] # None => Mirrors(local[t], s, None, u)
  BY <1>1, MirrorFacts
<1>4. StopsOnException(Last(s).kind)
  BY <1>1, <1>2, <1>3, SplitPopped DEF StopsOnException
<1>5. /\ local' = [local EXCEPT ![t] = q]
      /\ calls' = [calls EXCEPT ![t] = Popped(s)]
  BY <1>4 DEF Leave, Unwind, SetLocal, PopCall
<1>6. o \in AllOutcomes /\ ~o.raised
  BY OutcomesAssumption DEF Plain, NeverRaises
<1>. HIDE DEF s
<1>7. PICK v \in 0 .. Len(Popped(s)) :
        /\ Split(q, Popped(s), v)
        /\ (local[t] # None => Mirrors(local[t], s, None, u)) /\ q # None =>
             Mirrors(q, Popped(s), None, v)
  BY <1>2, <1>3, <1>6, LeftMirrors
<1>8. Sound' = Sound /\ statement' = [statement EXCEPT ![t] = None]
  BY <1>1, MirrorFacts DEF Sound, dbVars
<1>. HIDE DEF q
<1>9. Sound' /\ q # None => Mirrors(q, Popped(s), None, v)
  BY <1>3, <1>7, <1>8
<1>. QED BY <1>1, <1>5, <1>7, <1>8, <1>9, MirrorUpdate

LEMMA OwnCallMirrors ==
  ASSUME StackInv, Plain, NEW t \in Threads, OwnCall(t)
  PROVE  MirrorInv' /\ CallInv'
<1>1. statement[t] = None /\ UNCHANGED dbVars /\ CallStep(t)
  BY DEF OwnCall
<1>2. CallInv'
  BY <1>1, CallInvNext DEF StackInv, CallNext
<1>3. \A o \in Outcomes : ~o.raised
  BY DEF Plain, NeverRaises
<1>4. ASSUME Raise(t) \/ Catch(t) PROVE MirrorInv'
  <2>1. UNCHANGED <<local, calls, statement>> /\ Sound' = Sound
    BY <1>1, <1>4 DEF Raise, Catch, dbVars, Sound
  <2>. QED BY <2>1, MirrorKept DEF StackInv
<1>5. ASSUME AppStep(t) PROVE MirrorInv'
  <2>1. ASSUME NEW kind \in Kinds, NEW n \in AppNames, NEW o \in Outcomes, Enter(t, kind, n, o)
        PROVE  MirrorInv'
    BY <1>1, <2>1, EnterMirrors DEF AppNames
  <2>2. ASSUME NEW o \in Outcomes, Leave(t, o) \/ Unwind(t, o) PROVE MirrorInv'
    BY <1>1, <2>2, LeaveMirrors
  <2>3. \A n, o, oStop : o \in Outcomes => ~EnterTraceFails(t, n, o, oStop)
    BY <1>3 DEF EnterTraceFails, StartRaises
  <2>4. \A kind, n, o : o \in Outcomes => ~EnterFails(t, kind, n, o)
    BY <1>3 DEF EnterFails, StartRaises
  <2>. QED BY <1>4, <1>5, <2>1, <2>2, <2>3, <2>4 DEF AppStep
<1>6. ASSUME NEW o \in Outcomes, Serve(t, o) PROVE MirrorInv'
  <2>1. PICK h \in Headers : EnterWsgi(t, h, o)
    BY <1>6, HeadersType, OutsideHeadersType DEF Serve, StackInv
  <2>. QED BY <1>1, <1>3, <2>1, ServeMirrors DEF Plain
<1>. QED BY <1>1, <1>2, <1>5, <1>6 DEF CallStep

(* The listeners of a thread's statement, which are not calls.             *)
LEMMA ListenersCallInv ==
  ASSUME CallInv, NEW t \in Threads, NEW q, ProfilerOK(q), Follows(q, local[t]),
         local' = [local EXCEPT ![t] = q], calls' = calls, next_id' \in 1 .. (MaxIds + 1)
  PROVE  CallInv'
<1>1. ThreadOK(q, calls[t])
  BY CallFacts, SameCallsOK
<1>. QED BY <1>1, CallFacts, CallUpdate

LEMMA BeginMirrors ==
  ASSUME StackInv, NEW t \in Threads, BeginStatement(t)
  PROVE  MirrorInv' /\ CallInv'
<1>. DEFINE p == local[t]
            s == calls[t]
            q == AfterStarts(p, engine.before)
<1>1. MirrorInv /\ CallInv /\ engine.before \in Nat
  BY DEF StackInv, DbInv, DbTypeOK, Engines
<1>2. /\ statement[t] = None /\ p # None
      /\ next_id + engine.before - 1 <= MaxIds
      /\ local' = [local EXCEPT ![t] = q]
      /\ next_id' = next_id + engine.before
      /\ statement' = [statement EXCEPT ![t] = StartedIds]
      /\ calls' = calls /\ UNCHANGED <<leaked, overrun>>
  BY DEF BeginStatement, InSession, SetLocal
<1>3. next_id \in Nat /\ next_id > 0 /\ next_id' \in 1 .. (MaxIds + 1)
  <2>1. next_id \in 1 .. (MaxIds + 1)
    BY <1>1, CallFacts
  <2>2. next_id + engine.before - 1 <= MaxIds /\ next_id' = next_id + engine.before
    BY <1>2
  <2>. QED BY <1>1, <2>1, <2>2, MaxIdsAssumption
<1>4. p \in Profilers /\ WellFormed(p) /\ s \in Seq(Calls) /\ calls' = [calls EXCEPT ![t] = s]
  BY <1>1, <1>2, CallFacts DEF ProfilerOK
<1>5. PICK u \in 0 .. Len(s) : Split(p, s, u) /\ (Sound /\ p # None => Mirrors(p, s, None, u))
  BY <1>1, <1>2, MirrorFacts
<1>. HIDE DEF p, s
<1>6. /\ StartedIds \in Seq(Ids) /\ StartedIds # None
      /\ q \in Profilers /\ WellFormed(q) /\ q # None /\ Follows(q, p)
      /\ Split(q, s, u)
      /\ Mirrors(p, s, None, u) => Mirrors(q, s, StartedIds, u)
  BY <1>1, <1>2, <1>3, <1>4, <1>5, BegunMirrors
<1>. HIDE DEF q
<1>7. Sound' = Sound
  BY <1>2 DEF Sound
<1>8. MirrorInv'
  <2>1. Sound' /\ q # None => Mirrors(q, s, StartedIds, u)
    BY <1>2, <1>5, <1>6, <1>7
  <2>. QED BY <1>1, <1>2, <1>4, <1>5, <1>6, <1>7, <2>1, MirrorUpdate
<1>9. CallInv'
  <2>1. ProfilerOK(q)
    BY <1>6 DEF ProfilerOK
  <2>. QED BY <1>1, <1>2, <1>3, <1>6, <2>1, ListenersCallInv DEF p
<1>. QED BY <1>8, <1>9

LEMMA StopsMirror ==
  ASSUME StackInv, NEW t \in Threads, local[t] # None, NEW k \in Nat,
         DoStops(t, k, Len(Ongoing(statement[t]))),
         statement' = [statement EXCEPT ![t] = None], UNCHANGED <<calls, next_id>>
  PROVE  MirrorInv' /\ CallInv'
<1>. DEFINE p == local[t]
            s == calls[t]
            st == statement[t]
            q == AfterStops(p, Stops(p, k))
<1>1. MirrorInv /\ CallInv
  BY DEF StackInv
<1>2. /\ local' = [local EXCEPT ![t] = q]
      /\ leaked' = (leaked \/ k < Len(Ongoing(st)))
      /\ overrun' = (overrun \/ k > Len(Ongoing(st)))
  BY DEF DoStops, SetLocal
<1>3. p \in Profilers /\ WellFormed(p) /\ s \in Seq(Calls) /\ calls' = [calls EXCEPT ![t] = s]
  BY <1>1, CallFacts DEF ProfilerOK
<1>4. st \in Seq(Ids) \cup {None}
  BY <1>1, MirrorFacts
<1>5. PICK u \in 0 .. Len(s) : Split(p, s, u) /\ (Sound /\ p # None => Mirrors(p, s, st, u))
  BY <1>1, MirrorFacts
<1>. HIDE DEF p, s, st
<1>6. /\ q \in Profilers /\ WellFormed(q) /\ q # None /\ Follows(q, p)
      /\ Split(q, s, u)
      /\ Mirrors(p, s, st, u) /\ k = Len(Ongoing(st)) => Mirrors(q, s, None, u)
  BY <1>3, <1>4, <1>5, EndedMirrors
<1>. HIDE DEF q
<1>7. Sound' => Sound /\ k = Len(Ongoing(st))
  <2>1. Ongoing(st) \in Seq(Ids)
    BY <1>4 DEF Ongoing
  <2>2. Len(Ongoing(st)) \in Nat
    BY <2>1
  <2>3. ASSUME Sound' PROVE Sound /\ k = Len(Ongoing(st))
    <3>. DEFINE n == Len(Ongoing(st))
    <3>1. ~leaked' /\ ~overrun' /\ leaked' = (leaked \/ k < n) /\ overrun' = (overrun \/ k > n)
      BY <1>2, <2>3 DEF Sound
    <3>2. n \in Nat
      BY <2>2
    <3>. HIDE DEF n
    <3>3. ~leaked /\ ~overrun /\ ~(k < n) /\ ~(k > n)
      BY <3>1, Zenon
    <3>4. k = n
      BY <3>2, <3>3
    <3>. QED BY <3>3, <3>4 DEF Sound, n
  <2>. QED BY <2>3
<1>8. MirrorInv'
  <2>1. Sound' /\ q # None => Mirrors(q, s, None, u)
    BY <1>5, <1>6, <1>7 DEF p
  <2>. QED BY <1>1, <1>2, <1>3, <1>5, <1>6, <1>7, <2>1, MirrorUpdate
<1>9. CallInv'
  <2>1. ProfilerOK(q)
    BY <1>6 DEF ProfilerOK
  <2>2. next_id' \in 1 .. (MaxIds + 1)
    BY <1>1 DEF CallInv
  <2>. QED BY <1>1, <1>2, <1>6, <2>1, <2>2, ListenersCallInv DEF p
<1>. QED BY <1>8, <1>9

LEMMA StatementMirrors ==
  ASSUME StackInv, NEW t \in Threads, EndStatement(t) \/ FailStatement(t) \/ handle_error(t)
  PROVE  MirrorInv' /\ CallInv'
<1>1. /\ engine.after \in Nat /\ ErrorStops(engine) \in Nat
      /\ MirrorInv /\ CallInv
  BY DEF StackInv, DbInv, DbTypeOK, Engines, ErrorStops
<1>2. Ongoing(None) = << >> /\ Len(<< >>) = 0
  BY DEF Ongoing
<1>3. CASE EndStatement(t) \/ FailStatement(t)
  <2>1. /\ statement[t] # None
        /\ statement' = [statement EXCEPT ![t] = None] /\ UNCHANGED <<calls, next_id>>
        /\ \E k \in Nat : DoStops(t, k, Len(statement[t]))
    BY <1>1, <1>3 DEF EndStatement, FailStatement
  <2>2. local[t] # None /\ Ongoing(statement[t]) = statement[t]
    BY <1>1, <2>1, MirrorFacts DEF Ongoing
  <2>. QED BY <2>1, <2>2, StopsMirror
<1>4. CASE handle_error(t)
  <2>1. /\ local[t] # None /\ statement[t] = None
        /\ UNCHANGED <<calls, next_id, statement>>
        /\ DoStops(t, ErrorStops(engine), 0)
    BY <1>4 DEF handle_error, InSession
  <2>2. statement' = [statement EXCEPT ![t] = None] /\ Len(Ongoing(statement[t])) = 0
    BY <1>1, <1>2, <2>1, MirrorFacts
  <2>. QED BY <1>1, <2>1, <2>2, StopsMirror
<1>. QED BY <1>3, <1>4

LEMMA StackInvNext ==
  ASSUME Plain
  PROVE  StackInv /\ [DbNext]_<<callVars, dbVars>> => StackInv'
<1>. SUFFICES ASSUME StackInv, [DbNext]_<<callVars, dbVars>> PROVE StackInv'
  OBVIOUS
<1>1. DbInv'
  BY DbInvNext DEF StackInv
<1>2. ASSUME UNCHANGED <<callVars, statement, leaked, overrun>> PROVE MirrorInv' /\ CallInv'
  <2>1. CallInv'
    BY <1>2 DEF StackInv, CallInv, callVars
  <2>2. UNCHANGED <<local, calls, statement>> /\ Sound' = Sound
    BY <1>2 DEF callVars, Sound
  <2>. QED BY <2>1, <2>2, MirrorKept DEF StackInv
<1>3. ASSUME Switch PROVE UNCHANGED <<callVars, statement, leaked, overrun>>
  BY <1>3 DEF Switch
<1>4. ASSUME UNCHANGED <<callVars, dbVars>> PROVE UNCHANGED <<callVars, statement, leaked, overrun>>
  BY <1>4 DEF dbVars
<1>5. ASSUME NEW t \in Threads, WrapSession(t) \/ Attach(t)
      PROVE  UNCHANGED <<callVars, statement, leaked, overrun>>
  BY <1>5 DEF WrapSession, Attach
<1>6. ASSUME NEW t \in Threads,
             \/ OwnCall(t) \/ BeginStatement(t)
             \/ EndStatement(t) \/ FailStatement(t) \/ handle_error(t)
      PROVE  MirrorInv' /\ CallInv'
  BY <1>6, OwnCallMirrors, BeginMirrors, StatementMirrors
<1>7. DbNext => \/ Switch
                \/ \E t \in Threads :
                     \/ OwnCall(t)
                     \/ WrapSession(t) \/ Attach(t) \/ BeginStatement(t)
                     \/ EndStatement(t) \/ FailStatement(t) \/ handle_error(t)
  BY DEF DbNext
<1>. QED BY <1>1, <1>2, <1>3, <1>4, <1>5, <1>6, <1>7 DEF StackInv

LEMMA StackInvInit == DbInit => StackInv
<1>. SUFFICES ASSUME DbInit PROVE StackInv
  OBVIOUS
<1>1. DbInv /\ CallInv
  BY DbInvInit, CallInvInit DEF DbInit
<1>2. /\ local = [t \in Threads |-> None] /\ calls = [t \in Threads |-> << >>]
      /\ statement = [t \in Threads |-> None]
  BY DEF DbInit, CallInit, Init
<1>3. Split(None, << >>, 0)
  <2>1. Len(<< >>) = 0 /\ DOMAIN << >> = {}
    OBVIOUS
  <2>. QED BY <2>1 DEF Split
<1>4. ASSUME NEW t \in Threads PROVE ThreadMirrors(t)
  <2>1. local[t] = None /\ calls[t] = << >> /\ statement[t] = None /\ 0 \in 0 .. Len(<< >>)
    BY <1>2
  <2>. QED BY <1>3, <2>1 DEF ThreadMirrors
<1>. QED BY <1>1, <1>2, <1>4 DEF StackInv, MirrorInv

LEMMA SameSequence ==
  ASSUME NEW S, NEW s \in Seq(S), NEW r \in Seq(S), Len(s) = Len(r),
         \A i \in 1 .. Len(s) : s[i] = r[i]
  PROVE  s = r
<1>1. /\ DOMAIN s = 1 .. Len(s) /\ DOMAIN r = 1 .. Len(r)
      /\ s = [i \in DOMAIN s |-> s[i]] /\ r = [i \in DOMAIN r |-> r[i]]
  OBVIOUS
<1>. QED BY <1>1

LEMMA PartProperties ==
  ASSUME NEW S, NEW s \in Seq(S), NEW m \in 1 .. Len(s) + 1
  PROVE  LET r == SubSeq(s, m, Len(s)) IN
         /\ Len(r) = Len(s) + 1 - m
         /\ \A i \in 1 .. (Len(s) + 1 - m) : r[i] = s[m + i - 1]
         /\ (\A j \in m .. Len(s) : s[j] \in Ids) => r \in Seq(Ids)
<1>1. Len(s) \in Nat /\ m \in Nat /\ m >= 1 /\ m <= Len(s) + 1
  OBVIOUS
<1>2. SubSeq(s, m, Len(s)) = [i \in 1 .. (Len(s) + 1 - m) |-> s[m + i - 1]]
  <2>1. SubSeq(s, m, Len(s)) = [i \in 1 .. (1 + Len(s) - m) |-> s[i + m - 1]]
    BY <1>1
  <2>2. 1 + Len(s) - m = Len(s) + 1 - m /\ \A i \in Int : i + m - 1 = m + i - 1
    BY <1>1
  <2>. QED BY <2>1, <2>2
<1>3. Len(s) + 1 - m \in Nat
  BY <1>1
<1>4. \A i \in 1 .. (Len(s) + 1 - m) : m + i - 1 \in m .. Len(s)
  BY <1>1
<1>. DEFINE n == Len(s) + 1 - m
            r == [i \in 1 .. n |-> s[m + i - 1]]
<1>5. Len(r) = n /\ \A i \in 1 .. n : r[i] = s[m + i - 1]
  <2>. HIDE DEF n
  <2>. QED BY <1>3 DEF n
<1>6. (\A j \in m .. Len(s) : s[j] \in Ids) => r \in Seq(Ids)
  <2>. HIDE DEF n
  <2>. QED BY <1>3, <1>4 DEF n
<1>. QED BY <1>2, <1>5, <1>6

LEMMA PointsOf ==
  ASSUME MirrorInv, CallInv, NEW t \in Threads, NEW u, Split(local[t], calls[t], u)
  PROVE  LET n == Len(calls[t])
             P == PointsInProgress(t)
             st == Ongoing(statement[t]) IN
         /\ P \in Seq(Ids) /\ Len(P) = (n - u) + Len(st)
         /\ st \in Seq(Ids)
         /\ \A i \in 1 .. (n - u) : P[i] = calls[t][u + i].point
         /\ \A j \in 1 .. Len(st) : P[(n - u) + j] = st[j]
<1>. DEFINE s == calls[t]
            pts == [i \in DOMAIN s |-> s[i].point]
            rest == SubSeq(pts, u + 1, Len(s))
            st == Ongoing(statement[t])
<1>1. s \in Seq(Calls)
  BY CallFacts
<1>2. /\ Len(s) \in Nat /\ DOMAIN s = 1 .. Len(s) /\ u \in Nat /\ u <= Len(s)
      /\ \A i \in 1 .. Len(s) : s[i].point = None <=> i <= u
  BY <1>1, SplitFacts
<1>3. \A i \in 1 .. Len(s) : s[i].point \in Ids \cup {None}
  <2>1. \A i \in 1 .. Len(s) : s[i] \in Calls
    BY <1>1
  <2>. QED BY <2>1 DEF Calls
<1>4. st \in Seq(Ids)
  BY MirrorFacts DEF Ongoing
<1>5. Unprofiled(t) = u
  <2>1. {i \in DOMAIN s : s[i].point = None} = 1 .. u
    <3>1. ASSUME NEW i PROVE i \in {j \in DOMAIN s : s[j].point = None} <=> i \in 1 .. u
      <4>1. Len(s) \in Nat /\ u \in Nat /\ u <= Len(s)
        BY <1>2
      <4>2. i \in 1 .. u <=> i \in 1 .. Len(s) /\ i <= u
        BY <4>1
      <4>. QED BY <1>2, <4>2
    <3>. QED BY <3>1
  <2>2. Cardinality(1 .. u) = u
    <3>1. u \in Nat
      BY <1>2
    <3>2. 1 \in Int /\ u \in Int
      BY <3>1
    <3>3. Cardinality(1 .. u) = IF 1 > u THEN 0 ELSE u - 1 + 1
      BY <3>2, FS_Interval
    <3>. QED BY <3>1, <3>3
  <2>. QED BY <2>1, <2>2 DEF Unprofiled
<1>. HIDE DEF s
<1>6. /\ pts \in Seq(Ids \cup {None}) /\ Len(pts) = Len(s)
      /\ \A i \in 1 .. Len(s) : pts[i] = s[i].point
  BY <1>2, <1>3
<1>. HIDE DEF pts
<1>7. u + 1 \in 1 .. Len(pts) + 1 /\ Len(pts) + 1 - (u + 1) = Len(s) - u
  <2>1. Len(s) \in Nat /\ u \in Nat /\ u <= Len(s) /\ Len(pts) = Len(s)
    BY <1>2, <1>6
  <2>. QED BY <2>1
<1>8. /\ Len(rest) = Len(s) - u
      /\ \A i \in 1 .. (Len(s) - u) : rest[i] = pts[(u + 1) + i - 1]
      /\ (\A j \in (u + 1) .. Len(s) : pts[j] \in Ids) => rest \in Seq(Ids)
  BY <1>6, <1>7, PartProperties
<1>9. rest \in Seq(Ids)
  <2>1. ASSUME NEW j \in (u + 1) .. Len(s) PROVE pts[j] \in Ids
    <3>1. j \in 1 .. Len(s) /\ ~(j <= u)
      <4>1. Len(s) \in Nat /\ u \in Nat
        BY <1>2
      <4>. QED BY <4>1
    <3>. QED BY <1>2, <1>3, <1>6, <3>1
  <2>. QED BY <1>8, <2>1
<1>10. ASSUME NEW i \in 1 .. (Len(s) - u) PROVE rest[i] = s[u + i].point
  <2>1. (u + 1) + i - 1 = u + i /\ u + i \in 1 .. Len(s)
    <3>1. Len(s) \in Nat /\ u \in Nat
      BY <1>2
    <3>. QED BY <3>1
  <2>. QED BY <1>6, <1>8, <2>1
<1>11. PointsInProgress(t) = rest \o st
  BY <1>5 DEF PointsInProgress, Ongoing, s, pts
<1>. HIDE DEF rest, st
<1>12. /\ rest \o st \in Seq(Ids) /\ Len(rest \o st) = Len(rest) + Len(st)
       /\ \A i \in 1 .. Len(rest) : (rest \o st)[i] = rest[i]
       /\ \A j \in 1 .. Len(st) : (rest \o st)[Len(rest) + j] = st[j]
  BY <1>4, <1>9, ConcatProperties
<1>13. /\ Len(rest \o st) = (Len(s) - u) + Len(st)
       /\ \A i \in 1 .. (Len(s) - u) : (rest \o st)[i] = s[u + i].point
       /\ \A j \in 1 .. Len(st) : (rest \o st)[(Len(s) - u) + j] = st[j]
  BY <1>8, <1>10, <1>12
<1>. QED BY <1>4, <1>11, <1>12, <1>13 DEF s, st

LEMMA StackInvMirrors == StackInv => StackMirrorsCalls
<1>. SUFFICES ASSUME StackInv, Sound, NEW t \in Threads, local[t] # None
              PROVE  /\ SubSeq(local[t].trace_stack, 3, Len(local[t].trace_stack))
                          = PointsInProgress(t)
                     /\ Len(local[t].name) = Len(PointsInProgress(t))
  BY DEF StackMirrorsCalls, Sound
<1>. DEFINE T == local[t].trace_stack
            s == calls[t]
            st == Ongoing(statement[t])
            P == PointsInProgress(t)
            R == SubSeq(T, 3, Len(T))
<1>1. MirrorInv /\ CallInv
  BY DEF StackInv
<1>2. PICK u \in 0 .. Len(s) : Split(local[t], s, u) /\ Mirrors(local[t], s, statement[t], u)
  BY <1>1, MirrorFacts
<1>3. /\ T \in Seq(Ids) /\ Len(T) \in Nat /\ Len(local[t].name) \in Nat
      /\ Len(T) >= 2
  BY <1>1, CallFacts, StackOfProfiler DEF ProfilerOK
<1>4. Len(s) \in Nat /\ u \in Nat /\ u <= Len(s)
  BY <1>1, <1>2, CallFacts, SplitFacts
<1>5. /\ P \in Seq(Ids) /\ Len(P) = (Len(s) - u) + Len(st)
      /\ st \in Seq(Ids)
      /\ \A i \in 1 .. (Len(s) - u) : P[i] = s[u + i].point
      /\ \A j \in 1 .. Len(st) : P[(Len(s) - u) + j] = st[j]
  BY <1>1, <1>2, PointsOf
<1>6. /\ Len(T) = 2 + (Len(s) - u) + Len(st) /\ Len(local[t].name) + 2 = Len(T)
      /\ \A i \in (u + 1) .. Len(s) : T[2 + i - u] = s[i].point
      /\ \A j \in DOMAIN st : T[2 + (Len(s) - u) + j] = st[j]
  BY <1>2 DEF Mirrors
<1>. HIDE DEF T, s, st, P
<1>7. Len(st) \in Nat /\ DOMAIN st = 1 .. Len(st)
  BY <1>5
<1>8. Len(T) = 2 + (Len(s) - u) + Len(st) /\ Len(local[t].name) + 2 = Len(T)
  BY <1>6
<1>9. /\ R \in Seq(Ids) /\ Len(R) = Len(T) + 1 - 3
      /\ \A i \in 1 .. (Len(T) + 1 - 3) : R[i] = T[3 + i - 1]
  <2>1. 3 \in 1 .. Len(T) + 1
    BY <1>3
  <2>2. \A j \in 3 .. Len(T) : T[j] \in Ids
    BY <1>3
  <2>. QED BY <1>3, <2>1, <2>2, PartProperties
<1>10. Len(R) = Len(P) /\ Len(local[t].name) = Len(P)
  <2>1. Len(P) = (Len(s) - u) + Len(st)
    BY <1>5
  <2>2. Len(R) = Len(T) + 1 - 3
    BY <1>9
  <2>3. Len(st) \in Nat /\ Len(local[t].name) \in Nat
    BY <1>3, <1>7
  <2>. QED BY <1>4, <1>8, <2>1, <2>2, <2>3
<1>11. ASSUME NEW i \in 1 .. Len(R) PROVE R[i] = P[i]
  <2>1. i \in Nat /\ i >= 1 /\ i <= (Len(s) - u) + Len(st) /\ R[i] = T[2 + i]
    <3>1. Len(R) = Len(T) + 1 - 3
      BY <1>9
    <3>2. i \in 1 .. (Len(T) + 1 - 3)
      BY <3>1
    <3>3. 3 + i - 1 = 2 + i
      OBVIOUS
    <3>4. i \in Nat /\ i >= 1 /\ i <= (Len(s) - u) + Len(st)
      BY <1>3, <1>4, <1>7, <1>8, <3>2
    <3>. QED BY <1>9, <3>2, <3>3, <3>4
  <2>2. CASE i <= Len(s) - u
    <3>1. /\ i \in 1 .. (Len(s) - u) /\ u + i \in (u + 1) .. Len(s)
          /\ 2 + (u + i) - u = 2 + i
      BY <1>4, <2>1, <2>2
    <3>. QED BY <1>5, <1>6, <2>1, <3>1
  <2>3. CASE ~(i <= Len(s) - u)
    <3>. DEFINE j == i - (Len(s) - u)
    <3>1. j \in 1 .. Len(st) /\ (Len(s) - u) + j = i /\ 2 + (Len(s) - u) + j = 2 + i
      BY <1>4, <1>7, <2>1, <2>3
    <3>. QED BY <1>5, <1>6, <1>7, <2>1, <3>1
  <2>. QED BY <2>2, <2>3
<1>12. R = P
  BY <1>5, <1>9, <1>10, <1>11, SameSequence
<1>. QED BY <1>10, <1>12 DEF T, P

(* While no statement was stopped too often or too rarely, the two stacks  *)
(* of a thread are exactly its calls in progress and its statement, in any *)
(* program whose notifier does not raise, that has no send() left by an    *)
(* exception and no middleware inside another.                             *)
THEOREM StacksMirrorTheCalls ==
  ASSUME Plain
  PROVE  DbSpec => []StackMirrorsCalls
BY StackInvInit, StackInvNext, StackInvMirrors, PTL DEF DbSpec

-----------------------------------------------------------------------------
(* The two records of a point.  The collector has one record of each point *)
(* that is open, its start, and two of each point that no stack has any    *)
(* more.  An error may have stopped points before their calls end, so the  *)
(* stacks need not have all points in progress, but they have no other.    *)

RecordsIn(c, id, phase) == {i \in DOMAIN c : c[i].trace_id = id /\ c[i].phase = phase}
Begun(c, id) ==
  \E i \in DOMAIN c : RecordsIn(c, id, "start") = {i} /\ RecordsIn(c, id, "stop") = {}
Over(c, id) ==
  \E i, j \in DOMAIN c : /\ i < j
                         /\ RecordsIn(c, id, "start") = {i}
                         /\ RecordsIn(c, id, "stop") = {j}

Accounts(c, O, n) ==
  /\ c \in Seq(Notifications)
  /\ \A id \in O : id \in Int /\ id < n /\ Begun(c, id)
  /\ \A i \in DOMAIN c : /\ c[i].trace_id \in Int /\ c[i].trace_id < n
                         /\ c[i].trace_id \notin O => Over(c, c[i].trace_id)

LEMMA RecordsConcat ==
  ASSUME NEW c \in Seq(Notifications), NEW r \in Seq(Notifications), NEW id, NEW phase
  PROVE  RecordsIn(c \o r, id, phase)
           = RecordsIn(c, id, phase) \cup {Len(c) + j : j \in RecordsIn(r, id, phase)}
<1>1. /\ Len(c) \in Nat /\ Len(r) \in Nat
      /\ DOMAIN c = 1 .. Len(c) /\ DOMAIN r = 1 .. Len(r)
  OBVIOUS
<1>2. /\ c \o r \in Seq(Notifications) /\ Len(c \o r) = Len(c) + Len(r)
      /\ \A i \in 1 .. Len(c) : (c \o r)[i] = c[i]
      /\ \A j \in 1 .. Len(r) : (c \o r)[Len(c) + j] = r[j]
  BY ConcatProperties
<1>. DEFINE d == c \o r
<1>3. DOMAIN d = 1 .. (Len(c) + Len(r))
  BY <1>2
<1>. HIDE DEF d
<1>4. ASSUME NEW i \in RecordsIn(d, id, phase)
      PROVE  i \in RecordsIn(c, id, phase) \cup {Len(c) + j : j \in RecordsIn(r, id, phase)}
  <2>1. i \in 1 .. (Len(c) + Len(r)) /\ d[i].trace_id = id /\ d[i].phase = phase
    BY <1>3 DEF RecordsIn
  <2>2. CASE i <= Len(c)
    <3>1. i \in 1 .. Len(c)
      BY <1>1, <2>1, <2>2
    <3>. QED BY <1>1, <1>2, <2>1, <3>1 DEF RecordsIn, d
  <2>3. CASE ~(i <= Len(c))
    <3>1. i - Len(c) \in 1 .. Len(r) /\ Len(c) + (i - Len(c)) = i
      BY <1>1, <2>1, <2>3
    <3>2. i - Len(c) \in RecordsIn(r, id, phase)
      BY <1>1, <1>2, <2>1, <3>1 DEF RecordsIn, d
    <3>. QED BY <3>1, <3>2
  <2>. QED BY <2>2, <2>3
<1>5. ASSUME NEW i \in RecordsIn(c, id, phase) PROVE i \in RecordsIn(d, id, phase)
  <2>1. i \in 1 .. Len(c) /\ i \in 1 .. (Len(c) + Len(r))
    BY <1>1 DEF RecordsIn
  <2>. QED BY <1>2, <1>3, <2>1 DEF RecordsIn, d
<1>6. ASSUME NEW j \in RecordsIn(r, id, phase) PROVE Len(c) + j \in RecordsIn(d, id, phase)
  <2>1. j \in 1 .. Len(r) /\ Len(c) + j \in 1 .. (Len(c) + Len(r))
    BY <1>1 DEF RecordsIn
  <2>. QED BY <1>2, <1>3, <2>1 DEF RecordsIn, d
<1>. QED BY <1>4, <1>5, <1>6 DEF d

(* What was recorded stays when nothing is added about it.                 *)
LEMMA OthersRecords ==
  ASSUME NEW c \in Seq(Notifications), NEW r \in Seq(Notifications), NEW id,
         \A j \in DOMAIN r : r[j].trace_id # id
  PROVE  /\ \A phase : RecordsIn(c \o r, id, phase) = RecordsIn(c, id, phase)
         /\ Begun(c, id) => Begun(c \o r, id)
         /\ Over(c, id) => Over(c \o r, id)
<1>1. \A phase : RecordsIn(r, id, phase) = {}
  BY DEF RecordsIn
<1>2. ASSUME NEW phase PROVE RecordsIn(c \o r, id, phase) = RecordsIn(c, id, phase)
  <2>1. {Len(c) + j : j \in RecordsIn(r, id, phase)} = {}
    BY <1>1
  <2>2. RecordsIn(c \o r, id, phase)
          = RecordsIn(c, id, phase) \cup {Len(c) + j : j \in RecordsIn(r, id, phase)}
    BY RecordsConcat
  <2>. QED BY <2>1, <2>2
<1>3. DOMAIN c \subseteq DOMAIN (c \o r)
  <2>1. /\ Len(c) \in Nat /\ Len(r) \in Nat /\ c \o r \in Seq(Notifications)
        /\ Len(c \o r) = Len(c) + Len(r)
    BY ConcatProperties
  <2>2. DOMAIN c = 1 .. Len(c) /\ DOMAIN (c \o r) = 1 .. Len(c \o r)
    BY <2>1
  <2>. QED BY <2>1, <2>2
<1>. QED BY <1>2, <1>3 DEF Begun, Over

LEMMA StartsAccounted ==
  ASSUME NEW c, NEW O, NEW n \in Int, Accounts(c, O, n),
         NEW r \in Seq(Notifications), NEW k \in Nat, Len(r) = k,
         \A i \in 1 .. k : r[i].trace_id = n + i - 1 /\ r[i].phase = "start"
  PROVE  Accounts(c \o r, O \cup {n + i - 1 : i \in 1 .. k}, n + k)
<1>. DEFINE d == c \o r
            Q == O \cup {n + i - 1 : i \in 1 .. k}
<1>1. /\ c \in Seq(Notifications) /\ Len(c) \in Nat /\ DOMAIN c = 1 .. Len(c)
      /\ DOMAIN r = 1 .. k
  BY DEF Accounts
<1>2. /\ d \in Seq(Notifications) /\ Len(d) = Len(c) + k
      /\ \A i \in 1 .. Len(c) : d[i] = c[i]
      /\ \A j \in 1 .. k : d[Len(c) + j] = r[j]
  <2>1. /\ c \o r \in Seq(Notifications) /\ Len(c \o r) = Len(c) + Len(r)
        /\ \A i \in 1 .. Len(c) : (c \o r)[i] = c[i]
        /\ \A j \in 1 .. Len(r) : (c \o r)[Len(c) + j] = r[j]
    BY <1>1, ConcatProperties
  <2>. QED BY <2>1
<1>3. DOMAIN d = 1 .. (Len(c) + k)
  BY <1>2
<1>4. ASSUME NEW m \in 1 .. k PROVE Begun(d, n + m - 1) /\ n + m - 1 \in Int /\ n + m - 1 < n + k
  <2>1. RecordsIn(c, n + m - 1, "start") = {} /\ RecordsIn(c, n + m - 1, "stop") = {}
    <3>1. \A i \in DOMAIN c : c[i].trace_id \in Int /\ c[i].trace_id < n
      BY DEF Accounts
    <3>2. \A x \in Int : x < n => x # n + m - 1
      OBVIOUS
    <3>. QED BY <3>1, <3>2 DEF RecordsIn
  <2>2. RecordsIn(r, n + m - 1, "stop") = {}
    BY <1>1 DEF RecordsIn
  <2>3. RecordsIn(r, n + m - 1, "start") = {m}
    <3>1. \A i \in 1 .. k : n + i - 1 = n + m - 1 <=> i = m
      OBVIOUS
    <3>. QED BY <1>1, <3>1 DEF RecordsIn
  <2>. DEFINE id == n + m - 1
  <2>4. /\ RecordsIn(d, id, "start")
             = RecordsIn(c, id, "start") \cup {Len(c) + j : j \in RecordsIn(r, id, "start")}
        /\ RecordsIn(d, id, "stop")
             = RecordsIn(c, id, "stop") \cup {Len(c) + j : j \in RecordsIn(r, id, "stop")}
    <3>. HIDE DEF id
    <3>. QED BY <1>1, RecordsConcat
  <2>5. /\ {Len(c) + j : j \in RecordsIn(r, id, "start")} = {Len(c) + m}
        /\ {Len(c) + j : j \in RecordsIn(r, id, "stop")} = {}
    BY <2>2, <2>3
  <2>6. RecordsIn(d, id, "start") = {Len(c) + m} /\ RecordsIn(d, id, "stop") = {}
    BY <2>1, <2>4, <2>5
  <2>7. Len(c) + m \in DOMAIN d
    BY <1>1, <1>3
  <2>8. Begun(d, id)
    <3>. HIDE DEF d, id
    <3>. QED BY <2>6, <2>7 DEF Begun
  <2>9. id \in Int /\ id < n + k
    OBVIOUS
  <2>. QED BY <2>8, <2>9
<1>. HIDE DEF d
<1>5. ASSUME NEW id \in Int, id < n
      PROVE  /\ Begun(c, id) => Begun(d, id)
             /\ Over(c, id) => Over(d, id)
             /\ id < n + k
  <2>1. \A j \in DOMAIN r : r[j].trace_id # id
    <3>1. \A j \in 1 .. k : id # n + j - 1
      BY <1>5
    <3>. QED BY <1>1, <3>1
  <2>2. id < n + k
    BY <1>5
  <2>. QED BY <1>1, <2>1, <2>2, OthersRecords DEF d
<1>6. \A id \in Q : id \in Int /\ id < n + k /\ Begun(d, id)
  <2>1. \A id \in O : id \in Int /\ id < n /\ Begun(c, id)
    BY DEF Accounts
  <2>. QED BY <1>4, <1>5, <2>1
<1>7. ASSUME NEW i \in DOMAIN d
      PROVE  /\ d[i].trace_id \in Int /\ d[i].trace_id < n + k
             /\ d[i].trace_id \notin Q => Over(d, d[i].trace_id)
  <2>1. CASE i <= Len(c)
    <3>1. i \in DOMAIN c /\ d[i] = c[i]
      BY <1>1, <1>2, <1>3, <2>1
    <3>2. /\ c[i].trace_id \in Int /\ c[i].trace_id < n
          /\ c[i].trace_id \notin O => Over(c, c[i].trace_id)
      BY <3>1 DEF Accounts
    <3>. QED BY <1>5, <3>1, <3>2
  <2>2. CASE ~(i <= Len(c))
    <3>1. i - Len(c) \in 1 .. k /\ Len(c) + (i - Len(c)) = i
      BY <1>1, <1>3, <2>2
    <3>2. d[i].trace_id = n + (i - Len(c)) - 1
      BY <1>2, <3>1
    <3>3. d[i].trace_id \in Q
      BY <3>1, <3>2
    <3>. QED BY <1>6, <3>3
  <2>. QED BY <2>1, <2>2
<1>. QED BY <1>2, <1>6, <1>7 DEF Accounts, d

LEMMA StopsAccounted ==
  ASSUME NEW c, NEW O, NEW n \in Int, Accounts(c, O, n),
         NEW r \in Seq(Notifications), NEW m \in Nat, Len(r) = m,
         \A i \in 1 .. m : r[i].trace_id \in O /\ r[i].phase = "stop",
         \A i, j \in 1 .. m : r[i].trace_id = r[j].trace_id => i = j
  PROVE  Accounts(c \o r, O \ {r[i].trace_id : i \in 1 .. m}, n)
<1>. DEFINE d == c \o r
            Q == O \ {r[i].trace_id : i \in 1 .. m}
<1>1. /\ c \in Seq(Notifications) /\ Len(c) \in Nat /\ DOMAIN c = 1 .. Len(c)
      /\ DOMAIN r = 1 .. m
  BY DEF Accounts
<1>2. /\ d \in Seq(Notifications) /\ Len(d) = Len(c) + m
      /\ \A i \in 1 .. Len(c) : d[i] = c[i]
      /\ \A j \in 1 .. m : d[Len(c) + j] = r[j]
  <2>1. /\ c \o r \in Seq(Notifications) /\ Len(c \o r) = Len(c) + Len(r)
        /\ \A i \in 1 .. Len(c) : (c \o r)[i] = c[i]
        /\ \A j \in 1 .. Len(r) : (c \o r)[Len(c) + j] = r[j]
    <3>. HIDE DEF d
    <3>. QED BY ONLY <1>1, r \in Seq(Notifications), ConcatProperties
  <2>. QED BY <2>1
<1>3. DOMAIN d = 1 .. (Len(c) + m)
  BY <1>2
<1>4. \A id \in O : id \in Int /\ id < n /\ Begun(c, id)
  BY DEF Accounts
<1>5. ASSUME NEW j \in 1 .. m PROVE Over(d, r[j].trace_id)
  <2>. DEFINE id == r[j].trace_id
  <2>1. PICK i \in DOMAIN c : RecordsIn(c, id, "start") = {i} /\ RecordsIn(c, id, "stop") = {}
    BY <1>4 DEF Begun
  <2>2. RecordsIn(r, id, "start") = {} /\ RecordsIn(r, id, "stop") = {j}
    BY <1>1 DEF RecordsIn
  <2>. HIDE DEF id
  <2>5. /\ RecordsIn(d, id, "start")
             = RecordsIn(c, id, "start") \cup {Len(c) + x : x \in RecordsIn(r, id, "start")}
        /\ RecordsIn(d, id, "stop")
             = RecordsIn(c, id, "stop") \cup {Len(c) + x : x \in RecordsIn(r, id, "stop")}
    BY <1>1, RecordsConcat
  <2>6. /\ {Len(c) + x : x \in RecordsIn(r, id, "start")} = {}
        /\ {Len(c) + x : x \in RecordsIn(r, id, "stop")} = {Len(c) + j}
    BY ONLY <2>2
  <2>3. RecordsIn(d, id, "start") = {i} /\ RecordsIn(d, id, "stop") = {Len(c) + j}
    BY <2>1, <2>5, <2>6
  <2>4. i \in DOMAIN d /\ Len(c) + j \in DOMAIN d /\ i < Len(c) + j
    BY <1>1, <1>3
  <2>. QED BY <2>3, <2>4 DEF Over, id
<1>. HIDE DEF d
<1>6. ASSUME NEW id \in Q PROVE id \in Int /\ id < n /\ Begun(d, id)
  <2>1. \A j \in DOMAIN r : r[j].trace_id # id
    BY <1>1
  <2>. QED BY <1>1, <1>4, <2>1, OthersRecords DEF d
<1>7. ASSUME NEW i \in DOMAIN d
      PROVE  /\ d[i].trace_id \in Int /\ d[i].trace_id < n
             /\ d[i].trace_id \notin Q => Over(d, d[i].trace_id)
  <2>1. CASE i <= Len(c)
    <3>1. i \in DOMAIN c /\ d[i] = c[i]
      BY <1>1, <1>2, <1>3, <2>1
    <3>2. /\ c[i].trace_id \in Int /\ c[i].trace_id < n
          /\ c[i].trace_id \notin O => Over(c, c[i].trace_id)
      BY <3>1 DEF Accounts
    <3>3. ASSUME c[i].trace_id \notin O PROVE Over(d, c[i].trace_id)
      <4>1. \A j \in DOMAIN r : r[j].trace_id # c[i].trace_id
        BY <1>1, <3>3
      <4>. QED BY <1>1, <3>2, <3>3, <4>1, OthersRecords DEF d
    <3>4. ASSUME c[i].trace_id \in O \ Q PROVE Over(d, c[i].trace_id)
      BY <1>5, <3>4
    <3>. QED BY <3>1, <3>2, <3>3, <3>4
  <2>2. CASE ~(i <= Len(c))
    <3>1. i - Len(c) \in 1 .. m /\ Len(c) + (i - Len(c)) = i
      BY <1>1, <1>3, <2>2
    <3>2. d[i] = r[i - Len(c)]
      BY <1>2, <3>1
    <3>. QED BY <1>4, <1>5, <3>1, <3>2
  <2>. QED BY <2>1, <2>2
<1>. QED BY <1>2, <1>6, <1>7 DEF Accounts, d

(* The open points of a stack, and how they change with it.                *)
OpenOn(s) == {s[i] : i \in 3 .. Len(s)}
StackGrows(s, n) ==
  /\ \A i \in 3 .. Len(s) : s[i] \in Int /\ s[i] < n
  /\ \A i, j \in 3 .. Len(s) : i < j => s[i] < s[j]

(* The k ids from n on.                                                    *)
NewIds(n, k) == {n + i - 1 : i \in 1 .. k}

(* The stack r is s with the k ids from n on above.                        *)
Longer(r, s, n, k) ==
  /\ Len(s) \in Nat /\ Len(s) >= 2 /\ Len(r) = Len(s) + k
  /\ \A i \in 3 .. Len(s) : r[i] = s[i]
  /\ \A j \in 1 .. k : r[Len(s) + j] = n + j - 1

LEMMA GrownStack ==
  ASSUME NEW s, NEW r, NEW n \in Int, NEW k \in Nat, StackGrows(s, n), Longer(r, s, n, k)
  PROVE  StackGrows(r, n + k) /\ OpenOn(r) = OpenOn(s) \cup NewIds(n, k)
<1>. DEFINE a == Len(s)
<1>1. a \in Nat /\ a >= 2 /\ Len(r) = a + k
  BY DEF Longer
<1>2. \A i \in 3 .. a : r[i] = s[i] /\ s[i] \in Int /\ s[i] < n
  BY DEF StackGrows, Longer
<1>3. \A i, j \in 3 .. a : i < j => s[i] < s[j]
  BY DEF StackGrows
<1>4. \A j \in 1 .. k : r[a + j] = n + j - 1
  BY DEF Longer
<1>. HIDE DEF a
<1>5. ASSUME NEW i \in 3 .. a + k
      PROVE  \/ i \in 3 .. a /\ r[i] = s[i]
             \/ i - a \in 1 .. k /\ i > a /\ r[i] = n + (i - a) - 1
  <2>1. CASE i <= a
    <3>1. i \in 3 .. a
      BY <1>1, <2>1
    <3>. QED BY <1>2, <3>1
  <2>2. CASE ~(i <= a)
    <3>1. i - a \in 1 .. k /\ a + (i - a) = i /\ i > a
      BY <1>1, <2>2
    <3>2. r[a + (i - a)] = n + (i - a) - 1
      BY <1>4, <3>1
    <3>. QED BY <3>1, <3>2
  <2>. QED BY <2>1, <2>2
<1>6. ASSUME NEW i \in 3 .. a + k PROVE r[i] \in Int /\ r[i] < n + k
  <2>1. CASE i \in 3 .. a /\ r[i] = s[i]
    <3>1. s[i] \in Int /\ s[i] < n
      BY <1>2, <2>1
    <3>. QED BY <2>1, <3>1
  <2>2. CASE i - a \in 1 .. k /\ r[i] = n + (i - a) - 1
    BY <2>2
  <2>. QED BY <1>5, <2>1, <2>2
<1>7. ASSUME NEW i \in 3 .. a + k, NEW j \in 3 .. a + k, i < j PROVE r[i] < r[j]
  <2>1. CASE j \in 3 .. a /\ r[j] = s[j]
    <3>1. i \in 3 .. a
      BY <1>1, <1>7, <2>1
    <3>2. s[i] < s[j]
      BY <1>3, <1>7, <2>1, <3>1
    <3>. QED BY <1>2, <2>1, <3>1, <3>2
  <2>2. CASE j - a \in 1 .. k /\ r[j] = n + (j - a) - 1
    <3>1. CASE i \in 3 .. a /\ r[i] = s[i]
      <4>1. s[i] \in Int /\ s[i] < n
        BY <1>2, <3>1
      <4>. QED BY <2>2, <3>1, <4>1
    <3>2. CASE i - a \in 1 .. k /\ r[i] = n + (i - a) - 1
      BY <1>1, <1>7, <2>2, <3>2
    <3>. QED BY <1>5, <3>1, <3>2
  <2>. QED BY <1>5, <2>1, <2>2
<1>8. ASSUME NEW i \in 3 .. a + k
      PROVE  r[i] \in OpenOn(s) \cup {n + j - 1 : j \in 1 .. k}
  BY <1>5 DEF OpenOn, a
<1>9. ASSUME NEW i \in 3 .. a PROVE s[i] \in OpenOn(r)
  <2>1. i \in 3 .. a + k
    BY <1>1
  <2>. QED BY <1>1, <1>2, <2>1 DEF OpenOn
<1>10. ASSUME NEW j \in 1 .. k PROVE n + j - 1 \in OpenOn(r)
  <2>1. a + j \in 3 .. a + k
    BY <1>1
  <2>. QED BY <1>1, <1>4, <2>1 DEF OpenOn
<1>11. OpenOn(r) = OpenOn(s) \cup {n + j - 1 : j \in 1 .. k}
  <2>1. OpenOn(s) \subseteq OpenOn(r)
    BY <1>9 DEF OpenOn, a
  <2>2. OpenOn(r) \subseteq OpenOn(s) \cup {n + j - 1 : j \in 1 .. k}
    BY <1>1, <1>8 DEF OpenOn
  <2>. QED BY <1>10, <2>1, <2>2
<1>. QED BY <1>1, <1>6, <1>7, <1>11 DEF StackGrows, NewIds

(* The stack r is s without its uppermost m ids.                           *)
Shorter(r, s, m) ==
  /\ Len(s) \in Nat /\ m <= Len(s) - 2 /\ Len(r) = Len(s) - m
  /\ \A i \in 3 .. Len(r) : r[i] = s[i]
TopIds(s, m) == {s[Len(s) - i + 1] : i \in 1 .. m}

LEMMA ShrunkStack ==
  ASSUME NEW s, NEW r, NEW n, NEW m \in Nat, StackGrows(s, n), Shorter(r, s, m)
  PROVE  /\ StackGrows(r, n)
         /\ OpenOn(r) = OpenOn(s) \ TopIds(s, m)
         /\ \A i \in 1 .. m : s[Len(s) - i + 1] \in OpenOn(s)
         /\ \A i, j \in 1 .. m : s[Len(s) - i + 1] = s[Len(s) - j + 1] => i = j
<1>. DEFINE a == Len(s)
<1>1. a \in Nat /\ m <= a - 2 /\ Len(r) = a - m
  BY DEF Shorter
<1>2. \A i \in 3 .. a : s[i] \in Int /\ s[i] < n
  BY DEF StackGrows
<1>3. \A i, j \in 3 .. a : i < j => s[i] < s[j]
  BY DEF StackGrows
<1>4. \A i \in 3 .. a - m : r[i] = s[i]
  BY <1>1 DEF Shorter
<1>. HIDE DEF a
<1>5. \A i, j \in 3 .. a : s[i] = s[j] => i = j
  <2>1. ASSUME NEW i \in 3 .. a, NEW j \in 3 .. a, s[i] = s[j] PROVE i = j
    <3>1. ~(i < j) /\ ~(j < i)
      BY <1>2, <1>3, <2>1
    <3>. QED BY <3>1
  <2>. QED BY <2>1
<1>6. 3 .. a - m \subseteq 3 .. a
  BY <1>1
<1>7. \A i \in 1 .. m : a - i + 1 \in 3 .. a /\ a - i + 1 \notin 3 .. a - m
  BY <1>1
<1>8. StackGrows(r, n)
  <2>1. \A i \in 3 .. a - m : r[i] \in Int /\ r[i] < n
    BY <1>2, <1>4, <1>6
  <2>2. \A i, j \in 3 .. a - m : i < j => r[i] < r[j]
    BY <1>3, <1>4, <1>6
  <2>. QED BY <1>1, <2>1, <2>2 DEF StackGrows
<1>9. \A i \in 1 .. m : s[a - i + 1] \in OpenOn(s)
  BY <1>7 DEF OpenOn, a
<1>10. ASSUME NEW i \in 1 .. m, NEW j \in 1 .. m, s[a - i + 1] = s[a - j + 1] PROVE i = j
  <2>1. a - i + 1 = a - j + 1
    BY <1>5, <1>7, <1>10
  <2>. QED BY <1>1, <2>1
<1>11. ASSUME NEW i \in 3 .. a, i \notin 3 .. a - m PROVE s[i] \in {s[a - j + 1] : j \in 1 .. m}
  <2>1. a - i + 1 \in 1 .. m /\ a - (a - i + 1) + 1 = i
    BY <1>1, <1>11
  <2>. QED BY <2>1
<1>12. OpenOn(r) = OpenOn(s) \ {s[a - i + 1] : i \in 1 .. m}
  <2>1. OpenOn(r) = {s[i] : i \in 3 .. a - m}
    BY <1>1, <1>4 DEF OpenOn
  <2>2. OpenOn(s) = {s[i] : i \in 3 .. a}
    BY DEF OpenOn, a
  <2>3. ASSUME NEW i \in 3 .. a - m PROVE s[i] \notin {s[a - j + 1] : j \in 1 .. m}
    BY <1>5, <1>6, <1>7
  <2>. QED BY <1>6, <1>11, <2>1, <2>2, <2>3
<1>. QED BY <1>8, <1>9, <1>10, <1>12 DEF a, TopIds

(* A thread whose calls and statement account for its stack.               *)
PointsIn(s) == {s[i].point : i \in DOMAIN s} \ {None}
PointsGrow(s, n) ==
  /\ \A x \in PointsIn(s) : x \in Int /\ x < n
  /\ \A i, j \in DOMAIN s : i < j /\ s[i].point # None /\ s[j].point # None =>
       s[i].point < s[j].point

Covered(T, s, ids) ==
  /\ Len(T) >= 2 + Len(ids)
  /\ \A i \in 3 .. (Len(T) - Len(ids)) : T[i] \in PointsIn(s)
  /\ \A j \in 1 .. Len(ids) : T[Len(T) - Len(ids) + j] = ids[j]

Tracked(p, s, st, n) ==
  /\ PointsGrow(s, n)
  /\ p # None => /\ Len(p.trace_stack) = Len(p.name) + 2
                 /\ StackGrows(p.trace_stack, n)
                 /\ Covered(p.trace_stack, s, Ongoing(st))

OpenIds(p) == IF p = None THEN {} ELSE OpenOn(p.trace_stack)
OpenNow == UNION {OpenIds(local[t]) : t \in Threads}

TrackInv ==
  ~leaked => /\ Accounts(collector, OpenNow, next_id)
             /\ \A t \in Threads : Tracked(local[t], calls[t], statement[t], next_id)
             /\ \A t, u \in Threads : t # u => OpenIds(local[t]) \cap OpenIds(local[u]) = {}

LEMMA TrackedLater ==
  ASSUME NEW p, NEW s, NEW st, NEW n \in Int, NEW m \in Int, n <= m, Tracked(p, s, st, n)
  PROVE  Tracked(p, s, st, m)
<1>1. \A x \in Int : x < n => x < m
  OBVIOUS
<1>. QED BY <1>1 DEF Tracked, PointsGrow, StackGrows

LEMMA OpenIdsOld ==
  ASSUME NEW p, NEW s, NEW st, NEW n, Tracked(p, s, st, n)
  PROVE  \A x \in OpenIds(p) : x \in Int /\ x < n
<1>1. CASE p = None
  BY <1>1 DEF OpenIds
<1>2. CASE p # None
  BY <1>2 DEF OpenIds, OpenOn, Tracked, StackGrows
<1>. QED BY <1>1, <1>2

(* A step of one thread, which keeps the ids on its stack or adds new ones.*)
LEMMA TrackUpdate ==
  ASSUME CallInv, MirrorInv, TrackInv, ~leaked, NEW t \in Threads, NEW p, NEW s, NEW st,
         local' = [local EXCEPT ![t] = p], calls' = [calls EXCEPT ![t] = s],
         statement' = [statement EXCEPT ![t] = st],
         next_id' \in Int, next_id <= next_id', Tracked(p, s, st, next_id'),
         \A x \in OpenIds(p) : x \in OpenIds(local[t]) \/ (x \in Int /\ x >= next_id),
         Accounts(collector', (OpenNow \ OpenIds(local[t])) \cup OpenIds(p), next_id')
  PROVE  TrackInv'
<1>1. /\ \A u \in Threads : Tracked(local[u], calls[u], statement[u], next_id)
      /\ \A u, v \in Threads : u # v => OpenIds(local[u]) \cap OpenIds(local[v]) = {}
  BY DEF TrackInv
<1>2. next_id \in Int
  BY DEF CallInv
<1>3. \A u \in Threads : /\ local'[u] = IF u = t THEN p ELSE local[u]
                         /\ calls'[u] = IF u = t THEN s ELSE calls[u]
  BY DEF CallInv
<1>4. \A u \in Threads : statement'[u] = IF u = t THEN st ELSE statement[u]
  BY DEF MirrorInv
<1>5. ASSUME NEW u \in Threads PROVE Tracked(local'[u], calls'[u], statement'[u], next_id')
  <2>1. CASE u = t
    BY <1>3, <1>4, <2>1
  <2>2. CASE u # t
    BY <1>1, <1>2, <1>3, <1>4, <2>2, TrackedLater
  <2>. QED BY <2>1, <2>2
<1>6. ASSUME NEW u \in Threads, u # t PROVE OpenIds(local[u]) \cap OpenIds(p) = {}
  <2>1. \A x \in OpenIds(local[u]) : x \in Int /\ x < next_id
    BY <1>1, OpenIdsOld
  <2>2. \A x \in OpenIds(local[u]) : ~(x \in Int /\ x >= next_id)
    BY <1>2, <2>1
  <2>3. OpenIds(local[u]) \cap OpenIds(local[t]) = {}
    BY <1>1, <1>6
  <2>. QED BY <2>2, <2>3
<1>7. ASSUME NEW u \in Threads, NEW v \in Threads, u # v
      PROVE  OpenIds(local'[u]) \cap OpenIds(local'[v]) = {}
  <2>1. CASE u = t
    BY <1>3, <1>6, <1>7, <2>1
  <2>2. CASE v = t
    BY <1>3, <1>6, <1>7, <2>2
  <2>3. CASE u # t /\ v # t
    BY <1>1, <1>3, <1>7, <2>3
  <2>. QED BY <2>1, <2>2, <2>3
<1>8. OpenNow' = (OpenNow \ OpenIds(local[t])) \cup OpenIds(p)
  <2>1. OpenNow' = UNION {OpenIds(local'[u]) : u \in Threads}
    BY DEF OpenNow, OpenIds
  <2>2. ASSUME NEW x \in OpenNow' PROVE x \in (OpenNow \ OpenIds(local[t])) \cup OpenIds(p)
    <3>1. PICK u \in Threads : x \in OpenIds(local'[u])
      BY <2>1, <2>2
    <3>2. CASE u = t
      BY <1>3, <3>1, <3>2
    <3>3. CASE u # t
      <4>1. x \in OpenIds(local[u]) /\ x \notin OpenIds(local[t])
        BY <1>1, <1>3, <3>1, <3>3
      <4>. QED BY <4>1 DEF OpenNow
    <3>. QED BY <3>2, <3>3
  <2>3. ASSUME NEW x \in (OpenNow \ OpenIds(local[t])) \cup OpenIds(p) PROVE x \in OpenNow'
    <3>1. CASE x \in OpenIds(p)
      BY <1>3, <2>1, <3>1
    <3>2. CASE x \in OpenNow \ OpenIds(local[t])
      <4>1. PICK u \in Threads : x \in OpenIds(local[u])
        BY <3>2 DEF OpenNow
      <4>2. u # t
        BY <3>2, <4>1
      <4>. QED BY <1>3, <2>1, <4>1, <4>2
    <3>. QED BY <2>3, <3>1, <3>2
  <2>. QED BY <2>2, <2>3
<1>9. \A u \in Threads : OpenIds(local[u])' = OpenIds(local'[u])
  BY DEF OpenIds
<1>10. Accounts(collector, OpenNow, next_id)'
  BY <1>8 DEF Accounts, Begun, Over, RecordsIn
<1>. QED BY <1>5, <1>7, <1>9, <1>10 DEF TrackInv, Tracked, PointsGrow, StackGrows, Covered

LEMMA TrackStarted ==
  ASSUME CallInv, MirrorInv, TrackInv, ~leaked, NEW t \in Threads, NEW p, NEW s, NEW st,
         local' = [local EXCEPT ![t] = p], calls' = [calls EXCEPT ![t] = s],
         statement' = [statement EXCEPT ![t] = st],
         NEW k \in Nat, NEW r \in Seq(Notifications), Len(r) = k,
         \A i \in 1 .. k : r[i].trace_id = next_id + i - 1 /\ r[i].phase = "start",
         collector' = collector \o r, next_id' = next_id + k,
         Tracked(p, s, st, next_id + k),
         OpenIds(p) = OpenIds(local[t]) \cup NewIds(next_id, k)
  PROVE  TrackInv'
<1>. DEFINE new == NewIds(next_id, k)
<1>1. next_id \in Int
  BY DEF CallInv
<1>2. Accounts(collector, OpenNow, next_id)
  BY DEF TrackInv
<1>3. Accounts(collector \o r, OpenNow \cup new, next_id + k)
  BY <1>1, <1>2, StartsAccounted DEF NewIds
<1>4. OpenIds(local[t]) \subseteq OpenNow
  BY DEF OpenNow
<1>5. /\ next_id + k \in Int /\ next_id <= next_id + k
      /\ \A x \in new : x \in Int /\ x >= next_id
  BY <1>1 DEF NewIds
<1>6. (OpenNow \ OpenIds(local[t])) \cup OpenIds(p) = OpenNow \cup new
  BY <1>4
<1>. HIDE DEF new
<1>7. \A x \in OpenIds(p) : x \in OpenIds(local[t]) \/ (x \in Int /\ x >= next_id)
  BY <1>5 DEF new
<1>8. Accounts(collector', (OpenNow \ OpenIds(local[t])) \cup OpenIds(p), next_id')
  BY <1>3, <1>6
<1>. QED BY <1>5, <1>7, <1>8, TrackUpdate

RecordIds(r, m) == {r[i].trace_id : i \in 1 .. m}

LEMMA TrackStopped ==
  ASSUME CallInv, MirrorInv, TrackInv, ~leaked, NEW t \in Threads, NEW p, NEW s, NEW st,
         local' = [local EXCEPT ![t] = p], calls' = [calls EXCEPT ![t] = s],
         statement' = [statement EXCEPT ![t] = st],
         NEW m \in Nat, NEW r \in Seq(Notifications), Len(r) = m,
         \A i \in 1 .. m : r[i].trace_id \in OpenIds(local[t]) /\ r[i].phase = "stop",
         \A i, j \in 1 .. m : r[i].trace_id = r[j].trace_id => i = j,
         collector' = collector \o r, next_id' = next_id,
         Tracked(p, s, st, next_id),
         OpenIds(p) = OpenIds(local[t]) \ RecordIds(r, m)
  PROVE  TrackInv'
<1>. DEFINE gone == RecordIds(r, m)
<1>1. next_id \in Int
  BY DEF CallInv
<1>2. Accounts(collector, OpenNow, next_id)
  BY DEF TrackInv
<1>3. OpenIds(local[t]) \subseteq OpenNow
  BY DEF OpenNow
<1>4. Accounts(collector \o r, OpenNow \ gone, next_id)
  BY <1>1, <1>2, <1>3, StopsAccounted DEF RecordIds
<1>5. (OpenNow \ OpenIds(local[t])) \cup OpenIds(p) = OpenNow \ gone
  <2>1. gone \subseteq OpenIds(local[t])
    BY DEF RecordIds
  <2>. QED BY <1>3, <2>1
<1>. HIDE DEF gone
<1>6. next_id \in Int /\ next_id <= next_id
  BY <1>1
<1>7. \A x \in OpenIds(p) : x \in OpenIds(local[t])
  OBVIOUS
<1>8. Accounts(collector', (OpenNow \ OpenIds(local[t])) \cup OpenIds(p), next_id')
  BY <1>4, <1>5
<1>. QED BY <1>6, <1>7, <1>8, TrackUpdate

(* Calls that begin and end.                                               *)
LEMMA PointsAppended ==
  ASSUME NEW s \in Seq(Calls), NEW n \in Int, NEW m \in Int, n <= m, PointsGrow(s, n),
         NEW f \in Calls, f.point = None \/ (f.point = n /\ n < m)
  PROVE  /\ PointsGrow(Append(s, f), m)
         /\ PointsIn(s) \subseteq PointsIn(Append(s, f))
         /\ f.point # None => f.point \in PointsIn(Append(s, f))
<1>. DEFINE r == Append(s, f)
            a == Len(s)
<1>1. /\ a \in Nat /\ DOMAIN s = 1 .. a /\ DOMAIN r = 1 .. (a + 1)
      /\ \A i \in 1 .. a : r[i] = s[i]
      /\ r[a + 1] = f
  OBVIOUS
<1>. HIDE DEF r, a
<1>2. 1 .. a \subseteq 1 .. (a + 1) /\ a + 1 \in 1 .. (a + 1)
  BY <1>1
<1>3. \A i \in 1 .. (a + 1) : i \in 1 .. a \/ i = a + 1
  BY <1>1
<1>4. PointsIn(r) = PointsIn(s) \cup ({f.point} \ {None})
  <2>1. {r[i].point : i \in 1 .. (a + 1)} = {s[i].point : i \in 1 .. a} \cup {f.point}
    BY <1>1, <1>2, <1>3
  <2>. QED BY <1>1, <2>1 DEF PointsIn
<1>5. \A x \in PointsIn(s) : x \in Int /\ x < n
  BY DEF PointsGrow
<1>6. \A x \in PointsIn(r) : x \in Int /\ x < m
  <2>1. \A x \in Int : x < n => x < m
    OBVIOUS
  <2>. QED BY <1>4, <1>5, <2>1
<1>7. ASSUME NEW i \in 1 .. (a + 1), NEW j \in 1 .. (a + 1), i < j,
             r[i].point # None, r[j].point # None
      PROVE  r[i].point < r[j].point
  <2>1. i \in 1 .. a
    BY <1>1, <1>7
  <2>2. CASE j \in 1 .. a
    BY <1>1, <1>7, <2>1, <2>2 DEF PointsGrow
  <2>3. CASE j = a + 1
    <3>1. r[j].point = n /\ r[i] = s[i]
      BY <1>1, <1>7, <2>1, <2>3
    <3>2. s[i].point \in PointsIn(s)
      BY <1>1, <1>7, <2>1 DEF PointsIn
    <3>. QED BY <1>5, <3>1, <3>2
  <2>. QED BY <1>3, <2>2, <2>3
<1>. QED BY <1>1, <1>4, <1>6, <1>7 DEF PointsGrow, r

LEMMA PointsPopped ==
  ASSUME NEW s \in Seq(Calls), s # << >>, NEW n \in Int, PointsGrow(s, n)
  PROVE  /\ PointsGrow(Popped(s), n)
         /\ \A x \in PointsIn(s) :
              \/ x \in PointsIn(Popped(s))
              \/ x = Last(s).point
         /\ Last(s).point # None => \A x \in PointsIn(s) : x <= Last(s).point
<1>. DEFINE r == Popped(s)
            a == Len(s)
<1>1. /\ a \in Nat /\ a > 0 /\ DOMAIN s = 1 .. a /\ DOMAIN r = 1 .. (a - 1)
      /\ \A i \in 1 .. (a - 1) : r[i] = s[i]
      /\ Last(s) = s[a]
  <2>1. a \in Nat /\ a > 0 /\ DOMAIN s = 1 .. a /\ Last(s) = s[a]
    BY DEF Last
  <2>2. r \in Seq(Calls) /\ Len(r) = a - 1 /\ \A i \in 1 .. (a - 1) : r[i] = s[i]
    BY PoppedProperties
  <2>3. DOMAIN r = 1 .. Len(r)
    BY <2>2
  <2>. QED BY <2>1, <2>2, <2>3
<1>. HIDE DEF r, a
<1>2. 1 .. (a - 1) \subseteq 1 .. a /\ a \in 1 .. a
  BY <1>1
<1>3. \A i \in 1 .. a : i \in 1 .. (a - 1) \/ i = a
  BY <1>1
<1>4. PointsIn(r) = {s[i].point : i \in 1 .. (a - 1)} \ {None}
  <2>1. {r[i].point : i \in 1 .. (a - 1)} = {s[i].point : i \in 1 .. (a - 1)}
    BY <1>1
  <2>. QED BY <1>1, <2>1 DEF PointsIn
<1>5. PointsIn(s) = {s[i].point : i \in 1 .. a} \ {None}
  BY <1>1 DEF PointsIn
<1>6. /\ \A x \in PointsIn(s) : x \in Int /\ x < n
      /\ \A i, j \in 1 .. a : i < j /\ s[i].point # None /\ s[j].point # None =>
           s[i].point < s[j].point
  BY <1>1 DEF PointsGrow
<1>7. PointsGrow(r, n)
  <2>1. \A x \in PointsIn(r) : x \in PointsIn(s)
    BY <1>2, <1>4, <1>5
  <2>2. \A i, j \in 1 .. (a - 1) : i < j /\ r[i].point # None /\ r[j].point # None =>
           r[i].point < r[j].point
    BY <1>1, <1>2, <1>6
  <2>. QED BY <1>1, <1>6, <2>1, <2>2 DEF PointsGrow
<1>8. ASSUME NEW x \in PointsIn(s) PROVE x \in PointsIn(r) \/ x = s[a].point
  BY <1>3, <1>4, <1>5
<1>9. ASSUME s[a].point # None, NEW x \in PointsIn(s) PROVE x <= s[a].point
  <2>1. PICK i \in 1 .. a : x = s[i].point /\ x # None
    BY <1>5
  <2>2. s[a].point \in PointsIn(s)
    BY <1>2, <1>5, <1>9
  <2>3. s[a].point \in Int /\ x \in Int
    BY <1>6, <2>2
  <2>4. CASE i = a
    BY <2>1, <2>3, <2>4
  <2>5. CASE i # a
    <3>1. i < a
      BY <1>1, <2>5
    <3>2. x < s[a].point
      BY <1>2, <1>6, <1>9, <2>1, <3>1
    <3>. QED BY <2>3, <3>2
  <2>. QED BY <2>4, <2>5
<1>. QED BY <1>1, <1>7, <1>8, <1>9 DEF r

LEMMA NothingOngoing == Ongoing(None) = << >> /\ Len(Ongoing(None)) = 0
BY DEF Ongoing

LEMMA CoveredCalls ==
  ASSUME NEW T, Len(T) \in Nat, NEW s
  PROVE  Covered(T, s, Ongoing(None)) <=> Len(T) >= 2 /\ OpenOn(T) \subseteq PointsIn(s)
<1>1. Len(T) - 0 = Len(T) /\ 2 + 0 = 2 /\ 1 .. 0 = {}
  OBVIOUS
<1>2. Covered(T, s, << >>) <=> Len(T) >= 2 /\ \A i \in 3 .. Len(T) : T[i] \in PointsIn(s)
  <2>1. Len(<< >>) = 0
    OBVIOUS
  <2>. QED BY <1>1, <2>1 DEF Covered
<1>3. OpenOn(T) \subseteq PointsIn(s) <=> \A i \in 3 .. Len(T) : T[i] \in PointsIn(s)
  BY DEF OpenOn
<1>. QED BY <1>2, <1>3, NothingOngoing

LEMMA PushedTracked ==
  ASSUME NEW p \in Profilers, WellFormed(p), NEW s \in Seq(Calls), next_id \in Nat,
         Tracked(p, s, None, next_id), NEW n \in Names, NEW f \in Calls, f.point = next_id,
         Pushed(p, n) # None, next_id # None
  PROVE  /\ Tracked(Pushed(p, n), Append(s, f), None, next_id + 1)
         /\ OpenIds(Pushed(p, n)) = OpenIds(p) \cup NewIds(next_id, 1)
<1>. DEFINE T == p.trace_stack
            q == Pushed(p, n)
            R == q.trace_stack
            r == Append(s, f)
<1>1. /\ T \in Seq(Ids) /\ p.name \in Seq(Names) /\ Len(T) \in Nat /\ Len(p.name) \in Nat
      /\ Len(T) >= 2 /\ p # None
  BY StackOfProfiler
<1>2. /\ PointsGrow(s, next_id) /\ Len(T) = Len(p.name) + 2 /\ StackGrows(T, next_id)
      /\ Covered(T, s, Ongoing(None))
  BY <1>1 DEF Tracked
<1>3. OpenOn(T) \subseteq PointsIn(s)
  BY <1>1, <1>2, CoveredCalls
<1>4. /\ PointsGrow(r, next_id + 1) /\ PointsIn(s) \subseteq PointsIn(r)
      /\ next_id \in PointsIn(r)
  <2>1. next_id \in Int /\ next_id + 1 \in Int /\ next_id <= next_id + 1 /\ next_id < next_id + 1
    OBVIOUS
  <2>. QED BY <1>2, <2>1, PointsAppended
<1>5. R = Append(T, next_id) /\ q.name = Append(p.name, n)
  BY DEF Pushed
<1>6. /\ Len(R) = Len(T) + 1 /\ Len(q.name) = Len(p.name) + 1
      /\ \A i \in 1 .. Len(T) : R[i] = T[i]
      /\ R[Len(T) + 1] = next_id
  BY <1>1, <1>5
<1>. HIDE DEF q, r, T
<1>7. StackGrows(R, next_id + 1) /\ OpenOn(R) = OpenOn(T) \cup NewIds(next_id, 1)
  <2>1. \A i \in 3 .. Len(T) : R[i] = T[i]
    BY <1>1, <1>6
  <2>2. \A j \in 1 .. 1 : R[Len(T) + j] = next_id + j - 1
    <3>1. next_id + 1 - 1 = next_id
      OBVIOUS
    <3>. QED BY <1>6, <3>1
  <2>3. Longer(R, T, next_id, 1)
    BY <1>1, <1>6, <2>1, <2>2 DEF Longer
  <2>4. next_id \in Int /\ 1 \in Nat
    OBVIOUS
  <2>. QED BY <1>2, <2>3, <2>4, GrownStack
<1>8. NewIds(next_id, 1) = {next_id}
  BY DEF NewIds
<1>9. Covered(R, r, Ongoing(None))
  <2>1. Len(R) \in Nat /\ Len(R) >= 2
    BY <1>1, <1>6
  <2>2. OpenOn(R) \subseteq PointsIn(r)
    BY <1>3, <1>4, <1>7, <1>8
  <2>. QED BY <2>1, <2>2, CoveredCalls
<1>10. Len(R) = Len(q.name) + 2
  BY <1>1, <1>2, <1>6
<1>11. OpenIds(q) = OpenOn(R) /\ OpenIds(p) = OpenOn(T)
  BY <1>1 DEF OpenIds, q, T
<1>12. Tracked(q, r, None, next_id + 1)
  BY <1>4, <1>7, <1>9, <1>10 DEF Tracked
<1>. QED BY <1>7, <1>11, <1>12 DEF q, r

LEMMA NewProfilerTracked ==
  ASSUME NEW base, NEW parent, NEW s, NEW n, Tracked(None, s, None, n)
  PROVE  /\ Tracked(NewProfiler(base, parent), s, None, n)
         /\ OpenIds(NewProfiler(base, parent)) = {}
<1>. DEFINE p == NewProfiler(base, parent)
            T == p.trace_stack
<1>1. Len(T) = 2 /\ Len(p.name) = 0
  BY DEF NewProfiler
<1>. HIDE DEF p, T
<1>2. Len(T) \in Nat /\ 3 .. Len(T) = {} /\ Len(T) = Len(p.name) + 2 /\ Len(T) >= 2
  BY <1>1
<1>3. OpenOn(T) = {}
  BY <1>2 DEF OpenOn
<1>4. StackGrows(T, n)
  BY <1>2 DEF StackGrows
<1>5. Covered(T, s, Ongoing(None))
  BY <1>2, <1>3, CoveredCalls
<1>6. PointsGrow(s, n)
  BY DEF Tracked
<1>. QED BY <1>2, <1>3, <1>4, <1>5, <1>6 DEF Tracked, OpenIds, T, p

LEMMA StartRecord ==
  ASSUME NEW p \in Profilers, WellFormed(p), next_id \in Ids, NEW n \in Names
  PROVE  LET r == <<Notification(Pushed(p, n), n, "start")>> IN
         /\ r \in Seq(Notifications) /\ Len(r) = 1
         /\ r[1].trace_id = next_id /\ r[1].phase = "start"
<1>1. /\ p.trace_stack \in Seq(Ids)
      /\ Pushed(p, n) \in Profilers /\ WellFormed(Pushed(p, n))
  BY PushedType, StackOfProfiler
<1>2. Notification(Pushed(p, n), n, "start") \in Notifications
  BY <1>1, StackOfProfiler, NotificationType DEF Phases
<1>3. get_id(Pushed(p, n)) = next_id
  BY <1>1 DEF get_id, Pushed
<1>4. /\ Notification(Pushed(p, n), n, "start").trace_id = get_id(Pushed(p, n))
      /\ Notification(Pushed(p, n), n, "start").phase = "start"
  BY DEF Notification
<1>. QED BY <1>2, <1>3, <1>4

(* The stops of a profiler, one or several.                                *)
LEMMA StopRecord ==
  ASSUME NEW p \in Profilers, WellFormed(p), p.name # << >>
  PROVE  LET r == Notification(p, TopName(p), "stop") IN
         /\ r \in Notifications /\ r.phase = "stop"
         /\ r.trace_id = p.trace_stack[Len(p.trace_stack)]
<1>1. TopName(p) \in Names
  BY StackOfProfiler, TopInS DEF TopName
<1>2. Notification(p, TopName(p), "stop") \in Notifications
  BY <1>1, StackOfProfiler, NotificationType DEF Phases
<1>. QED BY <1>2 DEF Notification, get_id

LEMMA StopsTracked ==
  ASSUME NEW p \in Profilers, WellFormed(p), NEW m \in Nat, m <= Len(p.name),
         Len(p.trace_stack) = Len(p.name) + 2, NEW n, StackGrows(p.trace_stack, n)
  PROVE  LET q == AfterStops(p, m)
             r == StopsRecords(p, m) IN
         /\ q # None /\ Len(q.trace_stack) = Len(q.name) + 2
         /\ StackGrows(q.trace_stack, n)
         /\ Shorter(q.trace_stack, p.trace_stack, m)
         /\ r \in Seq(Notifications) /\ Len(r) = m
         /\ \A i \in 1 .. m : r[i].trace_id \in OpenIds(p) /\ r[i].phase = "stop"
         /\ \A i, j \in 1 .. m : r[i].trace_id = r[j].trace_id => i = j
         /\ OpenIds(q) = OpenIds(p) \ RecordIds(r, m)
<1>. DEFINE q == AfterStops(p, m)
            r == StopsRecords(p, m)
            T == p.trace_stack
<1>1. /\ T \in Seq(Ids) /\ Len(T) \in Nat /\ Len(p.name) \in Nat /\ p # None
      /\ Len(T) = Len(p.name) + 2
  BY StackOfProfiler
<1>2. /\ q \in Profilers /\ q # None
      /\ Len(q.trace_stack) = Len(T) - m /\ Len(q.name) = Len(p.name) - m
      /\ \A i \in 1 .. (Len(T) - m) : q.trace_stack[i] = T[i]
  BY AfterStopsShape
<1>3. ASSUME NEW i \in 1 .. m
      PROVE  /\ r[i] \in Notifications /\ r[i].phase = "stop"
             /\ r[i].trace_id = T[Len(T) - i + 1]
  <2>. DEFINE b == AfterStops(p, i - 1)
  <2>1. i - 1 \in Nat /\ i - 1 <= Len(p.name) /\ i <= Len(p.name)
    BY <1>1
  <2>2. /\ b \in Profilers /\ WellFormed(b)
        /\ Len(b.trace_stack) = Len(T) - (i - 1) /\ Len(b.name) = Len(p.name) - (i - 1)
        /\ \A j \in 1 .. (Len(T) - (i - 1)) : b.trace_stack[j] = T[j]
    BY <2>1, AfterStopsShape
  <2>3. r[i] = Notification(b, TopName(b), "stop")
    BY DEF StopsRecords
  <2>. HIDE DEF b, T, r
  <2>4. b.name # << >>
    <3>1. Len(b.name) > 0
      BY <1>1, <2>1, <2>2
    <3>. QED BY <3>1
  <2>5. /\ Len(b.trace_stack) = Len(T) - i + 1
        /\ Len(T) - i + 1 \in 1 .. (Len(T) - (i - 1))
    BY <1>1, <2>1, <2>2
  <2>6. b.trace_stack[Len(b.trace_stack)] = T[Len(T) - i + 1]
    BY <2>2, <2>5
  <2>. QED BY <2>2, <2>3, <2>4, <2>6, StopRecord
<1>4. r \in Seq(Notifications) /\ Len(r) = m
  <2>1. r = [i \in 1 .. m |-> r[i]]
    BY DEF StopsRecords
  <2>. HIDE DEF r
  <2>. QED BY <1>3, <2>1
<1>. HIDE DEF q, r, T
<1>5. Shorter(q.trace_stack, T, m)
  <2>1. 3 .. (Len(T) - m) \subseteq 1 .. (Len(T) - m) /\ m <= Len(T) - 2
    BY <1>1
  <2>2. \A i \in 3 .. Len(q.trace_stack) : q.trace_stack[i] = T[i]
    BY <1>2, <2>1
  <2>. QED BY <1>1, <1>2, <2>1, <2>2 DEF Shorter
<1>6. /\ StackGrows(q.trace_stack, n)
      /\ OpenOn(q.trace_stack) = OpenOn(T) \ TopIds(T, m)
      /\ \A i \in 1 .. m : T[Len(T) - i + 1] \in OpenOn(T)
      /\ \A i, j \in 1 .. m : T[Len(T) - i + 1] = T[Len(T) - j + 1] => i = j
  BY <1>5, ShrunkStack DEF T
<1>7. TopIds(T, m) = RecordIds(r, m)
  BY <1>3 DEF TopIds, RecordIds
<1>8. OpenIds(q) = OpenOn(q.trace_stack) /\ OpenIds(p) = OpenOn(T)
  BY <1>1, <1>2 DEF OpenIds, T
<1>9. \A i \in 1 .. m : r[i].trace_id \in OpenIds(p) /\ r[i].phase = "stop"
  BY <1>3, <1>6, <1>8
<1>10. \A i, j \in 1 .. m : r[i].trace_id = r[j].trace_id => i = j
  BY <1>3, <1>6
<1>11. Len(q.trace_stack) = Len(q.name) + 2
  BY <1>1, <1>2
<1>. QED BY <1>2, <1>4, <1>5, <1>6, <1>7, <1>8, <1>9, <1>10, <1>11 DEF q, r, T

(* The steps of the calls.                                                 *)
LEMMA OneStop ==
  ASSUME NEW p \in Profilers, WellFormed(p), CanStop(p), NEW o, o.stored, ~o.raised
  PROVE  Stopped(p, o) = AfterStops(p, 1) /\ StopRecords(p, o) = StopsRecords(p, 1)
<1>1. Stopped(p, o) = AfterStops(p, 1)
  BY DEF Stopped, AfterStop, StackAfterStop, AfterStops, Popped
<1>2. AfterStops(p, 0) = p
  <2>1. /\ p.trace_stack \in Seq(Ids) /\ p.name \in Seq(Names)
        /\ p = [trace_stack |-> p.trace_stack, name |-> p.name]
    BY DEF Profilers
  <2>2. \A S : \A s \in Seq(S) : SubSeq(s, 1, Len(s) - 0) = s
    OBVIOUS
  <2>3. SubSeq(p.trace_stack, 1, Len(p.trace_stack) - 0) = p.trace_stack
    BY <2>1, <2>2
  <2>4. SubSeq(p.name, 1, Len(p.name) - 0) = p.name
    BY <2>1, <2>2
  <2>. QED BY <2>1, <2>3, <2>4 DEF AfterStops
<1>3. StopsRecords(p, 1) = <<Notification(p, TopName(p), "stop")>>
  <2>. DEFINE x == Notification(p, TopName(p), "stop")
  <2>1. \A i \in 1 .. 1 : i - 1 = 0
    OBVIOUS
  <2>2. StopsRecords(p, 1) = [i \in 1 .. 1 |-> x]
    BY <1>2, <2>1 DEF StopsRecords
  <2>. HIDE DEF x
  <2>. QED BY <2>2 DEF x
<1>. QED BY <1>1, <1>3 DEF StopRecords

LEMMA TrackKept ==
  ASSUME CallInv, MirrorInv, TrackInv, ~leaked, NEW t \in Threads, NEW p, NEW s, NEW st,
         local' = [local EXCEPT ![t] = p], calls' = [calls EXCEPT ![t] = s],
         statement' = [statement EXCEPT ![t] = st],
         UNCHANGED <<collector, next_id>>,
         Tracked(p, s, st, next_id), OpenIds(p) = OpenIds(local[t])
  PROVE  TrackInv'
<1>1. next_id \in Int /\ next_id <= next_id
  BY DEF CallInv
<1>2. Accounts(collector, OpenNow, next_id)
  BY DEF TrackInv
<1>3. (OpenNow \ OpenIds(local[t])) \cup OpenIds(p) = OpenNow
  BY DEF OpenNow
<1>. QED BY <1>1, <1>2, <1>3, TrackUpdate

(* What every lemma about a step of a thread begins with.                  *)
LEMMA ThreadFacts ==
  ASSUME StackInv, TrackInv, ~leaked, NEW t \in Threads
  PROVE  /\ CallInv /\ MirrorInv
         /\ Tracked(local[t], calls[t], statement[t], next_id)
         /\ local[t] # None => local[t] \in Profilers /\ WellFormed(local[t])
         /\ calls[t] \in Seq(Calls)
         /\ next_id \in Nat
         /\ next_id <= MaxIds => next_id \in Ids /\ next_id # None
         /\ collector \in Seq(Notifications)
<1>1. CallInv /\ MirrorInv
  BY DEF StackInv
<1>2. /\ ProfilerOK(local[t]) /\ calls[t] \in Seq(Calls)
      /\ next_id \in 1 .. (MaxIds + 1) /\ next_id \in Nat
      /\ next_id <= MaxIds => next_id \in Ids
  BY <1>1, CallFacts
<1>3. collector \in Seq(Notifications) /\ Tracked(local[t], calls[t], statement[t], next_id)
  BY DEF TrackInv, Accounts
<1>. QED BY <1>1, <1>2, <1>3, NoneAssumption DEF ProfilerOK

LEMMA TrackSame ==
  ASSUME CallInv, MirrorInv, TrackInv, UNCHANGED <<local, collector, next_id, calls, statement>>,
         ~leaked' => ~leaked
  PROVE  TrackInv'
<1>1. /\ OpenNow' = OpenNow
      /\ \A t \in Threads : OpenIds(local[t])' = OpenIds(local[t])
  BY DEF OpenNow, OpenIds
<1>. QED BY <1>1 DEF TrackInv, Tracked, PointsGrow, StackGrows, Covered, Accounts, Begun, Over, RecordsIn

LEMMA EnterTracked ==
  ASSUME StackInv, TrackInv, ~leaked, NEW t \in Threads, NEW kind \in Kinds, NEW n \in Names,
         NEW o, o.stored, statement[t] = None, UNCHANGED dbVars, Enter(t, kind, n, o)
  PROVE  TrackInv'
<1>. DEFINE f == [kind |-> kind, name |-> n, header |-> None, point |-> PointOfStart(local[t])]
            p == local[t]
            s == calls[t]
            q == Started(p, n)
<1>1. /\ MayEnter(t, kind, p)
      /\ local' = [local EXCEPT ![t] = q]
      /\ calls' = [calls EXCEPT ![t] = Append(s, f)]
      /\ collector' = collector \o StartRecords(p, n, o)
      /\ next_id' = IF p = None THEN next_id ELSE next_id + 1
  BY DEF Enter, SetLocal, PushCall, CountId
<1>2. /\ CallInv /\ MirrorInv /\ Tracked(p, s, None, next_id)
      /\ p # None => p \in Profilers /\ WellFormed(p)
      /\ s \in Seq(Calls) /\ next_id \in Nat
      /\ next_id <= MaxIds => next_id \in Ids /\ next_id # None
      /\ collector \in Seq(Notifications)
  BY ThreadFacts
<1>3. p # None => next_id \in Ids /\ next_id # None
  BY <1>1, <1>2 DEF MayEnter
<1>4. f \in Calls /\ f.point = PointOfStart(p)
  <2>1. PointOfStart(p) \in Ids \cup {None}
    BY <1>3 DEF PointOfStart
  <2>. QED BY <2>1, KindsAssumption DEF Calls
<1>5. statement' = [statement EXCEPT ![t] = None]
  BY <1>2, MirrorFacts DEF dbVars
<1>. HIDE DEF f, p, s, q
<1>6. CASE p = None
  <2>1. q = None /\ StartRecords(p, n, o) = << >> /\ f.point = None /\ next_id' = next_id
    BY <1>1, <1>4, <1>6 DEF q, Started, StartRecords, PointOfStart
  <2>2. collector' = collector
    BY <1>1, <1>2, <2>1
  <2>3. PointsGrow(Append(s, f), next_id)
    <3>1. PointsGrow(s, next_id) /\ next_id \in Int /\ next_id <= next_id
      BY <1>2 DEF Tracked
    <3>. QED BY <1>2, <1>4, <2>1, <3>1, PointsAppended
  <2>4. Tracked(None, Append(s, f), None, next_id)
    BY <2>3 DEF Tracked
  <2>5. OpenIds(None) = OpenIds(local[t])
    BY <1>6 DEF p
  <2>. QED BY <1>1, <1>2, <1>5, <2>1, <2>2, <2>4, <2>5, TrackKept
<1>7. CASE p # None
  <2>1. /\ q = Pushed(p, n) /\ f.point = next_id /\ next_id' = next_id + 1
        /\ StartRecords(p, n, o) = <<Notification(Pushed(p, n), n, "start")>>
    BY <1>1, <1>4, <1>7 DEF q, Started, StartRecords, PointOfStart
  <2>2. Pushed(p, n) # None
    BY <1>2, <1>3, <1>7, PushedType, StackOfProfiler
  <2>3. /\ Tracked(q, Append(s, f), None, next_id + 1)
        /\ OpenIds(q) = OpenIds(local[t]) \cup NewIds(next_id, 1)
    BY <1>2, <1>3, <1>4, <1>7, <2>1, <2>2, PushedTracked DEF p
  <2>. DEFINE r == StartRecords(p, n, o)
  <2>4. r \in Seq(Notifications) /\ Len(r) = 1 /\ r[1].trace_id = next_id /\ r[1].phase = "start"
    BY <1>2, <1>3, <1>7, <2>1, StartRecord
  <2>5. \A i \in 1 .. 1 : r[i].trace_id = next_id + i - 1 /\ r[i].phase = "start"
    <3>. HIDE DEF r
    <3>1. next_id + 1 - 1 = next_id
      BY <1>2
    <3>. QED BY <2>4, <3>1
  <2>6. collector' = collector \o r /\ 1 \in Nat
    BY <1>1
  <2>. HIDE DEF r
  <2>. QED BY <1>1, <1>2, <1>5, <2>1, <2>3, <2>4, <2>5, <2>6, TrackStarted
<1>. QED BY <1>6, <1>7

LEMMA ServeTracked ==
  ASSUME StackInv, TrackInv, ~leaked, NEW t \in Threads, NEW h \in Headers, NEW o,
         o.stored, ~o.raised, ~NestedWsgi, statement[t] = None, UNCHANGED dbVars,
         EnterWsgi(t, h, o)
  PROVE  TrackInv'
<1>. DEFINE f == [kind |-> "wsgi", name |-> WsgiName, header |-> h, point |-> next_id]
            s == calls[t]
            p == NewProfiler(h.base_id, h.parent_id)
            q == Pushed(p, WsgiName)
<1>1. /\ CallInv /\ MirrorInv /\ Tracked(local[t], s, None, next_id)
      /\ s \in Seq(Calls) /\ next_id \in Nat
      /\ next_id <= MaxIds => next_id \in Ids /\ next_id # None
      /\ collector \in Seq(Notifications)
  BY ThreadFacts
<1>2. local[t] = None
  BY <1>1, NotServing DEF EnterWsgi
<1>3. /\ MayEnter(t, "wsgi", p)
      /\ local' = [local EXCEPT ![t] = q]
      /\ calls' = [calls EXCEPT ![t] = Append(s, f)]
      /\ next_id' = next_id + 1
      /\ collector' = collector \o StartRecords(p, WsgiName, o)
  BY <1>2 DEF EnterWsgi, SetLocal, PushCall, Inited
<1>4. p \in Profilers /\ WellFormed(p) /\ p # None
  <2>1. h.base_id \in Ids /\ h.parent_id \in Ids \cup {None}
    BY DEF Headers
  <2>2. h.base_id # None
    BY <2>1, NoneAssumption
  <2>3. p \in Profilers /\ WellFormed(p)
    BY <2>1, <2>2, NewProfilerType
  <2>. QED BY <2>3, StackOfProfiler
<1>5. next_id \in Ids /\ next_id # None /\ "wsgi" \in Kinds
  BY <1>1, <1>3, <1>4 DEF MayEnter
<1>6. f \in Calls /\ f.point = next_id
  BY <1>5, WsgiNameAssumption DEF Calls, AllKinds
<1>7. Tracked(p, s, None, next_id) /\ OpenIds(p) = {} /\ OpenIds(local[t]) = {}
  BY <1>1, <1>2, NewProfilerTracked DEF OpenIds
<1>8. statement' = [statement EXCEPT ![t] = None]
  BY <1>1, MirrorFacts DEF dbVars
<1>9. q # None
  BY <1>4, <1>5, WsgiNameAssumption, PushedType, StackOfProfiler
<1>10. StartRecords(p, WsgiName, o) = <<Notification(Pushed(p, WsgiName), WsgiName, "start")>>
  BY <1>4 DEF StartRecords
<1>. HIDE DEF f, s, p
<1>11. /\ Tracked(q, Append(s, f), None, next_id + 1)
       /\ OpenIds(q) = OpenIds(local[t]) \cup NewIds(next_id, 1)
  BY <1>1, <1>4, <1>5, <1>6, <1>7, <1>9, WsgiNameAssumption, PushedTracked
<1>. DEFINE r == StartRecords(p, WsgiName, o)
<1>12. r \in Seq(Notifications) /\ Len(r) = 1 /\ r[1].trace_id = next_id /\ r[1].phase = "start"
  BY <1>4, <1>5, <1>10, WsgiNameAssumption, StartRecord
<1>13. \A i \in 1 .. 1 : r[i].trace_id = next_id + i - 1 /\ r[i].phase = "start"
  <2>. HIDE DEF r
  <2>1. next_id + 1 - 1 = next_id
    BY <1>1
  <2>. QED BY <1>12, <2>1
<1>14. collector' = collector \o r /\ 1 \in Nat
  BY <1>3
<1>. HIDE DEF q, r
<1>. QED BY <1>1, <1>3, <1>8, <1>11, <1>12, <1>13, <1>14, TrackStarted

(* What is below the stopped id are points of calls further out.           *)
LEMMA RestIsCovered ==
  ASSUME NEW p \in Profilers, WellFormed(p), NEW s \in Seq(Calls), s # << >>, NEW n \in Int,
         Last(s).point # None, Tracked(p, s, None, n), p.name # << >>
  PROVE  OpenOn(AfterStops(p, 1).trace_stack) \subseteq PointsIn(Popped(s))
<1>. DEFINE T == p.trace_stack
            R == AfterStops(p, 1).trace_stack
<1>1. /\ Len(T) \in Nat /\ Len(p.name) \in Nat /\ Len(p.name) > 0 /\ p # None
      /\ Len(T) >= 2
  BY StackOfProfiler
<1>2. /\ PointsGrow(s, n) /\ Len(T) = Len(p.name) + 2 /\ StackGrows(T, n)
      /\ Covered(T, s, Ongoing(None))
  BY <1>1 DEF Tracked
<1>3. OpenOn(T) \subseteq PointsIn(s)
  BY <1>1, <1>2, CoveredCalls
<1>4. Len(R) = Len(T) - 1 /\ \A i \in 1 .. (Len(T) - 1) : R[i] = T[i]
  <2>1. 1 \in Nat /\ 1 <= Len(p.name)
    BY <1>1
  <2>. QED BY <2>1, AfterStopsShape
<1>. HIDE DEF T, R
<1>5. /\ \A x \in PointsIn(s) : x \in PointsIn(Popped(s)) \/ x = Last(s).point
      /\ \A x \in PointsIn(s) : x <= Last(s).point
      /\ \A x \in PointsIn(s) : x \in Int
  BY <1>2, PointsPopped DEF PointsGrow
<1>6. ASSUME NEW i \in 3 .. Len(R) PROVE R[i] \in PointsIn(Popped(s))
  <2>1. i \in 1 .. (Len(T) - 1) /\ i \in 3 .. Len(T) /\ Len(T) \in 3 .. Len(T) /\ i < Len(T)
    BY <1>1, <1>4
  <2>2. T[i] < T[Len(T)] /\ T[i] \in PointsIn(s) /\ T[Len(T)] \in PointsIn(s)
    BY <1>2, <1>3, <2>1 DEF StackGrows, OpenOn
  <2>3. T[Len(T)] <= Last(s).point /\ T[i] \in Int /\ T[Len(T)] \in Int
    BY <1>5, <2>2
  <2>4. T[i] # Last(s).point
    BY <2>2, <2>3
  <2>. QED BY <1>4, <1>5, <2>1, <2>2, <2>4
<1>. QED BY <1>6 DEF OpenOn, R

LEMMA LeaveTracked ==
  ASSUME StackInv, TrackInv, ~leaked, "requests" \notin Kinds, NEW t \in Threads, NEW o,
         o.stored, ~o.raised,
         statement[t] = None, UNCHANGED dbVars, Leave(t, o) \/ Unwind(t, o)
  PROVE  TrackInv'
<1>. DEFINE p == local[t]
            s == calls[t]
            kind == Last(s).kind
            q == AfterReturn(kind, p, o)
<1>1. /\ CallInv /\ MirrorInv /\ Tracked(p, s, None, next_id)
      /\ p # None => p \in Profilers /\ WellFormed(p)
      /\ s \in Seq(Calls) /\ next_id \in Nat /\ next_id \in Int
      /\ collector \in Seq(Notifications)
  BY ThreadFacts
<1>2. s # << >>
  BY DEF Leave, Unwind
<1>3. PICK u \in 0 .. Len(s) : Split(p, s, u)
  BY <1>1, MirrorFacts
<1>4. StopsOnException(kind)
  BY <1>1, <1>2, <1>3, SplitPopped DEF StopsOnException
<1>5. /\ local' = [local EXCEPT ![t] = q]
      /\ calls' = [calls EXCEPT ![t] = Popped(s)]
      /\ collector' = collector \o StopRecords(p, o)
      /\ next_id' = next_id
  BY <1>4 DEF Leave, Unwind, SetLocal, PopCall
<1>6. statement' = [statement EXCEPT ![t] = None]
  BY <1>1, MirrorFacts DEF dbVars
<1>7. PointsGrow(Popped(s), next_id)
  BY <1>1, <1>2, PointsPopped DEF Tracked
<1>. HIDE DEF s, kind
<1>8. CASE ~CanStop(p)
  <2>1. StopRecords(p, o) = << >> /\ q = IF kind = "wsgi" THEN None ELSE p
    BY <1>8 DEF StopRecords, AfterReturn, Stopped
  <2>2. collector' = collector
    BY <1>1, <1>5, <2>1
  <2>3. ASSUME p # None PROVE Len(p.trace_stack) = 2 /\ OpenOn(p.trace_stack) = {}
    <3>1. p.name = << >>
      BY <1>8, <2>3 DEF CanStop
    <3>2. Len(p.trace_stack) = Len(p.name) + 2
      BY <1>1, <2>3 DEF Tracked
    <3>3. Len(p.trace_stack) = 2
      BY <3>1, <3>2
    <3>. QED BY <3>3 DEF OpenOn
  <2>4. OpenIds(p) = {} /\ OpenIds(q) = {}
    BY <2>1, <2>3 DEF OpenIds
  <2>5. Tracked(q, Popped(s), None, next_id)
    <3>1. ASSUME q # None PROVE q = p /\ Covered(q.trace_stack, Popped(s), Ongoing(None))
      <4>1. q = p
        BY <2>1, <3>1
      <4>2. Len(p.trace_stack) \in Nat /\ Len(p.trace_stack) >= 2
        BY <2>3, <3>1, <4>1
      <4>. QED BY <2>3, <3>1, <4>1, <4>2, CoveredCalls
    <3>. QED BY <1>1, <1>7, <3>1 DEF Tracked
  <2>. QED BY <1>1, <1>5, <1>6, <2>2, <2>4, <2>5, TrackKept
<1>9. CASE CanStop(p)
  <2>. DEFINE r == StopsRecords(p, 1)
              b == AfterStops(p, 1)
  <2>1. p # None /\ p.name # << >> /\ p \in Profilers /\ WellFormed(p)
    BY <1>1, <1>9 DEF CanStop
  <2>2. Stopped(p, o) = b /\ StopRecords(p, o) = r
    BY <1>9, <2>1, OneStop
  <2>3. /\ Len(p.trace_stack) = Len(p.name) + 2 /\ StackGrows(p.trace_stack, next_id)
    BY <1>1, <2>1 DEF Tracked
  <2>4. 1 \in Nat /\ 1 <= Len(p.name)
    BY <2>1, StackOfProfiler
  <2>5. /\ b # None /\ Len(b.trace_stack) = Len(b.name) + 2
        /\ StackGrows(b.trace_stack, next_id)
        /\ r \in Seq(Notifications) /\ Len(r) = 1
        /\ \A i \in 1 .. 1 : r[i].trace_id \in OpenIds(p) /\ r[i].phase = "stop"
        /\ \A i, j \in 1 .. 1 : r[i].trace_id = r[j].trace_id => i = j
        /\ OpenIds(b) = OpenIds(p) \ RecordIds(r, 1)
    BY <2>1, <2>3, <2>4, StopsTracked
  <2>6. /\ Len(b.trace_stack) \in Nat /\ Len(b.trace_stack) >= 2
    BY <2>1, <2>4, AfterStopsShape, StackOfProfiler
  <2>7. Last(s).point # None
    <3>1. /\ Len(s) \in Nat /\ u \in Nat /\ u <= Len(s) /\ u # Len(s)
          /\ \A i \in 1 .. Len(s) : s[i].point = None <=> i <= u
      BY <1>1, <1>3, <2>1, SplitFacts
    <3>2. Len(s) \in 1 .. Len(s) /\ ~(Len(s) <= u)
      BY <3>1
    <3>. QED BY <3>1, <3>2 DEF Last
  <2>. HIDE DEF r, b, p
  <2>8. OpenOn(b.trace_stack) \subseteq PointsIn(Popped(s))
    BY <1>1, <1>2, <2>1, <2>7, RestIsCovered DEF b
  <2>9. OpenIds(b) = OpenOn(b.trace_stack)
    BY <2>5 DEF OpenIds
  <2>10. collector' = collector \o r
    BY <1>5, <2>2
  <2>11. CASE kind # "wsgi"
    <3>1. q = b
      BY <2>2, <2>11 DEF AfterReturn
    <3>2. Covered(b.trace_stack, Popped(s), Ongoing(None))
      BY <2>6, <2>8, CoveredCalls
    <3>3. Tracked(b, Popped(s), None, next_id)
      BY <1>7, <2>5, <3>2 DEF Tracked
    <3>. HIDE DEF q
    <3>. QED BY <1>1, <1>5, <1>6, <2>4, <2>5, <2>10, <3>1, <3>3, TrackStopped DEF p
  <2>12. CASE kind = "wsgi"
    <3>1. q = None
      BY <2>12 DEF AfterReturn
    <3>2. PointsIn(Popped(s)) = {}
      <4>1. u = Len(s) - 1 /\ Split(None, Popped(s), u)
        BY <1>1, <1>2, <1>3, <2>12, SplitPopped DEF kind
      <4>2. /\ Popped(s) \in Seq(Calls)
        BY <1>1, <1>2, PoppedProperties
      <4>3. /\ DOMAIN Popped(s) = 1 .. Len(Popped(s)) /\ u = Len(Popped(s))
            /\ \A i \in 1 .. Len(Popped(s)) : Popped(s)[i].point = None <=> i <= u
        BY <4>1, <4>2, SplitFacts
      <4>4. \A i \in DOMAIN Popped(s) : Popped(s)[i].point = None
        BY <4>3
      <4>. QED BY <4>4 DEF PointsIn
    <3>3. OpenIds(None) = OpenIds(p) \ RecordIds(r, 1)
      BY <2>5, <2>8, <2>9, <3>2 DEF OpenIds
    <3>4. Tracked(None, Popped(s), None, next_id)
      BY <1>7 DEF Tracked
    <3>. HIDE DEF q
    <3>. QED BY <1>1, <1>5, <1>6, <2>4, <2>5, <2>10, <3>1, <3>3, <3>4, TrackStopped DEF p
  <2>. QED BY <2>11, <2>12
<1>. QED BY <1>8, <1>9

(* The starts of a statement.                                              *)
LEMMA StartsOfStatement ==
  ASSUME NEW p \in Profilers, WellFormed(p), engine.before \in Nat,
         next_id \in Nat, next_id > 0, next_id + engine.before - 1 <= MaxIds
  PROVE  LET r == StartsRecords(p) IN
         /\ r \in Seq(Notifications) /\ Len(r) = engine.before
         /\ \A i \in 1 .. engine.before : r[i].trace_id = next_id + i - 1 /\ r[i].phase = "start"
<1>. DEFINE k == engine.before
            r == StartsRecords(p)
            T == p.trace_stack
<1>1. Len(T) \in Nat /\ Len(T) >= 2
  BY StackOfProfiler
<1>2. r = [i \in 1 .. k |-> Notification(AfterStarts(p, i), DbName, "start")]
  BY DEF StartsRecords, StartedIds
<1>3. ASSUME NEW i \in 1 .. k
      PROVE  /\ r[i] \in Notifications
             /\ r[i].trace_id = next_id + i - 1 /\ r[i].phase = "start"
  <2>. DEFINE b == AfterStarts(p, i)
  <2>1. i \in Nat /\ i >= 1 /\ next_id + i - 1 <= MaxIds
    BY MaxIdsAssumption
  <2>2. /\ b \in Profilers /\ Len(b.trace_stack) = Len(T) + i
        /\ \A j \in 1 .. i : b.trace_stack[Len(T) + j] = next_id + j - 1
    BY <2>1, AfterStartsShape
  <2>. HIDE DEF b, T
  <2>3. Len(b.trace_stack) >= 2 /\ b.trace_stack[Len(b.trace_stack)] = next_id + i - 1
    <3>1. i \in 1 .. i /\ Len(T) + i >= 2
      BY <1>1, <2>1 DEF T
    <3>2. b.trace_stack[Len(T) + i] = next_id + i - 1
      BY <2>2, <3>1
    <3>. QED BY <2>2, <3>1, <3>2
  <2>4. Notification(b, DbName, "start") \in Notifications
    BY <2>2, <2>3, DbNameAssumption, NotificationType DEF Phases
  <2>5. r[i] = Notification(b, DbName, "start")
    BY <1>2 DEF b
  <2>. QED BY <2>3, <2>4, <2>5 DEF Notification, get_id
<1>4. r \in Seq(Notifications) /\ Len(r) = k
  <2>1. r = [i \in 1 .. k |-> r[i]] /\ k \in Nat
    BY <1>2
  <2>. HIDE DEF r, k
  <2>. QED BY <1>3, <2>1
<1>. QED BY <1>3, <1>4

LEMMA StartsTracked ==
  ASSUME NEW p \in Profilers, WellFormed(p), NEW s, Tracked(p, s, None, next_id),
         engine.before \in Nat, next_id \in Nat, next_id > 0,
         next_id + engine.before - 1 <= MaxIds, StartedIds # None
  PROVE  LET q == AfterStarts(p, engine.before) IN
         /\ Tracked(q, s, StartedIds, next_id + engine.before)
         /\ OpenIds(q) = OpenIds(p) \cup NewIds(next_id, engine.before)
<1>. DEFINE k == engine.before
            q == AfterStarts(p, k)
            T == p.trace_stack
            R == q.trace_stack
<1>1. Len(T) \in Nat /\ Len(T) >= 2 /\ p # None
  BY StackOfProfiler
<1>2. /\ q # None /\ Len(R) = Len(T) + k /\ Len(q.name) = Len(p.name) + k
      /\ \A i \in 1 .. Len(T) : R[i] = T[i]
      /\ \A j \in 1 .. k : R[Len(T) + j] = next_id + j - 1
  BY AfterStartsShape
<1>3. /\ PointsGrow(s, next_id) /\ Len(T) = Len(p.name) + 2 /\ StackGrows(T, next_id)
      /\ Covered(T, s, Ongoing(None))
  BY <1>1 DEF Tracked
<1>4. OpenOn(T) \subseteq PointsIn(s)
  BY <1>1, <1>3, CoveredCalls
<1>5. /\ Ongoing(StartedIds) = StartedIds /\ Len(StartedIds) = k
      /\ \A j \in 1 .. k : StartedIds[j] = next_id + j - 1
  BY DEF Ongoing, StartedIds
<1>6. PointsGrow(s, next_id + k)
  <2>1. \A x \in Int : x < next_id => x < next_id + k
    OBVIOUS
  <2>. QED BY <1>3, <2>1 DEF PointsGrow
<1>7. OpenIds(q) = OpenOn(R) /\ OpenIds(p) = OpenOn(T)
  BY <1>1, <1>2 DEF OpenIds
<1>. HIDE DEF q, T, R
<1>8. Longer(R, T, next_id, k)
  <2>1. \A i \in 3 .. Len(T) : R[i] = T[i]
    BY <1>2
  <2>. QED BY <1>1, <1>2, <2>1 DEF Longer
<1>9. StackGrows(R, next_id + k) /\ OpenOn(R) = OpenOn(T) \cup NewIds(next_id, k)
  <2>1. next_id \in Int /\ k \in Nat
    OBVIOUS
  <2>. QED BY <1>3, <1>8, <2>1, GrownStack
<1>10. Covered(R, s, StartedIds)
  <2>1. Len(R) - k = Len(T) /\ Len(R) >= 2 + k
    BY <1>1, <1>2
  <2>2. \A i \in 3 .. Len(T) : R[i] \in PointsIn(s)
    BY <1>2, <1>4 DEF OpenOn
  <2>3. \A j \in 1 .. k : R[Len(T) + j] = StartedIds[j]
    BY <1>2, <1>5
  <2>. HIDE DEF k
  <2>. QED BY <1>5, <2>1, <2>2, <2>3 DEF Covered
<1>11. Len(R) = Len(q.name) + 2
  BY <1>1, <1>2, <1>3, StackOfProfiler
<1>. QED BY <1>2, <1>5, <1>6, <1>7, <1>9, <1>10, <1>11 DEF Tracked, q, R, T

LEMMA BeginTracked ==
  ASSUME StackInv, TrackInv, ~leaked, NEW t \in Threads, BeginStatement(t)
  PROVE  TrackInv'
<1>. DEFINE p == local[t]
            s == calls[t]
            k == engine.before
            q == AfterStarts(p, k)
            r == StartsRecords(p)
<1>1. /\ statement[t] = None /\ p # None
      /\ next_id + k - 1 <= MaxIds
      /\ local' = [local EXCEPT ![t] = q]
      /\ collector' = collector \o r
      /\ next_id' = next_id + k
      /\ statement' = [statement EXCEPT ![t] = StartedIds]
      /\ calls' = calls
  BY DEF BeginStatement, InSession, SetLocal
<1>2. /\ CallInv /\ MirrorInv /\ Tracked(p, s, None, next_id)
      /\ p \in Profilers /\ WellFormed(p)
      /\ next_id \in Nat /\ k \in Nat
  BY <1>1, ThreadFacts DEF StackInv, DbInv, DbTypeOK, Engines
<1>3. next_id > 0 /\ calls' = [calls EXCEPT ![t] = s]
  <2>1. next_id \in 1 .. (MaxIds + 1) /\ calls = [calls EXCEPT ![t] = s]
    BY <1>2, CallFacts
  <2>. QED BY <1>1, <2>1
<1>4. StartedIds # None
  <2>1. \A i \in 1 .. k : next_id + i - 1 \in Ids
    BY <1>1, <1>2, <1>3, MaxIdsAssumption DEF Ids
  <2>2. StartedIds \in Seq(Ids)
    BY <1>2, <2>1 DEF StartedIds
  <2>. QED BY <2>2, NoSequenceAssumption
<1>5. /\ Tracked(q, s, StartedIds, next_id + k)
      /\ OpenIds(q) = OpenIds(p) \cup NewIds(next_id, k)
  BY <1>1, <1>2, <1>3, <1>4, StartsTracked
<1>6. /\ r \in Seq(Notifications) /\ Len(r) = k
      /\ \A i \in 1 .. k : r[i].trace_id = next_id + i - 1 /\ r[i].phase = "start"
  BY <1>1, <1>2, <1>3, StartsOfStatement
<1>. HIDE DEF q, r, s, k
<1>. QED BY <1>1, <1>2, <1>3, <1>5, <1>6, TrackStarted

(* The stops of a statement, or of an error outside of one.  They are no   *)
(* less than its starts while nothing was left over, so that what remains  *)
(* on the stack are points of calls.                                       *)
LEMMA RestOfCalls ==
  ASSUME NEW T, Len(T) \in Nat, NEW R, NEW s, NEW ids, Len(ids) \in Nat, NEW m \in Nat,
         Covered(T, s, ids), Len(ids) <= m, Shorter(R, T, m)
  PROVE  OpenOn(R) \subseteq PointsIn(s)
<1>1. Len(R) = Len(T) - m /\ \A i \in 3 .. Len(R) : R[i] = T[i]
  BY DEF Shorter
<1>2. \A i \in 3 .. (Len(T) - Len(ids)) : T[i] \in PointsIn(s)
  BY DEF Covered
<1>3. \A i \in 3 .. (Len(T) - m) : i \in 3 .. (Len(T) - Len(ids))
  OBVIOUS
<1>4. \A i \in 3 .. Len(R) : R[i] \in PointsIn(s)
  BY <1>1, <1>2, <1>3
<1>. QED BY <1>4 DEF OpenOn

LEMMA StopsAtLeast ==
  ASSUME NEW p \in Profilers, WellFormed(p), NEW s, NEW ids, Len(ids) \in Nat, NEW k \in Nat,
         Len(p.trace_stack) = Len(p.name) + 2, Covered(p.trace_stack, s, ids), ~(k < Len(ids))
  PROVE  /\ Stops(p, k) \in Nat /\ Stops(p, k) <= Len(p.name)
         /\ Len(ids) <= Stops(p, k)
<1>1. Len(p.name) \in Nat /\ Len(p.trace_stack) \in Nat
  BY StackOfProfiler
<1>2. Len(p.trace_stack) >= 2 + Len(ids)
  BY DEF Covered
<1>3. Len(ids) <= Len(p.name) /\ Len(ids) <= k
  BY <1>1, <1>2
<1>. QED BY <1>1, <1>3 DEF Stops

LEMMA StopsKeepTrack ==
  ASSUME StackInv, TrackInv, ~leaked, NEW t \in Threads, local[t] # None, NEW k \in Nat,
         ~(k < Len(Ongoing(statement[t]))),
         SetLocal(t, AfterStops(local[t], Stops(local[t], k))),
         collector' = collector \o StopsRecords(local[t], Stops(local[t], k)),
         statement' = [statement EXCEPT ![t] = None], UNCHANGED <<calls, next_id>>
  PROVE  TrackInv'
<1>. DEFINE p == local[t]
            s == calls[t]
            ids == Ongoing(statement[t])
            T == p.trace_stack
            m == Stops(p, k)
            q == AfterStops(p, m)
            r == StopsRecords(p, m)
<1>1. /\ CallInv /\ MirrorInv /\ Tracked(p, s, statement[t], next_id)
      /\ p \in Profilers /\ WellFormed(p) /\ p # None
  BY ThreadFacts
<1>2. /\ PointsGrow(s, next_id) /\ Len(T) = Len(p.name) + 2 /\ StackGrows(T, next_id)
      /\ Covered(T, s, ids)
  BY <1>1 DEF Tracked
<1>3. Len(ids) \in Nat
  <2>1. ids \in Seq(Ids)
    BY <1>1, MirrorFacts DEF Ongoing
  <2>. QED BY <2>1
<1>4. m \in Nat /\ m <= Len(p.name) /\ Len(ids) <= m
  BY <1>1, <1>2, <1>3, StopsAtLeast
<1>5. /\ local' = [local EXCEPT ![t] = q]
      /\ collector' = collector \o r
      /\ calls' = [calls EXCEPT ![t] = s]
      /\ next_id' = next_id
  BY <1>1, CallFacts DEF SetLocal
<1>. HIDE DEF m, s, ids
<1>6. /\ q # None /\ Len(q.trace_stack) = Len(q.name) + 2
      /\ StackGrows(q.trace_stack, next_id)
      /\ Shorter(q.trace_stack, T, m)
      /\ r \in Seq(Notifications) /\ Len(r) = m
      /\ \A i \in 1 .. m : r[i].trace_id \in OpenIds(p) /\ r[i].phase = "stop"
      /\ \A i, j \in 1 .. m : r[i].trace_id = r[j].trace_id => i = j
      /\ OpenIds(q) = OpenIds(p) \ RecordIds(r, m)
  BY <1>1, <1>2, <1>4, StopsTracked
<1>7. /\ Len(T) \in Nat /\ Len(q.trace_stack) \in Nat /\ Len(q.trace_stack) >= 2
  BY <1>1, <1>4, AfterStopsShape, StackOfProfiler
<1>. HIDE DEF q, r, T
<1>8. Covered(q.trace_stack, s, Ongoing(None))
  <2>1. OpenOn(q.trace_stack) \subseteq PointsIn(s)
    BY <1>2, <1>3, <1>4, <1>6, <1>7, RestOfCalls
  <2>. QED BY <1>7, <2>1, CoveredCalls
<1>9. Tracked(q, s, None, next_id)
  BY <1>2, <1>6, <1>8 DEF Tracked
<1>. QED BY <1>1, <1>4, <1>5, <1>6, <1>9, TrackStopped

LEMMA StatementTracked ==
  ASSUME StackInv, TrackInv, NEW t \in Threads,
         EndStatement(t) \/ FailStatement(t) \/ handle_error(t), ~leaked'
  PROVE  TrackInv'
<1>1. /\ engine.after \in Nat /\ ErrorStops(engine) \in Nat
      /\ MirrorInv /\ CallInv
  BY DEF StackInv, DbInv, DbTypeOK, Engines, ErrorStops
<1>2. Ongoing(None) = << >> /\ Len(Ongoing(None)) = 0
  BY NothingOngoing
<1>3. /\ local[t] # None
      /\ statement' = [statement EXCEPT ![t] = None] /\ UNCHANGED <<calls, next_id>>
      /\ \E k \in Nat : DoStops(t, k, Len(Ongoing(statement[t])))
  <2>1. CASE EndStatement(t) \/ FailStatement(t)
    <3>1. /\ statement[t] # None
          /\ statement' = [statement EXCEPT ![t] = None] /\ UNCHANGED <<calls, next_id>>
          /\ \E k \in Nat : DoStops(t, k, Len(statement[t]))
      BY <1>1, <2>1 DEF EndStatement, FailStatement
    <3>2. local[t] # None /\ Ongoing(statement[t]) = statement[t]
      BY <1>1, <3>1, MirrorFacts DEF Ongoing
    <3>. QED BY <3>1, <3>2
  <2>2. CASE handle_error(t)
    <3>1. /\ local[t] # None /\ statement[t] = None
          /\ UNCHANGED <<calls, next_id, statement>>
          /\ DoStops(t, ErrorStops(engine), 0)
      BY <2>2 DEF handle_error, InSession
    <3>2. statement' = [statement EXCEPT ![t] = None]
      BY <1>1, <3>1, MirrorFacts
    <3>. QED BY <1>1, <1>2, <3>1, <3>2
  <2>. QED BY <2>1, <2>2
<1>4. PICK k \in Nat : DoStops(t, k, Len(Ongoing(statement[t])))
  BY <1>3
<1>5. /\ SetLocal(t, AfterStops(local[t], Stops(local[t], k)))
      /\ collector' = collector \o StopsRecords(local[t], Stops(local[t], k))
      /\ leaked' = (leaked \/ k < Len(Ongoing(statement[t])))
  BY <1>4 DEF DoStops
<1>6. ~leaked /\ ~(k < Len(Ongoing(statement[t])))
  BY <1>5
<1>. QED BY <1>3, <1>5, <1>6, StopsKeepTrack

(* A notifier that delivers stores what it is given and does not raise.    *)
LEMMA DeliversIsReliable ==
  ASSUME Delivers
  PROVE  NeverRaises /\ \A o \in Outcomes : o.stored /\ ~o.raised
BY DEF Delivers, Delivered, NeverRaises

LEMMA OwnCallTracked ==
  ASSUME StackInv, TrackInv, ~leaked, Delivers, "requests" \notin Kinds, ~NestedWsgi,
         NEW t \in Threads, OwnCall(t)
  PROVE  TrackInv'
<1>1. statement[t] = None /\ UNCHANGED dbVars /\ CallStep(t)
  BY DEF OwnCall
<1>2. \A o \in Outcomes : o.stored /\ ~o.raised
  BY DeliversIsReliable
<1>3. ASSUME Raise(t) \/ Catch(t) PROVE TrackInv'
  <2>1. /\ UNCHANGED <<local, collector, next_id, calls, statement>>
        /\ ~leaked' => ~leaked
    BY <1>1, <1>3 DEF Raise, Catch, dbVars
  <2>. QED BY <2>1, TrackSame DEF StackInv
<1>4. ASSUME AppStep(t) PROVE TrackInv'
  <2>1. ASSUME NEW kind \in Kinds, NEW n \in AppNames, NEW o \in Outcomes, Enter(t, kind, n, o)
        PROVE  TrackInv'
    <3>1. n \in Names /\ o.stored
      BY <1>2 DEF AppNames
    <3>. QED BY <1>1, <2>1, <3>1, EnterTracked
  <2>2. ASSUME NEW o \in Outcomes, Leave(t, o) \/ Unwind(t, o) PROVE TrackInv'
    BY <1>1, <1>2, <2>2, LeaveTracked
  <2>3. \A n, o, oStop : o \in Outcomes => ~EnterTraceFails(t, n, o, oStop)
    BY <1>2 DEF EnterTraceFails, StartRaises
  <2>4. \A kind, n, o : o \in Outcomes => ~EnterFails(t, kind, n, o)
    BY <1>2 DEF EnterFails, StartRaises
  <2>. QED BY <1>3, <1>4, <2>1, <2>2, <2>3, <2>4 DEF AppStep
<1>5. ASSUME NEW o \in Outcomes, Serve(t, o) PROVE TrackInv'
  <2>1. PICK h \in Headers : EnterWsgi(t, h, o)
    BY <1>5, HeadersType, OutsideHeadersType DEF Serve, StackInv
  <2>. QED BY <1>1, <1>2, <2>1, ServeTracked
<1>. QED BY <1>1, <1>4, <1>5 DEF CallStep

TwoInv == StackInv /\ TrackInv

LEMMA TwoInvNext ==
  ASSUME Delivers, "requests" \notin Kinds, ~NestedWsgi
  PROVE  TwoInv /\ [DbNext]_<<callVars, dbVars>> => TwoInv'
<1>. SUFFICES ASSUME TwoInv, [DbNext]_<<callVars, dbVars>> PROVE TwoInv'
  OBVIOUS
<1>1. StackInv /\ TrackInv /\ CallInv /\ MirrorInv
  BY DEF TwoInv, StackInv
<1>2. StackInv'
  <2>1. Plain
    BY DeliversIsReliable DEF Plain
  <2>. QED BY <1>1, <2>1, StackInvNext
<1>3. ASSUME UNCHANGED <<callVars, statement, leaked>> PROVE TrackInv'
  <2>1. /\ UNCHANGED <<local, collector, next_id, calls, statement>>
        /\ ~leaked' => ~leaked
    BY <1>3 DEF callVars
  <2>. QED BY <1>1, <2>1, TrackSame
<1>4. ASSUME Switch PROVE UNCHANGED <<callVars, statement, leaked>>
  BY <1>4 DEF Switch
<1>5. ASSUME UNCHANGED <<callVars, dbVars>> PROVE UNCHANGED <<callVars, statement, leaked>>
  BY <1>5 DEF dbVars
<1>6. ASSUME NEW t \in Threads, WrapSession(t) \/ Attach(t)
      PROVE  UNCHANGED <<callVars, statement, leaked>>
  BY <1>6 DEF WrapSession, Attach
<1>7. ASSUME NEW t \in Threads, OwnCall(t) \/ BeginStatement(t) PROVE TrackInv'
  <2>1. leaked' = leaked
    BY <1>7 DEF OwnCall, BeginStatement, dbVars
  <2>2. CASE leaked
    BY <2>1, <2>2 DEF TrackInv
  <2>3. CASE ~leaked
    BY <1>1, <1>7, <2>3, OwnCallTracked, BeginTracked
  <2>. QED BY <2>2, <2>3
<1>8. ASSUME NEW t \in Threads, EndStatement(t) \/ FailStatement(t) \/ handle_error(t)
      PROVE  TrackInv'
  <2>1. CASE leaked'
    BY <2>1 DEF TrackInv
  <2>2. CASE ~leaked'
    BY <1>1, <1>8, <2>2, StatementTracked
  <2>. QED BY <2>1, <2>2
<1>9. DbNext => \/ Switch
                \/ \E t \in Threads :
                     \/ OwnCall(t)
                     \/ WrapSession(t) \/ Attach(t) \/ BeginStatement(t)
                     \/ EndStatement(t) \/ FailStatement(t) \/ handle_error(t)
  BY DEF DbNext
<1>. QED BY <1>2, <1>3, <1>4, <1>5, <1>6, <1>7, <1>8, <1>9 DEF TwoInv

LEMMA TwoInvInit == DbInit => TwoInv
<1>. SUFFICES ASSUME DbInit PROVE TwoInv
  OBVIOUS
<1>1. /\ local = [t \in Threads |-> None] /\ calls = [t \in Threads |-> << >>]
      /\ statement = [t \in Threads |-> None] /\ collector = << >>
  BY DEF DbInit, CallInit, Init
<1>2. OpenNow = {}
  BY <1>1 DEF OpenNow, OpenIds
<1>3. Accounts(collector, {}, next_id)
  <2>1. DOMAIN << >> = {} /\ << >> \in Seq(Notifications)
    OBVIOUS
  <2>. QED BY <1>1, <2>1 DEF Accounts
<1>4. PointsGrow(<< >>, next_id)
  <2>1. DOMAIN << >> = {}
    OBVIOUS
  <2>. QED BY <2>1 DEF PointsGrow, PointsIn
<1>5. \A t \in Threads : Tracked(local[t], calls[t], statement[t], next_id)
  BY <1>1, <1>4 DEF Tracked
<1>6. \A t \in Threads : OpenIds(local[t]) = {}
  BY <1>1 DEF OpenIds
<1>. QED BY <1>2, <1>3, <1>5, <1>6, StackInvInit DEF TwoInv, TrackInv

(* What is on a stack is a point in progress.                              *)
LEMMA OpenIsLive ==
  ASSUME TwoInv, ~leaked, NEW t \in Threads, NEW x \in OpenIds(local[t])
  PROVE  x \in LivePoints
<1>. DEFINE p == local[t]
            s == calls[t]
            T == p.trace_stack
            ids == Ongoing(statement[t])
            P == PointsInProgress(t)
<1>1. /\ CallInv /\ MirrorInv /\ Tracked(p, s, statement[t], next_id)
      /\ p # None => p \in Profilers /\ WellFormed(p)
      /\ s \in Seq(Calls)
  BY ThreadFacts DEF TwoInv
<1>2. p # None /\ x \in OpenOn(T)
  BY DEF OpenIds
<1>3. Len(T) \in Nat /\ Covered(T, s, ids)
  BY <1>1, <1>2, StackOfProfiler DEF Tracked
<1>4. PICK i \in 3 .. Len(T) : x = T[i]
  BY <1>2 DEF OpenOn
<1>5. PICK u \in 0 .. Len(s) : Split(p, s, u)
  BY <1>1, MirrorFacts
<1>6. /\ Len(s) \in Nat /\ DOMAIN s = 1 .. Len(s) /\ u \in Nat /\ u <= Len(s)
      /\ \A j \in 1 .. Len(s) : s[j].point = None <=> j <= u
  BY <1>1, <1>5, SplitFacts
<1>7. /\ P \in Seq(Ids) /\ Len(P) = (Len(s) - u) + Len(ids)
      /\ ids \in Seq(Ids)
      /\ \A j \in 1 .. (Len(s) - u) : P[j] = s[u + j].point
      /\ \A j \in 1 .. Len(ids) : P[(Len(s) - u) + j] = ids[j]
  BY <1>1, <1>5, PointsOf
<1>. HIDE DEF s, ids, T, P
<1>8. Len(ids) \in Nat /\ DOMAIN P = 1 .. Len(P)
  BY <1>7
<1>9. \E j \in DOMAIN P : P[j] = x
  <2>1. CASE i <= Len(T) - Len(ids)
    <3>1. i \in 3 .. (Len(T) - Len(ids))
      BY <1>3, <1>8, <2>1
    <3>2. x \in PointsIn(s)
      BY <1>3, <1>4, <3>1 DEF Covered
    <3>3. PICK j \in DOMAIN s : x = s[j].point /\ x # None
      BY <3>2 DEF PointsIn
    <3>4. j \in 1 .. Len(s) /\ ~(j <= u)
      BY <1>6, <3>3
    <3>5. j - u \in 1 .. (Len(s) - u) /\ u + (j - u) = j /\ j - u \in 1 .. Len(P)
      BY <1>6, <1>7, <1>8, <3>4
    <3>. QED BY <1>7, <1>8, <3>3, <3>5
  <2>2. CASE ~(i <= Len(T) - Len(ids))
    <3>. DEFINE j == i - (Len(T) - Len(ids))
    <3>1. j \in 1 .. Len(ids) /\ Len(T) - Len(ids) + j = i
      BY <1>3, <1>8, <2>2
    <3>2. T[i] = ids[j]
      BY <1>3, <3>1 DEF Covered
    <3>3. (Len(s) - u) + j \in 1 .. Len(P)
      BY <1>6, <1>7, <1>8, <3>1
    <3>. HIDE DEF j
    <3>. QED BY <1>4, <1>7, <1>8, <3>1, <3>2, <3>3
  <2>. QED BY <2>1, <2>2
<1>10. x \in Range(P)
  BY <1>9 DEF Range
<1>. QED BY <1>10 DEF LivePoints, P

LEMMA TwoInvRecords == TwoInv => TwoRecords
<1>. SUFFICES ASSUME TwoInv, ~leaked, NEW i \in DOMAIN collector,
                     collector[i].trace_id \notin LivePoints
              PROVE  Recorded2(collector[i].trace_id)
  BY DEF TwoRecords
<1>. DEFINE id == collector[i].trace_id
<1>1. id \notin OpenNow
  BY OpenIsLive DEF OpenNow
<1>2. Over(collector, id)
  BY <1>1 DEF TwoInv, TrackInv, Accounts
<1>. HIDE DEF id
<1>3. \A phase : RecordsOf(id, phase) = RecordsIn(collector, id, phase)
  BY DEF RecordsOf, RecordsIn
<1>4. Recorded2(id)
  BY <1>2, <1>3 DEF Over, Recorded2
<1>. QED BY <1>4 DEF id

(* "Every trace point creates 2 records": in any program whose notifier    *)
(* delivers, that has no send() left by an exception and no middleware     *)
(* inside another, a point whose call or statement is over was started     *)
(* once and then stopped once, also when errors outside of statements      *)
(* stopped points of calls before their time, as long as no statement left *)
(* a start over.                                                           *)
THEOREM PointsHaveTwoRecords ==
  ASSUME Delivers, "requests" \notin Kinds, ~NestedWsgi
  PROVE  DbSpec => []TwoRecords
BY TwoInvInit, TwoInvNext, TwoInvRecords, PTL DEF DbSpec
=============================================================================
