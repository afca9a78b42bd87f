----------------------------- MODULE LogInsight -----------------------------
(***************************************************************************)
(* LogInsightClient of drivers/loginsight.py, shared by threads that query *)
(* the server: query_events() tries again, once, after a login when the    *)
(* server answers that the session has timed out; login() holds a lock and *)
(* first asks whether another thread has logged in meanwhile.              *)
(*                                                                         *)
(* The server (its sessions, and when they expire) and the lock are        *)
(* external.  Sessions are numbered as the server grants them; send_event  *)
(* carries no session and is left out.                                     *)
(***************************************************************************)
EXTENDS Integers, FiniteSets

CONSTANTS
  Threads,
  Builder,      \* the thread that creates the driver
  None,
  MaxExpired,   \* BOUND: how many sessions expire
  MaxErrors     \* BOUND: how many requests fail, but for expired sessions

ASSUME BuilderAssumption == Builder \in Threads
ASSUME NoneAssumption == None \notin Threads \cup Nat
ASSUME BoundsAssumption == MaxExpired \in Nat /\ MaxErrors \in Nat

VARIABLES
  session_id,   \* self._session_id
  lock,         \* the thread that holds "li_login_lock", or None
  pc,           \* where every thread is
  attempt,      \* 0 in __init__, 1 and 2 in a query
  used,         \* the session in the header of the thread's last request
  refused,      \* the session of its first attempt
  active,       \* external: the sessions the server knows
  granted,      \* external: how many sessions it has granted
  expired, errors

client == <<session_id, lock, pc, attempt, used, refused>>
vars == <<client, active, granted, expired, errors>>

Ended == {"idle", "failed", "timedout"}
Locked == {"check", "login", "granted"}
Built == session_id # None

-----------------------------------------------------------------------------
Init == /\ session_id = None
        /\ lock = None
        /\ pc = [t \in Threads |-> "idle"]
        /\ attempt = [t \in Threads |-> 0]
        /\ used = [t \in Threads |-> None]
        /\ refused = [t \in Threads |-> None]
        /\ active = {} /\ granted = 0
        /\ expired = 0 /\ errors = 0

Goto(t, label) == pc' = [pc EXCEPT ![t] = label]
Attach(t, s) == used' = [used EXCEPT ![t] = s]
ServerWaits == UNCHANGED <<active, granted, expired>>

(* Any request may be answered with an error, or lose its connection.      *)
Error == errors < MaxErrors /\ errors' = errors + 1

(* __init__ of the driver logs in before other threads have the client.    *)
Construct ==
  /\ ~Built /\ pc[Builder] \in Ended
  /\ Goto(Builder, "lock")
  /\ UNCHANGED <<session_id, lock, attempt, used, refused, errors>> /\ ServerWaits

(* query_events(): the header has the session of the moment.               *)
Query(t) ==
  /\ Built /\ pc[t] \in Ended
  /\ Goto(t, "query")
  /\ attempt' = [attempt EXCEPT ![t] = 1]
  /\ Attach(t, session_id)
  /\ refused' = [refused EXCEPT ![t] = None]
  /\ UNCHANGED <<session_id, lock, errors>> /\ ServerWaits

Answered(t) ==
  /\ pc[t] = "query" /\ used[t] \in active
  /\ Goto(t, "idle")
  /\ UNCHANGED <<session_id, lock, attempt, used, refused, errors>> /\ ServerWaits

(* Status 440, LogInsightLoginTimeout: log in, if this was the first try.  *)
Refused(t) ==
  /\ pc[t] = "query" /\ used[t] \notin active
  /\ IF attempt[t] = 1
       THEN Goto(t, "lock") /\ refused' = [refused EXCEPT ![t] = used[t]]
       ELSE Goto(t, "timedout") /\ UNCHANGED refused
  /\ UNCHANGED <<session_id, lock, attempt, used, errors>> /\ ServerWaits

QueryFails(t) ==
  /\ pc[t] = "query"
  /\ Error
  /\ Goto(t, "failed")
  /\ UNCHANGED <<session_id, lock, attempt, used, refused>> /\ ServerWaits

-----------------------------------------------------------------------------
(* login(), which is synchronized.                                         *)
Mut_FreeLock(t) == TRUE
FreeLock(t) == lock = None
Mut_AfterLock == "login"
AfterLock == IF Built THEN "check" ELSE "login"

Acquire(t) ==
  /\ pc[t] = "lock" /\ FreeLock(t)
  /\ lock' = t
  /\ Goto(t, AfterLock)
  /\ Attach(t, session_id)
  /\ UNCHANGED <<session_id, attempt, refused, errors>> /\ ServerWaits

(* What login() is left for, the lock released: a query tries again, and   *)
(* __init__ is through.                                                    *)
LoggedIn(t) ==
  /\ lock' = None
  /\ Goto(t, IF attempt[t] = 0 THEN "idle" ELSE "retry")

SessionIsActive(t) ==
  /\ pc[t] = "check" /\ used[t] \in active
  /\ LoggedIn(t)
  /\ UNCHANGED <<session_id, attempt, used, refused, errors>> /\ ServerWaits

(* An answer with an error, of whatever kind, counts as no session.        *)
SessionIsNotActive(t) ==
  /\ pc[t] = "check"
  /\ \/ used[t] \notin active /\ UNCHANGED errors
     \/ Error
  /\ Goto(t, "login")
  /\ UNCHANGED <<session_id, lock, attempt, used, refused>> /\ ServerWaits

Grant(t) ==
  /\ pc[t] = "login"
  /\ granted' = granted + 1
  /\ active' = active \cup {granted'}
  /\ Goto(t, "granted")
  /\ Attach(t, granted')
  /\ UNCHANGED <<session_id, lock, attempt, refused, expired, errors>>

Login(t) ==
  /\ pc[t] = "granted"
  /\ session_id' = used[t]
  /\ LoggedIn(t)
  /\ UNCHANGED <<attempt, used, refused, errors>> /\ ServerWaits

(* A request that raises (no connection, a rejected password, an answer    *)
(* that is lost) leaves login(), and the lock, with the exception.         *)
Mut_LockAfterError(t) == lock
LockAfterError(t) == None
LoginFails(t) ==
  /\ pc[t] \in Locked
  /\ Error
  /\ lock' = LockAfterError(t)
  /\ Goto(t, "failed")
  /\ UNCHANGED <<session_id, attempt, used, refused>> /\ ServerWaits

(* The second try: its header has the session of that moment, which may be *)
(* that of another thread, logged in since the lock was released.          *)
Mut_RetryWith(t) == IF refused[t] = None THEN session_id ELSE refused[t]
RetryWith(t) == session_id
Retry(t) ==
  /\ pc[t] = "retry"
  /\ Goto(t, "query")
  /\ attempt' = [attempt EXCEPT ![t] = 2]
  /\ Attach(t, RetryWith(t))
  /\ UNCHANGED <<session_id, lock, refused, errors>> /\ ServerWaits

-----------------------------------------------------------------------------
Expire(s) ==
  /\ expired < MaxExpired
  /\ active' = active \ {s}
  /\ expired' = expired + 1
  /\ UNCHANGED <<client, granted, errors>>

Answer(t) == Answered(t) \/ Refused(t) \/ SessionIsActive(t)
             \/ SessionIsNotActive(t) \/ Grant(t) \/ Login(t) \/ Retry(t)

Next ==
  \/ \E t \in Threads : \/ Query(t) \/ Answer(t) \/ Acquire(t)
                        \/ QueryFails(t) \/ LoginFails(t)
  \/ Construct
  \/ \E s \in active : Expire(s)

(* The server answers (requests have no timeout: a connection that hangs   *)
(* would hold the lock), and a thread that waits for a free lock gets it.  *)
Spec == Init /\ [][Next]_vars
        /\ \A t \in Threads : WF_vars(Answer(t)) /\ WF_vars(Acquire(t))

-----------------------------------------------------------------------------
(* Properties.                                                             *)

(* The lock is held by the one thread that is inside login(), and by none  *)
(* when nobody is: it is released on every way out.                        *)
LoginTypeOK ==
  /\ session_id \in 1 .. granted \cup {None}
  /\ lock \in Threads \cup {None}
  /\ \A t \in Threads : /\ pc[t] \in Ended \cup Locked \cup {"query", "lock", "retry"}
                        /\ pc[t] \in Locked <=> lock = t
                        /\ used[t] \in 1 .. granted \cup {None}
  /\ active \subseteq 1 .. granted

(* However many threads find the session expired at the same time, they    *)
(* establish one new session for it: every session but the first was asked *)
(* for because one had expired, or because a request had failed.           *)
LoginsNeeded == granted <= 1 + expired + errors

(* A query tries again with another session than the one that was refused, *)
(* and gives up with a timeout only after two sessions expired under it.   *)
RetryHasNewSession ==
  \A t \in Threads : attempt[t] = 2 /\ pc[t] \in {"query", "timedout"} =>
    /\ refused[t] # None /\ used[t] > refused[t]
    /\ refused[t] \notin active
    /\ pc[t] = "timedout" => used[t] \notin active /\ expired >= 2

(* Every query ends, with an answer or an exception, also when its session *)
(* expires and logins fail around it.                                      *)
QueriesEnd == \A t \in Threads : pc[t] = "query" ~> pc[t] \in Ended
=============================================================================
