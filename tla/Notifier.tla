------------------------------ MODULE Notifier ------------------------------
(***************************************************************************)
(* One process that gets its notifier: notifier.create() with its cache,   *)
(* and init_from_conf() of initializer.py, which several applications of   *)
(* the process may call at the same time and again later, while workers    *)
(* serve traced requests as soon as the middleware is enabled.  All of     *)
(* them read the same configuration, so the cache has one key, its         *)
(* connection string.                                                      *)
(*                                                                         *)
(* A notifier is a number: 0 is _noop_notifier, 1, 2, .. are the notify    *)
(* methods of the drivers in the order in which they are made.             *)
(***************************************************************************)
EXTENDS Integers

CONSTANTS
  Applications, \* the threads that call init_from_conf()
  Workers,      \* the threads that serve requests
  None,
  MaxDrivers,   \* BOUND: how many drivers are made
  MaxClears     \* BOUND: how often the cache is cleared

ASSUME BoundsAssumption == MaxDrivers \in Nat /\ MaxClears \in Nat
ASSUME NoneAssumption == None \notin Nat

VARIABLES
  cache,     \* the notifier cached for the connection string, None if none
  notifier,  \* __notifier, the one in use
  drivers,   \* how many drivers were made
  pc,        \* where each application is in init_from_conf(): "idle", "look",
             \* "make", "store", "read", "set", "enable" or "failed"
  result,    \* what it has in hand: a driver just made, then create()'s answer
  enabled,   \* web._ENABLED is TRUE
  point,     \* of every worker, the notifier that took the start record of
             \* its point, None if it has no open point
  clears,
  raced,     \* HISTORY: an application found no notifier in the cache while
             \* another was making one
  failed,    \* HISTORY: a driver could not be made
  split      \* HISTORY: the two records of a point went to two notifiers

history == <<raced, failed, split>>
vars == <<cache, notifier, drivers, pc, result, enabled, point, clears, history>>

Noop == 0

Making(i) == pc[i] \in {"make", "store"}
GoTo(i, step) == pc' = [pc EXCEPT ![i] = step]
Take(i, n) == result' = [result EXCEPT ![i] = n]

Init == /\ cache = None
        /\ notifier = Noop
        /\ drivers = 0
        /\ pc = [i \in Applications |-> "idle"]
        /\ result = [i \in Applications |-> None]
        /\ enabled = FALSE
        /\ point = [w \in Workers |-> None]
        /\ clears = 0
        /\ raced = FALSE /\ failed = FALSE /\ split = FALSE

-----------------------------------------------------------------------------
(* create(): the check of the cache, the making of the driver, the store   *)
(* of either the driver or the no-op notifier, and the read at the end.    *)

Begin(i) == /\ pc[i] \in {"idle", "failed"}
            /\ GoTo(i, "look")
            /\ UNCHANGED <<cache, notifier, drivers, result, enabled, point, clears, history>>

Mut_IsCachedDriver == cache \notin {None, Noop}
Mut_IsCachedNever == FALSE
IsCached == cache # None

Look(i) ==
  /\ pc[i] = "look"
  /\ GoTo(i, IF IsCached THEN "read" ELSE "make")
  /\ raced' = (raced \/ (~IsCached /\ \E j \in Applications : Making(j)))
  /\ UNCHANGED <<cache, notifier, drivers, result, enabled, point, clears, failed, split>>

get_driver(i) ==
  /\ pc[i] = "make"
  /\ \/ /\ drivers < MaxDrivers
        /\ drivers' = drivers + 1
        /\ Take(i, drivers + 1)
        /\ UNCHANGED failed
     \/ /\ Take(i, Noop)
        /\ failed' = TRUE
        /\ UNCHANGED drivers
  /\ GoTo(i, "store")
  /\ UNCHANGED <<cache, notifier, enabled, point, clears, raced, split>>

Cached(n) == n

Store(i) ==
  /\ pc[i] = "store"
  /\ cache' = Cached(result[i])
  /\ GoTo(i, "read")
  /\ UNCHANGED <<notifier, drivers, result, enabled, point, clears, history>>

(* The entry may be gone again: create() raises a KeyError, and with it    *)
(* init_from_conf().                                                       *)
Answered == IF cache = None THEN "failed" ELSE "set"

Read(i) ==
  /\ pc[i] = "read"
  /\ Take(i, cache)
  /\ GoTo(i, Answered)
  /\ UNCHANGED <<cache, notifier, drivers, enabled, point, clears, history>>

clear_notifier_cache ==
  /\ clears < MaxClears
  /\ cache # None
  /\ cache' = None
  /\ clears' = clears + 1
  /\ UNCHANGED <<notifier, drivers, pc, result, enabled, point, history>>

-----------------------------------------------------------------------------
(* The rest of init_from_conf(): notifier.set() and then web.enable().     *)
Mut_EnableIn == "set"
EnableIn == "enable"

After(step) == IF step = "set" THEN "enable" ELSE "idle"

Set(i) ==
  /\ pc[i] = "set"
  /\ notifier' = result[i]
  /\ GoTo(i, After(pc[i]))
  /\ UNCHANGED <<cache, drivers, result, enabled, point, clears, history>>

Enable(i) ==
  /\ pc[i] = EnableIn
  /\ enabled' = TRUE
  /\ GoTo(i, After(pc[i]))
  /\ UNCHANGED <<cache, notifier, drivers, result, point, clears, history>>

-----------------------------------------------------------------------------
(* A worker opens a point and closes it; each sends its record to the      *)
(* notifier in use.                                                        *)
StartPoint(w) ==
  /\ enabled
  /\ point[w] = None
  /\ point' = [point EXCEPT ![w] = notifier]
  /\ UNCHANGED <<cache, notifier, drivers, pc, result, enabled, clears, history>>

StopPoint(w) ==
  /\ point[w] # None
  /\ split' = (split \/ point[w] # notifier)
  /\ point' = [point EXCEPT ![w] = None]
  /\ UNCHANGED <<cache, notifier, drivers, pc, result, enabled, clears, raced, failed>>

Next ==
  \/ \E i \in Applications : \/ Begin(i) \/ Look(i) \/ get_driver(i) \/ Store(i)
                             \/ Read(i) \/ Set(i) \/ Enable(i)
  \/ clear_notifier_cache
  \/ \E w \in Workers : StartPoint(w) \/ StopPoint(w)

Spec == Init /\ [][Next]_vars

-----------------------------------------------------------------------------
(* Properties.                                                             *)

(* A connection string has one driver for the life of the process, which   *)
(* everybody who asked for it uses and which gets both records of every    *)
(* point, however often the applications initialize again, unless two of   *)
(* them asked at the same time or the cache was cleared; and it is only    *)
(* when the cache is cleared meanwhile that create() does not answer.      *)
InUse == ({notifier} \cup {result[i] : i \in Applications}) \ {None, Noop}
OneDriver ==
  /\ ~raced /\ clears = 0 => /\ drivers <= 1 /\ ~split
                             /\ \A n \in InUse : cache \in {n, None}
  /\ (\E i \in Applications : pc[i] = "failed") => clears > 0

(* A traced request is recorded: the middleware accepts none before the    *)
(* notifier is set, so while it does, records go to a driver or making one *)
(* has failed.                                                             *)
EnabledIsRecorded == enabled /\ ~failed => notifier # Noop

(* What create() once answered it answers from then on, be it the no-op    *)
(* notifier of a driver that could not be made, until the cache is         *)
(* cleared; where several made a driver, until the last of them stored it. *)
AnswerSticks ==
  [][cache # None /\ cache' # cache =>
       clears' > clears \/ (raced /\ \E i \in Applications : Making(i))]_vars
=============================================================================
