-------------------------------- MODULE Web --------------------------------
(***************************************************************************)
(* Services that pass a trace on to each other: which requests the         *)
(* WsgiMiddleware of web.py accepts, the keys that it checks and signs     *)
(* with, and how it is switched on and off, around the traced calls of     *)
(* TracePoints.  While requests are served, operators replace the key of   *)
(* all services and of the user by a new one, in the way that              *)
(* doc/source/user/integration.rst recommends.                             *)
(*                                                                         *)
(* External: an HMAC verifies with the key it was made with and no other.  *)
(* A request that the middleware does not accept is handed to the          *)
(* application unchanged, which is no step of this module; nor is one with *)
(* a signature that is not ASCII, which hmac.compare_digest() refuses with *)
(* a TypeError that fails the request (_utils.py:132).                     *)
(***************************************************************************)
EXTENDS TracePoints

CONSTANTS
  Services,
  ServiceOf,   \* of every thread, the service whose worker it is
  ByConf,      \* the services with a [profiler] section, the others have
               \* the middleware's options in api-paste.ini
  OldKey, NewKey,
  Stranger     \* a key that no service has

Keys == {OldKey, NewKey, Stranger}

ASSUME ServiceAssumption == ServiceOf \in [Threads -> Services] /\ ByConf \subseteq Services
ASSUME KeysAssumption == /\ OldKey # NewKey /\ Stranger \notin {OldKey, NewKey}
                         /\ None \notin Keys /\ \A K \in SUBSET Keys : None # K
                         /\ None \notin BOOLEAN

VARIABLES
  web,      \* the globals _ENABLED and _HMAC_KEYS of web.py in each service
  paste,    \* enabled and hmac_keys of its middleware
  hmac_key, \* of the profiler of every thread, None if it has none
  user_key  \* the key the user's client signs with

webVars == <<web, paste, hmac_key, user_key>>


-----------------------------------------------------------------------------
(* What a request carries: malformed stands for anything that does not     *)
(* decode to a base id and nothing but base and parent id.                 *)
Requests == [info : OutsideHeaders, malformed : BOOLEAN, signed_with : Keys \cup {None}]

IsEnabled(s) ==
  IF web[s].enabled # None THEN web[s].enabled ELSE paste[s].enabled
AcceptedKeys(s) == IF web[s].hmac_keys \notin {None, {}} THEN web[s].hmac_keys
                   ELSE paste[s].hmac_keys

(* signed_unpack() and _trace_is_valid(): the key that verifies, which the *)
(* profiler keeps to sign with.                                            *)
Mut_VerifiedKey(s, r) == IF NewKey \in AcceptedKeys(s) THEN NewKey ELSE r.signed_with
VerifiedKey(s, r) == r.signed_with
Mut_IsAccepted(s, r) == IsEnabled(s) /\ AcceptedKeys(s) # {} /\ ~r.malformed
IsAccepted(s, r) == /\ IsEnabled(s)
                    /\ r.signed_with \in AcceptedKeys(s)
                    /\ ~r.malformed

(* What send() in thread u puts into its request.                          *)
SentRequest(u) == [info        |-> get_trace_id_headers(local[u]),
                   malformed   |-> FALSE,
                   signed_with |-> hmac_key[u]]

-----------------------------------------------------------------------------
(* How the options of a service give it the keys ks when it starts.        *)
StartedGlobals(s, ks) ==
  IF s \in ByConf THEN [enabled |-> TRUE, hmac_keys |-> ks]
                  ELSE [enabled |-> None, hmac_keys |-> None]
StartedPaste(s, ks) ==
  IF s \in ByConf THEN [enabled |-> FALSE, hmac_keys |-> {}]
                  ELSE [enabled |-> TRUE, hmac_keys |-> ks]

WebInit ==
  /\ CallInit
  /\ web = [s \in Services |-> StartedGlobals(s, {OldKey})]
  /\ paste = [s \in Services |-> StartedPaste(s, {OldKey})]
  /\ hmac_key = [t \in Threads |-> None]
  /\ user_key = OldKey

(* The middleware's request: init() keeps a profiler with its key.         *)
Accept(t, r, o) ==
  /\ IsAccepted(ServiceOf[t], r)
  /\ EnterWsgi(t, r.info, o)
  /\ hmac_key' = [hmac_key EXCEPT ![t] =
       IF local'[t] = None THEN None
       ELSE IF local[t] = None THEN VerifiedKey(ServiceOf[t], r) ELSE @]
  /\ UNCHANGED <<web, paste, user_key>>

(* A request of the user, of somebody without the key, or of send().       *)
ServeUser(t, o) ==
  \E r \in Requests : /\ r.signed_with \in {user_key, Stranger, None}
                      /\ Accept(t, r, o)
ServeCall(t, o) ==
  \E u \in Threads : Requesting(u) /\ Accept(t, SentRequest(u), o)

ApplicationStep(t) ==
  /\ AppStep(t)
  /\ hmac_key' = [hmac_key EXCEPT ![t] = IF local'[t] = None THEN None ELSE @]
  /\ UNCHANGED <<web, paste, user_key>>

(* disable() and enable(), which have their callers in opts.py; a service  *)
(* without a [profiler] section enables without keys.                      *)
disable(s) ==
  /\ web' = [web EXCEPT ![s].enabled = FALSE]
  /\ UNCHANGED <<callVars, paste, hmac_key, user_key>>

enable(s) ==
  /\ web' = [web EXCEPT ![s] = [enabled   |-> TRUE,
                                hmac_keys |-> IF s \in ByConf THEN AcceptedKeys(s) ELSE {}]]
  /\ UNCHANGED <<callVars, paste, hmac_key, user_key>>

-----------------------------------------------------------------------------
(* The key upgrade: "adding a key into the list and rolling out that       *)
(* change and then removing the older key at some time in the future".     *)
(* A service gets a new list when it is restarted, with no request in      *)
(* progress; the old key goes when no trace uses it any more.              *)
Restart(s, ks) ==
  /\ \A t \in Threads : ServiceOf[t] = s => calls[t] = << >> /\ ~raising[t]
  /\ web' = [web EXCEPT ![s] = StartedGlobals(s, ks)]
  /\ paste' = [paste EXCEPT ![s] = StartedPaste(s, ks)]
  /\ UNCHANGED <<callVars, hmac_key, user_key>>

AddKey(s) ==
  /\ NewKey \notin AcceptedKeys(s)
  /\ Restart(s, {OldKey, NewKey})

SwitchUser ==
  /\ user_key = OldKey
  /\ \A s \in Services : NewKey \in AcceptedKeys(s)
  /\ user_key' = NewKey
  /\ UNCHANGED <<callVars, web, paste, hmac_key>>

RemoveKey(s) ==
  /\ user_key = NewKey
  /\ OldKey \in AcceptedKeys(s)
  /\ \A t \in Threads : hmac_key[t] # OldKey
  /\ Restart(s, {NewKey})

WebNext ==
  \/ \E t \in Threads : \/ ApplicationStep(t)
                        \/ \E o \in Outcomes : ServeUser(t, o) \/ ServeCall(t, o)
  \/ \E s \in Services : disable(s) \/ enable(s) \/ AddKey(s) \/ RemoveKey(s)
  \/ SwitchUser

WebSpec == WebInit /\ [][WebNext]_<<callVars, webVars>>

-----------------------------------------------------------------------------
(* Properties.                                                             *)

(* "The application of many possible validation keys makes it possible to  *)
(* roll out a key upgrade in a non-impactful manner": at every moment of   *)
(* it, whatever a service configured either way that is enabled has been   *)
(* through, it accepts the request that the user sends and every request   *)
(* that another service has sent it within a trace.                        *)
UpgradeHasNoImpact ==
  \A s \in Services : IsEnabled(s) =>
    /\ user_key \in AcceptedKeys(s)
    /\ \A u \in Threads : Requesting(u) => IsAccepted(s, SentRequest(u))

(* Only the user can start a trace: wherever a trace gets to from service  *)
(* to service, its key is one that was the user's, and the old one is in   *)
(* no profiler once a service has dropped it.                              *)
TracesAreOfTheUser ==
  \A t \in Threads : local[t] # None =>
    /\ hmac_key[t] \in {OldKey, user_key}
    /\ hmac_key[t] \in AcceptedKeys(ServiceOf[t])
=============================================================================
