------------------------ MODULE ImpersonationSession ------------------------
(***************************************************************************)
(* "Log in as another user": one dedicated worker process holds one open   *)
(* database Session whose writes are meant to be rolled back               *)
(* (impersonation_session_holder.py); Redis holds the claim of the one     *)
(* active impersonation and the worker's heartbeat lease                   *)
(* (impersonation_lock.py); impersonation_service.py starts, verifies,     *)
(* uses and ends it, and services.call routes every service of an          *)
(* impersonated request into the held Session.                             *)
(*                                                                         *)
(* Actors are the request threads of the worker, the request threads of    *)
(* other processes that may force an end, and the worker's five-second     *)
(* cleanup job.  Each action is one Redis command, one audit transaction   *)
(* or one critical section of the holder's mutex.                          *)
(***************************************************************************)
EXTENDS Naturals

CONSTANTS
    Ids,         \* impersonation ids, a fresh one for every start
    Threads,     \* request threads of the dedicated worker
    Remotes,     \* request threads of other processes
    Cleaner,     \* the stale-session cleanup job of the worker
    Ops,         \* which requests the impersonated browser sends
    Faults,      \* which of the failures below may happen
    MaxFaults,   \* bound on how many of the counted ones do
    None

Requests ==
    { "update",         \* /impersonation/update and update-again
      "info",           \* /impersonation/state
      "call",           \* any endpoint that goes through services.call
      "login",          \* /okta/login and /okta/callback, by services.call too
      "logout",         \* /impersonation/logout
      "auth_logout" }   \* /auth/logout: services.call around the same logout

FaultKinds ==
    { "ttl",        \* the impersonation's lifetime passes
      "lease",      \* the heartbeat lease passes (not counted)
      "crash",      \* the worker process dies and is restarted
      "body",       \* the service of a request raises
      "rollback",   \* the Session's rollback raises
      "store",      \* a Redis command or an audit transaction raises
      "busy" }      \* thirty seconds pass waiting for the mutex

ASSUME ConstantsAssumption ==
    /\ Ops \subseteq Requests
    /\ Faults \subseteq FaultKinds
    /\ MaxFaults \in Nat
    /\ Threads \cap Remotes = {} /\ Cleaner \notin Threads \cup Remotes
    /\ None \notin Ids \cup Threads \cup Remotes \cup {Cleaner}

Local == Threads \cup {Cleaner}
Actors == Local \cup Remotes

VARIABLES
    active, lease,      \* Redis: impersonation:active and impersonation:lease
    mutex, held,        \* the holder: its lock and the Session's owner
    writes, durable,    \* whose writes the transaction holds; were committed
    opened,             \* ids ever opened
    audit,              \* tblm_impersonation_audit: status, reason once ended
    pc, rid, op, old,   \* actor: step, impersonation, purpose, replaced one
    used, issued,       \* ids generated by a start; ids whose token was sent
    aged,               \* ids whose lifetime has passed
    faults              \* counted failures so far

redisVars == <<active, lease>>
sessionVars == <<held, writes, durable, opened>>
actorVars == <<pc, rid, op, old>>
idVars == <<used, issued>>
vars == <<redisVars, mutex, sessionVars, audit, actorVars, idVars, aged,
          faults>>

Reasons ==
    {"explicit_logout", "expired", "worker_crash_detected", "request_error",
     "force_ended_by_admin"}
Purposes == Requests \cup Reasons \cup {"start", "none"}
StartSteps ==
    {"cleanup", "claim", "audit_replaced", "close_replaced", "hold",
     "audit_active"}
EndSteps == {"has", "rollback", "close", "audit", "release"}
Steps ==
    StartSteps \cup EndSteps \cup
    {"idle", "stale_active", "stale_lease", "auth", "verify", "heartbeat",
     "enter", "body"}

TypeOK ==
    /\ active \in Ids \cup {None} /\ lease \in BOOLEAN
    /\ mutex \in Local \cup {None}
    /\ held \in Ids \cup {None} /\ opened \subseteq Ids
    /\ writes \subseteq Ids /\ durable \subseteq Ids
    /\ audit \in [Ids -> {"none", "active"} \cup Reasons]
    /\ pc \in [Actors -> Steps]
    /\ rid \in [Actors -> Ids \cup {None}]
    /\ op \in [Actors -> Purposes]
    /\ old \in [Actors -> Ids \cup {None}]
    /\ used \subseteq Ids /\ issued \subseteq Ids
    /\ aged \subseteq Ids
    /\ faults \in Nat

Init ==
    /\ active = None /\ lease = FALSE
    /\ mutex = None /\ held = None
    /\ writes = {} /\ durable = {} /\ opened = {}
    /\ audit = [i \in Ids |-> "none"]
    /\ pc = [a \in Actors |-> "idle"] /\ rid = [a \in Actors |-> None]
    /\ op = [a \in Actors |-> "none"] /\ old = [a \in Actors |-> None]
    /\ used = {} /\ issued = {} /\ aged = {}
    /\ faults = 0

-----------------------------------------------------------------------------
(* Failures and the control flow of one actor.                             *)

Fault(kind) ==
    /\ kind \in Faults /\ faults < MaxFaults
    /\ faults' = faults + 1

Goto(a, step) ==
    /\ pc' = [pc EXCEPT ![a] = step]
    /\ UNCHANGED <<rid, op, old>>

Return(a) ==
    /\ pc' = [pc EXCEPT ![a] = "idle"]
    /\ rid' = [rid EXCEPT ![a] = None]
    /\ op' = [op EXCEPT ![a] = "none"]
    /\ old' = [old EXCEPT ![a] = None]

Begin(a, step, i, purpose) ==
    /\ pc[a] = "idle"
    /\ pc' = [pc EXCEPT ![a] = step]
    /\ rid' = [rid EXCEPT ![a] = i]
    /\ op' = [op EXCEPT ![a] = purpose]
    /\ UNCHANGED old

(* Calling end_impersonation(rid[a], reason).                              *)
End(a, reason) ==
    /\ pc' = [pc EXCEPT ![a] = "has"]
    /\ op' = [op EXCEPT ![a] = reason]
    /\ UNCHANGED <<rid, old>>

(* The event loop runs the authentication of every request and the whole   *)
(* of the async /auth/logout; meanwhile no other request and no tick of    *)
(* the scheduler is accepted.                                              *)
LoopBusy ==
    \E t \in Threads :
        \/ pc[t] = "auth"
        \/ op[t] = "auth_logout"
        \/ pc[t] = "has" /\ mutex = t

-----------------------------------------------------------------------------
(* impersonation_session_holder: the state behind _session_lock.           *)

CloseSession ==
    held' = None /\ writes' = {} /\ UNCHANGED <<durable, opened>>

(* rollback() raises: close() still drops the transaction, but the module  *)
(* globals keep pointing at the Session.                                   *)
CloseRaises ==
    Fault("rollback") /\ writes' = {} /\ UNCHANGED <<held, durable, opened>>

(* Mutant: end_session() without the lock.                                 *)
EndUnlocked(t, next) ==
    /\ CloseSession /\ Goto(t, next)
    /\ UNCHANGED <<redisVars, mutex, audit, idVars, aged, faults>>

(* end_session() *)
EndSession(t, next) ==
    /\ mutex = None
    /\ \/ /\ CloseSession /\ Goto(t, next) /\ UNCHANGED faults
       \/ /\ held # None /\ CloseRaises /\ Return(t)
    /\ UNCHANGED <<redisVars, mutex, audit, idVars, aged>>

-----------------------------------------------------------------------------
(* end_session_if_stale(_is_session_stale), at the start of every start    *)
(* and on every tick of the cleanup job.                                   *)

AfterCleanup(a) == IF a = Cleaner THEN Return(a) ELSE Goto(a, "claim")

CleanupTick ==
    /\ pc[Cleaner] = "idle" /\ ~LoopBusy
    /\ mutex = None /\ held # None
    /\ mutex' = Cleaner
    /\ Goto(Cleaner, "stale_active")
    /\ UNCHANGED <<redisVars, sessionVars, audit, idVars, aged, faults>>

CleanupBeforeStart(t) ==
    /\ pc[t] = "cleanup"
    /\ IF mutex = None /\ held # None
       THEN mutex' = t /\ Goto(t, "stale_active")
       ELSE UNCHANGED mutex /\ Goto(t, "claim")
    /\ UNCHANGED <<redisVars, sessionVars, audit, idVars, aged, faults>>

CloseStale(a) ==
    /\ mutex' = None
    /\ \/ CloseSession /\ AfterCleanup(a) /\ UNCHANGED faults
       \/ CloseRaises /\ Return(a)
    /\ UNCHANGED <<redisVars, audit, idVars, aged>>

(* Mutant: redis_active_replaced is forgotten.                             *)
Missing == active = None

(* redis_active_missing or redis_active_replaced *)
Superseded == active # held

StaleActive(a) ==
    /\ pc[a] = "stale_active"
    /\ Superseded
    /\ CloseStale(a)

StillActive(a) ==
    /\ pc[a] = "stale_active"
    /\ ~Superseded
    /\ Goto(a, "stale_lease")
    /\ UNCHANGED <<redisVars, mutex, sessionVars, audit, idVars, aged, faults>>

StaleLease(a) ==
    /\ pc[a] = "stale_lease"
    /\ ~lease
    /\ CloseStale(a)

(* Mutant: the early return of the healthy case keeps the mutex.           *)
HealthyLocked(a) ==
    /\ pc[a] = "stale_lease"
    /\ lease
    /\ AfterCleanup(a)
    /\ UNCHANGED <<redisVars, mutex, sessionVars, audit, idVars, aged, faults>>

Healthy(a) ==
    /\ pc[a] = "stale_lease"
    /\ lease
    /\ mutex' = None
    /\ AfterCleanup(a)
    /\ UNCHANGED <<redisVars, sessionVars, audit, idVars, aged, faults>>

-----------------------------------------------------------------------------
(* start_impersonation                                                     *)

StartBegin(t, i) ==
    /\ ~LoopBusy
    /\ i \notin used
    /\ used' = used \cup {i}
    /\ Begin(t, "cleanup", i, "start")
    /\ UNCHANGED <<redisVars, mutex, sessionVars, audit, issued, aged,
                   faults>>

(* The claim script: refused while both keys exist (409).                  *)
Claimable == active = None \/ ~lease

TryClaim(t) ==
    /\ pc[t] = "claim"
    /\ Claimable
    /\ active' = rid[t] /\ lease' = TRUE
    /\ old' = [old EXCEPT ![t] = active]
    /\ pc' = [pc EXCEPT ![t] =
                 IF active = None THEN "hold" ELSE "audit_replaced"]
    /\ UNCHANGED <<rid, op, mutex, sessionVars, audit, idVars, aged, faults>>

ClaimRefused(t) ==
    /\ pc[t] = "claim"
    /\ ~Claimable
    /\ Return(t)
    /\ UNCHANGED <<redisVars, mutex, sessionVars, audit, idVars, aged, faults>>

(* Mutants: an end that creates the row; the status in the reason column.  *)
EndedOrCreated(i, reason) == [audit EXCEPT ![i] = reason]
EndedStatus(i, reason) ==
    [audit EXCEPT ![i] = IF @ = "none" THEN @ ELSE "ended"]

(* _save_audit_entry of an end: a row that is not there is not created.    *)
Ended(i, reason) ==
    [audit EXCEPT ![i] = IF @ = "none" THEN @ ELSE reason]

AuditReplaced(t) ==
    /\ pc[t] = "audit_replaced"
    /\ audit' = Ended(old[t], "worker_crash_detected")
    /\ Goto(t, "close_replaced")
    /\ UNCHANGED <<redisVars, mutex, sessionVars, idVars, aged, faults>>

CloseReplaced(t) ==
    /\ pc[t] = "close_replaced"
    /\ EndSession(t, "hold")

(* start_session: a RuntimeError when a Session is still held.             *)
StartSession(t) ==
    /\ pc[t] = "hold"
    /\ mutex = None
    /\ held = None
    /\ held' = rid[t] /\ opened' = opened \cup {rid[t]}
    /\ Goto(t, "audit_active")
    /\ UNCHANGED <<redisVars, mutex, writes, durable, audit, idVars, aged,
                   faults>>

StillHeld(t) ==
    /\ pc[t] = "hold"
    /\ mutex = None
    /\ held # None
    /\ Return(t)
    /\ UNCHANGED <<redisVars, mutex, sessionVars, audit, idVars, aged, faults>>

AuditActive(t) ==
    /\ pc[t] = "audit_active"
    /\ audit' = [audit EXCEPT ![rid[t]] = "active"]
    /\ Goto(t, "enter")
    /\ UNCHANGED <<redisVars, mutex, sessionVars, idVars, aged, faults>>

-----------------------------------------------------------------------------
(* A request with an impersonation token.  _authenticate_impersonation     *)
(* checks the claim and renews the lease in two Redis calls.               *)

RequestBegin(t, i, o) ==
    /\ ~LoopBusy
    /\ i \in issued
    /\ active = i
    /\ Begin(t, "auth", i, o)
    /\ UNCHANGED <<redisVars, mutex, sessionVars, audit, idVars, aged, faults>>

RefreshHeartbeat(t) ==
    /\ pc[t] = "auth"
    /\ lease' = TRUE
    /\ Goto(t, "verify")
    /\ UNCHANGED <<active, mutex, sessionVars, audit, idVars, aged, faults>>

(* _check_ownership, then verify_impersonation except for a logout.        *)
NotOwner(t) ==
    /\ pc[t] = "verify"
    /\ active # rid[t]
    /\ Return(t)
    /\ UNCHANGED <<redisVars, mutex, sessionVars, audit, idVars, aged, faults>>

VerifyOwner(t) ==
    /\ pc[t] = "verify"
    /\ active = rid[t]
    /\ IF op[t] = "logout" THEN End(t, "explicit_logout")
       ELSE IF rid[t] \in aged THEN End(t, "expired")
       ELSE Goto(t, "heartbeat")
    /\ UNCHANGED <<redisVars, mutex, sessionVars, audit, idVars, aged, faults>>

(* check_and_refresh_worker_heartbeat                                      *)
CheckHeartbeat(t) ==
    /\ pc[t] = "heartbeat"
    /\ IF lease THEN Goto(t, "enter") ELSE End(t, "worker_crash_detected")
    /\ UNCHANGED <<redisVars, mutex, sessionVars, audit, idVars, aged, faults>>

-----------------------------------------------------------------------------
(* use_session, around the body of a request and of a start.               *)

(* Mutant: use_session without the id comparison.                          *)
AnySession(t) == held # None

Matching(t) == held = rid[t]

EnterSession(t) ==
    /\ pc[t] = "enter"
    /\ mutex = None
    /\ Matching(t)
    /\ mutex' = t
    /\ Goto(t, "body")
    /\ UNCHANGED <<redisVars, sessionVars, audit, idVars, aged, faults>>

(* The requests whose errors end the impersonation in services.call.       *)
Called == {"call", "login", "auth_logout"}

(* ImpersonationSessionNotFoundError                                       *)
NotFound(t) ==
    /\ pc[t] = "enter"
    /\ mutex = None
    /\ ~Matching(t)
    /\ CASE op[t] \in {"update", "info"} -> End(t, "worker_crash_detected")
         [] op[t] \in Called -> End(t, "request_error")
         [] OTHER -> Return(t)
    /\ UNCHANGED <<redisVars, mutex, sessionVars, audit, idVars, aged, faults>>

(* TimeoutError: 503, and a 500 for a start.                               *)
Busy(t) ==
    /\ pc[t] \in {"enter", "rollback"}
    /\ mutex # None
    /\ Fault("busy")
    /\ Return(t)
    /\ UNCHANGED <<redisVars, mutex, sessionVars, audit, idVars, aged>>

(* The body flushes its writes or none, and returns or raises an           *)
(* HTTPException; services.call commits nothing.                           *)
BodyReturns(t) ==
    /\ pc[t] = "body" /\ op[t] # "auth_logout"
    /\ \/ UNCHANGED writes
       \/ /\ op[t] \in {"update", "call", "login"}
          /\ writes' = writes \cup {rid[t]}
    /\ issued' = IF op[t] = "start" THEN issued \cup {rid[t]} ELSE issued
    /\ mutex' = None
    /\ Return(t)
    /\ UNCHANGED <<redisVars, held, durable, opened, audit, used, aged,
                   faults>>

(* A login from a browser that has no matching session row inserts one and *)
(* commits the Session it was given; the refresh that follows needs a      *)
(* connection, which db_guard refuses to an impersonated request.          *)
LoginCommits(t) ==
    /\ pc[t] = "body" /\ op[t] = "login"
    /\ durable' = durable \cup writes \cup {rid[t]} /\ writes' = {}
    /\ mutex' = None
    /\ End(t, "request_error")
    /\ UNCHANGED <<redisVars, held, opened, audit, idVars, aged, faults>>

BodyRaises(t) ==
    /\ pc[t] = "body"
    /\ Fault("body")
    /\ mutex' = None
    /\ IF op[t] \in Called \cup {"update"}
       THEN End(t, "request_error") ELSE Return(t)
    /\ UNCHANGED <<redisVars, sessionVars, audit, idVars, aged>>

(* /auth/logout calls impersonation_service.logout inside services.call,   *)
(* so its end_impersonation starts with the mutex already taken; a lost    *)
(* claim or a Redis error on the way is swallowed.                         *)
NestedLogout(t) ==
    /\ pc[t] = "body" /\ op[t] = "auth_logout"
    /\ \/ /\ active = rid[t]
          /\ End(t, "explicit_logout") /\ UNCHANGED <<mutex, faults>>
       \/ /\ (active # rid[t] /\ UNCHANGED faults) \/ Fault("store")
          /\ mutex' = None /\ Return(t)
    /\ UNCHANGED <<redisVars, sessionVars, audit, idVars, aged>>

-----------------------------------------------------------------------------
(* end_impersonation, and the two ways into it by admin token.             *)

(* force_end, or the status request that finds the lifetime over.          *)
EndByAdmin(a, i, reason) ==
    /\ a \in Threads => ~LoopBusy
    /\ active = i
    /\ reason = "expired" => i \in aged
    /\ Begin(a, "has", i, reason)
    /\ UNCHANGED <<redisVars, mutex, sessionVars, audit, idVars, aged, faults>>

(* has_session: another process holds no Session and no such mutex.        *)
HasSession(a) ==
    /\ pc[a] = "has"
    /\ a \in Threads => mutex = None
    /\ Goto(a, IF a \in Threads /\ Matching(a) THEN "rollback" ELSE "audit")
    /\ UNCHANGED <<redisVars, mutex, sessionVars, audit, idVars, aged, faults>>

(* use_session: session.rollback(); a Session that went away or a rollback *)
(* that raises leaves end_impersonation before the audit and the release.  *)
RollbackSession(t) ==
    /\ pc[t] = "rollback"
    /\ mutex = None
    /\ \/ Matching(t) /\ writes' = {} /\ Goto(t, "close") /\ UNCHANGED faults
       \/ Matching(t) /\ Fault("rollback") /\ writes' = {} /\ Return(t)
       \/ ~Matching(t) /\ Return(t) /\ UNCHANGED <<writes, faults>>
    /\ UNCHANGED <<redisVars, mutex, held, durable, opened, audit, idVars,
                   aged>>

(* Mutant: the Session is rolled back and left open.                       *)
RollbackOnly(t) ==
    /\ pc[t] = "close"
    /\ Goto(t, "audit")
    /\ UNCHANGED <<redisVars, mutex, sessionVars, audit, idVars, aged, faults>>

(* end_session() closes whichever Session is held by now.                  *)
CloseEnded(t) ==
    /\ pc[t] = "close"
    /\ EndSession(t, "audit")

AuditEnd(a) ==
    /\ pc[a] = "audit"
    /\ audit' = Ended(rid[a], op[a])
    /\ Goto(a, "release")
    /\ UNCHANGED <<redisVars, mutex, sessionVars, idVars, aged, faults>>

(* Mutant: the release script without the comparison.                      *)
ReleaseAny(a) ==
    /\ pc[a] = "release"
    /\ active' = None /\ lease' = FALSE
    /\ Return(a)
    /\ UNCHANGED <<mutex, sessionVars, audit, idVars, aged, faults>>

(* The release script compares the id before it deletes both keys.         *)
Release(a) ==
    /\ pc[a] = "release"
    /\ IF active = rid[a] THEN active' = None /\ lease' = FALSE
                          ELSE UNCHANGED redisVars
    /\ Return(a)
    /\ UNCHANGED <<mutex, sessionVars, audit, idVars, aged, faults>>

-----------------------------------------------------------------------------
(* Failures and time.                                                      *)

(* A Redis command or an audit transaction raises: the request fails, and  *)
(* the holder's finally gives the mutex back.                              *)
StoreRaises(a) ==
    /\ pc[a] \in {"stale_active", "stale_lease", "claim", "audit_replaced",
                  "audit_active", "auth", "verify", "heartbeat", "audit",
                  "release"}
    /\ Fault("store")
    /\ mutex' = IF mutex = a THEN None ELSE mutex
    /\ Return(a)
    /\ UNCHANGED <<redisVars, sessionVars, audit, idVars, aged>>

Crash ==
    /\ Fault("crash")
    /\ mutex' = None /\ held' = None /\ writes' = {}
    /\ pc' = [a \in Actors |-> IF a \in Local THEN "idle" ELSE pc[a]]
    /\ rid' = [a \in Actors |-> IF a \in Local THEN None ELSE rid[a]]
    /\ op' = [a \in Actors |-> IF a \in Local THEN "none" ELSE op[a]]
    /\ old' = [a \in Actors |-> IF a \in Local THEN None ELSE old[a]]
    /\ UNCHANGED <<redisVars, durable, opened, audit, idVars, aged>>

LeaseLapses ==
    /\ "lease" \in Faults
    /\ lease
    /\ lease' = FALSE
    /\ UNCHANGED <<active, mutex, sessionVars, audit, actorVars, idVars,
                   aged, faults>>

(* is_expired turns true, and the key's TTL passes no earlier.             *)
Age(i) ==
    /\ Fault("ttl")
    /\ i \in used \ aged
    /\ aged' = aged \cup {i}
    /\ UNCHANGED <<redisVars, mutex, sessionVars, audit, actorVars, idVars>>

ActiveExpires ==
    /\ active \in aged
    /\ active' = None
    /\ UNCHANGED <<lease, mutex, sessionVars, audit, actorVars, idVars,
                   aged, faults>>

-----------------------------------------------------------------------------
CleanupStep(a) ==
    StaleActive(a) \/ StillActive(a) \/ StaleLease(a) \/ Healthy(a)

StartStep(t) ==
    \/ CleanupBeforeStart(t) \/ CleanupStep(t)
    \/ TryClaim(t) \/ ClaimRefused(t) \/ AuditReplaced(t) \/ CloseReplaced(t)
    \/ StartSession(t) \/ StillHeld(t) \/ AuditActive(t)

UseStep(t) ==
    \/ RefreshHeartbeat(t)
    \/ NotOwner(t) \/ VerifyOwner(t) \/ CheckHeartbeat(t)
    \/ EnterSession(t) \/ NotFound(t)
    \/ BodyReturns(t) \/ LoginCommits(t) \/ NestedLogout(t)

EndStep(a) == HasSession(a) \/ AuditEnd(a) \/ Release(a)

LocalEndStep(t) == RollbackSession(t) \/ CloseEnded(t)

ThreadStep(t) == StartStep(t) \/ UseStep(t) \/ EndStep(t) \/ LocalEndStep(t)

CleanerStep == CleanupTick \/ CleanupStep(Cleaner)

Client ==
    \/ \E t \in Threads, i \in Ids :
          StartBegin(t, i) \/ \E o \in Ops : RequestBegin(t, i, o)
    \/ \E a \in Threads \cup Remotes, i \in Ids,
          reason \in {"force_ended_by_admin", "expired"} :
             EndByAdmin(a, i, reason)

Failure ==
    \/ \E t \in Threads : Busy(t) \/ BodyRaises(t)
    \/ \E a \in Actors : StoreRaises(a)
    \/ Crash

Time == LeaseLapses \/ ActiveExpires \/ \E i \in Ids : Age(i)

Next ==
    \/ Client
    \/ \E t \in Threads : ThreadStep(t)
    \/ \E r \in Remotes : EndStep(r)
    \/ CleanerStep
    \/ Failure
    \/ Time

Spec == Init /\ [][Next]_vars

(* A thread that waits for the mutex competes with the cleanup job, which  *)
(* leaves it free for seconds between ticks: strong fairness.              *)
FairSpec ==
    /\ Spec
    /\ \A t \in Threads : SF_vars(ThreadStep(t))
    /\ \A r \in Remotes : WF_vars(EndStep(r))
    /\ WF_vars(CleanerStep)

-----------------------------------------------------------------------------
(* Properties.                                                             *)

(* The Session that a request or a start uses stays its own until it lets  *)
(* the mutex go: no end, cleanup or start closes or replaces it meanwhile. *)
BodyKeepsSession ==
    \A t \in Threads : pc[t] = "body" => mutex = t /\ held = rid[t]

(* The worker implements the promise of SandboxSession, as long as no      *)
(* login goes through the held Session.                                    *)
Sandbox ==
    INSTANCE SandboxSession
        WITH session <- held, pending <- writes, committed <- durable

ImplementsSandbox == Sandbox!Spec

(* An impersonation whose heartbeat is there loses its claim to nothing    *)
(* but an end of its own or its lifetime: not to the late end of an        *)
(* earlier impersonation and not to a new start.                           *)
ClaimLostToOwnEnd ==
    [][\A i \in Ids :
          active = i /\ lease /\ active' # i =>
             i \in aged \/ \E a \in Actors : pc[a] = "release" /\ rid[a] = i
      ]_vars

(* The audit row of an impersonation that was ended never says active      *)
(* again, however its start and ends interleave.                           *)
EndIsFinal ==
    [][\A i \in Ids : audit[i] \in Reasons => audit'[i] \in Reasons]_vars

(* When the end of a request that came with an impersonation token is done,*)
(* the worker no longer holds that impersonation's transaction.            *)
OwnEnds == {"explicit_logout", "request_error", "worker_crash_detected"}
EndClosesSession ==
    \A t \in Threads :
        pc[t] = "release" /\ op[t] \in OwnEnds => held # rid[t]

(* A Session whose claim is gone is closed, by the next start or by the    *)
(* cleanup job, whichever process ended the claim.                         *)
StaleSessionClosed ==
    \A i \in Ids : (held = i /\ active # i) ~> held # i

(* Every request and start returns: no thread waits for the mutex forever. *)
RequestsReturn == \A t \in Threads : pc[t] # "idle" ~> pc[t] = "idle"

-----------------------------------------------------------------------------
(* Claims of the tests and messages that the code does not keep.           *)

(* Nested calls do not deadlock: no thread waits for the mutex it holds.   *)
NestedCallsDoNotDeadlock ==
    \A t \in Threads : pc[t] = "has" => mutex # t

(* Calls under impersonation only flush: nothing written in the held       *)
(* Session becomes durable.                                                *)
CallsOnlyFlush == durable = {}

=============================================================================
