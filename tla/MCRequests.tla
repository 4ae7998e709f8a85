----------------------------- MODULE MCRequests -----------------------------
(***************************************************************************)
(* Small instances, side by side, of what a request meets on its way: its  *)
(* login session, the monitor's access guard, the limiters (each for one   *)
(* client, whose keys no other client shares), the request log and the     *)
(* response cache.  They share no state: a behaviour is one of `active`,   *)
(* the others stay as they start.                                          *)
(***************************************************************************)
EXTENDS LoginSessions, MonitorAccess, RequestLimits, RequestLog, ResponseCache, TLC

VARIABLE active

Components == {"sessions", "access", "log", "cache"} \cup LimitClients

\* One browser, which sends client hints.
MCClients ==
    [ip: {"a"}, brand: {"Edge"}, brandVersion: {"1"}, agentBrowser: {"Edge"},
     agentVersion: {"1"}, platform: {"Windows"}, agentSystem: {"Windows"}, mobile: {"?0"}]

Init ==
    /\ active \in Components
    /\ SessionInit /\ AccessInit /\ LimitInit /\ LogInit /\ CacheInit

Next ==
    /\ UNCHANGED active
    /\ \/ /\ active = "sessions"
          /\ SessionNext \/ \E r \in Threads : Published(r)
          /\ UNCHANGED <<accessVars, limitVars, logVars, cacheVars>>
       \/ /\ active = "access" /\ AccessNext
          /\ UNCHANGED <<sessionVars, limitVars, logVars, cacheVars>>
       \/ /\ active \in LimitClients /\ (LimitTick \/ ClientStep(active))
          /\ UNCHANGED <<sessionVars, accessVars, logVars, cacheVars>>
       \/ /\ active = "log" /\ LogNext
          /\ UNCHANGED <<sessionVars, accessVars, limitVars, cacheVars>>
       \/ /\ active = "cache" /\ CacheNext
          /\ UNCHANGED <<sessionVars, accessVars, limitVars, logVars>>

Spec ==
    Init /\ [][Next]_<<active, sessionVars, accessVars, limitVars, logVars, cacheVars>>

RequestsTypeOK ==
    /\ active = "sessions" => SessionTypeOK
    /\ active = "access" => AccessTypeOK /\ HitsBounded
    /\ active \in LimitClients => LimitTypeOK
    /\ active = "log" => LogTypeOK /\ ListBounded
    /\ active = "cache" => CacheTypeOK

Symmetry == Permutations(Threads) \cup Permutations(Sessions)

=============================================================================
