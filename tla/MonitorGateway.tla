--------------------------- MODULE MonitorGateway ---------------------------
(***************************************************************************)
(* The monitor process: its HTTP requests validate monitor sessions on the *)
(* thread pool, its /ws gateway validates them on the event loop, at the   *)
(* handshake and after thirty silent seconds.  The loop does nothing else  *)
(* during a validation.                                                    *)
(***************************************************************************)
EXTENDS MonitorSessions, ConnectionManager

\* A socket validates its own token; the other checkers are HTTP requests.
ASSUME SocketsAssumption == Sockets \subseteq Checkers /\ NoKey \notin Tickets

VARIABLES
    holder      \* the session token each socket's client connected with, or Gone

monitorGatewayVars == <<monitorVars, managerVars, holder>>

MonitorGatewayInit ==
    MonitorInit /\ ManagerInit /\ holder = [ws \in Sockets |-> Gone]

Requests == Checkers \ Sockets
LoopFree == \A ws \in Sockets : check[ws].pc = "ready"

-----------------------------------------------------------------------------
(* HTTP: POST /monitor/session, and require_monitor_token on the others *)

RequestStep(c) ==
    /\ \/ \E l \in Links : Redeem(c, l)
       \/ Mint(c) \/ MintFails(c)
       \/ \E k \in Tickets : Fetch(c, k) /\ UNCHANGED <<clock, link, store, origin>>
       \/ (Renew(c) \/ RefuseOld(c)) /\ UNCHANGED <<clock, link, origin>>
    /\ UNCHANGED <<managerVars, holder>>

\* run.admin or a granted access request
NewLink(l) == GenerateLink(l) /\ UNCHANGED <<managerVars, holder>>

-----------------------------------------------------------------------------
(* monitor_websocket_gateway *)

\* The handshake reads the session of the query's token.
Handshake(ws, k) ==
    /\ LoopFree /\ phase[ws] = "new"
    /\ Fetch(ws, k)
    /\ holder' = [holder EXCEPT ![ws] = k]
    /\ UNCHANGED <<clock, link, store, origin, managerVars>>

\* Its renewal lets the socket in; accept() is awaited.
Admit(ws) ==
    /\ phase[ws] = "new" /\ Renew(ws)
    /\ phase' = [phase EXCEPT ![ws] = "accepting"]
    /\ UNCHANGED <<clock, link, origin, conns, key, channel, listener, closing, cast, holder>>

Deny(ws) ==
    /\ phase[ws] = "new" /\ RefuseOld(ws)
    /\ phase' = [phase EXCEPT ![ws] = "closed"]
    /\ UNCHANGED <<clock, link, origin, conns, key, channel, listener, closing, cast, holder>>

Connect(ws) ==
    /\ LoopFree /\ phase[ws] = "accepting"
    /\ Register(ws, holder[ws])
    /\ UNCHANGED <<monitorVars, channel, listener, closing, cast, holder>>

Served(ws) == phase[ws] \in {"open", "lost"}

\* AUTH_RECHECK_SECONDS without a message: the token is read again.  A message, which
\* no action needs, only starts them anew.
Recheck(ws) ==
    /\ LoopFree /\ Served(ws)
    /\ Fetch(ws, holder[ws])
    /\ UNCHANGED <<clock, link, store, origin, managerVars, holder>>

RecheckRenews(ws) ==
    /\ Served(ws) /\ Renew(ws)
    /\ UNCHANGED <<clock, link, origin, managerVars, holder>>

\* The session is past its lifetime.
RecheckRefuses(ws) ==
    /\ Served(ws) /\ RefuseOld(ws)
    /\ Unregister(ws)
    /\ UNCHANGED <<clock, link, origin, channel, listener, closing, holder>>

\* The session is not in Redis any more.
RecheckMisses(ws) ==
    /\ LoopFree /\ Served(ws) /\ store[holder[ws]] = Gone
    /\ Unregister(ws)
    /\ UNCHANGED <<monitorVars, channel, listener, closing, holder>>

-----------------------------------------------------------------------------
(* The rest of the loop: every message of the monitor's channel is broadcast *)

LoopStep ==
    /\ LoopFree
    /\ \/ ReceiveGroup \/ StopEnds
       \/ \E ws \in Sockets : StopNext(ws)
       \/ \E c \in Casters : SendNext(c) \/ CastEnds(c)
    /\ UNCHANGED <<monitorVars, holder>>

\* Clients vanish and the pub/sub connection fails.
LoopFault ==
    /\ LoopFree
    /\ \/ ListenerFails
       \/ \E c \in Casters : SendFails(c)
       \/ \E ws \in Sockets : Leave(ws)
    /\ UNCHANGED <<monitorVars, holder>>

\* invalidate_group_sync and invalidate_endpoint_sync, of any process
Invalidate(g) == Publish(g) /\ UNCHANGED <<monitorVars, holder>>

Pass == Advance /\ UNCHANGED <<managerVars, holder>>

MonitorGatewayNext ==
    \/ \E c \in Requests : RequestStep(c)
    \/ \E l \in Links : NewLink(l)
    \/ \E ws \in Sockets :
          \/ \E k \in Tickets : Handshake(ws, k)
          \/ Admit(ws) \/ Deny(ws) \/ Connect(ws)
          \/ Recheck(ws) \/ RecheckRenews(ws) \/ RecheckRefuses(ws) \/ RecheckMisses(ws)
    \/ LoopStep \/ LoopFault
    \/ \E g \in Groups : Invalidate(g)
    \/ Pass

\* Validations and the loop go on, the receive timeout of a silent client fires, also
\* when other sockets' validations keep the loop busy in between, and time passes.
\* That of a client that keeps sending need not fire.  Nothing makes requests or
\* clients act.
MonitorGatewayFairness ==
    /\ WF_monitorGatewayVars(LoopStep)
    /\ WF_monitorGatewayVars(Pass)
    /\ \A ws \in Sockets :
          /\ WF_monitorGatewayVars(Admit(ws)) /\ WF_monitorGatewayVars(Deny(ws))
          /\ WF_monitorGatewayVars(Connect(ws))
          /\ WF_monitorGatewayVars(RecheckRenews(ws))
          /\ WF_monitorGatewayVars(RecheckRefuses(ws))
    /\ \A ws \in Silent :
          SF_monitorGatewayVars(Recheck(ws)) /\ SF_monitorGatewayVars(RecheckMisses(ws))

MonitorGatewaySpec == MonitorGatewayInit /\ [][MonitorGatewayNext]_monitorGatewayVars
LiveMonitorGatewaySpec == MonitorGatewaySpec /\ MonitorGatewayFairness

-----------------------------------------------------------------------------
MonitorGatewayTypeOK ==
    /\ MonitorTypeOK
    /\ RegistryOK
    /\ channel \in Seq(Groups)
    /\ holder \in [Sockets -> Tickets \cup {Gone}]

\* No open socket of a silent client outlives its session's absolute lifetime for
\* good: its own rechecks, which renew the session without any request, end it,
\* whatever else validates the session at the same time, a talker's socket among
\* others, and wherever the socket is registered.
LifetimeEndsSockets ==
    \A ws \in Silent :
        (phase[ws] = "open" /\ clock >= origin[holder[ws]].at + Lifetime)
            ~> (phase[ws] # "open")

=============================================================================
