----------------------------- MODULE AppGateway -----------------------------
(***************************************************************************)
(* The /ws gateway of one API process: who may connect, the thirty-second  *)
(* recheck of an open socket's token, and the revocation that a logout     *)
(* publishes.  It composes LoginSessions, whose requests may run in any    *)
(* process, with the ConnectionManager of this one.                        *)
(*                                                                         *)
(* Mail between the two parts is the pub/sub channel alone: a socket keeps *)
(* the token it connected with, and nothing else links it to its session.  *)
(***************************************************************************)
EXTENDS LoginSessions, ConnectionManager

VARIABLES
    presented   \* the token and session a socket was authenticated with, or None

gatewayVars == <<sessionVars, managerVars, presented>>

GatewayInit == SessionInit /\ ManagerInit /\ presented = [ws \in Sockets |-> None]

-----------------------------------------------------------------------------
(* websocket_gateway *)

\* authenticate succeeds; accept() is awaited before the socket is registered.
Handshake(ws, s, t) ==
    /\ phase[ws] = "new"
    /\ Authenticates(s, t)
    /\ phase' = [phase EXCEPT ![ws] = "accepting"]
    /\ presented' = [presented EXCEPT ![ws] = [token |-> t, session |-> s]]
    /\ UNCHANGED <<sessionVars, conns, key, channel, listener, closing, cast>>

Connect(ws) ==
    /\ phase[ws] = "accepting"
    /\ Register(ws, presented[ws].session)
    /\ UNCHANGED <<sessionVars, channel, listener, closing, cast, presented>>

Disconnect(ws) ==
    /\ Leave(ws)
    /\ UNCHANGED <<sessionVars, presented>>

\* The token a socket presented still authenticates, for whichever session.
Welcome(ws) == \E s \in Sessions : Authenticates(s, presented[ws].token)

\* Mutant: the recheck only decodes the token.
RefusedByExpiry(ws) == ~Decodes(presented[ws].token)

\* What the recheck of an open socket finds wrong with its token.
Refused(ws) == ~Welcome(ws)

\* Thirty seconds without a message from the client: authenticate again.  A message,
\* which no action needs, only starts the thirty seconds anew.
Recheck(ws) ==
    /\ phase[ws] \in {"open", "lost"}
    /\ Refused(ws)
    /\ Unregister(ws)
    /\ UNCHANGED <<sessionVars, channel, listener, closing, presented>>

-----------------------------------------------------------------------------
(* The publishers *)

\* invalidate_session after a logout was committed
PublishRevocation(r) ==
    /\ Len(channel) < MaxMsgs
    /\ Published(r)
    /\ Send(thread[r].session)
    /\ UNCHANGED <<conns, key, phase, listener, closing, cast, presented>>

\* Redis cannot be reached: the revocation is broadcast to the local sockets
\* like any other message, and closes none of them.
PublishFails(r, c) ==
    /\ Published(r)
    /\ CastLocally(c)
    /\ UNCHANGED <<now, row, inactive, chain, dropped, presented>>

\* invalidate_group and invalidate_endpoint of any process
Invalidate(g) ==
    /\ Publish(g)
    /\ UNCHANGED <<sessionVars, presented>>

-----------------------------------------------------------------------------
SessionStep ==
    /\ SessionNext
    /\ UNCHANGED <<managerVars, presented>>

ListenerStep ==
    /\ \/ ReceiveRevocation \/ ReceiveGroup \/ CloseEnds \/ StopEnds
       \/ \E ws \in Sockets : CloseNext(ws) \/ StopNext(ws)
    /\ UNCHANGED <<sessionVars, presented>>

CastStep(c) ==
    /\ SendNext(c) \/ SendFails(c) \/ CastEnds(c)
    /\ UNCHANGED <<sessionVars, presented>>

ListenerStops ==
    /\ ListenerFails
    /\ UNCHANGED <<sessionVars, presented>>

GatewayNext ==
    \/ SessionStep
    \/ \E ws \in Sockets :
          \/ \E s \in Sessions, t \in Token : Handshake(ws, s, t)
          \/ Connect(ws) \/ Disconnect(ws) \/ Recheck(ws)
    \/ \E r \in Threads : PublishRevocation(r) \/ \E c \in Casters : PublishFails(r, c)
    \/ \E g \in Groups : Invalidate(g)
    \/ ListenerStep \/ ListenerStops
    \/ \E c \in Casters : CastStep(c)

\* The event loop runs what is ready, and the receive timeout of a silent client
\* fires; that of a client that keeps sending need not.  Nothing makes a client
\* leave, a listener fail or a user act.
GatewayFairness ==
    /\ WF_gatewayVars(ListenerStep)
    /\ \A c \in Casters : WF_gatewayVars(CastStep(c))
    /\ \A ws \in Sockets : WF_gatewayVars(Connect(ws))
    /\ \A ws \in Silent : WF_gatewayVars(Recheck(ws))

GatewaySpec == GatewayInit /\ [][GatewayNext]_gatewayVars
LiveGatewaySpec == GatewaySpec /\ GatewayFairness

-----------------------------------------------------------------------------
\* A revocation that the listener has still to read closes every socket registered
\* under its session, those of talkers too, which no recheck may ever reach: whatever
\* is broadcast in between, whichever of the sockets are found dead or leave, and
\* though the listener may fail before it reads it.
RevokedSocketsClose ==
    \A ws \in Sockets, s \in Sessions :
        (/\ listener \in {"waiting", "casting", "revoking"}
         /\ key[ws] = s /\ \E i \in DOMAIN channel : channel[i] = s)
            ~> (phase[ws] # "open")

\* The socket of a silent client whose token stops being accepted (logout, a new
\* login on the device, deactivation, expiry) is closed, or its token is accepted
\* again, also when that happens between its authentication and its registration, so
\* that the revocation finds no such socket, when the revocation was lost, or when
\* the listener is dead and the socket is in no list.
SilentSocketsClose ==
    \A ws \in Silent :
        (phase[ws] \in {"accepting", "open"} /\ ~Welcome(ws))
            ~> (phase[ws] \notin {"accepting", "open"} \/ Welcome(ws))

=============================================================================
