-------------------------- MODULE ConnectionManager --------------------------
(***************************************************************************)
(* The registry of WebSocket connections of one process and the listener   *)
(* that feeds it from Redis pub/sub.  Everything runs on one event loop:   *)
(* an action is what happens between two awaits.  The list of connections  *)
(* is iterated by broadcasts while handlers append to it and remove from   *)
(* it.  The application's gateway and the monitor's have this class and    *)
(* this listener in common; they differ in who may connect.                *)
(***************************************************************************)
EXTENDS Naturals, Sequences, FiniteSets

CONSTANTS
    Sockets,    \* WebSocket objects
    Talkers,    \* those whose clients never let thirty seconds pass without a message
    Casters,    \* tasks that broadcast: the listener, a request whose publish failed
    Listener,   \* the listener among them
    Groups,     \* messages other than revocations
    MaxMsgs,    \* bound on undelivered pub/sub messages
    NoKey       \* not in session_ids

ASSUME ListenerAssumption == Listener \in Casters
ASSUME TalkersAssumption == Talkers \subseteq Sockets

\* What a client sends is dropped, but each message restarts the thirty seconds after
\* which receive_text gives up: only the sockets of silent clients are sure to be
\* rechecked.  A talker may pause, so its socket may be rechecked as well.
Silent == Sockets \ Talkers

VARIABLES
    conns,      \* ConnectionManager.connections: a list of sockets
    key,        \* ConnectionManager.session_ids: a key, or NoKey
    phase,      \* per socket: "new", "accepting", "open", "lost" or "closed"
    channel,    \* messages not yet read by the listener: a group, or a key to revoke
    listener,   \* "waiting", "casting", "revoking", "stopping" or "dead"
    closing,    \* sockets the listener still has to close
    cast        \* the broadcast of each task: position, failures, history

managerVars == <<conns, key, phase, channel, listener, closing, cast>>

Registered == {conns[i] : i \in DOMAIN conns}

\* The list without some of its sockets: the n-th is the n-th of those kept.
Staying(list, gone) == {i \in DOMAIN list : list[i] \notin gone}
Rank(i, kept) == Cardinality({j \in kept : j <= i})
Without(list, gone) ==
    LET kept == Staying(list, gone)
    IN  [n \in 1..Cardinality(kept) |-> list[CHOOSE i \in kept : Rank(i, kept) = n]]

NoCast == [on |-> FALSE, at |-> 0, dead |-> {}, sent |-> {}, whole |-> {}, shrunk |-> FALSE]

\* A broadcast of every socket registered now.
NewCast == [NoCast EXCEPT !.on = TRUE, !.at = 1, !.whole = Registered]

\* Removing sockets from the list shifts what a running broadcast looks at next.
Shifted(gone) ==
    [c \in Casters |->
        IF cast[c].on /\ gone \cap Registered # {}
        THEN [cast[c] EXCEPT !.whole = @ \ gone, !.shrunk = TRUE]
        ELSE cast[c]]

ManagerInit ==
    /\ conns = <<>>
    /\ key = [ws \in Sockets |-> NoKey]
    /\ phase = [ws \in Sockets |-> "new"]
    /\ channel = <<>>
    /\ listener = "waiting"
    /\ closing = {}
    /\ cast = [c \in Casters |-> NoCast]

-----------------------------------------------------------------------------
(* connect and disconnect *)

\* connect, once accept() has returned
Register(ws, k) ==
    /\ conns' = Append(conns, ws)
    /\ key' = [key EXCEPT ![ws] = k]
    /\ phase' = [phase EXCEPT ![ws] = "open"]

\* Mutant: a handler that ends leaves its socket in the list.
UnregisterKey(ws) ==
    /\ key' = [key EXCEPT ![ws] = NoKey]
    /\ phase' = [phase EXCEPT ![ws] = "closed"]
    /\ UNCHANGED <<conns, cast>>

\* disconnect: out of the list and the map, then closed
Unregister(ws) ==
    /\ conns' = Without(conns, {ws})
    /\ key' = [key EXCEPT ![ws] = NoKey]
    /\ phase' = [phase EXCEPT ![ws] = "closed"]
    /\ cast' = Shifted({ws})

\* The client hangs up, is unreachable or was closed here: receive_text raises.
Leave(ws) ==
    /\ phase[ws] \in {"open", "lost"}
    /\ Unregister(ws)
    /\ UNCHANGED <<channel, listener, closing>>

-----------------------------------------------------------------------------
(* broadcast *)

\* The next socket of the list takes the message.
SendNext(c) ==
    /\ cast[c].on /\ cast[c].at <= Len(conns)
    /\ phase[conns[cast[c].at]] = "open"
    /\ cast' = [cast EXCEPT ![c].at = @ + 1, ![c].sent = @ \cup {conns[cast[c].at]}]
    /\ UNCHANGED <<conns, key, phase, channel, listener, closing>>

\* send_json raises: the socket is remembered as dead.
SendFails(c) ==
    LET ws == conns[cast[c].at] IN
    /\ cast[c].on /\ cast[c].at <= Len(conns)
    /\ cast' = [cast EXCEPT ![c].at = @ + 1, ![c].dead = @ \cup {ws}]
    /\ phase' = IF phase[ws] = "open" THEN [phase EXCEPT ![ws] = "lost"] ELSE phase
    /\ UNCHANGED <<conns, key, channel, listener, closing>>

\* Mutant: the last socket of the list may be left out.
AtLast(c) == cast[c].on /\ cast[c].at >= Len(conns)

AtEnd(c) == cast[c].on /\ cast[c].at > Len(conns)

\* The dead ones leave the registry; they are not closed.
CastEnds(c) ==
    /\ AtEnd(c)
    /\ conns' = Without(conns, cast[c].dead)
    /\ key' = [ws \in Sockets |-> IF ws \in cast[c].dead THEN NoKey ELSE key[ws]]
    /\ cast' = [Shifted(cast[c].dead) EXCEPT ![c] = NoCast]
    /\ listener' = IF c = Listener THEN "waiting" ELSE listener
    /\ UNCHANGED <<phase, channel, closing>>

-----------------------------------------------------------------------------
(* The listener task *)

\* redis.publish: only a subscribed listener gets the message.
Send(m) ==
    channel' = IF listener = "dead" THEN channel ELSE Append(channel, m)

Publish(m) ==
    /\ Len(channel) < MaxMsgs
    /\ Send(m)
    /\ UNCHANGED <<conns, key, phase, listener, closing, cast>>

\* The publisher's fallback when Redis is unreachable: broadcast in this process,
\* whatever the message is.
CastLocally(c) ==
    /\ c # Listener /\ ~cast[c].on
    /\ cast' = [cast EXCEPT ![c] = NewCast]
    /\ UNCHANGED <<conns, key, phase, channel, listener, closing>>

\* Mutant: every message is broadcast.
NeverRevokes(m) == FALSE

\* payload["type"] == "revoke_session"
Revokes(m) == m \notin Groups

\* get_message returns a revocation: the sockets of the session are collected.
ReceiveRevocation ==
    /\ listener = "waiting" /\ channel # <<>>
    /\ Revokes(Head(channel))
    /\ listener' = "revoking"
    /\ closing' = {ws \in Sockets : key[ws] = Head(channel)}
    /\ channel' = Tail(channel)
    /\ UNCHANGED <<conns, key, phase, cast>>

ReceiveGroup ==
    /\ listener = "waiting" /\ channel # <<>>
    /\ ~Revokes(Head(channel))
    /\ listener' = "casting"
    /\ cast' = [cast EXCEPT ![Listener] = NewCast]
    /\ channel' = Tail(channel)
    /\ UNCHANGED <<conns, key, phase, closing>>

\* close_session disconnects the sockets it collected, one await each.
CloseNext(ws) ==
    /\ listener = "revoking" /\ ws \in closing
    /\ Unregister(ws)
    /\ closing' = closing \ {ws}
    /\ UNCHANGED <<channel, listener>>

CloseEnds ==
    /\ listener = "revoking" /\ closing = {}
    /\ listener' = "waiting"
    /\ UNCHANGED <<conns, key, phase, channel, closing, cast>>

\* get_message or json.loads raises, or the application shuts down.
ListenerFails ==
    /\ listener = "waiting"
    /\ listener' = "stopping"
    /\ closing' = Registered
    /\ UNCHANGED <<conns, key, phase, channel, cast>>

\* disconnect_all closes its copy of the list, one await each; the handler of a
\* closed socket wakes up later and leaves.
StopNext(ws) ==
    /\ listener = "stopping" /\ ws \in closing
    /\ phase' = [phase EXCEPT ![ws] = IF @ = "open" THEN "lost" ELSE @]
    /\ closing' = closing \ {ws}
    /\ UNCHANGED <<conns, key, channel, listener, cast>>

\* Then it clears the registry, with whoever connected in the meantime.
StopEnds ==
    /\ listener = "stopping" /\ closing = {}
    /\ conns' = <<>>
    /\ key' = [ws \in Sockets |-> NoKey]
    /\ cast' = Shifted(Registered)
    /\ listener' = "dead"
    /\ channel' = <<>>
    /\ UNCHANGED <<phase, closing>>

-----------------------------------------------------------------------------
Cast == [on: BOOLEAN, at: Nat, dead: SUBSET Sockets, sent: SUBSET Sockets,
         whole: SUBSET Sockets, shrunk: BOOLEAN]

\* The registry: no socket twice, a key for exactly those in the list, and only
\* sockets whose handler still runs.
RegistryOK ==
    /\ conns \in Seq(Sockets)
    /\ phase \in [Sockets -> {"new", "accepting", "open", "lost", "closed"}]
    /\ listener \in {"waiting", "casting", "revoking", "stopping", "dead"}
    /\ closing \subseteq Sockets
    /\ cast \in [Casters -> Cast]
    /\ \A i, j \in DOMAIN conns : conns[i] = conns[j] => i = j
    /\ \A ws \in Sockets : (key[ws] # NoKey) <=> (ws \in Registered)

\* No socket whose handler has ended stays in the registry, where every later
\* broadcast would send to it.
NoDeadRegistration ==
    \A i \in DOMAIN conns : phase[conns[i]] \in {"open", "lost"}

\* A broadcast skips nobody as long as the list does not shrink under it: when it
\* ends, every socket that was registered all along was sent the message or found
\* dead, unless some socket was removed during one of its awaits.
BroadcastReachesAll ==
    \A c \in Casters :
        AtEnd(c) /\ ~cast[c].shrunk => cast[c].whole \subseteq cast[c].sent \cup cast[c].dead

=============================================================================
