---------------------------- MODULE RequestLimits ----------------------------
(***************************************************************************)
(* Rate limiting: one sliding-window script in Redis, used by the limiter  *)
(* of public paths, the limiter of signed-in users and the monitor's.  The *)
(* first answers a rejection with a cooldown that every further request    *)
(* renews, the second with a block of fixed length; checking, counting and *)
(* punishing are three Redis calls.  Checks fail open when Redis is away.  *)
(***************************************************************************)
EXTENDS Naturals, FiniteSets

CONSTANTS
    PathClients,    \* addresses on a rate-limited path
    UserClients,    \* signed-in users
    MonitorClients, \* addresses that call the monitor
    Arrivals,       \* requests in flight, in any process
    LimitWindow,    \* the window, in seconds
    LimitMax,       \* hits admitted in a window
    Penalty,        \* length of a cooldown or a block
    LastTick        \* bound on the clock

ASSUME LimitAssumption == {LimitWindow, LimitMax, Penalty, LastTick} \subseteq Nat \ {0}

VARIABLES
    tick,       \* seconds
    zset,       \* per client: the sorted set of the window, its members <<time, number>>
    penalty,    \* per client: end of the cooldown or block key
    arrival,    \* what each request in flight knows
    admitted    \* history per client: the members of counted admissions

limitVars == <<tick, zset, penalty, arrival, admitted>>

LimitClients == PathClients \cup UserClients \cup MonitorClients
NoArrival == [pc |-> "idle", who |-> {}]
InWindow(members) == {m \in members : m[1] + LimitWindow > tick}
Punished(c) == tick < penalty[c]

LimitInit ==
    /\ tick = 0
    /\ zset = [c \in LimitClients |-> {}]
    /\ penalty = [c \in LimitClients |-> 0]
    /\ arrival = [r \in Arrivals |-> NoArrival]
    /\ admitted = [c \in LimitClients |-> {}]

-----------------------------------------------------------------------------
Goes(r, c, step) == arrival' = [arrival EXCEPT ![r] = [pc |-> step, who |-> {c}]]

\* dispatch finds no penalty; the monitor's limiter does not look for one.
Enter(r, c) ==
    /\ arrival[r].pc = "idle"
    /\ c \in MonitorClients \/ ~Punished(c)
    /\ Goes(r, c, "count")
    /\ UNCHANGED <<tick, zset, penalty, admitted>>

\* A cooldown answers 429 and is renewed.
EnterCooldown(r, c) ==
    /\ arrival[r].pc = "idle"
    /\ c \in PathClients /\ Punished(c)
    /\ Goes(r, c, "punish")
    /\ UNCHANGED <<tick, zset, penalty, admitted>>

\* A block answers 429 and stays as it is: the request leaves no trace.
AnswerBlocked(r, c) ==
    /\ arrival[r].pc = "idle"
    /\ c \in UserClients /\ Punished(c)
    /\ UNCHANGED limitVars

\* The check cannot reach Redis: the request is let through to the count.
EnterBlind(r, c) ==
    /\ arrival[r].pc = "idle" /\ c \notin MonitorClients
    /\ Goes(r, c, "blind")
    /\ UNCHANGED <<tick, zset, penalty, admitted>>

Counting(r) == arrival[r].pc \in {"count", "blind"}

\* Mutant: one hit too many.
FullLater(c) == Cardinality(InWindow(zset[c])) > LimitMax

WindowFull(c) == Cardinality(InWindow(zset[c])) >= LimitMax

\* No two hits share a member: the number stands for its random part.
NewMember(c) == <<tick, Cardinality(InWindow(zset[c])) + 1>>

\* try_record_hit returns True
Admit(r, c) ==
    /\ arrival[r].who = {c}
    /\ Counting(r) /\ ~WindowFull(c)
    /\ zset' = [zset EXCEPT ![c] = InWindow(@) \cup {NewMember(c)}]
    /\ admitted' = [admitted EXCEPT ![c] = InWindow(@) \cup {NewMember(c)}]
    /\ arrival' = [arrival EXCEPT ![r] = NoArrival]
    /\ UNCHANGED <<tick, penalty>>

\* It returns False: the monitor answers, the others punish first.
Reject(r, c) ==
    /\ arrival[r].who = {c}
    /\ Counting(r) /\ WindowFull(c)
    /\ zset' = [zset EXCEPT ![c] = InWindow(@)]
    /\ arrival' = IF c \in MonitorClients
                  THEN [arrival EXCEPT ![r] = NoArrival]
                  ELSE [arrival EXCEPT ![r].pc = "punish"]
    /\ UNCHANGED <<tick, penalty, admitted>>

\* The script cannot be run: admitted without being counted.
AdmitBlind(r, c) ==
    /\ arrival[r].who = {c}
    /\ Counting(r)
    /\ arrival' = [arrival EXCEPT ![r] = NoArrival]
    /\ UNCHANGED <<tick, zset, penalty, admitted>>

\* start_or_renew, block_user
Punish(r, c) ==
    /\ arrival[r].who = {c}
    /\ arrival[r].pc = "punish"
    /\ penalty' = [penalty EXCEPT ![c] = tick + Penalty]
    /\ arrival' = [arrival EXCEPT ![r] = NoArrival]
    /\ UNCHANGED <<tick, zset, admitted>>

\* These two do not fail open: the request ends in an error.
PunishFails(r, c) ==
    /\ arrival[r].who = {c}
    /\ arrival[r].pc = "punish"
    /\ arrival' = [arrival EXCEPT ![r] = NoArrival]
    /\ UNCHANGED <<tick, zset, penalty, admitted>>

LimitTick ==
    /\ tick < LastTick
    /\ tick' = tick + 1
    /\ UNCHANGED <<zset, penalty, arrival, admitted>>

\* Clients share no key.
ClientStep(c) ==
    \E r \in Arrivals :
        \/ Enter(r, c) \/ EnterCooldown(r, c) \/ AnswerBlocked(r, c) \/ EnterBlind(r, c)
        \/ Admit(r, c) \/ Reject(r, c) \/ AdmitBlind(r, c)
        \/ Punish(r, c) \/ PunishFails(r, c)

LimitNext == LimitTick \/ \E c \in LimitClients : ClientStep(c)

LimitSpec == LimitInit /\ [][LimitNext]_limitVars

-----------------------------------------------------------------------------
LimitTypeOK ==
    /\ tick \in 0..LastTick
    /\ zset \in [LimitClients -> SUBSET ((0..LastTick) \X (1..LimitMax))]
    /\ penalty \in [LimitClients -> 0..LastTick + Penalty]
    /\ arrival \in [Arrivals -> [pc: {"idle", "count", "blind", "punish"},
                                 who: SUBSET LimitClients]]
    /\ admitted \in [LimitClients -> SUBSET ((0..LastTick) \X (1..LimitMax))]

\* No window of LimitWindow seconds has more than LimitMax admissions of a client,
\* except those Redis could not count.
AdmissionsBounded == \A c \in LimitClients : Cardinality(InWindow(admitted[c])) <= LimitMax

=============================================================================
