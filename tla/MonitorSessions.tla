--------------------------- MODULE MonitorSessions ---------------------------
(***************************************************************************)
(* Monitor sessions: an e-mailed link is exchanged once for a session key  *)
(* in Redis, which every validation renews for the idle timeout, up to an  *)
(* absolute lifetime counted from its creation.                            *)
(*                                                                         *)
(* Each Redis call is a step of its own, so validations of one session     *)
(* overlap.  Expiry is a key whose time is up; Lifetime, Idle and the      *)
(* clock count in the same unit.                                           *)
(***************************************************************************)
EXTENDS Naturals

CONSTANTS
    Links,          \* bootstrap tokens
    Tickets,        \* monitor session tokens
    Checkers,       \* who redeems or validates: requests, open sockets
    Lifetime,       \* monitor_token_ttl_seconds
    Idle,           \* monitor_token_idle_timeout_seconds
    MaxClock,       \* bound on the clock
    Gone            \* no such key in Redis

ASSUME MonitorAssumption ==
    /\ Lifetime \in Nat /\ Idle \in Nat /\ MaxClock \in Nat
    /\ Gone \notin Tickets \cup Links

VARIABLES
    clock,      \* seconds
    link,       \* bootstrap key: its expiry, or Gone
    store,      \* session key: created_at and its expiry, or Gone
    check,      \* what each checker holds between two Redis calls
    origin      \* history: the link a session came from and when, or Gone

monitorVars == <<clock, link, store, check, origin>>

Ready == [pc |-> "ready", ticket |-> Gone, from |-> Gone, raw |-> Gone]
Lesser(a, b) == IF a < b THEN a ELSE b

MonitorInit ==
    /\ clock = 0
    /\ link = [l \in Links |-> Gone]
    /\ store = [k \in Tickets |-> Gone]
    /\ check = [c \in Checkers |-> Ready]
    /\ origin = [k \in Tickets |-> Gone]

-----------------------------------------------------------------------------
(* Links *)

\* generate_bootstrap_token: the token is fresh (history: no session came from it).
GenerateLink(l) ==
    /\ link[l] = Gone
    /\ \A k \in Tickets : origin[k] # Gone => origin[k].from # l
    /\ \A c \in Checkers : check[c].from # l
    /\ link' = [link EXCEPT ![l] = clock + Lifetime]
    /\ UNCHANGED <<clock, store, check, origin>>

\* Mutant: the link is deleted when the session exists.
ConsumedLater(l) == link

\* GET and DEL are one script.
Consumed(l) == [link EXCEPT ![l] = Gone]

\* redeem_session: redis_consume_once finds the key
Redeem(c, l) ==
    /\ check[c].pc = "ready" /\ link[l] # Gone
    /\ link' = Consumed(l)
    /\ check' = [check EXCEPT ![c] = [Ready EXCEPT !.pc = "mint", !.from = l]]
    /\ UNCHANGED <<clock, store, origin>>

\* _generate_session_token
Mint(c) ==
    /\ check[c].pc = "mint"
    /\ \E k \in Tickets :
          /\ origin[k] = Gone
          /\ store' = [store EXCEPT ![k] =
                 [created |-> clock, until |-> clock + Lesser(Idle, Lifetime)]]
          /\ origin' = [origin EXCEPT ![k] = [from |-> check[c].from, at |-> clock]]
    /\ check' = [check EXCEPT ![c] = Ready]
    /\ UNCHANGED <<clock, link>>

\* Redis fails, or the process dies, between the two calls: the link is spent.
MintFails(c) ==
    /\ check[c].pc = "mint"
    /\ check' = [check EXCEPT ![c] = Ready]
    /\ UNCHANGED <<clock, link, store, origin>>

-----------------------------------------------------------------------------
(* is_session_token_valid *)

\* redis_get finds the key; the checker keeps the raw payload.
Fetch(c, k) ==
    /\ check[c].pc = "ready" /\ store[k] # Gone
    /\ check' = [check EXCEPT ![c] =
           [Ready EXCEPT !.pc = "fetched", !.ticket = k, !.raw = store[k].created]]

TooOld(c) == clock >= check[c].raw + Lifetime

\* Past the lifetime the key is deleted.
RefuseOld(c) ==
    /\ check[c].pc = "fetched" /\ TooOld(c)
    /\ store' = [store EXCEPT ![check[c].ticket] = Gone]
    /\ check' = [check EXCEPT ![c] = Ready]

\* Mutant: each renewal starts a new lifetime.
RenewedFromNow(c) == [created |-> clock, until |-> clock + Idle]

\* The payload is written back as it was read.
Renewed(c) == [created |-> check[c].raw, until |-> clock + Idle]

\* Still young: redis_set creates the key again if it has expired since the GET.
Renew(c) ==
    /\ check[c].pc = "fetched" /\ ~TooOld(c)
    /\ store' = [store EXCEPT ![check[c].ticket] = Renewed(c)]
    /\ check' = [check EXCEPT ![c] = Ready]

-----------------------------------------------------------------------------
\* Time passes and Redis drops the keys whose time is up.
Advance ==
    /\ clock < MaxClock
    /\ clock' = clock + 1
    /\ link' = [l \in Links |-> IF link[l] # Gone /\ link[l] <= clock' THEN Gone ELSE link[l]]
    /\ store' = [k \in Tickets |->
           IF store[k] # Gone /\ store[k].until <= clock' THEN Gone ELSE store[k]]
    /\ UNCHANGED <<check, origin>>

-----------------------------------------------------------------------------
Times == 0..MaxClock + Lifetime + Idle
Check ==
    {Ready} \cup [pc: {"mint"}, ticket: {Gone}, from: Links, raw: {Gone}]
        \cup [pc: {"fetched"}, ticket: Tickets, from: {Gone}, raw: 0..MaxClock]

\* Types; a stored session has a known origin and its creation time never moves.
MonitorTypeOK ==
    /\ clock \in 0..MaxClock
    /\ link \in [Links -> Times \cup {Gone}]
    /\ store \in [Tickets -> [created: 0..MaxClock, until: Times] \cup {Gone}]
    /\ check \in [Checkers -> Check]
    /\ origin \in [Tickets -> [from: Links, at: 0..MaxClock] \cup {Gone}]

\* A link gives at most one session, and is worthless from then on, however many
\* browsers open it at once and whatever fails in between.
OneSessionPerLink ==
    \A k \in Tickets : origin[k] # Gone =>
        /\ link[origin[k].from] = Gone
        /\ \A q \in Tickets \ {k} : origin[q] # Gone => origin[q].from # origin[k].from

=============================================================================
