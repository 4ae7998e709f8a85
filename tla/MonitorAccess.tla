---------------------------- MODULE MonitorAccess ----------------------------
(***************************************************************************)
(* Requests for monitor access without a session: an access key is granted *)
(* a link; anything else is counted against the address by one Redis       *)
(* script, blocked past the maximum, and a first request without a key in  *)
(* each window has a new key e-mailed to the administrator.                *)
(***************************************************************************)
EXTENDS Naturals, FiniteSets

CONSTANTS
    Addresses,      \* request.client.host
    AccessKeys,     \* access keys, issued or made up
    Calls,          \* requests in flight
    CountWindow,    \* monitor_access_request_window_seconds
    MaxHits,        \* monitor_access_request_max_unauthenticated
    BlockFor,       \* monitor_access_request_block_seconds
    KeyLife,        \* monitor_access_key_ttl_seconds
    LastTime,       \* bound on the clock
    Horizon         \* no block is longer than this here; the code has no bound

ASSUME AccessAssumption ==
    /\ {CountWindow, MaxHits, BlockFor, KeyLife, LastTime, Horizon} \subseteq Nat \ {0}
    /\ CountWindow <= BlockFor /\ BlockFor <= Horizon
    /\ CountWindow <= LastTime

VARIABLES
    time,       \* seconds
    hits,       \* per address: the sorted set of counted requests, its members <<time, number>>
    block,      \* per address: the block's duration and end; an end passed is no key
    emailed,    \* per address: end of the key that allows no second e-mail
    valid,      \* per access key: end of its life, 0 when never issued
    call,       \* per request: the address it still has work to do for
    passed      \* history per address: the members of requests not blocked

accessVars == <<time, hits, block, emailed, valid, call, passed>>

NoCall == [pc |-> "none", from |-> {}]
NoBlock == [long |-> 0, until |-> 0]
Blocked(a) == time < block[a].until
Recent(members) == {m \in members : m[1] + CountWindow > time}

AccessInit ==
    /\ time = CountWindow
    /\ hits = [a \in Addresses |-> {}]
    /\ block = [a \in Addresses |-> NoBlock]
    /\ emailed = [a \in Addresses |-> 0]
    /\ valid = [k \in AccessKeys |-> 0]
    /\ call = [c \in Calls |-> NoCall]
    /\ passed = [a \in Addresses |-> {}]

-----------------------------------------------------------------------------
IsValid(k) == time < valid[k]

\* Mutant: what is doubled is what is left of the block.
RestDoubled(a) ==
    LET twice == 2 * (block[a].until - time) IN [long |-> twice, until |-> time + twice]

\* A request during a block doubles it, from now.
Escalated(a) ==
    LET twice == IF 2 * block[a].long > Horizon THEN Horizon ELSE 2 * block[a].long
    IN  [long |-> twice, until |-> time + twice]

\* Mutant: one request too many passes.
OverMaximum(a) == Cardinality(Recent(hits[a])) > MaxHits

ReachesMaximum(a) == Cardinality(Recent(hits[a])) >= MaxHits

\* _record_violation: an address that is blocked is refused and blocked longer.
Escalate(a) ==
    /\ Blocked(a)
    /\ block' = [block EXCEPT ![a] = Escalated(a)]
    /\ UNCHANGED <<time, hits, emailed, valid, call, passed>>

\* The maximum is reached: blocked, and the counter starts over.
StartBlock(a) ==
    /\ ~Blocked(a) /\ ReachesMaximum(a)
    /\ block' = [block EXCEPT ![a] = [long |-> BlockFor, until |-> time + BlockFor]]
    /\ hits' = [hits EXCEPT ![a] = {}]
    /\ UNCHANGED <<time, emailed, valid, call, passed>>

\* No two requests share a member: the number stands for its random part.
NewHit(a) == <<time, Cardinality(Recent(hits[a])) + 1>>

\* Counted and let through: with a wrong key the answer is 401, without one the
\* request goes on to the e-mail.
Count(c, a, keyed) ==
    /\ call[c] = NoCall
    /\ ~Blocked(a) /\ ~ReachesMaximum(a)
    /\ hits' = [hits EXCEPT ![a] = Recent(@) \cup {NewHit(a)}]
    /\ passed' = [passed EXCEPT ![a] = Recent(@) \cup {NewHit(a)}]
    /\ call' = IF keyed THEN call ELSE [call EXCEPT ![c] = [pc |-> "claim", from |-> {a}]]
    /\ UNCHANGED <<time, block, emailed, valid>>

\* _maybe_email_key_for_ip: SET NX on the address's window
ClaimEmail(c) ==
    \E a \in call[c].from :
        /\ call[c].pc = "claim" /\ emailed[a] <= time
        /\ emailed' = [emailed EXCEPT ![a] = time + CountWindow]
        /\ call' = [call EXCEPT ![c].pc = "issue"]
        /\ UNCHANGED <<time, hits, block, valid, passed>>

AlreadyEmailed(c) ==
    \E a \in call[c].from :
        /\ call[c].pc = "claim" /\ emailed[a] > time
        /\ call' = [call EXCEPT ![c] = NoCall]
        /\ UNCHANGED <<time, hits, block, emailed, valid, passed>>

\* _issue_and_email_access_key: a fresh key is stored, whether its e-mail is sent or not.
Issue(c) ==
    /\ call[c].pc = "issue"
    /\ \E k \in AccessKeys : valid[k] = 0 /\ valid' = [valid EXCEPT ![k] = time + KeyLife]
    /\ call' = [call EXCEPT ![c] = NoCall]
    /\ UNCHANGED <<time, hits, block, emailed, passed>>

\* Redis fails after the claim: 503, and no other key for a window.
IssueFails(c) ==
    /\ call[c].pc = "issue"
    /\ call' = [call EXCEPT ![c] = NoCall]
    /\ UNCHANGED <<time, hits, block, emailed, valid, passed>>

\* evaluate_monitor_access_request: a valid key is granted a link before any
\* count or block is looked at, and changes neither.
Request(c, a) ==
    \/ \E k \in AccessKeys : ~IsValid(k) /\ (Escalate(a) \/ StartBlock(a) \/ Count(c, a, TRUE))
    \/ Count(c, a, FALSE)

Pass == time < LastTime /\ time' = time + 1
            /\ UNCHANGED <<hits, block, emailed, valid, call, passed>>

AccessNext ==
    \/ \E c \in Calls :
          \/ \E a \in Addresses : Request(c, a)
          \/ ClaimEmail(c) \/ AlreadyEmailed(c) \/ Issue(c) \/ IssueFails(c)
    \/ Pass

AccessSpec == AccessInit /\ [][AccessNext]_accessVars

-----------------------------------------------------------------------------
AccessTypeOK ==
    /\ time \in CountWindow..LastTime
    /\ hits \in [Addresses -> SUBSET ((0..LastTime) \X (1..MaxHits))]
    /\ block \in [Addresses -> [long: 0..Horizon, until: 0..LastTime + Horizon]]
    /\ emailed \in [Addresses -> 0..LastTime + CountWindow]
    /\ valid \in [AccessKeys -> 0..LastTime + KeyLife]
    /\ call \in [Calls -> [pc: {"none", "claim", "issue"}, from: SUBSET Addresses]]
    /\ passed \in [Addresses -> SUBSET ((0..LastTime) \X (1..MaxHits))]

\* In no window of CountWindow seconds does an address get more than MaxHits
\* unauthenticated requests past the guard, across blocks that start the counter
\* over: a block lasts at least as long as what it forgets.
HitsBounded == \A a \in Addresses : Cardinality(Recent(passed[a])) <= MaxHits

\* While an address is blocked its block only moves away and gets longer: knocking,
\* by however many requests in flight, never ends it sooner or starts it small again.
BlocksOnlyGrow ==
    [][\A a \in Addresses :
        Blocked(a) => /\ block'[a].until >= block[a].until
                      /\ block'[a].long >= block[a].long]_accessVars

=============================================================================
