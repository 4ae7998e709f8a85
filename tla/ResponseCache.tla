---------------------------- MODULE ResponseCache ----------------------------
(***************************************************************************)
(* One cached GET route: the lookup of fastapi_cache, the deduplicator's   *)
(* lock around the handler, the store, and writers that commit and then    *)
(* delete the key they have scanned.                                       *)
(*                                                                         *)
(* The lock is a Redis key without an owner that lives thirty seconds.     *)
(* Whoever waited for it computes too: the lock delays, it does not share. *)
(***************************************************************************)
EXTENDS Naturals

CONSTANTS
    Readers,    \* requests in flight, in any process
    Writers,    \* requests that change the data and invalidate the key
    Polls,      \* times a waiter looks again (fifty in the code)
    MaxVersion, \* bound on the data's versions
    Free        \* no lock, no entry, no value

ASSUME CountsAssumption == Polls \in Nat /\ MaxVersion \in Nat
ASSUME FreeAssumption == Free \notin Readers \cup (0..MaxVersion)

VARIABLES
    version,    \* of the data in the database
    entry,      \* the cached version and whether it is late or missed, or Free
    lock,       \* history: which reader set the lock, or Free
    reader,     \* per reader: step, polls left, acquired, version read, late
    writer      \* per writer: step, and whether its scan found the key

cacheVars == <<version, entry, lock, reader, writer>>

\* robbed (history): its lock expired, or another reader deleted it; late (history):
\* a write was committed since the handler read the data.  Of an entry, missed (history):
\* the invalidation after a write failed while the entry was there.
Waiting == [pc |-> "idle", polls |-> 0, acquired |-> FALSE, robbed |-> FALSE,
            value |-> Free, late |-> FALSE]

CacheInit ==
    /\ version = 0
    /\ entry = Free
    /\ lock = Free
    /\ reader = [r \in Readers |-> Waiting]
    /\ writer = [w \in Writers |-> [pc |-> "idle", found |-> FALSE]]

Step(r, s) == reader' = [reader EXCEPT ![r] = s]

\* The readers once the lock is deleted by somebody else than its holder.
Robbed == [r \in Readers |->
    IF r = lock /\ reader[r].acquired THEN [reader[r] EXCEPT !.robbed = TRUE] ELSE reader[r]]

-----------------------------------------------------------------------------
(* Readers *)

\* The GET of the key finds nothing: the route's wrapper is called.
Miss(r) ==
    /\ reader[r].pc = "idle" /\ entry = Free
    /\ Step(r, [Waiting EXCEPT !.pc = "missed"])
    /\ UNCHANGED <<version, entry, lock, writer>>

\* SET NX on the lock decides.
TakeLock(r) ==
    /\ reader[r].pc = "missed"
    /\ IF lock = Free
       THEN /\ lock' = r
            /\ Step(r, [Waiting EXCEPT !.pc = "compute", !.acquired = TRUE])
       ELSE /\ Step(r, [Waiting EXCEPT !.pc = "wait", !.polls = Polls])
            /\ UNCHANGED lock
    /\ UNCHANGED <<version, entry, writer>>

\* A poll finds the lock; the last one gives up and computes.
Poll(r) ==
    /\ reader[r].pc = "wait" /\ lock # Free
    /\ Step(r, IF reader[r].polls > 1 THEN [reader[r] EXCEPT !.polls = @ - 1]
                                      ELSE [reader[r] EXCEPT !.pc = "compute", !.polls = 0])
    /\ UNCHANGED <<version, entry, lock, writer>>

\* A poll finds no lock: compute, without looking at the cache again.
PollFree(r) ==
    /\ reader[r].pc = "wait" /\ lock = Free
    /\ Step(r, [reader[r] EXCEPT !.pc = "compute", !.polls = 0])
    /\ UNCHANGED <<version, entry, lock, writer>>

\* The handler reads the data.
Compute(r) ==
    /\ reader[r].pc = "compute"
    /\ Step(r, [reader[r] EXCEPT !.pc = "release", !.value = version])
    /\ UNCHANGED <<version, entry, lock, writer>>

\* Mutant: whoever ran the handler deletes the lock.
ReleasesAlways(r) == TRUE

Releases(r) == reader[r].acquired

\* finally: the lock is deleted, whoever set it.
Unlock(r, s) ==
    /\ lock' = IF Releases(r) THEN Free ELSE lock
    /\ reader' = [(IF Releases(r) THEN Robbed ELSE reader) EXCEPT ![r] = s]

\* The lock goes before the value is stored.
Release(r) ==
    /\ reader[r].pc = "release"
    /\ Unlock(r, [reader[r] EXCEPT !.pc = "store"])
    /\ UNCHANGED <<version, entry, writer>>

\* fastapi_cache stores what the wrapper returned.
Store(r) ==
    /\ reader[r].pc = "store"
    /\ entry' = [value |-> reader[r].value, late |-> reader[r].late, missed |-> FALSE]
    /\ Step(r, Waiting)
    /\ UNCHANGED <<version, lock, writer>>

\* The handler raises, or returns a Response: released, nothing is stored.
ComputeRaises(r) ==
    /\ reader[r].pc = "compute"
    /\ Unlock(r, Waiting)
    /\ UNCHANGED <<version, entry, writer>>

\* The process dies: the lock stays until it expires.
ReaderDies(r) ==
    /\ reader[r].pc \in {"compute", "release", "store"}
    /\ Step(r, Waiting)
    /\ UNCHANGED <<version, entry, lock, writer>>

\* Thirty seconds have passed since SET NX.
LockExpires ==
    /\ lock # Free
    /\ lock' = Free
    /\ reader' = Robbed
    /\ UNCHANGED <<version, entry, writer>>

EntryExpires ==
    /\ entry # Free
    /\ entry' = Free
    /\ UNCHANGED <<version, lock, reader, writer>>

-----------------------------------------------------------------------------
(* Writers: services.call commits, then remove_user_cache_sync *)

Commit(w) ==
    /\ writer[w].pc = "idle" /\ version < MaxVersion
    /\ version' = version + 1
    /\ writer' = [writer EXCEPT ![w].pc = "scan"]
    /\ reader' = [r \in Readers |-> [reader[r] EXCEPT !.late = reader[r].value # Free]]
    /\ UNCHANGED <<entry, lock>>

\* Mutant: the pattern does not match the keys that are built.
MatchesNothing == FALSE

PatternMatches == entry # Free

\* scan_iter collects the keys of the pattern.
Scan(w) ==
    /\ writer[w].pc = "scan"
    /\ writer' = [writer EXCEPT ![w] = [pc |-> "delete", found |-> PatternMatches]]
    /\ UNCHANGED <<version, entry, lock, reader>>

DeleteKeys(w) ==
    /\ writer[w].pc = "delete"
    /\ entry' = IF writer[w].found THEN Free ELSE entry
    /\ writer' = [writer EXCEPT ![w] = [pc |-> "idle", found |-> FALSE]]
    /\ UNCHANGED <<version, lock, reader>>

\* Redis cannot be reached: the error is logged, and the write stands.
InvalidationFails(w) ==
    /\ writer[w].pc \in {"scan", "delete"}
    /\ entry' = IF entry = Free THEN Free ELSE [entry EXCEPT !.missed = TRUE]
    /\ writer' = [writer EXCEPT ![w] = [pc |-> "idle", found |-> FALSE]]
    /\ UNCHANGED <<version, lock, reader>>

CacheNext ==
    \/ \E r \in Readers :
          \/ Miss(r) \/ TakeLock(r) \/ Poll(r) \/ PollFree(r) \/ Compute(r) \/ Release(r)
          \/ Store(r) \/ ComputeRaises(r) \/ ReaderDies(r)
    \/ \E w \in Writers : Commit(w) \/ Scan(w) \/ DeleteKeys(w) \/ InvalidationFails(w)
    \/ LockExpires \/ EntryExpires

CacheSpec == CacheInit /\ [][CacheNext]_cacheVars

-----------------------------------------------------------------------------
CacheTypeOK ==
    /\ version \in 0..MaxVersion
    /\ entry \in [value: 0..MaxVersion, late: BOOLEAN, missed: BOOLEAN] \cup {Free}
    /\ lock \in Readers \cup {Free}
    /\ reader \in [Readers -> [pc: {"idle", "missed", "wait", "compute", "release", "store"},
                               polls: 0..Polls, acquired: BOOLEAN, robbed: BOOLEAN,
                               value: 0..MaxVersion \cup {Free}, late: BOOLEAN]]
    /\ writer \in [Writers -> [pc: {"idle", "scan", "delete"}, found: BOOLEAN]]

\* Once every writer is done, a stale entry comes from a handler that had read the
\* data before a write committed and was stored after its scan, unless Redis failed
\* an invalidation: there is no other way for the cache to serve old data.
StaleOnlyFromRace ==
    (entry # Free /\ \A w \in Writers : writer[w].pc = "idle") =>
        (entry.value = version \/ entry.late \/ entry.missed)

\* A finishing request frees the lock of another one only when its own lock was
\* taken from it, by the TTL or by a request in the same position: waiters that gave
\* up never do, and without an expiry nobody does.
LockFreedByHolder ==
    [][\A r \in Readers :
           (Release(r) \/ ComputeRaises(r)) /\ lock # Free /\ lock' = Free =>
               lock = r \/ reader[r].robbed]_cacheVars

=============================================================================
