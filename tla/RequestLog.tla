------------------------------ MODULE RequestLog ------------------------------
(***************************************************************************)
(* The request log of one session: every response appends an entry to a    *)
(* Redis list; past a cap, and at logout, the list is summarised into rows *)
(* of the database and deleted.  Length check, read, persist, delete and   *)
(* push are separate calls of recorders that run in parallel.              *)
(***************************************************************************)
EXTENDS Naturals, Sequences, FiniteSets, SequencesExt

CONSTANTS
    Entries,        \* requests to be logged
    Recorders,      \* background tasks, in any process
    MaxBuffered     \* MAX_BUFFERED_REQUESTS_PER_SESSION

ASSUME RecordersAssumption == IsFiniteSet(Recorders) /\ MaxBuffered \in Nat

VARIABLES
    list,       \* the Redis list
    rec,        \* per recorder: its step and what it has read
    summed,     \* history: entries counted in some summary row
    pushed      \* history: entries that were pushed

logVars == <<list, rec, summed, pushed>>

\* alone (history): nobody else touched the list, and no persist failed, since its read
Still == [pc |-> "idle", last |-> FALSE, taken |-> <<>>, alone |-> FALSE]

LogInit ==
    /\ list = <<>>
    /\ rec = [r \in Recorders |-> Still]
    /\ summed = {}
    /\ pushed = {}

\* Recorder r touches the list in its step to s.
Touch(r, s) == [q \in Recorders |-> IF q = r THEN s ELSE [rec[q] EXCEPT !.alone = FALSE]]

-----------------------------------------------------------------------------
OverCap == Len(list) > MaxBuffered

\* record: LLEN
Record(r) ==
    /\ rec[r].pc = "idle" /\ pushed # Entries
    /\ rec' = [rec EXCEPT ![r] = [Still EXCEPT !.pc = IF OverCap THEN "read" ELSE "push"]]
    /\ UNCHANGED <<list, summed, pushed>>

\* flush_endpoint_summary of a logout
Logout(r) ==
    /\ rec[r].pc = "idle" /\ list # <<>>
    /\ rec' = [rec EXCEPT ![r] = [Still EXCEPT !.pc = "read", !.last = TRUE]]
    /\ UNCHANGED <<list, summed, pushed>>

\* LRANGE; an empty summary is not persisted.
Read(r) ==
    /\ rec[r].pc = "read"
    /\ rec' = Touch(r, [rec[r] EXCEPT !.pc = IF list = <<>> THEN "delete" ELSE "persist",
                                      !.taken = list, !.alone = TRUE])
    /\ UNCHANGED <<list, summed, pushed>>

\* Mutant: the summary misses the newest entry.
AllButLast(r) == ToSet(Front(rec[r].taken))

Summary(r) == ToSet(rec[r].taken)

\* _persist_summary: one committed row per endpoint and cache status
Persist(r) ==
    /\ rec[r].pc = "persist"
    /\ summed' = summed \cup Summary(r)
    /\ rec' = [rec EXCEPT ![r].pc = "delete"]
    /\ UNCHANGED <<list, pushed>>

\* It raises after some of the rows: logged, and the list is deleted all the same.
PersistFails(r) ==
    /\ rec[r].pc = "persist"
    /\ \E es \in SUBSET Summary(r) : es # Summary(r) /\ summed' = summed \cup es
    /\ rec' = [rec EXCEPT ![r].pc = "delete", ![r].alone = FALSE]
    /\ UNCHANGED <<list, pushed>>

\* DEL; a logout is done, a recorder still has its entry.
Delete(r) ==
    /\ rec[r].pc = "delete"
    /\ list' = <<>>
    /\ rec' = Touch(r, IF rec[r].last THEN Still ELSE [Still EXCEPT !.pc = "push"])
    /\ UNCHANGED <<summed, pushed>>

\* RPUSH and EXPIRE in one transaction
Push(r) ==
    /\ rec[r].pc = "push"
    /\ \E e \in Entries \ pushed : list' = Append(list, e) /\ pushed' = pushed \cup {e}
    /\ rec' = Touch(r, Still)
    /\ UNCHANGED summed

\* Redis fails in any of these calls: the entry is not logged.
RecordFails(r) ==
    /\ rec[r].pc \in {"push", "read", "delete"}
    /\ rec' = [rec EXCEPT ![r] = Still]
    /\ UNCHANGED <<list, summed, pushed>>

\* The list's TTL passes.
ListExpires ==
    /\ list # <<>>
    /\ list' = <<>>
    /\ rec' = [r \in Recorders |-> [rec[r] EXCEPT !.alone = FALSE]]
    /\ UNCHANGED <<summed, pushed>>

LogNext ==
    \/ \E r \in Recorders :
          \/ Record(r) \/ Logout(r) \/ Read(r) \/ Persist(r) \/ PersistFails(r)
          \/ Delete(r) \/ Push(r) \/ RecordFails(r)
    \/ ListExpires

LogSpec == LogInit /\ [][LogNext]_logVars

-----------------------------------------------------------------------------
LogTypeOK ==
    /\ list \in Seq(pushed) /\ pushed \subseteq Entries
    /\ rec \in [Recorders -> [pc: {"idle", "read", "persist", "delete", "push"},
                              last: BOOLEAN, taken: Seq(Entries), alone: BOOLEAN]]
    /\ summed \subseteq Entries

\* However many requests find the list below the cap at once, it never holds more
\* than the cap plus one entry per recorder.
ListBounded == Len(list) <= MaxBuffered + Cardinality(Recorders)

\* A flush during which nobody else touched the list, and whose rows were all
\* written, deletes nothing that is not in a summary: entries are lost only to a
\* flush that another recorder overlaps, to a failing call or to the list's TTL.
QuietFlushLosesNothing ==
    \A r \in Recorders :
        rec[r].pc = "delete" /\ rec[r].alone => ToSet(list) \subseteq summed

=============================================================================
