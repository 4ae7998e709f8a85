--------------------------- MODULE SandboxSession ---------------------------
(***************************************************************************)
(* What the impersonation feature promises about the database: at most one *)
(* transaction is open, it belongs to one impersonation for as long as it  *)
(* is open, it only holds writes of that impersonation, an impersonation   *)
(* never gets a second transaction, and nothing is ever committed.         *)
(***************************************************************************)
CONSTANTS
    Ids,    \* impersonation ids
    None

VARIABLES
    session,    \* the impersonation whose transaction is open, or None
    pending,    \* the impersonations whose writes the transaction holds
    committed,  \* the impersonations whose writes became durable
    opened      \* the impersonations that have had a transaction

vars == <<session, pending, committed, opened>>

Init == session = None /\ pending = {} /\ committed = {} /\ opened = {}

Open(i) ==
    /\ session = None /\ i \notin opened
    /\ session' = i /\ pending' = {} /\ opened' = opened \cup {i}
    /\ UNCHANGED committed

Write(i) ==
    /\ session = i
    /\ pending' = pending \cup {i}
    /\ UNCHANGED <<session, committed, opened>>

Rollback ==
    /\ session # None
    /\ pending' = {}
    /\ UNCHANGED <<session, committed, opened>>

Close ==
    /\ session # None
    /\ session' = None /\ pending' = {}
    /\ UNCHANGED <<committed, opened>>

Next == (\E i \in Ids : Open(i) \/ Write(i)) \/ Rollback \/ Close

Spec == Init /\ [][Next]_vars
=============================================================================
