--------------------- MODULE ImpersonationSessionProofs ---------------------
(***************************************************************************)
(* Proofs about ImpersonationSession for any number of threads, remote     *)
(* processes, impersonations and failures.                                 *)
(*                                                                         *)
(* The properties are not inductive: whether an end leaves the Session     *)
(* closed depends on no later start opening it again, which holds because  *)
(* every start has an id of its own (Fresh), because every request that    *)
(* ends an impersonation came with a token sent after the Session was      *)
(* opened (Tokens), and because whoever is inside a critical section of    *)
(* the holder has its mutex (Excluded).                                    *)
(***************************************************************************)
EXTENDS ImpersonationSession, TLAPS

USE DEF vars, redisVars, sessionVars, actorVars, idVars,
        Local, Actors, Requests, Reasons, Purposes, StartSteps, EndSteps,
        Steps, OwnEnds, Fault, Goto, Return, Begin, End, CloseSession,
        CloseRaises, EndSession, AfterCleanup, CloseStale, Superseded,
        Claimable, Matching, Called, Ended

StaleSteps == {"stale_active", "stale_lease"}

(* What an actor does at each step.                                        *)
Shape ==
    /\ \A a \in Threads \cup Remotes : pc[a] # "idle" => rid[a] \in Ids
    /\ pc[Cleaner] \in {"idle"} \cup StaleSteps /\ op[Cleaner] = "none"
    /\ \A r \in Remotes : pc[r] \in {"idle", "has", "audit", "release"}
    /\ \A a \in Actors :
          op[a] = "start" =>
             pc[a] \in StartSteps \cup StaleSteps \cup {"enter", "body"}
    /\ \A t \in Threads :
          /\ pc[t] \in StartSteps \cup StaleSteps => op[t] = "start"
          /\ pc[t] \in {"auth", "verify", "heartbeat"} => op[t] \in Ops
          /\ pc[t] \in {"enter", "body"} => op[t] \in Ops \cup {"start"}
          /\ pc[t] = "audit_replaced" => old[t] \in Ids
    /\ \A a \in Threads \cup Remotes : pc[a] \in EndSteps => op[a] \in Reasons

(* Whoever is inside a critical section of the holder has its mutex, and   *)
(* the Session it looks at stays.                                          *)
Excluded ==
    /\ BodyKeepsSession
    /\ \A a \in Local : pc[a] \in StaleSteps => mutex = a /\ held # None

(* Ids are fresh: a start that has not opened its Session has an id that   *)
(* no other start, Session, audit row or token has.                        *)
PreSession == (StartSteps \ {"audit_active"}) \cup StaleSteps
Fresh ==
    /\ opened \subseteq used
    /\ \A i \in Ids : audit[i] # "none" => i \in opened
    /\ \A t \in Threads : op[t] = "start" => rid[t] \in used \ issued
    /\ \A t, u \in Threads :
          op[t] = "start" /\ op[u] = "start" /\ rid[t] = rid[u] => t = u
    /\ \A t \in Threads :
          op[t] = "start" =>
             rid[t] \in opened <=> pc[t] \notin PreSession
    /\ \A t \in Threads : pc[t] = "audit_active" => audit[rid[t]] = "none"

(* The Session was opened by its owner's start and holds its writes only.  *)
Owned ==
    /\ held # None => held \in opened
    /\ writes \subseteq {held}

(* Tokens are sent for opened Sessions, and a request carries one.         *)
Tokens ==
    /\ issued \subseteq opened
    /\ \A a \in Threads \cup Remotes :
          op[a] \in Requests \cup OwnEnds => rid[a] \in issued

(* An own end past its critical sections left no Session of its own.       *)
Closed ==
    \A t \in Threads :
        pc[t] \in {"audit", "release"} /\ op[t] \in OwnEnds => held # rid[t]

IInv ==
    TypeOK /\ Shape /\ Excluded /\ Fresh /\ Owned /\ Tokens /\ Closed

-----------------------------------------------------------------------------
(* Nothing has started, and Redis and the worker are empty.                *)
LEMMA InitIInv == Init => IInv
<1> SUFFICES ASSUME Init PROVE IInv
  OBVIOUS
<1> USE ConstantsAssumption DEF Init
<1>1. TypeOK
  BY DEF TypeOK
<1>2. Shape /\ Excluded
  BY DEF Shape, Excluded, BodyKeepsSession, StaleSteps
<1>3. Fresh
  BY DEF Fresh, PreSession, StaleSteps
<1>4. Owned /\ Tokens /\ Closed
  BY DEF Owned, Tokens, Closed
<1> QED
  BY <1>1, <1>2, <1>3, <1>4 DEF IInv

(* Every variable keeps its type.                                          *)
LEMMA TypeStep ==
    ASSUME TypeOK, Shape, [Next]_vars
    PROVE  TypeOK'
<1> USE ConstantsAssumption DEF TypeOK, Shape, StaleSteps
<1>1. ASSUME NEW t \in Threads, NEW i \in Ids, StartBegin(t, i)
       PROVE  TypeOK'
  BY <1>1 DEF StartBegin
<1>2. ASSUME NEW t \in Threads, NEW i \in Ids, NEW o \in Ops,
             RequestBegin(t, i, o)
       PROVE  TypeOK'
  BY <1>2 DEF RequestBegin
<1>3. ASSUME NEW a \in Threads \cup Remotes, NEW i \in Ids,
             NEW reason \in {"force_ended_by_admin", "expired"},
             EndByAdmin(a, i, reason)
       PROVE  TypeOK'
  BY <1>3 DEF EndByAdmin
<1>4. ASSUME NEW t \in Threads, CleanupBeforeStart(t)
       PROVE  TypeOK'
  BY <1>4 DEF CleanupBeforeStart
<1>5. ASSUME NEW t \in Threads, TryClaim(t)
       PROVE  TypeOK'
  BY <1>5 DEF TryClaim
<1>6. ASSUME NEW t \in Threads, ClaimRefused(t)
       PROVE  TypeOK'
  BY <1>6 DEF ClaimRefused
<1>7. ASSUME NEW t \in Threads, AuditReplaced(t)
       PROVE  TypeOK'
  BY <1>7 DEF AuditReplaced
<1>8. ASSUME NEW t \in Threads, CloseReplaced(t)
       PROVE  TypeOK'
  BY <1>8 DEF CloseReplaced
<1>9. ASSUME NEW t \in Threads, StartSession(t)
       PROVE  TypeOK'
  BY <1>9 DEF StartSession
<1>10. ASSUME NEW t \in Threads, StillHeld(t)
       PROVE  TypeOK'
  BY <1>10 DEF StillHeld
<1>11. ASSUME NEW t \in Threads, AuditActive(t)
       PROVE  TypeOK'
  <2>1. rid[t] \in Ids
    BY <1>11 DEF AuditActive
  <2>2. audit' \in [Ids -> {"none", "active"} \cup Reasons]
    BY <1>11, <2>1 DEF AuditActive
  <2> QED
    BY <1>11, <2>2 DEF AuditActive
<1>12. ASSUME NEW t \in Threads, RefreshHeartbeat(t)
       PROVE  TypeOK'
  BY <1>12 DEF RefreshHeartbeat
<1>13. ASSUME NEW t \in Threads, NotOwner(t)
       PROVE  TypeOK'
  BY <1>13 DEF NotOwner
<1>14. ASSUME NEW t \in Threads, VerifyOwner(t)
       PROVE  TypeOK'
  BY <1>14 DEF VerifyOwner
<1>15. ASSUME NEW t \in Threads, CheckHeartbeat(t)
       PROVE  TypeOK'
  BY <1>15 DEF CheckHeartbeat
<1>16. ASSUME NEW t \in Threads, EnterSession(t)
       PROVE  TypeOK'
  BY <1>16 DEF EnterSession
<1>17. ASSUME NEW t \in Threads, NotFound(t)
       PROVE  TypeOK'
  BY <1>17 DEF NotFound
<1>18. ASSUME NEW t \in Threads, BodyReturns(t)
       PROVE  TypeOK'
  BY <1>18 DEF BodyReturns
<1>19. ASSUME NEW t \in Threads, LoginCommits(t)
       PROVE  TypeOK'
  BY <1>19 DEF LoginCommits
<1>20. ASSUME NEW t \in Threads, NestedLogout(t)
       PROVE  TypeOK'
  BY <1>20 DEF NestedLogout
<1>21. ASSUME NEW t \in Threads, RollbackSession(t)
       PROVE  TypeOK'
  BY <1>21 DEF RollbackSession
<1>22. ASSUME NEW t \in Threads, CloseEnded(t)
       PROVE  TypeOK'
  BY <1>22 DEF CloseEnded
<1>23. ASSUME NEW t \in Threads, Busy(t)
       PROVE  TypeOK'
  BY <1>23 DEF Busy
<1>24. ASSUME NEW t \in Threads, BodyRaises(t)
       PROVE  TypeOK'
  BY <1>24 DEF BodyRaises
<1>25. ASSUME NEW a \in Local, StaleActive(a)
       PROVE  TypeOK'
  BY <1>25 DEF StaleActive
<1>26. ASSUME NEW a \in Local, StillActive(a)
       PROVE  TypeOK'
  BY <1>26 DEF StillActive
<1>27. ASSUME NEW a \in Local, StaleLease(a)
       PROVE  TypeOK'
  BY <1>27 DEF StaleLease
<1>28. ASSUME NEW a \in Local, Healthy(a)
       PROVE  TypeOK'
  BY <1>28 DEF Healthy
<1>29. ASSUME NEW a \in Threads \cup Remotes, HasSession(a)
       PROVE  TypeOK'
  BY <1>29 DEF HasSession
<1>30. ASSUME NEW a \in Threads \cup Remotes, AuditEnd(a)
       PROVE  TypeOK'
  BY <1>30 DEF AuditEnd
<1>31. ASSUME NEW a \in Threads \cup Remotes, Release(a)
       PROVE  TypeOK'
  <2>1. CASE active = rid[a]
    BY <1>31, <2>1 DEF Release
  <2>2. CASE active # rid[a]
    BY <1>31, <2>2 DEF Release
  <2> QED
    BY <2>1, <2>2
<1>32. ASSUME NEW a \in Actors, StoreRaises(a)
       PROVE  TypeOK'
  BY <1>32 DEF StoreRaises
<1>33. ASSUME CleanupTick PROVE TypeOK'
  BY <1>33 DEF CleanupTick
<1>34. ASSUME Crash PROVE TypeOK'
  BY <1>34 DEF Crash
<1>35. ASSUME LeaseLapses PROVE TypeOK'
  BY <1>35 DEF LeaseLapses
<1>36. ASSUME ActiveExpires PROVE TypeOK'
  BY <1>36 DEF ActiveExpires
<1>37. ASSUME NEW i \in Ids, Age(i)
       PROVE  TypeOK'
  BY <1>37 DEF Age
<1>38. ASSUME UNCHANGED vars PROVE TypeOK'
  BY <1>38
<1> QED
  BY <1>1, <1>2, <1>3, <1>4, <1>5, <1>6, <1>7, <1>8, <1>9, <1>10, <1>11,
     <1>12, <1>13, <1>14, <1>15, <1>16, <1>17, <1>18, <1>19, <1>20, <1>21,
     <1>22, <1>23, <1>24, <1>25, <1>26, <1>27, <1>28, <1>29, <1>30, <1>31,
     <1>32, <1>33, <1>34, <1>35, <1>36, <1>37, <1>38, SMTT(60)
  DEF Next, Client, Failure, Time, ThreadStep, CleanerStep, StartStep,
      UseStep, EndStep, LocalEndStep, CleanupStep

(* Every action takes its actor to a step with the right purpose.          *)
LEMMA ShapeStep ==
    ASSUME TypeOK, Shape, [Next]_vars
    PROVE  Shape'
<1> USE ConstantsAssumption DEF TypeOK, Shape, StaleSteps
<1>1. ASSUME NEW t \in Threads, NEW i \in Ids, StartBegin(t, i)
       PROVE  Shape'
  BY <1>1 DEF StartBegin
<1>2. ASSUME NEW t \in Threads, NEW i \in Ids, NEW o \in Ops,
             RequestBegin(t, i, o)
       PROVE  Shape'
  BY <1>2 DEF RequestBegin
<1>3. ASSUME NEW a \in Threads \cup Remotes, NEW i \in Ids,
             NEW reason \in {"force_ended_by_admin", "expired"},
             EndByAdmin(a, i, reason)
       PROVE  Shape'
  BY <1>3 DEF EndByAdmin
<1>4. ASSUME NEW t \in Threads, CleanupBeforeStart(t)
       PROVE  Shape'
  BY <1>4 DEF CleanupBeforeStart
<1>5. ASSUME NEW t \in Threads, TryClaim(t)
       PROVE  Shape'
  BY <1>5 DEF TryClaim
<1>6. ASSUME NEW t \in Threads, ClaimRefused(t)
       PROVE  Shape'
  BY <1>6 DEF ClaimRefused
<1>7. ASSUME NEW t \in Threads, AuditReplaced(t)
       PROVE  Shape'
  BY <1>7 DEF AuditReplaced
<1>8. ASSUME NEW t \in Threads, CloseReplaced(t)
       PROVE  Shape'
  BY <1>8 DEF CloseReplaced
<1>9. ASSUME NEW t \in Threads, StartSession(t)
       PROVE  Shape'
  BY <1>9 DEF StartSession
<1>10. ASSUME NEW t \in Threads, StillHeld(t)
       PROVE  Shape'
  BY <1>10 DEF StillHeld
<1>11. ASSUME NEW t \in Threads, AuditActive(t)
       PROVE  Shape'
  BY <1>11 DEF AuditActive
<1>12. ASSUME NEW t \in Threads, RefreshHeartbeat(t)
       PROVE  Shape'
  BY <1>12 DEF RefreshHeartbeat
<1>13. ASSUME NEW t \in Threads, NotOwner(t)
       PROVE  Shape'
  BY <1>13 DEF NotOwner
<1>14. ASSUME NEW t \in Threads, VerifyOwner(t)
       PROVE  Shape'
  BY <1>14 DEF VerifyOwner
<1>15. ASSUME NEW t \in Threads, CheckHeartbeat(t)
       PROVE  Shape'
  BY <1>15 DEF CheckHeartbeat
<1>16. ASSUME NEW t \in Threads, EnterSession(t)
       PROVE  Shape'
  BY <1>16 DEF EnterSession
<1>17. ASSUME NEW t \in Threads, NotFound(t)
       PROVE  Shape'
  <2>1. op[t] \in Ops \cup {"start"} /\ rid[t] \in Ids
    BY <1>17 DEF NotFound
  <2>2. \/ End(t, "worker_crash_detected")
        \/ End(t, "request_error")
        \/ Return(t)
    BY <1>17, <2>1 DEF NotFound
  <2> QED
    BY <1>17, <2>1, <2>2 DEF NotFound
<1>18. ASSUME NEW t \in Threads, BodyReturns(t)
       PROVE  Shape'
  BY <1>18 DEF BodyReturns
<1>19. ASSUME NEW t \in Threads, LoginCommits(t)
       PROVE  Shape'
  BY <1>19 DEF LoginCommits
<1>20. ASSUME NEW t \in Threads, NestedLogout(t)
       PROVE  Shape'
  BY <1>20 DEF NestedLogout
<1>21. ASSUME NEW t \in Threads, RollbackSession(t)
       PROVE  Shape'
  BY <1>21 DEF RollbackSession
<1>22. ASSUME NEW t \in Threads, CloseEnded(t)
       PROVE  Shape'
  BY <1>22 DEF CloseEnded
<1>23. ASSUME NEW t \in Threads, Busy(t)
       PROVE  Shape'
  BY <1>23 DEF Busy
<1>24. ASSUME NEW t \in Threads, BodyRaises(t)
       PROVE  Shape'
  BY <1>24 DEF BodyRaises
<1>25. ASSUME NEW a \in Local, StaleActive(a)
       PROVE  Shape'
  BY <1>25 DEF StaleActive
<1>26. ASSUME NEW a \in Local, StillActive(a)
       PROVE  Shape'
  BY <1>26 DEF StillActive
<1>27. ASSUME NEW a \in Local, StaleLease(a)
       PROVE  Shape'
  BY <1>27 DEF StaleLease
<1>28. ASSUME NEW a \in Local, Healthy(a)
       PROVE  Shape'
  BY <1>28 DEF Healthy
<1>29. ASSUME NEW a \in Threads \cup Remotes, HasSession(a)
       PROVE  Shape'
  BY <1>29 DEF HasSession
<1>30. ASSUME NEW a \in Threads \cup Remotes, AuditEnd(a)
       PROVE  Shape'
  BY <1>30 DEF AuditEnd
<1>31. ASSUME NEW a \in Threads \cup Remotes, Release(a)
       PROVE  Shape'
  BY <1>31 DEF Release
<1>32. ASSUME NEW a \in Actors, StoreRaises(a)
       PROVE  Shape'
  BY <1>32 DEF StoreRaises
<1>33. ASSUME CleanupTick PROVE Shape'
  BY <1>33 DEF CleanupTick
<1>34. ASSUME Crash PROVE Shape'
  BY <1>34 DEF Crash
<1>35. ASSUME LeaseLapses PROVE Shape'
  BY <1>35 DEF LeaseLapses
<1>36. ASSUME ActiveExpires PROVE Shape'
  BY <1>36 DEF ActiveExpires
<1>37. ASSUME NEW i \in Ids, Age(i)
       PROVE  Shape'
  BY <1>37 DEF Age
<1>38. ASSUME UNCHANGED vars PROVE Shape'
  BY <1>38
<1> QED
  BY <1>1, <1>2, <1>3, <1>4, <1>5, <1>6, <1>7, <1>8, <1>9, <1>10, <1>11,
     <1>12, <1>13, <1>14, <1>15, <1>16, <1>17, <1>18, <1>19, <1>20, <1>21,
     <1>22, <1>23, <1>24, <1>25, <1>26, <1>27, <1>28, <1>29, <1>30, <1>31,
     <1>32, <1>33, <1>34, <1>35, <1>36, <1>37, <1>38
  DEF Next, Client, Failure, Time, ThreadStep, CleanerStep, StartStep,
      UseStep, EndStep, LocalEndStep, CleanupStep

(* The mutex protects what its holder sees.                                *)
LEMMA ExcludedStep ==
    ASSUME TypeOK, Shape, Excluded, [Next]_vars
    PROVE  Excluded'
<1> USE ConstantsAssumption DEF TypeOK, Shape, StaleSteps, Excluded,
    BodyKeepsSession
<1>1. ASSUME NEW t \in Threads, NEW i \in Ids, StartBegin(t, i)
       PROVE  Excluded'
  BY <1>1 DEF StartBegin
<1>2. ASSUME NEW t \in Threads, NEW i \in Ids, NEW o \in Ops,
             RequestBegin(t, i, o)
       PROVE  Excluded'
  BY SMTT(60), <1>2 DEF RequestBegin
<1>3. ASSUME NEW a \in Threads \cup Remotes, NEW i \in Ids,
             NEW reason \in {"force_ended_by_admin", "expired"},
             EndByAdmin(a, i, reason)
       PROVE  Excluded'
  BY <1>3 DEF EndByAdmin
<1>4. ASSUME NEW t \in Threads, CleanupBeforeStart(t)
       PROVE  Excluded'
  BY <1>4 DEF CleanupBeforeStart
<1>5. ASSUME NEW t \in Threads, TryClaim(t)
       PROVE  Excluded'
  BY <1>5 DEF TryClaim
<1>6. ASSUME NEW t \in Threads, ClaimRefused(t)
       PROVE  Excluded'
  BY <1>6 DEF ClaimRefused
<1>7. ASSUME NEW t \in Threads, AuditReplaced(t)
       PROVE  Excluded'
  BY <1>7 DEF AuditReplaced
<1>8. ASSUME NEW t \in Threads, CloseReplaced(t)
       PROVE  Excluded'
  BY <1>8 DEF CloseReplaced
<1>9. ASSUME NEW t \in Threads, StartSession(t)
       PROVE  Excluded'
  BY <1>9 DEF StartSession
<1>10. ASSUME NEW t \in Threads, StillHeld(t)
       PROVE  Excluded'
  BY <1>10 DEF StillHeld
<1>11. ASSUME NEW t \in Threads, AuditActive(t)
       PROVE  Excluded'
  BY <1>11 DEF AuditActive
<1>12. ASSUME NEW t \in Threads, RefreshHeartbeat(t)
       PROVE  Excluded'
  BY <1>12 DEF RefreshHeartbeat
<1>13. ASSUME NEW t \in Threads, NotOwner(t)
       PROVE  Excluded'
  BY <1>13 DEF NotOwner
<1>14. ASSUME NEW t \in Threads, VerifyOwner(t)
       PROVE  Excluded'
  BY <1>14 DEF VerifyOwner
<1>15. ASSUME NEW t \in Threads, CheckHeartbeat(t)
       PROVE  Excluded'
  BY <1>15 DEF CheckHeartbeat
<1>16. ASSUME NEW t \in Threads, EnterSession(t)
       PROVE  Excluded'
  BY <1>16 DEF EnterSession
<1>17. ASSUME NEW t \in Threads, NotFound(t)
       PROVE  Excluded'
  BY <1>17 DEF NotFound
<1>18. ASSUME NEW t \in Threads, BodyReturns(t)
       PROVE  Excluded'
  BY <1>18 DEF BodyReturns
<1>19. ASSUME NEW t \in Threads, LoginCommits(t)
       PROVE  Excluded'
  BY <1>19 DEF LoginCommits
<1>20. ASSUME NEW t \in Threads, NestedLogout(t)
       PROVE  Excluded'
  BY <1>20 DEF NestedLogout
<1>21. ASSUME NEW t \in Threads, RollbackSession(t)
       PROVE  Excluded'
  BY <1>21 DEF RollbackSession
<1>22. ASSUME NEW t \in Threads, CloseEnded(t)
       PROVE  Excluded'
  BY <1>22 DEF CloseEnded
<1>23. ASSUME NEW t \in Threads, Busy(t)
       PROVE  Excluded'
  BY <1>23 DEF Busy
<1>24. ASSUME NEW t \in Threads, BodyRaises(t)
       PROVE  Excluded'
  BY <1>24 DEF BodyRaises
<1>25. ASSUME NEW a \in Local, StaleActive(a)
       PROVE  Excluded'
  BY <1>25 DEF StaleActive
<1>26. ASSUME NEW a \in Local, StillActive(a)
       PROVE  Excluded'
  BY <1>26 DEF StillActive
<1>27. ASSUME NEW a \in Local, StaleLease(a)
       PROVE  Excluded'
  BY <1>27 DEF StaleLease
<1>28. ASSUME NEW a \in Local, Healthy(a)
       PROVE  Excluded'
  BY <1>28 DEF Healthy
<1>29. ASSUME NEW a \in Threads \cup Remotes, HasSession(a)
       PROVE  Excluded'
  BY <1>29 DEF HasSession
<1>30. ASSUME NEW a \in Threads \cup Remotes, AuditEnd(a)
       PROVE  Excluded'
  BY <1>30 DEF AuditEnd
<1>31. ASSUME NEW a \in Threads \cup Remotes, Release(a)
       PROVE  Excluded'
  BY <1>31 DEF Release
<1>32. ASSUME NEW a \in Actors, StoreRaises(a)
       PROVE  Excluded'
  BY <1>32 DEF StoreRaises
<1>33. ASSUME CleanupTick PROVE Excluded'
  BY <1>33 DEF CleanupTick
<1>34. ASSUME Crash PROVE Excluded'
  BY <1>34 DEF Crash
<1>35. ASSUME LeaseLapses PROVE Excluded'
  BY <1>35 DEF LeaseLapses
<1>36. ASSUME ActiveExpires PROVE Excluded'
  BY <1>36 DEF ActiveExpires
<1>37. ASSUME NEW i \in Ids, Age(i)
       PROVE  Excluded'
  BY <1>37 DEF Age
<1>38. ASSUME UNCHANGED vars PROVE Excluded'
  BY <1>38, SMTT(60)
<1> QED
  BY <1>1, <1>2, <1>3, <1>4, <1>5, <1>6, <1>7, <1>8, <1>9, <1>10, <1>11,
     <1>12, <1>13, <1>14, <1>15, <1>16, <1>17, <1>18, <1>19, <1>20, <1>21,
     <1>22, <1>23, <1>24, <1>25, <1>26, <1>27, <1>28, <1>29, <1>30, <1>31,
     <1>32, <1>33, <1>34, <1>35, <1>36, <1>37, <1>38
  DEF Next, Client, Failure, Time, ThreadStep, CleanerStep, StartStep,
      UseStep, EndStep, LocalEndStep, CleanupStep

(* Starts never share an id, and only a start writes "active".             *)
LEMMA FreshStep ==
    ASSUME TypeOK, Shape, Excluded, Tokens, Fresh, [Next]_vars
    PROVE  Fresh'
<1> USE ConstantsAssumption DEF TypeOK, Shape, StaleSteps, PreSession, Fresh,
    Tokens,
           Excluded, BodyKeepsSession
<1>1. ASSUME NEW t \in Threads, NEW i \in Ids, StartBegin(t, i)
       PROVE  Fresh'
  BY <1>1 DEF StartBegin
<1>2. ASSUME NEW t \in Threads, NEW i \in Ids, NEW o \in Ops,
             RequestBegin(t, i, o)
       PROVE  Fresh'
  BY <1>2 DEF RequestBegin
<1>3. ASSUME NEW a \in Threads \cup Remotes, NEW i \in Ids,
             NEW reason \in {"force_ended_by_admin", "expired"},
             EndByAdmin(a, i, reason)
       PROVE  Fresh'
  BY <1>3 DEF EndByAdmin
<1>4. ASSUME NEW t \in Threads, CleanupBeforeStart(t)
       PROVE  Fresh'
  BY <1>4 DEF CleanupBeforeStart
<1>5. ASSUME NEW t \in Threads, TryClaim(t)
       PROVE  Fresh'
  BY <1>5 DEF TryClaim
<1>6. ASSUME NEW t \in Threads, ClaimRefused(t)
       PROVE  Fresh'
  BY <1>6 DEF ClaimRefused
<1>7. ASSUME NEW t \in Threads, AuditReplaced(t)
       PROVE  Fresh'
  BY <1>7 DEF AuditReplaced
<1>8. ASSUME NEW t \in Threads, CloseReplaced(t)
       PROVE  Fresh'
  BY <1>8 DEF CloseReplaced
<1>9. ASSUME NEW t \in Threads, StartSession(t)
       PROVE  Fresh'
  BY <1>9 DEF StartSession
<1>10. ASSUME NEW t \in Threads, StillHeld(t)
       PROVE  Fresh'
  BY <1>10 DEF StillHeld
<1>11. ASSUME NEW t \in Threads, AuditActive(t)
       PROVE  Fresh'
  BY <1>11 DEF AuditActive
<1>12. ASSUME NEW t \in Threads, RefreshHeartbeat(t)
       PROVE  Fresh'
  BY <1>12 DEF RefreshHeartbeat
<1>13. ASSUME NEW t \in Threads, NotOwner(t)
       PROVE  Fresh'
  BY <1>13 DEF NotOwner
<1>14. ASSUME NEW t \in Threads, VerifyOwner(t)
       PROVE  Fresh'
  BY <1>14 DEF VerifyOwner
<1>15. ASSUME NEW t \in Threads, CheckHeartbeat(t)
       PROVE  Fresh'
  BY <1>15 DEF CheckHeartbeat
<1>16. ASSUME NEW t \in Threads, EnterSession(t)
       PROVE  Fresh'
  BY <1>16 DEF EnterSession
<1>17. ASSUME NEW t \in Threads, NotFound(t)
       PROVE  Fresh'
  BY <1>17 DEF NotFound
<1>18. ASSUME NEW t \in Threads, BodyReturns(t)
       PROVE  Fresh'
  BY <1>18 DEF BodyReturns
<1>19. ASSUME NEW t \in Threads, LoginCommits(t)
       PROVE  Fresh'
  BY <1>19 DEF LoginCommits
<1>20. ASSUME NEW t \in Threads, NestedLogout(t)
       PROVE  Fresh'
  BY <1>20 DEF NestedLogout
<1>21. ASSUME NEW t \in Threads, RollbackSession(t)
       PROVE  Fresh'
  BY <1>21 DEF RollbackSession
<1>22. ASSUME NEW t \in Threads, CloseEnded(t)
       PROVE  Fresh'
  BY <1>22 DEF CloseEnded
<1>23. ASSUME NEW t \in Threads, Busy(t)
       PROVE  Fresh'
  BY <1>23 DEF Busy
<1>24. ASSUME NEW t \in Threads, BodyRaises(t)
       PROVE  Fresh'
  BY <1>24 DEF BodyRaises
<1>25. ASSUME NEW a \in Local, StaleActive(a)
       PROVE  Fresh'
  BY <1>25 DEF StaleActive
<1>26. ASSUME NEW a \in Local, StillActive(a)
       PROVE  Fresh'
  BY <1>26 DEF StillActive
<1>27. ASSUME NEW a \in Local, StaleLease(a)
       PROVE  Fresh'
  BY <1>27 DEF StaleLease
<1>28. ASSUME NEW a \in Local, Healthy(a)
       PROVE  Fresh'
  BY <1>28 DEF Healthy
<1>29. ASSUME NEW a \in Threads \cup Remotes, HasSession(a)
       PROVE  Fresh'
  BY <1>29 DEF HasSession
<1>30. ASSUME NEW a \in Threads \cup Remotes, AuditEnd(a)
       PROVE  Fresh'
  BY <1>30 DEF AuditEnd
<1>31. ASSUME NEW a \in Threads \cup Remotes, Release(a)
       PROVE  Fresh'
  BY <1>31 DEF Release
<1>32. ASSUME NEW a \in Actors, StoreRaises(a)
       PROVE  Fresh'
  BY <1>32 DEF StoreRaises
<1>33. ASSUME CleanupTick PROVE Fresh'
  BY <1>33 DEF CleanupTick
<1>34. ASSUME Crash PROVE Fresh'
  BY <1>34 DEF Crash
<1>35. ASSUME LeaseLapses PROVE Fresh'
  BY <1>35 DEF LeaseLapses
<1>36. ASSUME ActiveExpires PROVE Fresh'
  BY <1>36 DEF ActiveExpires
<1>37. ASSUME NEW i \in Ids, Age(i)
       PROVE  Fresh'
  BY <1>37 DEF Age
<1>38. ASSUME UNCHANGED vars PROVE Fresh'
  BY <1>38
<1> QED
  BY <1>1, <1>2, <1>3, <1>4, <1>5, <1>6, <1>7, <1>8, <1>9, <1>10, <1>11,
     <1>12, <1>13, <1>14, <1>15, <1>16, <1>17, <1>18, <1>19, <1>20, <1>21,
     <1>22, <1>23, <1>24, <1>25, <1>26, <1>27, <1>28, <1>29, <1>30, <1>31,
     <1>32, <1>33, <1>34, <1>35, <1>36, <1>37, <1>38
  DEF Next, Client, Failure, Time, ThreadStep, CleanerStep, StartStep,
      UseStep, EndStep, LocalEndStep, CleanupStep

(* Only the owner of the open Session writes into it.                      *)
LEMMA OwnedStep ==
    ASSUME TypeOK, Shape, Excluded, Owned, [Next]_vars
    PROVE  Owned'
<1> USE ConstantsAssumption DEF TypeOK, Shape, Excluded, BodyKeepsSession,
    Owned
<1>1. ASSUME NEW t \in Threads, NEW i \in Ids, StartBegin(t, i)
       PROVE  Owned'
  BY <1>1 DEF StartBegin
<1>2. ASSUME NEW t \in Threads, NEW i \in Ids, NEW o \in Ops,
             RequestBegin(t, i, o)
       PROVE  Owned'
  BY <1>2 DEF RequestBegin
<1>3. ASSUME NEW a \in Threads \cup Remotes, NEW i \in Ids,
             NEW reason \in {"force_ended_by_admin", "expired"},
             EndByAdmin(a, i, reason)
       PROVE  Owned'
  BY <1>3 DEF EndByAdmin
<1>4. ASSUME NEW t \in Threads, CleanupBeforeStart(t)
       PROVE  Owned'
  BY <1>4 DEF CleanupBeforeStart
<1>5. ASSUME NEW t \in Threads, TryClaim(t)
       PROVE  Owned'
  BY <1>5 DEF TryClaim
<1>6. ASSUME NEW t \in Threads, ClaimRefused(t)
       PROVE  Owned'
  BY <1>6 DEF ClaimRefused
<1>7. ASSUME NEW t \in Threads, AuditReplaced(t)
       PROVE  Owned'
  BY <1>7 DEF AuditReplaced
<1>8. ASSUME NEW t \in Threads, CloseReplaced(t)
       PROVE  Owned'
  BY <1>8 DEF CloseReplaced
<1>9. ASSUME NEW t \in Threads, StartSession(t)
       PROVE  Owned'
  BY <1>9 DEF StartSession
<1>10. ASSUME NEW t \in Threads, StillHeld(t)
       PROVE  Owned'
  BY <1>10 DEF StillHeld
<1>11. ASSUME NEW t \in Threads, AuditActive(t)
       PROVE  Owned'
  BY <1>11 DEF AuditActive
<1>12. ASSUME NEW t \in Threads, RefreshHeartbeat(t)
       PROVE  Owned'
  BY <1>12 DEF RefreshHeartbeat
<1>13. ASSUME NEW t \in Threads, NotOwner(t)
       PROVE  Owned'
  BY <1>13 DEF NotOwner
<1>14. ASSUME NEW t \in Threads, VerifyOwner(t)
       PROVE  Owned'
  BY <1>14 DEF VerifyOwner
<1>15. ASSUME NEW t \in Threads, CheckHeartbeat(t)
       PROVE  Owned'
  BY <1>15 DEF CheckHeartbeat
<1>16. ASSUME NEW t \in Threads, EnterSession(t)
       PROVE  Owned'
  BY <1>16 DEF EnterSession
<1>17. ASSUME NEW t \in Threads, NotFound(t)
       PROVE  Owned'
  BY <1>17 DEF NotFound
<1>18. ASSUME NEW t \in Threads, BodyReturns(t)
       PROVE  Owned'
  BY <1>18 DEF BodyReturns
<1>19. ASSUME NEW t \in Threads, LoginCommits(t)
       PROVE  Owned'
  BY <1>19 DEF LoginCommits
<1>20. ASSUME NEW t \in Threads, NestedLogout(t)
       PROVE  Owned'
  BY <1>20 DEF NestedLogout
<1>21. ASSUME NEW t \in Threads, RollbackSession(t)
       PROVE  Owned'
  BY <1>21 DEF RollbackSession
<1>22. ASSUME NEW t \in Threads, CloseEnded(t)
       PROVE  Owned'
  BY <1>22 DEF CloseEnded
<1>23. ASSUME NEW t \in Threads, Busy(t)
       PROVE  Owned'
  BY <1>23 DEF Busy
<1>24. ASSUME NEW t \in Threads, BodyRaises(t)
       PROVE  Owned'
  BY <1>24 DEF BodyRaises
<1>25. ASSUME NEW a \in Local, StaleActive(a)
       PROVE  Owned'
  BY <1>25 DEF StaleActive
<1>26. ASSUME NEW a \in Local, StillActive(a)
       PROVE  Owned'
  BY <1>26 DEF StillActive
<1>27. ASSUME NEW a \in Local, StaleLease(a)
       PROVE  Owned'
  BY <1>27 DEF StaleLease
<1>28. ASSUME NEW a \in Local, Healthy(a)
       PROVE  Owned'
  BY <1>28 DEF Healthy
<1>29. ASSUME NEW a \in Threads \cup Remotes, HasSession(a)
       PROVE  Owned'
  BY <1>29 DEF HasSession
<1>30. ASSUME NEW a \in Threads \cup Remotes, AuditEnd(a)
       PROVE  Owned'
  BY <1>30 DEF AuditEnd
<1>31. ASSUME NEW a \in Threads \cup Remotes, Release(a)
       PROVE  Owned'
  BY <1>31 DEF Release
<1>32. ASSUME NEW a \in Actors, StoreRaises(a)
       PROVE  Owned'
  BY <1>32 DEF StoreRaises
<1>33. ASSUME CleanupTick PROVE Owned'
  BY <1>33 DEF CleanupTick
<1>34. ASSUME Crash PROVE Owned'
  BY <1>34 DEF Crash
<1>35. ASSUME LeaseLapses PROVE Owned'
  BY <1>35 DEF LeaseLapses
<1>36. ASSUME ActiveExpires PROVE Owned'
  BY <1>36 DEF ActiveExpires
<1>37. ASSUME NEW i \in Ids, Age(i)
       PROVE  Owned'
  BY <1>37 DEF Age
<1>38. ASSUME UNCHANGED vars PROVE Owned'
  BY <1>38
<1> QED
  BY <1>1, <1>2, <1>3, <1>4, <1>5, <1>6, <1>7, <1>8, <1>9, <1>10, <1>11,
     <1>12, <1>13, <1>14, <1>15, <1>16, <1>17, <1>18, <1>19, <1>20, <1>21,
     <1>22, <1>23, <1>24, <1>25, <1>26, <1>27, <1>28, <1>29, <1>30, <1>31,
     <1>32, <1>33, <1>34, <1>35, <1>36, <1>37, <1>38
  DEF Next, Client, Failure, Time, ThreadStep, CleanerStep, StartStep,
      UseStep, EndStep, LocalEndStep, CleanupStep

(* A token is sent when the start is done.                                 *)
LEMMA TokensStep ==
    ASSUME TypeOK, Shape, Fresh, Tokens, [Next]_vars
    PROVE  Tokens'
<1> USE ConstantsAssumption DEF TypeOK, Shape, StaleSteps, PreSession, Fresh,
    Tokens
<1>1. ASSUME NEW t \in Threads, NEW i \in Ids, StartBegin(t, i)
       PROVE  Tokens'
  BY <1>1 DEF StartBegin
<1>2. ASSUME NEW t \in Threads, NEW i \in Ids, NEW o \in Ops,
             RequestBegin(t, i, o)
       PROVE  Tokens'
  BY <1>2 DEF RequestBegin
<1>3. ASSUME NEW a \in Threads \cup Remotes, NEW i \in Ids,
             NEW reason \in {"force_ended_by_admin", "expired"},
             EndByAdmin(a, i, reason)
       PROVE  Tokens'
  BY <1>3 DEF EndByAdmin
<1>4. ASSUME NEW t \in Threads, CleanupBeforeStart(t)
       PROVE  Tokens'
  BY <1>4 DEF CleanupBeforeStart
<1>5. ASSUME NEW t \in Threads, TryClaim(t)
       PROVE  Tokens'
  BY <1>5 DEF TryClaim
<1>6. ASSUME NEW t \in Threads, ClaimRefused(t)
       PROVE  Tokens'
  BY <1>6 DEF ClaimRefused
<1>7. ASSUME NEW t \in Threads, AuditReplaced(t)
       PROVE  Tokens'
  BY <1>7 DEF AuditReplaced
<1>8. ASSUME NEW t \in Threads, CloseReplaced(t)
       PROVE  Tokens'
  BY <1>8 DEF CloseReplaced
<1>9. ASSUME NEW t \in Threads, StartSession(t)
       PROVE  Tokens'
  BY <1>9 DEF StartSession
<1>10. ASSUME NEW t \in Threads, StillHeld(t)
       PROVE  Tokens'
  BY <1>10 DEF StillHeld
<1>11. ASSUME NEW t \in Threads, AuditActive(t)
       PROVE  Tokens'
  BY <1>11 DEF AuditActive
<1>12. ASSUME NEW t \in Threads, RefreshHeartbeat(t)
       PROVE  Tokens'
  BY <1>12 DEF RefreshHeartbeat
<1>13. ASSUME NEW t \in Threads, NotOwner(t)
       PROVE  Tokens'
  BY <1>13 DEF NotOwner
<1>14. ASSUME NEW t \in Threads, VerifyOwner(t)
       PROVE  Tokens'
  BY <1>14 DEF VerifyOwner
<1>15. ASSUME NEW t \in Threads, CheckHeartbeat(t)
       PROVE  Tokens'
  BY <1>15 DEF CheckHeartbeat
<1>16. ASSUME NEW t \in Threads, EnterSession(t)
       PROVE  Tokens'
  BY <1>16 DEF EnterSession
<1>17. ASSUME NEW t \in Threads, NotFound(t)
       PROVE  Tokens'
  BY <1>17 DEF NotFound
<1>18. ASSUME NEW t \in Threads, BodyReturns(t)
       PROVE  Tokens'
  BY <1>18 DEF BodyReturns
<1>19. ASSUME NEW t \in Threads, LoginCommits(t)
       PROVE  Tokens'
  BY <1>19 DEF LoginCommits
<1>20. ASSUME NEW t \in Threads, NestedLogout(t)
       PROVE  Tokens'
  BY <1>20 DEF NestedLogout
<1>21. ASSUME NEW t \in Threads, RollbackSession(t)
       PROVE  Tokens'
  BY <1>21 DEF RollbackSession
<1>22. ASSUME NEW t \in Threads, CloseEnded(t)
       PROVE  Tokens'
  BY <1>22 DEF CloseEnded
<1>23. ASSUME NEW t \in Threads, Busy(t)
       PROVE  Tokens'
  BY <1>23 DEF Busy
<1>24. ASSUME NEW t \in Threads, BodyRaises(t)
       PROVE  Tokens'
  BY <1>24 DEF BodyRaises
<1>25. ASSUME NEW a \in Local, StaleActive(a)
       PROVE  Tokens'
  BY <1>25 DEF StaleActive
<1>26. ASSUME NEW a \in Local, StillActive(a)
       PROVE  Tokens'
  BY <1>26 DEF StillActive
<1>27. ASSUME NEW a \in Local, StaleLease(a)
       PROVE  Tokens'
  BY <1>27 DEF StaleLease
<1>28. ASSUME NEW a \in Local, Healthy(a)
       PROVE  Tokens'
  BY <1>28 DEF Healthy
<1>29. ASSUME NEW a \in Threads \cup Remotes, HasSession(a)
       PROVE  Tokens'
  BY <1>29 DEF HasSession
<1>30. ASSUME NEW a \in Threads \cup Remotes, AuditEnd(a)
       PROVE  Tokens'
  BY <1>30 DEF AuditEnd
<1>31. ASSUME NEW a \in Threads \cup Remotes, Release(a)
       PROVE  Tokens'
  BY <1>31 DEF Release
<1>32. ASSUME NEW a \in Actors, StoreRaises(a)
       PROVE  Tokens'
  BY <1>32 DEF StoreRaises
<1>33. ASSUME CleanupTick PROVE Tokens'
  BY <1>33 DEF CleanupTick
<1>34. ASSUME Crash PROVE Tokens'
  BY <1>34 DEF Crash
<1>35. ASSUME LeaseLapses PROVE Tokens'
  BY <1>35 DEF LeaseLapses
<1>36. ASSUME ActiveExpires PROVE Tokens'
  BY <1>36 DEF ActiveExpires
<1>37. ASSUME NEW i \in Ids, Age(i)
       PROVE  Tokens'
  BY <1>37 DEF Age
<1>38. ASSUME UNCHANGED vars PROVE Tokens'
  BY <1>38
<1> QED
  BY <1>1, <1>2, <1>3, <1>4, <1>5, <1>6, <1>7, <1>8, <1>9, <1>10, <1>11,
     <1>12, <1>13, <1>14, <1>15, <1>16, <1>17, <1>18, <1>19, <1>20, <1>21,
     <1>22, <1>23, <1>24, <1>25, <1>26, <1>27, <1>28, <1>29, <1>30, <1>31,
     <1>32, <1>33, <1>34, <1>35, <1>36, <1>37, <1>38
  DEF Next, Client, Failure, Time, ThreadStep, CleanerStep, StartStep,
      UseStep, EndStep, LocalEndStep, CleanupStep

(* No start opens the Session of an impersonation that has a token.        *)
LEMMA ClosedStep ==
    ASSUME TypeOK, Shape, Fresh, Tokens, Closed, [Next]_vars
    PROVE  Closed'
<1> USE ConstantsAssumption DEF TypeOK, Shape, StaleSteps, PreSession, Fresh,
    Tokens, Closed
<1>1. ASSUME NEW t \in Threads, NEW i \in Ids, StartBegin(t, i)
       PROVE  Closed'
  BY <1>1 DEF StartBegin
<1>2. ASSUME NEW t \in Threads, NEW i \in Ids, NEW o \in Ops,
             RequestBegin(t, i, o)
       PROVE  Closed'
  BY <1>2 DEF RequestBegin
<1>3. ASSUME NEW a \in Threads \cup Remotes, NEW i \in Ids,
             NEW reason \in {"force_ended_by_admin", "expired"},
             EndByAdmin(a, i, reason)
       PROVE  Closed'
  BY <1>3 DEF EndByAdmin
<1>4. ASSUME NEW t \in Threads, CleanupBeforeStart(t)
       PROVE  Closed'
  BY <1>4 DEF CleanupBeforeStart
<1>5. ASSUME NEW t \in Threads, TryClaim(t)
       PROVE  Closed'
  BY <1>5 DEF TryClaim
<1>6. ASSUME NEW t \in Threads, ClaimRefused(t)
       PROVE  Closed'
  BY <1>6 DEF ClaimRefused
<1>7. ASSUME NEW t \in Threads, AuditReplaced(t)
       PROVE  Closed'
  BY <1>7 DEF AuditReplaced
<1>8. ASSUME NEW t \in Threads, CloseReplaced(t)
       PROVE  Closed'
  BY <1>8 DEF CloseReplaced
<1>9. ASSUME NEW t \in Threads, StartSession(t)
       PROVE  Closed'
  BY <1>9 DEF StartSession
<1>10. ASSUME NEW t \in Threads, StillHeld(t)
       PROVE  Closed'
  BY <1>10 DEF StillHeld
<1>11. ASSUME NEW t \in Threads, AuditActive(t)
       PROVE  Closed'
  BY <1>11 DEF AuditActive
<1>12. ASSUME NEW t \in Threads, RefreshHeartbeat(t)
       PROVE  Closed'
  BY <1>12 DEF RefreshHeartbeat
<1>13. ASSUME NEW t \in Threads, NotOwner(t)
       PROVE  Closed'
  BY <1>13 DEF NotOwner
<1>14. ASSUME NEW t \in Threads, VerifyOwner(t)
       PROVE  Closed'
  BY <1>14 DEF VerifyOwner
<1>15. ASSUME NEW t \in Threads, CheckHeartbeat(t)
       PROVE  Closed'
  BY <1>15 DEF CheckHeartbeat
<1>16. ASSUME NEW t \in Threads, EnterSession(t)
       PROVE  Closed'
  BY <1>16 DEF EnterSession
<1>17. ASSUME NEW t \in Threads, NotFound(t)
       PROVE  Closed'
  BY <1>17 DEF NotFound
<1>18. ASSUME NEW t \in Threads, BodyReturns(t)
       PROVE  Closed'
  BY <1>18 DEF BodyReturns
<1>19. ASSUME NEW t \in Threads, LoginCommits(t)
       PROVE  Closed'
  BY <1>19 DEF LoginCommits
<1>20. ASSUME NEW t \in Threads, NestedLogout(t)
       PROVE  Closed'
  BY <1>20 DEF NestedLogout
<1>21. ASSUME NEW t \in Threads, RollbackSession(t)
       PROVE  Closed'
  BY <1>21 DEF RollbackSession
<1>22. ASSUME NEW t \in Threads, CloseEnded(t)
       PROVE  Closed'
  BY <1>22 DEF CloseEnded
<1>23. ASSUME NEW t \in Threads, Busy(t)
       PROVE  Closed'
  BY <1>23 DEF Busy
<1>24. ASSUME NEW t \in Threads, BodyRaises(t)
       PROVE  Closed'
  BY <1>24 DEF BodyRaises
<1>25. ASSUME NEW a \in Local, StaleActive(a)
       PROVE  Closed'
  BY <1>25 DEF StaleActive
<1>26. ASSUME NEW a \in Local, StillActive(a)
       PROVE  Closed'
  BY <1>26 DEF StillActive
<1>27. ASSUME NEW a \in Local, StaleLease(a)
       PROVE  Closed'
  BY <1>27 DEF StaleLease
<1>28. ASSUME NEW a \in Local, Healthy(a)
       PROVE  Closed'
  BY <1>28 DEF Healthy
<1>29. ASSUME NEW a \in Threads \cup Remotes, HasSession(a)
       PROVE  Closed'
  BY <1>29 DEF HasSession
<1>30. ASSUME NEW a \in Threads \cup Remotes, AuditEnd(a)
       PROVE  Closed'
  BY <1>30 DEF AuditEnd
<1>31. ASSUME NEW a \in Threads \cup Remotes, Release(a)
       PROVE  Closed'
  BY <1>31 DEF Release
<1>32. ASSUME NEW a \in Actors, StoreRaises(a)
       PROVE  Closed'
  BY <1>32 DEF StoreRaises
<1>33. ASSUME CleanupTick PROVE Closed'
  BY <1>33 DEF CleanupTick
<1>34. ASSUME Crash PROVE Closed'
  BY <1>34 DEF Crash
<1>35. ASSUME LeaseLapses PROVE Closed'
  BY <1>35 DEF LeaseLapses
<1>36. ASSUME ActiveExpires PROVE Closed'
  BY <1>36 DEF ActiveExpires
<1>37. ASSUME NEW i \in Ids, Age(i)
       PROVE  Closed'
  BY <1>37 DEF Age
<1>38. ASSUME UNCHANGED vars PROVE Closed'
  BY <1>38
<1> QED
  BY <1>1, <1>2, <1>3, <1>4, <1>5, <1>6, <1>7, <1>8, <1>9, <1>10, <1>11,
     <1>12, <1>13, <1>14, <1>15, <1>16, <1>17, <1>18, <1>19, <1>20, <1>21,
     <1>22, <1>23, <1>24, <1>25, <1>26, <1>27, <1>28, <1>29, <1>30, <1>31,
     <1>32, <1>33, <1>34, <1>35, <1>36, <1>37, <1>38
  DEF Next, Client, Failure, Time, ThreadStep, CleanerStep, StartStep,
      UseStep, EndStep, LocalEndStep, CleanupStep

-----------------------------------------------------------------------------
(* The inductive invariant holds in every reachable state.                 *)
THEOREM Inductive == Spec => []IInv
<1>1. IInv /\ [Next]_vars => IInv'
  BY TypeStep, ShapeStep, ExcludedStep, FreshStep, OwnedStep, TokensStep,
     ClosedStep DEF IInv
<1> QED
  BY InitIInv, <1>1, PTL DEF Spec

(* Every variable keeps its type.                                          *)
THEOREM TypeCorrect == Spec => []TypeOK
<1>1. IInv => TypeOK
  BY DEF IInv
<1> QED
  BY Inductive, <1>1, PTL

(* No end, cleanup or start touches the Session that a body uses.          *)
THEOREM SessionKept == Spec => []BodyKeepsSession
<1>1. IInv => BodyKeepsSession
  BY DEF IInv, Excluded
<1> QED
  BY Inductive, <1>1, PTL

(* An own end that reaches the release has closed its Session.             *)
THEOREM OwnEndsClose == Spec => []EndClosesSession
<1>1. IInv => EndClosesSession
  BY SMTT(60) DEF IInv, Closed, EndClosesSession
<1> QED
  BY Inductive, <1>1, PTL

-----------------------------------------------------------------------------
(* A claim with a heartbeat is given up by its own end or its lifetime.    *)
THEOREM ClaimsAreKept == Spec => ClaimLostToOwnEnd
<1> DEFINE Kept ==
       \A i \in Ids :
          active = i /\ lease /\ active' # i =>
             i \in aged \/ \E a \in Actors : pc[a] = "release" /\ rid[a] = i
<1>1. ASSUME IInv, [Next]_vars PROVE Kept
  <2> USE ConstantsAssumption, <1>1 DEF IInv, TypeOK
  <2>1. ASSUME NEW t \in Threads, TryClaim(t) PROVE Kept
    BY <2>1 DEF TryClaim
  <2>2. ASSUME NEW a \in Threads \cup Remotes, Release(a) PROVE Kept
    BY <2>2 DEF Release
  <2>3. ASSUME ActiveExpires PROVE Kept
    BY <2>3 DEF ActiveExpires
  <2>4. ASSUME UNCHANGED active PROVE Kept
    BY <2>4
  <2> HIDE DEF IInv, TypeOK, Kept
  <2> QED
    BY <2>1, <2>2, <2>3, <2>4 DEF StartBegin, RequestBegin, EndByAdmin,
       CleanupBeforeStart, ClaimRefused, AuditReplaced, CloseReplaced,
       StartSession, StillHeld, AuditActive, RefreshHeartbeat, NotOwner,
       VerifyOwner, CheckHeartbeat, EnterSession, NotFound, BodyReturns,
       LoginCommits, NestedLogout, RollbackSession, CloseEnded, Busy,
       BodyRaises, StaleActive, StillActive, StaleLease, Healthy,
       HasSession, AuditEnd, StoreRaises, CleanupTick, Crash, LeaseLapses,
       Age, Next, Client, Failure, Time, ThreadStep, CleanerStep, StartStep,
       UseStep, EndStep, LocalEndStep, CleanupStep
<1>2. IInv /\ [Next]_vars => [Kept]_vars
  BY <1>1
<1> QED
  BY Inductive, <1>2, PTL DEF Spec, ClaimLostToOwnEnd

(* Only the start of a fresh impersonation writes "active".                *)
THEOREM EndsAreFinal == Spec => EndIsFinal
<1> DEFINE Final ==
       \A i \in Ids : audit[i] \in Reasons => audit'[i] \in Reasons
<1>1. ASSUME IInv, [Next]_vars PROVE Final
  <2> USE ConstantsAssumption, <1>1 DEF IInv, TypeOK, Shape, Fresh
  <2>1. ASSUME NEW t \in Threads, AuditReplaced(t) PROVE Final
    BY <2>1 DEF AuditReplaced
  <2>2. ASSUME NEW t \in Threads, AuditActive(t) PROVE Final
    BY <2>2 DEF AuditActive
  <2>3. ASSUME NEW a \in Threads \cup Remotes, AuditEnd(a) PROVE Final
    BY <2>3 DEF AuditEnd
  <2>4. ASSUME UNCHANGED audit PROVE Final
    BY <2>4
  <2> HIDE DEF IInv, TypeOK, Shape, Fresh, Final
  <2> QED
    BY <2>1, <2>2, <2>3, <2>4 DEF StartBegin, RequestBegin, EndByAdmin,
       CleanupBeforeStart, TryClaim, ClaimRefused, CloseReplaced,
       StartSession, StillHeld, RefreshHeartbeat, NotOwner, VerifyOwner,
       CheckHeartbeat, EnterSession, NotFound, BodyReturns, LoginCommits,
       NestedLogout, RollbackSession, CloseEnded, Busy, BodyRaises,
       StaleActive, StillActive, StaleLease, Healthy, HasSession, Release,
       StoreRaises, CleanupTick, Crash, LeaseLapses, ActiveExpires, Age,
       Next, Client, Failure, Time, ThreadStep, CleanerStep, StartStep,
       UseStep, EndStep, LocalEndStep, CleanupStep
<1>2. IInv /\ [Next]_vars => [Final]_vars
  BY <1>1
<1> QED
  BY Inductive, <1>2, PTL DEF Spec, EndIsFinal

-----------------------------------------------------------------------------
(* Every step of the worker is a step of SandboxSession, or leaves the     *)
(* transaction alone; without the assumption a login commits it.           *)
THEOREM RefinesSandbox ==
    ASSUME "login" \notin Ops
    PROVE  Spec => ImplementsSandbox
<1>1. Init => Sandbox!Init
  BY DEF Init, Sandbox!Init
<1>2. ASSUME IInv, [Next]_vars
      PROVE  [Sandbox!Next]_(Sandbox!vars)
  <2> USE ConstantsAssumption, <1>2 DEF IInv, Shape, Excluded,
      BodyKeepsSession, Sandbox!Next, Sandbox!vars
  <2>0. ASSUME held' \in {held, None}, writes' = {},
               UNCHANGED <<durable, opened>>
        PROVE  [Sandbox!Next]_(Sandbox!vars)
    <3>1. CASE held = None
      BY <2>0, <3>1 DEF TypeOK, Owned
    <3>2. CASE held # None
      BY <2>0, <3>2 DEF Sandbox!Rollback, Sandbox!Close
    <3> QED
      BY <3>1, <3>2
  <2>1. ASSUME NEW t \in Threads, CloseReplaced(t)
           PROVE [Sandbox!Next]_(Sandbox!vars)
    BY <2>1, <2>0 DEF CloseReplaced
  <2>2. ASSUME NEW t \in Threads, StartSession(t)
           PROVE [Sandbox!Next]_(Sandbox!vars)
    BY <2>2 DEF StartSession, TypeOK, StaleSteps,
       Fresh, PreSession, Owned, Sandbox!Open
  <2>3. ASSUME NEW t \in Threads, BodyReturns(t)
           PROVE [Sandbox!Next]_(Sandbox!vars)
    BY <2>3 DEF BodyReturns, Sandbox!Write
  <2>4. ASSUME NEW t \in Threads, LoginCommits(t)
           PROVE [Sandbox!Next]_(Sandbox!vars)
    BY <2>4 DEF LoginCommits
  <2>5. ASSUME NEW t \in Threads, RollbackSession(t)
           PROVE [Sandbox!Next]_(Sandbox!vars)
    BY <2>5 DEF RollbackSession, Sandbox!Rollback
  <2>6. ASSUME NEW t \in Threads, CloseEnded(t)
           PROVE [Sandbox!Next]_(Sandbox!vars)
    BY <2>6, <2>0 DEF CloseEnded
  <2>7. ASSUME NEW a \in Local, StaleActive(a)
           PROVE [Sandbox!Next]_(Sandbox!vars)
    BY <2>7, <2>0 DEF StaleActive
  <2>8. ASSUME NEW a \in Local, StaleLease(a)
           PROVE [Sandbox!Next]_(Sandbox!vars)
    BY <2>8, <2>0 DEF StaleLease
  <2>9. ASSUME Crash PROVE [Sandbox!Next]_(Sandbox!vars)
    BY <2>9, <2>0 DEF Crash
  <2>10. ASSUME UNCHANGED sessionVars PROVE [Sandbox!Next]_(Sandbox!vars)
    BY <2>10
  <2> HIDE DEF IInv, Shape, Excluded, BodyKeepsSession, Sandbox!Next
  <2> QED
    BY <2>1, <2>2, <2>3, <2>4, <2>5, <2>6, <2>7, <2>8, <2>9, <2>10
    DEF StartBegin, RequestBegin, EndByAdmin, CleanupBeforeStart, TryClaim,
       ClaimRefused, AuditReplaced, StillHeld, AuditActive,
       RefreshHeartbeat, NotOwner, VerifyOwner, CheckHeartbeat,
       EnterSession, NotFound, NestedLogout, Busy, BodyRaises, StillActive,
       Healthy, HasSession, AuditEnd, Release, StoreRaises, CleanupTick,
       LeaseLapses, ActiveExpires, Age, Next, Client, Failure, Time,
       ThreadStep, CleanerStep, StartStep, UseStep, EndStep, LocalEndStep,
       CleanupStep
<1>3. IInv /\ [Next]_vars => [Sandbox!Next]_(Sandbox!vars)
  BY <1>2
<1> QED
  BY Inductive, <1>1, <1>3, PTL DEF Spec, ImplementsSandbox, Sandbox!Spec
=============================================================================
