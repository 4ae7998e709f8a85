------------------------- MODULE TaskDispatchProofs -------------------------
(***************************************************************************)
(* TLAPS proofs about TaskDispatch, for any sets of jobs, ids, API         *)
(* processes and workers, any pool size and any number of failures.        *)
(***************************************************************************)
EXTENDS TaskDispatch, FiniteSetTheorems, TLAPS

-----------------------------------------------------------------------------
(* The inductive invariant.                                                *)

(* The steps at which an API process holds an attempt, and those that come *)
(* before its message exists.                                              *)
Holding == SchedSteps \ {"idle", "lock"}
Early == {"slot", "unlock", "bind_slot", "bind_lock", "publish"}
Undoing == {"undo_slot", "undo_lock", "undo_claim"}

SchedShape ==
    \A s \in Schedulers :
        /\ spc[s] # "idle" => sjob[s] \in Jobs
        /\ IF spc[s] \in Holding
           THEN sid[s] \in Ids /\ job[sid[s]] = sjob[s]
           ELSE sid[s] = None

WorkerShape ==
    \A w \in Workers :
        /\ IF wpc[w] \in {"down", "idle"} THEN exec[w] = None
                                          ELSE exec[w] \in Ids
        /\ IF wpc[w] \in {"dog_slot", "dog_lock"} THEN target[w] \in Ids
                                                  ELSE target[w] = None

(* No two API processes hold the same attempt.                             *)
OneHolder ==
    \A s, t \in Schedulers : s # t /\ sid[s] = sid[t] => sid[s] = None

(* A message of attempt i exists, waiting, delivered or being run.         *)
Message(i) ==
    \/ i \in queue \cup unacked
    \/ \E w \in Workers : i = reserved[w] \/ i = exec[w]

(* Nothing has happened on behalf of attempt i beyond its claim.           *)
Blank(i) ==
    ~Message(i) /\ row[i] = "none" /\ bodies[i] = 0 /\ i \notin forfeited

BlankUntilPublished ==
    /\ \A i \in Ids : job[i] = None => Blank(i)
    /\ \A s \in Schedulers : spc[s] \in Early => Blank(sid[s])

(* A lock or slot carries the token of an attempt that claimed it.         *)
Provenance ==
    /\ \A j \in Jobs : lock[j] # None => job[lock[j]] = j
    /\ \A k \in Slots : slot[k] # None => job[slot[k]] # None
    /\ \A k, m \in Slots : slot[k] = slot[m] /\ slot[k] # None => k = m
    /\ \A s \in Schedulers :
          spc[s] \in {"slot", "unlock"} => \A k \in Slots : slot[k] # sid[s]

(* The lock of attempt i's job and one slot are its own, and its maps      *)
(* point at them.                                                          *)
HoldsSlot(i) == \E k \in Slots : slot[k] = i /\ slotMap[i] = k
HoldsLock(i) == lock[job[i]] = i /\ lockMap[i] = job[i]

(* What an API process has claimed and bound so far is still there.        *)
ClaimGrows ==
    \A s \in Schedulers :
        /\ spc[s] \in Early => lock[sjob[s]] = sid[s]
        /\ spc[s] = "bind_slot" => \E k \in Slots : slot[k] = sid[s]
        /\ spc[s] \in {"bind_lock", "publish"} => HoldsSlot(sid[s])
        /\ spc[s] = "publish" => HoldsLock(sid[s])

(* Only a forfeited attempt is undone or is a watchdog's target, and the   *)
(* watchdog's candidates have a row.                                       *)
Forfeits ==
    /\ \A s \in Schedulers : spc[s] \in Undoing => sid[s] \in forfeited
    /\ \A w \in Workers :
          /\ target[w] # None => target[w] \in forfeited
          /\ \A i \in todo[w] : row[i] # "none"

(* Past the fence: the body, or the release that follows it.               *)
Admitted(w) == wpc[w] \in BodySteps \cup {"free_slot", "free_lock"}

(* The fence: one admission for each attempt, and none before its row has  *)
(* left "queued".                                                          *)
FenceHolds ==
    /\ \A i \in Ids : Fenced(i) /\ row[i] \in Unstarted => bodies[i] = 0
    /\ \A i \in Ids : Fenced(i) => bodies[i] <= 1
    /\ \A w \in Workers :
          Admitted(w) /\ Fenced(exec[w]) => row[exec[w]] \notin Unstarted
    /\ \A v, w \in Workers :
          Admitted(v) /\ Admitted(w) /\ exec[v] = exec[w] /\ Fenced(exec[w])
              => v = w

(* A message that has not been admitted, and a body that has, own the      *)
(* whole claim.                                                            *)
ClaimKept ==
    /\ \A i \in Ids :
          Message(i) /\ Fenced(i) /\ i \notin forfeited /\ row[i] \in Unstarted
              => HoldsSlot(i) /\ HoldsLock(i)
    /\ \A w \in Workers :
          Owned(w) => HoldsSlot(exec[w]) /\ HoldsLock(exec[w])

(* Until a process dies, what still holds a lock or slot is at a step that *)
(* leads to its release, and the maps let that release find it.            *)
Published(i) == Message(i) \/ \E w \in Workers : i = target[w]

Binding(i) ==
    \E s \in Schedulers : sid[s] = i /\ spc[s] \in Early \ {"publish"}

MapsFind(i) ==
    /\ \A j \in Jobs : lock[j] = i => lockMap[i] = j
    /\ \A k \in Slots : slot[k] = i => slotMap[i] = k

Releases(i) ==
    \E w \in Workers : (Admitted(w) /\ i = exec[w]) \/ i = target[w]

Dispatching(i) ==
    \E s \in Schedulers : sid[s] = i /\ spc[s] \in Early \cup Undoing

MapsLead == died \/ \A i \in Ids : Binding(i) \/ MapsFind(i)

SlotFirst ==
    died \/ \A w \in Workers :
        /\ wpc[w] = "free_lock" => \A k \in Slots : slot[k] # exec[w]
        /\ wpc[w] = "dog_lock" => \A k \in Slots : slot[k] # target[w]

NotOrphaned ==
    died \/ \A i \in Ids : Claiming(i) => Dispatching(i) \/ Published(i)

StartedReleases ==
    died \/ \A i \in Ids :
        Claiming(i) /\ ~LateAck(i) /\ row[i] \notin Unstarted => Releases(i)

Shape == TypeOK /\ SchedShape /\ WorkerShape /\ OneHolder

IInv ==
    /\ Shape /\ BlankUntilPublished /\ Provenance /\ ClaimGrows
    /\ Forfeits /\ FenceHolds /\ ClaimKept
    /\ MapsLead /\ SlotFirst /\ NotOrphaned /\ StartedReleases

-----------------------------------------------------------------------------
(* Each conjunct of IInv is preserved: one step for each action that can   *)
(* disturb it, after the case of those that leave its variables alone.     *)

USE ConstantsAssumption
USE DEF envVars, redisVars, brokerVars, rowVars, schedVars, workerVars,
        dogVars, historyVars, vars, Fault, NoFault, Goto, Enter, BeginBody,
        ForgetWatch, ReleaseSlot, ReleaseLock, MarkRow, CreateTaskRun

(* Types, program counters and the attempts they hold.                     *)
LEMMA ShapeStep == ASSUME IInv, [Next]_vars PROVE Shape'
  <1> USE DEF IInv, Shape, TypeOK, SchedShape, WorkerShape, OneHolder,
              SchedSteps, WorkerSteps, BodySteps, RowStates, Holding
  <1>1. CASE UNCHANGED <<now, last, faults, lock, slot, slotMap, lockMap,
                queue, unacked, row, aged, spc, sjob, sid, wpc, reserved,
                exec, live, todo, target, job, forfeited, blind, bodies,
                died>>
    BY <1>1
  <1>2. CASE Tick
    BY <1>2 DEF Tick
  <1>3. ASSUME NEW s \in Schedulers, NEW j \in Jobs, CheckDue(s, j)
       PROVE  Shape'
    BY <1>3 DEF CheckDue
  <1>4. ASSUME NEW s \in Schedulers, TryLockTask(s)
       PROVE  Shape'
    BY <1>4 DEF TryLockTask
  <1>5. ASSUME NEW s \in Schedulers, SkipLocked(s)
       PROVE  Shape'
    BY <1>5 DEF SkipLocked
  <1>6. ASSUME NEW s \in Schedulers, ReserveTaskSlot(s)
       PROVE  Shape'
    BY <1>6 DEF ReserveTaskSlot
  <1>7. ASSUME NEW s \in Schedulers, NoSlotLeft(s)
       PROVE  Shape'
    BY <1>7 DEF NoSlotLeft
  <1>8. ASSUME NEW s \in Schedulers, UnlockSkipped(s)
       PROVE  Shape'
    BY <1>8 DEF UnlockSkipped
  <1>9. ASSUME NEW s \in Schedulers, BindTaskIdToSlot(s)
       PROVE  Shape'
    BY <1>9 DEF BindTaskIdToSlot
  <1>10. ASSUME NEW s \in Schedulers, MapTaskToLock(s)
       PROVE  Shape'
    BY <1>10 DEF MapTaskToLock
  <1>11. ASSUME NEW s \in Schedulers, Publish(s)
       PROVE  Shape'
    BY <1>11 DEF Publish
  <1>12. ASSUME NEW s \in Schedulers, PublishRaises(s)
       PROVE  Shape'
    BY <1>12 DEF PublishRaises
  <1>13. ASSUME NEW s \in Schedulers, InsertRow(s)
       PROVE  Shape'
    BY <1>13 DEF InsertRow
  <1>14. ASSUME NEW s \in Schedulers, Stamp(s)
       PROVE  Shape'
    BY <1>14 DEF Stamp
  <1>15. ASSUME NEW s \in Schedulers, StampRaises(s)
       PROVE  Shape'
    BY <1>15 DEF StampRaises
  <1>16. ASSUME NEW s \in Schedulers, Restamp(s)
       PROVE  Shape'
    BY <1>16 DEF Restamp
  <1>17. ASSUME NEW s \in Schedulers, UndoSlot(s)
       PROVE  Shape'
    BY <1>17 DEF UndoSlot
  <1>18. ASSUME NEW s \in Schedulers, UndoLock(s)
       PROVE  Shape'
    BY <1>18 DEF UndoLock
  <1>19. ASSUME NEW s \in Schedulers, UndoClaim(s)
       PROVE  Shape'
    BY <1>19 DEF UndoClaim
  <1>20. ASSUME NEW s \in Schedulers, SchedulerDies(s)
       PROVE  Shape'
    BY <1>20 DEF SchedulerDies
  <1>21. ASSUME NEW w \in Workers, NEW i \in Ids, Prefetch(w, i)
       PROVE  Shape'
    BY <1>21 DEF Prefetch
  <1>22. ASSUME NEW w \in Workers, Accept(w)
       PROVE  Shape'
    BY <1>22 DEF Accept
  <1>23. ASSUME NEW w \in Workers, ClaimRow(w)
       PROVE  Shape'
    BY <1>23 DEF ClaimRow
  <1>24. ASSUME NEW w \in Workers, IgnoreDuplicate(w)
       PROVE  Shape'
    BY <1>24 DEF IgnoreDuplicate
  <1>25. ASSUME NEW w \in Workers, StartBlind(w)
       PROVE  Shape'
    BY <1>25 DEF StartBlind
  <1>26. ASSUME NEW w \in Workers, StartRedelivered(w)
       PROVE  Shape'
    BY <1>26 DEF StartRedelivered
  <1>27. ASSUME NEW w \in Workers, Finish(w)
       PROVE  Shape'
    BY <1>27 DEF Finish
  <1>28. ASSUME NEW w \in Workers, FreeSlot(w)
       PROVE  Shape'
    BY <1>28 DEF FreeSlot
  <1>29. ASSUME NEW w \in Workers, FreeLock(w)
       PROVE  Shape'
    BY <1>29 DEF FreeLock
  <1>30. ASSUME NEW w \in Workers, WorkerDies(w)
       PROVE  Shape'
    BY <1>30 DEF WorkerDies
  <1>31. ASSUME NEW w \in Workers, ChildDies(w)
       PROVE  Shape'
    BY <1>31 DEF ChildDies
  <1>32. ASSUME NEW w \in Workers, Restart(w)
       PROVE  Shape'
    BY <1>32 DEF Restart
  <1>33. ASSUME NEW i \in Ids, Restore(i)
       PROVE  Shape'
    BY <1>33 DEF Restore
  <1>34. ASSUME NEW i \in Ids, Expire(i)
       PROVE  Shape'
    BY <1>34 DEF Expire
  <1>35. ASSUME NEW i \in Ids, Age(i)
       PROVE  Shape'
    BY <1>35 DEF Age
  <1>36. ASSUME NEW w \in Workers, InspectActive(w)
       PROVE  Shape'
    <2>1. \A a \in SUBSET Up : {exec[v] : v \in a} \ {None} \subseteq Ids
      BY DEF Up
    <2> QED BY <1>36, <2>1 DEF InspectActive, Answer
  <1>37. ASSUME NEW w \in Workers, InspectReserved(w)
       PROVE  Shape'
    <2>1. \A a \in SUBSET Up :
             live[w] \cup ({reserved[v] : v \in a} \ {None}) \subseteq Ids
      BY DEF Up
    <2> QED BY <1>37, <2>1 DEF InspectReserved, Answer
  <1>38. ASSUME NEW w \in Workers, Query(w)
       PROVE  Shape'
    <2>1. Abandoned(w) \in SUBSET Ids
      BY DEF Abandoned
    <2> QED BY <1>38, <2>1 DEF Query
  <1>39. ASSUME NEW w \in Workers, NEW i \in Ids, MarkInterrupted(w, i)
       PROVE  Shape'
    BY <1>39 DEF MarkInterrupted
  <1>40. ASSUME NEW w \in Workers, DogFreesSlot(w)
       PROVE  Shape'
    BY <1>40 DEF DogFreesSlot
  <1>41. ASSUME NEW w \in Workers, DogFreesLock(w)
       PROVE  Shape'
    BY <1>41 DEF DogFreesLock
  <1>42. ASSUME NEW w \in Workers, WatchdogRaises(w)
       PROVE  Shape'
    BY <1>42 DEF WatchdogRaises
  <1> HIDE DEF IInv, Shape, TypeOK, SchedShape, WorkerShape, OneHolder,
               SchedSteps, WorkerSteps, BodySteps, RowStates, Holding
  <1> QED
    BY <1>1, <1>2, <1>3, <1>4, <1>5, <1>6, <1>7, <1>8, <1>9, <1>10, <1>11,
       <1>12, <1>13, <1>14, <1>15, <1>16, <1>17, <1>18, <1>19, <1>20, <1>21,
       <1>22, <1>23, <1>24, <1>25, <1>26, <1>27, <1>28, <1>29, <1>30, <1>31,
       <1>32, <1>33, <1>34, <1>35, <1>36, <1>37, <1>38, <1>39, <1>40, <1>41,
       <1>42
    DEF Next, SchedulerStep, WorkerStep, WatchdogStep

(* An attempt is blank until its message is published.                     *)
LEMMA BlankStep == ASSUME IInv, [Next]_vars PROVE BlankUntilPublished'
  <1> USE DEF IInv, Shape, TypeOK, SchedShape, WorkerShape, OneHolder,
              SchedSteps, WorkerSteps, BodySteps, RowStates, Holding,
              BlankUntilPublished, Blank, Message, Early, Provenance,
              Forfeits, Abandoned, Claiming, Held
  <1>1. CASE UNCHANGED <<queue, unacked, row, spc, sid, reserved, exec, job,
                forfeited, bodies>>
    BY <1>1
  <1>2. ASSUME NEW s \in Schedulers, NEW j \in Jobs, CheckDue(s, j)
       PROVE  BlankUntilPublished'
    BY <1>2 DEF CheckDue
  <1>3. ASSUME NEW s \in Schedulers, TryLockTask(s)
       PROVE  BlankUntilPublished'
    BY <1>3 DEF TryLockTask
  <1>4. ASSUME NEW s \in Schedulers, SkipLocked(s)
       PROVE  BlankUntilPublished'
    BY <1>4 DEF SkipLocked
  <1>5. ASSUME NEW s \in Schedulers, ReserveTaskSlot(s)
       PROVE  BlankUntilPublished'
    BY <1>5 DEF ReserveTaskSlot
  <1>6. ASSUME NEW s \in Schedulers, NoSlotLeft(s)
       PROVE  BlankUntilPublished'
    BY <1>6 DEF NoSlotLeft
  <1>7. ASSUME NEW s \in Schedulers, UnlockSkipped(s)
       PROVE  BlankUntilPublished'
    BY <1>7 DEF UnlockSkipped
  <1>8. ASSUME NEW s \in Schedulers, BindTaskIdToSlot(s)
       PROVE  BlankUntilPublished'
    BY <1>8 DEF BindTaskIdToSlot
  <1>9. ASSUME NEW s \in Schedulers, MapTaskToLock(s)
       PROVE  BlankUntilPublished'
    BY <1>9 DEF MapTaskToLock
  <1>10. ASSUME NEW s \in Schedulers, Publish(s)
       PROVE  BlankUntilPublished'
    BY <1>10 DEF Publish
  <1>11. ASSUME NEW s \in Schedulers, PublishRaises(s)
       PROVE  BlankUntilPublished'
    BY <1>11 DEF PublishRaises
  <1>12. ASSUME NEW s \in Schedulers, InsertRow(s)
       PROVE  BlankUntilPublished'
    BY <1>12, SMTT(60) DEF InsertRow
  <1>13. ASSUME NEW s \in Schedulers, Stamp(s)
       PROVE  BlankUntilPublished'
    BY <1>13 DEF Stamp
  <1>14. ASSUME NEW s \in Schedulers, StampRaises(s)
       PROVE  BlankUntilPublished'
    BY <1>14 DEF StampRaises
  <1>15. ASSUME NEW s \in Schedulers, Restamp(s)
       PROVE  BlankUntilPublished'
    BY <1>15 DEF Restamp
  <1>16. ASSUME NEW s \in Schedulers, UndoSlot(s)
       PROVE  BlankUntilPublished'
    BY <1>16 DEF UndoSlot
  <1>17. ASSUME NEW s \in Schedulers, UndoLock(s)
       PROVE  BlankUntilPublished'
    BY <1>17 DEF UndoLock
  <1>18. ASSUME NEW s \in Schedulers, UndoClaim(s)
       PROVE  BlankUntilPublished'
    BY <1>18 DEF UndoClaim
  <1>19. ASSUME NEW s \in Schedulers, SchedulerDies(s)
       PROVE  BlankUntilPublished'
    BY <1>19 DEF SchedulerDies
  <1>20. ASSUME NEW w \in Workers, NEW i \in Ids, Prefetch(w, i)
       PROVE  BlankUntilPublished'
    BY <1>20 DEF Prefetch
  <1>21. ASSUME NEW w \in Workers, Accept(w)
       PROVE  BlankUntilPublished'
    BY <1>21 DEF Accept
  <1>22. ASSUME NEW w \in Workers, ClaimRow(w)
       PROVE  BlankUntilPublished'
    BY <1>22 DEF ClaimRow
  <1>23. ASSUME NEW w \in Workers, IgnoreDuplicate(w)
       PROVE  BlankUntilPublished'
    BY <1>23, SMTT(60) DEF IgnoreDuplicate
  <1>24. ASSUME NEW w \in Workers, StartBlind(w)
       PROVE  BlankUntilPublished'
    BY <1>24 DEF StartBlind
  <1>25. ASSUME NEW w \in Workers, StartRedelivered(w)
       PROVE  BlankUntilPublished'
    BY <1>25, SMTT(60) DEF StartRedelivered
  <1>26. ASSUME NEW w \in Workers, Finish(w)
       PROVE  BlankUntilPublished'
    BY <1>26, SMTT(60) DEF Finish
  <1>27. ASSUME NEW w \in Workers, FreeLock(w)
       PROVE  BlankUntilPublished'
    BY <1>27 DEF FreeLock
  <1>28. ASSUME NEW w \in Workers, WorkerDies(w)
       PROVE  BlankUntilPublished'
    BY <1>28, SMTT(60) DEF WorkerDies
  <1>29. ASSUME NEW w \in Workers, ChildDies(w)
       PROVE  BlankUntilPublished'
    BY <1>29, SMTT(60) DEF ChildDies
  <1>30. ASSUME NEW i \in Ids, Restore(i)
       PROVE  BlankUntilPublished'
    BY <1>30 DEF Restore
  <1>31. ASSUME NEW i \in Ids, Expire(i)
       PROVE  BlankUntilPublished'
    BY <1>31 DEF Expire
  <1>32. ASSUME NEW w \in Workers, NEW i \in Ids, MarkInterrupted(w, i)
       PROVE  BlankUntilPublished'
    BY <1>32 DEF MarkInterrupted
  <1>33. ASSUME NEW w \in Workers, WatchdogRaises(w)
       PROVE  BlankUntilPublished'
    BY <1>33, SMTT(60) DEF WatchdogRaises
  <1> HIDE DEF IInv, Shape, TypeOK, SchedShape, WorkerShape, OneHolder,
               SchedSteps, WorkerSteps, BodySteps, RowStates, Holding,
               BlankUntilPublished, Blank, Message, Early, Provenance,
               Forfeits, Abandoned, Claiming, Held
  <1> QED
    BY <1>1, <1>2, <1>3, <1>4, <1>5, <1>6, <1>7, <1>8, <1>9, <1>10, <1>11,
       <1>12, <1>13, <1>14, <1>15, <1>16, <1>17, <1>18, <1>19, <1>20, <1>21,
       <1>22, <1>23, <1>24, <1>25, <1>26, <1>27, <1>28, <1>29, <1>30, <1>31,
       <1>32, <1>33
    DEF Next, SchedulerStep, WorkerStep, WatchdogStep, Tick, FreeSlot,
        Restart, Age, InspectActive, InspectReserved, Query, DogFreesSlot,
        DogFreesLock

(* Locks and slots carry the tokens of those who claimed them.             *)
LEMMA ProvenanceStep == ASSUME IInv, [Next]_vars PROVE Provenance'
  <1> USE DEF IInv, Shape, TypeOK, SchedShape, WorkerShape, OneHolder,
              SchedSteps, WorkerSteps, BodySteps, RowStates, Holding,
              Provenance, FreeSlots, Unlocked, ClaimGrows, Early
  <1>1. CASE UNCHANGED <<lock, slot, spc, sid, job>>
    BY <1>1
  <1>2. ASSUME NEW s \in Schedulers, NEW j \in Jobs, CheckDue(s, j)
       PROVE  Provenance'
    BY <1>2 DEF CheckDue
  <1>3. ASSUME NEW s \in Schedulers, TryLockTask(s)
       PROVE  Provenance'
    BY <1>3 DEF TryLockTask
  <1>4. ASSUME NEW s \in Schedulers, SkipLocked(s)
       PROVE  Provenance'
    BY <1>4 DEF SkipLocked
  <1>5. ASSUME NEW s \in Schedulers, ReserveTaskSlot(s)
       PROVE  Provenance'
    BY <1>5 DEF ReserveTaskSlot
  <1>6. ASSUME NEW s \in Schedulers, NoSlotLeft(s)
       PROVE  Provenance'
    BY <1>6 DEF NoSlotLeft
  <1>7. ASSUME NEW s \in Schedulers, UnlockSkipped(s)
       PROVE  Provenance'
    BY <1>7 DEF UnlockSkipped
  <1>8. ASSUME NEW s \in Schedulers, BindTaskIdToSlot(s)
       PROVE  Provenance'
    BY <1>8 DEF BindTaskIdToSlot
  <1>9. ASSUME NEW s \in Schedulers, MapTaskToLock(s)
       PROVE  Provenance'
    BY <1>9 DEF MapTaskToLock
  <1>10. ASSUME NEW s \in Schedulers, Publish(s)
       PROVE  Provenance'
    BY <1>10 DEF Publish
  <1>11. ASSUME NEW s \in Schedulers, PublishRaises(s)
       PROVE  Provenance'
    BY <1>11 DEF PublishRaises
  <1>12. ASSUME NEW s \in Schedulers, InsertRow(s)
       PROVE  Provenance'
    BY <1>12 DEF InsertRow
  <1>13. ASSUME NEW s \in Schedulers, Stamp(s)
       PROVE  Provenance'
    BY <1>13 DEF Stamp
  <1>14. ASSUME NEW s \in Schedulers, StampRaises(s)
       PROVE  Provenance'
    BY <1>14 DEF StampRaises
  <1>15. ASSUME NEW s \in Schedulers, Restamp(s)
       PROVE  Provenance'
    BY <1>15 DEF Restamp
  <1>16. ASSUME NEW s \in Schedulers, UndoSlot(s)
       PROVE  Provenance'
    BY <1>16 DEF UndoSlot
  <1>17. ASSUME NEW s \in Schedulers, UndoLock(s)
       PROVE  Provenance'
    BY <1>17 DEF UndoLock
  <1>18. ASSUME NEW s \in Schedulers, UndoClaim(s)
       PROVE  Provenance'
    BY <1>18, SMTT(60) DEF UndoClaim
  <1>19. ASSUME NEW s \in Schedulers, SchedulerDies(s)
       PROVE  Provenance'
    BY <1>19 DEF SchedulerDies
  <1>20. ASSUME NEW w \in Workers, FreeSlot(w)
       PROVE  Provenance'
    BY <1>20 DEF FreeSlot
  <1>21. ASSUME NEW w \in Workers, FreeLock(w)
       PROVE  Provenance'
    BY <1>21 DEF FreeLock
  <1>22. ASSUME NEW i \in Ids, Expire(i)
       PROVE  Provenance'
    BY <1>22 DEF Expire
  <1>23. ASSUME NEW w \in Workers, DogFreesSlot(w)
       PROVE  Provenance'
    <2>1. /\ \A k \in Slots : slot'[k] = slot[k] \/ slot'[k] = None
          /\ UNCHANGED <<lock, spc, sid, job>>
      BY <1>23 DEF DogFreesSlot
    <2>2. /\ \A j \in Jobs : lock'[j] # None => job'[lock'[j]] = j
          /\ \A k \in Slots : slot'[k] # None => job'[slot'[k]] # None
      BY <2>1
    <2>3. \A k, m \in Slots : slot'[k] = slot'[m] /\ slot'[k] # None => k = m
      BY <2>1
    <2>4. \A s \in Schedulers :
             spc'[s] \in {"slot", "unlock"} =>
                \A k \in Slots : slot'[k] # sid'[s]
      BY <2>1, SMTT(60)
    <2> HIDE DEF IInv
    <2> QED
      BY <2>2, <2>3, <2>4
  <1>24. ASSUME NEW w \in Workers, DogFreesLock(w)
       PROVE  Provenance'
    BY <1>24 DEF DogFreesLock
  <1> HIDE DEF IInv, Shape, TypeOK, SchedShape, WorkerShape, OneHolder,
               SchedSteps, WorkerSteps, BodySteps, RowStates, Holding,
               Provenance, FreeSlots, Unlocked, ClaimGrows, Early
  <1> QED
    BY <1>1, <1>2, <1>3, <1>4, <1>5, <1>6, <1>7, <1>8, <1>9, <1>10, <1>11,
       <1>12, <1>13, <1>14, <1>15, <1>16, <1>17, <1>18, <1>19, <1>20, <1>21,
       <1>22, <1>23, <1>24
    DEF Next, SchedulerStep, WorkerStep, WatchdogStep, Tick, Prefetch, Accept,
        ClaimRow, IgnoreDuplicate, StartBlind, StartRedelivered, Finish,
        WorkerDies, ChildDies, Restart, Restore, Age, InspectActive,
        InspectReserved, Query, MarkInterrupted, WatchdogRaises

(* What a dispatch has claimed stays claimed until it is published.        *)
LEMMA ClaimGrowsStep == ASSUME IInv, [Next]_vars PROVE ClaimGrows'
  <1> USE DEF IInv, Shape, TypeOK, SchedShape, WorkerShape, OneHolder,
              SchedSteps, WorkerSteps, BodySteps, RowStates, Holding,
              ClaimGrows, HoldsSlot, HoldsLock, Early, BlankUntilPublished,
              Blank, Message, Forfeits, FreeSlots, Unlocked
  <1>1. CASE UNCHANGED <<lock, slot, slotMap, lockMap, spc, sjob, sid, job>>
    BY <1>1
  <1>2. ASSUME NEW s \in Schedulers, NEW j \in Jobs, CheckDue(s, j)
       PROVE  ClaimGrows'
    BY <1>2 DEF CheckDue
  <1>3. ASSUME NEW s \in Schedulers, TryLockTask(s)
       PROVE  ClaimGrows'
    BY <1>3 DEF TryLockTask
  <1>4. ASSUME NEW s \in Schedulers, SkipLocked(s)
       PROVE  ClaimGrows'
    BY <1>4 DEF SkipLocked
  <1>5. ASSUME NEW s \in Schedulers, ReserveTaskSlot(s)
       PROVE  ClaimGrows'
    BY <1>5, SMTT(60) DEF ReserveTaskSlot
  <1>6. ASSUME NEW s \in Schedulers, NoSlotLeft(s)
       PROVE  ClaimGrows'
    BY <1>6 DEF NoSlotLeft
  <1>7. ASSUME NEW s \in Schedulers, UnlockSkipped(s)
       PROVE  ClaimGrows'
    BY <1>7 DEF UnlockSkipped
  <1>8. ASSUME NEW s \in Schedulers, BindTaskIdToSlot(s)
       PROVE  ClaimGrows'
    BY <1>8 DEF BindTaskIdToSlot
  <1>9. ASSUME NEW s \in Schedulers, MapTaskToLock(s)
       PROVE  ClaimGrows'
    BY <1>9 DEF MapTaskToLock
  <1>10. ASSUME NEW s \in Schedulers, Publish(s)
       PROVE  ClaimGrows'
    BY <1>10 DEF Publish
  <1>11. ASSUME NEW s \in Schedulers, PublishRaises(s)
       PROVE  ClaimGrows'
    BY <1>11 DEF PublishRaises
  <1>12. ASSUME NEW s \in Schedulers, InsertRow(s)
       PROVE  ClaimGrows'
    BY <1>12 DEF InsertRow
  <1>13. ASSUME NEW s \in Schedulers, Stamp(s)
       PROVE  ClaimGrows'
    BY <1>13 DEF Stamp
  <1>14. ASSUME NEW s \in Schedulers, StampRaises(s)
       PROVE  ClaimGrows'
    BY <1>14 DEF StampRaises
  <1>15. ASSUME NEW s \in Schedulers, Restamp(s)
       PROVE  ClaimGrows'
    BY <1>15 DEF Restamp
  <1>16. ASSUME NEW s \in Schedulers, UndoSlot(s)
       PROVE  ClaimGrows'
    BY <1>16 DEF UndoSlot
  <1>17. ASSUME NEW s \in Schedulers, UndoLock(s)
       PROVE  ClaimGrows'
    BY <1>17 DEF UndoLock
  <1>18. ASSUME NEW s \in Schedulers, UndoClaim(s)
       PROVE  ClaimGrows'
    BY <1>18 DEF UndoClaim
  <1>19. ASSUME NEW s \in Schedulers, SchedulerDies(s)
       PROVE  ClaimGrows'
    BY <1>19 DEF SchedulerDies
  <1>20. ASSUME NEW w \in Workers, FreeSlot(w)
       PROVE  ClaimGrows'
    BY <1>20 DEF FreeSlot
  <1>21. ASSUME NEW w \in Workers, FreeLock(w)
       PROVE  ClaimGrows'
    BY <1>21 DEF FreeLock
  <1>22. ASSUME NEW i \in Ids, Expire(i)
       PROVE  ClaimGrows'
    BY <1>22 DEF Expire
  <1>23. ASSUME NEW w \in Workers, DogFreesSlot(w)
       PROVE  ClaimGrows'
    BY <1>23 DEF DogFreesSlot
  <1>24. ASSUME NEW w \in Workers, DogFreesLock(w)
       PROVE  ClaimGrows'
    BY <1>24 DEF DogFreesLock
  <1> HIDE DEF IInv, Shape, TypeOK, SchedShape, WorkerShape, OneHolder,
               SchedSteps, WorkerSteps, BodySteps, RowStates, Holding,
               ClaimGrows, HoldsSlot, HoldsLock, Early, BlankUntilPublished,
               Blank, Message, Forfeits, FreeSlots, Unlocked
  <1> QED
    BY <1>1, <1>2, <1>3, <1>4, <1>5, <1>6, <1>7, <1>8, <1>9, <1>10, <1>11,
       <1>12, <1>13, <1>14, <1>15, <1>16, <1>17, <1>18, <1>19, <1>20, <1>21,
       <1>22, <1>23, <1>24
    DEF Next, SchedulerStep, WorkerStep, WatchdogStep, Tick, Prefetch, Accept,
        ClaimRow, IgnoreDuplicate, StartBlind, StartRedelivered, Finish,
        WorkerDies, ChildDies, Restart, Restore, Age, InspectActive,
        InspectReserved, Query, MarkInterrupted, WatchdogRaises

(* Undone and interrupted attempts are forfeited.                          *)
LEMMA ForfeitsStep == ASSUME IInv, [Next]_vars PROVE Forfeits'
  <1> USE DEF IInv, Shape, TypeOK, SchedShape, WorkerShape, OneHolder,
              SchedSteps, WorkerSteps, BodySteps, RowStates, Holding,
              Forfeits, Undoing, Abandoned
  <1>1. CASE UNCHANGED <<row, spc, sid, todo, target, forfeited>>
    BY <1>1
  <1>2. ASSUME NEW s \in Schedulers, NEW j \in Jobs, CheckDue(s, j)
       PROVE  Forfeits'
    BY <1>2 DEF CheckDue
  <1>3. ASSUME NEW s \in Schedulers, TryLockTask(s)
       PROVE  Forfeits'
    BY <1>3 DEF TryLockTask
  <1>4. ASSUME NEW s \in Schedulers, SkipLocked(s)
       PROVE  Forfeits'
    BY <1>4 DEF SkipLocked
  <1>5. ASSUME NEW s \in Schedulers, ReserveTaskSlot(s)
       PROVE  Forfeits'
    BY <1>5 DEF ReserveTaskSlot
  <1>6. ASSUME NEW s \in Schedulers, NoSlotLeft(s)
       PROVE  Forfeits'
    BY <1>6 DEF NoSlotLeft
  <1>7. ASSUME NEW s \in Schedulers, UnlockSkipped(s)
       PROVE  Forfeits'
    BY <1>7 DEF UnlockSkipped
  <1>8. ASSUME NEW s \in Schedulers, BindTaskIdToSlot(s)
       PROVE  Forfeits'
    BY <1>8 DEF BindTaskIdToSlot
  <1>9. ASSUME NEW s \in Schedulers, MapTaskToLock(s)
       PROVE  Forfeits'
    BY <1>9 DEF MapTaskToLock
  <1>10. ASSUME NEW s \in Schedulers, Publish(s)
       PROVE  Forfeits'
    BY <1>10 DEF Publish
  <1>11. ASSUME NEW s \in Schedulers, PublishRaises(s)
       PROVE  Forfeits'
    BY <1>11 DEF PublishRaises
  <1>12. ASSUME NEW s \in Schedulers, InsertRow(s)
       PROVE  Forfeits'
    BY <1>12 DEF InsertRow
  <1>13. ASSUME NEW s \in Schedulers, Stamp(s)
       PROVE  Forfeits'
    BY <1>13 DEF Stamp
  <1>14. ASSUME NEW s \in Schedulers, StampRaises(s)
       PROVE  Forfeits'
    BY <1>14 DEF StampRaises
  <1>15. ASSUME NEW s \in Schedulers, Restamp(s)
       PROVE  Forfeits'
    BY <1>15 DEF Restamp
  <1>16. ASSUME NEW s \in Schedulers, UndoSlot(s)
       PROVE  Forfeits'
    BY <1>16 DEF UndoSlot
  <1>17. ASSUME NEW s \in Schedulers, UndoLock(s)
       PROVE  Forfeits'
    BY <1>17 DEF UndoLock
  <1>18. ASSUME NEW s \in Schedulers, UndoClaim(s)
       PROVE  Forfeits'
    BY <1>18 DEF UndoClaim
  <1>19. ASSUME NEW s \in Schedulers, SchedulerDies(s)
       PROVE  Forfeits'
    BY <1>19 DEF SchedulerDies
  <1>20. ASSUME NEW w \in Workers, ClaimRow(w)
       PROVE  Forfeits'
    BY <1>20 DEF ClaimRow
  <1>21. ASSUME NEW w \in Workers, StartRedelivered(w)
       PROVE  Forfeits'
    BY <1>21 DEF StartRedelivered
  <1>22. ASSUME NEW w \in Workers, Finish(w)
       PROVE  Forfeits'
    BY <1>22 DEF Finish
  <1>23. ASSUME NEW w \in Workers, WorkerDies(w)
       PROVE  Forfeits'
    BY <1>23 DEF WorkerDies
  <1>24. ASSUME NEW w \in Workers, ChildDies(w)
       PROVE  Forfeits'
    BY <1>24 DEF ChildDies
  <1>25. ASSUME NEW i \in Ids, Expire(i)
       PROVE  Forfeits'
    BY <1>25 DEF Expire
  <1>26. ASSUME NEW w \in Workers, Query(w)
       PROVE  Forfeits'
    BY <1>26 DEF Query
  <1>27. ASSUME NEW w \in Workers, NEW i \in Ids, MarkInterrupted(w, i)
       PROVE  Forfeits'
    BY <1>27 DEF MarkInterrupted
  <1>28. ASSUME NEW w \in Workers, DogFreesLock(w)
       PROVE  Forfeits'
    BY <1>28 DEF DogFreesLock
  <1>29. ASSUME NEW w \in Workers, WatchdogRaises(w)
       PROVE  Forfeits'
    BY <1>29 DEF WatchdogRaises
  <1> HIDE DEF IInv, Shape, TypeOK, SchedShape, WorkerShape, OneHolder,
               SchedSteps, WorkerSteps, BodySteps, RowStates, Holding,
               Forfeits, Undoing, Abandoned
  <1> QED
    BY <1>1, <1>2, <1>3, <1>4, <1>5, <1>6, <1>7, <1>8, <1>9, <1>10, <1>11,
       <1>12, <1>13, <1>14, <1>15, <1>16, <1>17, <1>18, <1>19, <1>20, <1>21,
       <1>22, <1>23, <1>24, <1>25, <1>26, <1>27, <1>28, <1>29
    DEF Next, SchedulerStep, WorkerStep, WatchdogStep, Tick, Prefetch, Accept,
        IgnoreDuplicate, StartBlind, FreeSlot, FreeLock, Restart, Restore,
        Age, InspectActive, InspectReserved, DogFreesSlot

(* The fence admits an attempt once.                                       *)
LEMMA FenceStep == ASSUME IInv, [Next]_vars PROVE FenceHolds'
  <1> USE DEF IInv, Shape, TypeOK, SchedShape, WorkerShape, OneHolder,
              SchedSteps, WorkerSteps, BodySteps, RowStates, Holding,
              FenceHolds, Fenced, LateAck, Admitted, BlankUntilPublished,
              Blank, Message, Unstarted, IsWatchdog, ClaimsRow, Early
  <1>1. CASE UNCHANGED <<row, wpc, exec, job, blind, bodies>>
    BY <1>1
  <1>2. ASSUME NEW s \in Schedulers, TryLockTask(s)
       PROVE  FenceHolds'
    BY <1>2 DEF TryLockTask
  <1>3. ASSUME NEW s \in Schedulers, UnlockSkipped(s)
       PROVE  FenceHolds'
    BY <1>3 DEF UnlockSkipped
  <1>4. ASSUME NEW s \in Schedulers, InsertRow(s)
       PROVE  FenceHolds'
    BY <1>4, SMTT(60) DEF InsertRow
  <1>5. ASSUME NEW w \in Workers, Accept(w)
       PROVE  FenceHolds'
    BY <1>5 DEF Accept
  <1>6. ASSUME NEW w \in Workers, ClaimRow(w)
       PROVE  FenceHolds'
    BY <1>6, SMTT(60) DEF ClaimRow
  <1>7. ASSUME NEW w \in Workers, IgnoreDuplicate(w)
       PROVE  FenceHolds'
    BY <1>7 DEF IgnoreDuplicate
  <1>8. ASSUME NEW w \in Workers, StartBlind(w)
       PROVE  FenceHolds'
    BY <1>8 DEF StartBlind
  <1>9. ASSUME NEW w \in Workers, StartRedelivered(w)
       PROVE  FenceHolds'
    BY <1>9, SMTT(60) DEF StartRedelivered
  <1>10. ASSUME NEW w \in Workers, Finish(w)
       PROVE  FenceHolds'
    BY <1>10, SMTT(60) DEF Finish
  <1>11. ASSUME NEW w \in Workers, FreeSlot(w)
       PROVE  FenceHolds'
    BY <1>11 DEF FreeSlot
  <1>12. ASSUME NEW w \in Workers, FreeLock(w)
       PROVE  FenceHolds'
    BY <1>12 DEF FreeLock
  <1>13. ASSUME NEW w \in Workers, WorkerDies(w)
       PROVE  FenceHolds'
    BY <1>13 DEF WorkerDies
  <1>14. ASSUME NEW w \in Workers, ChildDies(w)
       PROVE  FenceHolds'
    BY <1>14 DEF ChildDies
  <1>15. ASSUME NEW w \in Workers, Restart(w)
       PROVE  FenceHolds'
    BY <1>15 DEF Restart
  <1>16. ASSUME NEW w \in Workers, InspectActive(w)
       PROVE  FenceHolds'
    BY <1>16 DEF InspectActive
  <1>17. ASSUME NEW w \in Workers, InspectReserved(w)
       PROVE  FenceHolds'
    BY <1>17 DEF InspectReserved
  <1>18. ASSUME NEW w \in Workers, Query(w)
       PROVE  FenceHolds'
    BY <1>18 DEF Query
  <1>19. ASSUME NEW w \in Workers, NEW i \in Ids, MarkInterrupted(w, i)
       PROVE  FenceHolds'
    BY <1>19 DEF MarkInterrupted
  <1>20. ASSUME NEW w \in Workers, DogFreesSlot(w)
       PROVE  FenceHolds'
    BY <1>20 DEF DogFreesSlot
  <1>21. ASSUME NEW w \in Workers, DogFreesLock(w)
       PROVE  FenceHolds'
    BY <1>21 DEF DogFreesLock
  <1>22. ASSUME NEW w \in Workers, WatchdogRaises(w)
       PROVE  FenceHolds'
    BY <1>22 DEF WatchdogRaises
  <1> HIDE DEF IInv, Shape, TypeOK, SchedShape, WorkerShape, OneHolder,
               SchedSteps, WorkerSteps, BodySteps, RowStates, Holding,
               FenceHolds, Fenced, LateAck, Admitted, BlankUntilPublished,
               Blank, Message, Unstarted, IsWatchdog, ClaimsRow, Early
  <1> QED
    BY <1>1, <1>2, <1>3, <1>4, <1>5, <1>6, <1>7, <1>8, <1>9, <1>10, <1>11,
       <1>12, <1>13, <1>14, <1>15, <1>16, <1>17, <1>18, <1>19, <1>20, <1>21,
       <1>22
    DEF Next, SchedulerStep, WorkerStep, WatchdogStep, Tick, CheckDue,
        SkipLocked, ReserveTaskSlot, NoSlotLeft, BindTaskIdToSlot,
        MapTaskToLock, Publish, PublishRaises, Stamp, StampRaises, Restamp,
        UndoSlot, UndoLock, UndoClaim, SchedulerDies, Prefetch, Restore,
        Expire, Age

(* Admitted attempts and those still to be admitted own their claims.      *)
LEMMA ClaimKeptStep == ASSUME IInv, [Next]_vars PROVE ClaimKept'
  <1> USE DEF IInv, Shape, TypeOK, SchedShape, WorkerShape, OneHolder,
              SchedSteps, WorkerSteps, BodySteps, RowStates, Holding,
              ClaimKept, FenceHolds, Fenced, LateAck, Admitted,
              BlankUntilPublished, Blank, Message, Unstarted, IsWatchdog,
              Owned, InBody, HoldsSlot, HoldsLock, ClaimGrows, Forfeits,
              Undoing, FreeSlots, Unlocked, ClaimsRow, Early
  <1>1. CASE UNCHANGED <<lock, slot, slotMap, lockMap, queue, unacked, row,
                spc, sid, wpc, reserved, exec, todo, target, job, forfeited,
                blind, bodies>>
    BY <1>1
  <1>2. ASSUME NEW s \in Schedulers, NEW j \in Jobs, CheckDue(s, j)
       PROVE  ClaimKept'
    BY <1>2 DEF CheckDue
  <1>3. ASSUME NEW s \in Schedulers, TryLockTask(s)
       PROVE  ClaimKept'
    BY <1>3 DEF TryLockTask
  <1>4. ASSUME NEW s \in Schedulers, SkipLocked(s)
       PROVE  ClaimKept'
    BY <1>4 DEF SkipLocked
  <1>5. ASSUME NEW s \in Schedulers, ReserveTaskSlot(s)
       PROVE  ClaimKept'
    BY <1>5, SMTT(60) DEF ReserveTaskSlot
  <1>6. ASSUME NEW s \in Schedulers, NoSlotLeft(s)
       PROVE  ClaimKept'
    BY <1>6 DEF NoSlotLeft
  <1>7. ASSUME NEW s \in Schedulers, UnlockSkipped(s)
       PROVE  ClaimKept'
    BY <1>7 DEF UnlockSkipped
  <1>8. ASSUME NEW s \in Schedulers, BindTaskIdToSlot(s)
       PROVE  ClaimKept'
    BY <1>8 DEF BindTaskIdToSlot
  <1>9. ASSUME NEW s \in Schedulers, MapTaskToLock(s)
       PROVE  ClaimKept'
    BY <1>9 DEF MapTaskToLock
  <1>10. ASSUME NEW s \in Schedulers, Publish(s)
       PROVE  ClaimKept'
    BY <1>10 DEF Publish
  <1>11. ASSUME NEW s \in Schedulers, PublishRaises(s)
       PROVE  ClaimKept'
    BY <1>11 DEF PublishRaises
  <1>12. ASSUME NEW s \in Schedulers, InsertRow(s)
       PROVE  ClaimKept'
    BY <1>12 DEF InsertRow
  <1>13. ASSUME NEW s \in Schedulers, Stamp(s)
       PROVE  ClaimKept'
    BY <1>13 DEF Stamp
  <1>14. ASSUME NEW s \in Schedulers, StampRaises(s)
       PROVE  ClaimKept'
    BY <1>14 DEF StampRaises
  <1>15. ASSUME NEW s \in Schedulers, Restamp(s)
       PROVE  ClaimKept'
    BY <1>15 DEF Restamp
  <1>16. ASSUME NEW s \in Schedulers, UndoSlot(s)
       PROVE  ClaimKept'
    BY <1>16 DEF UndoSlot
  <1>17. ASSUME NEW s \in Schedulers, UndoLock(s)
       PROVE  ClaimKept'
    BY <1>17 DEF UndoLock
  <1>18. ASSUME NEW s \in Schedulers, UndoClaim(s)
       PROVE  ClaimKept'
    BY <1>18 DEF UndoClaim
  <1>19. ASSUME NEW s \in Schedulers, SchedulerDies(s)
       PROVE  ClaimKept'
    BY <1>19 DEF SchedulerDies
  <1>20. ASSUME NEW w \in Workers, NEW i \in Ids, Prefetch(w, i)
       PROVE  ClaimKept'
    BY <1>20 DEF Prefetch
  <1>21. ASSUME NEW w \in Workers, Accept(w)
       PROVE  ClaimKept'
    BY <1>21 DEF Accept
  <1>22. ASSUME NEW w \in Workers, ClaimRow(w)
       PROVE  ClaimKept'
    BY <1>22 DEF ClaimRow
  <1>23. ASSUME NEW w \in Workers, IgnoreDuplicate(w)
       PROVE  ClaimKept'
    BY <1>23 DEF IgnoreDuplicate
  <1>24. ASSUME NEW w \in Workers, StartBlind(w)
       PROVE  ClaimKept'
    BY <1>24 DEF StartBlind
  <1>25. ASSUME NEW w \in Workers, StartRedelivered(w)
       PROVE  ClaimKept'
    BY <1>25 DEF StartRedelivered
  <1>26. ASSUME NEW w \in Workers, Finish(w)
       PROVE  ClaimKept'
    BY <1>26 DEF Finish
  <1>27. ASSUME NEW w \in Workers, FreeSlot(w)
       PROVE  ClaimKept'
    BY <1>27 DEF FreeSlot
  <1>28. ASSUME NEW w \in Workers, FreeLock(w)
       PROVE  ClaimKept'
    BY <1>28, SMTT(60) DEF FreeLock
  <1>29. ASSUME NEW w \in Workers, WorkerDies(w)
       PROVE  ClaimKept'
    BY <1>29 DEF WorkerDies
  <1>30. ASSUME NEW w \in Workers, ChildDies(w)
       PROVE  ClaimKept'
    BY <1>30 DEF ChildDies
  <1>31. ASSUME NEW w \in Workers, Restart(w)
       PROVE  ClaimKept'
    BY <1>31 DEF Restart
  <1>32. ASSUME NEW i \in Ids, Restore(i)
       PROVE  ClaimKept'
    BY <1>32 DEF Restore
  <1>33. ASSUME NEW i \in Ids, Expire(i)
       PROVE  ClaimKept'
    BY <1>33 DEF Expire
  <1>34. ASSUME NEW w \in Workers, InspectActive(w)
       PROVE  ClaimKept'
    BY <1>34 DEF InspectActive
  <1>35. ASSUME NEW w \in Workers, InspectReserved(w)
       PROVE  ClaimKept'
    BY <1>35 DEF InspectReserved
  <1>36. ASSUME NEW w \in Workers, Query(w)
       PROVE  ClaimKept'
    BY <1>36 DEF Query
  <1>37. ASSUME NEW w \in Workers, NEW i \in Ids, MarkInterrupted(w, i)
       PROVE  ClaimKept'
    BY <1>37 DEF MarkInterrupted
  <1>38. ASSUME NEW w \in Workers, DogFreesSlot(w)
       PROVE  ClaimKept'
    BY <1>38 DEF DogFreesSlot
  <1>39. ASSUME NEW w \in Workers, DogFreesLock(w)
       PROVE  ClaimKept'
    BY <1>39, SMTT(60) DEF DogFreesLock
  <1>40. ASSUME NEW w \in Workers, WatchdogRaises(w)
       PROVE  ClaimKept'
    BY <1>40 DEF WatchdogRaises
  <1> HIDE DEF IInv, Shape, TypeOK, SchedShape, WorkerShape, OneHolder,
               SchedSteps, WorkerSteps, BodySteps, RowStates, Holding,
               ClaimKept, FenceHolds, Fenced, LateAck, Admitted,
               BlankUntilPublished, Blank, Message, Unstarted, IsWatchdog,
               Owned, InBody, HoldsSlot, HoldsLock, ClaimGrows, Forfeits,
               Undoing, FreeSlots, Unlocked, ClaimsRow, Early
  <1> QED
    BY <1>1, <1>2, <1>3, <1>4, <1>5, <1>6, <1>7, <1>8, <1>9, <1>10, <1>11,
       <1>12, <1>13, <1>14, <1>15, <1>16, <1>17, <1>18, <1>19, <1>20, <1>21,
       <1>22, <1>23, <1>24, <1>25, <1>26, <1>27, <1>28, <1>29, <1>30, <1>31,
       <1>32, <1>33, <1>34, <1>35, <1>36, <1>37, <1>38, <1>39, <1>40
    DEF Next, SchedulerStep, WorkerStep, WatchdogStep, Tick, Age

(* The maps of a published claim point at it.                              *)
LEMMA MapsLeadStep == ASSUME IInv, [Next]_vars PROVE MapsLead'
  <1> USE DEF IInv, Shape, TypeOK, SchedShape, WorkerShape, OneHolder,
              SchedSteps, WorkerSteps, BodySteps, RowStates, Holding,
              MapsLead, Binding, MapsFind, Early, HoldsSlot, HoldsLock,
              ClaimGrows, Provenance, FreeSlots, Unlocked, Undoing
  <1>1. CASE UNCHANGED <<lock, slot, slotMap, lockMap, spc, sid, job, died>>
    BY <1>1
  <1>2. ASSUME NEW s \in Schedulers, NEW j \in Jobs, CheckDue(s, j)
       PROVE  MapsLead'
    BY <1>2 DEF CheckDue
  <1>3. ASSUME NEW s \in Schedulers, TryLockTask(s)
       PROVE  MapsLead'
    BY <1>3 DEF TryLockTask
  <1>4. ASSUME NEW s \in Schedulers, SkipLocked(s)
       PROVE  MapsLead'
    BY <1>4 DEF SkipLocked
  <1>5. ASSUME NEW s \in Schedulers, ReserveTaskSlot(s)
       PROVE  MapsLead'
    BY <1>5 DEF ReserveTaskSlot
  <1>6. ASSUME NEW s \in Schedulers, NoSlotLeft(s)
       PROVE  MapsLead'
    BY <1>6 DEF NoSlotLeft
  <1>7. ASSUME NEW s \in Schedulers, UnlockSkipped(s)
       PROVE  MapsLead'
    BY <1>7, SMTT(60) DEF UnlockSkipped
  <1>8. ASSUME NEW s \in Schedulers, BindTaskIdToSlot(s)
       PROVE  MapsLead'
    BY <1>8 DEF BindTaskIdToSlot
  <1>9. ASSUME NEW s \in Schedulers, MapTaskToLock(s)
       PROVE  MapsLead'
    BY <1>9 DEF MapTaskToLock
  <1>10. ASSUME NEW s \in Schedulers, Publish(s)
       PROVE  MapsLead'
    BY <1>10 DEF Publish
  <1>11. ASSUME NEW s \in Schedulers, PublishRaises(s)
       PROVE  MapsLead'
    BY <1>11 DEF PublishRaises
  <1>12. ASSUME NEW s \in Schedulers, InsertRow(s)
       PROVE  MapsLead'
    BY <1>12 DEF InsertRow
  <1>13. ASSUME NEW s \in Schedulers, Stamp(s)
       PROVE  MapsLead'
    BY <1>13, SMTT(60) DEF Stamp
  <1>14. ASSUME NEW s \in Schedulers, StampRaises(s)
       PROVE  MapsLead'
    BY <1>14 DEF StampRaises
  <1>15. ASSUME NEW s \in Schedulers, Restamp(s)
       PROVE  MapsLead'
    BY <1>15, SMTT(60) DEF Restamp
  <1>16. ASSUME NEW s \in Schedulers, UndoSlot(s)
       PROVE  MapsLead'
    BY <1>16, SMTT(60) DEF UndoSlot
  <1>17. ASSUME NEW s \in Schedulers, UndoLock(s)
       PROVE  MapsLead'
    <2> DEFINE e == sid[s]
    <2>1. ~Binding(e)
      BY <1>17 DEF UndoLock
    <2>2. died \/ MapsFind(e)
      BY <1>17, <2>1 DEF UndoLock
    <2>3. died \/ \A j \in Jobs : lock'[j] # e
      BY <1>17, <2>2 DEF UndoLock
    <2>4. \A i \in Ids : Binding(i) => Binding(i)'
      BY <1>17 DEF UndoLock
    <2>5. \A i \in Ids : MapsFind(i) /\ i # e => MapsFind(i)'
      BY <1>17 DEF UndoLock
    <2>6. died \/ MapsFind(e)'
      BY <1>17, <2>2, <2>3 DEF UndoLock
    <2> QED BY <1>17, <2>1, <2>4, <2>5, <2>6 DEF UndoLock
  <1>18. ASSUME NEW s \in Schedulers, UndoClaim(s)
       PROVE  MapsLead'
    BY <1>18, SMTT(60) DEF UndoClaim
  <1>19. ASSUME NEW s \in Schedulers, SchedulerDies(s)
       PROVE  MapsLead'
    BY <1>19 DEF SchedulerDies
  <1>20. ASSUME NEW w \in Workers, FreeSlot(w)
       PROVE  MapsLead'
    BY <1>20, SMTT(60) DEF FreeSlot
  <1>21. ASSUME NEW w \in Workers, FreeLock(w)
       PROVE  MapsLead'
    BY <1>21 DEF FreeLock
  <1>22. ASSUME NEW w \in Workers, WorkerDies(w)
       PROVE  MapsLead'
    BY <1>22 DEF WorkerDies
  <1>23. ASSUME NEW w \in Workers, ChildDies(w)
       PROVE  MapsLead'
    BY <1>23 DEF ChildDies
  <1>24. ASSUME NEW i \in Ids, Expire(i)
       PROVE  MapsLead'
    BY <1>24, SMTT(60) DEF Expire
  <1>25. ASSUME NEW w \in Workers, DogFreesSlot(w)
       PROVE  MapsLead'
    BY <1>25, SMTT(60) DEF DogFreesSlot
  <1>26. ASSUME NEW w \in Workers, DogFreesLock(w)
       PROVE  MapsLead'
    BY <1>26 DEF DogFreesLock
  <1> HIDE DEF IInv, Shape, TypeOK, SchedShape, WorkerShape, OneHolder,
               SchedSteps, WorkerSteps, BodySteps, RowStates, Holding,
               MapsLead, Binding, MapsFind, Early, HoldsSlot, HoldsLock,
               ClaimGrows, Provenance, FreeSlots, Unlocked, Undoing
  <1> QED
    BY <1>1, <1>2, <1>3, <1>4, <1>5, <1>6, <1>7, <1>8, <1>9, <1>10, <1>11,
       <1>12, <1>13, <1>14, <1>15, <1>16, <1>17, <1>18, <1>19, <1>20, <1>21,
       <1>22, <1>23, <1>24, <1>25, <1>26
    DEF Next, SchedulerStep, WorkerStep, WatchdogStep, Tick, Prefetch, Accept,
        ClaimRow, IgnoreDuplicate, StartBlind, StartRedelivered, Finish,
        Restart, Restore, Age, InspectActive, InspectReserved, Query,
        MarkInterrupted, WatchdogRaises

(* The slot is free when the lock is about to be.                          *)
LEMMA SlotFirstStep == ASSUME IInv, [Next]_vars PROVE SlotFirst'
  <1> USE DEF IInv, Shape, TypeOK, SchedShape, WorkerShape, OneHolder,
              SchedSteps, WorkerSteps, BodySteps, RowStates, Holding,
              SlotFirst, MapsLead, MapsFind, Binding, BlankUntilPublished,
              Blank, Message, Early, FreeSlots, Forfeits, IsWatchdog
  <1>1. CASE UNCHANGED <<slot, wpc, exec, target, died>>
    BY <1>1
  <1>2. ASSUME NEW s \in Schedulers, ReserveTaskSlot(s)
       PROVE  SlotFirst'
    BY <1>2 DEF ReserveTaskSlot
  <1>3. ASSUME NEW s \in Schedulers, UndoSlot(s)
       PROVE  SlotFirst'
    BY <1>3 DEF UndoSlot
  <1>4. ASSUME NEW s \in Schedulers, UndoClaim(s)
       PROVE  SlotFirst'
    BY <1>4, SMTT(60) DEF UndoClaim
  <1>5. ASSUME NEW s \in Schedulers, SchedulerDies(s)
       PROVE  SlotFirst'
    BY <1>5 DEF SchedulerDies
  <1>6. ASSUME NEW w \in Workers, Accept(w)
       PROVE  SlotFirst'
    BY <1>6 DEF Accept
  <1>7. ASSUME NEW w \in Workers, ClaimRow(w)
       PROVE  SlotFirst'
    BY <1>7 DEF ClaimRow
  <1>8. ASSUME NEW w \in Workers, IgnoreDuplicate(w)
       PROVE  SlotFirst'
    BY <1>8 DEF IgnoreDuplicate
  <1>9. ASSUME NEW w \in Workers, StartBlind(w)
       PROVE  SlotFirst'
    BY <1>9 DEF StartBlind
  <1>10. ASSUME NEW w \in Workers, StartRedelivered(w)
       PROVE  SlotFirst'
    BY <1>10 DEF StartRedelivered
  <1>11. ASSUME NEW w \in Workers, Finish(w)
       PROVE  SlotFirst'
    BY <1>11 DEF Finish
  <1>12. ASSUME NEW w \in Workers, FreeSlot(w)
       PROVE  SlotFirst'
    BY <1>12, SMTT(60) DEF FreeSlot
  <1>13. ASSUME NEW w \in Workers, FreeLock(w)
       PROVE  SlotFirst'
    BY <1>13 DEF FreeLock
  <1>14. ASSUME NEW w \in Workers, WorkerDies(w)
       PROVE  SlotFirst'
    BY <1>14 DEF WorkerDies
  <1>15. ASSUME NEW w \in Workers, ChildDies(w)
       PROVE  SlotFirst'
    BY <1>15 DEF ChildDies
  <1>16. ASSUME NEW w \in Workers, Restart(w)
       PROVE  SlotFirst'
    BY <1>16 DEF Restart
  <1>17. ASSUME NEW i \in Ids, Expire(i)
       PROVE  SlotFirst'
    BY <1>17, SMTT(60) DEF Expire
  <1>18. ASSUME NEW w \in Workers, InspectActive(w)
       PROVE  SlotFirst'
    BY <1>18 DEF InspectActive
  <1>19. ASSUME NEW w \in Workers, InspectReserved(w)
       PROVE  SlotFirst'
    BY <1>19 DEF InspectReserved
  <1>20. ASSUME NEW w \in Workers, Query(w)
       PROVE  SlotFirst'
    BY <1>20 DEF Query
  <1>21. ASSUME NEW w \in Workers, NEW i \in Ids, MarkInterrupted(w, i)
       PROVE  SlotFirst'
    BY <1>21 DEF MarkInterrupted
  <1>22. ASSUME NEW w \in Workers, DogFreesSlot(w)
       PROVE  SlotFirst'
    BY <1>22 DEF DogFreesSlot
  <1>23. ASSUME NEW w \in Workers, DogFreesLock(w)
       PROVE  SlotFirst'
    BY <1>23 DEF DogFreesLock
  <1>24. ASSUME NEW w \in Workers, WatchdogRaises(w)
       PROVE  SlotFirst'
    BY <1>24 DEF WatchdogRaises
  <1> HIDE DEF IInv, Shape, TypeOK, SchedShape, WorkerShape, OneHolder,
               SchedSteps, WorkerSteps, BodySteps, RowStates, Holding,
               SlotFirst, MapsLead, MapsFind, Binding, BlankUntilPublished,
               Blank, Message, Early, FreeSlots, Forfeits, IsWatchdog
  <1> QED
    BY <1>1, <1>2, <1>3, <1>4, <1>5, <1>6, <1>7, <1>8, <1>9, <1>10, <1>11,
       <1>12, <1>13, <1>14, <1>15, <1>16, <1>17, <1>18, <1>19, <1>20, <1>21,
       <1>22, <1>23, <1>24
    DEF Next, SchedulerStep, WorkerStep, WatchdogStep, Tick, CheckDue,
        TryLockTask, SkipLocked, NoSlotLeft, UnlockSkipped, BindTaskIdToSlot,
        MapTaskToLock, Publish, PublishRaises, InsertRow, Stamp, StampRaises,
        Restamp, UndoLock, Prefetch, Restore, Age

(* A claim is being dispatched or its message exists.                      *)
LEMMA NotOrphanedStep == ASSUME IInv, [Next]_vars PROVE NotOrphaned'
  <1> USE DEF IInv, Shape, TypeOK, SchedShape, WorkerShape, OneHolder,
              SchedSteps, WorkerSteps, BodySteps, RowStates, Holding,
              NotOrphaned, Dispatching, Published, Message, Claiming,
              SlotFirst, MapsLead, MapsFind, Binding, Early, Undoing,
              Provenance, StartedReleases, Releases, LateAck, ClaimsRow,
              Admitted
  <1>1. CASE UNCHANGED <<lock, slot, queue, unacked, spc, sid, reserved, exec,
                target, job, died>>
    BY <1>1
  <1>2. ASSUME NEW s \in Schedulers, NEW j \in Jobs, CheckDue(s, j)
       PROVE  NotOrphaned'
    BY <1>2, SMTT(60) DEF CheckDue
  <1>3. ASSUME NEW s \in Schedulers, TryLockTask(s)
       PROVE  NotOrphaned'
    BY <1>3, SMTT(60) DEF TryLockTask
  <1>4. ASSUME NEW s \in Schedulers, SkipLocked(s)
       PROVE  NotOrphaned'
    BY <1>4, SMTT(60) DEF SkipLocked
  <1>5. ASSUME NEW s \in Schedulers, ReserveTaskSlot(s)
       PROVE  NotOrphaned'
    BY <1>5, SMTT(60) DEF ReserveTaskSlot
  <1>6. ASSUME NEW s \in Schedulers, NoSlotLeft(s)
       PROVE  NotOrphaned'
    BY <1>6 DEF NoSlotLeft
  <1>7. ASSUME NEW s \in Schedulers, UnlockSkipped(s)
       PROVE  NotOrphaned'
    BY <1>7, SMTT(60) DEF UnlockSkipped
  <1>8. ASSUME NEW s \in Schedulers, BindTaskIdToSlot(s)
       PROVE  NotOrphaned'
    BY <1>8, SMTT(60) DEF BindTaskIdToSlot
  <1>9. ASSUME NEW s \in Schedulers, MapTaskToLock(s)
       PROVE  NotOrphaned'
    BY <1>9, SMTT(60) DEF MapTaskToLock
  <1>10. ASSUME NEW s \in Schedulers, Publish(s)
       PROVE  NotOrphaned'
    BY <1>10, SMTT(60) DEF Publish
  <1>11. ASSUME NEW s \in Schedulers, PublishRaises(s)
       PROVE  NotOrphaned'
    BY <1>11 DEF PublishRaises
  <1>12. ASSUME NEW s \in Schedulers, InsertRow(s)
       PROVE  NotOrphaned'
    BY <1>12, SMTT(60) DEF InsertRow
  <1>13. ASSUME NEW s \in Schedulers, Stamp(s)
       PROVE  NotOrphaned'
    BY <1>13, SMTT(60) DEF Stamp
  <1>14. ASSUME NEW s \in Schedulers, StampRaises(s)
       PROVE  NotOrphaned'
    BY <1>14 DEF StampRaises
  <1>15. ASSUME NEW s \in Schedulers, Restamp(s)
       PROVE  NotOrphaned'
    BY <1>15, SMTT(60) DEF Restamp
  <1>16. ASSUME NEW s \in Schedulers, UndoSlot(s)
       PROVE  NotOrphaned'
    BY <1>16, SMTT(60) DEF UndoSlot
  <1>17. ASSUME NEW s \in Schedulers, UndoLock(s)
       PROVE  NotOrphaned'
    BY <1>17, SMTT(60) DEF UndoLock
  <1>18. ASSUME NEW s \in Schedulers, UndoClaim(s)
       PROVE  NotOrphaned'
    BY <1>18, SMTT(60) DEF UndoClaim
  <1>19. ASSUME NEW s \in Schedulers, SchedulerDies(s)
       PROVE  NotOrphaned'
    BY <1>19 DEF SchedulerDies
  <1>20. ASSUME NEW w \in Workers, NEW i \in Ids, Prefetch(w, i)
       PROVE  NotOrphaned'
    BY <1>20, SMTT(60) DEF Prefetch
  <1>21. ASSUME NEW w \in Workers, Accept(w)
       PROVE  NotOrphaned'
    BY <1>21, SMTT(60) DEF Accept
  <1>22. ASSUME NEW w \in Workers, IgnoreDuplicate(w)
       PROVE  NotOrphaned'
    BY <1>22, SMTT(60) DEF IgnoreDuplicate
  <1>23. ASSUME NEW w \in Workers, FreeSlot(w)
       PROVE  NotOrphaned'
    BY <1>23, SMTT(60) DEF FreeSlot
  <1>24. ASSUME NEW w \in Workers, FreeLock(w)
       PROVE  NotOrphaned'
    BY <1>24, SMTT(60) DEF FreeLock
  <1>25. ASSUME NEW w \in Workers, WorkerDies(w)
       PROVE  NotOrphaned'
    BY <1>25 DEF WorkerDies
  <1>26. ASSUME NEW w \in Workers, ChildDies(w)
       PROVE  NotOrphaned'
    BY <1>26 DEF ChildDies
  <1>27. ASSUME NEW i \in Ids, Restore(i)
       PROVE  NotOrphaned'
    BY <1>27, SMTT(60) DEF Restore
  <1>28. ASSUME NEW i \in Ids, Expire(i)
       PROVE  NotOrphaned'
    BY <1>28, SMTT(60) DEF Expire
  <1>29. ASSUME NEW w \in Workers, NEW i \in Ids, MarkInterrupted(w, i)
       PROVE  NotOrphaned'
    BY <1>29, SMTT(60) DEF MarkInterrupted
  <1>30. ASSUME NEW w \in Workers, DogFreesSlot(w)
       PROVE  NotOrphaned'
    BY <1>30 DEF DogFreesSlot
  <1>31. ASSUME NEW w \in Workers, DogFreesLock(w)
       PROVE  NotOrphaned'
    BY <1>31, SMTT(60) DEF DogFreesLock
  <1>32. ASSUME NEW w \in Workers, WatchdogRaises(w)
       PROVE  NotOrphaned'
    BY <1>32, SMTT(60) DEF WatchdogRaises
  <1> HIDE DEF IInv, Shape, TypeOK, SchedShape, WorkerShape, OneHolder,
               SchedSteps, WorkerSteps, BodySteps, RowStates, Holding,
               NotOrphaned, Dispatching, Published, Message, Claiming,
               SlotFirst, MapsLead, MapsFind, Binding, Early, Undoing,
               Provenance, StartedReleases, Releases, LateAck, ClaimsRow,
               Admitted
  <1> QED
    BY <1>1, <1>2, <1>3, <1>4, <1>5, <1>6, <1>7, <1>8, <1>9, <1>10, <1>11,
       <1>12, <1>13, <1>14, <1>15, <1>16, <1>17, <1>18, <1>19, <1>20, <1>21,
       <1>22, <1>23, <1>24, <1>25, <1>26, <1>27, <1>28, <1>29, <1>30, <1>31,
       <1>32
    DEF Next, SchedulerStep, WorkerStep, WatchdogStep, Tick, ClaimRow,
        StartBlind, StartRedelivered, Finish, Restart, Age, InspectActive,
        InspectReserved, Query

(* Whatever started is followed by a release.                              *)
LEMMA StartedReleasesStep == ASSUME IInv, [Next]_vars PROVE StartedReleases'
  <1> USE DEF IInv, Shape, TypeOK, SchedShape, WorkerShape, OneHolder,
              SchedSteps, WorkerSteps, BodySteps, RowStates, Holding,
              StartedReleases, Releases, Claiming, LateAck, Admitted,
              Unstarted, MapsLead, MapsFind, Binding, SlotFirst,
              BlankUntilPublished, Blank, Message, Early, Provenance,
              IsWatchdog, ClaimsRow, Forfeits
  <1>1. CASE UNCHANGED <<lock, slot, row, wpc, exec, target, job, died>>
    BY <1>1
  <1>2. ASSUME NEW s \in Schedulers, TryLockTask(s)
       PROVE  StartedReleases'
    BY <1>2 DEF TryLockTask
  <1>3. ASSUME NEW s \in Schedulers, ReserveTaskSlot(s)
       PROVE  StartedReleases'
    BY <1>3, SMTT(60) DEF ReserveTaskSlot
  <1>4. ASSUME NEW s \in Schedulers, UnlockSkipped(s)
       PROVE  StartedReleases'
    BY <1>4, SMTT(60) DEF UnlockSkipped
  <1>5. ASSUME NEW s \in Schedulers, InsertRow(s)
       PROVE  StartedReleases'
    BY <1>5, SMTT(60) DEF InsertRow
  <1>6. ASSUME NEW s \in Schedulers, UndoSlot(s)
       PROVE  StartedReleases'
    BY <1>6 DEF UndoSlot
  <1>7. ASSUME NEW s \in Schedulers, UndoLock(s)
       PROVE  StartedReleases'
    BY <1>7 DEF UndoLock
  <1>8. ASSUME NEW s \in Schedulers, UndoClaim(s)
       PROVE  StartedReleases'
    BY <1>8, SMTT(60) DEF UndoClaim
  <1>9. ASSUME NEW s \in Schedulers, SchedulerDies(s)
       PROVE  StartedReleases'
    BY <1>9 DEF SchedulerDies
  <1>10. ASSUME NEW w \in Workers, Accept(w)
       PROVE  StartedReleases'
    BY <1>10 DEF Accept
  <1>11. ASSUME NEW w \in Workers, ClaimRow(w)
       PROVE  StartedReleases'
    BY <1>11 DEF ClaimRow
  <1>12. ASSUME NEW w \in Workers, IgnoreDuplicate(w)
       PROVE  StartedReleases'
    BY <1>12, SMTT(60) DEF IgnoreDuplicate
  <1>13. ASSUME NEW w \in Workers, StartBlind(w)
       PROVE  StartedReleases'
    BY <1>13 DEF StartBlind
  <1>14. ASSUME NEW w \in Workers, StartRedelivered(w)
       PROVE  StartedReleases'
    BY <1>14 DEF StartRedelivered
  <1>15. ASSUME NEW w \in Workers, Finish(w)
       PROVE  StartedReleases'
    BY <1>15 DEF Finish
  <1>16. ASSUME NEW w \in Workers, FreeSlot(w)
       PROVE  StartedReleases'
    BY <1>16, SMTT(60) DEF FreeSlot
  <1>17. ASSUME NEW w \in Workers, FreeLock(w)
       PROVE  StartedReleases'
    BY <1>17 DEF FreeLock
  <1>18. ASSUME NEW w \in Workers, WorkerDies(w)
       PROVE  StartedReleases'
    BY <1>18 DEF WorkerDies
  <1>19. ASSUME NEW w \in Workers, ChildDies(w)
       PROVE  StartedReleases'
    BY <1>19 DEF ChildDies
  <1>20. ASSUME NEW w \in Workers, Restart(w)
       PROVE  StartedReleases'
    BY <1>20 DEF Restart
  <1>21. ASSUME NEW i \in Ids, Expire(i)
       PROVE  StartedReleases'
    BY <1>21 DEF Expire
  <1>22. ASSUME NEW w \in Workers, InspectActive(w)
       PROVE  StartedReleases'
    BY <1>22, SMTT(60) DEF InspectActive
  <1>23. ASSUME NEW w \in Workers, InspectReserved(w)
       PROVE  StartedReleases'
    BY <1>23 DEF InspectReserved
  <1>24. ASSUME NEW w \in Workers, Query(w)
       PROVE  StartedReleases'
    BY <1>24 DEF Query
  <1>25. ASSUME NEW w \in Workers, NEW i \in Ids, MarkInterrupted(w, i)
       PROVE  StartedReleases'
    BY <1>25, SMTT(60) DEF MarkInterrupted
  <1>26. ASSUME NEW w \in Workers, DogFreesSlot(w)
       PROVE  StartedReleases'
    BY <1>26, SMTT(60) DEF DogFreesSlot
  <1>27. ASSUME NEW w \in Workers, DogFreesLock(w)
       PROVE  StartedReleases'
    BY <1>27, SMTT(60) DEF DogFreesLock
  <1>28. ASSUME NEW w \in Workers, WatchdogRaises(w)
       PROVE  StartedReleases'
    BY <1>28, SMTT(60) DEF WatchdogRaises
  <1> HIDE DEF IInv, Shape, TypeOK, SchedShape, WorkerShape, OneHolder,
               SchedSteps, WorkerSteps, BodySteps, RowStates, Holding,
               StartedReleases, Releases, Claiming, LateAck, Admitted,
               Unstarted, MapsLead, MapsFind, Binding, SlotFirst,
               BlankUntilPublished, Blank, Message, Early, Provenance,
               IsWatchdog, ClaimsRow, Forfeits
  <1> QED
    BY <1>1, <1>2, <1>3, <1>4, <1>5, <1>6, <1>7, <1>8, <1>9, <1>10, <1>11,
       <1>12, <1>13, <1>14, <1>15, <1>16, <1>17, <1>18, <1>19, <1>20, <1>21,
       <1>22, <1>23, <1>24, <1>25, <1>26, <1>27, <1>28
    DEF Next, SchedulerStep, WorkerStep, WatchdogStep, Tick, CheckDue,
        SkipLocked, NoSlotLeft, BindTaskIdToSlot, MapTaskToLock, Publish,
        PublishRaises, Stamp, StampRaises, Restamp, Prefetch, Restore, Age

-----------------------------------------------------------------------------
(* The theorems.                                                           *)

(* IInv holds initially and is kept by every step.                         *)
LEMMA InitIInv == Init => IInv
  <1> USE DEF Init, IInv, Shape, TypeOK, SchedShape, WorkerShape, OneHolder,
              SchedSteps, WorkerSteps, BodySteps, RowStates, Holding
  <1> SUFFICES ASSUME Init PROVE IInv
    OBVIOUS
  <1>1. Shape
    <2>1. now \in 1..MaxOccurrence /\ last \in [Jobs -> 0..MaxOccurrence]
      OBVIOUS
    <2>2. /\ lock \in [Jobs -> Ids \cup {None}]
          /\ slot \in [Slots -> Ids \cup {None}]
          /\ slotMap \in [Ids -> Slots \cup {None}]
      OBVIOUS
    <2>3. live \in [Workers -> SUBSET Ids] /\ todo \in [Workers -> SUBSET Ids]
      OBVIOUS
    <2>4. bodies \in [Ids -> Nat] /\ died \in BOOLEAN
      OBVIOUS
    <2>5. SchedShape /\ WorkerShape /\ OneHolder
      OBVIOUS
    <2> QED BY <2>1, <2>2, <2>3, <2>4, <2>5
  <1>2. BlankUntilPublished /\ Provenance /\ ClaimGrows /\ Forfeits
    BY DEF BlankUntilPublished, Blank, Message, Provenance, ClaimGrows, Early,
           Forfeits, Undoing
  <1>3. FenceHolds /\ ClaimKept
    BY DEF FenceHolds, ClaimKept, Admitted, Message, Owned, InBody
  <1>4. MapsLead /\ SlotFirst /\ NotOrphaned /\ StartedReleases
    BY DEF MapsLead, MapsFind, SlotFirst, NotOrphaned, StartedReleases, Claiming
  <1> QED BY <1>1, <1>2, <1>3, <1>4

THEOREM Inductive == Spec => []IInv
  <1>1. IInv /\ [Next]_vars => IInv'
    BY ShapeStep, BlankStep, ProvenanceStep, ClaimGrowsStep, ForfeitsStep,
       FenceStep, ClaimKeptStep, MapsLeadStep, SlotFirstStep, NotOrphanedStep,
       StartedReleasesStep DEF IInv
  <1> QED BY InitIInv, <1>1, PTL DEF Spec

(* Every variable keeps its type: no step dereferences an attempt, a slot  *)
(* or a candidate that is not there.                                       *)
THEOREM TypeCorrect == Spec => []TypeOK
  <1>1. IInv => TypeOK
    BY DEF IInv, Shape
  <1> QED BY Inductive, <1>1, PTL

(* RunOwnsClaim: a body runs with its lock, its slot and both maps intact  *)
(* unless its claim was forfeited (_try_enqueue, before_start,             *)
(* after_return and the watchdog together), for any number of processes,   *)
(* deliveries and failures.                                                *)
THEOREM RunsOwnTheirClaims == Spec => []RunOwnsClaim
  <1>1. IInv => RunOwnsClaim
    BY DEF IInv, ClaimKept, RunOwnsClaim, HoldsSlot, HoldsLock
  <1> QED BY Inductive, <1>1, PTL

(* OneOwnedRunPerJob: the owned claims of two workers are of two jobs.     *)
THEOREM OwnedRunsExclude == Spec => []OneOwnedRunPerJob
  <1>1. ASSUME IInv PROVE OneOwnedRunPerJob
    <2> SUFFICES ASSUME NEW v \in Workers, NEW w \in Workers,
                        v # w, Owned(v), Owned(w)
                 PROVE  job[exec[v]] # job[exec[w]]
      BY DEF OneOwnedRunPerJob
    <2>1. HoldsLock(exec[v]) /\ HoldsLock(exec[w])
      BY <1>1 DEF IInv, ClaimKept
    <2>2. exec[v] # exec[w]
      BY <1>1 DEF IInv, FenceHolds, Owned, InBody, Admitted
    <2> QED BY <2>1, <2>2 DEF HoldsLock
  <1> QED BY Inductive, <1>1, PTL

(* PoolCap: the owned runs map one to one into the slots of the pool.      *)
THEOREM PoolIsCapped == Spec => []PoolCap
  <1>1. ASSUME IInv PROVE PoolCap
    <2> DEFINE R == {exec[w] : w \in {v \in Workers : Owned(v)}}
               f == [i \in R |-> slotMap[i]]
    <2>1. \A i \in R : HoldsSlot(i)
      BY <1>1 DEF IInv, ClaimKept
    <2>2. f \in Injection(R, Slots)
      BY <2>1 DEF HoldsSlot, Injection, IsInjective
    <2>3. IsFiniteSet(Slots) /\ Cardinality(Slots) = MaxRunningTasks
      BY FS_Interval, ConstantsAssumption DEF Slots
    <2>4. Cardinality(R) <= Cardinality(Slots)
      BY <2>2, <2>3, FS_Injection
    <2> QED BY <2>3, <2>4 DEF PoolCap
  <1> QED BY Inductive, <1>1, PTL

(* FencedOnce: TaskRunRepository.try_start admits one delivery.            *)
THEOREM FenceAdmitsOnce == Spec => []FencedOnce
  <1>1. IInv => FencedOnce
    BY DEF IInv, FenceHolds, FencedOnce
  <1> QED BY Inductive, <1>1, PTL

(* ClaimAccounted: without a death no lock and no slot is orphaned.        *)
THEOREM ClaimsAreAccounted == Spec => []ClaimAccounted
  <1>1. IInv => ClaimAccounted
    BY DEF IInv, NotOrphaned, ClaimAccounted, Accounted, Dispatching,
           Published, Message
  <1> QED BY Inductive, <1>1, PTL

(* RowNeverRequeued: rows move forward whatever order the enqueue-time     *)
(* insert, the fence and the watchdog write in.                            *)
THEOREM RowsMoveForward == Spec => RowNeverRequeued
  <1> DEFINE Forward(i) ==
        /\ row[i] \notin Unstarted => row'[i] \notin Unstarted
        /\ row[i] \in {"success", "failed", "interrupted"} /\ ~LateAck(i)
              => row'[i] # "running"
  <1>1. ASSUME IInv, [Next]_vars, NEW i \in Ids PROVE Forward(i)
    <2> USE DEF IInv, Shape, TypeOK, Unstarted, RowStates
    <2>1. CASE UNCHANGED row
      BY <2>1
    <2>2. ASSUME NEW s \in Schedulers, InsertRow(s) PROVE Forward(i)
      BY <1>1, <2>2 DEF InsertRow
    <2>3. ASSUME NEW w \in Workers, ClaimRow(w) PROVE Forward(i)
      BY <1>1, <2>3 DEF ClaimRow, ClaimsRow
    <2>4. ASSUME NEW w \in Workers, StartRedelivered(w) PROVE Forward(i)
      BY <1>1, <2>4 DEF StartRedelivered
    <2>5. ASSUME NEW w \in Workers, Finish(w) PROVE Forward(i)
      BY <1>1, <2>5 DEF Finish
    <2>6. ASSUME NEW w \in Workers, NEW e \in Ids, MarkInterrupted(w, e)
          PROVE  Forward(i)
      BY <1>1, <2>6 DEF MarkInterrupted
    <2>7. ASSUME NEW w \in Workers, WatchdogRaises(w) PROVE Forward(i)
      BY <1>1, <2>7 DEF WatchdogRaises
    <2> HIDE DEF IInv, Shape, TypeOK, Unstarted, RowStates, Forward
    <2> QED
      BY <1>1, <2>1, <2>2, <2>3, <2>4, <2>5, <2>6, <2>7
      DEF Next, SchedulerStep, WorkerStep, WatchdogStep,
          Tick, CheckDue, TryLockTask, SkipLocked, ReserveTaskSlot, NoSlotLeft,
          UnlockSkipped, BindTaskIdToSlot, MapTaskToLock, Publish,
          PublishRaises, Stamp, StampRaises, Restamp, UndoSlot,
          UndoLock, UndoClaim, SchedulerDies, Prefetch, Accept,
          IgnoreDuplicate, StartBlind, FreeSlot, FreeLock, WorkerDies,
          ChildDies, Restart, Restore, Expire, Age, InspectActive,
          InspectReserved, Query, DogFreesSlot, DogFreesLock
  <1>2. IInv /\ [Next]_vars => [\A i \in Ids : Forward(i)]_vars
    BY <1>1
  <1> QED BY Inductive, <1>2, PTL DEF Spec, RowNeverRequeued

(* ReleaseOnlyOwn: every release compares the token, so a late one cannot  *)
(* free the claim of the attempt that came next.                           *)
THEOREM ReleasesAreOwn == Spec => ReleaseOnlyOwn
  <1> DEFINE Own ==
        /\ \A j \in Jobs : lock[j] # None /\ lock'[j] # lock[j]
              => lock'[j] = None /\ Releasing(lock[j])
        /\ \A k \in Slots : slot[k] # None /\ slot'[k] # slot[k]
              => slot'[k] = None /\ Releasing(slot[k])
  <1>1. ASSUME IInv, [Next]_vars PROVE Own
    <2> USE DEF IInv, Shape, TypeOK, SchedShape, WorkerShape, Holding,
                Releasing
    <2>1. CASE UNCHANGED <<lock, slot>>
      BY <2>1
    <2>2. ASSUME NEW s \in Schedulers, TryLockTask(s) PROVE Own
      BY <2>2 DEF TryLockTask, Unlocked
    <2>3. ASSUME NEW s \in Schedulers, ReserveTaskSlot(s) PROVE Own
      BY <2>3 DEF ReserveTaskSlot, FreeSlots
    <2>4. ASSUME NEW s \in Schedulers, UnlockSkipped(s) PROVE Own
      BY <2>4 DEF UnlockSkipped
    <2>5. ASSUME NEW s \in Schedulers, UndoSlot(s) PROVE Own
      BY <2>5 DEF UndoSlot
    <2>6. ASSUME NEW s \in Schedulers, UndoLock(s) PROVE Own
      BY <2>6 DEF UndoLock
    <2>7. ASSUME NEW s \in Schedulers, UndoClaim(s) PROVE Own
      BY <2>7 DEF UndoClaim
    <2>8. ASSUME NEW w \in Workers, FreeSlot(w) PROVE Own
      BY <2>8 DEF FreeSlot
    <2>9. ASSUME NEW w \in Workers, FreeLock(w) PROVE Own
      BY <2>9 DEF FreeLock
    <2>10. ASSUME NEW w \in Workers, DogFreesSlot(w) PROVE Own
      BY <2>10 DEF DogFreesSlot
    <2>11. ASSUME NEW w \in Workers, DogFreesLock(w) PROVE Own
      BY <2>11 DEF DogFreesLock
    <2>12. ASSUME NEW i \in Ids, Expire(i) PROVE Own
      BY <2>12 DEF Expire
    <2> HIDE DEF IInv, Shape, TypeOK, WorkerShape, SchedShape, Holding,
                 Releasing, Own
    <2> QED
      BY <1>1, <2>1, <2>2, <2>3, <2>4, <2>5, <2>6, <2>7, <2>8, <2>9, <2>10,
         <2>11, <2>12
      DEF Next, SchedulerStep, WorkerStep, WatchdogStep,
          Tick, CheckDue, SkipLocked, NoSlotLeft, BindTaskIdToSlot,
          MapTaskToLock, Publish, PublishRaises, InsertRow, Stamp,
          StampRaises, Restamp, SchedulerDies, Prefetch, Accept,
          ClaimRow, IgnoreDuplicate, StartBlind, StartRedelivered,
          Finish, WorkerDies, ChildDies, Restart, Restore, Age,
          InspectActive, InspectReserved, Query, MarkInterrupted,
          WatchdogRaises
  <1>2. IInv /\ [Next]_vars => [Own]_vars
    BY <1>1
  <1> QED BY Inductive, <1>2, PTL DEF Spec, ReleaseOnlyOwn

=============================================================================
