---------------------------- MODULE TaskDispatch ----------------------------
(***************************************************************************)
(* Dispatch of the scheduled jobs: every API process runs an APScheduler   *)
(* that fires the same jobs (job_scheduler.py), claims a per-job lock and  *)
(* one slot of a global pool in Redis (task_concurrency.py), and publishes *)
(* a Celery message.  Workers fence the delivery with the task_run row     *)
(* (task_decorator.py, task_run_repository.py), run the body and give the  *)
(* claim back.  One of the jobs is itself the watchdog that interrupts     *)
(* abandoned runs (task_watchdog_analysis.py, celery_liveness.py).         *)
(*                                                                         *)
(* One attempt i \in Ids stands for the three fresh uuids of one pass of   *)
(* _try_enqueue: lock token, slot token and task id.  Each action is one   *)
(* Redis, broker or database operation, so that every interleaving of API  *)
(* processes, workers and watchdogs is explored.                           *)
(***************************************************************************)
EXTENDS Integers, FiniteSets

CONSTANTS
    Jobs,             \* job keys: "scheduler:inflight:<task>:<tracking key>"
    RedeliverJobs,    \* jobs with redeliver=True (acks_late, no fence)
    WatchdogJob,      \* detect_abandoned_task_runs, possibly not scheduled
    Ids,              \* task ids (claim attempts)
    Schedulers,       \* API processes
    Workers,          \* Celery worker nodes, one pool process each
    MaxRunningTasks,  \* settings.max_running_tasks
    MaxOccurrence,    \* bound on the clock: latest cron occurrence
    MaxBodies,        \* bound on the deliveries of one message
    Forced,           \* whether jobs are also run by hand with force=True
    Faults,           \* which of the failures below may happen
    MaxFaults,        \* bound on how many of them do
    None

FaultKinds ==
    { "publish",    \* apply_async raises, the message may or may not be stored
      "stamp",      \* set_last_enqueued_at raises after the publication
      "scheduler",  \* an API process dies, or Redis fails it between two steps
      "worker",     \* a worker node dies and is restarted
      "db",         \* a task_run read or write fails
      "inspect",    \* a worker does not answer a Celery inspect broadcast
      "restore",    \* the visibility timeout puts an unacked message back
      "expiry" }    \* the TTL of a claim's Redis keys passes

ASSUME ConstantsAssumption ==
    /\ MaxRunningTasks \in Nat
    /\ MaxOccurrence \in Nat \ {0}
    /\ MaxBodies \in Nat
    /\ RedeliverJobs \subseteq Jobs
    /\ Forced \in BOOLEAN
    /\ Faults \subseteq FaultKinds
    /\ MaxFaults \in Nat
    /\ None \notin Jobs \cup Ids \cup Schedulers \cup Workers \cup Int

Slots == 1..MaxRunningTasks    \* "scheduler:global-slot:<index>"

VARIABLES
    now, last,                  \* latest occurrence; last_enqueued_at per job
    faults,                     \* failures so far
    lock, slot,                 \* Redis: owner token of each job lock and slot
    slotMap, lockMap,           \* Redis: scheduler:task-slot, task-lock maps
    queue, unacked,             \* broker: waiting, delivered-unacknowledged
    row, aged,                  \* task_run status; created before the cutoff
    spc, sjob, sid,             \* API process: step, job, attempt
    wpc, reserved, exec,        \* worker: step, prefetched, running message
    live, todo, target,         \* a watchdog body: snapshot, candidates, row
    job, forfeited, blind,      \* history: see below
    bodies, died

envVars == <<faults, now, last>>
redisVars == <<lock, slot, slotMap, lockMap>>
brokerVars == <<queue, unacked>>
rowVars == <<row, aged>>
schedVars == <<spc, sjob, sid>>
workerVars == <<wpc, reserved, exec>>
dogVars == <<live, todo, target>>
historyVars == <<job, forfeited, blind, bodies, died>>
vars == <<envVars, redisVars, brokerVars, rowVars, schedVars, workerVars,
          dogVars, historyVars>>

(***************************************************************************)
(* History variables: job[i] is the job attempt i claimed; forfeited holds *)
(* the attempts whose claim was taken away by something other than their   *)
(* own worker (a failed dispatch, the watchdog, the TTL); blind those that *)
(* started although the fence could not be read; bodies[i] counts starts;  *)
(* died says that some process has died.                                   *)
(***************************************************************************)

RowStates == {"none", "queued", "running", "success", "failed", "interrupted"}
Unstarted == {"none", "queued"}

SchedSteps ==
    {"idle", "lock", "slot", "unlock", "bind_slot", "bind_lock", "publish",
     "insert", "stamp", "restamp", "undo_slot", "undo_lock", "undo_claim"}
WorkerSteps ==
    {"down", "idle", "start", "body", "reserved", "silent", "query", "scan",
     "dog_slot", "dog_lock", "free_slot", "free_lock"}
BodySteps ==
    {"body", "reserved", "silent", "query", "scan", "dog_slot", "dog_lock"}

TypeOK ==
    /\ now \in 1..MaxOccurrence
    /\ faults \in Nat
    /\ last \in [Jobs -> 0..MaxOccurrence]
    /\ lock \in [Jobs -> Ids \cup {None}]
    /\ slot \in [Slots -> Ids \cup {None}]
    /\ slotMap \in [Ids -> Slots \cup {None}]
    /\ lockMap \in [Ids -> Jobs \cup {None}]
    /\ queue \subseteq Ids /\ unacked \subseteq Ids
    /\ row \in [Ids -> RowStates] /\ aged \subseteq Ids
    /\ spc \in [Schedulers -> SchedSteps]
    /\ sjob \in [Schedulers -> Jobs \cup {None}]
    /\ sid \in [Schedulers -> Ids \cup {None}]
    /\ wpc \in [Workers -> WorkerSteps]
    /\ reserved \in [Workers -> Ids \cup {None}]
    /\ exec \in [Workers -> Ids \cup {None}]
    /\ live \in [Workers -> SUBSET Ids]
    /\ todo \in [Workers -> SUBSET Ids]
    /\ target \in [Workers -> Ids \cup {None}]
    /\ job \in [Ids -> Jobs \cup {None}]
    /\ forfeited \subseteq Ids /\ blind \subseteq Ids
    /\ bodies \in [Ids -> Nat]
    /\ died \in BOOLEAN

Init ==
    /\ faults = 0 /\ now = 1 /\ last = [j \in Jobs |-> 0]
    /\ lock = [j \in Jobs |-> None] /\ slot = [k \in Slots |-> None]
    /\ slotMap = [i \in Ids |-> None] /\ lockMap = [i \in Ids |-> None]
    /\ queue = {} /\ unacked = {}
    /\ row = [i \in Ids |-> "none"] /\ aged = {}
    /\ spc = [s \in Schedulers |-> "idle"]
    /\ sjob = [s \in Schedulers |-> None] /\ sid = [s \in Schedulers |-> None]
    /\ wpc = [w \in Workers |-> "idle"]
    /\ reserved = [w \in Workers |-> None] /\ exec = [w \in Workers |-> None]
    /\ live = [w \in Workers |-> {}] /\ todo = [w \in Workers |-> {}]
    /\ target = [w \in Workers |-> None]
    /\ job = [i \in Ids |-> None] /\ forfeited = {} /\ blind = {}
    /\ bodies = [i \in Ids |-> 0] /\ died = FALSE

-----------------------------------------------------------------------------
(* Releasing a claim by task id: GET the map, delete the resource if it    *)
(* still holds our token, DEL the map.                                     *)

Claiming(i) == (\E j \in Jobs : lock[j] = i) \/ (\E k \in Slots : slot[k] = i)

(* Mutants: plain DEL instead of redis_delete_if_value_matches. *)
DeleteSlot(i) ==
    /\ slot' = [k \in Slots |-> IF k = slotMap[i] THEN None ELSE slot[k]]
    /\ slotMap' = [slotMap EXCEPT ![i] = None]

DeleteLock(i) ==
    /\ lock' = [j \in Jobs |-> IF j = lockMap[i] THEN None ELSE lock[j]]
    /\ lockMap' = [lockMap EXCEPT ![i] = None]

ReleaseSlot(i) ==
    /\ slot' = [k \in Slots |->
                    IF k = slotMap[i] /\ slot[k] = i THEN None ELSE slot[k]]
    /\ slotMap' = [slotMap EXCEPT ![i] = None]

ReleaseLock(i) ==
    /\ lock' = [j \in Jobs |->
                    IF j = lockMap[i] /\ lock[j] = i THEN None ELSE lock[j]]
    /\ lockMap' = [lockMap EXCEPT ![i] = None]

-----------------------------------------------------------------------------
(* Failures are steps of their own or outcomes of a step; MaxFaults of them. *)

Fault(kind) ==
    /\ kind \in Faults
    /\ faults < MaxFaults
    /\ faults' = faults + 1

NoFault == UNCHANGED faults

-----------------------------------------------------------------------------
(* API processes.                                                          *)

Tick ==
    /\ now < MaxOccurrence
    /\ now' = now + 1
    /\ UNCHANGED <<faults, last, redisVars, brokerVars, rowVars, schedVars,
                   workerVars, dogVars, historyVars>>

Goto(s, step) == spc' = [spc EXCEPT ![s] = step]

Due(j) == last[j] < now

(* run_if_due_*: the due check is made here and not repeated under the lock. *)
CheckDue(s, j) ==
    /\ spc[s] = "idle"
    /\ Due(j) \/ Forced
    /\ Goto(s, "lock")
    /\ sjob' = [sjob EXCEPT ![s] = j]
    /\ UNCHANGED <<envVars, redisVars, brokerVars, rowVars, sid, workerVars,
                   dogVars, historyVars>>

(* Mutants: SET without NX, on the lock and on the slots. *)
LockAnyway(j) == TRUE
AnySlot == Slots

(* SET NX on the job's lock key. *)
Unlocked(j) == lock[j] = None

TryLockTask(s) ==
    /\ spc[s] = "lock"
    /\ Unlocked(sjob[s])
    /\ \E i \in Ids :
          /\ job[i] = None
          /\ lock' = [lock EXCEPT ![sjob[s]] = i]
          /\ sid' = [sid EXCEPT ![s] = i]
          /\ job' = [job EXCEPT ![i] = sjob[s]]
    /\ Goto(s, "slot")
    /\ UNCHANGED <<envVars, slot, slotMap, lockMap, brokerVars, rowVars, sjob,
                   workerVars, dogVars, forfeited, blind, bodies, died>>

SkipLocked(s) ==
    /\ spc[s] = "lock"
    /\ ~Unlocked(sjob[s])
    /\ Goto(s, "idle")
    /\ sjob' = [sjob EXCEPT ![s] = None]
    /\ UNCHANGED <<envVars, redisVars, brokerVars, rowVars, sid, workerVars,
                   dogVars, historyVars>>

FreeSlots == {k \in Slots : slot[k] = None}

ReserveTaskSlot(s) ==
    /\ spc[s] = "slot"
    /\ \E k \in FreeSlots :
          /\ \A m \in FreeSlots : k <= m
          /\ slot' = [slot EXCEPT ![k] = sid[s]]
    /\ Goto(s, "bind_slot")
    /\ UNCHANGED <<envVars, lock, slotMap, lockMap, brokerVars, rowVars, sjob,
                   sid, workerVars, dogVars, historyVars>>

NoSlotLeft(s) ==
    /\ spc[s] = "slot"
    /\ FreeSlots = {}
    /\ Goto(s, "unlock")
    /\ UNCHANGED <<envVars, redisVars, brokerVars, rowVars, sjob, sid,
                   workerVars, dogVars, historyVars>>

(* The attempt never got a task id: its token is forgotten. *)
UnlockSkipped(s) ==
    /\ spc[s] = "unlock"
    /\ lock' = [lock EXCEPT ![sjob[s]] = IF @ = sid[s] THEN None ELSE @]
    /\ job' = [job EXCEPT ![sid[s]] = None]
    /\ Goto(s, "idle")
    /\ sjob' = [sjob EXCEPT ![s] = None] /\ sid' = [sid EXCEPT ![s] = None]
    /\ UNCHANGED <<envVars, slot, slotMap, lockMap, brokerVars, rowVars,
                   workerVars, dogVars, forfeited, blind, bodies, died>>

(* Mutant: the owner token stored where the slot key belongs. *)
BindTaskIdToToken(s) ==
    /\ spc[s] = "bind_slot"
    /\ slotMap' = [slotMap EXCEPT ![sid[s]] = sid[s]]
    /\ Goto(s, "bind_lock")
    /\ UNCHANGED <<envVars, lock, slot, lockMap, brokerVars, rowVars, sjob,
                   sid, workerVars, dogVars, historyVars>>

BindTaskIdToSlot(s) ==
    /\ spc[s] = "bind_slot"
    /\ \E k \in Slots :
          /\ slot[k] = sid[s]
          /\ slotMap' = [slotMap EXCEPT ![sid[s]] = k]
    /\ Goto(s, "bind_lock")
    /\ UNCHANGED <<envVars, lock, slot, lockMap, brokerVars, rowVars, sjob,
                   sid, workerVars, dogVars, historyVars>>

MapTaskToLock(s) ==
    /\ spc[s] = "bind_lock"
    /\ lockMap' = [lockMap EXCEPT ![sid[s]] = sjob[s]]
    /\ Goto(s, "publish")
    /\ UNCHANGED <<envVars, lock, slot, slotMap, brokerVars, rowVars, sjob,
                   sid, workerVars, dogVars, historyVars>>

Publish(s) ==
    /\ spc[s] = "publish"
    /\ queue' = queue \cup {sid[s]}
    /\ Goto(s, "insert")
    /\ UNCHANGED <<envVars, redisVars, unacked, rowVars, sjob, sid,
                   workerVars, dogVars, historyVars>>

(* Mutant: the failed publication is not rolled back. *)
PublishSwallowed(s) ==
    /\ Fault("publish")
    /\ spc[s] = "publish"
    /\ queue' \in {queue, queue \cup {sid[s]}}
    /\ Goto(s, "idle")
    /\ sjob' = [sjob EXCEPT ![s] = None] /\ sid' = [sid EXCEPT ![s] = None]
    /\ UNCHANGED <<now, last, redisVars, unacked, rowVars, workerVars, dogVars,
                   historyVars>>

(* The broker call raised: the message was stored, or it was not. *)
PublishRaises(s) ==
    /\ Fault("publish")
    /\ spc[s] = "publish"
    /\ queue' \in {queue, queue \cup {sid[s]}}
    /\ forfeited' = forfeited \cup {sid[s]}
    /\ Goto(s, "undo_slot")
    /\ UNCHANGED <<now, last, redisVars, unacked, rowVars, sjob, sid,
                   workerVars, dogVars, job, blind, bodies, died>>

(* Mutant: ON CONFLICT DO UPDATE SET status. *)
UpsertTaskRun(i) ==
    \/ NoFault /\ row' = [row EXCEPT ![i] = "queued"]
    \/ Fault("db") /\ UNCHANGED row

(* on_task_enqueued: ON CONFLICT DO NOTHING, and its errors are swallowed. *)
CreateTaskRun(i) ==
    \/ NoFault /\ row' = [row EXCEPT ![i] = IF @ = "none" THEN "queued" ELSE @]
    \/ Fault("db") /\ UNCHANGED row

InsertRow(s) ==
    /\ spc[s] = "insert"
    /\ CreateTaskRun(sid[s])
    /\ Goto(s, "stamp")
    /\ UNCHANGED <<now, last, redisVars, brokerVars, aged, sjob, sid,
                   workerVars, dogVars, historyVars>>

(* apply_async stamps the task after publishing it ... *)
Stamp(s) ==
    /\ spc[s] = "stamp"
    /\ last' = [last EXCEPT ![sjob[s]] = now]
    /\ Goto(s, "restamp")
    /\ UNCHANGED <<faults, now, redisVars, brokerVars, rowVars, sjob, sid,
                   workerVars, dogVars, historyVars>>

(* ... and when that raises, _try_enqueue takes the claim back although    *)
(* the message is live.                                                    *)
StampRaises(s) ==
    /\ Fault("stamp")
    /\ spc[s] = "stamp"
    /\ forfeited' = forfeited \cup {sid[s]}
    /\ Goto(s, "undo_slot")
    /\ UNCHANGED <<now, last, redisVars, brokerVars, rowVars, sjob, sid,
                   workerVars, dogVars, job, blind, bodies, died>>

(* _try_enqueue stamps once more; an error here leaves the claim alone. *)
Restamp(s) ==
    /\ spc[s] = "restamp"
    /\ \/ NoFault /\ last' = [last EXCEPT ![sjob[s]] = now]
       \/ Fault("stamp") /\ UNCHANGED last
    /\ Goto(s, "idle")
    /\ sjob' = [sjob EXCEPT ![s] = None] /\ sid' = [sid EXCEPT ![s] = None]
    /\ UNCHANGED <<now, redisVars, brokerVars, rowVars, workerVars, dogVars,
                   historyVars>>

UndoSlot(s) ==
    /\ spc[s] = "undo_slot"
    /\ ReleaseSlot(sid[s])
    /\ Goto(s, "undo_lock")
    /\ UNCHANGED <<envVars, lock, lockMap, brokerVars, rowVars, sjob, sid,
                   workerVars, dogVars, historyVars>>

UndoLock(s) ==
    /\ spc[s] = "undo_lock"
    /\ ReleaseLock(sid[s])
    /\ Goto(s, "undo_claim")
    /\ UNCHANGED <<envVars, slot, slotMap, brokerVars, rowVars, sjob, sid,
                   workerVars, dogVars, historyVars>>

(* _release_claimed_resources: both keys again, by the tokens at hand. *)
UndoClaim(s) ==
    /\ spc[s] = "undo_claim"
    /\ slot' = [k \in Slots |-> IF slot[k] = sid[s] THEN None ELSE slot[k]]
    /\ lock' = [lock EXCEPT ![sjob[s]] = IF @ = sid[s] THEN None ELSE @]
    /\ Goto(s, "idle")
    /\ sjob' = [sjob EXCEPT ![s] = None] /\ sid' = [sid EXCEPT ![s] = None]
    /\ UNCHANGED <<envVars, slotMap, lockMap, brokerVars, rowVars, workerVars,
                   dogVars, historyVars>>

(* The process dies, or a Redis call outside the try block raises. *)
SchedulerDies(s) ==
    /\ Fault("scheduler")
    /\ spc[s] # "idle"
    /\ Goto(s, "idle")
    /\ sjob' = [sjob EXCEPT ![s] = None] /\ sid' = [sid EXCEPT ![s] = None]
    /\ died' = TRUE
    /\ UNCHANGED <<now, last, redisVars, brokerVars, rowVars, workerVars,
                   dogVars, job, forfeited, blind, bodies>>

SchedulerStep(s) ==
    \/ TryLockTask(s) \/ SkipLocked(s) \/ ReserveTaskSlot(s) \/ NoSlotLeft(s)
    \/ UnlockSkipped(s) \/ BindTaskIdToSlot(s) \/ MapTaskToLock(s)
    \/ Publish(s) \/ PublishRaises(s) \/ InsertRow(s) \/ Stamp(s)
    \/ StampRaises(s) \/ Restamp(s) \/ UndoSlot(s) \/ UndoLock(s)
    \/ UndoClaim(s)
-----------------------------------------------------------------------------
(* Broker and workers.  The broker list is read as a set: several nodes    *)
(* take from it, so no order of starts is promised.                        *)

LateAck(i) == job[i] \in RedeliverJobs
Held(w) == {reserved[w], exec[w]} \ {None}

(* Prefetch multiplier 1: at most one delivered message that is not acked. *)
Prefetch(w, i) ==
    /\ wpc[w] # "down"
    /\ reserved[w] = None
    /\ \A e \in Held(w) : ~LateAck(e)
    /\ i \in queue
    /\ queue' = queue \ {i}
    /\ unacked' = unacked \cup {i}
    /\ reserved' = [reserved EXCEPT ![w] = i]
    /\ UNCHANGED <<envVars, redisVars, rowVars, schedVars, wpc, exec, dogVars,
                   historyVars>>

Enter(w, step) == wpc' = [wpc EXCEPT ![w] = step]

(* Unless acks_late, the message is acknowledged before the task starts. *)
Accept(w) ==
    /\ wpc[w] = "idle"
    /\ reserved[w] # None
    /\ exec' = [exec EXCEPT ![w] = reserved[w]]
    /\ reserved' = [reserved EXCEPT ![w] = None]
    /\ unacked' = IF LateAck(reserved[w]) THEN unacked
                                          ELSE unacked \ {reserved[w]}
    /\ Enter(w, "start")
    /\ UNCHANGED <<envVars, redisVars, queue, rowVars, schedVars, dogVars,
                   historyVars>>

(* The body starts; MaxBodies bounds how often one message is run. *)
BeginBody(w) ==
    /\ bodies[exec[w]] < MaxBodies
    /\ bodies' = [bodies EXCEPT ![exec[w]] = @ + 1]
    /\ Enter(w, "body")

(* Mutant: the upsert without its WHERE. *)
ClaimsAnyRow(i) == TRUE

(* try_start: INSERT ... ON CONFLICT DO UPDATE WHERE status = QUEUED. *)
ClaimsRow(i) == row[i] \in Unstarted

ClaimRow(w) ==
    /\ wpc[w] = "start" /\ ~LateAck(exec[w])
    /\ ClaimsRow(exec[w])
    /\ row' = [row EXCEPT ![exec[w]] = "running"]
    /\ BeginBody(w)
    /\ UNCHANGED <<envVars, redisVars, brokerVars, aged, schedVars, reserved,
                   exec, dogVars, job, forfeited, blind, died>>

(* before_start raises Ignore: no on_success, no after_return. *)
IgnoreDuplicate(w) ==
    /\ wpc[w] = "start" /\ ~LateAck(exec[w])
    /\ ~ClaimsRow(exec[w])
    /\ exec' = [exec EXCEPT ![w] = None]
    /\ Enter(w, "idle")
    /\ UNCHANGED <<envVars, redisVars, brokerVars, rowVars, schedVars,
                   reserved, dogVars, historyVars>>

(* The fence cannot be read: try_start answers True and the row stays. *)
StartBlind(w) ==
    /\ Fault("db")
    /\ wpc[w] = "start" /\ ~LateAck(exec[w])
    /\ blind' = blind \cup {exec[w]}
    /\ BeginBody(w)
    /\ UNCHANGED <<now, last, redisVars, brokerVars, rowVars, schedVars,
                   reserved, exec, dogVars, job, forfeited, died>>

(* mark_running, mark_success, ... write whatever the row held. *)
MarkRow(i, status) ==
    \/ NoFault /\ row' = [row EXCEPT ![i] = IF @ = "none" THEN @ ELSE status]
    \/ Fault("db") /\ UNCHANGED row

StartRedelivered(w) ==
    /\ wpc[w] = "start" /\ LateAck(exec[w])
    /\ MarkRow(exec[w], "running")
    /\ BeginBody(w)
    /\ UNCHANGED <<now, last, redisVars, brokerVars, aged, schedVars, reserved,
                   exec, dogVars, job, forfeited, blind, died>>

IsWatchdog(w) == job[exec[w]] = WatchdogJob

(* Mutant: a failed task skips after_return. *)
FinishForGood(w) ==
    /\ \/ wpc[w] = "body" /\ ~IsWatchdog(w)
       \/ wpc[w] = "scan" /\ todo[w] = {}
    /\ MarkRow(exec[w], "failed")
    /\ live' = [live EXCEPT ![w] = {}]
    /\ exec' = [exec EXCEPT ![w] = None]
    /\ Enter(w, "idle")
    /\ UNCHANGED <<now, last, redisVars, brokerVars, aged, schedVars, reserved,
                   todo, target, historyVars>>

(* on_success or on_failure, once the body has returned or raised. *)
Finish(w) ==
    /\ \/ wpc[w] = "body" /\ ~IsWatchdog(w)
       \/ wpc[w] = "scan" /\ todo[w] = {}
    /\ \E status \in {"success", "failed"} : MarkRow(exec[w], status)
    /\ live' = [live EXCEPT ![w] = {}]
    /\ Enter(w, "free_slot")
    /\ UNCHANGED <<now, last, redisVars, brokerVars, aged, schedVars, reserved,
                   exec, todo, target, historyVars>>

(* after_return *)
FreeSlot(w) ==
    /\ wpc[w] = "free_slot"
    /\ ReleaseSlot(exec[w])
    /\ Enter(w, "free_lock")
    /\ UNCHANGED <<envVars, lock, lockMap, brokerVars, rowVars, schedVars,
                   reserved, exec, dogVars, historyVars>>

FreeLock(w) ==
    /\ wpc[w] = "free_lock"
    /\ ReleaseLock(exec[w])
    /\ unacked' = IF LateAck(exec[w]) THEN unacked \ {exec[w]} ELSE unacked
    /\ exec' = [exec EXCEPT ![w] = None]
    /\ Enter(w, "idle")
    /\ UNCHANGED <<envVars, slot, slotMap, queue, rowVars, schedVars,
                   reserved, dogVars, historyVars>>

ForgetWatch(w) ==
    /\ live' = [live EXCEPT ![w] = {}]
    /\ todo' = [todo EXCEPT ![w] = {}]
    /\ target' = [target EXCEPT ![w] = None]

(* The node dies with everything it held; celery_watchdog_loop or the      *)
(* container runtime starts it again.                                      *)
WorkerDies(w) ==
    /\ Fault("worker")
    /\ wpc[w] # "down"
    /\ Enter(w, "down")
    /\ exec' = [exec EXCEPT ![w] = None]
    /\ reserved' = [reserved EXCEPT ![w] = None]
    /\ ForgetWatch(w)
    /\ died' = TRUE
    /\ UNCHANGED <<now, last, redisVars, brokerVars, rowVars, schedVars,
                   job, forfeited, blind, bodies>>

Restart(w) ==
    /\ wpc[w] = "down"
    /\ Enter(w, "idle")
    /\ UNCHANGED <<envVars, redisVars, brokerVars, rowVars, schedVars,
                   reserved, exec, dogVars, historyVars>>

(* The pool process is killed (WorkerLostError), or Redis fails it in      *)
(* after_return: the node acknowledges the message and runs no handler.    *)
ChildDies(w) ==
    /\ Fault("worker")
    /\ wpc[w] \notin {"down", "idle"}
    /\ unacked' = IF LateAck(exec[w]) THEN unacked \ {exec[w]} ELSE unacked
    /\ exec' = [exec EXCEPT ![w] = None]
    /\ Enter(w, "idle")
    /\ ForgetWatch(w)
    /\ died' = TRUE
    /\ UNCHANGED <<now, last, redisVars, queue, rowVars, schedVars, reserved,
                   job, forfeited, blind, bodies>>

(* visibility_timeout: an unacknowledged message is delivered again. *)
Restore(i) ==
    /\ Fault("restore")
    /\ i \in unacked
    /\ queue' = queue \cup {i}
    /\ unacked' = unacked \ {i}
    /\ UNCHANGED <<now, last, redisVars, rowVars, schedVars, workerVars,
                   dogVars, historyVars>>

(* The keys of a claim are written in the order lock, slot, slot map, lock *)
(* map, each with TASK_LOCK_TTL_SECONDS, and nothing renews them: the      *)
(* oldest m of them are gone.                                              *)
Expire(i) ==
    /\ Fault("expiry")
    /\ \A s \in Schedulers : sid[s] # i
    /\ Claiming(i)
    /\ \E m \in 1..4 :
          /\ lock' = [j \in Jobs |-> IF lock[j] = i THEN None ELSE lock[j]]
          /\ slot' = [k \in Slots |->
                         IF m >= 2 /\ slot[k] = i THEN None ELSE slot[k]]
          /\ slotMap' = [slotMap EXCEPT ![i] = IF m >= 3 THEN None ELSE @]
          /\ lockMap' = [lockMap EXCEPT ![i] = IF m = 4 THEN None ELSE @]
    /\ forfeited' = forfeited \cup {i}
    /\ UNCHANGED <<now, last, brokerVars, rowVars, schedVars, workerVars,
                   dogVars, job, blind, bodies, died>>

-----------------------------------------------------------------------------
(* The body of detect_abandoned_task_runs, in worker w.                    *)

Up == {v \in Workers : wpc[v] # "down"}

(* a: the nodes that answer one inspect broadcast within its timeout. *)
Answer(a) ==
    \/ NoFault /\ a = Up
    \/ Fault("inspect") /\ a # Up

InspectActive(w) ==
    /\ wpc[w] = "body" /\ IsWatchdog(w)
    /\ \E a \in SUBSET Up :
          /\ Answer(a)
          /\ live' = [live EXCEPT ![w] = {exec[v] : v \in a} \ {None}]
          /\ Enter(w, IF a = {} THEN "silent" ELSE "reserved")
    /\ UNCHANGED <<now, last, redisVars, brokerVars, rowVars, schedVars,
                   reserved, exec, todo, target, historyVars>>

(* Only when both answers are missing is the inspection a failure (None).  *)
InspectReserved(w) ==
    /\ wpc[w] \in {"reserved", "silent"}
    /\ \E a \in SUBSET Up :
          /\ Answer(a)
          /\ live' = [live EXCEPT
                        ![w] = @ \cup ({reserved[v] : v \in a} \ {None})]
          /\ Enter(w, IF wpc[w] = "silent" /\ a = {} THEN "scan" ELSE "query")
    /\ UNCHANGED <<now, last, redisVars, brokerVars, rowVars, schedVars,
                   reserved, exec, todo, target, historyVars>>

(* Mutant: only rows that are running. *)
AbandonedRunning(w) ==
    {i \in aged : row[i] = "running"} \ ({exec[w]} \cup live[w])

(* get_stale_queued_or_running, less the watchdog's own row and live ids. *)
Abandoned(w) ==
    {i \in aged : row[i] \in {"queued", "running"}} \ ({exec[w]} \cup live[w])

Query(w) ==
    /\ wpc[w] = "query"
    /\ todo' = [todo EXCEPT ![w] = Abandoned(w)]
    /\ Enter(w, "scan")
    /\ UNCHANGED <<envVars, redisVars, brokerVars, rowVars, schedVars,
                   reserved, exec, live, target, historyVars>>

MarkInterrupted(w, i) ==
    /\ wpc[w] = "scan" /\ i \in todo[w]
    /\ row' = [row EXCEPT ![i] = "interrupted"]
    /\ todo' = [todo EXCEPT ![w] = @ \ {i}]
    /\ target' = [target EXCEPT ![w] = i]
    /\ forfeited' = forfeited \cup {i}
    /\ Enter(w, "dog_slot")
    /\ UNCHANGED <<envVars, redisVars, brokerVars, aged, schedVars, reserved,
                   exec, live, job, blind, bodies, died>>

DogFreesSlot(w) ==
    /\ wpc[w] = "dog_slot"
    /\ ReleaseSlot(target[w])
    /\ Enter(w, "dog_lock")
    /\ UNCHANGED <<envVars, lock, lockMap, brokerVars, rowVars, schedVars,
                   reserved, exec, dogVars, historyVars>>

DogFreesLock(w) ==
    /\ wpc[w] = "dog_lock"
    /\ ReleaseLock(target[w])
    /\ target' = [target EXCEPT ![w] = None]
    /\ Enter(w, "scan")
    /\ UNCHANGED <<envVars, slot, slotMap, brokerVars, rowVars, schedVars,
                   reserved, exec, live, todo, historyVars>>

(* The database fails the watchdog: its own run ends as a failed task. *)
WatchdogRaises(w) ==
    /\ Fault("db")
    /\ wpc[w] \in {"query", "scan"}
    /\ row' = [row EXCEPT ![exec[w]] = IF @ = "none" THEN @ ELSE "failed"]
    /\ ForgetWatch(w)
    /\ Enter(w, "free_slot")
    /\ UNCHANGED <<now, last, redisVars, brokerVars, aged, schedVars, reserved,
                   exec, historyVars>>

(* created_at < now - task_watchdog_grace_period_seconds, for a row that   *)
(* the watchdog's query can still select.                                  *)
Age(i) ==
    /\ row[i] \in {"queued", "running"} /\ i \notin aged
    /\ aged' = aged \cup {i}
    /\ UNCHANGED <<envVars, redisVars, brokerVars, row, schedVars, workerVars,
                   dogVars, historyVars>>

WatchdogStep(w) ==
    \/ InspectActive(w) \/ InspectReserved(w) \/ Query(w)
    \/ \E i \in Ids : MarkInterrupted(w, i)
    \/ DogFreesSlot(w) \/ DogFreesLock(w) \/ WatchdogRaises(w)

WorkerStep(w) ==
    \/ Accept(w) \/ ClaimRow(w) \/ IgnoreDuplicate(w) \/ StartBlind(w)
    \/ StartRedelivered(w) \/ Finish(w) \/ FreeSlot(w) \/ FreeLock(w)
    \/ WatchdogStep(w)

Next ==
    \/ Tick
    \/ \E s \in Schedulers :
          \/ \E j \in Jobs : CheckDue(s, j)
          \/ SchedulerStep(s) \/ SchedulerDies(s)
    \/ \E w \in Workers :
          \/ \E i \in Ids : Prefetch(w, i)
          \/ WorkerStep(w) \/ WorkerDies(w) \/ ChildDies(w) \/ Restart(w)
    \/ \E i \in Ids : Restore(i) \/ Expire(i) \/ Age(i)

Spec == Init /\ [][Next]_vars

(***************************************************************************)
(* Fairness: a process that runs keeps running (a fault is a step of its   *)
(* own), task bodies end, and a message that waits is delivered (the       *)
(* broker list is first in, first out).  Nothing makes a trigger fire, a   *)
(* row age or a fault happen.                                              *)
(***************************************************************************)
Fairness ==
    /\ \A s \in Schedulers : WF_vars(SchedulerStep(s))
    /\ \A w \in Workers : WF_vars(WorkerStep(w)) /\ WF_vars(Restart(w))
    /\ \A i \in Ids : SF_vars(\E w \in Workers : Prefetch(w, i))

FairSpec == Spec /\ Fairness

-----------------------------------------------------------------------------
(* Properties.                                                             *)

InBody(w) == wpc[w] \in BodySteps

(* Runs that the fence admitted and whose claim nobody took away. *)
Fenced(i) == ~LateAck(i) /\ i \notin blind
Owned(w) == InBody(w) /\ Fenced(exec[w]) /\ exec[w] \notin forfeited

(* A task body runs while its job lock and a pool slot still carry its own *)
(* tokens and its maps point at them, unless a failed dispatch, the        *)
(* watchdog or the TTL took the claim: nothing else can release it early,  *)
(* whatever deliveries, crashes and other releases happen meanwhile.       *)
RunOwnsClaim ==
    \A w \in Workers : Owned(w) =>
        LET i == exec[w] IN
        /\ lock[job[i]] = i /\ lockMap[i] = job[i]
        /\ \E k \in Slots : slot[k] = i /\ slotMap[i] = k

(* Two workers never run the same job at once with intact claims: what     *)
(* "skipped while A is still processing" is to guarantee.                  *)
OneOwnedRunPerJob ==
    \A v, w \in Workers :
        v # w /\ Owned(v) /\ Owned(w) => job[exec[v]] # job[exec[w]]

(* The pool caps what runs with an intact claim at max_running_tasks.      *)
PoolCap == Cardinality({exec[w] : w \in {v \in Workers : Owned(v)}})
               <= MaxRunningTasks

(* However often the broker delivers a message, the fence lets its body    *)
(* start once, as long as the task_run table could be read.                *)
FencedOnce == \A i \in Ids : Fenced(i) => bodies[i] <= 1

(* A task_run row that left "queued" is never waiting again, and a         *)
(* finished row never runs again (unless the job asks for redelivery): the *)
(* late enqueue-time insert cannot reset a claimed row.                    *)
RowNeverRequeued ==
    [][\A i \in Ids :
          /\ row[i] \notin Unstarted => row'[i] \notin Unstarted
          /\ row[i] \in {"success", "failed", "interrupted"} /\ ~LateAck(i)
                => row'[i] # "running"]_vars

(* The actors entitled to take attempt i's keys away in this step. *)
Releasing(i) ==
    \/ \E s \in Schedulers :
          /\ sid[s] = i
          /\ spc[s] \in {"unlock", "undo_slot", "undo_lock", "undo_claim"}
    \/ \E w \in Workers :
          \/ exec[w] = i /\ wpc[w] \in {"free_slot", "free_lock"}
          \/ target[w] = i /\ wpc[w] \in {"dog_slot", "dog_lock"}
    \/ "expiry" \in Faults /\ i \in forfeited'

(* A lock or slot only ever goes from its owner to nobody, in a step taken *)
(* on that owner's behalf: no release, however late, frees the claim of    *)
(* the attempt that came next ("B's lock must survive A's stale release"). *)
ReleaseOnlyOwn ==
    [][/\ \A j \in Jobs : lock[j] # None /\ lock'[j] # lock[j]
              => lock'[j] = None /\ Releasing(lock[j])
       /\ \A k \in Slots : slot[k] # None /\ slot'[k] # slot[k]
              => slot'[k] = None /\ Releasing(slot[k])]_vars

(* Somebody is still going to give the claim of attempt i back: the API    *)
(* process dispatching it, a message or a run of it, or the watchdog.      *)
Accounted(i) ==
    \/ \E s \in Schedulers : sid[s] = i
    \/ i \in queue \cup unacked
    \/ \E w \in Workers : i \in {reserved[w], exec[w], target[w]}

(* No lock and no slot is orphaned, whatever duplicates, interruptions,    *)
(* late inserts and failing calls happen, unless a process dies.           *)
ClaimAccounted == died \/ \A i \in Ids : Claiming(i) => Accounted(i)

(* Unless a process dies, every claim is given back: a failed publication, *)
(* a failed stamp, errors of the task_run table and a duplicate delivery   *)
(* never leave a job locked or a slot taken until the two-day TTL.         *)
ClaimReleased ==
    \/ <>died
    \/ \A i \in Ids : Claiming(i) ~> ~Claiming(i)

(* Nothing will ever run attempt i again, and its row still says otherwise. *)
Dead(i) ==
    /\ row[i] \in {"queued", "running"}
    /\ i \notin queue \cup unacked
    /\ \A w \in Workers : i \notin Held(w)
    /\ \A s \in Schedulers : sid[s] # i

(* A watchdog run that begins when a dead attempt is past the grace period *)
(* interrupts it and frees its slot and its lock, provided that no further *)
(* failure strikes the watchdog itself.                                    *)
WatchdogReclaims ==
    \A i \in Ids :
        /\ Dead(i) /\ i \in aged
        /\ \E w \in Workers : wpc[w] = "body" /\ IsWatchdog(w)
        /\ faults = MaxFaults
        ~> row[i] = "interrupted" /\ ~Claiming(i)

=============================================================================
