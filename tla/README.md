# Verification of the RemoteConnect backend

TLA+ models of the parts of this backend whose correctness depends on the
order in which processes, threads and messages act, checked with TLC on small
instances and, where the result matters for every size, proved with TLAPS.
Source paths below are relative to the repository (`src/`); `app/` abbreviates
`apps/app/`.

1. [The system](#1-the-system)
2. [Modules](#2-modules)
3. [TaskDispatch](#3-taskdispatch)
4. [ImpersonationSession and SandboxSession](#4-impersonationsession-and-sandboxsession)
5. [The gateways and their sessions](#5-the-gateways-and-their-sessions)
6. [What a request passes through](#6-what-a-request-passes-through)
7. [What runs beside the requests](#7-what-runs-beside-the-requests)
8. [Runs](#8-runs)
9. [Proofs](#9-proofs)
10. [Where the code and its documents disagree](#10-where-the-code-and-its-documents-disagree)
11. [What else the models show](#11-what-else-the-models-show)
12. [What is not modelled](#12-what-is-not-modelled)
13. [Plan](#13-plan)

## 1. The system

The backend runs as several kinds of process that meet in Redis, in PostgreSQL
and in the Celery broker (also Redis):

- **API processes** (`apps/app/main.py`): FastAPI handlers, one APScheduler
  each that fires *all* scheduled jobs, the `/ws` and `/ws/device` gateways.
- **Celery workers** (`app/celery_app.py`): run the jobs and the `@task`s.
- **The impersonation worker**: an API process of which only one exists, which
  serves every impersonated request (`is_impersonation_worker`).
- **The monitor** (`apps/monitor/`): a second FastAPI application.
- **The launcher** (`run/scripts/start.py`): starts the others and restarts
  the Celery worker when it dies.

| Component | State it keeps | Operations | Hard behaviour | What makes it correct |
| --- | --- | --- | --- | --- |
| Task dispatch, fencing, recovery (`app/utils/task_concurrency.py`, `task_decorator.py`, `modules/task/`) | Redis: lock per job, pool slots, two maps from task id; broker queue; `task_run` rows | fire, claim, publish, fence, run, release; watchdog | several API processes at once, redelivery, crashes, calls that fail half-way, stale snapshots, TTL | a run owns its claim; one run per job; the pool caps; no claim lost or leaked; the fence admits once |
| Impersonation session (`modules/impersonation/`, `core/services.py`) | Redis: active claim, lease; one process: the Session and its mutex; audit rows | start, verify, use, log out, force end, expire, clean up | threads against one mutex, an end racing a start, lapsing heartbeats, worker crash | one private transaction, never mixed, never committed, always closed |
| Monitor sessions and access guard (`modules/monitor/`) | Redis: links, session keys, violation sets, blocks, access keys | redeem, mint, validate and renew; count, block, e-mail a key | redemptions race, validations of one session overlap, a socket renews its own session | a link yields one session; the absolute lifetime ends the sockets of silent clients; blocks only grow |
| WebSocket gateways (`app/websocket/gateway.py`, `apps/monitor/websocket/gateway.py`) | list and map of connections, listener task | connect, disconnect, broadcast, revoke, recheck | awaits inside loops over shared lists, lost pub/sub, a dead listener | no ended socket registered; nobody skipped while the list does not shrink; a revocation that is read, or the recheck of a silent client, closes the socket |
| Login sessions (`modules/auth`, `modules/okta`, `jwt_middleware.py`, `user_sessions_resposity.py`) | session rows with current and previous token | login, authenticate, rotate, reissue, log out, deactivate | parallel requests rotate one token | no unexpired token of a session stops working because of a rotation; the end of an impersonation is the exception |
| Request-log buffer (`core/request_logging/buffer.py`) | one Redis list per session | record, flush | flush is read, persist, delete | only overlapping flushes and failing calls lose entries |
| Response cache, deduplication (`core/cache_builder.py`) | Redis lock and entry per key | look up, wait, compute, store, invalidate | unowned lock with a TTL, a store after the scan | no other way to a stale entry or a stolen lock than those two |
| Rate limiting (`core/rate_limiting/`, `apps/monitor/rate_limit.py`) | Redis sorted sets, cooldowns, blocks | hit, block, cool down | check, count and punish are three calls; some fail open | at most the maximum per window |
| Log archival and exports (`modules/app/analysis`, `modules/task/analysis`, `modules/task/services`) | files, S3 objects, rows, download tokens | upload, record, delete, group, purge; export, sweep | failure or death between two steps | a log is always somewhere, unless its day is grouped twice; a live link leads to its zip |
| Device identity (`modules/device/`) | device rows, socket registry | resolve or mint, connect, disconnect | check then insert, reconnect before disconnect | the registry names the latest socket |
| Roles (`modules/role/`, `role_authorization_middleware.py`) | roles, grants, default flag, overrides | CRUD, set default, assign, override | overlapping transactions | grants closed under the hierarchy; one default |
| Process supervision (`run/scripts/start.py`) | state files, processes | start, join, restart, release, force | launchers share a file without a lock | a session's name is lost only to a write whose author had not read it |
| Migration tooling (`run/migration.py`, `run/migration_test.py`) | the database's revisions, a sandbox | rehearse, upgrade, downgrade | branched histories, commands that fail half-way | what was applied was rehearsed, what passed is reversible |
| The rest: users, reports, feature requests, settings, mail, logging | | CRUD and I/O | none | |

How they interact: jobs of every module are dispatched through the first
component (log archival, the watchdog and cleanups are such jobs; the
impersonation cleanup is an interval job of its own worker and does not use
Celery). The authentication of the login-session component decides, on the
impersonation worker, whether a request may enter the impersonation session.
Login sessions tell the gateway over pub/sub what to close, and the gateway
rechecks the token itself (`AppGateway` composes the two); the monitor's
gateway does the same with monitor sessions (`MonitorGateway`). The launcher is
what restarts a dead Celery worker in `TaskDispatch`.

`PROJECT.json` lists every component with its sources and, under `hazards`,
each place where one of these behaviours bites, with the property that would
notice.

## 2. Modules

| Module | Role |
| --- | --- |
| `TaskDispatch` | the dispatch, the fence, the workers and the watchdog, with their failures |
| `MCTaskDispatch` | its symmetry set for TLC |
| `TaskDispatchProofs` | inductive invariant and nine theorems |
| `SandboxSession` | abstract: what impersonation promises about the database |
| `ImpersonationSession` | the impersonation worker, its requests, the remote ends and the cleanup job; implements `SandboxSession` |
| `MCImpersonationSession` | its symmetry set for TLC |
| `ImpersonationSessionProofs` | inductive invariant, refinement and the other theorems |
| `LoginSessions` | session rows, logins, token rotation, logout |
| `ConnectionManager` | the registry and the listener both gateways have |
| `AppGateway` | composes the two: `/ws`, its recheck, revocation |
| `MonitorSessions` | links, session keys, renewal |
| `MonitorGateway` | composes it with `ConnectionManager`: the monitor's `/ws` and HTTP requests |
| `MonitorAccess` | requests for access without a session |
| `RequestLimits`, `RequestLog`, `ResponseCache` | the limiters, the request-log buffer, one cached route |
| `ApiLogArchive`, `AnalysisLogs`, `LogExports` | where logs go |
| `Supervisor` | launchers and the Celery pair they share |
| `MigrationValidation` | rehearsal, upgrade and downgrade over every small history |
| `Permissions` | role administration and what the middleware admits |
| `DeviceIdentity` | `/ws/device` |
| `MCAppGateway`, `MCMonitorGateway` | instances of the two compositions |
| `MCRequests`, `MCOperations` | instances of components that share no state, side by side |
| `LoginSessionsProofs`, `MonitorGatewayProofs` | inductive invariants and theorems of the module they are named after |
| `RequestProofs` | the same for `MonitorAccess`, `RequestLimits`, `RequestLog`, `ResponseCache` and their composition `MCRequests` |
| `ArchivalProofs` | the same for the three log modules |
| `MigrationProofs` | the same for `MigrationValidation` |
| `OperationsProofs` | the same for `DeviceIdentity`, `Supervisor`, `Permissions` and the composition `MCOperations` |

`MCRequests` and `MCOperations` put independent components into one
configuration: the variable `active` names the one that acts in a behaviour and
the others stay as they start. Nothing is lost by that (they share no variable
and no key) and TLC explores the sum of their state spaces, not the product.

Conventions: the next-state relations interleave actors; every action is one
Redis command or script, one broker call, one database transaction or one
critical section, so that any two actors can meet between any two of them.
Failures are either actions or outcomes of actions and consume
`faults < MaxFaults`; `Faults` names the kinds that may happen in a run. Plain
bounds: `MaxOccurrence` (clock), `MaxBodies` (starts of one message), `Ids`
(fresh uuids). History variables (`job`, `forfeited`, `blind`, `bodies`,
`died`; `opened`, `used`, `issued`) only record the past, except that a fresh
id is one that was never used. A definition commented *Mutant* is a plausible
bug in the definition below it; no specification uses it.

## 3. TaskDispatch

### What it models

One attempt `i \in Ids` stands for the three uuids one pass of
`TaskScheduler._try_enqueue` generates: lock token, slot token and task id.
All three are fresh and are used together, so one value is enough to tell
apart whose key is whose.

| State | Code |
| --- | --- |
| `now`, `last` | wall clock in cron occurrences; `last_enqueued_at` of the Redis metadata store |
| `lock`, `slot` | `scheduler:inflight:<job>` and `scheduler:global-slot:<k>` with their owner tokens |
| `slotMap`, `lockMap` | `scheduler:task-slot:<id>`, `scheduler:task-lock:<id>`: key and token |
| `queue`, `unacked` | Celery's Redis transport |
| `row`, `aged` | `task_run.status`; `created_at` before the watchdog's cutoff |
| `spc`, `sjob`, `sid` | where each API process is in `_try_enqueue` |
| `wpc`, `reserved`, `exec` | one worker node with one pool process: its step, the prefetched and the running message |
| `live`, `todo`, `target` | locals of `detect_abandoned_task_runs` |

An API process goes `CheckDue`, `TryLockTask` (or `SkipLocked`),
`ReserveTaskSlot` (or `NoSlotLeft`, `UnlockSkipped`), `BindTaskIdToSlot`,
`MapTaskToLock`, `Publish`, `InsertRow`, `Stamp`, `Restamp`; a raise inside
`apply_async` goes `UndoSlot`, `UndoLock`, `UndoClaim`. A worker goes
`Prefetch`, `Accept`, then the fence (`ClaimRow`, `IgnoreDuplicate`,
`StartBlind`, or `StartRedelivered` for jobs with `redeliver=True`, which are
not fenced), `Finish`, `FreeSlot`, `FreeLock`. The job `WatchdogJob` has a
body of its own: two inspect broadcasts, the query, and for each candidate the
update and the two releases.

### Points at which the model abstracts

- A release by task id is GET map, compare-and-delete, DEL map in the code and
  one action here (`ReleaseSlot`, `ReleaseLock`). This loses nothing: a map is
  written once, before its message exists, and never rewritten; tokens are
  unique; so a stale GET still names the right key, the compare-and-delete is
  a no-op unless the token is still there, and the DEL removes a map nobody
  will write again.
- The slot script looks for the lowest free slot under Redis' single thread,
  so it is one action. `UndoClaim` is two calls on keys that carry this
  process's own tokens; no other step can tell their order.
- The broker list is a set: with several workers taking from it and one
  prefetching ahead, no order of starts is promised by the transport.
- `Tick` advances the clock by an occurrence; `Due` compares the last stamp
  with it, which is what `_should_run_cron` decides. `Forced` adds the
  triggers by hand that skip the due check.
- A row ages at any time after it exists (`Age`); the grace period is longer
  than any single call, but not than a queue or a body.
- Which of a claim's four keys have passed their equal TTLs follows the order
  they were written in (`Expire`).
- The inspect broadcasts are answered by any subset of the running nodes; an
  incomplete answer is a fault, and only two empty ones count as a failure of
  the inspection, as in `celery_liveness.py`.
- `Finish` is the success or failure handler including its swallowed database
  error; retries by Celery are not used by these tasks.

### Properties

`RunOwnsClaim`, `OneOwnedRunPerJob`, `PoolCap` and `FencedOnce` speak of runs
whose claim was not *forfeited*: taken away by a failed dispatch, by the
watchdog or by the TTL. The exceptions are what the code does (section 11
describes how the first two of them happen), so the properties say that nothing else can
break exclusion: no duplicate delivery, no late insert, no release by an
earlier attempt, no crash. `ReleaseOnlyOwn` is the action form, for every
step of every actor. `RowNeverRequeued` orders the row's writers.
`ClaimAccounted` (safety) and `ClaimReleased` (liveness) say that claims do
not leak unless a process dies; `WatchdogReclaims` is what repairs a death. The
leaks of a death, and what a start with an unreadable fence does, are therefore
outside the properties. A Redis error in the middle of the watchdog's two
releases (`task_watchdog_analysis.py:60-61`) is represented only as the death of
its worker.

### Fairness

`FairSpec` has weak fairness for an API process in the middle of a dispatch, a
worker in the middle of a task (bodies end) and its restart
(`ensure_celery_alive`, or the container runtime), and strong fairness for the
delivery of a waiting message, because a worker that is momentarily full
disables it again and again. Nothing makes a trigger fire, a row age or a
fault happen. A step with a failing outcome consumes the fault budget, so
fairness never asks for a failure.

## 4. ImpersonationSession and SandboxSession

### What it models

| State | Code |
| --- | --- |
| `active`, `lease` | `impersonation:active`, `impersonation:lease` in Redis |
| `mutex`, `held` | `_session_lock` and the Session's owner in `impersonation_session_holder.py` |
| `writes`, `durable` | whose flushed writes the open transaction contains, whose were committed |
| `opened`, `used`, `issued` | ids that ever had a Session, that a start took, whose token was sent |
| `audit` | the audit row: none, active, or the reason of its end |
| `pc`, `rid`, `op`, `old` | each request thread, remote request and the cleanup job |
| `aged` | impersonations whose lifetime has passed |

A start goes through the cleanup of a stale Session, the claim script, the end
of a replaced impersonation, `StartSession`, `AuditActive` and the creation of
the token inside the Session (`EnterSession`, `BodyReturns`). A request is
authenticated on the event loop (`RequestBegin`, `RefreshHeartbeat`), verified
(`VerifyOwner`, `CheckHeartbeat`), takes the mutex, runs and returns; every way
out of it that ends the impersonation goes through `end_impersonation`
(`HasSession`, `RollbackSession`, `CloseEnded`, `AuditEnd`, `Release`). A
forced end may run in another process, which has no Session of its own
(`Remotes`). The five-second cleanup job is `CleanupTick` and `CleanupStep`.

### Points at which the model abstracts

- The administrator's identity is left out: a wrong administrator is refused
  with 403 or 404 before anything changes.
- A critical section in which the thread only touches the holder's own state
  (rollback, close, start) is one action, guarded by a free mutex. Sections
  that do more inside the mutex, a request body and the cleanup with its two
  Redis reads, take it and give it back in separate actions.
- `LoopBusy`: authentication, and all of the asynchronous `/auth/logout`, run
  on the event loop, so no other request is accepted and no interval job
  starts meanwhile; requests already in the thread pool go on.
- Time is nondeterministic: the lease may lapse whenever it is there; the
  lifetime may pass at any time, and the key's TTL at any time after
  `is_expired` is true.
- A body flushes or not; what it writes is only its impersonation. Of the
  services reached through `services.call` one commits the Session it is given:
  `record_login`, when the browser has no matching session row
  (`LoginCommits`). It is reached when `/okta/login`, in a local environment
  with a default user, or `/okta/callback` is called on the worker with the
  impersonation's header and token, which the middleware accepts for public
  paths as well. `db_guard` then refuses the connection of the refresh, and the
  error ends the impersonation, after the commit.
- `/auth/verify` and `/okta/callback` call `services.call` on the event loop;
  the model lets them interleave like thread-pool requests, which allows more.
- Other administrators' concurrent starts are other threads of the worker: a
  start is refused elsewhere.
- `CloseRaises` is the case where the rollback of a broken connection raises
  between the flag and the reset of the module's globals.

### Properties

`SandboxSession` is the promise: at most one transaction, for one
impersonation, with its writes only, opened once in its life, and never
committed. `ImplementsSandbox` says the worker keeps it, by the mapping
`session <- held`, `pending <- writes`, `committed <- durable`, as long as no
login is sent to the worker: with logins it is broken (`CallsOnlyFlush`,
section 10), and `session_faults` leaves them out for that reason. The other
safety properties are proved with logins, and `session_live` includes them.
`BodyKeepsSession` is what a request
relies on between the checks it made and the writes it flushes;
`EndClosesSession` is what the caller of an end relies on;
`ClaimLostToOwnEnd` and `EndIsFinal` protect a younger impersonation from the
late end of an older one. `StaleSessionClosed` and `RequestsReturn` are the
liveness half.

The code does let an older end close a *younger* Session
(`impersonation_service.py:49` calls `end_session()`, which compares no id,
after a check in an earlier critical section). No body loses its Session to
that and no writes mix, which is what the properties say; the younger
impersonation then finds its Session gone. The hazard list names it.

### Fairness

`FairSpec` has strong fairness for each request thread: a thread that waits
for the mutex competes with the cleanup job, which takes it for milliseconds
every five seconds, and with requests that end, so the mutex is free again and
again. Weak fairness for the cleanup job and for a remote end. Nothing makes a
client send a request or the lease lapse. `RequestsReturn` is checked without
`/auth/logout`, whose deadlock is a finding.

## 5. The gateways and their sessions

### LoginSessions

`row` is `tblt_user_sessions` by primary key: user, device fingerprint, current
token, previous token and the end of its grace period, logged out or not. A
token is a record of a user and the second it was issued in, because a JWT of
this code contains nothing else that differs: two tokens of one user in one
second are one token, and the unique constraint on `session_token` bites
(`LoginCollides`, `RotateCollides`). `thread` is what each request has read
before its next database call: `LoginRead`, then `LoginUpdates` or
`LoginCreates`; `Authenticate`, then after the response `Rotate` (a
compare-and-set on the current token) or `Respond`; `LogoutRead`,
`LogoutWrite`, and the revocation that is published after the commit
(`Published`). `Reissue` is what the end of an impersonation does to the
administrator's session, `Deactivate` an update of the user. The fingerprint is
computed from the headers as the code does it (`Browser`, `OperatingSystem`,
`DeviceType`).

`RotationKeepsTokens`: every unexpired token a session was given since its last
login finds that session, with one exception. The end of an impersonation gives
the administrator's session a new token by `set_session_token`, which clears the
previous one instead of keeping it for a grace period: the tokens it replaces
(`dropped`) find the session no more, though they have not expired, and the
property says that too. It is what makes rotation safe for a browser with
several requests in flight, and it depends on three settings fitting together
(`LifetimesAssumption`: the rotation window is at most the grace period and at
most half the lifetime; 120 s in `jwt_middleware.py:21`, 120 s and 60 minutes in
`core/settings.py:56,58`).

### ConnectionManager

The class both gateways define in the same words, and the listener task that
feeds it. Everything runs on one event loop, so an action is what happens
between two awaits: `SendNext` and `SendFails` are one iteration of the
broadcast loop, whose position `cast[c].at` is an index into the list that
`Register` and `Unregister` change meanwhile; `CloseNext` and `StopNext` are
one `disconnect` of `close_session` and one close of `disconnect_all`. The list
that a removal leaves (`Without`) is defined by the rank of each position among
those that stay. A message
published while no listener is subscribed is lost (`Send`). When Redis cannot be
reached, the publisher broadcasts to the sockets of its own process
(`CastLocally`), whatever the message is: a revocation sent that way closes
nothing.

`NoDeadRegistration`: no socket whose handler ended stays in the list.
`BroadcastReachesAll`: a broadcast during which the list did not shrink sends to
everyone who was registered all along. (When it does shrink, the sockets behind
the removed one move down and one is skipped: that is what the code does, and
why the property says *shrunk*.) The registry part of the type invariant relates
list, map and phases.

### AppGateway

`/ws` composed with `LoginSessions` in any process. A socket keeps the token it
was authenticated with (`presented`); `Handshake` and `Connect` are separate, so
a revocation may come between them. The recheck runs when thirty seconds pass
without a message from the client, so a client that keeps sending is never
rechecked: `Talkers` are the sockets of such clients, `Silent` the others. A
message itself is no action, since all it does is to restart the wait.

There are two liveness properties. `RevokedSocketsClose`: a revocation that the
listener has still to read closes every socket registered under its session,
those of talkers included. `SilentSocketsClose`: the socket of a silent client
whose token is refused is closed by the recheck, though its revocation was lost,
too early, or the listener is dead and `disconnect_all` emptied the registry. For
a talker there is no second way, and section 11 says what follows. Fairness is
what an event loop gives: ready callbacks run (`ListenerStep`, `CastStep`,
`Connect`), and the receive timeout of a silent client fires (`Recheck`).
Nothing makes a client leave, a listener fail or a user act.

### MonitorSessions and MonitorGateway

Links and session keys are Redis keys with an expiry; `store[k].created` is the
payload each validation writes back. Redemption is two calls, `Redeem`
(GET-and-DEL in one script) and `Mint`, between which the process may die or
Redis fail (`MintFails`: the link is spent). Validation is two calls as well,
`Fetch` and then `Renew` or `RefuseOld`, so validations of one session overlap
and a renewal may bring back a key that expired after the GET. HTTP requests
validate on the thread pool; the gateway validates on the event loop, which does
nothing else meanwhile (`LoopFree`).

`OneSessionPerLink`: a link yields one session, however many browsers open it
and wherever the process dies. `LifetimeEndsSockets`: although the recheck of
an open socket renews its own session every thirty seconds, no socket of a
silent client outlives the absolute lifetime for good, also while a talker's
socket uses the same session. It needs strong fairness for `Recheck` and
`RecheckMisses` of silent clients: the loop may be busy each time a timeout
fires, but is free again and again. A validation that has begun goes on
(`RecheckRenews`, `RecheckRefuses`), whoever's it is.

## 6. What a request passes through

| Module | State and actions | Where it abstracts | Properties |
| --- | --- | --- | --- |
| `MonitorAccess` | the sorted set of counted requests, the block and its duration, the e-mail key and the access keys, per address; `Escalate`, `StartBlock` and `Count` are the three exits of the Lua script, `ClaimEmail`, `Issue`, `IssueFails` the calls after it | expired keys are kept with an end that has passed; durations are capped by `Horizon` where the code has no cap | `BlocksOnlyGrow`; that at most `MaxHits` requests pass in any window, also across a block that starts the counter over (part of the type invariant) |
| `RequestLimits` | the sliding-window script (`Admit`, `Reject`), the cooldown that refused requests renew and the fixed block (`Enter`, `EnterCooldown`, `AnswerBlocked`, `Punish`), for the three kinds of client; `EnterBlind`, `AdmitBlind`, `PunishFails` are Redis failing at each of the three calls | one client of each kind: no two share a key; the end of a cooldown or a block is a whole second, where Redis rounds the key's TTL | `AdmissionsBounded` |
| `RequestLog` | the Redis list of one session; `Touch` (length check), `Read`, `Persist`, `Delete`, `Push` by recorders in parallel, `Logout` flushing too, failing persistence and pushes, the list's TTL | an entry is a value; a summary row is the set of entries it counts | `QuietFlushLosesNothing`; that the list does not grow past the cap by more than the pushes in flight (part of the type invariant) |
| `ResponseCache` | one cached route: entry, lock, readers (`Miss`, `TakeLock`, `Poll`, `PollFree`, `Compute`, `Release`, `Store`), writers (`Commit`, `Scan`, `DeleteKeys`, `InvalidationFails`); expiry of lock and entry, a reader that dies | the fifty polls are `Polls`; the data is its version | `StaleOnlyFromRace`, `LockFreedByHolder` |

A Redis sorted set is the set of its members, as in Redis: the code adds
`<time>:<uuid>`, and `<<time, number>>` stands for it, where `number` is one more
than the members the window holds (`NewMember`, `NewHit`). Two hits of one
second are therefore two members, and counting the window is a cardinality.

`MCRequests` checks these with `LoginSessions`, each with several requests in
flight.

## 7. What runs beside the requests

| Module | State and actions | Where it abstracts | Properties |
| --- | --- | --- | --- |
| `ApiLogArchive` | disk, S3 objects by day folder, one zip per day; the three jobs call by call, each call failing, the worker dying anywhere (`ArchiveEnds`, `GroupEnds`) | the calendar counts days; one archiver, one grouper at a time, as the dispatch guarantees | `LogsKept` |
| `AnalysisLogs` | the run's row, its file, its object; archiving (`ArchiveLog`, `SetLogArchived`, `RemoveLog`) against purging (`DeleteStoredLog`, `DeleteRows`), each with the ids it read first | a run ages from young to stale to expired | `LogReachable` |
| `LogExports` | zips in S3, tokens in Redis; export (`Request`, `UploadExport`, `SendLink`) against the sweep (`StartSweep`, `SweepObject`) | the zip is its upload time; link, password and e-mail are one value | `LinkServes` |
| `Supervisor` | `celery.json` and `<mode>.json`, Celery processes by pid, each launcher's `main()` step by step and its watchdog thread with its two reads, each with the file as it was last read; a read that meets half a file (`Readable`); forced stop, crashes of launcher, servers and pair | a crash drops what the job object would kill on Windows and nothing on POSIX, where an exited child is a zombie until its launcher reaps it (`Windows`) | `SessionListed` |
| `MigrationValidation` | every history of `LastRev` revisions with one base, branches and two-way merges; what each `downgrade()` leaves behind; the command, the sandbox, the real database; another operator's forced upgrade and downgrade meanwhile | a schema is the set of applied revisions and the leftovers of undone ones | `VerdictHonest` |
| `Permissions` | roles, grants, default flag, assignments; service calls as READ COMMITTED transactions that read when they begin and write when they commit (`Begin...`, `Commit...`, `Rollback`); the administrator's overrides in Redis | names and descriptions | `RolesSound` |
| `DeviceIdentity` | devices by code, sockets by handshake step, the registry; `TryCode` is one candidate code, `Disconnect` the removal that compares the socket, `RestartServer` an empty registry | the install key stands for its device | `NewestStaysRegistered` |

The ancestors of a group (`Lineage`) and of a set of revisions (`Closure`) are
loops in the code. Here they are least sets: what every set that contains the
start and the parents of its members contains.

`LogsKept`: a log file is on the disk, in S3 or in an archive until the
archive's retention is over, with one exception named in the formula: an archive
`replaced` by a second grouping of its day (section 11). `LogReachable`: until its row expires, the log of a run is where an export
looks for it. `LinkServes`: a link that can be redeemed leads to its zip.
`SessionListed`: a running session with a mode of its own is named in
`celery.json`, so nobody else's exit takes its Celery pair away, unless a write
has left it out (`omitted`) whose author had read the file without that name: too
early, half written, or with a dead pair, which a start replaces with its own
name alone; or `--force` has deleted the file. All interleavings of reads, writes
and watchdogs are in the model, stale write-backs among them, and the property
holds in each of them: a stale file that does have the name loses nothing. What
the exception amounts to is in section 11. `VerdictHonest`: a rehearsal that passes means
each revision's `downgrade()` undoes its `upgrade()`, and nothing that was not
rehearsed is applied, unless another operator changed the database after the
command had read it. `RolesSound`: grants stay closed (any method implies GET,
and the same on every group above), no row refers to a role that is gone, and,
unless two calls that set the default overlapped, there is one default and the
client is told exactly what the middleware admits. `NewestStaysRegistered`:
whatever order sockets of one device connect and end in, the one registered last
stays reachable.

In `MigrationValidation` the clone has the version of the schema it was copied
with, while the code writes the heads it had read at the start into the clone's
version table. The two differ only when another operator moved the database in
between; commands in the sandbox then fail on objects that are there or missing,
which is one of the outcomes of `CommandFails`.

## 8. Runs

Deadlock checking is off in all runs: fresh ids run out, clocks end, and a
system with no attempt or impersonation left to make rests. State counts are
those of TLC with the symmetry given in the configuration.

| Run | Instance | Checks | Shows |
| --- | --- | --- | --- |
| `dispatch_faults` | 2 jobs (one the watchdog), 2 attempts, 1 API process, 2 workers, 2 slots, forced triggers, every kind of fault, 1 fault | `TypeOK`, `RunOwnsClaim`, `OneOwnedRunPerJob`, `ClaimAccounted`, `FencedOnce`, `ReleaseOnlyOwn`, `RowNeverRequeued` | exclusion, accounting and the fence under any single failure (353 000 states) |
| `dispatch_pool` | 2 API processes, 1 slot, 2 occurrences, failed stamp or TTL | `PoolCap` | competition for a full pool (722 000) |
| `dispatch_recovery` | 1 worker, one job with `redeliver=True`, 1 fault | `ClaimReleased`, `WatchdogReclaims` | claims come back (119 000, liveness) |
| `session_faults` | 2 impersonations, 2 threads, cleanup, all requests but logins, lapsing lease, 1 fault of any other kind | `TypeOK`, `BodyKeepsSession`, `EndClosesSession`, `ImplementsSandbox`, `ClaimLostToOwnEnd`, `EndIsFinal` | the sandbox (1 080 000) |
| `session_live` | 1 thread, 1 other process, cleanup, logins and logouts, lapsing lease, lifetime | `StaleSessionClosed`, `RequestsReturn` | nothing stays open, nobody waits for good (426 000, liveness) |
| `app_gateway` | 1 user with one session, 1 request, 2 sockets, one of them a talker's, the listener and 1 local broadcast, 1 message in the channel, a clock of 1; `WithoutHistories` as view | `RevokedSocketsClose`, `SilentSocketsClose` | revocation closes whom it reaches, the recheck whom it does not (163 000, liveness) |
| `monitor` | 1 link, 2 session keys, 1 HTTP request, 2 sockets, one of them a talker's, 1 message, lifetime 3, idle 2, clock 4 | `MonitorGatewayTypeOK`, `OneSessionPerLink`, `NoDeadRegistration`, `BroadcastReachesAll`, `LifetimeEndsSockets` | sessions shared by sockets and requests (140 000, liveness) |
| `requests` | 2 sessions, 2 requests, clock 4; 1 address, 2 access keys, 2 calls; 3 limited clients, 3 arrivals; 3 entries, 2 recorders; 3 readers, 1 writer | `RequestsTypeOK`, `RotationKeepsTokens`, `BlocksOnlyGrow`, `AdmissionsBounded`, `QuietFlushLosesNothing`, `StaleOnlyFromRace`, `LockFreedByHolder` | section 6 (1 272 000) |
| `operations` | 2 files, 2 days; 2 runs; 2 exports, 6 minutes; 2 launchers, one of them with `--force`, modes main and monitor; all histories of 4 revisions with at most 1 fault, 1 foreign move; 2 roles, 2 groups, 2 calls; 3 device sockets, 2 codes | `OperationsTypeOK`, `LogsKept`, `LogReachable`, `LinkServes`, `SessionListed`, `VerdictHonest`, `RolesSound`, `NewestStaysRegistered` | section 7 (1 210 000) |
| `session_deadlock`, `session_commit`, `migration_alarm` | smallest that show it | one property each, violated | section 10 |

Why these bounds are enough to be interesting. Two attempts are the least with
which one can damage another (a stale release, an overtaken lock, a watchdog
that interrupts), and with two workers both run at once; a third attempt would
repeat one of those roles. Two API processes matter only for the competition
over lock and slot, which `dispatch_pool` has; elsewhere one process that fires
again already interleaves with the workers. `MaxBodies` is 2, enough to see a
second body. For the session, two impersonations are a replaced and a
replacing one; two threads hold every pair of critical sections; the remote
process appears in the runs where it can be told from a thread (it sees no
Session). `MaxFaults = 1` there is on top of a lease that lapses freely.

For the others: a clock long enough for a token to be rotated, expire and be
rotated again (4 with a lifetime of 4 and a window of 2), for a session to
reach its lifetime while it is renewed (3 of 4), for a block to be doubled and
to run out within 8; three arrivals, because with two a rejection can only be
seen by the one request that is left; three readers, because a waiter must
outlive one lock and meet the next one; two sockets, because a broadcast must be
able to skip one and a revocation must close both; four revisions, because the smallest history with a pending
merge and a sibling has four; three device sockets, because a reconnect can
itself be overtaken. Two launchers are every pair of starts and exits; of modes
only *full* differs from the others in what it excludes, so `operations` takes
two others; the same instance with modes main and full for both launchers holds
as well (1 598 000 states).
The theorems of section 9 do not depend on these bounds.

Every property of a passing run has a mutant of the model that breaks it
(`PROJECT.json`): a dropped NX, a delete without comparison, a rollback that is
forgotten, an upsert without its WHERE, an early return that keeps the mutex, a
grace period that is forgotten, a renewal that starts a new lifetime, a local
copy deleted before the row points to S3, a session that joins a pair without
its name.

## 9. Proofs

The proof modules follow one argument. A property is seldom inductive, so each
module strengthens it to an invariant (`IInv`, or `LoginInv`, `CacheInv` and so
on), proves that it holds initially, proves that every action keeps it (one
lemma for each conjunct or for each action, whichever is shorter), and concludes
`Spec => []IInv` with the temporal solver; the theorems then follow from it, the
action properties from it and one more pass over the actions.

All 33 properties of the passing runs that are not liveness properties are
stated by a theorem, for every value of the constants.

### What is assumed

Of the constants, the named assumptions of the component's module: that markers
such as `None` are not members of the sets they mark, that numbers are natural,
that the bounds on clocks leave room for the initial time, that `Parent` maps
groups to groups, and the relations between settings that the code's defaults
have (`LifetimesAssumption` and, in `AccessAssumption`, that a block lasts at
least as long as the window it forgets). TLC evaluates each of them in a run.
Nothing is assumed finite except the recorders of the request log, because the
bound on its list counts them. `PoolCap` is proved by mapping the owned runs
into the finite set of slots; the groups of a hierarchy, clients, sockets,
launchers and calls may be infinitely many.

### Dispatch and impersonation

**TaskDispatchProofs.** `RunOwnsClaim` at a running body needs the whole
history of the attempt: `SchedShape`, `OneHolder` (an attempt is held by one
API process), `BlankUntilPublished` (nothing happened before its message),
`Provenance` (a key carries the token of an attempt that claimed it),
`ClaimGrows` (what has been claimed and bound so far is still there),
`Forfeits` (undoing and interrupting mark the attempt), `FenceHolds` (one
admission, and a row that left *queued*) and `ClaimKept` (unadmitted messages
and owned bodies have the whole claim). For `ClaimAccounted`, four more parts
that hold until a process dies: the maps lead every release to what it must
free (`MapsLead`), the slot goes first (`SlotFirst`), and a claim is at a step
that leads to its release (`NotOrphaned`, `StartedReleases`).

| Theorem | Property |
| --- | --- |
| `TypeCorrect` | `TypeOK` |
| `RunsOwnTheirClaims` | `RunOwnsClaim` |
| `OwnedRunsExclude` | `OneOwnedRunPerJob` |
| `PoolIsCapped` | `PoolCap` |
| `FenceAdmitsOnce` | `FencedOnce` |
| `ClaimsAreAccounted` | `ClaimAccounted` |
| `RowsMoveForward` | `RowNeverRequeued` |
| `ReleasesAreOwn` | `ReleaseOnlyOwn` |

**ImpersonationSessionProofs.** `Shape` (which steps go with which purpose),
`Excluded` (whoever is inside a critical section has the mutex), `Fresh` (a
start that has not opened its Session has an id nobody else has), `Owned` (the
transaction holds its owner's writes), `Tokens` (a request that carries a token
came after its Session was opened) and `Closed` (an own end past its critical
sections left no Session of its own, and freshness keeps it so).

| Theorem | Property |
| --- | --- |
| `TypeCorrect` | `TypeOK` |
| `SessionKept` | `BodyKeepsSession` |
| `OwnEndsClose` | `EndClosesSession` |
| `ClaimsAreKept` | `ClaimLostToOwnEnd` |
| `EndsAreFinal` | `EndIsFinal` |
| `RefinesSandbox` | `ImplementsSandbox`, assuming `"login" \notin Ops` |

### Sessions and gateways

**LoginSessionsProofs.** `Typed`, which includes that a request holds only rows
that exist, and `ChainKept`: each token issued to a session since its last login
and not `dropped` is `Kept` by its row, as the current token, or as the previous
one within a grace period that ends no earlier than the token; what is dropped is
neither. The step that
matters is a rotation while a previous token is still kept: the new
previous token pushes it out. `Kept` therefore also says that the previous token
had less than `Window` seconds left when the current one was issued; a token is
rotated only with less than `Window` left, and `2 * Window <= Life`, so when the
current one is due the one before has expired. `Window <= Grace` is what lets the
grace period cover the rest of a token's life. Both inequalities are used, and
`LifetimesAssumption` states them.

**MonitorGatewayProofs.** For links, `MintsAlone`: who is about to mint holds a
link that is gone from Redis, that no session came from, and that nobody else
holds. It is proved for the composition, so no socket or pub/sub step disturbs
it.

For the registry, the property needs what a removal does to a list under
iteration. The lemmas `RanksNumber` (the positions that stay are numbered from
one without a gap) and `WithoutKeepsOthers` (the new list has exactly the others,
each once if it was there once) say what `Without` returns for any list.
`CastsCover` is the strengthening: as long as nothing was removed under a
broadcast, everybody it has to reach was sent the message, found dead, or is
ahead of its position. A removal voids this (the code then does skip a socket),
and marks the broadcast `shrunk`; an append keeps it. `RegistryOK` says that the
list has no repetition and that the map names exactly the sockets in it. `TokensHeld` (a socket
past its handshake came with a session's token) ties the two halves together.

| Theorem | Property |
| --- | --- |
| `SessionTypes`, `RotationSafe` | `SessionTypeOK`, `RotationKeepsTokens` |
| `LinkRedeemedOnce` | `OneSessionPerLink` |
| `GatewayTypes` | `MonitorGatewayTypeOK` |
| `RegisteredAreServed` | `NoDeadRegistration` |
| `BroadcastsComplete` | `BroadcastReachesAll` |

### What a request passes through

All in **RequestProofs**.

*Access guard.* `BlockInv`: a block ends no later than its whole duration from
now, so doubling it can only move its end forward. `PassedCounted`: what was let
through in the current window is still counted, unless a block (which starts the
counter over) lasts until all of it has left the window. Hence the maximum holds
across blocks.

*Limiters.* `AdmissionsCounted` (admissions the window still sees are in the
sorted set) and `MembersNumbered` (the members of the current second have numbers
up to the size of the window, so the next member is new and the count really goes
up).

*Request log.* `TakenIsList`: what an undisturbed flush has read is still the
list, and is summarised before it deletes. `PushesFit`: the list plus the pushes
in flight stay within the cap plus the number of recorders, which is what makes a
check and a push in separate calls harmless.

*Cache.* `LockHeld` (who acquired the lock and was not robbed of it still has
it), `ReadFresh` (what a reader has read is current unless a commit overtook it)
and `StaleIsDoomed` (an entry that is stale without being late or missed will be
deleted by a writer that has yet to finish its scan).

| Theorem | Property |
| --- | --- |
| `BlocksGrow`, `AddressHitsBounded` | `BlocksOnlyGrow`, `HitsBounded` |
| `AdmissionsAreBounded` | `AdmissionsBounded` |
| `FlushKeepsEntries`, `ListIsBounded` | `QuietFlushLosesNothing`, `ListBounded` |
| `CacheTypes`, `StaleOnlyByRace`, `LockFreedOnlyByHolder` | `CacheTypeOK`, `StaleOnlyFromRace`, `LockFreedByHolder` |
| `RequestTypes` | `RequestsTypeOK` |

### What runs beside the requests

**ArchivalProofs.** For API logs, `SentIsSafe` and `GroupedIsSafe`: what the
archiver may remove and what the grouper may delete is already somewhere else,
in the terms of `Safe`. For the log of a run, `InHandStored` (the file in hand is in S3
before the row says so, and the row says so before the file goes) and
`PurgesOld` (a purge touches only what has expired, though it reads its list
first). For exports, `UploadsFresh`: for the lifetime of its token an uploaded
zip is at least as young as the upload and on no sweep's list, or was uploaded
again while it was.

**MigrationProofs.** Revisions are numbered so that parents come first
(`ParentsFirst`), so the closure of a revision has no number above its
own (`ClosureBelow`). `ReversibleIsWhatItSays` is the heart: if the dumps before and
after the trial match, the revision's `downgrade()` is an inverse, or its leftovers
were in the database before. `SandboxClean` says that for a target ahead of the
database they can only have been there because the real one has them;
`PlanCovers` that what the real upgrade will apply was validated or is still to
be, while nobody moves the real database; `real.applied \in Histories` that no
step leaves a revision without its ancestors.

**OperationsProofs.** Devices: `NewestStaysRegistered` is inductive once a socket
past its lookup is known to have a device (`Identified`). Supervision:
`StateFiles` (a file names two different processes, and a launcher that joins a
pair read a file that was there), `DogNamed` (what a watchdog is about to write
back names its session), `BasisNames` (a write that leaves a session in read a file
with its name) and `LeastIsUnborn`, which says that the pids a restart takes are
new. Roles: `DefaultsSeen` (a call that sets the default and
that nobody overlapped has seen every default there is, so it clears them all),
`LineageTransitive` and `DependenciesClosed` (what `WithDependencies` returns is
closed under the hierarchy), and `ToldAsAdmitted`: with at most one default, what
the client is told is what the middleware admits, for each user and each
override.

| Theorem | Property |
| --- | --- |
| `ArchiveTyped`, `NoLogFileLost` | `ArchiveTypeOK`, `LogsKept` |
| `LogsTyped`, `RunLogReachable` | `LogsTypeOK`, `LogReachable` |
| `ExportsTyped`, `LinksServed` | `ExportsTypeOK`, `LinkServes` |
| `MigrationTypes`, `VerdictIsHonest` | `MigrationTypeOK`, `VerdictHonest` |
| `DeviceTypes`, `NewestReachable` | `DeviceTypeOK`, `NewestStaysRegistered` |
| `SupervisorTypes`, `RunningSessionsListed` | `SupervisorTypeOK`, `SessionListed` |
| `PermissionsTypes`, `RolesAreSound` | `PermissionsTypeOK`, `RolesSound` |
| `OperationsTypes` | `OperationsTypeOK` |

These are theorems about the component's own specification; `RequestTypes` and
`OperationsTypes` are about the compositions that the runs `requests` and
`operations` check, and their invariants contain the components'.

### How recursion is reasoned about

Ancestors, in the code, are found by loops, and the obvious model is a recursive
function. Two things stand against it in a proof: the theorems that introduce
recursive definitions and induction take operators as parameters, which the
installed provers cannot instantiate. `Closure` and `Lineage` are therefore least
sets, about which one argues by giving a set that qualifies; and where numbers
matter, by the least number with a property (`LeastNumber`, from the
well-foundedness of `<`). `Without` is a function on positions given by their rank
for the same reason, and sorted sets are sets. TLC checks these definitions like
any others.

### Only model-checked

- Liveness: `ClaimReleased`, `WatchdogReclaims`, `StaleSessionClosed`,
  `RequestsReturn`, `RevokedSocketsClose`, `SilentSocketsClose`,
  `LifetimeEndsSockets`. Fairness and
  ENABLED are outside what the prover handles.
- The three violations, whose counterexamples TLC prints.
- `PendingMerge`, the recursive function over the lines of a history: no theorem
  says what it computes. `MigrationProofs` needs nothing of it: it decides how far
  back a plan for a target behind the database goes, whatever it returns.
- The registry inside `AppGateway`. Its list and its broadcasts are the
  `ConnectionManager` of `MonitorGateway`, but the theorems are about the latter.

## 10. Where the code and its documents disagree

| Run | Statement | What happens |
| --- | --- | --- |
| `session_deadlock` | `tests/impersonation/test_services_call.py:135`: "nested impersonation calls do not deadlock" | `/auth/logout` with an impersonation token ends the impersonation inside `services.call`, whose mutex `has_session` then waits for, on the event loop |
| `session_commit` | `tests/impersonation/test_services_call.py:104`: "impersonation calls only flush" | a login inside an impersonation commits the held Session with everything written in it (`user_sessions_resposity.py:214`) |
| `migration_alarm` | `run/migration_test.py:384` reports that a revision's "upgrade() and downgrade() are not structural inverses." | the check undoes a revision by a downgrade to its first parent (line 373), which undoes applied siblings as well; the second dump lacks their changes and an exact revision is rejected. Smallest case: two children of one revision, the database at one of them, the other validated |

## 11. What else the models show

Behaviour the traces show, that no run states as a property because no document
promises otherwise, or that a property excepts by name.

*Dispatch.* The watchdog may interrupt a run in progress: a task that moves from
reserved to active between the two broadcasts (`celery_liveness.py:9-10`), or
starts after them, is in neither answer. When the fence cannot be read the task
starts and its row stays queued (`task_tracking_service.py:40-46`), so a
redelivery passes the fence. When `set_last_enqueued_at` raises after the
publication, the claim is undone while the message is live
(`task_concurrency.py:330-334`), and the next trigger overlaps with it.

*Impersonation.* The claim's TTL usually removes the key before anybody can see
`is_expired`, so the audit row of an expired impersonation stays active
(`impersonation_lock.py:31`). A request that passed its checks while another one
logs the same impersonation out finds no Session, and its own
`end_impersonation` overwrites the reason `explicit_logout` by
`worker_crash_detected` (`impersonation_service.py:178-183`).

*Login sessions.* `logout` ends the user's latest active session, not the one of
the token that was sent (`auth_service.py:133-159`). A login that updates a row
leaves its previous token valid for what remains of the grace period, and one
that races a logout revives the row. At the end of an impersonation the
administrator's session gets a new token and keeps no previous one, so another
tab's request with the old token is refused at once. `Sec-Ch-Ua-Mobile` is "?0" or "?1", never a
word the device type looks for.

*Gateways.* Both gateways validate an open socket only when thirty seconds pass
without a message (`app/websocket/gateway.py:204`,
`apps/monitor/websocket/gateway.py:187`). A client that sends more often is never
checked again: its socket outlives the token's expiry, the user's deactivation
and, when the revocation is lost, the logout; on the monitor it outlives the
session's absolute lifetime. A monitor link whose redemption fails after the key was consumed is
lost. The e-mail's "idle for N minutes with no requests" (`run/admin.py:17`)
does not hold while a tab with an open socket renews the session. Blocks of the
access guard double without bound.

*Cache and request log.* Waiters compute too once the lock is gone. A request
that computes longer than the lock's thirty seconds deletes its successor's; a
write that commits while a handler computes leaves the old answer cached after
the scan. Entries pushed between the read and the delete of a flush are lost,
and two flushes count the same entries twice.

*Archival.* A day is grouped again when its folder is not empty: because deletions
failed after its zip was uploaded, because the worker died between them, or
because an upload into it came late. The second zip, of what the folder holds
then, is written over the first one (`replaced` in `LogsKept`), and the logs only
the first one had are lost. An analysis log that is uploaded while the purge, which
read its row before there was a path, deletes that row stays in S3 for good with
nothing that refers to it. A task run exported twice has one key: the first link then leads to a zip with the
other password, and a sweep that had listed the old zip as stale deletes the new
one (`overwritten` in `LinkServes`).

*Supervision.* A running session may lose its name in `celery.json` (`omitted` in
`SessionListed`): a launcher or watchdog writes back a file it read before the
session joined; a start replaces the file of a dead pair by one with its own name
alone, without any interleaving; or a read that meets a half-written file counts
as no file, and the start that follows replaces it. The next session to leave then
finds no other name and tears the pair down while the first one still runs, though
the usage text says that sessions share the pair, "torn down once no session needs
it anymore" (`run/scripts/start.py:361-364`); the watchdog of the first one sees
that its mode is not named and does nothing. The other way round, a torn read at
the exit of the last session leaves the pair and the file behind, and a stale
write-back brings the name of an ended session back. Two watchdogs that find the
pair dead both restart it. On POSIX a zombie answers
`kill(pid, 0)`, so a pair that died is taken for alive until its launcher reaps
it.

*Migrations.* For a target behind the database, the sandbox is first downgraded
through the revisions that are then validated, so leftovers that a second
upgrade copes with are in both dumps and pass. Leftovers of an earlier real
downgrade mask the same fault when a clone is validated.

*Roles.* Two overlapping `set_default_role` leave two defaults; a `delete_role`
that overlaps one deletes the new default; overlapping `update_role` calls may
leave the union of two grants when one of them changes nothing in the role's own
row and so takes no lock on it. When the suppression of admin mode expires in
Redis, full rights come back without a request.

## 12. What is not modelled

Components with status `not_modelled` in `PROJECT.json` have no interleaving of
their own: CRUD in one transaction, reporting queries and read models,
configuration, formatting, mail, S3 and encryption helpers, discovery by import,
the registration of jobs at startup. Feature requests are numbered by a count
and mailed before the commit; nothing else reads either. Of the migration
tooling, generating revision files, checking them as text and repairing
sequences is left out. Inside the modelled components, left out are the text of
logs and errors, durations and names in `task_run`, the JSON inside Redis
values, HTTP codes, the monitor's exemption of a local environment, and the demo
records an impersonated update touches beyond whose they are. Celery, Redis,
SQLAlchemy, Alembic and S3 are modelled only by what this code uses of them:
acknowledgement before or after the body, the visibility timeout, prefetch 1,
inspect broadcasts, `SET NX`, Lua scripts as one step, row-level upserts, READ
COMMITTED, downgrades that undo descendants, objects replaced by key.

## 13. Plan

1. The lemmas of `MonitorGatewayProofs` about `ConnectionManager`, applied to
   `AppGateway`: who is in its registry, and that its broadcasts reach all.
2. An abstract `Pool` that `TaskDispatch` implements (claims as indivisible
   grants), and an abstract archive that `ApiLogArchive` and `AnalysisLogs`
   implement, with both refinements proved.
3. `Supervisor` composed with `Restart` of `TaskDispatch`: which worker comes
   back, and when nobody brings one back.
4. Two watchdogs in `WatchdogReclaims`; two faults at the fence.
