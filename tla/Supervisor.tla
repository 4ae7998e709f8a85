----------------------------- MODULE Supervisor -----------------------------
(***************************************************************************)
(* python -m run start: launchers that start the servers of a session and  *)
(* share one Celery worker and beat through a file, celery.json, that each *)
(* of them reads and rewrites without a lock; every launcher also runs a   *)
(* watchdog thread over that file.                                         *)
(***************************************************************************)
EXTENDS Naturals, FiniteSets

CONSTANTS
    Launchers,  \* runs of the start command
    Modes,      \* modes they may be given, within AllModes
    Forceful,   \* launchers that may be given --force
    Windows,    \* os.name == "nt": no zombies, and a job object kills the servers
    MaxPid,     \* bound on the Celery processes ever started
    NoFile      \* no state file, no pending restart

Roles == {"main", "monitor", "impersonation"}
AllModes == Roles \cup {"full"}

ASSUME SupervisorAssumption == Modes \subseteq AllModes /\ Windows \in BOOLEAN
ASSUME MaxPidAssumption == MaxPid \in Nat
ASSUME NoFileAssumption ==
    /\ \A S \in SUBSET (Launchers \X Roles) : NoFile # S
    /\ \A w, b \in 1..MaxPid, M \in SUBSET AllModes :
          NoFile # [worker |-> w, beat |-> b, sessions |-> M]

VARIABLES
    step,       \* where main() of each launcher is
    mode,       \* its mode
    servers,    \* <<launcher, role>> of the server processes that are up
    sessionFile,\* mode -> the servers written to <mode>.json, or NoFile
    celery,     \* celery.json: worker, beat, sessions; or NoFile
    procs,      \* Celery pid -> "unborn", "up", "zombie" or "gone"
    parent,     \* Celery pid -> the launcher that started it
    seen,       \* celery.json as main() has read it, for the write that follows
    alarmed,    \* launchers whose watchdog has found one of the pair dead
    dog,        \* the watchdog thread: the celery.json it has read after that, or NoFile
    omitted     \* history: launchers left out, since they last wrote celery.json, by a write
                \* that was based on a file without their name

supervisorVars ==
    <<step, mode, servers, sessionFile, celery, procs, parent, seen, alarmed, dog, omitted>>

Pids == 1..MaxPid
ServersOfMode(m) == IF m = "full" THEN Roles ELSE {m}
ServersOf(l) == {<<l, r>> : r \in Roles}

SupervisorInit ==
    /\ step = [l \in Launchers |-> "off"]
    /\ mode \in [Launchers -> Modes]
    /\ servers = {}
    /\ sessionFile = [m \in AllModes |-> NoFile]
    /\ celery = NoFile
    /\ procs = [p \in Pids |-> "unborn"]
    /\ parent = [p \in Pids |-> NoFile]
    /\ seen = [l \in Launchers |-> NoFile]
    /\ dog = [l \in Launchers |-> NoFile]
    /\ alarmed = {}
    /\ omitted = {}

-----------------------------------------------------------------------------
\* is_pid_alive: kill(pid, 0) succeeds on a zombie too.
PidAlive(p) == procs[p] \in {"up", "zombie"}

\* A dead child is a zombie until its parent waits for it or is gone: nothing keeps
\* the Popen objects of the pair, so they are polled when the parent starts another.
Dead(p) ==
    IF ~Windows /\ step[parent[p]] \notin {"off", "refused", "done", "crashed"}
    THEN "zombie" ELSE "gone"

AfterKill(ps) == [p \in Pids |-> IF p \in ps /\ procs[p] = "up" THEN Dead(p) ELSE procs[p]]

Unborn == {p \in Pids : procs[p] = "unborn"}
LeastUnborn == CHOOSE p \in Unborn : \A q \in Unborn : p <= q

\* Popen of the pids by l, which reaps the children l has lost.
AfterSpawn(l, new) ==
    [p \in Pids |-> IF p \in new THEN "up"
                    ELSE IF parent[p] = l /\ procs[p] = "zombie" THEN "gone" ELSE procs[p]]

PairAlive(file) == file # NoFile => PidAlive(file.worker) /\ PidAlive(file.beat)

\* Names(file, m): celery.json as somebody has read it names mode m.
Names(file, m) == file # NoFile /\ m \in file.sessions

\* Launcher l replaces celery.json by what it has made of file, or deletes it.
Overwrite(l, file) ==
    omitted' = (omitted \cup {o \in Launchers : ~Names(file, mode[o])}) \ {l}

\* A launcher other than l may be writing celery.json: write_text truncates it first.
BeingWritten(l) ==
    \E o \in Launchers \ {l} :
        step[o] \in {"reuse", "spawn", "release"} \/ dog[o] # NoFile

\* What l may read: half a file is no file.
Readable(l) == {celery} \cup (IF BeingWritten(l) THEN {NoFile} ELSE {})

-----------------------------------------------------------------------------
(* main() *)

\* stop_session of every mode, then the Celery pair and its file.
ForceStop(l) ==
    /\ step[l] = "off" /\ l \in Forceful
    /\ servers' = servers \ UNION {sessionFile[m] : m \in {n \in AllModes :
                                                          sessionFile[n] # NoFile}}
    /\ sessionFile' = [m \in AllModes |-> NoFile]
    /\ \E file \in Readable(l) :
          IF file = NoFile THEN UNCHANGED <<procs, celery, omitted>>
          ELSE /\ procs' = AfterKill({file.worker, file.beat})
               /\ celery' = NoFile
               /\ Overwrite(l, NoFile)
    /\ step' = [step EXCEPT ![l] = "check"]
    /\ UNCHANGED <<mode, parent, seen, alarmed, dog>>

StartPlain(l) ==
    /\ step[l] = "off"
    /\ step' = [step EXCEPT ![l] = "check"]
    /\ UNCHANGED <<mode, servers, sessionFile, celery, procs, parent, seen, alarmed, dog, omitted>>

\* check_conflict, which forgets the files of sessions with no server left.
CheckConflict(l) ==
    LET rivals == IF mode[l] = "full" THEN Roles ELSE {"full", mode[l]}
        active == {m \in rivals : sessionFile[m] # NoFile /\ sessionFile[m] \cap servers # {}}
    IN  /\ step[l] = "check"
        /\ sessionFile' = [m \in AllModes |-> IF m \in rivals \ active THEN NoFile
                                              ELSE sessionFile[m]]
        /\ step' = [step EXCEPT ![l] = IF active # {} THEN "refused" ELSE "acquire"]
        /\ UNCHANGED <<mode, servers, celery, procs, parent, seen, alarmed, dog, omitted>>

\* acquire_celery reads the file and asks for the two pids (a tasklist process each on
\* Windows); main() reads it again on its way out.
ReadCelery(l) ==
    /\ step[l] \in {"acquire", "leave"}
    /\ \E file \in Readable(l) :
          /\ seen' = [seen EXCEPT ![l] = file]
          /\ step' = [step EXCEPT ![l] = IF @ = "leave" THEN "release"
                                        ELSE IF file # NoFile /\ PairAlive(file) THEN "reuse"
                                        ELSE "spawn"]
    /\ UNCHANGED <<mode, servers, sessionFile, celery, procs, parent, alarmed, dog, omitted>>

\* Mutant: the session reuses the pair without putting its name down.
JoinedUnnamed(file, m) == file

Joined(file, m) == [file EXCEPT !.sessions = @ \cup {m}]

ReusePair(l) ==
    /\ step[l] = "reuse"
    /\ celery' = Joined(seen[l], mode[l])
    /\ Overwrite(l, seen[l])
    /\ step' = [step EXCEPT ![l] = "launch"]
    /\ UNCHANGED <<mode, servers, sessionFile, procs, parent, seen, alarmed, dog>>

\* The file is written when both are up, in place of one whose pair was dead and that
\* may have named other sessions.
SpawnPair(l) ==
    LET w == LeastUnborn
        b == w + 1
    IN  /\ step[l] = "spawn" /\ Cardinality(Unborn) >= 2
        /\ procs' = AfterSpawn(l, {w, b})
        /\ parent' = [parent EXCEPT ![w] = l, ![b] = l]
        /\ celery' = [worker |-> w, beat |-> b, sessions |-> {mode[l]}]
        /\ Overwrite(l, NoFile)
        /\ step' = [step EXCEPT ![l] = "launch"]
        /\ UNCHANGED <<mode, servers, sessionFile, seen, alarmed, dog>>

ModeServers(l) == {<<l, r>> : r \in ServersOfMode(mode[l])}

\* The servers of the mode, one Popen after the other; one that raises leaves the
\* earlier ones running.
LaunchServers(l) ==
    /\ step[l] = "launch"
    /\ \/ /\ servers' = servers \cup ModeServers(l)
          /\ step' = [step EXCEPT ![l] = "record"]
       \/ /\ \E some \in SUBSET ModeServers(l) \ {ModeServers(l)} :
                servers' = servers \cup some
          /\ step' = [step EXCEPT ![l] = "stop"]
    /\ procs' = AfterSpawn(l, {})
    /\ UNCHANGED <<mode, sessionFile, celery, parent, seen, alarmed, dog, omitted>>

\* write_state: until now no conflict check knew of these servers.
RecordServers(l) ==
    /\ step[l] = "record"
    /\ sessionFile' = [sessionFile EXCEPT ![mode[l]] = ModeServers(l)]
    /\ step' = [step EXCEPT ![l] = "wait"]
    /\ UNCHANGED <<mode, servers, celery, procs, parent, seen, alarmed, dog, omitted>>

\* The server waited for has ended, Ctrl-C, or a Popen that raises: to the finally block.
Leave(l) ==
    /\ step[l] \in {"acquire", "reuse", "spawn", "launch", "record", "wait"}
    /\ step' = [step EXCEPT ![l] = "stop"]
    /\ UNCHANGED <<mode, servers, sessionFile, celery, procs, parent, seen, alarmed, dog, omitted>>

\* finally: the watchdog is given five seconds, and the servers are terminated, ...
Terminate(l) ==
    /\ step[l] = "stop"
    /\ servers' = servers \ ServersOf(l)
    /\ step' = [step EXCEPT ![l] = "leave"]
    /\ UNCHANGED <<mode, sessionFile, celery, procs, parent, seen, alarmed, dog, omitted>>

LeftOver(file, m) == file.sessions \ {m}

\* The last session named in the file tears the pair down.
TearsDown(l) == step[l] = "release" /\ seen[l] # NoFile /\ LeftOver(seen[l], mode[l]) = {}

\* ... release_celery writes what it has read without the session, or stops the pair;
\* delete_state follows. The launcher is gone after this, and init reaps what it leaves.
Release(l) ==
    /\ step[l] = "release"
    /\ celery' = IF seen[l] = NoFile THEN celery
                 ELSE IF TearsDown(l) THEN NoFile
                 ELSE [seen[l] EXCEPT !.sessions = LeftOver(seen[l], mode[l])]
    /\ IF seen[l] = NoFile THEN UNCHANGED omitted ELSE Overwrite(l, seen[l])
    /\ LET killed == IF TearsDown(l) THEN AfterKill({seen[l].worker, seen[l].beat}) ELSE procs
       IN  procs' = [p \in Pids |-> IF parent[p] = l /\ killed[p] = "zombie" THEN "gone"
                                    ELSE killed[p]]
    /\ sessionFile' = [sessionFile EXCEPT ![mode[l]] = NoFile]
    /\ step' = [step EXCEPT ![l] = "done"]
    /\ seen' = [seen EXCEPT ![l] = NoFile]
    /\ dog' = [dog EXCEPT ![l] = NoFile]
    /\ alarmed' = alarmed \ {l}
    /\ UNCHANGED <<mode, servers, parent>>

\* The launcher is killed: on Windows the job object takes its servers along.
Crash(l) ==
    /\ step[l] \notin {"off", "refused", "done", "crashed"}
    /\ step' = [step EXCEPT ![l] = "crashed"]
    /\ servers' = IF Windows THEN servers \ ServersOf(l) ELSE servers
    /\ procs' = [p \in Pids |-> IF parent[p] = l /\ procs[p] = "zombie" THEN "gone" ELSE procs[p]]
    /\ seen' = [seen EXCEPT ![l] = NoFile]
    /\ dog' = [dog EXCEPT ![l] = NoFile]
    /\ alarmed' = alarmed \ {l}
    /\ UNCHANGED <<mode, sessionFile, celery, parent, omitted>>

-----------------------------------------------------------------------------
(* ensure_celery_alive, in the watchdog thread of a session *)

\* Every fifteen seconds: the file names the session and one of its pids is dead.
WatchdogReads(l) ==
    /\ step[l] \in {"launch", "record", "wait"} /\ l \notin alarmed /\ dog[l] = NoFile
    /\ Names(celery, mode[l]) /\ ~PairAlive(celery)
    /\ alarmed' = alarmed \cup {l}
    /\ UNCHANGED <<step, mode, servers, sessionFile, celery, procs, parent, seen, dog, omitted>>

\* Then the file is read once more, whatever its pids are by now.
WatchdogRereads(l) ==
    /\ l \in alarmed
    /\ alarmed' = alarmed \ {l}
    /\ \E file \in Readable(l) :
          dog' = [dog EXCEPT ![l] = IF Names(file, mode[l]) THEN file ELSE NoFile]
    /\ UNCHANGED <<step, mode, servers, sessionFile, celery, procs, parent, seen, omitted>>

\* Whichever of the two is dead is started again, and the file as it was read is
\* written back, with the new pid if there is one.
WatchdogRestarts(l) ==
    LET file == dog[l]
        lost == {p \in {file.worker, file.beat} : ~PidAlive(p)}
        w == IF file.worker \in lost THEN LeastUnborn ELSE file.worker
        b == IF file.beat \notin lost THEN file.beat
             ELSE IF file.worker \in lost THEN LeastUnborn + 1 ELSE LeastUnborn
        new == {w, b} \ {file.worker, file.beat}
    IN  /\ file # NoFile /\ Cardinality(Unborn) >= Cardinality(lost)
        /\ procs' = IF new = {} THEN procs ELSE AfterSpawn(l, new)
        /\ parent' = [p \in Pids |-> IF p \in new THEN l ELSE parent[p]]
        /\ celery' = [file EXCEPT !.worker = w, !.beat = b]
        /\ Overwrite(l, file)
        /\ dog' = [dog EXCEPT ![l] = NoFile]
        /\ UNCHANGED <<step, mode, servers, sessionFile, seen, alarmed>>

-----------------------------------------------------------------------------
CeleryDies(p) ==
    /\ procs[p] = "up"
    /\ procs' = AfterKill({p})
    /\ UNCHANGED <<step, mode, servers, sessionFile, celery, parent, seen, alarmed, dog, omitted>>

ServerDies(s) ==
    /\ s \in servers
    /\ servers' = servers \ {s}
    /\ UNCHANGED <<step, mode, sessionFile, celery, procs, parent, seen, alarmed, dog, omitted>>

SupervisorNext ==
    \/ \E l \in Launchers :
        \/ ForceStop(l) \/ StartPlain(l) \/ CheckConflict(l)
        \/ ReadCelery(l) \/ ReusePair(l) \/ SpawnPair(l)
        \/ LaunchServers(l) \/ RecordServers(l)
        \/ Leave(l) \/ Terminate(l) \/ Release(l) \/ Crash(l)
        \/ WatchdogReads(l) \/ WatchdogRereads(l) \/ WatchdogRestarts(l)
    \/ \E p \in Pids : CeleryDies(p)
    \/ \E s \in Launchers \X Roles : ServerDies(s)

SupervisorSpec == SupervisorInit /\ [][SupervisorNext]_supervisorVars

-----------------------------------------------------------------------------
SupervisorTypeOK ==
    /\ step \in [Launchers -> {"off", "check", "refused", "acquire", "reuse", "spawn",
                               "launch", "record", "wait", "stop", "leave", "release",
                               "done", "crashed"}]
    /\ mode \in [Launchers -> Modes]
    /\ servers \subseteq Launchers \X Roles
    /\ sessionFile \in [AllModes -> (SUBSET (Launchers \X Roles)) \cup {NoFile}]
    /\ celery \in [worker: Pids, beat: Pids, sessions: SUBSET AllModes] \cup {NoFile}
    /\ procs \in [Pids -> {"unborn", "up", "zombie", "gone"}]
    /\ parent \in [Pids -> Launchers \cup {NoFile}]
    /\ seen \in [Launchers -> [worker: Pids, beat: Pids, sessions: SUBSET AllModes] \cup {NoFile}]
    /\ dog \in [Launchers -> [worker: Pids, beat: Pids, sessions: SUBSET AllModes] \cup {NoFile}]
    /\ alarmed \subseteq Launchers
    /\ omitted \subseteq Launchers

\* A running session with a mode of its own is named in celery.json, so that no other
\* session's exit takes its Celery pair away, however the launchers and their watchdogs
\* read, restart and write in between: only a write whose author had read the file
\* without that name loses it, because the read came before the session had put it
\* down, met half a file, or showed a dead pair, which a start replaces with its name
\* alone; and so does --force.  (Sessions of one mode share a name; the conflict check
\* keeps them apart only once the first has recorded its servers.)
SessionListed ==
    \A l \in Launchers :
        /\ step[l] \in {"launch", "record", "wait"} /\ l \notin omitted
        /\ \A o \in Launchers \ {l} : mode[o] # mode[l]
        => Names(celery, mode[l])

=============================================================================
