-------------------------- MODULE OperationsProofs --------------------------
(***************************************************************************)
(* TLAPS proofs about DeviceIdentity, Supervisor and Permissions, for any  *)
(* sockets and codes, any launchers, modes and process ids, and any roles, *)
(* users, groups and calls; and the types of all the components that run   *)
(* beside the request path.                                                *)
(***************************************************************************)
EXTENDS MCOperations, ArchivalProofs, MigrationProofs, FiniteSetTheorems, TLAPS

(***************************************************************************)
(* Device identity                                                         *)
(***************************************************************************)
Identified ==
    \A s \in DeviceSockets : shake[s] \in {"answer", "open"} => identity[s] \in DeviceCodes

DeviceInv == DeviceTypeOK /\ Identified /\ NewestStaysRegistered

-----------------------------------------------------------------------------
LEMMA DeviceInitially == DeviceInit => DeviceInv
BY AttemptsAssumption DEF DeviceInit, DeviceInv, DeviceTypeOK, Identified, NewestStaysRegistered

LEMMA DeviceTypeStep ==
    ASSUME DeviceInv, DeviceNext PROVE DeviceTypeOK' /\ Identified'
<1> USE AttemptsAssumption, DeviceAssumption DEF DeviceInv, DeviceTypeOK, Identified
<1>1. ASSUME NEW s \in DeviceSockets, DeviceConnect(s) PROVE DeviceTypeOK' /\ Identified'
  BY <1>1 DEF DeviceConnect
<1>2. ASSUME NEW s \in DeviceSockets, Resolve(s) PROVE DeviceTypeOK' /\ Identified'
  BY <1>2 DEF Resolve
<1>3. ASSUME NEW s \in DeviceSockets, RegisterDevice(s) PROVE DeviceTypeOK' /\ Identified'
  BY <1>3 DEF RegisterDevice
<1>4. ASSUME NEW s \in DeviceSockets, GiveUp(s) PROVE DeviceTypeOK' /\ Identified'
  BY <1>4 DEF GiveUp
<1>5. ASSUME NEW s \in DeviceSockets, Disconnect(s) PROVE DeviceTypeOK' /\ Identified'
  BY <1>5 DEF Disconnect, Own
<1>6. ASSUME NEW s \in DeviceSockets, NEW d \in devices \cup {NoDevice}, Present(s, d)
      PROVE  DeviceTypeOK' /\ Identified'
  BY <1>6 DEF Present
<1>7. ASSUME NEW s \in DeviceSockets, NEW d \in DeviceCodes, TryCode(s, d)
      PROVE  DeviceTypeOK' /\ Identified'
  <2>1. CASE d \in devices
    <3>1. attempts[s] + 1 \in 0..MaxAttempts
      BY <1>7 DEF TryCode, TriesLeft
    <3>2. QED
      BY <1>7, <2>1, <3>1 DEF TryCode
  <2>2. CASE d \notin devices
    BY <1>7, <2>2 DEF TryCode
  <2>3. QED
    BY <2>1, <2>2
<1>8. CASE RestartServer
  BY <1>8 DEF RestartServer
<1>9. QED
  BY <1>1, <1>2, <1>3, <1>4, <1>5, <1>6, <1>7, <1>8 DEF DeviceNext

(* Registering takes the place of whoever had it; ending frees the place   *)
(* only when the socket still has it.                                      *)
LEMMA DeviceRegistryStep ==
    ASSUME DeviceInv, DeviceNext PROVE NewestStaysRegistered'
<1> USE DeviceAssumption DEF DeviceInv, NewestStaysRegistered
<1>1. ASSUME NEW s \in DeviceSockets, DeviceConnect(s) PROVE NewestStaysRegistered'
  BY <1>1 DEF DeviceConnect, DeviceTypeOK
<1>2. ASSUME NEW s \in DeviceSockets, Resolve(s) PROVE NewestStaysRegistered'
  BY <1>2 DEF Resolve, DeviceTypeOK
<1>3. ASSUME NEW s \in DeviceSockets, RegisterDevice(s) PROVE NewestStaysRegistered'
  BY <1>3 DEF RegisterDevice, DeviceTypeOK, Identified
<1>4. ASSUME NEW s \in DeviceSockets, GiveUp(s) PROVE NewestStaysRegistered'
  BY <1>4 DEF GiveUp, DeviceTypeOK
<1>5. ASSUME NEW s \in DeviceSockets, Disconnect(s) PROVE NewestStaysRegistered'
  <2> DEFINE place == Own(s, identity[s])
  <2>1. \A d \in DeviceCodes : d = place <=> registry[d] = s
    BY <1>5 DEF Disconnect, Own, DeviceTypeOK, Identified
  <2>2. QED
    BY <1>5, <2>1 DEF Disconnect, DeviceTypeOK
<1>6. ASSUME NEW s \in DeviceSockets, NEW d \in devices \cup {NoDevice}, Present(s, d)
      PROVE  NewestStaysRegistered'
  BY <1>6 DEF Present, DeviceTypeOK
<1>7. ASSUME NEW s \in DeviceSockets, NEW d \in DeviceCodes, TryCode(s, d)
      PROVE  NewestStaysRegistered'
  BY <1>7 DEF TryCode, DeviceTypeOK
<1>8. CASE RestartServer
  BY <1>8 DEF RestartServer
<1>9. QED
  BY <1>1, <1>2, <1>3, <1>4, <1>5, <1>6, <1>7, <1>8 DEF DeviceNext

LEMMA DeviceStep ==
    ASSUME DeviceInv, [DeviceNext]_deviceVars PROVE DeviceInv'
<1>1. CASE DeviceNext
  BY <1>1, DeviceTypeStep, DeviceRegistryStep DEF DeviceInv
<1>2. CASE UNCHANGED deviceVars
  BY <1>2 DEF DeviceInv, DeviceTypeOK, Identified, NewestStaysRegistered, deviceVars
<1>3. QED
  BY <1>1, <1>2

LEMMA DeviceInductive == DeviceSpec => []DeviceInv
BY DeviceInitially, DeviceStep, PTL DEF DeviceSpec

(* Type correctness: no more than MaxAttempts codes are tried for a socket, *)
(* and codes and sockets stay what they are.                               *)
THEOREM DeviceTypes == DeviceSpec => []DeviceTypeOK
BY DeviceInductive, PTL DEF DeviceInv

(* device_gateway: however the connections of one device overlap, the one  *)
(* registered last is the one its code finds until it ends.                *)
THEOREM NewestReachable == DeviceSpec => []NewestStaysRegistered
BY DeviceInductive, PTL DEF DeviceInv

(***************************************************************************)
(* Process supervision                                                     *)
(***************************************************************************)
Statuses == {"unborn", "up", "zombie", "gone"}
File == {f \in [worker: Pids, beat: Pids, sessions: SUBSET AllModes] : f.worker # f.beat}

(* A file names two processes; what main() is about to write back was      *)
(* there when it was read.                                                 *)
StateFiles ==
    /\ celery \in File \cup {NoFile}
    /\ seen \in [Launchers -> File \cup {NoFile}]
    /\ dog \in [Launchers -> File \cup {NoFile}]
    /\ \A l \in Launchers : step[l] = "reuse" => seen[l] # NoFile

(* The file a watchdog writes back names its session.                      *)
DogNamed == \A l \in Launchers : dog[l] # NoFile => Names(dog[l], mode[l])

SupervisorInv == SupervisorTypeOK /\ StateFiles /\ DogNamed /\ SessionListed

LEMMA PidsAreNumbers == Pids \subseteq Nat /\ IsFiniteSet(Unborn) /\ Unborn \subseteq Pids
<1>1. IsFiniteSet(Pids)
  BY FS_Interval, MaxPidAssumption DEF Pids
<1>2. Pids \subseteq Nat /\ Unborn \subseteq Pids
  BY MaxPidAssumption DEF Pids, Unborn
<1>3. QED
  BY <1>1, <1>2, FS_Subset

LEMMA LeastIsUnborn ==
    ASSUME Unborn # {} PROVE LeastUnborn \in Unborn /\ \A q \in Unborn : LeastUnborn <= q
BY PidsAreNumbers, LeastNumber DEF LeastUnborn

LEMMA TwoPids ==
    ASSUME Cardinality(Unborn) >= 2
    PROVE  LeastUnborn \in Pids /\ LeastUnborn + 1 \in Pids
<1>1. Unborn # {}
  BY FS_EmptySet
<1>2. LeastUnborn \in Unborn /\ \A q \in Unborn : LeastUnborn <= q
  BY <1>1, LeastIsUnborn
<1>3. PICK q \in Unborn : q # LeastUnborn
  <2>1. Unborn # {LeastUnborn}
    <3>1. Cardinality({LeastUnborn}) = 1
      BY FS_Singleton
    <3>2. QED
      BY <3>1
  <2>2. QED
    BY <1>1, <2>1
<1>4. QED
  BY <1>2, <1>3, PidsAreNumbers, MaxPidAssumption DEF Pids

LEMMA OnePid ==
    ASSUME Cardinality(Unborn) >= 1
    PROVE  LeastUnborn \in Pids
<1>1. Unborn # {}
  BY FS_EmptySet
<1>2. QED
  BY <1>1, LeastIsUnborn, PidsAreNumbers

LEMMA ProcessTypes ==
    ASSUME SupervisorTypeOK, NEW ps
    PROVE  AfterKill(ps) \in [Pids -> Statuses]
BY DEF Statuses, AfterKill, Dead, SupervisorTypeOK

LEMMA SpawnTypes ==
    ASSUME SupervisorTypeOK, NEW l, NEW ps
    PROVE  AfterSpawn(l, ps) \in [Pids -> Statuses]
BY DEF Statuses, AfterSpawn, SupervisorTypeOK

LEMMA SupervisorInitially == SupervisorInit => SupervisorInv
BY DEF SupervisorInit, SupervisorInv, SupervisorTypeOK, StateFiles, DogNamed, SessionListed

LEMMA NoFileIsNoRecord ==
    /\ NoFile \notin SUBSET (Launchers \X Roles)
    /\ NoFile \notin [worker: Pids, beat: Pids, sessions: SUBSET AllModes]
<1>1. NoFile \notin SUBSET (Launchers \X Roles)
  BY NoFileAssumption
<1>2. ASSUME NEW f \in [worker: Pids, beat: Pids, sessions: SUBSET AllModes] PROVE NoFile # f
  <2>1. f = [worker |-> f.worker, beat |-> f.beat, sessions |-> f.sessions]
    OBVIOUS
  <2>2. f.worker \in 1..MaxPid /\ f.beat \in 1..MaxPid /\ f.sessions \in SUBSET AllModes
    BY DEF Pids
  <2>3. QED
    BY <2>1, <2>2, NoFileAssumption
<1>3. QED
  BY <1>1, <1>2

LEMMA NoFileIsNoFile == NoFile \notin File
BY NoFileIsNoRecord DEF File

LEMMA FileFields ==
    ASSUME NEW f \in File
    PROVE  /\ f.worker \in Pids /\ f.beat \in Pids /\ f.worker # f.beat
           /\ f.sessions \subseteq AllModes
BY DEF File

LEMMA SessionsChanged ==
    ASSUME NEW f \in File, NEW m \in SUBSET AllModes
    PROVE  [f EXCEPT !.sessions = m] \in File
BY DEF File

LEMMA PidsChanged ==
    ASSUME NEW f \in File, NEW w \in Pids, NEW b \in Pids, w # b
    PROVE  /\ [f EXCEPT !.worker = w, !.beat = b] \in File
           /\ [f EXCEPT !.worker = w, !.beat = b].sessions = f.sessions
BY DEF File

LEMMA FileIsTyped ==
    ASSUME NEW f \in File \cup {NoFile}
    PROVE  f \in [worker: Pids, beat: Pids, sessions: SUBSET AllModes] \cup {NoFile}
BY DEF File

(* The pids a restart chooses.                                             *)
LEMMA RestartPids ==
    ASSUME NEW f \in File,
           Cardinality(Unborn) >= Cardinality({p \in {f.worker, f.beat} : ~PidAlive(p)})
    PROVE  LET lost == {p \in {f.worker, f.beat} : ~PidAlive(p)}
               w == IF f.worker \in lost THEN LeastUnborn ELSE f.worker
               b == IF f.beat \notin lost THEN f.beat
                    ELSE IF f.worker \in lost THEN LeastUnborn + 1 ELSE LeastUnborn
           IN  w \in Pids /\ b \in Pids /\ w # b
<1> DEFINE lost == {p \in {f.worker, f.beat} : ~PidAlive(p)}
<1>1. f.worker \in Pids /\ f.beat \in Pids /\ f.worker # f.beat
  BY FileFields
<1>2. Cardinality(Unborn) \in Nat
  BY PidsAreNumbers, FS_CardinalityType
<1>3. ASSUME Unborn # {} PROVE \A p \in Pids : PidAlive(p) => p # LeastUnborn
  BY <1>3, LeastIsUnborn DEF Unborn, PidAlive
<1>4. CASE lost = {}
  BY <1>1, <1>4
<1>5. CASE lost = {f.worker}
  <2>1. Cardinality(Unborn) >= 1
    BY <1>5, FS_Singleton
  <2>2. Unborn # {}
    BY <2>1, FS_EmptySet
  <2>3. PidAlive(f.beat) /\ f.beat \notin lost
    BY <1>1, <1>5
  <2>4. QED
    BY <1>1, <1>3, <1>5, <2>1, <2>2, <2>3, OnePid
<1>6. CASE lost = {f.beat}
  <2>1. Cardinality(Unborn) >= 1
    BY <1>6, FS_Singleton
  <2>2. Unborn # {}
    BY <2>1, FS_EmptySet
  <2>3. PidAlive(f.worker) /\ f.worker \notin lost
    BY <1>1, <1>6
  <2>4. QED
    BY <1>1, <1>3, <1>6, <2>1, <2>2, <2>3, OnePid
<1>7. CASE lost = {f.worker, f.beat}
  <2>1. Cardinality({f.worker} \cup {f.beat}) = 2
    <3>1. IsFiniteSet({f.worker}) /\ Cardinality({f.worker}) = 1
      BY FS_Singleton
    <3>2. QED
      BY <1>1, <3>1, FS_AddElement
  <2>2. {f.worker} \cup {f.beat} = {f.worker, f.beat}
    OBVIOUS
  <2>3. Cardinality(Unborn) >= 2
    BY <1>7, <2>1, <2>2
  <2>4. LeastUnborn \in Nat
    BY <2>3, TwoPids, PidsAreNumbers
  <2>5. QED
    BY <1>7, <2>3, <2>4, TwoPids
<1>8. QED
  BY <1>4, <1>5, <1>6, <1>7

-----------------------------------------------------------------------------
LEMMA StateStep ==
    ASSUME SupervisorInv, SupervisorNext PROVE SupervisorTypeOK' /\ StateFiles'
<1> USE NoFileIsNoFile DEF SupervisorInv
<1> DEFINE Good == SupervisorTypeOK' /\ StateFiles'
<1> USE DEF SupervisorTypeOK, StateFiles
<1>1. ASSUME NEW l \in Launchers, ForceStop(l) PROVE Good
  <2>1. PICK file \in Readable(l) :
          IF file = NoFile THEN UNCHANGED <<procs, celery, omitted>>
          ELSE /\ procs' = AfterKill({file.worker, file.beat})
               /\ celery' = NoFile
               /\ Overwrite(l, NoFile)
    BY <1>1 DEF ForceStop
  <2>2. /\ procs' \in [Pids -> Statuses] /\ celery' \in File \cup {NoFile}
        /\ omitted' \subseteq Launchers
    BY <2>1, ProcessTypes DEF Overwrite, Statuses
  <2>3. QED
    BY <1>1, <2>2, FileIsTyped DEF ForceStop, Statuses
<1>2. ASSUME NEW l \in Launchers, StartPlain(l) PROVE Good
  BY <1>2 DEF StartPlain
<1>3. ASSUME NEW l \in Launchers, CheckConflict(l) PROVE Good
  BY <1>3 DEF CheckConflict
<1>4. ASSUME NEW l \in Launchers, ReadCelery(l) PROVE Good
  <2>1. Readable(l) \subseteq File \cup {NoFile}
    BY DEF Readable
  <2>2. QED
    BY <1>4, <2>1, FileIsTyped DEF ReadCelery
<1>5. ASSUME NEW l \in Launchers, ReusePair(l) PROVE Good
  <2>1. Joined(seen[l], mode[l]) \in File
    <3>1. seen[l].sessions \cup {mode[l]} \subseteq AllModes
      BY <1>5, FileFields, SupervisorAssumption DEF ReusePair
    <3>2. QED
      BY <1>5, <3>1, SessionsChanged DEF ReusePair, Joined
  <2>2. QED
    BY <1>5, <2>1, FileIsTyped DEF ReusePair, Overwrite
<1>6. ASSUME NEW l \in Launchers, SpawnPair(l) PROVE Good
  <2> DEFINE pair == [worker |-> LeastUnborn, beat |-> LeastUnborn + 1, sessions |-> {mode[l]}]
  <2>1. LeastUnborn \in Pids /\ LeastUnborn + 1 \in Pids /\ LeastUnborn # LeastUnborn + 1
    BY <1>6, TwoPids, PidsAreNumbers DEF SpawnPair
  <2>2. pair \in File
    BY <2>1, SupervisorAssumption DEF File
  <2>3. AfterSpawn(l, {LeastUnborn, LeastUnborn + 1}) \in [Pids -> Statuses]
    BY SpawnTypes
  <2>4. /\ celery' \in File /\ procs' \in [Pids -> Statuses]
        /\ parent' \in [Pids -> Launchers \cup {NoFile}]
    BY <1>6, <2>1, <2>2, <2>3 DEF SpawnPair
  <2>5. QED
    BY <1>6, <2>4, FileIsTyped DEF SpawnPair, Overwrite, Statuses
<1>7. ASSUME NEW l \in Launchers, LaunchServers(l) \/ RecordServers(l) PROVE Good
  <2>1. ServersOfMode(mode[l]) \subseteq Roles
    BY SupervisorAssumption DEF ServersOfMode, AllModes
  <2>2. ModeServers(l) \subseteq Launchers \X Roles
    BY <2>1 DEF ModeServers
  <2>3. CASE LaunchServers(l)
    <3>1. servers' \subseteq Launchers \X Roles
      BY <2>2, <2>3 DEF LaunchServers
    <3>2. /\ step' \in [Launchers -> {"off", "check", "refused", "acquire", "reuse", "spawn",
                                     "launch", "record", "wait", "stop", "leave", "release",
                                     "done", "crashed"}]
          /\ \A m \in Launchers : step'[m] = "reuse" => step[m] = "reuse"
      BY <2>3 DEF LaunchServers
    <3>3. QED
      BY <2>3, <3>1, <3>2, SpawnTypes DEF LaunchServers, Statuses
  <2>4. CASE RecordServers(l)
    BY <2>2, <2>4 DEF RecordServers
  <2>5. QED
    BY <1>7, <2>3, <2>4
<1>8. ASSUME NEW l \in Launchers, Leave(l) PROVE Good
  BY <1>8 DEF Leave
<1>9. ASSUME NEW l \in Launchers, Terminate(l) PROVE Good
  BY <1>9 DEF Terminate
<1>10. ASSUME NEW l \in Launchers, Release(l) PROVE Good
  <2>1. celery' \in File \cup {NoFile}
    <3>1. CASE seen[l] = NoFile \/ TearsDown(l)
      BY <1>10, <3>1 DEF Release
    <3>2. CASE seen[l] # NoFile /\ ~TearsDown(l)
      <4>1. LeftOver(seen[l], mode[l]) \subseteq AllModes
        BY <3>2, FileFields DEF LeftOver
      <4>2. QED
        BY <1>10, <3>2, <4>1, SessionsChanged DEF Release
    <3>3. QED
      BY <3>1, <3>2
  <2>2. procs' \in [Pids -> Statuses]
    <3> DEFINE killed == IF TearsDown(l) THEN AfterKill({seen[l].worker, seen[l].beat}) ELSE procs
    <3>1. killed \in [Pids -> Statuses]
      BY ProcessTypes DEF Statuses
    <3> HIDE DEF killed
    <3>2. procs' = [p \in Pids |-> IF parent[p] = l /\ killed[p] = "zombie" THEN "gone"
                                   ELSE killed[p]]
      BY <1>10 DEF Release, killed
    <3>3. QED
      BY <3>1, <3>2 DEF Statuses
  <2>3. omitted' \subseteq Launchers
    BY <1>10 DEF Release, Overwrite
  <2>4. QED
    BY <1>10, <2>1, <2>2, <2>3, FileIsTyped DEF Release, Statuses
<1>11. ASSUME NEW l \in Launchers, Crash(l) PROVE Good
  BY <1>11 DEF Crash
<1>12. ASSUME NEW l \in Launchers, WatchdogReads(l) \/ WatchdogRereads(l) PROVE Good
  <2>1. CASE WatchdogReads(l)
    BY <2>1 DEF WatchdogReads
  <2>2. CASE WatchdogRereads(l)
    <3>1. Readable(l) \subseteq File \cup {NoFile}
      BY DEF Readable
    <3>2. dog' \in [Launchers -> File \cup {NoFile}]
      BY <2>2, <3>1 DEF WatchdogRereads
    <3>3. QED
      BY <2>2, <3>2, FileIsTyped DEF WatchdogRereads
  <2>3. QED
    BY <1>12, <2>1, <2>2
<1>13. ASSUME NEW l \in Launchers, WatchdogRestarts(l) PROVE Good
  <2> DEFINE file == dog[l]
             lost == {p \in {file.worker, file.beat} : ~PidAlive(p)}
             w == IF file.worker \in lost THEN LeastUnborn ELSE file.worker
             b == IF file.beat \notin lost THEN file.beat
                  ELSE IF file.worker \in lost THEN LeastUnborn + 1 ELSE LeastUnborn
  <2>1. file \in File
    BY <1>13 DEF WatchdogRestarts
  <2>2. w \in Pids /\ b \in Pids /\ w # b
    BY <1>13, <2>1, RestartPids DEF WatchdogRestarts
  <2>3. celery' \in File
    <3>1. celery' = [file EXCEPT !.worker = w, !.beat = b]
      BY <1>13 DEF WatchdogRestarts
    <3>2. [file EXCEPT !.worker = w, !.beat = b] \in File
      <4> HIDE DEF file, w, b
      <4>1. QED
        BY <2>1, <2>2, PidsChanged
    <3>3. QED
      BY <3>1, <3>2
  <2>4. procs' \in [Pids -> Statuses]
    BY <1>13, SpawnTypes DEF WatchdogRestarts, Statuses
  <2>5. parent' \in [Pids -> Launchers \cup {NoFile}]
    BY <1>13 DEF WatchdogRestarts
  <2>6. dog' = [dog EXCEPT ![l] = NoFile] /\ omitted' \subseteq Launchers
        /\ UNCHANGED <<step, mode, servers, sessionFile, seen, alarmed>>
    BY <1>13 DEF WatchdogRestarts, Overwrite
  <2>7. QED
    BY <2>3, <2>4, <2>5, <2>6, FileIsTyped DEF Statuses
<1>14. ASSUME NEW p \in Pids, CeleryDies(p) PROVE Good
  BY <1>14, ProcessTypes DEF CeleryDies, Statuses
<1>15. ASSUME NEW s \in Launchers \X Roles, ServerDies(s) PROVE Good
  BY <1>15 DEF ServerDies
<1>16. QED
  BY <1>1, <1>2, <1>3, <1>4, <1>5, <1>6, <1>7, <1>8, <1>9, <1>10, <1>11, <1>12, <1>13, <1>14,
     <1>15 DEF SupervisorNext

-----------------------------------------------------------------------------
(* Whoever a write has not left out was named in what it was based on.     *)
LEMMA BasisNames ==
    ASSUME NEW k \in Launchers, NEW l \in Launchers \ {k}, NEW file, Overwrite(k, file),
           l \notin omitted'
    PROVE  Names(file, mode[l])
BY DEF Overwrite

LEMMA ListedStep ==
    ASSUME SupervisorInv, SupervisorNext PROVE SessionListed'
<1> DEFINE Running == {"launch", "record", "wait"}
<1> SUFFICES ASSUME NEW l \in Launchers, step'[l] \in Running, l \notin omitted',
                    \A o \in Launchers \ {l} : mode'[o] # mode'[l]
             PROVE  Names(celery, mode[l])'
  BY DEF SessionListed
<1> USE NoFileIsNoFile DEF SupervisorInv, SupervisorTypeOK, StateFiles
<1>0. /\ step[l] \in Running /\ l \notin omitted
      /\ \A o \in Launchers \ {l} : mode[o] # mode[l]
      => Names(celery, mode[l])
  BY DEF SessionListed
<1> DEFINE Listed == Names(celery, mode[l])'
<1>1. ASSUME step[l] \in Running, UNCHANGED <<mode, celery, omitted>> PROVE Listed
  BY <1>0, <1>1 DEF Names
<1>2. ASSUME NEW k \in Launchers, ForceStop(k) PROVE Listed
  <2>1. l # k /\ step[l] \in Running /\ mode' = mode
    BY <1>2 DEF ForceStop
  <2>2. CASE UNCHANGED <<celery, omitted>>
    BY <1>1, <2>1, <2>2
  <2>3. CASE Overwrite(k, NoFile)
    BY <2>1, <2>3, BasisNames DEF Names
  <2>4. QED
    BY <1>2, <2>2, <2>3 DEF ForceStop
<1>3. ASSUME NEW k \in Launchers, \/ StartPlain(k) \/ CheckConflict(k) \/ ReadCelery(k)
                                  \/ LaunchServers(k) \/ RecordServers(k) \/ Leave(k)
                                  \/ Terminate(k) \/ Crash(k)
                                  \/ WatchdogReads(k) \/ WatchdogRereads(k)
      PROVE  Listed
  <2>1. step[l] \in Running /\ UNCHANGED <<mode, celery, omitted>>
    BY <1>3 DEF StartPlain, CheckConflict, ReadCelery, LaunchServers, RecordServers, Leave,
                Terminate, Crash, WatchdogReads, WatchdogRereads
  <2>2. QED
    BY <1>1, <2>1
<1>4. ASSUME NEW k \in Launchers, ReusePair(k) PROVE Listed
  <2>1. /\ seen[k] \in File /\ mode' = mode /\ Overwrite(k, seen[k])
        /\ celery' = [seen[k] EXCEPT !.sessions = @ \cup {mode[k]}]
    BY <1>4 DEF ReusePair, Joined
  <2>2. celery' \in File /\ celery'.sessions = seen[k].sessions \cup {mode[k]}
    <3>1. seen[k].sessions \cup {mode[k]} \subseteq AllModes
      BY <2>1, FileFields, SupervisorAssumption
    <3>2. QED
      BY <2>1, <3>1, SessionsChanged DEF File
  <2>3. l # k => Names(seen[k], mode[l])
    BY <2>1, BasisNames
  <2>4. QED
    BY <2>1, <2>2, <2>3 DEF Names
<1>5. ASSUME NEW k \in Launchers, SpawnPair(k) PROVE Listed
  <2>1. mode' = mode /\ Overwrite(k, NoFile)
    BY <1>5 DEF SpawnPair
  <2>2. l = k
    BY <2>1, BasisNames DEF Names
  <2>3. celery' = [worker |-> LeastUnborn, beat |-> LeastUnborn + 1, sessions |-> {mode[k]}]
    BY <1>5 DEF SpawnPair
  <2>4. LeastUnborn \in Pids /\ LeastUnborn + 1 \in Pids
    BY <1>5, TwoPids DEF SpawnPair
  <2>5. celery' \in [worker: Pids, beat: Pids, sessions: SUBSET AllModes]
    BY <2>3, <2>4, SupervisorAssumption
  <2>6. QED
    BY <2>1, <2>2, <2>3, <2>5, NoFileIsNoRecord DEF Names
<1>6. ASSUME NEW k \in Launchers, Release(k) PROVE Listed
  <2>1. l # k /\ step[l] \in Running /\ mode' = mode /\ mode[k] # mode[l]
    BY <1>6 DEF Release
  <2>2. CASE seen[k] = NoFile
    BY <1>1, <1>6, <2>1, <2>2 DEF Release
  <2>3. CASE seen[k] # NoFile
    <3>1. seen[k] \in File /\ Names(seen[k], mode[l])
      BY <1>6, <2>1, <2>3, BasisNames DEF Release
    <3>2. mode[l] \in LeftOver(seen[k], mode[k])
      BY <2>1, <3>1 DEF LeftOver, Names
    <3>3. celery' = [seen[k] EXCEPT !.sessions = LeftOver(seen[k], mode[k])]
      BY <1>6, <2>3, <3>2 DEF Release, TearsDown
    <3>4. celery' \in File /\ celery'.sessions = LeftOver(seen[k], mode[k])
      <4>1. LeftOver(seen[k], mode[k]) \subseteq AllModes
        BY <3>1, FileFields DEF LeftOver
      <4>2. QED
        BY <3>1, <3>3, <4>1, SessionsChanged DEF File
    <3>5. QED
      BY <2>1, <3>2, <3>4 DEF Names
  <2>4. QED
    BY <2>2, <2>3
<1>7. ASSUME NEW k \in Launchers, WatchdogRestarts(k) PROVE Listed
  <2> DEFINE file == dog[k]
             lost == {p \in {file.worker, file.beat} : ~PidAlive(p)}
             w == IF file.worker \in lost THEN LeastUnborn ELSE file.worker
             b == IF file.beat \notin lost THEN file.beat
                  ELSE IF file.worker \in lost THEN LeastUnborn + 1 ELSE LeastUnborn
  <2>1. file \in File /\ mode' = mode /\ step' = step /\ Overwrite(k, file)
    BY <1>7 DEF WatchdogRestarts
  <2>2. w \in Pids /\ b \in Pids /\ w # b
    BY <1>7, <2>1, RestartPids DEF WatchdogRestarts
  <2>3. celery' = [file EXCEPT !.worker = w, !.beat = b]
    BY <1>7 DEF WatchdogRestarts
  <2>4. Names(file, mode[k])
    BY <1>7 DEF DogNamed, WatchdogRestarts
  <2> HIDE DEF file, w, b
  <2>5. Names(file, mode[l])
    BY <2>1, <2>4, BasisNames
  <2>6. celery' \in File /\ celery'.sessions = file.sessions
    BY <2>1, <2>2, <2>3, PidsChanged
  <2>7. QED
    BY <2>1, <2>5, <2>6 DEF Names
<1>8. ASSUME (\E p \in Pids : CeleryDies(p)) \/ (\E s \in Launchers \X Roles : ServerDies(s))
      PROVE  Listed
  <2>1. step' = step /\ UNCHANGED <<mode, celery, omitted>>
    BY <1>8 DEF CeleryDies, ServerDies
  <2>2. QED
    BY <1>1, <2>1
<1>9. QED
  BY <1>2, <1>3, <1>4, <1>5, <1>6, <1>7, <1>8 DEF SupervisorNext

LEMMA DogStep ==
    ASSUME SupervisorInv, SupervisorNext PROVE DogNamed'
<1> USE DEF SupervisorInv, SupervisorTypeOK, StateFiles, DogNamed, Names
<1>1. mode' = mode
  BY DEF SupervisorNext, ForceStop, StartPlain, CheckConflict, ReadCelery, ReusePair, SpawnPair,
         LaunchServers, RecordServers, Leave, Terminate, Release, Crash, WatchdogReads,
         WatchdogRereads, WatchdogRestarts, CeleryDies, ServerDies
<1>2. CASE \E k \in Launchers : WatchdogRereads(k)
  BY <1>1, <1>2 DEF WatchdogRereads
<1>3. CASE \E k \in Launchers : Release(k) \/ Crash(k) \/ WatchdogRestarts(k)
  BY <1>1, <1>3 DEF Release, Crash, WatchdogRestarts
<1>4. CASE dog' = dog
  BY <1>1, <1>4
<1>5. QED
  BY <1>2, <1>3, <1>4
  DEF SupervisorNext, ForceStop, StartPlain, CheckConflict, ReadCelery, ReusePair, SpawnPair,
      LaunchServers, RecordServers, Leave, Terminate, WatchdogReads, CeleryDies, ServerDies

LEMMA SupervisorStep ==
    ASSUME SupervisorInv, [SupervisorNext]_supervisorVars PROVE SupervisorInv'
<1>1. CASE SupervisorNext
  BY <1>1, StateStep, DogStep, ListedStep DEF SupervisorInv
<1>2. CASE UNCHANGED supervisorVars
  BY <1>2 DEF SupervisorInv, SupervisorTypeOK, StateFiles, DogNamed, SessionListed, Names,
              supervisorVars
<1>3. QED
  BY <1>1, <1>2

LEMMA SupervisorInductive == SupervisorSpec => []SupervisorInv
BY SupervisorInitially, SupervisorStep, PTL DEF SupervisorSpec

(* Type correctness of launchers, state files and processes.               *)
THEOREM SupervisorTypes == SupervisorSpec => []SupervisorTypeOK
BY SupervisorInductive, PTL DEF SupervisorInv

(* acquire_celery, release_celery and ensure_celery_alive: a running       *)
(* session with a mode of its own is named in celery.json unless somebody  *)
(* wrote the file who had read it without that name (too early, torn, or   *)
(* to replace a dead pair) or --force deleted it; stale reads that had the *)
(* name, restarts and crashes do not lose it.                              *)
THEOREM RunningSessionsListed == SupervisorSpec => []SessionListed
BY SupervisorInductive, PTL DEF SupervisorInv

(***************************************************************************)
(* Roles and permissions                                                   *)
(***************************************************************************)
(* A call that sets the default, and that no other one has overlapped, has *)
(* seen every default role there is.                                       *)
DefaultsSeen ==
    \A c \in Calls :
        call[c] # NoRole /\ call[c].op = "default" /\ ~call[c].late => defaults \subseteq call[c].seen

AtMostOneDefault == ~overlapped => \A r, s \in defaults : r = s

PermissionsInv == PermissionsTypeOK /\ GrantsClosed /\ DefaultsSeen /\ AtMostOneDefault

LEMMA LineageTransitive ==
    ASSUME NEW g \in Groups, NEW h \in Lineage(g)
    PROVE  h \in Groups /\ g \in Lineage(g) /\ Lineage(h) \subseteq Lineage(g)
<1>1. h \in Groups /\ g \in Lineage(g)
  BY DEF Lineage
<1>2. ASSUME NEW x \in Lineage(h), NEW T \in SUBSET Groups,
             g \in T, \A y \in T : Parent[y] \in T \cup {NoRole}
      PROVE  x \in T
  <2>1. h \in T
    BY <1>2 DEF Lineage
  <2>2. QED
    BY <1>2, <2>1 DEF Lineage
<1>3. Lineage(h) \subseteq Groups
  BY DEF Lineage
<1>4. QED
  BY <1>1, <1>2, <1>3 DEF Lineage

(* Closed G: what grants are for one role.                                 *)
Closed(G) ==
    \A p \in G : \A g \in Lineage(p[1]) : {<<g, p[2]>>, <<g, "GET">>} \subseteq G

LEMMA DependenciesClosed ==
    ASSUME NEW rows \in SUBSET Permission
    PROVE  WithDependencies(rows) \subseteq Permission /\ Closed(WithDependencies(rows))
<1>1. \A p \in rows : p[1] \in Groups /\ p[2] \in Methods
  BY DEF Permission
<1>2. WithDependencies(rows) =
          {x \in Permission : \E q \in rows : x[1] \in Lineage(q[1]) /\ x[2] \in {q[2], "GET"}}
  <2>1. ASSUME NEW x \in WithDependencies(rows)
        PROVE  /\ x \in Permission
               /\ \E q \in rows : x[1] \in Lineage(q[1]) /\ x[2] \in {q[2], "GET"}
    <3>1. PICK q \in rows : \E g \in Lineage(q[1]), m \in {q[2], "GET"} : x = <<g, m>>
      BY DEF WithDependencies
    <3>2. PICK g \in Lineage(q[1]), m \in {q[2], "GET"} : x = <<g, m>>
      BY <3>1
    <3>3. g \in Groups /\ m \in Methods
      BY <1>1, PermissionsAssumption DEF Lineage
    <3>4. QED
      BY <3>2, <3>3 DEF Permission
  <2>2. ASSUME NEW x \in Permission, NEW q \in rows,
               x[1] \in Lineage(q[1]), x[2] \in {q[2], "GET"}
        PROVE  x \in WithDependencies(rows)
    <3>1. x = <<x[1], x[2]>>
      BY DEF Permission
    <3>2. QED
      BY <2>2, <3>1 DEF WithDependencies
  <2>3. QED
    BY <2>1, <2>2
<1>3. ASSUME NEW p \in WithDependencies(rows), NEW g \in Lineage(p[1]), NEW m \in {p[2], "GET"}
      PROVE  <<g, m>> \in WithDependencies(rows)
  <2>1. PICK q \in rows : p[1] \in Lineage(q[1]) /\ p[2] \in {q[2], "GET"}
    BY <1>2
  <2>2. g \in Lineage(q[1])
    BY <1>1, <2>1, LineageTransitive
  <2>3. <<g, m>> \in Permission /\ m \in {q[2], "GET"}
    BY <1>1, <2>1, <2>2, PermissionsAssumption DEF Permission, Lineage
  <2>4. QED
    BY <1>2, <2>2, <2>3
<1>4. QED
  BY <1>2, <1>3 DEF Closed

LEMMA RequestedRows ==
    ASSUME NEW rows \in Requests
    PROVE  rows \in SUBSET Permission
BY PermissionsAssumption DEF Permission

LEMMA PermissionsInitially == PermissionsInit => PermissionsInv
BY DEF PermissionsInit, PermissionsInv, PermissionsTypeOK, GrantsClosed, DefaultsSeen, AtMostOneDefault, Live

(* Committing leaves the other calls what they were to do.                 *)
LEMMA CommittedCalls ==
    ASSUME PermissionsTypeOK, NEW c \in Calls,
           NEW others \in SUBSET {d \in Calls \ {c} : call[d] # NoRole}, Committed(c, others)
    PROVE  \A d \in Calls :
              /\ call'[d] = NoRole \/ call'[d] \in Call
              /\ call'[d] # NoRole =>
                    /\ call[d] # NoRole
                    /\ call'[d].op = call[d].op /\ call'[d].seen = call[d].seen
                    /\ ~call'[d].late => ~call[d].late /\ d \notin others
<1> SUFFICES ASSUME NEW d \in Calls, call'[d] # NoRole
             PROVE  /\ call'[d] \in Call /\ call[d] # NoRole
                    /\ call'[d].op = call[d].op /\ call'[d].seen = call[d].seen
                    /\ ~call'[d].late => ~call[d].late /\ d \notin others
  OBVIOUS
<1>1. d # c /\ call'[d] = IF d \in others THEN [call[d] EXCEPT !.late = TRUE] ELSE call[d]
  BY DEF Committed
<1>2. call[d] # NoRole /\ call[d] \in Call
  BY <1>1 DEF PermissionsTypeOK
<1>3. CASE d \notin others
  BY <1>1, <1>2, <1>3
<1>4. CASE d \in others
  <2> DEFINE x == call[d]
             y == [x EXCEPT !.late = TRUE]
  <2>1. y \in Call /\ y.op = x.op /\ y.seen = x.seen /\ y.late
    BY <1>2 DEF Call
  <2>2. call'[d] = y
    BY <1>1, <1>4
  <2> HIDE DEF y
  <2>3. QED
    BY <1>2, <2>1, <2>2
<1>5. QED
  BY <1>3, <1>4

(* The part of the invariant that only the calls are about.                *)
LEMMA CommittedKeeps ==
    ASSUME PermissionsInv, NEW c \in Calls,
           NEW others \in SUBSET {d \in Calls \ {c} : call[d] # NoRole}, Committed(c, others),
           defaults' \subseteq defaults \/ Pending(c, "default") \subseteq others
    PROVE  DefaultsSeen' /\ call' \in [Calls -> Call \cup {NoRole}]
<1>1. \A d \in Calls :
          /\ call'[d] = NoRole \/ call'[d] \in Call
          /\ call'[d] # NoRole =>
                /\ call[d] # NoRole
                /\ call'[d].op = call[d].op /\ call'[d].seen = call[d].seen
                /\ ~call'[d].late => ~call[d].late /\ d \notin others
  BY CommittedCalls DEF PermissionsInv
<1>2. ASSUME NEW d \in Calls, call'[d] # NoRole, call'[d].op = "default", ~call'[d].late
      PROVE  defaults' \subseteq call'[d].seen
  <2>1. /\ call[d] # NoRole /\ call[d].op = "default" /\ ~call[d].late /\ d \notin others
        /\ call'[d].seen = call[d].seen
    BY <1>1, <1>2
  <2>2. d # c
    BY <1>2 DEF Committed
  <2>3. defaults' \subseteq defaults
    BY <2>1, <2>2 DEF Pending
  <2>4. QED
    BY <2>1, <2>3 DEF PermissionsInv, DefaultsSeen
<1>3. call' \in [Calls -> Call \cup {NoRole}]
  BY <1>1 DEF Committed
<1>4. QED
  BY <1>2, <1>3 DEF DefaultsSeen

LEMMA BeginKeeps ==
    ASSUME PermissionsInv, NEW c \in Calls, NEW r \in RoleIds, NEW u \in Users,
           NEW op \in {"update", "default", "plain", "delete", "assign"},
           NEW rows \in Requests \cup {{}}, NEW locks \in BOOLEAN,
           Begin(c, op, r, u, rows, locks)
    PROVE  PermissionsInv'
<1> DEFINE x == [op |-> op, role |-> r, user |-> u, rows |-> rows,
                 locks |-> locks, seen |-> defaults, late |-> FALSE]
<1>1. x \in Call /\ x.seen = defaults
  BY DEF PermissionsInv, PermissionsTypeOK, Call
<1>2. /\ \A d \in Calls : call'[d] = IF d = c THEN x ELSE call[d]
      /\ UNCHANGED <<roleState, defaults, grants, assigned, suppressed, custom, overlapped>>
  BY DEF Begin, PermissionsInv, PermissionsTypeOK
<1> HIDE DEF x
<1>3. PermissionsTypeOK'
  <2>1. call' = [call EXCEPT ![c] = x]
    BY DEF Begin, x
  <2>2. call' \in [Calls -> Call \cup {NoRole}]
    BY <1>1, <2>1 DEF PermissionsInv, PermissionsTypeOK
  <2>3. QED
    BY <1>2, <2>2 DEF PermissionsInv, PermissionsTypeOK
<1>4. QED
  BY <1>1, <1>2, <1>3
  DEF PermissionsInv, GrantsClosed, DefaultsSeen, AtMostOneDefault, Live

(* Every call that opens sees the defaults of its moment.                  *)
LEMMA BeginsKeep ==
    ASSUME PermissionsInv, NEW c \in Calls, NEW r \in RoleIds,
           \/ BeginUpdate(c, r) \/ BeginSetDefault(c, r) \/ BeginDelete(c, r)
           \/ \E u \in Users : BeginAssign(c, u, r)
    PROVE  PermissionsInv'
BY BeginKeeps DEF BeginUpdate, BeginSetDefault, BeginDelete, BeginAssign

(* What an open call is made of.                                           *)
LEMMA OpenCall ==
    ASSUME PermissionsTypeOK, NEW c \in Calls, call[c] # NoRole
    PROVE  /\ call[c].role \in RoleIds /\ call[c].user \in Users
           /\ call[c].rows \in SUBSET Permission
<1>1. call[c] \in Call
  BY DEF PermissionsTypeOK
<1>2. \A rows \in Requests \cup {{}} : rows \in SUBSET Permission
  BY RequestedRows
<1>3. QED
  BY <1>1, <1>2 DEF Call

LEMMA GrantsStayClosed ==
    ASSUME PermissionsInv, NEW r \in RoleIds, NEW G \in SUBSET Permission, Closed(G),
           grants' = [grants EXCEPT ![r] = G]
    PROVE  /\ grants' \in [RoleIds -> SUBSET Permission]
           /\ \A q \in RoleIds : Closed(grants'[q])
BY DEF PermissionsInv, PermissionsTypeOK, GrantsClosed, Closed

LEMMA CreatedKeeps ==
    ASSUME PermissionsInv, NEW r \in RoleIds, NEW rows \in Requests, CreateRole(r, rows)
    PROVE  PermissionsInv'
<1>1. /\ grants' \in [RoleIds -> SUBSET Permission]
      /\ \A q \in RoleIds : Closed(grants'[q])
  BY RequestedRows, DependenciesClosed, GrantsStayClosed DEF CreateRole
<1>2. /\ roleState' = [roleState EXCEPT ![r] = "live"]
      /\ grants' = [grants EXCEPT ![r] = WithDependencies(rows)]
      /\ UNCHANGED <<defaults, assigned, call, suppressed, custom, overlapped>>
  BY DEF CreateRole
<1>3. PermissionsTypeOK'
  BY <1>1, <1>2 DEF PermissionsInv, PermissionsTypeOK
<1>4. Live' = Live \cup {r}
  BY <1>2 DEF Live, PermissionsInv, PermissionsTypeOK
<1>5. GrantsClosed'
  BY <1>1, <1>2, <1>4 DEF PermissionsInv, PermissionsTypeOK, GrantsClosed, Closed
<1>6. DefaultsSeen' /\ AtMostOneDefault'
  BY <1>2 DEF PermissionsInv, DefaultsSeen, AtMostOneDefault
<1>7. QED
  BY <1>3, <1>5, <1>6 DEF PermissionsInv

LEMMA CommitUpdateKeeps ==
    ASSUME PermissionsInv, NEW c \in Calls, CommitUpdate(c) PROVE PermissionsInv'
<1> DEFINE me == call[c]
           others == {d \in Pending(c, "update") :
                        call[d].role = me.role /\ ~(me.locks /\ call[d].locks)}
<1>0. PICK kept \in {{}, grants[me.role]} :
         grants' = [grants EXCEPT ![me.role] = kept \cup WithDependencies(me.rows)]
  BY DEF CommitUpdate
<1> DEFINE G == kept \cup WithDependencies(me.rows)
<1>1. /\ me # NoRole /\ me.role \in Live
      /\ grants' = [grants EXCEPT ![me.role] = G]
      /\ Committed(c, others)
      /\ UNCHANGED <<roleState, defaults, assigned, suppressed, custom, overlapped>>
  BY <1>0 DEF CommitUpdate
<1>2. me.role \in RoleIds /\ me.rows \in SUBSET Permission
  BY <1>1, OpenCall DEF PermissionsInv
<1>3. kept \in SUBSET Permission /\ Closed(kept)
  BY <1>2 DEF PermissionsInv, PermissionsTypeOK, GrantsClosed, Closed
<1>4. G \in SUBSET Permission /\ Closed(G)
  BY <1>2, <1>3, DependenciesClosed DEF Closed
<1>5. others \in SUBSET {d \in Calls \ {c} : call[d] # NoRole}
  BY DEF Pending
<1> HIDE DEF me, G, others
<1>6. /\ grants' \in [RoleIds -> SUBSET Permission]
      /\ \A q \in RoleIds : Closed(grants'[q])
  BY <1>1, <1>2, <1>4, GrantsStayClosed
<1>7. DefaultsSeen' /\ call' \in [Calls -> Call \cup {NoRole}]
  BY <1>1, <1>5, CommittedKeeps
<1>8. PermissionsTypeOK'
  BY <1>1, <1>6, <1>7 DEF PermissionsInv, PermissionsTypeOK
<1>9. GrantsClosed'
  BY <1>1, <1>6 DEF PermissionsInv, PermissionsTypeOK, GrantsClosed, Closed, Live
<1>10. AtMostOneDefault'
  BY <1>1 DEF PermissionsInv, AtMostOneDefault
<1>11. QED
  BY <1>7, <1>8, <1>9, <1>10 DEF PermissionsInv

(* Assignments that lose a role.                                           *)
LEMMA AssignmentsDropped ==
    ASSUME PermissionsInv, NEW r \in RoleIds,
           assigned' = [u \in Users |-> IF assigned[u] = r THEN NoRole ELSE assigned[u]]
    PROVE  /\ assigned' \in [Users -> RoleIds \cup {NoRole}]
           /\ \A u \in Users : assigned'[u] \in (Live \ {r}) \cup {NoRole}
BY DEF PermissionsInv, PermissionsTypeOK, GrantsClosed

LEMMA CommitDefaultKeeps ==
    ASSUME PermissionsInv, NEW c \in Calls, CommitDefault(c) PROVE PermissionsInv'
<1> DEFINE me == call[c]
<1>1. /\ me # NoRole /\ me.op = "default" /\ me.role \in Live
      /\ defaults' = (defaults \ me.seen) \cup {me.role}
      /\ assigned' = [u \in Users |-> IF assigned[u] = me.role THEN NoRole ELSE assigned[u]]
      /\ overlapped' = (overlapped \/ me.late)
      /\ Committed(c, Pending(c, "default"))
      /\ UNCHANGED <<roleState, grants, suppressed, custom>>
  BY DEF CommitDefault, Cleared
<1>2. me.role \in RoleIds /\ me.late \in BOOLEAN
  BY <1>1 DEF PermissionsInv, PermissionsTypeOK, Call
<1>3. DefaultsSeen' /\ call' \in [Calls -> Call \cup {NoRole}]
  <2>1. Pending(c, "default") \in SUBSET {d \in Calls \ {c} : call[d] # NoRole}
    BY DEF Pending
  <2>2. QED
    BY <1>1, <2>1, CommittedKeeps
<1>4. ~me.late => defaults' = {me.role}
  BY <1>1 DEF PermissionsInv, DefaultsSeen
<1> HIDE DEF me
<1>5. /\ assigned' \in [Users -> RoleIds \cup {NoRole}]
      /\ \A u \in Users : assigned'[u] \in Live \cup {NoRole}
  BY <1>1, <1>2, AssignmentsDropped
<1>6. PermissionsTypeOK'
  BY <1>1, <1>2, <1>3, <1>5 DEF PermissionsInv, PermissionsTypeOK
<1>7. GrantsClosed'
  BY <1>1, <1>5 DEF PermissionsInv, GrantsClosed, Live
<1>8. AtMostOneDefault'
  BY <1>1, <1>4 DEF AtMostOneDefault
<1>9. QED
  BY <1>3, <1>6, <1>7, <1>8 DEF PermissionsInv

LEMMA CommitPlainKeeps ==
    ASSUME PermissionsInv, NEW c \in Calls, CommitPlain(c) PROVE PermissionsInv'
<1>1. /\ defaults' \subseteq defaults /\ Committed(c, {})
      /\ UNCHANGED <<roleState, assigned, grants, suppressed, custom, overlapped>>
  BY DEF CommitPlain
<1>2. DefaultsSeen' /\ call' \in [Calls -> Call \cup {NoRole}]
  BY <1>1, CommittedKeeps
<1>3. PermissionsTypeOK' /\ GrantsClosed' /\ AtMostOneDefault'
  BY <1>1, <1>2 DEF PermissionsInv, PermissionsTypeOK, GrantsClosed, AtMostOneDefault, Live
<1>4. QED
  BY <1>2, <1>3 DEF PermissionsInv

LEMMA CommitDeleteKeeps ==
    ASSUME PermissionsInv, NEW c \in Calls, CommitDelete(c) PROVE PermissionsInv'
<1> DEFINE r == call[c].role
<1>1. /\ call[c] # NoRole /\ r \in Live
      /\ roleState' = [roleState EXCEPT ![r] = "deleted"]
      /\ defaults' = defaults \ {r}
      /\ grants' = [grants EXCEPT ![r] = {}]
      /\ assigned' = [u \in Users |-> IF assigned[u] = r THEN NoRole ELSE assigned[u]]
      /\ Committed(c, {})
      /\ UNCHANGED <<suppressed, custom, overlapped>>
  BY DEF CommitDelete
<1>2. r \in RoleIds
  BY <1>1, OpenCall DEF PermissionsInv
<1>3. DefaultsSeen' /\ call' \in [Calls -> Call \cup {NoRole}]
  BY <1>1, CommittedKeeps
<1> HIDE DEF r
<1>4. /\ assigned' \in [Users -> RoleIds \cup {NoRole}]
      /\ \A u \in Users : assigned'[u] \in (Live \ {r}) \cup {NoRole}
  BY <1>1, <1>2, AssignmentsDropped
<1>5. Live' = Live \ {r}
  BY <1>1, <1>2 DEF PermissionsInv, PermissionsTypeOK, Live
<1>6. /\ grants' \in [RoleIds -> SUBSET Permission]
      /\ \A q \in RoleIds : Closed(grants'[q])
  <2>1. Closed({})
    BY DEF Closed
  <2>2. QED
    BY <1>1, <1>2, <2>1, GrantsStayClosed
<1>7. PermissionsTypeOK'
  BY <1>1, <1>2, <1>3, <1>4, <1>6 DEF PermissionsInv, PermissionsTypeOK
<1>8. GrantsClosed'
  BY <1>1, <1>2, <1>4, <1>5, <1>6 DEF PermissionsInv, PermissionsTypeOK, GrantsClosed, Closed
<1>9. AtMostOneDefault'
  BY <1>1 DEF PermissionsInv, AtMostOneDefault
<1>10. QED
  BY <1>3, <1>7, <1>8, <1>9 DEF PermissionsInv

LEMMA CommitAssignKeeps ==
    ASSUME PermissionsInv, NEW c \in Calls, CommitAssign(c) PROVE PermissionsInv'
<1> DEFINE me == call[c]
           others == {d \in Pending(c, "assign") : call[d].user = me.user}
<1>1. /\ me # NoRole /\ me.role \in Live
      /\ assigned' = [assigned EXCEPT ![me.user] = me.role]
      /\ Committed(c, others)
      /\ UNCHANGED <<roleState, defaults, grants, suppressed, custom, overlapped>>
  BY DEF CommitAssign
<1>2. me.role \in RoleIds /\ me.user \in Users
  BY <1>1, OpenCall DEF PermissionsInv
<1>3. others \in SUBSET {d \in Calls \ {c} : call[d] # NoRole}
  BY DEF Pending
<1> HIDE DEF me, others
<1>4. DefaultsSeen' /\ call' \in [Calls -> Call \cup {NoRole}]
  BY <1>1, <1>3, CommittedKeeps
<1>5. PermissionsTypeOK'
  BY <1>1, <1>2, <1>4 DEF PermissionsInv, PermissionsTypeOK
<1>6. GrantsClosed' /\ AtMostOneDefault'
  BY <1>1, <1>2 DEF PermissionsInv, PermissionsTypeOK, GrantsClosed, AtMostOneDefault, Live
<1>7. QED
  BY <1>4, <1>5, <1>6 DEF PermissionsInv

LEMMA RollbackKeeps ==
    ASSUME PermissionsInv, NEW c \in Calls, Rollback(c) PROVE PermissionsInv'
BY DEF Rollback, PermissionsInv, PermissionsTypeOK, GrantsClosed, DefaultsSeen, AtMostOneDefault, Live

LEMMA UserKeeps ==
    ASSUME PermissionsInv, NEW u \in Users,
           \/ Unassign(u) \/ SuppressAdminMode(u) \/ RestoreAdminMode(u)
           \/ ClearCustomPermissions(u)
           \/ \E rows \in Requests : SetCustomPermissions(u, rows)
    PROVE  PermissionsInv'
<1>1. UNCHANGED <<roleState, defaults, grants, call, overlapped>>
  BY DEF Unassign, SuppressAdminMode, RestoreAdminMode, ClearCustomPermissions, SetCustomPermissions
<1>2. suppressed' \subseteq Admins
  BY DEF PermissionsInv, PermissionsTypeOK, Unassign, SuppressAdminMode, RestoreAdminMode,
         ClearCustomPermissions, SetCustomPermissions
<1>3. /\ assigned' \in [Users -> RoleIds \cup {NoRole}]
      /\ \A v \in Users : assigned'[v] \in Live \cup {NoRole}
  BY DEF PermissionsInv, PermissionsTypeOK, GrantsClosed, Unassign, SuppressAdminMode,
         RestoreAdminMode, ClearCustomPermissions, SetCustomPermissions
<1>4. custom' \in [Users -> (SUBSET Permission) \cup {NoRole}]
  BY RequestedRows DEF PermissionsInv, PermissionsTypeOK, Unassign, SuppressAdminMode,
         RestoreAdminMode, ClearCustomPermissions, SetCustomPermissions
<1>5. PermissionsTypeOK'
  BY <1>1, <1>2, <1>3, <1>4 DEF PermissionsInv, PermissionsTypeOK
<1>6. GrantsClosed' /\ DefaultsSeen' /\ AtMostOneDefault'
  BY <1>1, <1>3 DEF PermissionsInv, GrantsClosed, DefaultsSeen, AtMostOneDefault, Live
<1>7. QED
  BY <1>5, <1>6 DEF PermissionsInv

LEMMA PermissionsStep ==
    ASSUME PermissionsInv, [PermissionsNext]_permissionsVars PROVE PermissionsInv'
<1>1. CASE PermissionsNext
  BY <1>1, CreatedKeeps, BeginsKeep, CommitUpdateKeeps, CommitDefaultKeeps, CommitPlainKeeps,
     CommitDeleteKeeps, CommitAssignKeeps, RollbackKeeps, UserKeeps DEF PermissionsNext
<1>2. CASE UNCHANGED permissionsVars
  BY <1>2 DEF permissionsVars, PermissionsInv, PermissionsTypeOK, GrantsClosed, DefaultsSeen,
      AtMostOneDefault, Live
<1>3. QED
  BY <1>1, <1>2

LEMMA PermissionsInductive == PermissionsSpec => []PermissionsInv
BY PermissionsInitially, PermissionsStep, PTL DEF PermissionsSpec

(* With one default role at most, its user is told what he is let through. *)
LEMMA ToldAsAdmitted ==
    ASSUME PermissionsInv, NEW u \in Users, \A r, s \in defaults : r = s
    PROVE  Reported(u) = {{p \in Permission : Admits(u, p[1], p[2])}}
<1> DEFINE A == {p \in Permission : Admits(u, p[1], p[2])}
<1>1. \A p \in Permission : p = <<p[1], p[2]>>
  BY DEF Permission
<1>2. CASE custom[u] # NoRole
  <2>1. custom[u] \in SUBSET Permission
    BY <1>2 DEF PermissionsInv, PermissionsTypeOK
  <2>2. A = custom[u]
    BY <1>1, <1>2, <2>1 DEF Admits
  <2>3. QED
    BY <1>2, <2>2 DEF Reported
<1>3. CASE custom[u] = NoRole /\ EffectiveAdmin(u)
  <2>1. A = Permission
    BY <1>3 DEF Admits
  <2>2. QED
    BY <1>3, <2>1 DEF Reported
<1>4. CASE custom[u] = NoRole /\ ~EffectiveAdmin(u) /\ RolesOf(u) = {}
  <2>1. A = {}
    BY <1>4 DEF Admits
  <2>2. QED
    BY <1>4, <2>1 DEF Reported
<1>5. CASE custom[u] = NoRole /\ ~EffectiveAdmin(u) /\ RolesOf(u) # {}
  <2>1. PICK r : RolesOf(u) = {r}
    BY <1>5 DEF RolesOf
  <2>2. r \in RoleIds
    BY <2>1 DEF RolesOf, PermissionsInv, PermissionsTypeOK
  <2>3. grants[r] \in SUBSET Permission
    BY <2>2 DEF PermissionsInv, PermissionsTypeOK
  <2>4. A = grants[r]
    BY <1>1, <1>5, <2>1, <2>3 DEF Admits
  <2>5. {grants[q] : q \in RolesOf(u)} = {grants[r]}
    BY <2>1
  <2>6. QED
    BY <1>5, <2>4, <2>5 DEF Reported
<1>6. QED
  BY <1>2, <1>3, <1>4, <1>5

(* Type correctness of roles, assignments and the calls under way.         *)
THEOREM PermissionsTypes == PermissionsSpec => []PermissionsTypeOK
BY PermissionsInductive, PTL DEF PermissionsInv

(* RoleService and UserPermissionService: a stored role carries what its   *)
(* permissions depend on, there is one default role unless two calls that  *)
(* set it overlapped, and what a user is told is what a request is let do. *)
THEOREM RolesAreSound == PermissionsSpec => []RolesSound
<1>1. ASSUME PermissionsInv, ~overlapped PROVE Cardinality(defaults) <= 1
  <2>1. CASE defaults = {}
    BY <2>1, FS_EmptySet
  <2>2. CASE defaults # {}
    <3>1. PICK r : defaults = {r}
      BY <1>1, <2>2 DEF PermissionsInv, AtMostOneDefault
    <3>2. QED
      BY <3>1, FS_Singleton
  <2>3. QED
    BY <2>1, <2>2
<1>2. ASSUME PermissionsInv PROVE OneDefault
  BY <1>1, <1>2, ToldAsAdmitted DEF OneDefault, PermissionsInv, AtMostOneDefault
<1>3. PermissionsInv => RolesSound
  BY <1>2 DEF RolesSound, PermissionsInv
<1>4. QED
  BY <1>3, PermissionsInductive, PTL

(***************************************************************************)
(* The components side by side                                             *)
(***************************************************************************)
OperationsInv ==
    /\ ArchiveInv /\ LogsInv /\ ExportsInv /\ TokenTypes
    /\ SupervisorInv /\ MigrationInv /\ PermissionsInv /\ DeviceInv

LEMMA OperationsInitially == Init => OperationsInv
BY ArchiveInitially, LogsInitially, ExportsInitially, TokensInitially, SupervisorInitially,
   MigrationInitially, PermissionsInitially, DeviceInitially
DEF Init, OperationsInv

LEMMA OperationsStep ==
    ASSUME OperationsInv,
           [Next]_<<active, archiveVars, logVars, exportVars, supervisorVars, migrationVars,
                    permissionsVars, deviceVars>>
    PROVE  OperationsInv'
<1>1. /\ [ArchiveNext]_archiveVars /\ [LogsNext]_logVars /\ [ExportsNext]_exportVars
      /\ [SupervisorNext]_supervisorVars /\ [MigrationNext]_migrationVars
      /\ [PermissionsNext]_permissionsVars /\ [DeviceNext]_deviceVars
  BY DEF Next
<1>2. QED
  BY <1>1, ArchiveStep, LogsStep, ExportsStep, TokensStep, SupervisorStep, MigrationStep,
     PermissionsStep, DeviceStep
  DEF OperationsInv

(* Type correctness of the seven components side by side, whichever runs.  *)
THEOREM OperationsTypes == Spec => []OperationsTypeOK
<1>1. OperationsInv => OperationsTypeOK
  <2>1. ArchiveInv => ArchiveTypeOK
    BY DEF ArchiveInv, ArchiveTypes, ArchiveTypeOK, Archiver, Grouper
  <2>2. LogsInv => LogsTypeOK
    BY DEF LogsInv, LogsTypes, LogsTypeOK, Uploader, Purger
  <2>3. ExportsInv /\ TokenTypes => ExportsTypeOK
    BY DEF ExportsInv, ExportsTypes, TokenTypes, ExportsTypeOK, ExportState
  <2>4. QED
    BY <2>1, <2>2, <2>3
    DEF OperationsInv, OperationsTypeOK, SupervisorInv, MigrationInv, PermissionsInv, DeviceInv
<1>2. QED
  BY <1>1, OperationsInitially, OperationsStep, PTL DEF Spec

=============================================================================
