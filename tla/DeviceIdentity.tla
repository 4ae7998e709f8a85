--------------------------- MODULE DeviceIdentity ---------------------------
(***************************************************************************)
(* /ws/device: a socket presents the install key of its device, or gets a  *)
(* new device, and is put into a registry by device code.  The registry is *)
(* the process's; the devices are in the database.                         *)
(***************************************************************************)
EXTENDS Naturals, FiniteSets

CONSTANTS
    DeviceSockets,
    DeviceCodes,    \* the ten digits, a few of them
    MaxAttempts,    \* _MAX_CODE_ATTEMPTS
    NoDevice        \* SQL NULL, or no entry in the registry

ASSUME AttemptsAssumption == MaxAttempts \in Nat
ASSUME DeviceAssumption == NoDevice \notin DeviceCodes \cup DeviceSockets

VARIABLES
    devices,        \* codes of the devices in the database; each has its install key
    shake,          \* socket -> where its handshake is
    presented,      \* socket -> the device whose install key it presents, or NoDevice
    attempts,       \* codes tried for it
    identity,       \* socket -> its device, or NoDevice
    registry,       \* _connections: code -> socket, or NoDevice
    newest          \* history: code -> the socket registered last

deviceVars == <<devices, shake, presented, attempts, identity, registry, newest>>

DeviceInit ==
    /\ devices = {}
    /\ shake = [s \in DeviceSockets |-> "off"]
    /\ presented = [s \in DeviceSockets |-> NoDevice]
    /\ attempts = [s \in DeviceSockets |-> 0]
    /\ identity = [s \in DeviceSockets |-> NoDevice]
    /\ registry = [d \in DeviceCodes |-> NoDevice]
    /\ newest = [d \in DeviceCodes |-> NoDevice]

DeviceConnect(s) ==
    /\ shake[s] = "off"
    /\ shake' = [shake EXCEPT ![s] = "first"]
    /\ UNCHANGED <<devices, presented, attempts, identity, registry, newest>>

\* The first message, with a key the server has issued, none, or one it does not know.
Present(s, d) ==
    /\ shake[s] = "first" /\ d \in devices \cup {NoDevice}
    /\ presented' = [presented EXCEPT ![s] = d]
    /\ shake' = [shake EXCEPT ![s] = "lookup"]
    /\ UNCHANGED <<devices, attempts, identity, registry, newest>>

\* get_by_install_key finds the device: its last_seen_at is touched.
Resolve(s) ==
    /\ shake[s] = "lookup" /\ presented[s] # NoDevice
    /\ identity' = [identity EXCEPT ![s] = presented[s]]
    /\ shake' = [shake EXCEPT ![s] = "answer"]
    /\ UNCHANGED <<devices, presented, attempts, registry, newest>>

\* Mutant: the bound is off by one.
OneTryMore(s) == attempts[s] <= MaxAttempts

TriesLeft(s) == attempts[s] < MaxAttempts

\* One candidate: taken, or taken by another process before the insert, or created.
TryCode(s, d) ==
    /\ shake[s] = "lookup" /\ presented[s] = NoDevice /\ TriesLeft(s)
    /\ IF d \in devices
       THEN /\ attempts' = [attempts EXCEPT ![s] = @ + 1]
            /\ UNCHANGED <<devices, identity, shake>>
       ELSE /\ devices' = devices \cup {d}
            /\ identity' = [identity EXCEPT ![s] = d]
            /\ shake' = [shake EXCEPT ![s] = "answer"]
            /\ UNCHANGED attempts
    /\ UNCHANGED <<presented, registry, newest>>

\* The answer is on its way, an await: then the socket takes the device's place.
RegisterDevice(s) ==
    /\ shake[s] = "answer"
    /\ registry' = [registry EXCEPT ![identity[s]] = s]
    /\ newest' = [newest EXCEPT ![identity[s]] = s]
    /\ shake' = [shake EXCEPT ![s] = "open"]
    /\ UNCHANGED <<devices, presented, attempts, identity>>

\* A first message that is late or no JSON, a failed handshake, no code left, or an answer
\* that cannot be sent: the socket ends before it was registered.
GiveUp(s) ==
    /\ shake[s] \in {"first", "lookup", "answer"}
    /\ shake' = [shake EXCEPT ![s] = "off"]
    /\ presented' = [presented EXCEPT ![s] = NoDevice]
    /\ attempts' = [attempts EXCEPT ![s] = 0]
    /\ identity' = [identity EXCEPT ![s] = NoDevice]
    /\ UNCHANGED <<devices, registry, newest>>

\* Mutant: the device is dropped whichever socket it stands for.
WhoeverIsThere(s, d) == d

Own(s, d) == IF registry[d] = s THEN d ELSE NoDevice

Disconnect(s) ==
    /\ shake[s] = "open"
    /\ registry' = [d \in DeviceCodes |-> IF d = Own(s, identity[s]) THEN NoDevice ELSE registry[d]]
    /\ shake' = [shake EXCEPT ![s] = "off"]
    /\ presented' = [presented EXCEPT ![s] = NoDevice]
    /\ attempts' = [attempts EXCEPT ![s] = 0]
    /\ identity' = [identity EXCEPT ![s] = NoDevice]
    /\ newest' = [d \in DeviceCodes |-> IF newest[d] = s THEN NoDevice ELSE newest[d]]
    /\ UNCHANGED devices

RestartServer ==
    /\ \E s \in DeviceSockets : shake[s] # "off"
    /\ shake' = [s \in DeviceSockets |-> "off"]
    /\ presented' = [s \in DeviceSockets |-> NoDevice]
    /\ attempts' = [s \in DeviceSockets |-> 0]
    /\ identity' = [s \in DeviceSockets |-> NoDevice]
    /\ registry' = [d \in DeviceCodes |-> NoDevice]
    /\ newest' = [d \in DeviceCodes |-> NoDevice]
    /\ UNCHANGED devices

DeviceNext ==
    \/ \E s \in DeviceSockets :
        \/ DeviceConnect(s) \/ Resolve(s) \/ RegisterDevice(s) \/ GiveUp(s) \/ Disconnect(s)
        \/ \E d \in devices \cup {NoDevice} : Present(s, d)
        \/ \E d \in DeviceCodes : TryCode(s, d)
    \/ RestartServer

DeviceSpec == DeviceInit /\ [][DeviceNext]_deviceVars

-----------------------------------------------------------------------------
DeviceTypeOK ==
    /\ devices \subseteq DeviceCodes
    /\ shake \in [DeviceSockets -> {"off", "first", "lookup", "answer", "open"}]
    /\ presented \in [DeviceSockets -> DeviceCodes \cup {NoDevice}]
    /\ attempts \in [DeviceSockets -> 0..MaxAttempts]
    /\ identity \in [DeviceSockets -> DeviceCodes \cup {NoDevice}]
    /\ registry \in [DeviceCodes -> DeviceSockets \cup {NoDevice}]
    /\ newest \in [DeviceCodes -> DeviceSockets \cup {NoDevice}]

\* However connections of one device overlap, the one registered last stays reachable
\* under the device's code until it ends, and no ended socket stays registered.
NewestStaysRegistered ==
    \A d \in DeviceCodes :
        /\ newest[d] # NoDevice => registry[d] = newest[d]
        /\ registry[d] # NoDevice => shake[registry[d]] = "open" /\ identity[registry[d]] = d

=============================================================================
