----------------------------- MODULE LogExports -----------------------------
(***************************************************************************)
(* Logs sent by e-mail as a download link: the zip goes to S3, a token in  *)
(* Redis stands for its key, and a sweep every ten minutes deletes the     *)
(* zips older than the token's lifetime. An export of API logs has a key   *)
(* of its own; the exports of one task run share the run's key.            *)
(***************************************************************************)
EXTENDS Naturals, FiniteSets

CONSTANTS
    Exports,        \* requests for a link; also the keys of their own
    TaskKeys,       \* keys of task runs' exports
    TokenLife,      \* *_export_token_ttl_seconds
    LastMinute,     \* bound on the clock
    NoZip           \* no object, no token, no sweep

ASSUME ExportsAssumption ==
    /\ TokenLife \in Nat /\ LastMinute \in Nat
    /\ NoZip \notin 0..LastMinute

VARIABLES
    minute,
    zipAt,      \* key -> LastModified of its object, or NoZip
    export,     \* export -> step and key
    token,      \* export -> when its token ends, or NoZip
    sweep,      \* the purge at work: keys it listed as stale, or NoZip
    overwritten \* history: keys uploaded again while the sweep held them as stale

exportVars == <<minute, zipAt, export, token, sweep, overwritten>>

Keys == Exports \cup TaskKeys
Times == 0..LastMinute

ExportsInit ==
    /\ minute = 0
    /\ zipAt = [k \in Keys |-> NoZip]
    /\ export = [e \in Exports |-> [step |-> "idle", key |-> e, at |-> 0]]
    /\ token = [e \in Exports |-> NoZip]
    /\ sweep = NoZip
    /\ overwritten = {}

\* The log is found, on the disk or in S3, and zipped; when it is not, nothing starts.
Request(e, k) ==
    /\ export[e].step = "idle" /\ k \in {e} \cup TaskKeys
    /\ export' = [export EXCEPT ![e] = [step |-> "zipped", key |-> k, at |-> 0]]
    /\ UNCHANGED <<minute, zipAt, token, sweep, overwritten>>

\* upload_file; a failure is an error to the caller.
UploadExport(e) ==
    /\ export[e].step = "zipped"
    /\ \/ /\ zipAt' = [zipAt EXCEPT ![export[e].key] = minute]
          /\ export' = [export EXCEPT ![e] = [@ EXCEPT !.step = "uploaded", !.at = minute]]
          /\ overwritten' = IF sweep # NoZip /\ export[e].key \in sweep
                            THEN overwritten \cup {export[e].key} ELSE overwritten
       \/ /\ export' = [export EXCEPT ![e].step = "failed"]
          /\ UNCHANGED <<zipAt, overwritten>>
    /\ UNCHANGED <<minute, token, sweep>>

\* redis_set of the token, then the e-mail; a failed e-mail leaves the token.
SendLink(e) ==
    /\ export[e].step = "uploaded"
    /\ token' = [token EXCEPT ![e] = minute + TokenLife]
    /\ export' = [export EXCEPT ![e].step = "sent"]
    /\ UNCHANGED <<minute, zipAt, sweep, overwritten>>

SendFails(e) ==
    /\ export[e].step = "uploaded"
    /\ export' = [export EXCEPT ![e].step = "failed"]
    /\ UNCHANGED <<minute, zipAt, token, sweep, overwritten>>

-----------------------------------------------------------------------------
\* Mutant: the sweep takes everything uploaded before it started.
StaleAtOnce(k) == zipAt[k] # NoZip /\ zipAt[k] < minute

\* purge_stale_objects keeps an object with LastModified >= cutoff.
Stale(k) == zipAt[k] # NoZip /\ zipAt[k] + TokenLife < minute

StartSweep ==
    /\ sweep = NoZip
    /\ sweep' = {k \in Keys : Stale(k)}
    /\ sweep' # {}
    /\ UNCHANGED <<minute, zipAt, export, token, overwritten>>

\* delete_object by key, whatever the object is by now; a failed delete is logged.
SweepObject(k) ==
    /\ sweep # NoZip /\ k \in sweep
    /\ zipAt' \in {zipAt, [zipAt EXCEPT ![k] = NoZip]}
    /\ sweep' = sweep \ {k}
    /\ UNCHANGED <<minute, export, token, overwritten>>

SweepEnds ==
    /\ sweep # NoZip
    /\ sweep' = NoZip
    /\ UNCHANGED <<minute, zipAt, export, token, overwritten>>

\* A minute passes; Redis drops the tokens whose life is over.
MinutePasses ==
    /\ minute < LastMinute
    /\ minute' = minute + 1
    /\ token' = [e \in Exports |-> IF token[e] # NoZip /\ token[e] <= minute'
                                   THEN NoZip ELSE token[e]]
    /\ UNCHANGED <<zipAt, export, sweep, overwritten>>

ExportsNext ==
    \/ \E e \in Exports : UploadExport(e) \/ SendLink(e) \/ SendFails(e)
    \/ \E e \in Exports, k \in Keys : Request(e, k)
    \/ \E k \in Keys : SweepObject(k)
    \/ StartSweep \/ SweepEnds \/ MinutePasses

ExportsSpec == ExportsInit /\ [][ExportsNext]_exportVars

-----------------------------------------------------------------------------
ExportsTypeOK ==
    /\ minute \in Times
    /\ zipAt \in [Keys -> Times \cup {NoZip}]
    /\ export \in [Exports -> [step: {"idle", "zipped", "uploaded", "sent", "failed"},
                               key: Keys, at: Times]]
    /\ token \in [Exports -> 0..(LastMinute + TokenLife) \cup {NoZip}]
    /\ sweep \in (SUBSET Keys) \cup {NoZip}
    /\ overwritten \subseteq Keys

\* download_*_export: what redeeming the token leads to.
Serves(e) == zipAt[export[e].key] # NoZip

\* A link that can still be redeemed leads to its zip for the token's lifetime after
\* the upload, whatever the sweep does meanwhile; the exception is a task run
\* exported again under a key that a running sweep had listed as stale.
LinkServes ==
    \A e \in Exports :
        token[e] # NoZip /\ minute <= export[e].at + TokenLife
            => Serves(e) \/ export[e].key \in overwritten

=============================================================================
