---------------------------- MODULE AnalysisLogs ----------------------------
(***************************************************************************)
(* The log file of a task run: moved to S3 once the run is older than the  *)
(* log retention, deleted with the run's row once it is older than the row *)
(* retention. Both jobs work from a list read at their start, one call at  *)
(* a time; any call can fail and the worker can die between any two.       *)
(***************************************************************************)
EXTENDS Naturals, FiniteSets

CONSTANTS
    Runs,   \* task runs that have written a log
    NoJob   \* the job is not at work

VARIABLES
    age,        \* "young" -> "stale" (log retention) -> "expired" (row retention)
    row,        \* "none", "plain" or "archived" (log_s3_path set)
    local,      \* runs whose log file is on the worker's disk
    stored,     \* runs whose log is in S3
    uploader,   \* cleanup_old_analysis_logs: ids read, file in hand, step
    purger      \* purge_expired_task_runs: ids read, objects left to delete

logVars == <<age, row, local, stored, uploader, purger>>

Ages == {"young", "stale", "expired"}
Steps == {"next", "uploaded", "marked"}

LogsInit ==
    /\ age = [r \in Runs |-> "young"]
    /\ row = [r \in Runs |-> "plain"]
    /\ local = Runs
    /\ stored = {}
    /\ uploader = NoJob
    /\ purger = NoJob

GrowOld(r) ==
    /\ age[r] # "expired"
    /\ age' = [age EXCEPT ![r] = IF @ = "young" THEN "stale" ELSE "expired"]
    /\ UNCHANGED <<row, local, stored, uploader, purger>>

-----------------------------------------------------------------------------
\* get_log_ids_older_than(log retention)
StartArchiving ==
    /\ uploader = NoJob
    /\ uploader' = [ids |-> {r \in Runs : row[r] # "none" /\ age[r] # "young"},
                    run |-> NoJob, step |-> "next"]
    /\ UNCHANGED <<age, row, local, stored, purger>>

\* _archive_analysis_log_to_s3; a run without a file, or whose upload fails, is skipped.
ArchiveLog(r) ==
    /\ uploader # NoJob /\ uploader.step = "next" /\ r \in uploader.ids
    /\ \/ /\ r \in local
          /\ stored' = stored \cup {r}
          /\ uploader' = [ids |-> uploader.ids \ {r}, run |-> r, step |-> "uploaded"]
       \/ /\ uploader' = [uploader EXCEPT !.ids = @ \ {r}]
          /\ UNCHANGED stored
    /\ UNCHANGED <<age, row, local, purger>>

\* set_log_archived and its commit, if the row is still there.
SetLogArchived ==
    /\ uploader # NoJob /\ uploader.step = "uploaded"
    /\ row' = [row EXCEPT ![uploader.run] = IF @ = "none" THEN @ ELSE "archived"]
    /\ uploader' = [uploader EXCEPT !.step = "marked"]
    /\ UNCHANGED <<age, local, stored, purger>>

\* Mutant: the local copy goes as soon as it is uploaded, before the row says so.
RemovableOnceUploaded == uploader.step \in {"uploaded", "marked"}

RemovableLog == uploader.step = "marked"

RemoveLog ==
    /\ uploader # NoJob /\ RemovableLog
    /\ local' = local \ {uploader.run}
    /\ uploader' = [uploader EXCEPT !.run = NoJob, !.step = "next"]
    /\ UNCHANGED <<age, row, stored, purger>>

\* The ids are used up, the commit or os.remove raises, or the worker dies.
ArchivingEnds ==
    /\ uploader # NoJob
    /\ uploader' = NoJob
    /\ UNCHANGED <<age, row, local, stored, purger>>

-----------------------------------------------------------------------------
\* get_expired_task_runs(row retention): ids with the S3 path they have now.
StartPurging ==
    /\ purger = NoJob
    /\ LET ids == {r \in Runs : row[r] # "none" /\ age[r] = "expired"}
       IN  /\ ids # {}
           /\ purger' = [ids |-> ids, objects |-> {r \in ids : row[r] = "archived"}]
    /\ UNCHANGED <<age, row, local, stored, uploader>>

\* A failed delete, or S3 not configured, does not keep the row.
DeleteStoredLog(r) ==
    /\ purger # NoJob /\ r \in purger.objects
    /\ stored' \in {stored, stored \ {r}}
    /\ purger' = [purger EXCEPT !.objects = @ \ {r}]
    /\ UNCHANGED <<age, row, local, uploader>>

\* delete_by_ids
DeleteRows ==
    /\ purger # NoJob /\ purger.objects = {}
    /\ row' = [r \in Runs |-> IF r \in purger.ids THEN "none" ELSE row[r]]
    /\ purger' = NoJob
    /\ UNCHANGED <<age, local, stored, uploader>>

PurgingDies ==
    /\ purger # NoJob
    /\ purger' = NoJob
    /\ UNCHANGED <<age, row, local, stored, uploader>>

LogsNext ==
    \/ \E r \in Runs : GrowOld(r) \/ ArchiveLog(r) \/ DeleteStoredLog(r)
    \/ StartArchiving \/ SetLogArchived \/ RemoveLog \/ ArchivingEnds
    \/ StartPurging \/ DeleteRows \/ PurgingDies

LogsSpec == LogsInit /\ [][LogsNext]_logVars

-----------------------------------------------------------------------------
LogsTypeOK ==
    /\ age \in [Runs -> Ages]
    /\ row \in [Runs -> {"none", "plain", "archived"}]
    /\ local \subseteq Runs /\ stored \subseteq Runs
    /\ uploader \in [ids: SUBSET Runs, run: Runs \cup {NoJob}, step: Steps] \cup {NoJob}
    /\ purger \in [ids: SUBSET Runs, objects: SUBSET Runs] \cup {NoJob}

\* Until its row's retention is over, the log of a run is where an export looks for
\* it: on the disk, or in S3 with the path in the row, however the two jobs
\* interleave and wherever one of them fails or dies.
LogReachable ==
    \A r \in Runs :
        age[r] # "expired" => r \in local \/ (row[r] = "archived" /\ r \in stored)

=============================================================================
