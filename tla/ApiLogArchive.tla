---------------------------- MODULE ApiLogArchive ----------------------------
(***************************************************************************)
(* API log files on their way from the disk to S3, into one zip per day,   *)
(* and out of it after the retention: three scheduled jobs, each a loop of *)
(* separate calls of which any can fail and after any of which the worker  *)
(* can die.                                                                *)
(***************************************************************************)
EXTENDS Naturals, FiniteSets

CONSTANTS
    Files,          \* rotated log files
    LastDay,        \* bound on the calendar
    GroupAfter,     \* api_log_s3_group_after_seconds, in days
    KeepFor,        \* api_log_s3_retention_seconds, in days
    Nothing         \* no archive, no job at work

ASSUME ArchiveAssumption ==
    /\ LastDay \in Nat /\ GroupAfter \in Nat /\ KeepFor \in Nat
    /\ \A keys \in SUBSET Files : keys # Nothing

VARIABLES
    today,      \* UTC day
    disk,       \* rotated files older than the local retention, in the log directory
    objects,    \* individual S3 objects: <<day folder, file>>
    zips,       \* per day: the files in its archive, or Nothing
    archiver,   \* archive_old_api_logs_to_s3: its folder, the file in hand, uploaded?
    grouper,    \* group_old_api_log_archives_by_day: day, keys, step
    purged,     \* history: files of purged archives
    replaced    \* history: files whose archive was overwritten without them

archiveVars == <<today, disk, objects, zips, archiver, grouper, purged, replaced>>

Days == 0..LastDay
Contents(d) == IF zips[d] = Nothing THEN {} ELSE zips[d]

ArchiveInit ==
    /\ today = 0
    /\ disk = Files /\ objects = {} /\ purged = {} /\ replaced = {}
    /\ zips = [d \in Days |-> Nothing]
    /\ archiver = Nothing
    /\ grouper = Nothing

-----------------------------------------------------------------------------
(* archive_old_api_logs_to_s3: runs on the folder of the day it started *)

StartArchive ==
    /\ archiver = Nothing
    /\ archiver' = [folder |-> today, file |-> Nothing, sent |-> FALSE]
    /\ UNCHANGED <<today, disk, objects, zips, grouper, purged, replaced>>

\* put_object under the folder; reading the file or uploading it can fail.
Upload(f) ==
    /\ archiver # Nothing /\ archiver.file = Nothing /\ f \in disk
    /\ \E sent \in BOOLEAN :
        /\ archiver' = [archiver EXCEPT !.file = f, !.sent = sent]
        /\ objects' = IF sent THEN objects \cup {<<archiver.folder, f>>} ELSE objects
    /\ UNCHANGED <<today, disk, zips, grouper, purged, replaced>>

\* Mutant: the local copy goes whether the upload has worked or not.
RemovableAnyway == archiver.file # Nothing

Removable == archiver.sent

\* os.remove
RemoveLocal ==
    /\ archiver # Nothing /\ Removable
    /\ disk' = disk \ {archiver.file}
    /\ archiver' = [archiver EXCEPT !.file = Nothing, !.sent = FALSE]
    /\ UNCHANGED <<today, objects, zips, grouper, purged, replaced>>

\* The upload or the removal failed: on to the next file; a later run tries again.
SkipFile ==
    /\ archiver # Nothing /\ archiver.file # Nothing
    /\ archiver' = [archiver EXCEPT !.file = Nothing, !.sent = FALSE]
    /\ UNCHANGED <<today, disk, objects, zips, grouper, purged, replaced>>

\* The listing is done, or the worker dies.
ArchiveEnds ==
    /\ archiver # Nothing
    /\ archiver' = Nothing
    /\ UNCHANGED <<today, disk, objects, zips, grouper, purged, replaced>>

-----------------------------------------------------------------------------
(* group_old_api_log_archives_by_day *)

InFolder(d) == {f \in Files : <<d, f>> \in objects}

\* An old enough day folder is listed.
StartGroup(d) ==
    /\ grouper = Nothing
    /\ d + GroupAfter <= today /\ InFolder(d) # {}
    /\ grouper' = [day |-> d, keys |-> InFolder(d), uploaded |-> FALSE]
    /\ UNCHANGED <<today, disk, objects, zips, archiver, purged, replaced>>

\* upload_file replaces the day's archive, if there is one.
UploadZip ==
    /\ grouper # Nothing /\ ~grouper.uploaded
    /\ zips' = [zips EXCEPT ![grouper.day] = grouper.keys]
    /\ replaced' = replaced \cup (Contents(grouper.day) \ grouper.keys)
    /\ grouper' = [grouper EXCEPT !.uploaded = TRUE]
    /\ UNCHANGED <<today, disk, objects, archiver, purged>>

\* delete_object of each source; one that fails is left in the folder.
DeleteSource(f) ==
    /\ grouper # Nothing /\ grouper.uploaded /\ f \in grouper.keys
    /\ \/ objects' = objects \ {<<grouper.day, f>>}
       \/ UNCHANGED objects
    /\ grouper' = [grouper EXCEPT !.keys = @ \ {f}]
    /\ UNCHANGED <<today, disk, zips, archiver, purged, replaced>>

\* Done, or a download or the upload fails, or the worker dies.
GroupEnds ==
    /\ grouper # Nothing
    /\ grouper' = Nothing
    /\ UNCHANGED <<today, disk, objects, zips, archiver, purged, replaced>>

-----------------------------------------------------------------------------
Expired(d) == d + KeepFor <= today

\* purge_expired_api_log_archives, one archive; a failed delete is tried next day.
Purge(d) ==
    /\ zips[d] # Nothing /\ Expired(d)
    /\ zips' = [zips EXCEPT ![d] = Nothing]
    /\ purged' = purged \cup zips[d]
    /\ UNCHANGED <<today, disk, objects, archiver, grouper, replaced>>

Midnight ==
    /\ today < LastDay
    /\ today' = today + 1
    /\ UNCHANGED <<disk, objects, zips, archiver, grouper, purged, replaced>>

ArchiveNext ==
    \/ \E f \in Files : Upload(f) \/ DeleteSource(f)
    \/ \E d \in Days : StartGroup(d) \/ Purge(d)
    \/ StartArchive \/ RemoveLocal \/ SkipFile \/ ArchiveEnds
    \/ UploadZip \/ GroupEnds \/ Midnight

ArchiveSpec == ArchiveInit /\ [][ArchiveNext]_archiveVars

-----------------------------------------------------------------------------
ArchiveTypeOK ==
    /\ today \in Days
    /\ disk \subseteq Files /\ purged \subseteq Files /\ replaced \subseteq Files
    /\ objects \subseteq Days \X Files
    /\ zips \in [Days -> (SUBSET Files) \cup {Nothing}]
    /\ archiver \in [folder: Days, file: Files \cup {Nothing}, sent: BOOLEAN] \cup {Nothing}
    /\ grouper \in [day: Days, keys: SUBSET Files, uploaded: BOOLEAN] \cup {Nothing}

\* Whatever fails and whenever a worker dies, a log file is on the disk, in S3 or
\* in an archive until its archive's retention is over.  The one exception is an archive
\* that a second grouping of its day has replaced by what the folder held then: sources
\* the first one could not delete or died before deleting, or a late upload.
LogsKept ==
    \A f \in Files :
        \/ f \in disk
        \/ \E d \in Days : f \in InFolder(d) \cup Contents(d)
        \/ f \in purged \cup replaced

=============================================================================
