--------------------------- MODULE ArchivalProofs ---------------------------
(***************************************************************************)
(* TLAPS proofs about ApiLogArchive, AnalysisLogs and LogExports, for any  *)
(* files, runs and exports, any retention and any length of time: no job   *)
(* that fails or dies anywhere loses what it moves.                        *)
(***************************************************************************)
EXTENDS ApiLogArchive, AnalysisLogs, LogExports, TLAPS

-----------------------------------------------------------------------------
(* API log files.                                                          *)

(* File f is in S3 or in an archive, or its archive is gone by design.     *)
Safe(f) == (\E d \in Days : f \in InFolder(d) \cup Contents(d)) \/ f \in purged \cup replaced

Archiver == [folder: Days, file: Files \cup {Nothing}, sent: BOOLEAN]
Grouper == [day: Days, keys: SUBSET Files, uploaded: BOOLEAN]

ArchiveTypes ==
    /\ today \in Days
    /\ disk \subseteq Files /\ purged \subseteq Files /\ replaced \subseteq Files
    /\ objects \subseteq Days \X Files
    /\ zips \in [Days -> (SUBSET Files) \cup {Nothing}]
    /\ archiver \in Archiver \cup {Nothing}
    /\ grouper \in Grouper \cup {Nothing}

(* What the archiver may remove is safe.                                   *)
SentIsSafe ==
    archiver # Nothing /\ archiver.sent => archiver.file \in Files /\ Safe(archiver.file)

(* What the grouper may delete has been put into the archive.              *)
GroupedIsSafe ==
    grouper # Nothing /\ grouper.uploaded =>
        grouper.keys \subseteq Contents(grouper.day) \cup purged \cup replaced

ArchiveInv == ArchiveTypes /\ LogsKept /\ SentIsSafe /\ GroupedIsSafe

LEMMA ArchiveInitially == ArchiveInit => ArchiveInv
<1> SUFFICES ASSUME ArchiveInit PROVE ArchiveInv
  OBVIOUS
<1>1. 0 \in Days
  BY ArchiveAssumption DEF Days
<1>2. ArchiveTypes
  <2>1. zips \in [Days -> (SUBSET Files) \cup {Nothing}]
    BY DEF ArchiveInit
  <2>2. objects \subseteq Days \X Files
    BY DEF ArchiveInit
  <2>3. QED
    BY <1>1, <2>1, <2>2 DEF ArchiveInit, ArchiveTypes
<1>3. LogsKept /\ SentIsSafe /\ GroupedIsSafe
  BY DEF ArchiveInit, LogsKept, SentIsSafe, GroupedIsSafe
<1>4. QED
  BY <1>2, <1>3 DEF ArchiveInv

LEMMA ArchiverRecords ==
    ASSUME NEW a \in Archiver, NEW f \in Files \cup {Nothing}, NEW b \in BOOLEAN
    PROVE  LET x == [a EXCEPT !.file = f, !.sent = b]
           IN  x \in Archiver /\ x.file = f /\ x.sent = b
BY DEF Archiver

LEMMA GrouperRecords ==
    ASSUME NEW g \in Grouper, NEW K \in SUBSET Files
    PROVE  /\ LET x == [g EXCEPT !.uploaded = TRUE]
              IN  x \in Grouper /\ x.day = g.day /\ x.keys = g.keys
           /\ LET y == [g EXCEPT !.keys = K]
              IN  y \in Grouper /\ y.day = g.day /\ y.keys = K /\ y.uploaded = g.uploaded
BY DEF Grouper

(* A step that leaves what is safe safe, and touches neither the grouper   *)
(* nor the archives.                                                       *)
LEMMA ArchiverMoves ==
    ASSUME ArchiveInv, NEW a \in Archiver \cup {Nothing}, archiver' = a,
           objects' \subseteq Days \X Files, objects \subseteq objects',
           UNCHANGED <<today, zips, grouper, purged, replaced>>,
           disk' \subseteq disk,
           \A f \in disk \ disk' : Safe(f),
           a # Nothing /\ a.sent => a.file \in Files /\ Safe(a.file)'
    PROVE  ArchiveInv'
<1>1. \A f : Safe(f) => Safe(f)'
  BY DEF Safe, InFolder, Contents
<1>2. ArchiveTypes'
  BY DEF ArchiveInv, ArchiveTypes
<1>3. LogsKept'
  BY <1>1 DEF ArchiveInv, LogsKept, Safe
<1>4. SentIsSafe'
  BY DEF SentIsSafe, Safe, InFolder, Contents
<1>5. GroupedIsSafe'
  BY DEF ArchiveInv, GroupedIsSafe, Contents
<1>6. QED
  BY <1>2, <1>3, <1>4, <1>5 DEF ArchiveInv


LEMMA ArchiverUploads ==
    ASSUME ArchiveInv, NEW f \in Files, Upload(f) PROVE ArchiveInv'
<1>1. PICK sent \in BOOLEAN :
          /\ archiver' = [archiver EXCEPT !.file = f, !.sent = sent]
          /\ objects' = IF sent THEN objects \cup {<<archiver.folder, f>>} ELSE objects
  BY DEF Upload
<1> DEFINE a == [archiver EXCEPT !.file = f, !.sent = sent]
<1>2. archiver \in Archiver /\ archiver.folder \in Days
  BY DEF Upload, ArchiveInv, ArchiveTypes, Archiver
<1>3. a \in Archiver /\ a.file = f /\ a.sent = sent
  BY <1>2 DEF Archiver
<1>4. archiver' = a
  BY <1>1
<1> HIDE DEF a
<1>5. objects' \subseteq Days \X Files /\ objects \subseteq objects'
  BY <1>1, <1>2 DEF ArchiveInv, ArchiveTypes
<1>6. sent => Safe(f)'
  BY <1>1, <1>2 DEF Safe, InFolder
<1>7. UNCHANGED <<today, disk, zips, grouper, purged, replaced>>
  BY DEF Upload
<1>8. QED
  BY <1>3, <1>4, <1>5, <1>6, <1>7, ArchiverMoves

LEMMA ArchiverRemoves ==
    ASSUME ArchiveInv, RemoveLocal \/ SkipFile PROVE ArchiveInv'
<1> DEFINE a == [archiver EXCEPT !.file = Nothing, !.sent = FALSE]
<1>1. archiver \in Archiver
  BY DEF RemoveLocal, SkipFile, ArchiveInv, ArchiveTypes
<1>2. a \in Archiver /\ ~a.sent
  BY <1>1, ArchiverRecords
<1>3. archiver' = a /\ UNCHANGED <<today, objects, zips, grouper, purged, replaced>>
  BY DEF RemoveLocal, SkipFile
<1> HIDE DEF a
<1>4. CASE RemoveLocal
  <2>1. Safe(archiver.file) /\ disk' = disk \ {archiver.file}
    BY <1>4 DEF RemoveLocal, Removable, ArchiveInv, SentIsSafe
  <2>2. disk' \subseteq disk /\ \A f \in disk \ disk' : Safe(f)
    BY <2>1
  <2>3. objects' \subseteq Days \X Files /\ objects \subseteq objects'
    BY <1>3 DEF ArchiveInv, ArchiveTypes
  <2>4. QED
    BY <1>2, <1>3, <2>2, <2>3, ArchiverMoves
<1>5. CASE SkipFile
  <2>1. disk' \subseteq disk /\ \A f \in disk \ disk' : Safe(f)
    BY <1>5 DEF SkipFile
  <2>2. objects' \subseteq Days \X Files /\ objects \subseteq objects'
    BY <1>3 DEF ArchiveInv, ArchiveTypes
  <2>3. QED
    BY <1>2, <1>3, <2>1, <2>2, ArchiverMoves
<1>6. QED
  BY <1>4, <1>5

LEMMA ArchiverStartsAndEnds ==
    ASSUME ArchiveInv, StartArchive \/ ArchiveEnds PROVE ArchiveInv'
<1> DEFINE a == [folder |-> today, file |-> Nothing, sent |-> FALSE]
<1>1. a \in Archiver /\ ~a.sent
  BY DEF Archiver, ArchiveInv, ArchiveTypes
<1>2. /\ archiver' = a \/ archiver' = Nothing
      /\ UNCHANGED <<today, disk, objects, zips, grouper, purged, replaced>>
  BY DEF StartArchive, ArchiveEnds
<1> HIDE DEF a
<1>3. /\ objects' \subseteq Days \X Files /\ objects \subseteq objects'
      /\ disk' \subseteq disk /\ \A f \in disk \ disk' : Safe(f)
  BY <1>2 DEF ArchiveInv, ArchiveTypes
<1>4. QED
  BY <1>1, <1>2, <1>3, ArchiverMoves

(* A step that leaves what is safe safe, and touches neither the disk nor  *)
(* the archiver.                                                           *)
LEMMA GrouperMoves ==
    ASSUME ArchiveInv, ArchiveTypes', UNCHANGED <<disk, archiver>>,
           \A f \in Files : Safe(f) => Safe(f)', GroupedIsSafe'
    PROVE  ArchiveInv'
<1>1. LogsKept'
  BY DEF ArchiveInv, LogsKept, Safe
<1>2. SentIsSafe'
  BY DEF ArchiveInv, SentIsSafe
<1>3. QED
  BY <1>1, <1>2 DEF ArchiveInv

LEMMA GrouperStarts ==
    ASSUME ArchiveInv, NEW d \in Days, StartGroup(d) PROVE ArchiveInv'
<1> DEFINE g == [day |-> d, keys |-> InFolder(d), uploaded |-> FALSE]
<1>1. g \in Grouper /\ ~g.uploaded
  BY DEF Grouper, InFolder
<1>2. grouper' = g /\ UNCHANGED <<today, disk, objects, zips, archiver, purged, replaced>>
  BY DEF StartGroup
<1> HIDE DEF g
<1>3. ArchiveTypes' /\ GroupedIsSafe'
  BY <1>1, <1>2 DEF ArchiveInv, ArchiveTypes, GroupedIsSafe
<1>4. \A f \in Files : Safe(f) => Safe(f)'
  BY <1>2 DEF Safe, InFolder, Contents
<1>5. QED
  BY <1>2, <1>3, <1>4, GrouperMoves

(* The archive gets what the folder had; what it loses is in replaced.     *)
LEMMA GrouperUploads ==
    ASSUME ArchiveInv, UploadZip PROVE ArchiveInv'
<1> DEFINE d == grouper.day
           K == grouper.keys
           g == [grouper EXCEPT !.uploaded = TRUE]
<1>1. grouper \in Grouper /\ d \in Days /\ K \in SUBSET Files
  BY DEF UploadZip, ArchiveInv, ArchiveTypes, Grouper
<1>2. g \in Grouper /\ g.day = d /\ g.keys = K
  BY <1>1, GrouperRecords
<1>3. /\ grouper' = g /\ zips' = [zips EXCEPT ![d] = K]
      /\ replaced' = replaced \cup (Contents(d) \ K)
      /\ UNCHANGED <<today, disk, objects, archiver, purged>>
  BY DEF UploadZip
<1> HIDE DEF d, K, g
<1>4. /\ zips'[d] = K /\ K # Nothing /\ Contents(d) \subseteq Files
      /\ \A e \in Days \ {d} : zips'[e] = zips[e]
  <2>1. zips \in [Days -> (SUBSET Files) \cup {Nothing}]
    BY DEF ArchiveInv, ArchiveTypes
  <2>2. Contents(d) \subseteq Files
    BY <1>1, <2>1 DEF Contents
  <2>3. QED
    BY <1>1, <1>3, <2>1, <2>2, ArchiveAssumption
<1>5. ArchiveTypes'
  BY <1>1, <1>2, <1>3, <1>4 DEF ArchiveInv, ArchiveTypes
<1>6. ASSUME NEW f \in Files, Safe(f) PROVE Safe(f)'
  <2>1. CASE f \in Contents(d)
    BY <1>1, <1>3, <1>4, <2>1 DEF Safe, Contents
  <2>2. CASE f \notin Contents(d)
    BY <1>3, <1>4, <1>6, <2>2 DEF Safe, InFolder, Contents
  <2>3. QED
    BY <2>1, <2>2
<1>7. GroupedIsSafe'
  BY <1>2, <1>3, <1>4 DEF GroupedIsSafe, Contents
<1>8. QED
  BY <1>3, <1>5, <1>6, <1>7, GrouperMoves

LEMMA GrouperDeletes ==
    ASSUME ArchiveInv, NEW f \in Files, DeleteSource(f) PROVE ArchiveInv'
<1> DEFINE d == grouper.day
           K == grouper.keys \ {f}
           g == [grouper EXCEPT !.keys = K]
<1>1. grouper \in Grouper /\ d \in Days /\ K \in SUBSET Files /\ f \in grouper.keys
  BY DEF DeleteSource, ArchiveInv, ArchiveTypes, Grouper
<1>2. g \in Grouper /\ g.day = d /\ g.keys = K
  BY <1>1, GrouperRecords
<1>3. /\ grouper' = g /\ UNCHANGED <<today, disk, zips, archiver, purged, replaced>>
      /\ objects' \subseteq objects /\ objects \ {<<d, f>>} \subseteq objects'
  BY DEF DeleteSource
<1>4. grouper.keys \subseteq Contents(d) \cup purged \cup replaced
  BY DEF DeleteSource, ArchiveInv, GroupedIsSafe
<1>5. K \subseteq Contents(d) \cup purged \cup replaced
  BY <1>4
<1> HIDE DEF d, K, g
<1>6. ArchiveTypes'
  BY <1>2, <1>3 DEF ArchiveInv, ArchiveTypes
<1>7. GroupedIsSafe'
  BY <1>2, <1>3, <1>5 DEF GroupedIsSafe, Contents
<1>8. ASSUME NEW h \in Files, Safe(h) PROVE Safe(h)'
  <2>1. CASE h = f
    BY <1>1, <1>3, <1>4, <2>1 DEF Safe, Contents
  <2>2. CASE h # f
    BY <1>3, <1>8, <2>2 DEF Safe, InFolder, Contents
  <2>3. QED
    BY <2>1, <2>2
<1>9. QED
  BY <1>3, <1>6, <1>7, <1>8, GrouperMoves

LEMMA ArchivePurged ==
    ASSUME ArchiveInv, NEW d \in Days, Purge(d) PROVE ArchiveInv'
<1>1. /\ zips' = [zips EXCEPT ![d] = Nothing] /\ purged' = purged \cup zips[d]
      /\ zips[d] # Nothing /\ UNCHANGED <<today, disk, objects, archiver, grouper, replaced>>
  BY DEF Purge
<1>2. zips \in [Days -> (SUBSET Files) \cup {Nothing}]
  BY DEF ArchiveInv, ArchiveTypes
<1>3. zips[d] \in SUBSET Files /\ \A e \in Days \ {d} : zips'[e] = zips[e]
  BY <1>1, <1>2
<1>4. zips' \in [Days -> (SUBSET Files) \cup {Nothing}]
  BY <1>1, <1>2
<1>5. ArchiveTypes'
  BY <1>1, <1>3, <1>4 DEF ArchiveInv, ArchiveTypes
<1>6. ASSUME NEW e \in Days, NEW f \in Contents(e) PROVE f \in Contents(e)' \cup purged'
  BY <1>1, <1>3 DEF Contents
<1>7. ASSUME NEW f \in Files, Safe(f) PROVE Safe(f)'
  <2>1. CASE f \in purged \cup replaced
    BY <1>1, <2>1 DEF Safe
  <2>2. ASSUME NEW e \in Days, f \in InFolder(e) \cup Contents(e) PROVE Safe(f)'
    BY <1>1, <1>6, <2>2 DEF Safe, InFolder
  <2>3. QED
    BY <1>7, <2>1, <2>2 DEF Safe
<1>8. GroupedIsSafe'
  <2> SUFFICES ASSUME grouper # Nothing, grouper.uploaded
               PROVE  grouper.keys \subseteq Contents(grouper.day)' \cup purged' \cup replaced'
    BY <1>1 DEF GroupedIsSafe
  <2>1. /\ grouper.keys \subseteq Contents(grouper.day) \cup purged \cup replaced
        /\ grouper.day \in Days
    BY DEF ArchiveInv, ArchiveTypes, Grouper, GroupedIsSafe
  <2>2. QED
    BY <1>1, <1>6, <2>1
<1>9. QED
  BY <1>1, <1>5, <1>7, <1>8, GrouperMoves

LEMMA ArchiveStep ==
    ASSUME ArchiveInv, [ArchiveNext]_archiveVars PROVE ArchiveInv'
<1>1. ASSUME ArchiveInv, ArchiveNext PROVE ArchiveInv'
  <2>1. CASE GroupEnds
    <3>1. UNCHANGED <<today, disk, objects, zips, archiver, purged, replaced>>
          /\ grouper' = Nothing
      BY <2>1 DEF GroupEnds
    <3>2. ArchiveTypes' /\ GroupedIsSafe' /\ \A f \in Files : Safe(f) => Safe(f)'
      BY <1>1, <3>1
      DEF ArchiveInv, ArchiveTypes, GroupedIsSafe, Safe, InFolder, Contents
    <3>3. QED
      BY <1>1, <3>1, <3>2, GrouperMoves
  <2>2. CASE Midnight
    <3>1. UNCHANGED <<disk, objects, zips, archiver, grouper, purged, replaced>>
          /\ today' \in Days
      BY <1>1, <2>2, ArchiveAssumption DEF Midnight, Days, ArchiveInv, ArchiveTypes
    <3>2. ArchiveTypes' /\ GroupedIsSafe' /\ \A f \in Files : Safe(f) => Safe(f)'
      BY <1>1, <3>1
      DEF ArchiveInv, ArchiveTypes, GroupedIsSafe, Safe, InFolder, Contents
    <3>3. QED
      BY <1>1, <3>1, <3>2, GrouperMoves
  <2>3. QED
    BY <1>1, <2>1, <2>2, ArchiverUploads, ArchiverRemoves, ArchiverStartsAndEnds,
       GrouperStarts, GrouperUploads, GrouperDeletes, ArchivePurged DEF ArchiveNext
<1>2. ASSUME ArchiveInv, UNCHANGED archiveVars PROVE ArchiveInv'
  BY <1>2
  DEF ArchiveInv, ArchiveTypes, LogsKept, SentIsSafe, GroupedIsSafe, Safe, InFolder, Contents,
      archiveVars
<1>3. QED
  BY <1>1, <1>2

LEMMA ArchiveInductive == ArchiveSpec => []ArchiveInv
BY ArchiveInitially, ArchiveStep, PTL DEF ArchiveSpec

(* The three scheduled jobs: wherever a call fails and whenever a worker   *)
(* dies, an API log file is lost before its archive's retention is over    *)
(* only when a second grouping of its day replaces the archive it is in.   *)
THEOREM NoLogFileLost == ArchiveSpec => []LogsKept
BY ArchiveInductive, PTL DEF ArchiveInv

(* Type correctness of the same jobs.                                      *)
THEOREM ArchiveTyped == ArchiveSpec => []ArchiveTypeOK
<1>1. ArchiveInv => ArchiveTypeOK
  BY DEF ArchiveInv, ArchiveTypes, ArchiveTypeOK, Archiver, Grouper
<1>2. QED
  BY <1>1, ArchiveInductive, PTL


-----------------------------------------------------------------------------
(* The log of a task run.                                                  *)

Uploader == [ids: SUBSET Runs, run: Runs \cup {NoJob}, step: Steps]
Purger == [ids: SUBSET Runs, objects: SUBSET Runs]

LogsTypes ==
    /\ age \in [Runs -> Ages]
    /\ row \in [Runs -> {"none", "plain", "archived"}]
    /\ local \subseteq Runs /\ stored \subseteq Runs
    /\ uploader \in Uploader \cup {NoJob}
    /\ purger \in Purger \cup {NoJob}

Old(r) == age[r] = "expired"

(* The file in hand is in S3, and once marked the row says so, unless the  *)
(* run is old enough to be purged.                                         *)
InHandStored ==
    uploader # NoJob /\ uploader.step # "next" =>
        /\ uploader.run \in Runs
        /\ uploader.run \in stored \/ Old(uploader.run)
        /\ uploader.step = "marked" => row[uploader.run] = "archived" \/ Old(uploader.run)

(* Only what is old is purged, or on the purger's list.                    *)
PurgesOld ==
    /\ \A r \in Runs : row[r] = "none" => Old(r)
    /\ purger # NoJob => \A r \in purger.ids \cup purger.objects : Old(r)

LogsInv == LogsTypes /\ LogReachable /\ InHandStored /\ PurgesOld

LEMMA LogsInitially == LogsInit => LogsInv
BY DEF LogsInit, LogsInv, LogsTypes, Ages, LogReachable, InHandStored, PurgesOld

LEMMA UploaderRecords ==
    ASSUME NEW u \in Uploader, NEW K \in SUBSET Runs
    PROVE  /\ LET x == [u EXCEPT !.ids = K]
              IN  x \in Uploader /\ x.step = u.step /\ x.run = u.run
           /\ LET x == [u EXCEPT !.step = "marked"]
              IN  x \in Uploader /\ x.step = "marked" /\ x.run = u.run
           /\ LET x == [u EXCEPT !.run = NoJob, !.step = "next"]
              IN  x \in Uploader /\ x.step = "next"
BY DEF Uploader, Steps

LEMMA PurgerRecords ==
    ASSUME NEW p \in Purger, NEW K \in SUBSET Runs
    PROVE  LET x == [p EXCEPT !.objects = K]
           IN  x \in Purger /\ x.ids = p.ids /\ x.objects = K
BY DEF Purger

LEMMA RunsAge ==
    ASSUME LogsInv, NEW r \in Runs, GrowOld(r) PROVE LogsInv'
<1>1. /\ age' \in [Runs -> Ages] /\ \A q \in Runs : Old(q) => Old(q)'
      /\ UNCHANGED <<row, local, stored, uploader, purger>>
  BY DEF GrowOld, LogsInv, LogsTypes, Ages, Old
<1>2. QED
  BY <1>1 DEF LogsInv, LogsTypes, LogReachable, InHandStored, PurgesOld, Old, Purger

(* The uploader moves on to a record that claims nothing new.              *)
LEMMA UploaderMoves ==
    ASSUME LogsInv, NEW u \in Uploader \cup {NoJob}, uploader' = u, u # NoJob => u.step = "next",
           UNCHANGED <<age, row, local, stored, purger>>
    PROVE  LogsInv'
BY DEF LogsInv, LogsTypes, LogReachable, InHandStored, PurgesOld, Old

LEMMA LogArchived ==
    ASSUME LogsInv, NEW r \in Runs, ArchiveLog(r) PROVE LogsInv'
<1>1. uploader \in Uploader /\ uploader.step = "next" /\ uploader.ids \in SUBSET Runs
  BY DEF ArchiveLog, LogsInv, LogsTypes, Uploader
<1>2. uploader.ids \ {r} \in SUBSET Runs
  BY <1>1
<1>3. CASE UNCHANGED stored /\ uploader' = [uploader EXCEPT !.ids = uploader.ids \ {r}]
  <2> DEFINE u == [uploader EXCEPT !.ids = uploader.ids \ {r}]
  <2>1. u \in Uploader /\ u.step = "next" /\ uploader' = u
    BY <1>1, <1>2, <1>3, UploaderRecords
  <2> HIDE DEF u
  <2>2. QED
    BY <1>3, <2>1, UploaderMoves DEF ArchiveLog
<1>4. CASE stored' = stored \cup {r}
           /\ uploader' = [ids |-> uploader.ids \ {r}, run |-> r, step |-> "uploaded"]
  <2>1. uploader' \in Uploader /\ uploader'.run = r /\ uploader'.step = "uploaded"
    BY <1>2, <1>4 DEF Uploader, Steps
  <2>2. UNCHANGED <<age, row, local, purger>>
    BY DEF ArchiveLog
  <2>3. QED
    BY <1>4, <2>1, <2>2 DEF LogsInv, LogsTypes, LogReachable, InHandStored, PurgesOld, Old
<1>5. QED
  BY <1>3, <1>4 DEF ArchiveLog

LEMMA LogMarked ==
    ASSUME LogsInv, SetLogArchived PROVE LogsInv'
<1> DEFINE q == uploader.run
           u == [uploader EXCEPT !.step = "marked"]
<1>1. uploader \in Uploader /\ q \in Runs /\ (q \in stored \/ Old(q))
  BY DEF SetLogArchived, LogsInv, LogsTypes, InHandStored
<1>2. u \in Uploader /\ u.step = "marked" /\ u.run = q
  BY <1>1, UploaderRecords
<1>3. /\ uploader' = u /\ UNCHANGED <<age, local, stored, purger>>
      /\ row' = [row EXCEPT ![q] = IF @ = "none" THEN @ ELSE "archived"]
  BY DEF SetLogArchived
<1> HIDE DEF q, u
<1>4. /\ row' \in [Runs -> {"none", "plain", "archived"}]
      /\ \A r \in Runs \ {q} : row'[r] = row[r]
      /\ IF row[q] = "none" THEN row'[q] = "none" ELSE row'[q] = "archived"
  BY <1>1, <1>3 DEF LogsInv, LogsTypes
<1>5. LogsTypes'
  BY <1>2, <1>3, <1>4 DEF LogsInv, LogsTypes
<1>6. PurgesOld' /\ LogReachable'
  BY <1>1, <1>3, <1>4 DEF LogsInv, LogsTypes, PurgesOld, LogReachable, Old
<1>7. InHandStored'
  BY <1>1, <1>2, <1>3, <1>4 DEF LogsInv, PurgesOld, InHandStored, Old
<1>8. QED
  BY <1>5, <1>6, <1>7 DEF LogsInv

LEMMA LogRemoved ==
    ASSUME LogsInv, RemoveLog PROVE LogsInv'
<1> DEFINE q == uploader.run
           u == [uploader EXCEPT !.run = NoJob, !.step = "next"]
<1>1. /\ uploader \in Uploader /\ q \in Runs
      /\ Old(q) \/ (row[q] = "archived" /\ q \in stored)
  BY DEF RemoveLog, RemovableLog, LogsInv, LogsTypes, InHandStored
<1>2. u \in Uploader /\ u.step = "next"
  BY <1>1 DEF Uploader, Steps
<1>3. /\ uploader' = u /\ local' = local \ {q} /\ UNCHANGED <<age, row, stored, purger>>
  BY DEF RemoveLog
<1> HIDE DEF q, u
<1>4. QED
  BY <1>1, <1>2, <1>3
  DEF LogsInv, LogsTypes, LogReachable, InHandStored, PurgesOld, Old

(* A purge takes nothing that is not old.                                  *)
LEMMA LogsPurged ==
    ASSUME LogsInv, StartPurging \/ DeleteRows \/ PurgingDies \/ \E r \in Runs : DeleteStoredLog(r)
    PROVE  LogsInv'
<1> USE DEF LogsInv, LogsTypes, LogReachable, InHandStored, PurgesOld, Old
<1>1. CASE StartPurging
  <2> DEFINE ids == {r \in Runs : row[r] # "none" /\ age[r] = "expired"}
             p == [ids |-> ids, objects |-> {r \in ids : row[r] = "archived"}]
  <2>1. p \in Purger /\ \A r \in p.ids \cup p.objects : age[r] = "expired"
    BY DEF Purger
  <2>2. purger' = p /\ UNCHANGED <<age, row, local, stored, uploader>>
    BY <1>1 DEF StartPurging
  <2> HIDE DEF p
  <2>3. QED
    BY <2>1, <2>2
<1>2. CASE DeleteRows
  <2>1. \A r \in Runs : row'[r] = row[r] \/ (row'[r] = "none" /\ Old(r))
    BY <1>2 DEF DeleteRows
  <2>2. row' \in [Runs -> {"none", "plain", "archived"}]
    BY <1>2 DEF DeleteRows
  <2>3. purger' = NoJob /\ UNCHANGED <<age, local, stored, uploader>>
    BY <1>2 DEF DeleteRows
  <2>4. QED
    BY <2>1, <2>2, <2>3
<1>3. CASE PurgingDies
  BY <1>3 DEF PurgingDies
<1>4. ASSUME NEW r \in Runs, DeleteStoredLog(r) PROVE LogsInv'
  <2> DEFINE K == purger.objects \ {r}
             p == [purger EXCEPT !.objects = K]
  <2>1. purger \in Purger /\ K \in SUBSET Runs /\ Old(r)
    BY <1>4 DEF DeleteStoredLog, Purger
  <2>2. p \in Purger /\ p.ids = purger.ids /\ p.objects = K
    BY <2>1, PurgerRecords
  <2>3. /\ purger' = p /\ UNCHANGED <<age, row, local, uploader>>
        /\ stored \ {r} \subseteq stored' /\ stored' \subseteq stored
    BY <1>4 DEF DeleteStoredLog
  <2>4. \A q \in p.ids \cup p.objects : Old(q)
    BY <1>4, <2>2 DEF DeleteStoredLog
  <2> HIDE DEF K, p
  <2>5. QED
    BY <2>1, <2>2, <2>3, <2>4
<1>5. QED
  BY <1>1, <1>2, <1>3, <1>4

LEMMA LogsStep ==
    ASSUME LogsInv, [LogsNext]_logVars PROVE LogsInv'
<1>1. ASSUME LogsInv, LogsNext PROVE LogsInv'
  <2>1. CASE StartArchiving \/ ArchivingEnds
    <3> DEFINE u == [ids |-> {r \in Runs : row[r] # "none" /\ age[r] # "young"},
                     run |-> NoJob, step |-> "next"]
    <3>1. u \in Uploader /\ u.step = "next"
      BY DEF Uploader, Steps
    <3>2. /\ uploader' = u \/ uploader' = NoJob
          /\ UNCHANGED <<age, row, local, stored, purger>>
      BY <2>1 DEF StartArchiving, ArchivingEnds
    <3> HIDE DEF u
    <3>3. QED
      BY <1>1, <3>1, <3>2, UploaderMoves
  <2>2. QED
    BY <1>1, <2>1, RunsAge, LogArchived, LogMarked, LogRemoved, LogsPurged DEF LogsNext
<1>2. ASSUME LogsInv, UNCHANGED logVars PROVE LogsInv'
  BY <1>2 DEF LogsInv, LogsTypes, LogReachable, InHandStored, PurgesOld, Old, logVars
<1>3. QED
  BY <1>1, <1>2

LEMMA LogsInductive == LogsSpec => []LogsInv
BY LogsInitially, LogsStep, PTL DEF LogsSpec

(* cleanup_old_analysis_logs and purge_expired_task_runs: however the two  *)
(* interleave, fail or die, a run's log is where its row says until the    *)
(* row's retention is over.                                                *)
THEOREM RunLogReachable == LogsSpec => []LogReachable
BY LogsInductive, PTL DEF LogsInv

(* Type correctness of the runs' rows, logs and the two jobs.              *)
THEOREM LogsTyped == LogsSpec => []LogsTypeOK
<1>1. LogsInv => LogsTypeOK
  BY DEF LogsInv, LogsTypes, LogsTypeOK, Uploader, Purger
<1>2. QED
  BY <1>1, LogsInductive, PTL

-----------------------------------------------------------------------------
(* Export links.                                                           *)

ExportState == [step: {"idle", "zipped", "uploaded", "sent", "failed"}, key: Keys, at: Times]

ExportsTypes ==
    /\ minute \in Times
    /\ zipAt \in [Keys -> Times \cup {NoZip}]
    /\ export \in [Exports -> ExportState]
    /\ sweep \in (SUBSET Keys) \cup {NoZip}
    /\ \A e \in Exports : export[e].at <= minute

(* The zip under key k was uploaded at t or later and is on no sweep's list. *)
Fresh(k, t) ==
    /\ zipAt[k] # NoZip /\ zipAt[k] >= t
    /\ sweep # NoZip => k \notin sweep

(* An uploaded export is fresh for the token's lifetime, and only a sent   *)
(* one has a token.                                                        *)
UploadsFresh ==
    \A e \in Exports :
        /\ export[e].step \in {"uploaded", "sent"} /\ minute <= export[e].at + TokenLife
               => Fresh(export[e].key, export[e].at) \/ export[e].key \in overwritten
        /\ token[e] # NoZip => export[e].step = "sent"

ExportsInv == ExportsTypes /\ UploadsFresh

LEMMA ExportsNumbers ==
    /\ TokenLife \in Nat /\ LastMinute \in Nat /\ Times \subseteq Nat /\ NoZip \notin Times
BY ExportsAssumption DEF Times

LEMMA ExportsInitially == ExportsInit => ExportsInv
<1> SUFFICES ASSUME ExportsInit PROVE ExportsInv
  OBVIOUS
<1>1. 0 \in Times
  BY ExportsAssumption DEF Times
<1>2. ASSUME NEW e \in Exports
      PROVE  /\ export[e] \in ExportState /\ export[e].at = 0 /\ export[e].step = "idle"
             /\ token[e] = NoZip
  BY <1>1 DEF ExportsInit, ExportState, Keys
<1>3. ExportsTypes
  BY <1>1, <1>2 DEF ExportsInit, ExportsTypes
<1>4. UploadsFresh
  BY <1>2 DEF UploadsFresh
<1>5. QED
  BY <1>3, <1>4 DEF ExportsInv

LEMMA ExportRecords ==
    ASSUME NEW x \in ExportState, NEW p \in {"sent", "failed"}
    PROVE  LET y == [x EXCEPT !.step = p]
           IN  y \in ExportState /\ y.step = p /\ y.key = x.key /\ y.at = x.at
BY DEF ExportState

LEMMA ExportUploaded ==
    ASSUME NEW x \in ExportState, NEW t \in Times
    PROVE  LET y == [x EXCEPT !.step = "uploaded", !.at = t]
           IN  y \in ExportState /\ y.step = "uploaded" /\ y.key = x.key /\ y.at = t
BY DEF ExportState

(* One export moves on, and claims no more than it could before.           *)
LEMMA ExportMoves ==
    ASSUME ExportsInv, NEW e \in Exports, NEW y \in ExportState,
           export' = [export EXCEPT ![e] = y], y.at <= minute,
           y.step \in {"uploaded", "sent"} =>
               /\ export[e].step = "uploaded"
               /\ y.key = export[e].key /\ y.at = export[e].at,
           token'[e] # NoZip => y.step = "sent",
           \A d \in Exports \ {e} : token'[d] = token[d],
           UNCHANGED <<minute, zipAt, sweep, overwritten>>
    PROVE  ExportsInv'
<1>1. export' \in [Exports -> ExportState] /\ export'[e] = y
      /\ \A d \in Exports \ {e} : export'[d] = export[d]
  BY DEF ExportsInv, ExportsTypes
<1>2. ExportsTypes'
  BY <1>1 DEF ExportsInv, ExportsTypes
<1>3. UploadsFresh'
  BY <1>1 DEF ExportsInv, UploadsFresh, Fresh
<1>4. QED
  BY <1>2, <1>3 DEF ExportsInv

LEMMA ExportRequested ==
    ASSUME ExportsInv, NEW e \in Exports, NEW k \in Keys, Request(e, k) PROVE ExportsInv'
<1> DEFINE y == [step |-> "zipped", key |-> k, at |-> 0]
<1>1. y \in ExportState /\ y.step = "zipped" /\ y.at <= minute
  BY ExportsNumbers DEF ExportState, ExportsInv, ExportsTypes, Times
<1>2. export' = [export EXCEPT ![e] = y] /\ export[e].step = "idle"
      /\ UNCHANGED <<minute, zipAt, token, sweep, overwritten>>
  BY DEF Request
<1>3. token[e] = NoZip
  BY <1>2 DEF ExportsInv, UploadsFresh
<1> HIDE DEF y
<1>4. QED
  BY <1>1, <1>2, <1>3, ExportMoves

LEMMA ExportEnds ==
    ASSUME ExportsInv, NEW e \in Exports, SendLink(e) \/ SendFails(e) PROVE ExportsInv'
<1> DEFINE x == export[e]
           sent == [x EXCEPT !.step = "sent"]
           failed == [x EXCEPT !.step = "failed"]
<1>1. x \in ExportState /\ x.step = "uploaded" /\ x.at <= minute
  BY DEF ExportsInv, ExportsTypes, SendLink, SendFails
<1>2. sent \in ExportState /\ sent.step = "sent" /\ sent.key = x.key /\ sent.at = x.at
  BY <1>1, ExportRecords
<1>3. failed \in ExportState /\ failed.step = "failed" /\ failed.key = x.key /\ failed.at = x.at
  BY <1>1, ExportRecords
<1>4. UNCHANGED <<minute, zipAt, sweep, overwritten>>
  BY DEF SendLink, SendFails
<1>5. CASE SendLink(e)
  <2>1. /\ export' = [export EXCEPT ![e] = sent]
        /\ \A d \in Exports \ {e} : token'[d] = token[d]
    BY <1>5 DEF SendLink
  <2> HIDE DEF x, sent
  <2>2. QED
    BY <1>1, <1>2, <1>4, <2>1, ExportMoves DEF x
<1>6. CASE SendFails(e)
  <2>1. export' = [export EXCEPT ![e] = failed] /\ token' = token
    BY <1>6 DEF SendFails
  <2>2. token[e] = NoZip
    BY <1>1 DEF ExportsInv, UploadsFresh
  <2> HIDE DEF x, failed
  <2>3. QED
    BY <1>1, <1>3, <1>4, <2>1, <2>2, ExportMoves
<1>7. QED
  BY <1>5, <1>6

(* An upload under a shared key only makes its zip younger.                *)
LEMMA ExportUploads ==
    ASSUME ExportsInv, NEW e \in Exports, UploadExport(e) PROVE ExportsInv'
<1> DEFINE x == export[e]
           k == x.key
           done == [x EXCEPT !.step = "uploaded", !.at = minute]
           failed == [x EXCEPT !.step = "failed"]
<1>1. /\ x \in ExportState /\ x.step = "zipped" /\ k \in Keys /\ minute \in Times
      /\ x.at <= minute /\ token[e] = NoZip
  BY DEF ExportsInv, ExportsTypes, ExportState, UploadsFresh, UploadExport
<1>2. done \in ExportState /\ done.step = "uploaded" /\ done.key = k /\ done.at = minute
  BY <1>1, ExportUploaded
<1>3. failed \in ExportState /\ failed.step = "failed" /\ failed.at = x.at
  BY <1>1, ExportRecords
<1>4. UNCHANGED <<minute, token, sweep>>
  BY DEF UploadExport
<1>5. CASE export' = [export EXCEPT ![e].step = "failed"] /\ UNCHANGED <<zipAt, overwritten>>
  <2>1. export' = [export EXCEPT ![e] = failed]
    BY <1>5
  <2> HIDE DEF x, k, failed
  <2>2. QED
    BY <1>1, <1>3, <1>4, <1>5, <2>1, ExportMoves
<1>6. CASE /\ zipAt' = [zipAt EXCEPT ![k] = minute]
           /\ export' = [export EXCEPT ![e] = done]
           /\ overwritten' = IF sweep # NoZip /\ k \in sweep THEN overwritten \cup {k}
                                                            ELSE overwritten
  <2> HIDE DEF x, k, done
  <2>1. /\ export' \in [Exports -> ExportState] /\ export'[e] = done
        /\ \A d \in Exports \ {e} : export'[d] = export[d]
    BY <1>2, <1>6 DEF ExportsInv, ExportsTypes
  <2>2. /\ zipAt' \in [Keys -> Times \cup {NoZip}] /\ zipAt'[k] = minute
        /\ \A q \in Keys \ {k} : zipAt'[q] = zipAt[q]
    BY <1>1, <1>6 DEF ExportsInv, ExportsTypes
  <2>3. minute \in Nat /\ minute # NoZip /\ \A d \in Exports : export[d].at \in Nat
    BY <1>1, ExportsNumbers DEF ExportsInv, ExportsTypes, ExportState
  <2>4. ExportsTypes'
    BY <1>2, <1>4, <2>1, <2>2, <2>3 DEF ExportsInv, ExportsTypes
  <2>5. \A d \in Exports : export[d].key \in Keys
    BY DEF ExportsInv, ExportsTypes, ExportState
  <2>6. /\ overwritten \subseteq overwritten'
        /\ sweep # NoZip /\ k \in sweep => k \in overwritten'
    BY <1>6
  <2>7. ASSUME NEW d \in Exports
        PROVE  /\ export'[d].step \in {"uploaded", "sent"} /\ minute <= export'[d].at + TokenLife
                      => Fresh(export[d].key, export[d].at)' \/ export'[d].key \in overwritten'
               /\ token[d] # NoZip => export'[d].step = "sent"
    <3>1. CASE d = e
      BY <1>1, <1>2, <1>4, <2>1, <2>2, <2>3, <2>6, <3>1 DEF Fresh
    <3>2. CASE d # e /\ export[d].key = k
      BY <1>4, <2>1, <2>2, <2>3, <2>6, <3>2 DEF ExportsInv, ExportsTypes, UploadsFresh, Fresh
    <3>3. CASE d # e /\ export[d].key # k
      BY <1>4, <2>1, <2>2, <2>5, <2>6, <3>3 DEF ExportsInv, UploadsFresh, Fresh
    <3>4. QED
      BY <3>1, <3>2, <3>3
  <2>8. UploadsFresh'
    BY <1>4, <2>7 DEF UploadsFresh
  <2>9. QED
    BY <2>4, <2>8 DEF ExportsInv
<1>7. QED
  BY <1>5, <1>6 DEF UploadExport

(* A sweep lists and deletes only what is older than any live token.       *)
LEMMA SweepSteps ==
    ASSUME ExportsInv, StartSweep \/ SweepEnds \/ \E k \in Keys : SweepObject(k)
    PROVE  ExportsInv'
<1>1. UNCHANGED <<minute, export, token, overwritten>>
  BY DEF StartSweep, SweepEnds, SweepObject
<1>2. ASSUME ExportsTypes',
             \A e \in Exports :
                 Fresh(export[e].key, export[e].at) /\ minute <= export[e].at + TokenLife
                     => Fresh(export[e].key, export[e].at)'
      PROVE  ExportsInv'
  BY <1>1, <1>2 DEF ExportsInv, UploadsFresh
<1>3. CASE StartSweep
  <2>1. sweep' = {k \in Keys : Stale(k)} /\ zipAt' = zipAt
    BY <1>3 DEF StartSweep
  <2>2. ExportsTypes'
    BY <1>1, <2>1 DEF ExportsInv, ExportsTypes
  <2>3. ASSUME NEW e \in Exports, Fresh(export[e].key, export[e].at),
               minute <= export[e].at + TokenLife
        PROVE  ~Stale(export[e].key)
    <3>1. /\ export[e].at \in Nat /\ minute \in Nat /\ export[e].key \in Keys
          /\ zipAt[export[e].key] \in Nat /\ zipAt[export[e].key] >= export[e].at
      BY <2>3, ExportsNumbers DEF ExportsInv, ExportsTypes, ExportState, Fresh
    <3>2. QED
      BY <2>3, <3>1, ExportsNumbers DEF Stale
  <2>4. QED
    BY <1>1, <1>2, <2>1, <2>2, <2>3 DEF Fresh
<1>4. CASE SweepEnds
  BY <1>1, <1>2, <1>4 DEF SweepEnds, ExportsInv, ExportsTypes, Fresh
<1>5. ASSUME NEW k \in Keys, SweepObject(k) PROVE ExportsInv'
  <2>1. /\ sweep \in SUBSET Keys /\ sweep # NoZip /\ k \in sweep /\ sweep' = sweep \ {k}
        /\ zipAt' = zipAt \/ zipAt' = [zipAt EXCEPT ![k] = NoZip]
    BY <1>5 DEF SweepObject, ExportsInv, ExportsTypes
  <2>2. zipAt' \in [Keys -> Times \cup {NoZip}] /\ \A q \in Keys \ {k} : zipAt'[q] = zipAt[q]
    BY <2>1 DEF ExportsInv, ExportsTypes
  <2>3. ExportsTypes'
    BY <1>1, <2>1, <2>2 DEF ExportsInv, ExportsTypes
  <2>4. \A e \in Exports : export[e].key \in Keys
    BY DEF ExportsInv, ExportsTypes, ExportState
  <2>5. QED
    BY <1>1, <1>2, <2>1, <2>2, <2>3, <2>4 DEF Fresh
<1>6. QED
  BY <1>3, <1>4, <1>5

LEMMA ExportsAge ==
    ASSUME ExportsInv, MinutePasses PROVE ExportsInv'
<1>1. /\ minute' = minute + 1 /\ minute' \in Times
      /\ UNCHANGED <<zipAt, export, sweep, overwritten>>
      /\ \A e \in Exports : token'[e] # NoZip => token[e] # NoZip
  BY ExportsAssumption DEF MinutePasses, ExportsInv, ExportsTypes, Times
<1>2. minute \in Nat /\ \A e \in Exports : export[e].at \in Nat
  BY ExportsNumbers DEF ExportsInv, ExportsTypes, ExportState
<1>3. ExportsTypes'
  BY <1>1, <1>2 DEF ExportsInv, ExportsTypes
<1>4. \A e \in Exports : minute' <= export[e].at + TokenLife => minute <= export[e].at + TokenLife
  BY <1>1, <1>2, ExportsNumbers
<1>5. UploadsFresh'
  BY <1>1, <1>4 DEF ExportsInv, UploadsFresh, Fresh
<1>6. QED
  BY <1>3, <1>5 DEF ExportsInv

LEMMA ExportsStep ==
    ASSUME ExportsInv, [ExportsNext]_exportVars PROVE ExportsInv'
<1>1. ASSUME ExportsInv, ExportsNext PROVE ExportsInv'
  BY <1>1, ExportRequested, ExportEnds, ExportUploads, SweepSteps, ExportsAge DEF ExportsNext
<1>2. ASSUME ExportsInv, UNCHANGED exportVars PROVE ExportsInv'
  BY <1>2 DEF ExportsInv, ExportsTypes, UploadsFresh, Fresh, exportVars
<1>3. QED
  BY <1>1, <1>2

LEMMA ExportsInductive == ExportsSpec => []ExportsInv
BY ExportsInitially, ExportsStep, PTL DEF ExportsSpec

(* email_log_export and purge_stale_objects: for the token's lifetime a    *)
(* link leads to its zip, unless a running sweep had listed the key and it *)
(* was uploaded again meanwhile.                                           *)
THEOREM LinksServed == ExportsSpec => []LinkServes
<1>1. ExportsInv => LinkServes
  BY DEF ExportsInv, UploadsFresh, Fresh, LinkServes, Serves
<1>2. QED
  BY <1>1, ExportsInductive, PTL

(* Tokens end within the bound, and only keys are overwritten.             *)
TokenTypes ==
    token \in [Exports -> 0..(LastMinute + TokenLife) \cup {NoZip}] /\ overwritten \subseteq Keys

LEMMA TokensInitially == ExportsInit => TokenTypes
BY DEF ExportsInit, TokenTypes

LEMMA TokensStep ==
    ASSUME ExportsInv, TokenTypes, [ExportsNext]_exportVars PROVE TokenTypes'
<1>1. ASSUME NEW e \in Exports, UploadExport(e) PROVE TokenTypes'
  <2>1. export[e].key \in Keys
    BY DEF ExportsInv, ExportsTypes, ExportState
  <2>2. QED
    BY <1>1, <2>1 DEF UploadExport, TokenTypes
<1>2. ASSUME NEW e \in Exports, SendLink(e) PROVE TokenTypes'
  <2>1. minute + TokenLife \in 0..(LastMinute + TokenLife)
    BY ExportsNumbers DEF ExportsInv, ExportsTypes, Times
  <2>2. QED
    BY <1>2, <2>1 DEF SendLink, TokenTypes
<1>3. CASE MinutePasses
  BY <1>3 DEF MinutePasses, TokenTypes
<1>4. CASE UNCHANGED <<token, overwritten>>
  BY <1>4 DEF TokenTypes
<1>5. QED
  BY <1>1, <1>2, <1>3, <1>4
  DEF ExportsNext, SendFails, Request, SweepObject, StartSweep, SweepEnds, exportVars

(* Type correctness of the exports, their tokens and the sweep.            *)
THEOREM ExportsTyped == ExportsSpec => []ExportsTypeOK
<1>1. ExportsInv /\ TokenTypes => ExportsTypeOK
  BY DEF ExportsInv, ExportsTypes, TokenTypes, ExportsTypeOK, ExportState
<1>2. QED
  BY <1>1, ExportsInitially, ExportsStep, TokensInitially, TokensStep, PTL DEF ExportsSpec

=============================================================================
