----------------------------- MODULE FilesProofs -----------------------------
(***************************************************************************)
(* What holds of the files for every set of files and of requests, every   *)
(* content and any number of updates of the antivirus and of failures.     *)
(***************************************************************************)
EXTENDS Files, TLAPS

\* Rows come last: whoever works on a file found its row, and an upload that
\* has no row yet is the only one to touch its object.
RowsFollowUploads ==
  /\ \A f \in Files :
       /\ up[f] = "done" <=> f \in rows
       /\ up[f] \in {"naming", "named"} => f \notin objects
       /\ up[f] = "naming" => verdict[f] = "none"
       /\ up[f] = "stored" =>
            f \in objects /\ verdict[f] = "clean" /\ f \in labelled
  /\ infected \subseteq rows
  /\ \A d \in Downloads :
       /\ dl[d] # "idle" => FileOf[d] \in rows
       /\ dl[d] = "removed" => FileOf[d] \notin objects
       /\ dl[d] = "kept" => FileOf[d] \in cutOff
  /\ \A x \in Deletions : del[x] # "idle" => FileOf[x] \in rows

\* The batch was due when it was selected and still is; what is due is read
\* by nobody, so no deletion schedules it again.
BatchIsDue ==
  /\ \A f \in batch : f \in rows /\ fate[f] = "due"
  /\ \A d \in Downloads :
       fate[FileOf[d]] = "due" => dl[d] \in {"idle", "served", "refused"}
  /\ \A x \in Deletions :
       fate[FileOf[x]] = "due" => del[x] \notin {"found", "scheduled"}

\* Version v says nothing of f that a scan did not find.
Honest(f, v) == ~ Detects(f, v) \/ f \in lateLabels

\* What is claimed of a file was found by a scan at least as recent: pending
\* labels, labels of rows, what downloads have read and what they will write.
LabelsHonest ==
  /\ \A f \in Files :
       /\ label[f] <= av
       /\ up[f] = "named" /\ verdict[f] = "clean" =>
            Honest(f, IF f \in labelled THEN label[f] ELSE av)
       /\ up[f] = "stored" => Honest(f, label[f])
       /\ f \in rows \ infected => Honest(f, label[f])
  /\ \A d \in Downloads :
       /\ seen[d] <= av /\ version[d] <= av
       /\ dl[d] \in {"found", "fetched", "missing"} => Honest(FileOf[d], seen[d])
       /\ dl[d] = "clean" => Honest(FileOf[d], version[d])
       /\ dl[d] = "served" =>
            Honest(FileOf[d], version[d]) \/ (seen[d] = Unknown /\ d \in unread)

\* A name was free when it was given, and stays so unless a row of the same
\* name is inserted before this one.
NamesWereFree ==
  \A f \in Files : up[f] \in {"named", "stored"} =>
    \A g \in rows \ deleted :
      name[f] = name[g] => {f, g} \in overlaps \/ g \in staleWrites

FilesInv ==
  /\ FilesTypeOK
  /\ RowsFollowUploads
  /\ BatchIsDue
  /\ LabelsHonest
  /\ InfectedObjectNeedsFailure
  /\ ObjectsHaveRows
  /\ OfferedFilesExist
  /\ NamesWereFree
  /\ SameNameNeedsOverlap
  /\ ScheduledFilesAreUnshared

USE FilesAssumption

LEMMA FilesInvInit == FilesInit => FilesInv
BY DEF FilesInit, FilesInv, FilesTypeOK, Versions, Labels, Unknown, Fates, Scheduled,
  RowsFollowUploads, BatchIsDue, LabelsHonest, Honest, NamesWereFree, Live,
  InfectedObjectNeedsFailure, ObjectsHaveRows, OfferedFilesExist,
  SameNameNeedsOverlap, ScheduledFilesAreUnshared

-----------------------------------------------------------------------------
(* One lemma for each part of the invariant, one step for each action that *)
(* can disturb it.                                                         *)

\* A sharing is added for a row that exists, and no step takes a row away.
LEMMA FilesTypesStep ==
  FilesTypeOK /\ [FilesNext]_vars
  => FilesTypeOK'
<1> SUFFICES ASSUME FilesTypeOK, [FilesNext]_vars
             PROVE  FilesTypeOK'
  OBVIOUS
<1> USE DEF FilesTypeOK, Versions, Labels, Unknown, MayBeTold, Told, Fates, Scheduled
<1>1. CASE UpdateDatabase
  BY <1>1 DEF UpdateDatabase, config, table, uploads, downloads, cleanup,
    history
<1>2. ASSUME NEW f \in Files, Lapse(f)
      PROVE  FilesTypeOK'
  BY <1>2 DEF Lapse, Busy, config, table, uploads, downloads, cleanup,
    history
<1>3. ASSUME NEW f \in Files, TryName(f)
      PROVE  FilesTypeOK'
  BY <1>3 DEF TryName, Taken, config, table, uploads, downloads, cleanup,
    history
<1>4. ASSUME NEW f \in Files, ReadVersion(f)
      PROVE  FilesTypeOK'
  BY <1>4 DEF ReadVersion, VersionMayBeRead, config, table, uploads,
    downloads, cleanup, history
<1>5. ASSUME NEW f \in Files, ScanUpload(f)
      PROVE  FilesTypeOK'
  BY <1>5 DEF ScanUpload, config, table, uploads, downloads, cleanup,
    history
<1>6. ASSUME NEW f \in Files, RejectUpload(f)
      PROVE  FilesTypeOK'
  BY <1>6 DEF RejectUpload, config, table, uploads, downloads, cleanup,
    history
<1>7. ASSUME NEW f \in Files, StoreObject(f)
      PROVE  FilesTypeOK'
  BY <1>7 DEF StoreObject, MayStore, config, table, uploads, downloads,
    cleanup, history
<1>8. ASSUME NEW f \in Files, NEW ttl \in {"keep", "expires"}, InsertRow(f, ttl)
      PROVE  FilesTypeOK'
  BY <1>8 DEF InsertRow, RowsWith, config, table, uploads, downloads,
    cleanup, history
<1>9. ASSUME NEW f \in Files, UploadFails(f)
      PROVE  FilesTypeOK'
  BY <1>9 DEF UploadFails, config, table, uploads, downloads, cleanup,
    history
<1>10. ASSUME NEW d \in Downloads, ReadRow(d)
      PROVE  FilesTypeOK'
  BY <1>10 DEF ReadRow, Readable, Live, config, table, uploads, downloads,
    cleanup, history
<1>11. ASSUME NEW d \in Downloads, Fetch(d)
      PROVE  FilesTypeOK'
  BY <1>11 DEF Fetch, config, table, uploads, downloads, cleanup, history
<1>12. ASSUME NEW d \in Downloads, MarkMissing(d)
      PROVE  FilesTypeOK'
  BY <1>12 DEF MarkMissing, WriteRow, config, table, uploads, downloads,
    cleanup, history
<1>13. ASSUME NEW d \in Downloads, CheckVersion(d)
      PROVE  FilesTypeOK'
  BY <1>13 DEF CheckVersion, config, table, uploads, downloads, cleanup,
    history
<1>14. ASSUME NEW d \in Downloads, ScanDownload(d)
      PROVE  FilesTypeOK'
  BY <1>14 DEF ScanDownload, config, table, uploads, downloads, cleanup,
    history
<1>15. ASSUME NEW d \in Downloads, RemoveInfected(d)
      PROVE  FilesTypeOK'
  BY <1>15 DEF RemoveInfected, ObjectsWithout, config, table, uploads,
    downloads, cleanup, history
<1>16. ASSUME NEW d \in Downloads, WriteBack(d)
      PROVE  FilesTypeOK'
  BY <1>16 DEF WriteBack, WriteRow, Gone, config, table, uploads,
    downloads, cleanup, history
<1>17. ASSUME NEW d \in Downloads, DownloadFails(d)
      PROVE  FilesTypeOK'
  BY <1>17 DEF DownloadFails, config, table, uploads, downloads, cleanup,
    history
<1>18. ASSUME NEW x \in Deletions, FindForDeletion(x)
      PROVE  FilesTypeOK'
  BY <1>18 DEF FindForDeletion, Live, config, table, uploads, downloads,
    cleanup, history
<1>19. ASSUME NEW x \in Deletions, ScheduleDeletion(x)
      PROVE  FilesTypeOK'
  BY <1>19 DEF ScheduleDeletion, config, table, uploads, downloads,
    cleanup, history
<1>20. ASSUME NEW x \in Deletions, RemoveSharings(x)
      PROVE  FilesTypeOK'
  BY <1>20 DEF RemoveSharings, SharingsWithout, config, table, uploads,
    downloads, cleanup, history
<1>21. ASSUME NEW x \in Deletions, DeletionFails(x)
      PROVE  FilesTypeOK'
  BY <1>21 DEF DeletionFails, config, table, uploads, downloads, cleanup,
    history
<1>22. ASSUME NEW s \in Sharings, Share(s[1], s[2])
      PROVE  FilesTypeOK'
  BY <1>22 DEF Share, Shareable, config, table, uploads, downloads,
    cleanup, history
<1>23. ASSUME NEW s \in Sharings, Unshare(s[1], s[2])
      PROVE  FilesTypeOK'
  BY <1>23 DEF Unshare, config, table, uploads, downloads, cleanup, history
<1>24. CASE ScheduleExpired
  BY <1>24 DEF ScheduleExpired, config, table, uploads, downloads, cleanup,
    history
<1>25. CASE SelectBatch
  BY <1>25 DEF SelectBatch, ExpiredFiles, config, table, uploads,
    downloads, cleanup, history
<1>26. CASE RemoveObjects
  BY <1>26 DEF RemoveObjects, config, table, uploads, downloads, cleanup,
    history
<1>27. CASE MarkDeleted
  BY <1>27 DEF MarkDeleted, config, table, uploads, downloads, cleanup,
    history
<1>28. CASE Crash
  BY <1>28 DEF Crash, Busy, config, table, uploads, downloads, cleanup,
    history
<1>29. CASE UNCHANGED vars
  BY <1>29 DEF vars, config, table, uploads, downloads, cleanup, history
<1> QED
  BY <1>1, <1>2, <1>3, <1>4, <1>5, <1>6, <1>7, <1>8, <1>9, <1>10, <1>11,
    <1>12, <1>13, <1>14, <1>15, <1>16, <1>17, <1>18, <1>19, <1>20, <1>21,
    <1>22, <1>23, <1>24, <1>25, <1>26, <1>27, <1>28, <1>29
  DEF FilesNext, UploadStep, DownloadStep, DeletionStep, JobStep

\* A row is the last thing an upload leaves, its object the last but one.
LEMMA UploadsStep ==
  FilesTypeOK /\ RowsFollowUploads /\ BatchIsDue /\ [FilesNext]_vars
  => RowsFollowUploads'
<1> SUFFICES ASSUME FilesTypeOK, RowsFollowUploads, BatchIsDue,
  [FilesNext]_vars
             PROVE  RowsFollowUploads'
  OBVIOUS
<1> USE DEF FilesTypeOK, RowsFollowUploads, BatchIsDue
<1>1. ASSUME NEW f \in Files, TryName(f)
      PROVE  RowsFollowUploads'
  BY <1>1 DEF TryName, Taken, config, table, uploads, downloads, cleanup,
    history
<1>2. ASSUME NEW f \in Files, ReadVersion(f)
      PROVE  RowsFollowUploads'
  BY <1>2 DEF ReadVersion, VersionMayBeRead, config, table, uploads,
    downloads, cleanup, history
<1>3. ASSUME NEW f \in Files, ScanUpload(f)
      PROVE  RowsFollowUploads'
  BY <1>3 DEF ScanUpload, config, table, uploads, downloads, cleanup,
    history
<1>4. ASSUME NEW f \in Files, RejectUpload(f)
      PROVE  RowsFollowUploads'
  BY <1>4 DEF RejectUpload, config, table, uploads, downloads, cleanup,
    history
<1>5. ASSUME NEW f \in Files, StoreObject(f)
      PROVE  RowsFollowUploads'
  BY <1>5 DEF StoreObject, MayStore, config, table, uploads, downloads,
    cleanup, history
<1>6. ASSUME NEW f \in Files, NEW ttl \in {"keep", "expires"}, InsertRow(f, ttl)
      PROVE  RowsFollowUploads'
  BY <1>6 DEF InsertRow, RowsWith, config, table, uploads, downloads,
    cleanup, history
<1>7. ASSUME NEW f \in Files, UploadFails(f)
      PROVE  RowsFollowUploads'
  BY <1>7 DEF UploadFails, config, table, uploads, downloads, cleanup,
    history
<1>8. ASSUME NEW d \in Downloads, ReadRow(d)
      PROVE  RowsFollowUploads'
  BY <1>8 DEF ReadRow, Readable, Live, config, table, uploads, downloads,
    cleanup, history
<1>9. ASSUME NEW d \in Downloads, Fetch(d)
      PROVE  RowsFollowUploads'
  BY <1>9 DEF Fetch, config, table, uploads, downloads, cleanup, history
<1>10. ASSUME NEW d \in Downloads, MarkMissing(d)
      PROVE  RowsFollowUploads'
  BY <1>10 DEF MarkMissing, WriteRow, config, table, uploads, downloads,
    cleanup, history
<1>11. ASSUME NEW d \in Downloads, CheckVersion(d)
      PROVE  RowsFollowUploads'
  BY <1>11 DEF CheckVersion, config, table, uploads, downloads, cleanup,
    history
<1>12. ASSUME NEW d \in Downloads, ScanDownload(d)
      PROVE  RowsFollowUploads'
  BY <1>12 DEF ScanDownload, config, table, uploads, downloads, cleanup,
    history
<1>13. ASSUME NEW d \in Downloads, RemoveInfected(d)
      PROVE  RowsFollowUploads'
  BY <1>13 DEF RemoveInfected, ObjectsWithout, config, table, uploads,
    downloads, cleanup, history
<1>14. ASSUME NEW d \in Downloads, WriteBack(d)
      PROVE  RowsFollowUploads'
  BY <1>14 DEF WriteBack, WriteRow, Gone, config, table, uploads,
    downloads, cleanup, history
<1>15. ASSUME NEW d \in Downloads, DownloadFails(d)
      PROVE  RowsFollowUploads'
  BY <1>15 DEF DownloadFails, config, table, uploads, downloads, cleanup,
    history
<1>16. ASSUME NEW x \in Deletions, FindForDeletion(x)
      PROVE  RowsFollowUploads'
  BY <1>16 DEF FindForDeletion, Live, config, table, uploads, downloads,
    cleanup, history
<1>17. ASSUME NEW x \in Deletions, ScheduleDeletion(x)
      PROVE  RowsFollowUploads'
  BY <1>17 DEF ScheduleDeletion, config, table, uploads, downloads,
    cleanup, history
<1>18. ASSUME NEW x \in Deletions, RemoveSharings(x)
      PROVE  RowsFollowUploads'
  BY <1>18 DEF RemoveSharings, SharingsWithout, config, table, uploads,
    downloads, cleanup, history
<1>19. ASSUME NEW x \in Deletions, DeletionFails(x)
      PROVE  RowsFollowUploads'
  BY <1>19 DEF DeletionFails, config, table, uploads, downloads, cleanup,
    history
<1>20. CASE RemoveObjects
  BY <1>20 DEF RemoveObjects, config, table, uploads, downloads, cleanup,
    history
<1>21. CASE MarkDeleted
  BY <1>21 DEF MarkDeleted, config, table, uploads, downloads, cleanup,
    history
<1>22. CASE Crash
  BY <1>22 DEF Crash, Busy, config, table, uploads, downloads, cleanup,
    history
<1>23. CASE UpdateDatabase \/ ScheduleExpired \/ SelectBatch
  BY <1>23 DEF UpdateDatabase, ScheduleExpired, SelectBatch, config, table,
    uploads, downloads, cleanup, history
<1>24. ASSUME NEW f \in Files, Lapse(f)
      PROVE  RowsFollowUploads'
  BY <1>24 DEF Lapse, config, table, uploads, downloads, cleanup, history
<1>25. ASSUME NEW s \in Sharings, Share(s[1], s[2]) \/ Unshare(s[1], s[2])
      PROVE  RowsFollowUploads'
  BY <1>25 DEF Share, Unshare, config, table, uploads, downloads, cleanup,
    history
<1>26. CASE UNCHANGED vars
  BY <1>26 DEF vars, config, table, uploads, downloads, cleanup, history
<1> QED
  BY <1>1, <1>2, <1>3, <1>4, <1>5, <1>6, <1>7, <1>8, <1>9, <1>10, <1>11,
    <1>12, <1>13, <1>14, <1>15, <1>16, <1>17, <1>18, <1>19, <1>20, <1>21,
    <1>22, <1>23, <1>24, <1>25, <1>26
  DEF FilesNext, UploadStep, DownloadStep, DeletionStep, JobStep

\* Nothing that may be read is thirty days past its scheduling.
LEMMA DueStep ==
  FilesTypeOK /\ RowsFollowUploads /\ BatchIsDue /\ [FilesNext]_vars
  => BatchIsDue'
<1> SUFFICES ASSUME FilesTypeOK, RowsFollowUploads, BatchIsDue,
  [FilesNext]_vars
             PROVE  BatchIsDue'
  OBVIOUS
<1> USE DEF FilesTypeOK, RowsFollowUploads, BatchIsDue, Busy, Live,
  Scheduled, Fates
<1>1. ASSUME NEW f \in Files, Lapse(f)
      PROVE  BatchIsDue'
  BY <1>1 DEF Lapse, Busy, config, table, uploads, downloads, cleanup,
    history
<1>2. ASSUME NEW f \in Files, RejectUpload(f)
      PROVE  BatchIsDue'
  BY <1>2 DEF RejectUpload, config, table, uploads, downloads, cleanup,
    history
<1>3. ASSUME NEW f \in Files, NEW ttl \in {"keep", "expires"}, InsertRow(f, ttl)
      PROVE  BatchIsDue'
  BY <1>3 DEF InsertRow, RowsWith, config, table, uploads, downloads,
    cleanup, history
<1>4. ASSUME NEW d \in Downloads, ReadRow(d)
      PROVE  BatchIsDue'
  BY <1>4 DEF ReadRow, Readable, Live, config, table, uploads, downloads,
    cleanup, history
<1>5. ASSUME NEW d \in Downloads, Fetch(d)
      PROVE  BatchIsDue'
  BY <1>5 DEF Fetch, config, table, uploads, downloads, cleanup, history
<1>6. ASSUME NEW d \in Downloads, MarkMissing(d)
      PROVE  BatchIsDue'
  BY <1>6 DEF MarkMissing, WriteRow, config, table, uploads, downloads,
    cleanup, history
<1>7. ASSUME NEW d \in Downloads, CheckVersion(d)
      PROVE  BatchIsDue'
  BY <1>7 DEF CheckVersion, config, table, uploads, downloads, cleanup,
    history
<1>8. ASSUME NEW d \in Downloads, ScanDownload(d)
      PROVE  BatchIsDue'
  BY <1>8 DEF ScanDownload, config, table, uploads, downloads, cleanup,
    history
<1>9. ASSUME NEW d \in Downloads, RemoveInfected(d)
      PROVE  BatchIsDue'
  BY <1>9 DEF RemoveInfected, ObjectsWithout, config, table, uploads,
    downloads, cleanup, history
<1>10. ASSUME NEW d \in Downloads, WriteBack(d)
      PROVE  BatchIsDue'
  BY <1>10 DEF WriteBack, WriteRow, Gone, config, table, uploads,
    downloads, cleanup, history
<1>11. ASSUME NEW d \in Downloads, DownloadFails(d)
      PROVE  BatchIsDue'
  BY <1>11 DEF DownloadFails, config, table, uploads, downloads, cleanup,
    history
<1>12. ASSUME NEW x \in Deletions, FindForDeletion(x)
      PROVE  BatchIsDue'
  BY <1>12 DEF FindForDeletion, Live, config, table, uploads, downloads,
    cleanup, history
<1>13. ASSUME NEW x \in Deletions, ScheduleDeletion(x)
      PROVE  BatchIsDue'
  BY <1>13 DEF ScheduleDeletion, config, table, uploads, downloads,
    cleanup, history
<1>14. ASSUME NEW x \in Deletions, RemoveSharings(x)
      PROVE  BatchIsDue'
  BY <1>14 DEF RemoveSharings, SharingsWithout, config, table, uploads,
    downloads, cleanup, history
<1>15. ASSUME NEW x \in Deletions, DeletionFails(x)
      PROVE  BatchIsDue'
  BY <1>15 DEF DeletionFails, config, table, uploads, downloads, cleanup,
    history
<1>16. CASE ScheduleExpired
  BY <1>16 DEF ScheduleExpired, config, table, uploads, downloads, cleanup,
    history
<1>17. CASE SelectBatch
  BY <1>17 DEF SelectBatch, ExpiredFiles, config, table, uploads,
    downloads, cleanup, history
<1>18. CASE RemoveObjects
  BY <1>18 DEF RemoveObjects, config, table, uploads, downloads, cleanup,
    history
<1>19. CASE MarkDeleted
  BY <1>19 DEF MarkDeleted, config, table, uploads, downloads, cleanup,
    history
<1>20. CASE Crash
  BY <1>20 DEF Crash, Busy, config, table, uploads, downloads, cleanup,
    history
<1>21. CASE UpdateDatabase
  BY <1>21 DEF UpdateDatabase, config, table, uploads, downloads, cleanup,
    history
<1>22. ASSUME NEW f \in Files, TryName(f) \/ ReadVersion(f) \/
  ScanUpload(f) \/ StoreObject(f) \/ UploadFails(f)
      PROVE  BatchIsDue'
  BY <1>22 DEF TryName, ReadVersion, ScanUpload, StoreObject, UploadFails,
    config, table, uploads, downloads, cleanup, history
<1>23. ASSUME NEW s \in Sharings, Share(s[1], s[2]) \/ Unshare(s[1], s[2])
      PROVE  BatchIsDue'
  BY <1>23 DEF Share, Unshare, config, table, uploads, downloads, cleanup,
    history
<1>24. CASE UNCHANGED vars
  BY <1>24 DEF vars, config, table, uploads, downloads, cleanup, history
<1> QED
  BY <1>1, <1>2, <1>3, <1>4, <1>5, <1>6, <1>7, <1>8, <1>9, <1>10, <1>11,
    <1>12, <1>13, <1>14, <1>15, <1>16, <1>17, <1>18, <1>19, <1>20, <1>21,
    <1>22, <1>23, <1>24
  DEF FilesNext, UploadStep, DownloadStep, DeletionStep, JobStep

\* Labels follow scans, or an update came between and is remembered.
LEMMA LabelsStep ==
  FilesTypeOK /\ RowsFollowUploads /\ LabelsHonest /\ [FilesNext]_vars
  => LabelsHonest'
<1> SUFFICES ASSUME FilesTypeOK, RowsFollowUploads, LabelsHonest,
  [FilesNext]_vars
             PROVE  LabelsHonest'
  OBVIOUS
<1> USE DEF FilesTypeOK, RowsFollowUploads, LabelsHonest, Honest, Detects,
  Versions, Labels, Unknown, MayBeTold, Told
<1>1. CASE UpdateDatabase
  BY <1>1 DEF UpdateDatabase, config, table, uploads, downloads, cleanup,
    history
<1>2. ASSUME NEW f \in Files, TryName(f)
      PROVE  LabelsHonest'
  BY <1>2 DEF TryName, Taken, config, table, uploads, downloads, cleanup,
    history
<1>3. ASSUME NEW f \in Files, ReadVersion(f)
      PROVE  LabelsHonest'
  BY <1>3 DEF ReadVersion, VersionMayBeRead, config, table, uploads,
    downloads, cleanup, history
<1>4. ASSUME NEW f \in Files, ScanUpload(f)
      PROVE  LabelsHonest'
  BY <1>4 DEF ScanUpload, config, table, uploads, downloads, cleanup,
    history
<1>5. ASSUME NEW f \in Files, RejectUpload(f)
      PROVE  LabelsHonest'
  BY <1>5 DEF RejectUpload, config, table, uploads, downloads, cleanup,
    history
<1>6. ASSUME NEW f \in Files, StoreObject(f)
      PROVE  LabelsHonest'
  BY <1>6 DEF StoreObject, MayStore, config, table, uploads, downloads,
    cleanup, history
<1>7. ASSUME NEW f \in Files, NEW ttl \in {"keep", "expires"}, InsertRow(f, ttl)
      PROVE  LabelsHonest'
  BY <1>7 DEF InsertRow, RowsWith, config, table, uploads, downloads,
    cleanup, history
<1>8. ASSUME NEW f \in Files, UploadFails(f)
      PROVE  LabelsHonest'
  BY <1>8 DEF UploadFails, config, table, uploads, downloads, cleanup,
    history
<1>9. ASSUME NEW d \in Downloads, ReadRow(d)
      PROVE  LabelsHonest'
  BY <1>9 DEF ReadRow, Readable, Live, config, table, uploads, downloads,
    cleanup, history
<1>10. ASSUME NEW d \in Downloads, Fetch(d)
      PROVE  LabelsHonest'
  BY <1>10 DEF Fetch, config, table, uploads, downloads, cleanup, history
<1>11. ASSUME NEW d \in Downloads, MarkMissing(d)
      PROVE  LabelsHonest'
  BY <1>11 DEF MarkMissing, WriteRow, config, table, uploads, downloads,
    cleanup, history
<1>12. ASSUME NEW d \in Downloads, CheckVersion(d)
      PROVE  LabelsHonest'
  BY <1>12 DEF CheckVersion, config, table, uploads, downloads, cleanup,
    history
<1>13. ASSUME NEW d \in Downloads, ScanDownload(d)
      PROVE  LabelsHonest'
  BY <1>13 DEF ScanDownload, config, table, uploads, downloads, cleanup,
    history
<1>14. ASSUME NEW d \in Downloads, RemoveInfected(d)
      PROVE  LabelsHonest'
  BY <1>14 DEF RemoveInfected, ObjectsWithout, config, table, uploads,
    downloads, cleanup, history
<1>15. ASSUME NEW d \in Downloads, WriteBack(d)
      PROVE  LabelsHonest'
  BY <1>15 DEF WriteBack, WriteRow, Gone, config, table, uploads,
    downloads, cleanup, history
<1>16. ASSUME NEW d \in Downloads, DownloadFails(d)
      PROVE  LabelsHonest'
  BY <1>16 DEF DownloadFails, config, table, uploads, downloads, cleanup,
    history
<1>17. CASE Crash
  BY <1>17 DEF Crash, Busy, config, table, uploads, downloads, cleanup,
    history
<1>18. ASSUME NEW f \in Files, Lapse(f)
      PROVE  LabelsHonest'
  BY <1>18 DEF Lapse, config, table, uploads, downloads, cleanup, history
<1>19. ASSUME NEW x \in Deletions, FindForDeletion(x) \/
  ScheduleDeletion(x) \/ RemoveSharings(x) \/ DeletionFails(x)
      PROVE  LabelsHonest'
  BY <1>19 DEF FindForDeletion, ScheduleDeletion, RemoveSharings,
    DeletionFails, config, table, uploads, downloads, cleanup, history
<1>20. ASSUME NEW s \in Sharings, Share(s[1], s[2]) \/ Unshare(s[1], s[2])
      PROVE  LabelsHonest'
  BY <1>20 DEF Share, Unshare, config, table, uploads, downloads, cleanup,
    history
<1>21. CASE ScheduleExpired \/ SelectBatch \/ RemoveObjects \/ MarkDeleted
  BY <1>21 DEF ScheduleExpired, SelectBatch, RemoveObjects, MarkDeleted,
    config, table, uploads, downloads, cleanup, history
<1>22. CASE UNCHANGED vars
  BY <1>22 DEF vars, config, table, uploads, downloads, cleanup, history
<1> QED
  BY <1>1, <1>2, <1>3, <1>4, <1>5, <1>6, <1>7, <1>8, <1>9, <1>10, <1>11,
    <1>12, <1>13, <1>14, <1>15, <1>16, <1>17, <1>18, <1>19, <1>20, <1>21,
    <1>22
  DEF FilesNext, UploadStep, DownloadStep, DeletionStep, JobStep

\* What is marked infected was removed first, or failed to be.
LEMMA InfectedStep ==
  FilesTypeOK /\ RowsFollowUploads /\ InfectedObjectNeedsFailure /\
    [FilesNext]_vars
  => InfectedObjectNeedsFailure'
<1> SUFFICES ASSUME FilesTypeOK, RowsFollowUploads,
  InfectedObjectNeedsFailure, [FilesNext]_vars
             PROVE  InfectedObjectNeedsFailure'
  OBVIOUS
<1> USE DEF FilesTypeOK, RowsFollowUploads, InfectedObjectNeedsFailure
<1>1. ASSUME NEW f \in Files, RejectUpload(f)
      PROVE  InfectedObjectNeedsFailure'
  BY <1>1 DEF RejectUpload, config, table, uploads, downloads, cleanup,
    history
<1>2. ASSUME NEW f \in Files, StoreObject(f)
      PROVE  InfectedObjectNeedsFailure'
  BY <1>2 DEF StoreObject, MayStore, config, table, uploads, downloads,
    cleanup, history
<1>3. ASSUME NEW f \in Files, UploadFails(f)
      PROVE  InfectedObjectNeedsFailure'
  BY <1>3 DEF UploadFails, config, table, uploads, downloads, cleanup,
    history
<1>4. ASSUME NEW d \in Downloads, MarkMissing(d)
      PROVE  InfectedObjectNeedsFailure'
  BY <1>4 DEF MarkMissing, WriteRow, config, table, uploads, downloads,
    cleanup, history
<1>5. ASSUME NEW d \in Downloads, RemoveInfected(d)
      PROVE  InfectedObjectNeedsFailure'
  BY <1>5 DEF RemoveInfected, ObjectsWithout, config, table, uploads,
    downloads, cleanup, history
<1>6. ASSUME NEW d \in Downloads, WriteBack(d)
      PROVE  InfectedObjectNeedsFailure'
  BY <1>6 DEF WriteBack, WriteRow, Gone, config, table, uploads, downloads,
    cleanup, history
<1>7. ASSUME NEW x \in Deletions, DeletionFails(x)
      PROVE  InfectedObjectNeedsFailure'
  BY <1>7 DEF DeletionFails, config, table, uploads, downloads, cleanup,
    history
<1>8. CASE RemoveObjects
  BY <1>8 DEF RemoveObjects, config, table, uploads, downloads, cleanup,
    history
<1>9. CASE MarkDeleted
  BY <1>9 DEF MarkDeleted, config, table, uploads, downloads, cleanup,
    history
<1>10. CASE Crash
  BY <1>10 DEF Crash, Busy, config, table, uploads, downloads, cleanup,
    history
<1>11. CASE UpdateDatabase \/ ScheduleExpired \/ SelectBatch
  BY <1>11 DEF UpdateDatabase, ScheduleExpired, SelectBatch, config, table,
    uploads, downloads, cleanup, history
<1>12. ASSUME NEW f \in Files, Lapse(f) \/ TryName(f) \/ ReadVersion(f) \/
  ScanUpload(f)
      PROVE  InfectedObjectNeedsFailure'
  BY <1>12 DEF Lapse, TryName, ReadVersion, ScanUpload, config, table,
    uploads, downloads, cleanup, history
<1>13. ASSUME NEW f \in Files, NEW ttl \in {"keep", "expires"},
  InsertRow(f, ttl)
      PROVE  InfectedObjectNeedsFailure'
  BY <1>13 DEF InsertRow, config, table, uploads, downloads, cleanup,
    history
<1>14. ASSUME NEW d \in Downloads, ReadRow(d) \/ Fetch(d) \/
  CheckVersion(d) \/ ScanDownload(d) \/ DownloadFails(d)
      PROVE  InfectedObjectNeedsFailure'
  BY <1>14 DEF ReadRow, Fetch, CheckVersion, ScanDownload, DownloadFails,
    config, table, uploads, downloads, cleanup, history
<1>15. ASSUME NEW x \in Deletions, FindForDeletion(x) \/
  ScheduleDeletion(x) \/ RemoveSharings(x)
      PROVE  InfectedObjectNeedsFailure'
  BY <1>15 DEF FindForDeletion, ScheduleDeletion, RemoveSharings, config,
    table, uploads, downloads, cleanup, history
<1>16. ASSUME NEW s \in Sharings, Share(s[1], s[2]) \/ Unshare(s[1], s[2])
      PROVE  InfectedObjectNeedsFailure'
  BY <1>16 DEF Share, Unshare, config, table, uploads, downloads, cleanup,
    history
<1>17. CASE UNCHANGED vars
  BY <1>17 DEF vars, config, table, uploads, downloads, cleanup, history
<1> QED
  BY <1>1, <1>2, <1>3, <1>4, <1>5, <1>6, <1>7, <1>8, <1>9, <1>10, <1>11,
    <1>12, <1>13, <1>14, <1>15, <1>16, <1>17
  DEF FilesNext, UploadStep, DownloadStep, DeletionStep, JobStep

\* Storing is followed by inserting unless the upload is cut off.
LEMMA ObjectsStep ==
  FilesTypeOK /\ ObjectsHaveRows /\ [FilesNext]_vars
  => ObjectsHaveRows'
<1> SUFFICES ASSUME FilesTypeOK, ObjectsHaveRows, [FilesNext]_vars
             PROVE  ObjectsHaveRows'
  OBVIOUS
<1> USE DEF FilesTypeOK, ObjectsHaveRows
<1>1. ASSUME NEW f \in Files, TryName(f)
      PROVE  ObjectsHaveRows'
  BY <1>1 DEF TryName, Taken, config, table, uploads, downloads, cleanup,
    history
<1>2. ASSUME NEW f \in Files, RejectUpload(f)
      PROVE  ObjectsHaveRows'
  BY <1>2 DEF RejectUpload, config, table, uploads, downloads, cleanup,
    history
<1>3. ASSUME NEW f \in Files, StoreObject(f)
      PROVE  ObjectsHaveRows'
  BY <1>3 DEF StoreObject, MayStore, config, table, uploads, downloads,
    cleanup, history
<1>4. ASSUME NEW f \in Files, NEW ttl \in {"keep", "expires"}, InsertRow(f, ttl)
      PROVE  ObjectsHaveRows'
  BY <1>4 DEF InsertRow, RowsWith, config, table, uploads, downloads,
    cleanup, history
<1>5. ASSUME NEW f \in Files, UploadFails(f)
      PROVE  ObjectsHaveRows'
  BY <1>5 DEF UploadFails, config, table, uploads, downloads, cleanup,
    history
<1>6. ASSUME NEW d \in Downloads, RemoveInfected(d)
      PROVE  ObjectsHaveRows'
  BY <1>6 DEF RemoveInfected, ObjectsWithout, config, table, uploads,
    downloads, cleanup, history
<1>7. ASSUME NEW d \in Downloads, WriteBack(d)
      PROVE  ObjectsHaveRows'
  BY <1>7 DEF WriteBack, WriteRow, Gone, config, table, uploads, downloads,
    cleanup, history
<1>8. ASSUME NEW x \in Deletions, DeletionFails(x)
      PROVE  ObjectsHaveRows'
  BY <1>8 DEF DeletionFails, config, table, uploads, downloads, cleanup,
    history
<1>9. CASE RemoveObjects
  BY <1>9 DEF RemoveObjects, config, table, uploads, downloads, cleanup,
    history
<1>10. CASE MarkDeleted
  BY <1>10 DEF MarkDeleted, config, table, uploads, downloads, cleanup,
    history
<1>11. CASE Crash
  BY <1>11 DEF Crash, Busy, config, table, uploads, downloads, cleanup,
    history
<1>12. CASE UpdateDatabase \/ ScheduleExpired \/ SelectBatch
  BY <1>12 DEF UpdateDatabase, ScheduleExpired, SelectBatch, config, table,
    uploads, downloads, cleanup, history
<1>13. ASSUME NEW f \in Files, Lapse(f) \/ ReadVersion(f) \/ ScanUpload(f)
      PROVE  ObjectsHaveRows'
  BY <1>13 DEF Lapse, ReadVersion, ScanUpload, config, table, uploads,
    downloads, cleanup, history
<1>14. ASSUME NEW d \in Downloads, ReadRow(d) \/ Fetch(d) \/ MarkMissing(d)
  \/ CheckVersion(d) \/ ScanDownload(d) \/ DownloadFails(d)
      PROVE  ObjectsHaveRows'
  BY <1>14 DEF ReadRow, Fetch, MarkMissing, CheckVersion, ScanDownload,
    DownloadFails, config, table, uploads, downloads, cleanup, history
<1>15. ASSUME NEW x \in Deletions, FindForDeletion(x) \/
  ScheduleDeletion(x) \/ RemoveSharings(x)
      PROVE  ObjectsHaveRows'
  BY <1>15 DEF FindForDeletion, ScheduleDeletion, RemoveSharings, config,
    table, uploads, downloads, cleanup, history
<1>16. ASSUME NEW s \in Sharings, Share(s[1], s[2]) \/ Unshare(s[1], s[2])
      PROVE  ObjectsHaveRows'
  BY <1>16 DEF Share, Unshare, config, table, uploads, downloads, cleanup,
    history
<1>17. CASE UNCHANGED vars
  BY <1>17 DEF vars, config, table, uploads, downloads, cleanup, history
<1> QED
  BY <1>1, <1>2, <1>3, <1>4, <1>5, <1>6, <1>7, <1>8, <1>9, <1>10, <1>11,
    <1>12, <1>13, <1>14, <1>15, <1>16, <1>17
  DEF FilesNext, UploadStep, DownloadStep, DeletionStep, JobStep

\* An object that is removed has a download that says so, or is past offering.
LEMMA OfferedStep ==
  FilesTypeOK /\ RowsFollowUploads /\ BatchIsDue /\ OfferedFilesExist /\
    [FilesNext]_vars
  => OfferedFilesExist'
<1> SUFFICES ASSUME FilesTypeOK, RowsFollowUploads, BatchIsDue,
  OfferedFilesExist, [FilesNext]_vars
             PROVE  OfferedFilesExist'
  OBVIOUS
<1> USE DEF FilesTypeOK, RowsFollowUploads, BatchIsDue, OfferedFilesExist,
  Live, Scheduled, Fates
<1>1. ASSUME NEW f \in Files, Lapse(f)
      PROVE  OfferedFilesExist'
  BY <1>1 DEF Lapse, Busy, config, table, uploads, downloads, cleanup,
    history
<1>2. ASSUME NEW f \in Files, RejectUpload(f)
      PROVE  OfferedFilesExist'
  BY <1>2 DEF RejectUpload, config, table, uploads, downloads, cleanup,
    history
<1>3. ASSUME NEW f \in Files, StoreObject(f)
      PROVE  OfferedFilesExist'
  BY <1>3 DEF StoreObject, MayStore, config, table, uploads, downloads,
    cleanup, history
<1>4. ASSUME NEW f \in Files, NEW ttl \in {"keep", "expires"}, InsertRow(f, ttl)
      PROVE  OfferedFilesExist'
  BY <1>4 DEF InsertRow, RowsWith, config, table, uploads, downloads,
    cleanup, history
<1>5. ASSUME NEW f \in Files, UploadFails(f)
      PROVE  OfferedFilesExist'
  BY <1>5 DEF UploadFails, config, table, uploads, downloads, cleanup,
    history
<1>6. ASSUME NEW d \in Downloads, ReadRow(d)
      PROVE  OfferedFilesExist'
  BY <1>6 DEF ReadRow, Readable, Live, config, table, uploads, downloads,
    cleanup, history
<1>7. ASSUME NEW d \in Downloads, Fetch(d)
      PROVE  OfferedFilesExist'
  BY <1>7 DEF Fetch, config, table, uploads, downloads, cleanup, history
<1>8. ASSUME NEW d \in Downloads, MarkMissing(d)
      PROVE  OfferedFilesExist'
  BY <1>8 DEF MarkMissing, WriteRow, config, table, uploads, downloads,
    cleanup, history
<1>9. ASSUME NEW d \in Downloads, CheckVersion(d)
      PROVE  OfferedFilesExist'
  BY <1>9 DEF CheckVersion, config, table, uploads, downloads, cleanup,
    history
<1>10. ASSUME NEW d \in Downloads, ScanDownload(d)
      PROVE  OfferedFilesExist'
  BY <1>10 DEF ScanDownload, config, table, uploads, downloads, cleanup,
    history
<1>11. ASSUME NEW d \in Downloads, RemoveInfected(d)
      PROVE  OfferedFilesExist'
  BY <1>11 DEF RemoveInfected, ObjectsWithout, config, table, uploads,
    downloads, cleanup, history
<1>12. ASSUME NEW d \in Downloads, WriteBack(d)
      PROVE  OfferedFilesExist'
  BY <1>12 DEF WriteBack, WriteRow, Gone, config, table, uploads,
    downloads, cleanup, history
<1>13. ASSUME NEW d \in Downloads, DownloadFails(d)
      PROVE  OfferedFilesExist'
  BY <1>13 DEF DownloadFails, config, table, uploads, downloads, cleanup,
    history
<1>14. ASSUME NEW x \in Deletions, ScheduleDeletion(x)
      PROVE  OfferedFilesExist'
  BY <1>14 DEF ScheduleDeletion, config, table, uploads, downloads,
    cleanup, history
<1>15. ASSUME NEW x \in Deletions, DeletionFails(x)
      PROVE  OfferedFilesExist'
  BY <1>15 DEF DeletionFails, config, table, uploads, downloads, cleanup,
    history
<1>16. CASE ScheduleExpired
  BY <1>16 DEF ScheduleExpired, config, table, uploads, downloads, cleanup,
    history
<1>17. CASE RemoveObjects
  BY <1>17 DEF RemoveObjects, config, table, uploads, downloads, cleanup,
    history
<1>18. CASE MarkDeleted
  BY <1>18 DEF MarkDeleted, config, table, uploads, downloads, cleanup,
    history
<1>19. CASE Crash
  BY <1>19 DEF Crash, Busy, config, table, uploads, downloads, cleanup,
    history
<1>20. CASE UpdateDatabase \/ SelectBatch
  BY <1>20 DEF UpdateDatabase, SelectBatch, config, table, uploads,
    downloads, cleanup, history
<1>21. ASSUME NEW f \in Files, TryName(f) \/ ReadVersion(f) \/
  ScanUpload(f)
      PROVE  OfferedFilesExist'
  BY <1>21 DEF TryName, ReadVersion, ScanUpload, config, table, uploads,
    downloads, cleanup, history
<1>22. ASSUME NEW x \in Deletions, FindForDeletion(x) \/ RemoveSharings(x)
      PROVE  OfferedFilesExist'
  BY <1>22 DEF FindForDeletion, RemoveSharings, config, table, uploads,
    downloads, cleanup, history
<1>23. ASSUME NEW s \in Sharings, Share(s[1], s[2]) \/ Unshare(s[1], s[2])
      PROVE  OfferedFilesExist'
  BY <1>23 DEF Share, Unshare, config, table, uploads, downloads, cleanup,
    history
<1>24. CASE UNCHANGED vars
  BY <1>24 DEF vars, config, table, uploads, downloads, cleanup, history
<1> QED
  BY <1>1, <1>2, <1>3, <1>4, <1>5, <1>6, <1>7, <1>8, <1>9, <1>10, <1>11,
    <1>12, <1>13, <1>14, <1>15, <1>16, <1>17, <1>18, <1>19, <1>20, <1>21,
    <1>22, <1>23, <1>24
  DEF FilesNext, UploadStep, DownloadStep, DeletionStep, JobStep

\* A name that was free stays so, or the taker's row records the overlap.
LEMMA NamesStep ==
  FilesTypeOK /\ RowsFollowUploads /\ NamesWereFree /\ SameNameNeedsOverlap
    /\ [FilesNext]_vars
  => (NamesWereFree /\ SameNameNeedsOverlap)'
<1> SUFFICES ASSUME FilesTypeOK, RowsFollowUploads, NamesWereFree,
  SameNameNeedsOverlap, [FilesNext]_vars
             PROVE  (NamesWereFree /\ SameNameNeedsOverlap)'
  OBVIOUS
<1> USE DEF FilesTypeOK, RowsFollowUploads, NamesWereFree,
  SameNameNeedsOverlap
<1>1. ASSUME NEW f \in Files, TryName(f)
      PROVE  (NamesWereFree /\ SameNameNeedsOverlap)'
  BY <1>1 DEF TryName, Taken, config, table, uploads, downloads, cleanup,
    history
<1>2. ASSUME NEW f \in Files, RejectUpload(f)
      PROVE  (NamesWereFree /\ SameNameNeedsOverlap)'
  BY <1>2 DEF RejectUpload, config, table, uploads, downloads, cleanup,
    history
<1>3. ASSUME NEW f \in Files, StoreObject(f)
      PROVE  (NamesWereFree /\ SameNameNeedsOverlap)'
  BY <1>3 DEF StoreObject, MayStore, config, table, uploads, downloads,
    cleanup, history
<1>4. ASSUME NEW f \in Files, NEW ttl \in {"keep", "expires"}, InsertRow(f, ttl)
      PROVE  (NamesWereFree /\ SameNameNeedsOverlap)'
  <2> USE <1>4 DEF InsertRow, RowsWith
  <2>1. ASSUME NEW h \in Files, up'[h] \in {"named", "stored"},
               NEW g \in rows' \ deleted', name[h] = name[g]
        PROVE  {h, g} \in overlaps' \/ g \in staleWrites'
    <3>1. h # f /\ up[h] \in {"named", "stored"}
      BY <2>1
    <3>2. CASE g = f
      <4>1. {f, h} \in overlaps'
        BY <3>1
      <4>2. {f, h} = {h, g}
        BY <3>2
      <4> QED
        BY <4>1, <4>2
    <3>3. CASE g # f
      BY <2>1, <3>1, <3>3 DEF history
    <3> QED
      BY <3>2, <3>3
  <2>2. ASSUME NEW a \in rows' \ deleted', NEW b \in rows' \ deleted',
               a # b, name'[a] = name'[b]
        PROVE  {a, b} \in overlaps' \/ {a, b} \intersect staleWrites' # {}
    <3>1. CASE a # f /\ b # f
      BY <2>2, <3>1
    <3>2. CASE a = f
      BY <2>2, <3>2
    <3>3. CASE b = f
      <4>1. {f, a} \in overlaps \/ a \in staleWrites
        BY <2>2, <3>3
      <4>2. {f, a} = {a, b}
        BY <3>3
      <4> QED
        BY <4>1, <4>2
    <3> QED
      BY <3>1, <3>2, <3>3
  <2>3. NamesWereFree'
    BY <2>1
  <2>4. SameNameNeedsOverlap'
    BY <2>2
  <2> QED
    BY <2>3, <2>4
<1>5. ASSUME NEW f \in Files, UploadFails(f)
      PROVE  (NamesWereFree /\ SameNameNeedsOverlap)'
  BY <1>5 DEF UploadFails, config, table, uploads, downloads, cleanup,
    history
<1>6. ASSUME NEW d \in Downloads, MarkMissing(d)
      PROVE  (NamesWereFree /\ SameNameNeedsOverlap)'
  BY <1>6 DEF MarkMissing, WriteRow, config, table, uploads, downloads,
    cleanup, history
<1>7. ASSUME NEW d \in Downloads, WriteBack(d)
      PROVE  (NamesWereFree /\ SameNameNeedsOverlap)'
  <2>1. /\ UNCHANGED <<rows, up, name, overlaps>>
        /\ staleWrites \subseteq staleWrites'
        /\ \A f \in rows : f \in deleted \ deleted' => f \in staleWrites'
    BY <1>7 DEF WriteBack, WriteRow, Gone, uploads
  <2> QED
    BY <2>1
<1>8. CASE MarkDeleted
  BY <1>8 DEF MarkDeleted, config, table, uploads, downloads, cleanup,
    history
<1>9. CASE Crash
  BY <1>9 DEF Crash, Busy, config, table, uploads, downloads, cleanup,
    history
<1>10. CASE UpdateDatabase \/ ScheduleExpired \/ SelectBatch \/
  RemoveObjects
  BY <1>10 DEF UpdateDatabase, ScheduleExpired, SelectBatch, RemoveObjects,
    config, table, uploads, downloads, cleanup, history
<1>11. ASSUME NEW f \in Files, Lapse(f) \/ ReadVersion(f) \/ ScanUpload(f)
      PROVE  (NamesWereFree /\ SameNameNeedsOverlap)'
  BY <1>11 DEF Lapse, ReadVersion, ScanUpload, config, table, uploads,
    downloads, cleanup, history
<1>12. ASSUME NEW d \in Downloads, ReadRow(d) \/ Fetch(d) \/
  CheckVersion(d) \/ ScanDownload(d) \/ RemoveInfected(d) \/
  DownloadFails(d)
      PROVE  (NamesWereFree /\ SameNameNeedsOverlap)'
  BY <1>12 DEF ReadRow, Fetch, CheckVersion, ScanDownload, RemoveInfected,
    DownloadFails, config, table, uploads, downloads, cleanup, history
<1>13. ASSUME NEW x \in Deletions, FindForDeletion(x) \/
  ScheduleDeletion(x) \/ RemoveSharings(x) \/ DeletionFails(x)
      PROVE  (NamesWereFree /\ SameNameNeedsOverlap)'
  BY <1>13 DEF FindForDeletion, ScheduleDeletion, RemoveSharings,
    DeletionFails, config, table, uploads, downloads, cleanup, history
<1>14. ASSUME NEW s \in Sharings, Share(s[1], s[2]) \/ Unshare(s[1], s[2])
      PROVE  (NamesWereFree /\ SameNameNeedsOverlap)'
  BY <1>14 DEF Share, Unshare, config, table, uploads, downloads, cleanup,
    history
<1>15. CASE UNCHANGED vars
  BY <1>15 DEF vars, config, table, uploads, downloads, cleanup, history
<1> QED
  BY <1>1, <1>2, <1>3, <1>4, <1>5, <1>6, <1>7, <1>8, <1>9, <1>10, <1>11,
    <1>12, <1>13, <1>14, <1>15
  DEF FilesNext, UploadStep, DownloadStep, DeletionStep, JobStep

\* Scheduling leaves a deletion that unshares, or a note.
LEMMA UnsharedStep ==
  FilesTypeOK /\ ScheduledFilesAreUnshared /\ [FilesNext]_vars
  => ScheduledFilesAreUnshared'
<1> SUFFICES ASSUME FilesTypeOK, ScheduledFilesAreUnshared,
  [FilesNext]_vars
             PROVE  ScheduledFilesAreUnshared'
  OBVIOUS
<1> USE DEF FilesTypeOK, ScheduledFilesAreUnshared, Scheduled, Fates
<1>1. ASSUME NEW f \in Files, Lapse(f)
      PROVE  ScheduledFilesAreUnshared'
  BY <1>1 DEF Lapse, Busy, config, table, uploads, downloads, cleanup,
    history
<1>2. ASSUME NEW f \in Files, NEW ttl \in {"keep", "expires"}, InsertRow(f, ttl)
      PROVE  ScheduledFilesAreUnshared'
  BY <1>2 DEF InsertRow, RowsWith, config, table, uploads, downloads,
    cleanup, history
<1>3. ASSUME NEW f \in Files, UploadFails(f)
      PROVE  ScheduledFilesAreUnshared'
  BY <1>3 DEF UploadFails, config, table, uploads, downloads, cleanup,
    history
<1>4. ASSUME NEW d \in Downloads, RemoveInfected(d)
      PROVE  ScheduledFilesAreUnshared'
  BY <1>4 DEF RemoveInfected, ObjectsWithout, config, table, uploads,
    downloads, cleanup, history
<1>5. ASSUME NEW d \in Downloads, WriteBack(d)
      PROVE  ScheduledFilesAreUnshared'
  BY <1>5 DEF WriteBack, WriteRow, Gone, config, table, uploads, downloads,
    cleanup, history
<1>6. ASSUME NEW x \in Deletions, FindForDeletion(x)
      PROVE  ScheduledFilesAreUnshared'
  BY <1>6 DEF FindForDeletion, Live, config, table, uploads, downloads,
    cleanup, history
<1>7. ASSUME NEW x \in Deletions, ScheduleDeletion(x)
      PROVE  ScheduledFilesAreUnshared'
  BY <1>7 DEF ScheduleDeletion, config, table, uploads, downloads, cleanup,
    history
<1>8. ASSUME NEW x \in Deletions, RemoveSharings(x)
      PROVE  ScheduledFilesAreUnshared'
  BY <1>8 DEF RemoveSharings, SharingsWithout, config, table, uploads,
    downloads, cleanup, history
<1>9. ASSUME NEW x \in Deletions, DeletionFails(x)
      PROVE  ScheduledFilesAreUnshared'
  BY <1>9 DEF DeletionFails, config, table, uploads, downloads, cleanup,
    history
<1>10. ASSUME NEW s \in Sharings, Share(s[1], s[2])
      PROVE  ScheduledFilesAreUnshared'
  BY <1>10 DEF Share, Shareable, config, table, uploads, downloads,
    cleanup, history
<1>11. ASSUME NEW s \in Sharings, Unshare(s[1], s[2])
      PROVE  ScheduledFilesAreUnshared'
  BY <1>11 DEF Unshare, config, table, uploads, downloads, cleanup, history
<1>12. CASE ScheduleExpired
  BY <1>12 DEF ScheduleExpired, config, table, uploads, downloads, cleanup,
    history
<1>13. CASE RemoveObjects
  BY <1>13 DEF RemoveObjects, config, table, uploads, downloads, cleanup,
    history
<1>14. CASE MarkDeleted
  BY <1>14 DEF MarkDeleted, config, table, uploads, downloads, cleanup,
    history
<1>15. CASE Crash
  BY <1>15 DEF Crash, Busy, config, table, uploads, downloads, cleanup,
    history
<1>16. CASE UpdateDatabase \/ SelectBatch
  BY <1>16 DEF UpdateDatabase, SelectBatch, config, table, uploads,
    downloads, cleanup, history
<1>17. ASSUME NEW f \in Files, TryName(f) \/ ReadVersion(f) \/
  ScanUpload(f) \/ RejectUpload(f) \/ StoreObject(f)
      PROVE  ScheduledFilesAreUnshared'
  BY <1>17 DEF TryName, ReadVersion, ScanUpload, RejectUpload, StoreObject,
    config, table, uploads, downloads, cleanup, history
<1>18. ASSUME NEW d \in Downloads, ReadRow(d) \/ Fetch(d) \/ MarkMissing(d)
  \/ CheckVersion(d) \/ ScanDownload(d) \/ DownloadFails(d)
      PROVE  ScheduledFilesAreUnshared'
  BY <1>18 DEF ReadRow, Fetch, MarkMissing, CheckVersion, ScanDownload,
    DownloadFails, config, table, uploads, downloads, cleanup, history
<1>19. CASE UNCHANGED vars
  BY <1>19 DEF vars, config, table, uploads, downloads, cleanup, history
<1> QED
  BY <1>1, <1>2, <1>3, <1>4, <1>5, <1>6, <1>7, <1>8, <1>9, <1>10, <1>11,
    <1>12, <1>13, <1>14, <1>15, <1>16, <1>17, <1>18, <1>19
  DEF FilesNext, UploadStep, DownloadStep, DeletionStep, JobStep

-----------------------------------------------------------------------------
LEMMA FilesInvStep == FilesInv /\ [FilesNext]_vars => FilesInv'
<1> SUFFICES ASSUME FilesInv, [FilesNext]_vars PROVE FilesInv'
  OBVIOUS
<1> USE DEF FilesInv
<1> QED
  BY FilesTypesStep, UploadsStep, DueStep, LabelsStep, InfectedStep,
    ObjectsStep, OfferedStep, NamesStep, UnsharedStep

LEMMA FilesInvAlways == FilesSpec => []FilesInv
BY FilesInvInit, FilesInvStep, PTL DEF FilesSpec

\* Every column, object and request of upload-api keeps its type, and a
\* sharing always refers to a row.
THEOREM FilesTypeCorrect == FilesSpec => []FilesTypeOK
<1>1. FilesInv => FilesTypeOK
  BY DEF FilesInv
<1> QED
  BY <1>1, FilesInvAlways, PTL

\* A file that is handed out without a scan carries the label of a database
\* that found nothing in it, unless an update came between its scan and its
\* label, or the databases of both were reported without a number.
THEOREM ServedWasCheckedCorrect == FilesSpec => []ServedWasChecked
<1>1. FilesInv => ServedWasChecked
  BY DEF FilesInv, ServedWasChecked, LabelsHonest, Honest
<1> QED
  BY <1>1, FilesInvAlways, PTL

\* The object of a file marked infected is in the bucket only if removing it
\* failed or a request was cut off.
THEOREM InfectedObjectNeedsFailureCorrect == FilesSpec => []InfectedObjectNeedsFailure
<1>1. FilesInv => InfectedObjectNeedsFailure
  BY DEF FilesInv
<1> QED
  BY <1>1, FilesInvAlways, PTL

\* The bucket holds nothing the table does not know, but for uploads at work
\* and those cut off between the object and its row.
THEOREM ObjectsHaveRowsCorrect == FilesSpec => []ObjectsHaveRows
<1>1. FilesInv => ObjectsHaveRows
  BY DEF FilesInv
<1> QED
  BY <1>1, FilesInvAlways, PTL

\* A file that is offered is in the bucket, unless a download that removed its
\* object is about to write so, a request for the file failed or was cut off,
\* or a download wrote back what it had read before another one wrote.
THEOREM OfferedFilesExistCorrect == FilesSpec => []OfferedFilesExist
<1>1. FilesInv => OfferedFilesExist
  BY DEF FilesInv
<1> QED
  BY <1>1, FilesInvAlways, PTL

\* Names of an owner's files differ unless two uploads overlapped or a deleted
\* file was brought back.
THEOREM SameNameNeedsOverlapCorrect == FilesSpec => []SameNameNeedsOverlap
<1>1. FilesInv => SameNameNeedsOverlap
  BY DEF FilesInv
<1> QED
  BY <1>1, FilesInvAlways, PTL

\* A file scheduled for deletion is shared with nobody, but for the causes the
\* property names.
THEOREM ScheduledFilesAreUnsharedCorrect == FilesSpec => []ScheduledFilesAreUnshared
<1>1. FilesInv => ScheduledFilesAreUnshared
  BY DEF FilesInv
<1> QED
  BY <1>1, FilesInvAlways, PTL

\* The cleanup job and the scans take no object away under a request that reads
\* the file.
THEOREM RemovedOnlyWhenUnreadCorrect == FilesSpec => RemovedOnlyWhenUnread
<1> DEFINE Unread ==
      \A f \in objects \ objects' :
        \/ \E d \in Downloads : FileOf[d] = f /\ dl[d] = "infected"
        \/ fate[f] = "due" /\ ~Busy(f)
<1>1. FilesInv /\ [FilesNext]_vars => Unread
  <2> SUFFICES ASSUME FilesInv, [FilesNext]_vars PROVE Unread
    OBVIOUS
  <2> USE DEF FilesInv, BatchIsDue, FilesTypeOK, Busy
  <2>1. ASSUME NEW f \in Files, StoreObject(f) PROVE Unread
    BY <2>1 DEF StoreObject, MayStore, config, table, uploads, downloads,
      cleanup, history
  <2>2. ASSUME NEW d \in Downloads, RemoveInfected(d) PROVE Unread
    BY <2>2 DEF RemoveInfected, ObjectsWithout, config, table, uploads,
      downloads, cleanup, history
  <2>3. CASE RemoveObjects
    BY <2>3 DEF RemoveObjects, config, table, uploads, downloads, cleanup,
      history
  <2>4. CASE UpdateDatabase \/ ScheduleExpired \/ SelectBatch \/
    MarkDeleted \/ Crash
    BY <2>4 DEF UpdateDatabase, ScheduleExpired, SelectBatch, MarkDeleted,
      Crash
  <2>5. ASSUME NEW f \in Files, Lapse(f) \/ TryName(f) \/ ReadVersion(f) \/
    ScanUpload(f) \/ RejectUpload(f) \/ UploadFails(f)
        PROVE  Unread
    BY <2>5 DEF Lapse, TryName, ReadVersion, ScanUpload, RejectUpload,
      UploadFails
  <2>6. ASSUME NEW f \in Files, NEW ttl \in {"keep", "expires"},
    InsertRow(f, ttl)
        PROVE  Unread
    BY <2>6 DEF InsertRow
  <2>7. ASSUME NEW d \in Downloads, ReadRow(d) \/ Fetch(d) \/
    MarkMissing(d) \/ CheckVersion(d) \/ ScanDownload(d) \/ WriteBack(d) \/
    DownloadFails(d)
        PROVE  Unread
    BY <2>7 DEF ReadRow, Fetch, MarkMissing, CheckVersion, ScanDownload,
      WriteBack, DownloadFails
  <2>8. ASSUME NEW x \in Deletions, FindForDeletion(x) \/
    ScheduleDeletion(x) \/ RemoveSharings(x) \/ DeletionFails(x)
        PROVE  Unread
    BY <2>8 DEF FindForDeletion, ScheduleDeletion, RemoveSharings,
      DeletionFails
  <2>9. ASSUME NEW s \in Sharings, Share(s[1], s[2]) \/ Unshare(s[1], s[2])
        PROVE  Unread
    BY <2>9 DEF Share, Unshare
  <2>10. CASE UNCHANGED vars
    BY <2>10 DEF vars
  <2> QED
    BY <2>1, <2>2, <2>3, <2>4, <2>5, <2>6, <2>7, <2>8, <2>9, <2>10
    DEF FilesNext, UploadStep, DownloadStep, DeletionStep, JobStep
<1>2. [FilesInv /\ FilesInv' /\ [FilesNext]_vars]_vars => [Unread]_vars
  BY <1>1
<1> QED
  BY <1>1, FilesInvAlways, PTL DEF FilesSpec, RemovedOnlyWhenUnread
=============================================================================
