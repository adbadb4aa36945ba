------------------------------- MODULE Files -------------------------------
(***************************************************************************)
(* upload-api: the files table, the bucket and the antivirus.  A file is   *)
(* named, scanned, stored and only then given its row; a download scans it *)
(* again when the antivirus has a new database and writes the row back; an *)
(* owner schedules its deletion, or its time to live does; and a periodic  *)
(* job removes what was scheduled thirty days before.  Every await of a    *)
(* handler is a place where other requests may run.                        *)
(*                                                                         *)
(* All files belong to one owner and are uploaded under one name: names    *)
(* are told apart only by the number appended to them.                     *)
(***************************************************************************)
EXTENDS Integers, FiniteSets

CONSTANTS Files,        \* the ids of the uploads, one upload each
          Downloads,    \* GET requests
          Deletions,    \* DELETE requests
          Workloads,    \* the uploads, downloads and deletions that arrive:
                        \* one of these sets
          FileOf,       \* the file a download or a deletion is about
          Sharings,     \* the pairs of a file and a user that are ever shared
          Expiring,     \* files that may be uploaded with an expirationDate
          Contents,     \* the possible detectedFrom, below
          BatchSize,    \* files the job removes at once, 100 in the code
          MaxVersion,   \* bound on the versions of the antivirus database
          Nameless,     \* versions that may be reported without their number
          MaxFaults     \* bound on failed statements and crashes

ASSUME FilesAssumption ==
  /\ FileOf \in [Downloads \union Deletions -> Files]
  /\ Workloads \in SUBSET SUBSET (Files \union Downloads \union Deletions)
  /\ Sharings \in SUBSET (Files \X {s[2] : s \in Sharings})
  /\ Expiring \in SUBSET Files
  /\ Contents \in SUBSET [Files -> Nat]
  /\ BatchSize \in Nat \ {0}
  /\ MaxVersion \in Nat
  /\ Nameless \in SUBSET Nat
  /\ MaxFaults \in Nat

VARIABLES
  workload,     \* the requests that arrive
  av,           \* the version of the antivirus database
  detectedFrom, \* the first version that knows the content as infected
  rows,         \* the files that have a row
  infected,     \* column infected
  deleted,      \* column deleted
  label,        \* column antivirus_db_version, Unknown for 'unknown'
  fate,         \* columns expires_at and scheduled_deletion_at
  name,         \* column file_name: 0 for the name given, n for 'name-n'
  objects,      \* the files whose object is in the bucket
  sharings,     \* table files_users
  up,           \* where an upload is
  verdict,      \* what the scan of an upload found
  labelled,     \* the uploads that have read the version of the database
  dl,           \* where a download is
  seen,         \* the version in the row a download read
  version,      \* the version of the database when a download asked for it
  unread,       \* the downloads that were answered 'unknown'
  del,          \* where a deletion is
  job,          \* where the cleanup job is
  batch,        \* the files the job has in hand
  faults,       \* failures so far
  cutOff,       \* history: files whose request failed or died half way
  staleWrites,  \* history: files written back over a row that had changed
  lateLabels,   \* history: uploads scanned before, labelled after an update
  overlaps,     \* history: pairs of uploads of which one was named when the
                \* other got its row
  lateShares    \* history: files shared when or after they were scheduled

\* Of a file without a row, label and name are what its upload will insert.
table == <<rows, infected, deleted, label, fate, name>>
uploads == <<up, verdict, labelled>>
downloads == <<dl, seen, version, unread>>
cleanup == <<job, batch>>
history == <<cutOff, staleWrites, lateLabels, overlaps, lateShares>>
config == <<workload, detectedFrom>>
vars == <<config, av, table, objects, sharings, uploads, downloads,
          del, cleanup, faults, history>>

Versions == 0 .. MaxVersion

\* What getDbVersion makes of a version it finds no number in.
Unknown == -1
Labels == Versions \union {Unknown}

\* "expires" has an expires_at to come, "expired" one that is past; "later"
\* is scheduled for deletion and "due" has been for thirty days.  Scheduling
\* clears expires_at, so the two columns are never both set.
Fates == {"keep", "expires", "expired", "later", "due"}
Scheduled == {"later", "due"}

\* Finer databases find what coarser ones found.
Detects(f, v) == detectedFrom[f] <= v

FilesTypeOK ==
  /\ workload \in Workloads
  /\ av \in Versions
  /\ detectedFrom \in Contents
  /\ rows \in SUBSET Files
  /\ infected \in SUBSET Files
  /\ deleted \in SUBSET Files
  /\ label \in [Files -> Labels]
  /\ fate \in [Files -> Fates]
  /\ name \in [Files -> Nat]
  /\ objects \in SUBSET Files
  /\ sharings \in SUBSET {s \in Sharings : s[1] \in rows}
  /\ up \in [Files -> {"naming", "named", "stored", "done", "failed"}]
  /\ verdict \in [Files -> {"none", "clean", "infected"}]
  /\ labelled \in SUBSET Files
  /\ dl \in [Downloads -> {"idle", "found", "fetched", "missing", "scanning",
                           "infected", "removed", "kept", "clean", "served",
                           "refused"}]
  /\ seen \in [Downloads -> Labels]
  /\ version \in [Downloads -> Versions]
  /\ unread \in SUBSET Downloads
  /\ del \in [Deletions -> {"idle", "found", "scheduled", "done", "refused"}]
  /\ job \in {"idle", "selecting", "removing", "marking"}
  /\ batch \in SUBSET Files
  /\ faults \in 0 .. MaxFaults
  /\ cutOff \in SUBSET Files
  /\ staleWrites \in SUBSET Files
  /\ lateLabels \in SUBSET Files
  /\ overlaps \in SUBSET (SUBSET Files)
  /\ lateShares \in SUBSET Files

FilesInit ==
  /\ workload \in Workloads
  /\ av = 0
  /\ detectedFrom \in Contents
  /\ rows = {} /\ infected = {} /\ deleted = {}
  /\ label = [f \in Files |-> 0]
  /\ fate = [f \in Files |-> "keep"]
  /\ name = [f \in Files |-> 0]
  /\ objects = {} /\ sharings = {}
  /\ up = [f \in Files |-> "naming"]
  /\ verdict = [f \in Files |-> "none"]
  /\ labelled = {}
  /\ dl = [d \in Downloads |-> "idle"]
  /\ seen = [d \in Downloads |-> 0]
  /\ version = [d \in Downloads |-> 0]
  /\ unread = {}
  /\ del = [x \in Deletions |-> "idle"]
  /\ job = "idle" /\ batch = {}
  /\ faults = 0
  /\ cutOff = {} /\ staleWrites = {} /\ lateLabels = {}
  /\ overlaps = {} /\ lateShares = {}

\* What the handlers take for a file they may work on.
Live == {f \in rows \ deleted : fate[f] \notin Scheduled}

-----------------------------------------------------------------------------
(* The antivirus and the time.                                             *)

\* The daemon loads a new database.  A scan that is complete used the old one.
UpdateDatabase ==
  /\ av < MaxVersion
  /\ av' = av + 1
  /\ lateLabels' = lateLabels \union
       {f \in Files \ labelled : up[f] = "named" /\ verdict[f] # "none"}
  /\ UNCHANGED <<config, table, objects, sharings, uploads, downloads,
                 del, cleanup, faults, cutOff, staleWrites, overlaps, lateShares>>

Busy(f) ==
  \/ \E d \in Downloads : /\ FileOf[d] = f
                          /\ dl[d] \notin {"idle", "served", "refused"}
  \/ \E x \in Deletions : FileOf[x] = f /\ del[x] \in {"found", "scheduled"}

\* A time to live ends, or thirty days pass: no request lasts that long.
Lapse(f) ==
  /\ f \in rows
  /\ \/ fate[f] = "expires" /\ fate' = [fate EXCEPT ![f] = "expired"]
     \/ fate[f] = "later" /\ ~Busy(f) /\ fate' = [fate EXCEPT ![f] = "due"]
  /\ UNCHANGED <<config, av, rows, infected, deleted, label, name, objects,
                 sharings, uploads, downloads, del, cleanup, faults, history>>

-----------------------------------------------------------------------------
(* POST /files.                                                            *)

\* A check that looks only at the files that are still offered.
MistakenTaken(n) == \E g \in Live : name[g] = n

\* isFilenameAlreadyPresent.
Taken(n) == \E g \in rows \ deleted : name[g] = n

\* getFilename: one query for every number it tries.
TryName(f) ==
  /\ f \in workload /\ up[f] = "naming"
  /\ IF Taken(name[f])
       THEN name' = [name EXCEPT ![f] = @ + 1] /\ UNCHANGED up
       ELSE up' = [up EXCEPT ![f] = "named"] /\ UNCHANGED name
  /\ UNCHANGED <<config, av, rows, infected, deleted, label, fate, objects,
                 sharings, verdict, labelled, downloads, del, cleanup, faults,
                 history>>

\* getDbVersion: the number in what the daemon answers, if there is one.
MayBeTold == {av} \union {v \in {Unknown} : av \in Nameless}

\* A version read again once the object is stored.
MistakenVersionMayBeRead(f) == up[f] \in {"named", "stored"}

\* The version is asked for before the scan starts, and awaited after it.
VersionMayBeRead(f) == up[f] = "named" /\ f \notin labelled

ReadVersion(f) ==
  /\ VersionMayBeRead(f)
  /\ \E v \in MayBeTold : label' = [label EXCEPT ![f] = v]
  /\ labelled' = labelled \union {f}
  /\ UNCHANGED <<config, av, rows, infected, deleted, fate, name, objects,
                 sharings, up, verdict, downloads, del, cleanup, faults, history>>

ScanUpload(f) ==
  /\ up[f] = "named" /\ verdict[f] = "none"
  /\ verdict' = [verdict EXCEPT ![f] = IF Detects(f, av) THEN "infected" ELSE "clean"]
  /\ UNCHANGED <<config, av, table, objects, sharings, up, labelled,
                 downloads, del, cleanup, faults, history>>

\* An infected upload leaves a row, marked infected and deleted.
RejectUpload(f) ==
  /\ up[f] = "named" /\ verdict[f] = "infected" /\ f \in labelled
  /\ rows' = rows \union {f}
  /\ infected' = infected \union {f}
  /\ deleted' = deleted \union {f}
  /\ up' = [up EXCEPT ![f] = "done"]
  /\ UNCHANGED <<config, av, label, fate, name, objects, sharings, verdict,
                 labelled, downloads, del, cleanup, faults, history>>

\* PromiseTransform holds the last chunk back until the scan found nothing.
MayStore(f) == up[f] = "named" /\ f \in labelled /\ verdict[f] = "clean"

StoreObject(f) ==
  /\ MayStore(f)
  /\ objects' = objects \union {f}
  /\ up' = [up EXCEPT ![f] = "stored"]
  /\ UNCHANGED <<config, av, table, sharings, verdict, labelled, downloads,
                 del, cleanup, faults, history>>

\* A row that is not waited for.
MistakenRowsWith(f) == rows

\* insertFileMetadata.
RowsWith(f) == rows \union {f}

InsertRow(f, ttl) ==
  /\ up[f] = "stored"
  /\ rows' = RowsWith(f)
  /\ fate' = [fate EXCEPT ![f] = ttl]
  /\ up' = [up EXCEPT ![f] = "done"]
  /\ overlaps' = overlaps \union
       {{f, g} : g \in {h \in Files \ {f} : up[h] \in {"named", "stored"}}}
  /\ UNCHANGED <<config, av, infected, deleted, label, name, objects,
                 sharings, verdict, labelled, downloads, del, cleanup, faults,
                 cutOff, staleWrites, lateLabels, lateShares>>

\* The bucket, the antivirus or the database fails: the request is refused.
UploadFails(f) ==
  /\ up[f] \in {"named", "stored"} /\ faults < MaxFaults
  /\ up' = [up EXCEPT ![f] = "failed"]
  /\ faults' = faults + 1
  /\ cutOff' = cutOff \union {f}
  /\ UNCHANGED <<config, av, table, objects, sharings, verdict, labelled,
                 downloads, del, cleanup, staleWrites, lateLabels, overlaps,
                 lateShares>>

UploadStep(f) ==
  \/ TryName(f)
  \/ ReadVersion(f)
  \/ ScanUpload(f)
  \/ RejectUpload(f)
  \/ StoreObject(f)
  \/ InsertRow(f, "keep")
  \/ f \in Expiring /\ InsertRow(f, "expires")

-----------------------------------------------------------------------------
(* GET /files/:id.                                                         *)

\* A download of what is scheduled for deletion.
MistakenReadable(f) == f \in rows \ (deleted \union infected)

\* getFileMetadataById finds it and it is not marked infected.
Readable(f) == f \in Live \ infected

ReadRow(d) ==
  /\ d \in workload /\ dl[d] = "idle"
  /\ FileOf[d] \in rows
  /\ dl' = [dl EXCEPT ![d] = IF Readable(FileOf[d]) THEN "found" ELSE "refused"]
  /\ seen' = [seen EXCEPT ![d] = label[FileOf[d]]]
  /\ UNCHANGED <<config, av, table, objects, sharings, uploads, version,
                 unread, del, cleanup, faults, history>>

Fetch(d) ==
  /\ dl[d] = "found"
  /\ dl' = [dl EXCEPT ![d] = IF FileOf[d] \in objects THEN "fetched" ELSE "missing"]
  /\ UNCHANGED <<config, av, table, objects, sharings, uploads, seen,
                 version, unread, del, cleanup, faults, history>>

\* A row spread last, over the values given.
MistakenWriteRow(d, isInfected, isDeleted, v) ==
  LET f == FileOf[d] IN
  /\ infected' = infected \ {f}
  /\ deleted' = deleted \ {f}
  /\ label' = [label EXCEPT ![f] = seen[d]]
  /\ staleWrites' = IF f \in infected \union deleted \/ label[f] # seen[d]
                      THEN staleWrites \union {f} ELSE staleWrites

\* updateFileMetadata: the columns of the row that was read, whatever was
\* written since, with the given values for three of them.
WriteRow(d, isInfected, isDeleted, v) ==
  LET f == FileOf[d] IN
  /\ infected' = IF isInfected THEN infected \union {f} ELSE infected \ {f}
  /\ deleted' = IF isDeleted THEN deleted \union {f} ELSE deleted \ {f}
  /\ label' = [label EXCEPT ![f] = v]
  /\ staleWrites' = IF f \in infected \union deleted \/ label[f] # seen[d]
                      THEN staleWrites \union {f} ELSE staleWrites

\* The bucket answered 404.
MarkMissing(d) ==
  /\ dl[d] = "missing"
  /\ WriteRow(d, FALSE, TRUE, seen[d])
  /\ dl' = [dl EXCEPT ![d] = "refused"]
  /\ UNCHANGED <<config, av, rows, fate, name, objects, sharings, uploads,
                 seen, version, unread, del, cleanup, faults, cutOff, lateLabels,
                 overlaps, lateShares>>

\* Two databases that are both 'unknown' are taken for the same.
CheckVersion(d) ==
  /\ dl[d] = "fetched"
  /\ version' = [version EXCEPT ![d] = av]
  /\ \E v \in MayBeTold :
       /\ unread' = IF v = Unknown THEN unread \union {d} ELSE unread
       /\ dl' = [dl EXCEPT ![d] = IF seen[d] = v THEN "served" ELSE "scanning"]
  /\ UNCHANGED <<config, av, table, objects, sharings, uploads, seen, del,
                 cleanup, faults, history>>

ScanDownload(d) ==
  /\ dl[d] = "scanning"
  /\ dl' = [dl EXCEPT ![d] = IF Detects(FileOf[d], av) THEN "infected" ELSE "clean"]
  /\ UNCHANGED <<config, av, table, objects, sharings, uploads, seen,
                 version, unread, del, cleanup, faults, history>>

\* A removal by the name of the file, which is not its key.
MistakenObjectsWithout(f) == objects

\* deleteObject.
ObjectsWithout(f) == objects \ {f}

RemoveInfected(d) ==
  /\ dl[d] = "infected"
  /\ \/ /\ objects' = ObjectsWithout(FileOf[d])
        /\ dl' = [dl EXCEPT ![d] = "removed"]
        /\ UNCHANGED <<faults, cutOff>>
     \/ /\ faults < MaxFaults
        /\ faults' = faults + 1
        /\ cutOff' = cutOff \union {FileOf[d]}
        /\ dl' = [dl EXCEPT ![d] = "kept"]
        /\ UNCHANGED objects
  /\ UNCHANGED <<config, av, table, sharings, uploads, seen, version, unread,
                 del, cleanup, staleWrites, lateLabels, overlaps, lateShares>>

\* fileDeleted, set once the object has been removed.
Gone(d) == dl[d] = "removed"

\* antivirusDbVersion, as the download was told it.
Told(d) == IF d \in unread THEN Unknown ELSE version[d]

\* What the scan found is written back; a failure to do so is only logged.
WriteBack(d) ==
  /\ dl[d] \in {"clean", "removed", "kept"}
  /\ dl' = [dl EXCEPT ![d] = IF @ = "clean" THEN "served" ELSE "refused"]
  /\ \/ /\ WriteRow(d, dl[d] # "clean", Gone(d), Told(d))
        /\ UNCHANGED <<faults, cutOff>>
     \/ /\ faults < MaxFaults
        /\ faults' = faults + 1
        /\ cutOff' = cutOff \union {FileOf[d]}
        /\ UNCHANGED <<infected, deleted, label, staleWrites>>
  /\ UNCHANGED <<config, av, rows, fate, name, objects, sharings, uploads,
                 seen, version, unread, del, cleanup, lateLabels, overlaps, lateShares>>

\* The bucket, the antivirus or the database fails, or the client is gone.
DownloadFails(d) ==
  /\ dl[d] \in {"found", "missing", "fetched", "scanning"}
  /\ dl' = [dl EXCEPT ![d] = "refused"]
  /\ UNCHANGED <<config, av, table, objects, sharings, uploads, seen,
                 version, unread, del, cleanup, faults, history>>

DownloadStep(d) ==
  \/ ReadRow(d)
  \/ Fetch(d)
  \/ MarkMissing(d)
  \/ CheckVersion(d)
  \/ ScanDownload(d)
  \/ RemoveInfected(d)
  \/ WriteBack(d)

-----------------------------------------------------------------------------
(* DELETE /metadata and the routes of /permissions.                        *)

FindForDeletion(x) ==
  /\ x \in workload /\ del[x] = "idle"
  /\ FileOf[x] \in rows
  /\ del' = [del EXCEPT ![x] = IF FileOf[x] \in Live THEN "found" ELSE "refused"]
  /\ UNCHANGED <<config, av, table, objects, sharings, uploads, downloads,
                 cleanup, faults, history>>

\* scheduleFileForDeletion.
ScheduleDeletion(x) ==
  /\ del[x] = "found"
  /\ fate' = [fate EXCEPT ![FileOf[x]] = "later"]
  /\ del' = [del EXCEPT ![x] = "scheduled"]
  /\ UNCHANGED <<config, av, rows, infected, deleted, label, name, objects,
                 sharings, uploads, downloads, cleanup, faults, history>>

\* A deletion that leaves the sharings to the foreign key.
MistakenSharingsWithout(f) == sharings

\* removeAllFileSharings.
SharingsWithout(f) == {s \in sharings : s[1] # f}

RemoveSharings(x) ==
  /\ del[x] = "scheduled"
  /\ sharings' = SharingsWithout(FileOf[x])
  /\ del' = [del EXCEPT ![x] = "done"]
  /\ lateShares' = lateShares \ {FileOf[x]}
  /\ UNCHANGED <<config, av, table, objects, uploads, downloads, cleanup,
                 faults, cutOff, staleWrites, lateLabels, overlaps>>

DeletionFails(x) ==
  /\ del[x] \in {"found", "scheduled"} /\ faults < MaxFaults
  /\ del' = [del EXCEPT ![x] = "refused"]
  /\ faults' = faults + 1
  /\ cutOff' = cutOff \union {FileOf[x]}
  /\ UNCHANGED <<config, av, table, objects, sharings, uploads, downloads,
                 cleanup, staleWrites, lateLabels, overlaps, lateShares>>

DeletionStep(x) == FindForDeletion(x) \/ ScheduleDeletion(x) \/ RemoveSharings(x)

\* addFileSharing asks nothing; the foreign key asks that the row exists.
Shareable(f) == f \in rows

Share(f, u) ==
  /\ Shareable(f)
  /\ <<f, u>> \in Sharings \ sharings
  /\ sharings' = sharings \union {<<f, u>>}
  /\ lateShares' = IF fate[f] \in Scheduled THEN lateShares \union {f} ELSE lateShares
  /\ UNCHANGED <<config, av, table, objects, uploads, downloads, del,
                 cleanup, faults, cutOff, staleWrites, lateLabels, overlaps>>

\* removeFileSharing.
Unshare(f, u) ==
  /\ <<f, u>> \in sharings
  /\ sharings' = sharings \ {<<f, u>>}
  /\ UNCHANGED <<config, av, table, objects, uploads, downloads, del,
                 cleanup, faults, history>>

-----------------------------------------------------------------------------
(* POST /jobs: what the job does once it has scheduled its successor.      *)

\* scheduleExpiredFilesForDeletion: sharings are left alone.
ScheduleExpired ==
  LET E == {f \in rows : fate[f] = "expired"} IN
  /\ job = "idle"
  /\ fate' = [f \in Files |-> IF f \in E THEN "later" ELSE fate[f]]
  /\ job' = "selecting"
  /\ lateShares' = lateShares \union {f \in E : \E s \in sharings : s[1] = f}
  /\ UNCHANGED <<config, av, rows, infected, deleted, label, name, objects,
                 sharings, uploads, downloads, del, batch, faults, cutOff,
                 staleWrites, lateLabels, overlaps>>

\* A selection by the time to live, which scheduling has cleared.
MistakenExpiredFiles == {f \in rows \ deleted : fate[f] = "expired"}

\* getExpiredFiles; slice(0, 100) keeps the first rows of an unordered query.
ExpiredFiles == {f \in rows \ deleted : fate[f] = "due"}

SelectBatch ==
  /\ job = "selecting"
  /\ \E B \in SUBSET ExpiredFiles :
       /\ Cardinality(B) <= BatchSize
       /\ B # ExpiredFiles => Cardinality(B) = BatchSize
       /\ batch' = B
       /\ job' = IF B = {} THEN "idle" ELSE "removing"
  /\ UNCHANGED <<config, av, table, objects, sharings, uploads, downloads,
                 del, faults, history>>

\* deleteFilesFromStorage: objects the bucket could not remove, all of them
\* when the call itself fails, are taken out of what will be marked.
RemoveObjects ==
  /\ job = "removing"
  /\ \E errors \in SUBSET batch :
       /\ IF errors = {}
            THEN UNCHANGED <<faults, cutOff>>
            ELSE /\ faults < MaxFaults
                 /\ faults' = faults + 1
                 /\ cutOff' = cutOff \union errors
       /\ objects' = objects \ (batch \ errors)
       /\ batch' = batch \ errors
       /\ job' = IF batch \ errors = {} THEN "idle" ELSE "marking"
  /\ UNCHANGED <<config, av, table, sharings, uploads, downloads, del,
                 staleWrites, lateLabels, overlaps, lateShares>>

\* markFilesAsDeleted; a failure is only logged.
MarkDeleted ==
  /\ job = "marking"
  /\ job' = "idle" /\ batch' = {}
  /\ \/ deleted' = deleted \union batch /\ UNCHANGED <<faults, cutOff>>
     \/ /\ faults < MaxFaults
        /\ faults' = faults + 1
        /\ cutOff' = cutOff \union batch
        /\ UNCHANGED deleted
  /\ UNCHANGED <<config, av, rows, infected, label, fate, name, objects,
                 sharings, uploads, downloads, del, staleWrites, lateLabels,
                 overlaps, lateShares>>

JobStep == ScheduleExpired \/ SelectBatch \/ RemoveObjects \/ MarkDeleted

\* The process dies and every request with it.
Crash ==
  /\ faults < MaxFaults
  /\ faults' = faults + 1
  /\ cutOff' = cutOff \union batch \union {f \in Files : Busy(f)}
                 \union {f \in Files : up[f] \in {"named", "stored"}}
  /\ up' = [f \in Files |-> IF up[f] \in {"named", "stored"} THEN "failed" ELSE up[f]]
  /\ dl' = [d \in Downloads |-> IF dl[d] \in {"idle", "served"} THEN dl[d] ELSE "refused"]
  /\ del' = [x \in Deletions |-> IF del[x] \in {"idle", "done"} THEN del[x] ELSE "refused"]
  /\ job' = "idle" /\ batch' = {}
  /\ UNCHANGED <<config, av, table, objects, sharings, verdict, labelled,
                 seen, version, unread, staleWrites, lateLabels, overlaps,
                 lateShares>>

FilesNext ==
  \/ UpdateDatabase
  \/ \E f \in Files : Lapse(f) \/ UploadStep(f) \/ UploadFails(f)
  \/ \E d \in Downloads : DownloadStep(d) \/ DownloadFails(d)
  \/ \E x \in Deletions : DeletionStep(x) \/ DeletionFails(x)
  \/ \E s \in Sharings : Share(s[1], s[2]) \/ Unshare(s[1], s[2])
  \/ JobStep
  \/ Crash

FilesSpec == FilesInit /\ [][FilesNext]_vars

\* Thirty days pass, the job comes round (module Cleanup says when it does),
\* and requests run on.
FilesFairness ==
  /\ \A f \in Files : WF_vars(Lapse(f)) /\ WF_vars(UploadStep(f))
  /\ \A d \in Downloads : WF_vars(DownloadStep(d))
  /\ \A x \in Deletions : WF_vars(DeletionStep(x))
  /\ WF_vars(JobStep)

FilesFairSpec == FilesSpec /\ FilesFairness

-----------------------------------------------------------------------------
(* Properties.                                                             *)

\* A download that hands the file out has had it checked against the database
\* in use when it asked for the version, though it scans nothing itself when
\* the row carries that version: the label of a row never claims more than its
\* scan.  There are two exceptions: an upload whose version was read,
\* unordered, after its scan and after an update in between, and a database
\* without a number, which neither the row nor the download could name.
ServedWasChecked ==
  \A d \in Downloads :
    dl[d] = "served" => \/ ~Detects(FileOf[d], version[d])
                        \/ FileOf[d] \in lateLabels
                        \/ seen[d] = Unknown /\ d \in unread

\* An object known as infected stays in the bucket only after a failure.
InfectedObjectNeedsFailure == infected \intersect objects \subseteq cutOff

\* An object without a row, which nothing would ever remove, belongs to an
\* upload at work or to one that was cut off.
ObjectsHaveRows ==
  \A f \in objects \ rows : up[f] = "stored" \/ f \in cutOff

\* A file that is offered for download has its object, unless a download is
\* about to write that it has removed it, was kept from writing it, or wrote
\* it and another one overwrote it with what it had read before.
OfferedFilesExist ==
  \A f \in Live \ (infected \union objects) :
    \/ \E d \in Downloads : FileOf[d] = f /\ dl[d] = "removed"
    \/ f \in cutOff
    \/ f \in staleWrites

\* Scheduled files are shared with nobody, though scheduling and unsharing
\* are two statements: but for those scheduled by their time to live, those
\* shared afterwards, and deletions at work or cut off in between.
ScheduledFilesAreUnshared ==
  \A s \in sharings :
    fate[s[1]] \in Scheduled =>
      \/ \E x \in Deletions : FileOf[x] = s[1] /\ del[x] = "scheduled"
      \/ s[1] \in cutOff \union lateShares

\* Two files of an owner have the same name only if one was given its name
\* before the row of the other was there, or was brought back by a download.
SameNameNeedsOverlap ==
  \A f, g \in rows \ deleted :
    f # g /\ name[f] = name[g] =>
      {f, g} \in overlaps \/ {f, g} \intersect staleWrites # {}

\* An object leaves the bucket because a scan found it infected, or thirty
\* days after it was scheduled and with nobody reading it.
RemovedOnlyWhenUnread ==
  [][\A f \in objects \ objects' :
       \/ \E d \in Downloads : FileOf[d] = f /\ dl[d] = "infected"
       \/ fate[f] = "due" /\ ~Busy(f)]_vars

\* What was scheduled is removed and marked so, through the failures of the
\* bucket, of the database and of the process, however few files a job takes.
ScheduledFilesGoAway ==
  \A f \in Files : fate[f] \in Scheduled ~> f \in deleted \ objects
=============================================================================
