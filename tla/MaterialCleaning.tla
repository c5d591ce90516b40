-------------------------- MODULE MaterialCleaning --------------------------
(***************************************************************************)
(* Word files of the material library: uploads that overwrite a file with  *)
(* a new version, the cleaning job of each version, run one at a time by   *)
(* the material worker, and the objects both leave in MinIO.               *)
(*   services/material_upload_operations.py, material_cleaning.py,         *)
(*   material_raw_object_operations.py, material_move_operations.py,       *)
(*   workers/redis_worker.py                                               *)
(***************************************************************************)
EXTENDS Naturals, Sequences

CONSTANTS
    Files,
    MaxVersion,    \* uploads of one file
    Movable,       \* the files somebody moves to another folder, once each
    Faults,        \* kinds of faults that may happen
    MaxFaults

\* What is assumed of the constants.
CleaningConstants ==
    /\ Files # {} /\ MaxVersion \in Nat \ {0}
    /\ Movable \subseteq Files
    /\ MaxFaults \in Nat

Versions == 1..MaxVersion
Dest     == MaxVersion + 1       \* the source key a move leads to
Keys     == 1..Dest
Jobs     == [file : Files, ver : Versions]

Statuses == {"none", "pending", "cleaning", "cleaned", "failed"}
UpPcs    == {"idle", "written", "committed", "dropped", "done"}
WorkPcs  == {"idle", "taken", "read", "cleaning", "driven", "uploaded",
             "compensate", "discard", "stale", "requeue", "finish", "release"}
MovePcs  == {"idle", "read", "copied", "committed", "done"}

VARIABLES
    version, status, cleaned, key,  \* the raw_files row: its version,
                                    \* cleanStatus, cleanedSourceVersion, key
    src,      \* the content, by version, of each source object; 0 is none
    objs,     \* of each cleaned object, the content it was made from
    warned,   \* the cleaned objects the log names as not removed
    up,       \* how far the upload of each version is
    drop,     \* the cleaned version that upload still has to remove
    queue, locks,                   \* the material queue and its job locks
    wpc, job, wkey, got, want,      \* the worker, what it read, and what it
                                    \* is about to enqueue
    move,     \* the move of a file, with its copy of the row
    faults

row      == <<version, status, cleaned, key>>
minio    == <<src, objs, warned>>
uploads  == <<up, drop>>
redis    == <<queue, locks>>
worker   == <<wpc, job, wkey, got, want>>
vars     == <<row, minio, uploads, redis, worker, move, faults>>

NoMove == [pc |-> "idle", status |-> "none", cleaned |-> 0, key |-> 1]

Init ==
    /\ version = [f \in Files |-> 0]
    /\ status = [f \in Files |-> "none"]
    /\ cleaned = [f \in Files |-> 0]
    /\ key = [f \in Files |-> 1]
    /\ src = [f \in Files |-> [k \in Keys |-> 0]]
    /\ objs = [f \in Files |-> [v \in Versions |-> 0]]
    /\ warned = {}
    /\ up = [f \in Files |-> [v \in Versions |-> "idle"]]
    /\ drop = [f \in Files |-> [v \in Versions |-> 0]]
    /\ queue = <<>>
    /\ locks = {}
    /\ wpc = "idle"
    /\ job = (CHOOSE j \in Jobs : TRUE) /\ wkey = 1 /\ got = 0 /\ want = 1
    /\ move = [f \in Files |-> NoMove]
    /\ faults = 0

Fault(kind) ==
    /\ kind \in Faults
    /\ faults < MaxFaults
    /\ faults' = faults + 1

\* MinIO refuses for good: whoever removes a source object ignores it ...
RemoveSource(f, k) ==
    \/ src' = [src EXCEPT ![f][k] = 0]
    \/ "remove" \in Faults /\ UNCHANGED src

\* ... and whoever removes a cleaned object goes on after a warning.
RemoveCleaned(f, v) ==
    \/ /\ objs' = [objs EXCEPT ![f][v] = 0]
       /\ UNCHANGED <<warned, faults>>
    \/ /\ Fault("remove")
       /\ warned' = warned \cup {<<f, v>>}
       /\ UNCHANGED objs

\* SELECT ... FOR UPDATE, held until the upload's transaction ends.
Locked(f) == \E v \in Versions : up[f][v] = "written"

\* Slip: one lock for all versions of a file.
EnqueueByFile(f, v) ==
    LET j == [file |-> f, ver |-> v]
    IN  IF \E k \in locks : k.file = f
        THEN UNCHANGED redis
        ELSE queue' = Append(queue, j) /\ locks' = locks \cup {j}

\* enqueue_cleaning_job: SET NX of the version's lock, then the push.
Enqueue(f, v) ==
    LET j == [file |-> f, ver |-> v]
    IN  IF j \in locks
        THEN UNCHANGED redis
        ELSE queue' = Append(queue, j) /\ locks' = locks \cup {j}
-----------------------------------------------------------------------------
(* Uploading.                                                              *)

UpGo(f, v, from, to) ==
    /\ up[f][v] = from
    /\ up' = [up EXCEPT ![f][v] = to]

\* Slip: every version is written under the file's path.
SourceKeyByPath(v) == 1

\* raw_object_key for a new file, raw_version_object_key for a later version
SourceKey(v) == v

\* The new object is written before the row is changed.
UploadWrite(f) ==
    /\ version[f] < MaxVersion
    /\ ~ Locked(f)
    /\ LET v == version[f] + 1
       IN  /\ UpGo(f, v, "idle", "written")
           /\ src' = [src EXCEPT ![f][SourceKey(v)] = v]
    /\ UNCHANGED <<row, objs, warned, drop, redis, worker, move, faults>>

\* The old cleaned object is only remembered, to be removed after the commit.
UploadCommit(f, v) ==
    /\ UpGo(f, v, "written", "committed")
    /\ drop' = [drop EXCEPT ![f][v] = cleaned[f]]
    /\ version' = [version EXCEPT ![f] = v]
    /\ status' = [status EXCEPT ![f] = "pending"]
    /\ cleaned' = [cleaned EXCEPT ![f] = 0]
    /\ key' = [key EXCEPT ![f] = SourceKey(v)]
    /\ UNCHANGED <<minio, redis, worker, move, faults>>

\* The transaction fails: the written object is removed again.
UploadFails(f, v) ==
    /\ Fault("upload")
    /\ UpGo(f, v, "written", "idle")
    /\ RemoveSource(f, SourceKey(v))
    /\ UNCHANGED <<row, objs, warned, drop, redis, worker, move>>

\* Slip: the old artefact is dropped with everything the file has.
DropEverything(f, v) ==
    /\ UpGo(f, v, "committed", "dropped")
    /\ objs' = [objs EXCEPT ![f] = [u \in Versions |-> 0]]
    /\ drop' = [drop EXCEPT ![f][v] = 0]
    /\ UNCHANGED <<row, src, warned, redis, worker, move, faults>>

DropOld(f, v) ==
    /\ UpGo(f, v, "committed", "dropped")
    /\ drop' = [drop EXCEPT ![f][v] = 0]
    /\ IF drop[f][v] = 0
       THEN UNCHANGED <<objs, warned, faults>>
       ELSE RemoveCleaned(f, drop[f][v])
    /\ UNCHANGED <<row, src, redis, worker, move>>

UploadEnqueue(f, v) ==
    /\ UpGo(f, v, "dropped", "done")
    /\ Enqueue(f, v)
    /\ UNCHANGED <<row, minio, drop, worker, move, faults>>

\* Redis is not there: the upload succeeds without its job.
UploadUnqueued(f, v) ==
    /\ Fault("queue")
    /\ UpGo(f, v, "dropped", "done")
    /\ UNCHANGED <<row, minio, drop, redis, worker, move>>

\* The API process dies: an open transaction is rolled back.
ApiCrash(f, v) ==
    /\ Fault("api")
    /\ up[f][v] \in {"written", "committed", "dropped"}
    /\ up' = [up EXCEPT ![f][v] = IF @ = "written" THEN "idle" ELSE "done"]
    /\ UNCHANGED <<row, minio, drop, redis, worker, move>>
-----------------------------------------------------------------------------
(* Moving a file: the row is read without a lock, the object copied, and   *)
(* the fields read before are written back.                                *)

MoveGo(f, from, to) ==
    /\ f \in Movable
    /\ move[f].pc = from
    /\ move' = [move EXCEPT ![f].pc = to]

MoveRead(f) ==
    /\ f \in Movable
    /\ move[f].pc = "idle"
    /\ version[f] # 0
    /\ move' = [move EXCEPT ![f] = [pc |-> "read", status |-> status[f],
                                    cleaned |-> cleaned[f], key |-> key[f]]]
    /\ UNCHANGED <<row, minio, uploads, redis, worker, faults>>

MoveCopy(f) ==
    /\ MoveGo(f, "read", "copied")
    /\ src' = [src EXCEPT ![f][Dest] = src[f][move[f].key]]
    /\ UNCHANGED <<row, objs, warned, uploads, redis, worker, faults>>

\* UPDATE ... WHERE id: folder, key and the whole of ext_fields.
MoveCommit(f) ==
    /\ MoveGo(f, "copied", "committed")
    /\ ~ Locked(f)
    /\ key' = [key EXCEPT ![f] = Dest]
    /\ status' = [status EXCEPT ![f] = move[f].status]
    /\ cleaned' = [cleaned EXCEPT ![f] = move[f].cleaned]
    /\ UNCHANGED <<version, minio, uploads, redis, worker, faults>>

MoveDrop(f) ==
    /\ MoveGo(f, "committed", "done")
    /\ RemoveSource(f, move[f].key)
    /\ UNCHANGED <<row, objs, warned, uploads, redis, worker, faults>>
-----------------------------------------------------------------------------
(* The worker: redis_worker._run_job around clean_material_file.           *)

Work(from, to) == wpc = from /\ wpc' = to

F == job.file
V == job.ver

Dequeue ==
    /\ Work("idle", "taken")
    /\ queue # <<>>
    /\ job' = Head(queue)
    /\ queue' = Tail(queue)
    /\ UNCHANGED <<row, minio, uploads, locks, wkey, got, want, move, faults>>

\* The job's version against the row's.
ReadRow ==
    /\ Work("taken", IF version[F] = V THEN "read" ELSE "stale")
    /\ wkey' = key[F]
    /\ UNCHANGED <<row, minio, uploads, redis, job, got, want, move, faults>>

\* UPDATE ... WHERE id = %s AND version = %s; it waits for an upload's lock.
Current(f, v) == version[f] = v
OnRow(f, v)   == ~ Locked(f) /\ Current(f, v)

\* set_material_clean_status: the row's version decides.
SetStatus(to, next, refused) ==
    /\ ~ Locked(F)
    /\ wpc' = IF OnRow(F, V) THEN next ELSE refused
    /\ status' = IF OnRow(F, V) THEN [status EXCEPT ![F] = to] ELSE status

MarkCleaning ==
    /\ wpc = "read"
    /\ SetStatus("cleaning", "cleaning", "stale")
    /\ UNCHANGED <<version, cleaned, key, minio, uploads, redis, job, wkey,
                   got, want, move, faults>>

\* The source is fetched by the key read before, and the driver is run.
Drive ==
    /\ Work("cleaning", "driven")
    /\ got' = src[F][wkey]
    /\ UNCHANGED <<row, minio, uploads, redis, job, wkey, want, move, faults>>

\* The source is gone, or the driver produced nothing.
MarkFailed ==
    /\ wpc = "driven"
    /\ SetStatus("failed", "finish", "stale")
    /\ UNCHANGED <<version, cleaned, key, minio, uploads, redis, job, wkey,
                   got, want, move, faults>>

\* An exception nobody catches: the driver's timeout, or an upload MinIO refuses.
DriverRaises ==
    /\ Fault("raise")
    /\ Work("driven", "finish")
    /\ UNCHANGED <<row, minio, uploads, redis, job, wkey, got, want, move>>

\* cleaned_object_key: cleaned/RAW-x/v<n>/...
CleanedKey(v) == v

UploadCleaned ==
    /\ Work("driven", "uploaded")
    /\ got # 0
    /\ objs' = [objs EXCEPT ![F][CleanedKey(V)] = got]
    /\ UNCHANGED <<row, src, warned, uploads, redis, job, wkey, got, want, move,
                   faults>>

\* Slip: a refused artefact is left where it is.
MarkCleanedKeeps ==
    /\ wpc = "uploaded"
    /\ SetStatus("cleaned", "finish", "stale")
    /\ cleaned' = IF OnRow(F, V) THEN [cleaned EXCEPT ![F] = V] ELSE cleaned
    /\ UNCHANGED <<version, key, minio, uploads, redis, job, wkey, got, want,
                   move, faults>>

MarkCleaned ==
    /\ wpc = "uploaded"
    /\ SetStatus("cleaned", "finish", "discard")
    /\ cleaned' = IF OnRow(F, V) THEN [cleaned EXCEPT ![F] = V] ELSE cleaned
    /\ UNCHANGED <<version, key, minio, uploads, redis, job, wkey, got, want,
                   move, faults>>

\* The database refuses the write ...
MarkCleanedFails ==
    /\ Fault("db")
    /\ Work("uploaded", "compensate")
    /\ UNCHANGED <<row, minio, uploads, redis, job, wkey, got, want, move>>

\* ... and the object is removed before the job raises; one that the row's newer
\* version refused is removed likewise (_discard_stale_artifact).
Discard ==
    /\ \/ Work("compensate", "finish")
       \/ Work("discard", "stale")
    /\ RemoveCleaned(F, CleanedKey(V))
    /\ UNCHANGED <<row, src, uploads, redis, job, wkey, got, want, move>>

\* _requeue_latest_cleaning: a newer version that is still pending ...
RequeueRead ==
    /\ LET newer == version[F] > V /\ status[F] = "pending"
       IN  /\ Work("stale", IF newer THEN "requeue" ELSE "finish")
           /\ want' = IF newer THEN version[F] ELSE want
    /\ UNCHANGED <<row, minio, uploads, redis, job, wkey, got, move, faults>>

\* ... gets a job of its own, unless it has one.
RequeuePush ==
    /\ Work("requeue", "finish")
    /\ Enqueue(F, want)
    /\ UNCHANGED <<row, minio, uploads, job, wkey, got, want, move, faults>>

\* finally: the job leaves the processing list, then its lock is freed.
EndJob ==
    /\ Work("finish", "release")
    /\ UNCHANGED <<row, minio, uploads, redis, job, wkey, got, want, move, faults>>

Release ==
    /\ Work("release", "idle")
    /\ locks' = locks \ {job}
    /\ UNCHANGED <<row, minio, uploads, queue, job, wkey, got, want, move, faults>>

\* The worker dies and comes back: recover_processing_jobs puts the job it had
\* in front of the queue; one that had left the list keeps its lock until the
\* lock's TTL, which is taken to pass here.
WorkerCrash ==
    /\ Fault("worker")
    /\ wpc # "idle"
    /\ wpc' = "idle"
    /\ IF wpc = "release"
       THEN locks' = locks \ {job} /\ UNCHANGED queue
       ELSE queue' = <<job>> \o queue /\ UNCHANGED locks
    /\ UNCHANGED <<row, minio, uploads, job, wkey, got, want, move>>
-----------------------------------------------------------------------------

Upload(f, v) ==
    \/ UploadCommit(f, v) \/ UploadFails(f, v) \/ DropOld(f, v)
    \/ UploadEnqueue(f, v) \/ UploadUnqueued(f, v)

Move(f) == MoveRead(f) \/ MoveCopy(f) \/ MoveCommit(f) \/ MoveDrop(f)

WorkerStep ==
    \/ Dequeue \/ ReadRow \/ MarkCleaning \/ Drive \/ MarkFailed
    \/ DriverRaises \/ UploadCleaned \/ MarkCleaned \/ MarkCleanedFails
    \/ Discard \/ RequeueRead \/ RequeuePush \/ EndJob \/ Release

Next ==
    \/ \E f \in Files :
          \/ UploadWrite(f)
          \/ Move(f)
          \/ \E v \in Versions : Upload(f, v) \/ ApiCrash(f, v)
    \/ WorkerStep
    \/ WorkerCrash

Spec == Init /\ [][Next]_vars

\* A request that was accepted runs to its end, and so does the worker's loop.
FairSpec ==
    /\ Spec
    /\ \A f \in Files, v \in Versions : WF_vars(Upload(f, v))
    /\ WF_vars(WorkerStep)
-----------------------------------------------------------------------------
(* Properties.                                                             *)

TypeOK ==
    /\ version \in [Files -> 0..MaxVersion]
    /\ status \in [Files -> Statuses]
    /\ cleaned \in [Files -> 0..MaxVersion]
    /\ key \in [Files -> Keys]
    /\ src \in [Files -> [Keys -> 0..MaxVersion]]
    /\ objs \in [Files -> [Versions -> 0..MaxVersion]]
    /\ warned \subseteq Files \X Versions
    /\ up \in [Files -> [Versions -> UpPcs]]
    /\ drop \in [Files -> [Versions -> 0..MaxVersion]]
    /\ queue \in Seq(Jobs)
    /\ locks \subseteq Jobs
    /\ wpc \in WorkPcs /\ job \in Jobs /\ wkey \in Keys
    /\ got \in 0..MaxVersion /\ want \in Versions
    /\ move \in [Files -> [pc : MovePcs, status : Statuses,
                           cleaned : 0..MaxVersion, key : Keys]]
    /\ faults \in 0..MaxFaults

\* What readers take for the cleaned text of a file (cleaned_artifact_is_current)
\* is there: neither a late cleaning, nor the removal of an older artefact, nor a
\* failed write takes away the object the row points to.
UsableArtifactKept ==
    \A f \in Files :
        version[f] # 0 /\ cleaned[f] = version[f] => objs[f][version[f]] # 0

InHand(f, v) == wpc # "idle" /\ job = [file |-> f, ver |-> v]

\* Without a crash or a move, every artefact was made from the version it is kept
\* for, though that may be overwritten while it is cleaned, and none is left behind
\* unnoticed: it belongs to the row, to the cleaning at work, or to an upload that is
\* about to remove it, or it is one of those that MinIO refused to remove, which the
\* log names and nobody tries to remove again.
NoOrphan ==
    \A f \in Files, v \in Versions :
        objs[f][v] # 0 =>
            /\ objs[f][v] = v
            /\ \/ cleaned[f] = v
               \/ InHand(f, v)
               \/ \E u \in Versions : drop[f][u] = v
               \/ <<f, v>> \in warned

\* The latest version of a file does not stay waiting or in work: in the end it
\* is cleaned or said to have failed.
CleaningSettles ==
    \A f \in Files :
        []<>(status[f] \notin {"pending", "cleaning"} \/ version[f] = 0)
=============================================================================
