--------------------------- MODULE FulltextExtract ---------------------------
(***************************************************************************)
(* The full text of one PDF of the material library: extracted in the      *)
(* background by the material worker, or by the API's own thread when the  *)
(* queue takes no job, kept in MinIO under the PDF's version, referenced   *)
(* by a profile in the PDF's row, and removed when the PDF is overwritten  *)
(* or deleted.                                                             *)
(*   services/material_deep_parse.py, material_fulltext_artifacts.py,      *)
(*   technical_wiki_preview_generation.py, material_upload_operations.py,  *)
(*   material_raw_lifecycle_operations.py                                  *)
(***************************************************************************)
EXTENDS Integers

CONSTANTS
    MaxVersion,     \* uploads of the PDF
    MaxMoves,       \* moves, each to a folder the PDF was not in before
    MaxTries,       \* extractions that are started
    MaxFailures,    \* PDF_EXTRACT_MAX_FAILURES
    MaxFaults

ASSUME ExtractConstants ==
    /\ {MaxVersion, MaxTries, MaxFailures} \subseteq Nat \ {0}
    /\ {MaxMoves, MaxFaults} \subseteq Nat

Versions == 1..MaxVersion
Keys     == 1..(MaxVersion + MaxMoves)   \* source objects, each written once
Runners  == {"worker", "thread"}
DpStatus == {"none", "running", "failed", "parsed"}
RunPcs   == {"idle", "taken", "read", "running", "put", "unsure", "verify",
             "remove", "end"}

VARIABLES
    version, key, status, profile, fails,   \* the row: version, minio_key and
                            \* deepParse...: 0 is no profile, else its sourceKey
    gone,                   \* the row was deleted
    texts,                  \* the versions whose fulltext.md is in MinIO
    purge,                  \* versions an upload or a delete still has to purge
    nextKey, move, moves,   \* the next source key; a move, with what it read
    queued, inflight,       \* the job (and its lock) in Redis; _local_inflight
    pc, ver, src,           \* the runners, with the version and key they read
    tries, faults

row     == <<version, key, status, profile, fails, gone>>
files   == <<purge, nextKey, move, moves>>
jobs    == <<queued, inflight, tries>>
runners == <<pc, ver, src>>
vars    == <<row, files, texts, jobs, runners, faults>>

Init ==
    /\ version = 1 /\ key = 1 /\ status = "none" /\ profile = 0 /\ fails = 0
    /\ gone = FALSE /\ texts = {} /\ purge = {} /\ nextKey = 2
    /\ move = [pc |-> "idle", status |-> "none", profile |-> 0, fails |-> 0]
    /\ moves = 0
    /\ queued = FALSE /\ inflight = FALSE
    /\ pc = [r \in Runners |-> "idle"]
    /\ ver = [r \in Runners |-> 1]
    /\ src = [r \in Runners |-> 1]
    /\ tries = 0 /\ faults = 0

Fault == faults < MaxFaults /\ faults' = faults + 1

Go(r, from, to) == pc[r] = from /\ pc' = [pc EXCEPT ![r] = to]
-----------------------------------------------------------------------------
(* Library operations on the row.                                          *)

\* Fields an overwrite drops: the count of failures is not among them.
UploadCommit ==
    /\ ~ gone /\ version < MaxVersion
    /\ purge' = purge \cup {1..version}
    /\ version' = version + 1
    /\ key' = nextKey /\ nextKey' = nextKey + 1
    /\ status' = "none" /\ profile' = 0
    /\ UNCHANGED <<fails, gone, move, moves, texts, jobs, runners, faults>>

\* The purge names one version, and with it those up to it; a delete all.
Purged(versions) == texts \ versions

Purge ==
    \E versions \in purge :
        /\ purge' = purge \ {versions}
        /\ texts' = Purged(versions)
        /\ UNCHANGED <<row, nextKey, move, moves, jobs, runners, faults>>

\* A move reads the row without a lock ...
MoveRead ==
    /\ move.pc = "idle" /\ ~ gone
    /\ moves < MaxMoves
    /\ moves' = moves + 1
    /\ move' = [pc |-> "read", status |-> status, profile |-> profile,
                fails |-> fails]
    /\ UNCHANGED <<row, nextKey, purge, texts, jobs, runners, faults>>

\* ... and writes the key of its new folder and the whole of ext_fields.
MoveCommit ==
    /\ move.pc = "read"
    /\ move' = [move EXCEPT !.pc = "idle"]
    /\ IF gone
       THEN UNCHANGED <<row, nextKey>>
       ELSE /\ key' = nextKey /\ nextKey' = nextKey + 1
            /\ status' = move.status
            /\ profile' = move.profile
            /\ fails' = move.fails
            /\ UNCHANGED <<version, gone>>
    /\ UNCHANGED <<moves, purge, texts, jobs, runners, faults>>

Delete ==
    /\ ~ gone
    /\ gone' = TRUE
    /\ purge' = purge \cup {Versions}
    /\ UNCHANGED <<version, key, status, profile, fails, nextKey, move,
                   moves, texts, jobs, runners, faults>>
-----------------------------------------------------------------------------
(* The wiki refresh queues an extraction.                                  *)

\* deep_parse_profile_for
Ready   == profile = key
GivenUp == status = "failed" /\ fails >= MaxFailures

\* A status "running" that is 30 minutes old counts as that of a dead worker:
\* an extraction may take longer, so it may be found at any time.
MayQueue ==
    /\ ~ gone /\ ~ Ready /\ ~ GivenUp
    /\ tries < MaxTries
    /\ tries' = tries + 1

QueueJob ==
    /\ MayQueue
    /\ ~ queued
    /\ queued' = TRUE
    /\ UNCHANGED <<row, files, texts, inflight, runners, faults>>

\* Redis takes no job: the thread of this process, once per PDF.
QueueLocal ==
    /\ MayQueue
    /\ Fault
    /\ ~ inflight
    /\ inflight' = TRUE
    /\ UNCHANGED <<row, files, texts, queued, runners>>
-----------------------------------------------------------------------------
(* An extraction: deep_parse_material_file and _run_extract_job.           *)

Take(r) ==
    /\ Go(r, "idle", "taken")
    /\ IF r = "worker" THEN queued ELSE inflight
    /\ UNCHANGED <<row, files, texts, jobs, ver, src, faults>>

ReadRow(r) ==
    /\ Go(r, "taken", IF gone THEN "end" ELSE "read")
    /\ ver' = [ver EXCEPT ![r] = version]
    /\ src' = [src EXCEPT ![r] = key]
    /\ UNCHANGED <<row, files, texts, jobs, faults>>

\* SELECT ... FOR UPDATE, then the expected version and key.
Same(r) == ~ gone /\ version = ver[r] /\ key = src[r]

\* _write_deep_parse_status: refused for another version or key.
WriteStatus(r, to) ==
    IF ~ Same(r)
    THEN UNCHANGED row
    ELSE /\ status' = to
         /\ profile' = IF to = "parsed" THEN src[r] ELSE profile
         /\ fails' = CASE to = "parsed" -> 0
                       [] to = "failed" -> fails + 1
                       [] OTHER -> fails
         /\ UNCHANGED <<version, key, gone>>

MarkRunning(r) ==
    /\ Go(r, "read", IF Same(r) THEN "running" ELSE "end")
    /\ WriteStatus(r, "running")
    /\ UNCHANGED <<files, texts, jobs, ver, src, faults>>

\* The source is gone, it has no pages, or nothing was recognised.
ExtractFails(r) ==
    /\ Go(r, "running", "end")
    /\ WriteStatus(r, "failed")
    /\ UNCHANGED <<files, texts, jobs, ver, src, faults>>

\* Slip: the text is named by the version to come.
PutNextText(r) ==
    /\ Go(r, "running", "put")
    /\ texts' = texts \cup {ver[r] + 1}
    /\ UNCHANGED <<row, files, jobs, ver, src, faults>>

PutText(r) ==
    /\ Go(r, "running", "put")
    /\ texts' = texts \cup {ver[r]}
    /\ UNCHANGED <<row, files, jobs, ver, src, faults>>

Persist(r) ==
    /\ Go(r, "put", IF Same(r) THEN "end" ELSE "verify")
    /\ WriteStatus(r, "parsed")
    /\ UNCHANGED <<files, texts, jobs, ver, src, faults>>

\* The write raises, whether or not the database committed it.
PersistRaises(r) ==
    /\ Fault
    /\ Go(r, "put", "unsure")
    /\ WriteStatus(r, "parsed") \/ UNCHANGED row
    /\ UNCHANGED <<files, texts, jobs, ver, src>>

\* except: the failure is written down, unless that raises too.
PersistFailed(r) ==
    /\ Go(r, "unsure", "verify")
    /\ \/ WriteStatus(r, "failed") /\ UNCHANGED faults
       \/ UNCHANGED row /\ Fault
    /\ UNCHANGED <<files, texts, jobs, ver, src>>

\* Slip: only a deleted row makes a text stale.
StaleWhenGone(r) == gone

\* Slip: whatever no profile names is removed.
StaleWhenUnreferenced(r) == gone \/ version # ver[r] \/ profile # src[r]

\* _fulltext_reference_state = "stale": the row is deleted or has moved on.
Stale(r) == gone \/ version # ver[r]

Verify(r) ==
    /\ Go(r, "verify", IF Stale(r) THEN "remove" ELSE "end")
    /\ UNCHANGED <<row, files, texts, jobs, ver, src, faults>>

\* The check itself fails: the object is kept.
VerifyUnknown(r) ==
    /\ Fault
    /\ Go(r, "verify", "end")
    /\ UNCHANGED <<row, files, texts, jobs, ver, src>>

Remove(r) ==
    /\ Go(r, "remove", "end")
    /\ texts' = texts \ {ver[r]}
    /\ UNCHANGED <<row, files, jobs, ver, src, faults>>

End(r) ==
    /\ Go(r, "end", "idle")
    /\ queued' = (queued /\ r # "worker")
    /\ inflight' = (inflight /\ r # "thread")
    /\ UNCHANGED <<row, files, texts, tries, ver, src, faults>>

\* The worker's job is delivered again; the thread's is lost with its process.
Crash(r) ==
    /\ Fault
    /\ pc[r] # "idle"
    /\ pc' = [pc EXCEPT ![r] = "idle"]
    /\ inflight' = (inflight /\ r # "thread")
    /\ UNCHANGED <<row, files, texts, queued, tries, ver, src>>
-----------------------------------------------------------------------------

Extract(r) ==
    \/ Take(r) \/ ReadRow(r) \/ MarkRunning(r) \/ ExtractFails(r)
    \/ PutText(r) \/ Persist(r) \/ PersistRaises(r) \/ PersistFailed(r)
    \/ Verify(r) \/ VerifyUnknown(r) \/ Remove(r) \/ End(r)

Next ==
    \/ UploadCommit \/ Purge \/ MoveRead \/ MoveCommit \/ Delete
    \/ QueueJob \/ QueueLocal
    \/ \E r \in Runners : Extract(r) \/ Crash(r)

Spec == Init /\ [][Next]_vars
-----------------------------------------------------------------------------
(* Properties.                                                             *)

TypeOK ==
    /\ version \in Versions /\ key \in Keys
    /\ status \in DpStatus /\ profile \in 0..(MaxVersion + MaxMoves)
    /\ fails \in Nat
    /\ gone \in BOOLEAN
    /\ texts \subseteq Versions
    /\ purge \subseteq SUBSET Versions
    /\ nextKey \in Nat /\ moves \in 0..MaxMoves
    /\ move \in [pc : {"idle", "read"}, status : DpStatus,
                 profile : 0..(MaxVersion + MaxMoves), fails : Nat]
    /\ queued \in BOOLEAN /\ inflight \in BOOLEAN
    /\ pc \in [Runners -> RunPcs]
    /\ ver \in [Runners -> Versions]
    /\ src \in [Runners -> Keys]
    /\ tries \in 0..MaxTries /\ faults \in 0..MaxFaults

\* A profile a reader is served (pdf_fulltext_for_raw_file) has its text in MinIO,
\* however many extractions of the PDF end, fail or are cleaned up late.
ServedTextExists == ~ gone /\ Ready => version \in texts

Busy(r, v) ==
    ver[r] = v /\ pc[r] \in {"put", "unsure", "verify", "remove"}

\* Until something crashes or a check fails, the text of an old version, or of a
\* deleted PDF, has somebody who will still remove it.
OldTextsRemoved ==
    faults = 0 =>
        \A v \in texts :
            gone \/ v < version =>
                \/ \E versions \in purge : v \in versions
                \/ \E r \in Runners : Busy(r, v)
=============================================================================
