------------------------------ MODULE WikiChain ------------------------------
(***************************************************************************)
(* From a change of the technical material library to the wiki that        *)
(* mirrors it: cleaning, deep parsing and wiki builds share the material   *)
(* queue and its single worker; the last job of a batch asks for a build,  *)
(* and a pending mark in Redis remembers the changes a running build may   *)
(* have missed.                                                            *)
(*   services/material_wiki_auto.py, material_wiki_jobs.py,                *)
(*   workers/redis_worker.py, material_worker.py                           *)
(***************************************************************************)
EXTENDS Naturals, Sequences, SequencesExt

CONSTANTS
    Words,        \* Word files: each upload queues a cleaning
    Plains,       \* uploads without a cleaning
    Trees,        \* deletions, moves and renamings
    Deep,         \* the files whose preview needs a deep parse
    Faults,       \* kinds of faults that may happen
    MaxFaults

Items == Words \cup Plains \cup Trees

\* What is assumed of the constants.
ChainConstants ==
    /\ Deep \subseteq Words \cup Plains /\ IsFiniteSet(Deep)
    /\ MaxFaults \in Nat

NoItem == "no item"
Job    == [kind : {"clean", "deep"}, item : Items]
          \cup {[kind |-> "wiki", item |-> NoItem]}
Clean(i)    == [kind |-> "clean", item |-> i]
DeepParse(i) == [kind |-> "deep", item |-> i]
Wiki        == [kind |-> "wiki", item |-> NoItem]
Changes     == Items \X {"file", "deep"}    \* what a build may find new

ReqPcs  == {"idle", "committed", "mark", "enqueue", "ack", "done"}
WorkPcs == {"idle", "clean", "deep", "build", "building", "cleanHook",
            "deepHook", "mark", "enqueue", "ack", "end", "release", "retry"}

VARIABLES
    lib,          \* the changes of the library so far
    wiki,         \* those the wiki shows
    snap,         \* those the index on disk holds, which builds read
    lost,         \* those that were in a build that failed
    req, rtok,    \* the API's requests, with the token each has set
    pending, next,      \* the pending mark's token (0: none), the next token
    queue, wikiLock,    \* the material queue; the lock of the wiki job
    wpc, job, back, wtok, built,    \* the worker
    claims,       \* the files that have used their deep-parse refresh
    faults

requests == <<req, rtok>>
mark     == <<pending, next>>
redis    == <<queue, wikiLock, claims>>
worker   == <<wpc, job, back, wtok, built>>
vars     == <<lib, wiki, snap, lost, requests, mark, redis, worker, faults>>

Init ==
    /\ lib = {} /\ wiki = {} /\ snap = {} /\ lost = {}
    /\ req = [i \in Items |-> "idle"]
    /\ rtok = [i \in Items |-> 0]
    /\ pending = 0 /\ next = 1
    /\ queue = <<>> /\ wikiLock = FALSE
    /\ wpc = "idle" /\ job = Wiki /\ back = "idle" /\ wtok = 0 /\ built = FALSE
    /\ claims = {}
    /\ faults = 0

Fault(kind) == kind \in Faults /\ faults < MaxFaults /\ faults' = faults + 1

\* find_active_jobs_of_type: the registered job and the queues
InHand(kind)      == wpc \notin {"idle", "release", "retry"} /\ back # "idle"
                     /\ job.kind = kind
Queued(kind)      == \E k \in DOMAIN queue : queue[k].kind = kind
Cleaning          == Queued("clean") \/ InHand("clean")

\* _set_pending: a token of one's own
SetPending == pending' = next /\ next' = next + 1

\* enqueue_material_wiki_generation: one build at a time, queued or running
PushWiki ==
    /\ ~ wikiLock
    /\ wikiLock' = TRUE
    /\ queue' = Append(queue, Wiki)
    /\ UNCHANGED claims

\* Slip: the mark is deleted, whoever set it.
AckAny(token) == pending' = 0 /\ UNCHANGED next

\* Slip: the mark is counted down.
AckDown(token) == pending' = pending - 1 /\ UNCHANGED next

\* _ack_pending: compare and delete
Ack(token) ==
    /\ pending' = IF token # 0 /\ pending = token THEN 0 ELSE pending
    /\ UNCHANGED next
-----------------------------------------------------------------------------
(* Requests to the API.                                                    *)

Req(i, from, to) == req[i] = from /\ req' = [req EXCEPT ![i] = to]

\* A Word file becomes a change when its cleaning has ended.
Commit(i) ==
    /\ Req(i, "idle", IF i \in Trees THEN "mark" ELSE "committed")
    /\ lib' = IF i \in Words THEN lib ELSE lib \cup {<<i, "file">>}
    /\ UNCHANGED <<wiki, snap, lost, rtok, mark, redis, worker, faults>>

\* The upload's hook leaves the refresh to the cleaning it has queued.
UploadWord(i) ==
    /\ i \in Words
    /\ Req(i, "committed", "done")
    /\ queue' = Append(queue, Clean(i))
    /\ UNCHANGED <<lib, wiki, snap, lost, rtok, mark, wikiLock, claims, worker, faults>>

\* Without one, it leaves it to whatever cleaning is active.
UploadPlain(i) ==
    /\ i \in Plains
    /\ Req(i, "committed", IF Cleaning THEN "done" ELSE "mark")
    /\ UNCHANGED <<lib, wiki, snap, lost, rtok, mark, redis, worker, faults>>

ReqMark(i) ==
    /\ Req(i, "mark", "enqueue")
    /\ SetPending
    /\ rtok' = [rtok EXCEPT ![i] = next]
    /\ UNCHANGED <<lib, wiki, snap, lost, redis, worker, faults>>

\* A build that is queued or running is reused, and the mark kept.
ReqEnqueue(i) ==
    /\ \/ Req(i, "enqueue", "ack") /\ PushWiki
       \/ Req(i, "enqueue", "done") /\ wikiLock /\ UNCHANGED redis
    /\ UNCHANGED <<lib, wiki, snap, lost, rtok, mark, worker, faults>>

ReqAck(i) ==
    /\ Req(i, "ack", "done")
    /\ Ack(rtok[i])
    /\ UNCHANGED <<lib, wiki, snap, lost, rtok, redis, worker, faults>>
-----------------------------------------------------------------------------
(* The worker.                                                             *)

Work(from, to) == wpc = from /\ wpc' = to

Dequeue ==
    /\ wpc = "idle"
    /\ queue # <<>>
    /\ job' = Head(queue)
    /\ queue' = Tail(queue)
    /\ wpc' = CASE job'.kind = "clean" -> "clean"
                [] job'.kind = "deep"  -> "deep"
                [] OTHER               -> "build"
    /\ back' = "end" /\ built' = FALSE
    /\ UNCHANGED <<lib, wiki, snap, lost, requests, mark, wikiLock, claims, wtok,
                   faults>>

\* clean_material_file returns, with whatever outcome.
CleanEnds ==
    /\ Work("clean", "cleanHook")
    /\ lib' = lib \cup {<<job.item, "file">>}
    /\ UNCHANGED <<wiki, snap, lost, requests, mark, redis, job, back, wtok, built, faults>>

\* An exception, such as the driver's timeout: the hook is passed over.
CleanRaises ==
    /\ Fault("raise")
    /\ Work("clean", "end")
    /\ UNCHANGED <<lib, wiki, snap, lost, requests, mark, redis, job, back, wtok, built>>

\* Slip: the last one of a batch does not count itself out.
LastCleanNever == ~ Cleaning

\* on_material_cleaning_job_finished: only the last one of the queue goes on
LastClean == ~ Queued("clean")

CleanHook ==
    /\ Work("cleanHook", IF LastClean THEN "mark" ELSE "end")
    /\ UNCHANGED <<lib, wiki, snap, lost, requests, mark, redis, job, back, wtok,
                   built, faults>>

\* The parse succeeds, or has failed so that the next refresh queues it again.
DeepEnds ==
    /\ Work("deep", "deepHook")
    /\ \/ lib' = lib \cup {<<job.item, "deep">>} /\ UNCHANGED faults
       \/ UNCHANGED lib /\ Fault("parse")
    /\ UNCHANGED <<wiki, snap, lost, requests, mark, redis, job, back, wtok, built>>

\* on_material_deep_parse_job_finished: the last one, if it may still claim
DeepHook ==
    /\ LET goOn == ~ Queued("deep") /\ ~ Queued("clean")
       IN  /\ Work("deepHook", IF goOn /\ job.item \notin claims THEN "mark" ELSE "end")
           /\ claims' = IF goOn THEN claims \cup {job.item} ELSE claims
    /\ UNCHANGED <<lib, wiki, snap, lost, requests, mark, queue, wikiLock, job, back,
                   wtok, built, faults>>

\* Slip: the index is emptied and filled anew.
BuildStartEmpty ==
    /\ Work("build", "building")
    /\ snap' \in {{}, lib}
    /\ UNCHANGED <<lib, wiki, lost, requests, mark, redis, job, back, wtok,
                   built, faults>>

\* The index is rebuilt from the library first; files without their deep parse
\* get a job, unless they have one.
BuildStart ==
    /\ Work("build", "building")
    /\ snap' = lib
    /\ LET due == {i \in Deep : /\ <<i, "file">> \in lib
                                /\ <<i, "deep">> \notin lib
                                /\ ~ Contains(queue, DeepParse(i))}
       IN  queue' = queue \o SetToSeq({DeepParse(i) : i \in due})
    /\ UNCHANGED <<lib, wiki, lost, requests, mark, wikiLock, claims, job, back, wtok,
                   built, faults>>

\* Rebuilding the index fails: the one on disk has to do.
BuildStartOld ==
    /\ Fault("index")
    /\ Work("build", "building")
    /\ UNCHANGED <<lib, wiki, snap, lost, requests, mark, redis, job, back, wtok, built>>

BuildEnds ==
    /\ Work("building", "end")
    /\ wiki' = snap
    /\ built' = TRUE
    /\ UNCHANGED <<lib, snap, lost, requests, mark, redis, job, back, wtok, faults>>

\* An exception ends the job without a look at the pending mark.
BuildFails ==
    /\ Fault("build")
    /\ Work("building", "end")
    /\ lost' = lost \cup snap
    /\ UNCHANGED <<lib, wiki, snap, requests, mark, redis, job, back, wtok, built>>

WorkMark ==
    /\ Work("mark", "enqueue")
    /\ SetPending
    /\ wtok' = next
    /\ UNCHANGED <<lib, wiki, snap, lost, requests, redis, job, back, built, faults>>

WorkEnqueue ==
    /\ \/ Work("enqueue", "ack") /\ PushWiki
       \/ Work("enqueue", back) /\ wikiLock /\ UNCHANGED redis
    /\ UNCHANGED <<lib, wiki, snap, lost, requests, mark, job, back, wtok, built, faults>>

WorkAck ==
    /\ Work("ack", back)
    /\ Ack(wtok)
    /\ UNCHANGED <<lib, wiki, snap, lost, requests, redis, job, back, wtok, built, faults>>

\* finally: the job leaves the registry, then its lock is given back.
EndJob ==
    /\ Work("end", "release")
    /\ back' = "idle"
    /\ UNCHANGED <<lib, wiki, snap, lost, requests, mark, redis, job, wtok, built, faults>>

Release ==
    /\ Work("release", IF job.kind = "wiki" /\ built THEN "retry" ELSE "idle")
    /\ wikiLock' = (wikiLock /\ job.kind # "wiki")
    /\ UNCHANGED <<lib, wiki, snap, lost, requests, mark, queue, claims, job, back, wtok,
                   built, faults>>

\* retry_pending_technical_wiki_auto_refresh, after a build
MayRetry == pending # 0 /\ ~ Queued("clean")

Retry ==
    /\ Work("retry", IF MayRetry THEN "enqueue" ELSE "idle")
    /\ wtok' = pending
    /\ UNCHANGED <<lib, wiki, snap, lost, requests, mark, redis, job, back, built, faults>>

\* ... and whenever the queue has been empty for a while
IdleRetry ==
    /\ Work("idle", "enqueue")
    /\ queue = <<>> /\ MayRetry
    /\ wtok' = pending
    /\ UNCHANGED <<lib, wiki, snap, lost, requests, mark, redis, job, back, built, faults>>

\* The worker is killed: the job it had in hand is delivered again.
Crash ==
    /\ Fault("crash")
    /\ wpc # "idle"
    /\ wpc' = "idle" /\ back' = "idle"
    /\ queue' = IF back = "idle" THEN queue ELSE <<job>> \o queue
    /\ UNCHANGED <<lib, wiki, snap, lost, requests, mark, wikiLock, claims, job, wtok,
                   built>>

\* The lock of a build that ended without giving it back runs out.
Expire ==
    /\ wikiLock /\ ~ Queued("wiki") /\ ~ InHand("wiki") /\ wpc # "release"
    /\ wikiLock' = FALSE
    /\ UNCHANGED <<lib, wiki, snap, lost, requests, mark, queue, claims, worker, faults>>
-----------------------------------------------------------------------------

Request(i) ==
    \/ UploadWord(i) \/ UploadPlain(i)
    \/ ReqMark(i) \/ ReqEnqueue(i) \/ ReqAck(i)

WorkerStep ==
    \/ Dequeue \/ CleanEnds \/ CleanRaises \/ CleanHook
    \/ DeepEnds \/ DeepHook \/ BuildStart \/ BuildStartOld \/ BuildEnds \/ BuildFails
    \/ WorkMark \/ WorkEnqueue \/ WorkAck
    \/ EndJob \/ Release \/ Retry \/ IdleRetry

Next ==
    \/ \E i \in Items : Commit(i) \/ Request(i)
    \/ WorkerStep \/ Crash \/ Expire

Spec == Init /\ [][Next]_vars

\* A request that was accepted runs to its end, the worker's loop goes on, and
\* locks run out.
FairSpec ==
    /\ Spec
    /\ \A i \in Items : WF_vars(Request(i))
    /\ WF_vars(WorkerStep)
    /\ WF_vars(Expire)
-----------------------------------------------------------------------------
(* Properties.                                                             *)

TypeOK ==
    /\ lib \subseteq Changes /\ wiki \subseteq Changes /\ snap \subseteq Changes
    /\ lost \subseteq Changes
    /\ req \in [Items -> ReqPcs]
    /\ rtok \in [Items -> Nat]
    /\ pending \in Nat /\ next \in Nat \ {0}
    /\ queue \in Seq(Job)
    /\ wikiLock \in BOOLEAN
    /\ wpc \in WorkPcs /\ job \in Job /\ back \in {"idle", "end"}
    /\ wtok \in Nat /\ built \in BOOLEAN
    /\ claims \subseteq Items
    /\ faults \in 0..MaxFaults

Mirror == INSTANCE LibraryMirror WITH Changes <- Changes, lib <- lib, wiki <- wiki

\* With all its faults the chain is a mirror of the library (LibraryMirror): a
\* build started earlier, or delivered again, never takes back what the wiki shows.
MirrorImplemented == Mirror!Spec

\* A build that will look at the library again is on its way.
BuildComing == Queued("wiki") \/ (InHand("wiki") /\ wpc = "build")

\* A change of the library that the wiki does not show is never forgotten, but by
\* a build that fails: a build that will find it is queued or at work, it is
\* marked as pending, or a request or hook that still has to mark it is under way.
ChangeTracked ==
    \A c \in lib \ (wiki \cup lost) :
        \/ BuildComing
        \/ wpc = "building" /\ c \in snap
        \/ pending # 0
        \/ c[2] = "file" /\ req[c[1]] \in {"committed", "mark"}
        \/ Queued("clean") \/ (InHand("clean") /\ wpc = "clean")
        \/ wpc \in {"cleanHook", "deepHook", "mark"}
        \/ c[2] = "deep" /\ (Queued("deep") \/ (InHand("deep") /\ wpc = "deep"))

\* The wiki catches up with the library again and again: neither takes a change
\* back, so every change of a file, of the tree, and the result of every deep
\* parse is shown in the end.
ChangeShown == []<>(lib \subseteq wiki \cup lost)
=============================================================================
