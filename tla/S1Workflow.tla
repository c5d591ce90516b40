----------------------------- MODULE S1Workflow -----------------------------
(***************************************************************************)
(* The S1 tender-parsing workflow: an API request enqueues an s1_parse job *)
(* under the project's lock; the main worker turns it into a Docling batch *)
(* (when there are PDFs) or straight into a continuation; the Docling      *)
(* worker hands the continuation back; the main worker finishes the parse. *)
(* Jobs live in Redis lists and survive a worker's crash in its processing *)
(* list.  One global lock admits one workflow at a time.                   *)
(*   services/job_queue.py, workers/redis_worker.py,                       *)
(*   workers/docling_worker.py, services/docling_jobs.py,                  *)
(*   services/bid_parse_service.py                                         *)
(***************************************************************************)
EXTENDS Naturals, Sequences, SequencesExt

CONSTANTS
    Projects,
    Runs,          \* submissions; a run's id is its s1_parse job's id
    ProjectOf,     \* the project a run parses
    PdfRuns,       \* runs whose tender files include a PDF
    NoRun,         \* no lock owner, no runId, no stored result
    MaxCancels,    \* bound on users' cancels
    Faults,        \* which faults may happen
    MaxFaults,     \* bound on how often
    MaxExpiries    \* bound on locks that run out under a waiting run

ASSUME S1Constants ==
    /\ ProjectOf \in [Runs -> Projects]
    /\ PdfRuns \subseteq Runs
    /\ NoRun \notin Runs
    /\ Runs \cap Projects = {} /\ (Runs \cup Projects) \cap {"main", "docling"} = {}
    /\ Faults \subseteq {"main", "docling", "api", "push", "handoff",
                          "handback", "clear"}
    /\ MaxFaults \in Nat /\ MaxExpiries \in Nat /\ MaxCancels \in Nat

Workers  == {"main", "docling"}            \* each also names its queue
Kinds    == {"parse", "docling", "continue"}
Readers  == Runs \cup Projects \cup Workers
JobIds   == Kinds \X Runs
Jobs     == [kind : Kinds, run : Runs, err : BOOLEAN]
Ended    == {"succeeded", "failed", "cancelled"}
Statuses == Ended \cup {"absent", "queued", "running", "waiting_docling",
                        "running_docling", "waiting_continuation", "retrying"}
ParseEnded == {"completed", "failed", "cancelled"}
Progress == [status : ParseEnded \cup {"idle", "queued", "running"},
             run : Runs \cup {NoRun}, cancel : BOOLEAN]
ReqPcs   == {"new", "checked", "reset", "locked", "pushed", "binding",
             "done", "refused"}
Pcs      == {"boot", "idle", "got", "claim",
             "parse", "started", "handoff",
             "continue", "executing", "persisted", "returned",
             "batch", "parsed", "handed",
             "ending", "releasing"}

VARIABLES
    genLock,   \* bid:lock:s1_parse:<project>
    wfLock,    \* bid:lock:s1_parse:workflow
    queue,     \* bid:jobs and bid:jobs:docling
    proc,      \* their :processing lists
    status,    \* bid:job:<id>, "absent" when the hash does not exist
    inflight,  \* bid:jobs:inflight
    cancelKey, \* bid:job:cancel:<id>
    progress,  \* a project's parse_progress
    result,    \* the run that wrote a project's parse_result
    req,       \* the position of each submitting request
    copy,      \* the parse_progress that a request, a user's cancel (named by
               \* its project) or a worker has read and will write back
    pc, job, fin,  \* a worker's position, its job, how the job will end
    faults, expiries, cancels

redis == <<genLock, wfLock, queue, proc, status, inflight, cancelKey>>
db    == <<progress, result>>
api   == <<req, copy>>
wk    == <<pc, job, fin>>
bounds == <<faults, expiries, cancels>>
vars  == <<redis, db, api, wk, bounds>>

Fault(k) ==
    /\ k \in Faults
    /\ faults < MaxFaults
    /\ faults' = faults + 1

P(r)  == ProjectOf[r]
Members(s) == {s[i] : i \in 1..Len(s)}
Id(j) == <<j.kind, j.run>>
Job(k, r, e) == [kind |-> k, run |-> r, err |-> e]
NoJob == [kind |-> "none", run |-> NoRun, err |-> FALSE]
NoEnd == [release |-> FALSE, raise |-> FALSE]
Idle0 == [status |-> "idle", run |-> NoRun, cancel |-> FALSE]

Quiet ==
    /\ genLock = [p \in Projects |-> NoRun]
    /\ wfLock = NoRun
    /\ queue = [q \in Workers |-> <<>>]
    /\ proc = [q \in Workers |-> <<>>]
    /\ status = [i \in JobIds |-> "absent"]
    /\ inflight = {}
    /\ cancelKey = {}
    /\ progress = [p \in Projects |-> Idle0]
    /\ result = [p \in Projects |-> NoRun]
    /\ req = [r \in Runs |-> "new"]
    /\ copy = [x \in Readers |-> Idle0]
    /\ pc = [w \in Workers |-> "boot"]
    /\ job = [w \in Workers |-> NoJob]
    /\ fin = [w \in Workers |-> NoEnd]

Init ==
    /\ Quiet
    /\ faults = 0
    /\ expiries = 0
    /\ cancels = 0

-----------------------------------------------------------------------------
(* The submitting request.                                                 *)

ReqGo(r, from, to) == req[r] = from /\ req' = [req EXCEPT ![r] = to]

\* is_generation_locked: only a first look, uploads are saved after it.
CheckLock(r) ==
    /\ ReqGo(r, "new", IF genLock[P(r)] = NoRun THEN "checked" ELSE "refused")
    /\ UNCHANGED <<redis, db, copy, wk, bounds>>

\* _mark_parse_queued: a fresh progress, without runId or cancel request.
ResetProgress(r) ==
    /\ ReqGo(r, "checked", "reset")
    /\ progress' = [progress EXCEPT ![P(r)] =
           [status |-> "queued", run |-> NoRun, cancel |-> FALSE]]
    /\ UNCHANGED <<redis, result, copy, wk, bounds>>

\* SET lock NX EX, or 409.
TakeLock(r) ==
    /\ \/ /\ genLock[P(r)] = NoRun
          /\ ReqGo(r, "reset", "locked")
          /\ genLock' = [genLock EXCEPT ![P(r)] = r]
       \/ /\ genLock[P(r)] # NoRun
          /\ ReqGo(r, "reset", "refused")
          /\ UNCHANGED genLock
    /\ UNCHANGED <<wfLock, queue, proc, status, inflight, cancelKey, db, copy,
                   wk, bounds>>

AddParse(r) ==
    /\ queue' = [queue EXCEPT !["main"] = Append(@, Job("parse", r, FALSE))]
    /\ status' = [status EXCEPT ![<<"parse", r>>] = "queued"]

PushJob(r) ==
    /\ ReqGo(r, "locked", "pushed")
    /\ AddParse(r)
    /\ UNCHANGED <<genLock, wfLock, proc, inflight, cancelKey, db, copy, wk,
                   bounds>>

\* The pipeline reports an error: the lock is given back and the parse failed,
\* whether or not Redis had applied it.
PushFails(r) ==
    /\ ReqGo(r, "locked", "refused")
    /\ Fault("push")
    /\ AddParse(r) \/ UNCHANGED <<queue, status>>
    /\ genLock' = [genLock EXCEPT ![P(r)] = IF @ = r THEN NoRun ELSE @]
    /\ progress' = [progress EXCEPT ![P(r)].status = "failed"]
    /\ UNCHANGED <<wfLock, proc, inflight, cancelKey, result, copy, wk,
                   expiries, cancels>>

\* bind_parse_run reads the progress, then writes it back with its runId; the
\* job has been in the queue since PushJob.
BindRead(r) ==
    /\ ReqGo(r, "pushed", "binding")
    /\ copy' = [copy EXCEPT ![r] = progress[P(r)]]
    /\ UNCHANGED <<redis, db, wk, bounds>>

BindWrite(r) ==
    /\ ReqGo(r, "binding", "done")
    /\ progress' = [progress EXCEPT ![P(r)] = [copy[r] EXCEPT !.run = r]]
    /\ copy' = [copy EXCEPT ![r] = Idle0]
    /\ UNCHANGED <<redis, result, wk, bounds>>

\* The API process dies with the lock taken, before or after the push.
ApiCrash(r) ==
    /\ req[r] \in {"locked", "pushed", "binding"}
    /\ Fault("api")
    /\ req' = [req EXCEPT ![r] = "refused"]
    /\ copy' = [copy EXCEPT ![r] = Idle0]
    /\ UNCHANGED <<redis, db, wk, expiries, cancels>>

AskCancel(p) == cancelKey' = cancelKey \cup ({progress[p].run} \ {NoRun})
Cancelled(g) == [g EXCEPT !.status = "cancelled", !.cancel = TRUE]

\* A user's cancel_parse, whatever the status: set the cancel key of the bound
\* run, ask Opencode over HTTP to abort its session, and only then write back
\* the progress that was read before.
CancelRead(p) ==
    /\ cancels < MaxCancels /\ cancels' = cancels + 1
    /\ progress[p] # Idle0 /\ copy[p] = Idle0
    /\ AskCancel(p)
    /\ copy' = [copy EXCEPT ![p] = progress[p]]
    /\ UNCHANGED <<genLock, wfLock, queue, proc, status, inflight, db, req, wk,
                   faults, expiries>>

CancelWrite(p) ==
    /\ copy[p] # Idle0
    /\ progress' = [progress EXCEPT ![p] = Cancelled(copy[p])]
    /\ copy' = [copy EXCEPT ![p] = Idle0]
    /\ UNCHANGED <<redis, result, req, wk, bounds>>

\* The worker's own cancel_parse, when it meets a cancel request.
CancelledProgress(p) ==
    /\ AskCancel(p)
    /\ progress' = [progress EXCEPT ![p] = Cancelled(@)]

-----------------------------------------------------------------------------
(* What both workers do.                                                   *)

Go(w, from, to) == pc[w] = from /\ pc' = [pc EXCEPT ![w] = to]

\* Slip: what was being processed is not put back.
RecoverNothing(w) ==
    /\ Go(w, "boot", "idle")
    /\ UNCHANGED <<redis, db, api, job, fin, bounds>>

\* recover_processing_jobs puts the processing list back in front of the queue,
\* in order, and forgets that its jobs were in flight.
Recover(w) ==
    /\ Go(w, "boot", "idle")
    /\ queue' = [queue EXCEPT ![w] = proc[w] \o @]
    /\ proc' = [proc EXCEPT ![w] = <<>>]
    /\ LET back == {Id(j) : j \in Members(proc[w])} IN
           /\ inflight' = inflight \ back
           /\ status' = [i \in JobIds |->
                  IF i \in back THEN "queued" ELSE status[i]]
    /\ UNCHANGED <<genLock, wfLock, cancelKey, db, api, job, fin, bounds>>

\* Slip: a plain pop, without the processing list.
DequeuePop(w) ==
    /\ queue[w] # <<>>
    /\ Go(w, "idle", "got")
    /\ job' = [job EXCEPT ![w] = Head(queue[w])]
    /\ queue' = [queue EXCEPT ![w] = Tail(@)]
    /\ UNCHANGED <<genLock, wfLock, proc, status, inflight, cancelKey, db, api,
                   fin, bounds>>

\* BLMOVE queue -> processing
Dequeue(w) ==
    /\ queue[w] # <<>>
    /\ Go(w, "idle", "got")
    /\ job' = [job EXCEPT ![w] = Head(queue[w])]
    /\ queue' = [queue EXCEPT ![w] = Tail(@)]
    /\ proc' = [proc EXCEPT ![w] = Append(@, Head(queue[w]))]
    /\ UNCHANGED <<genLock, wfLock, status, inflight, cancelKey, db, api, fin,
                   bounds>>

\* Slip: a job starts whoever holds its project's lock.
BeginAny(w) ==
    LET j == job[w] IN
    /\ Go(w, "got", "claim")
    /\ status' = [status EXCEPT ![Id(j)] = "running"]
    /\ inflight' = inflight \cup {Id(j)}
    /\ UNCHANGED <<genLock, wfLock, queue, proc, cancelKey, db, api, job, fin,
                   bounds>>

\* The job is marked running and in flight, and the parent's lock is renewed.
Begin(w) ==
    LET j == job[w] IN
    /\ Go(w, "got", "claim")
    /\ genLock[P(j.run)] = j.run
    /\ status' = [status EXCEPT ![Id(j)] = "running"]
    /\ inflight' = inflight \cup {Id(j)}
    /\ UNCHANGED <<genLock, wfLock, queue, proc, cancelKey, db, api, job, fin,
                   bounds>>

\* How a job ends: whether both locks are given back, and whether the worker
\* goes on through an exception (and so through recovery).
Finish(w, release, raise) ==
    /\ pc' = [pc EXCEPT ![w] = "ending"]
    /\ fin' = [fin EXCEPT ![w] = [release |-> release, raise |-> raise]]

\* Back to the loop, through recovery after an exception.
Leave(w, to) ==
    /\ pc' = [pc EXCEPT ![w] = to]
    /\ job' = [job EXCEPT ![w] = NoJob]
    /\ fin' = [fin EXCEPT ![w] = NoEnd]

Loop(w) == IF fin[w].raise THEN "boot" ELSE "idle"

\* clear_job_inflight; a Redis error here is only logged.
EndJob(w) ==
    /\ pc[w] = "ending"
    /\ \/ /\ inflight' = inflight \ {Id(job[w])}
          /\ proc' = [proc EXCEPT ![w] = RemoveFirst(@, job[w])]
          /\ UNCHANGED faults
       \/ /\ Fault("clear")
          /\ UNCHANGED <<inflight, proc>>
    /\ IF fin[w].release
       THEN pc' = [pc EXCEPT ![w] = "releasing"] /\ UNCHANGED <<job, fin>>
       ELSE Leave(w, Loop(w))
    /\ UNCHANGED <<genLock, wfLock, queue, status, cancelKey, db, api,
                   expiries, cancels>>

\* Slip: DEL without comparing the value.
AnyOwner(lock, r) == TRUE

OwnedBy(lock, r) == lock = r

\* release_generation_lock and release_s1_workflow_lock delete a lock only
\* while its value is the run's id.
ReleaseLocks(w) ==
    LET r == job[w].run
        free(l) == IF OwnedBy(l, r) THEN NoRun ELSE l
    IN
    /\ pc[w] = "releasing"
    /\ Leave(w, Loop(w))
    /\ genLock' = [genLock EXCEPT ![P(r)] = free(@)]
    /\ wfLock' = free(wfLock)
    /\ UNCHANGED <<queue, proc, status, inflight, cancelKey, db, api, bounds>>

\* The process dies, or Redis cannot say who holds a lock: the job stays in the
\* processing list and the restarted worker recovers it.
Crash(w) ==
    /\ pc[w] # "boot"
    /\ Fault(w)
    /\ Leave(w, "boot")
    /\ copy' = [copy EXCEPT ![w] = Idle0]
    /\ UNCHANGED <<redis, db, req, expiries, cancels>>

QueueOf(k) == IF k = "docling" THEN "docling" ELSE "main"

\* enqueue_internal_job: one script, nothing when the job hash exists.  A
\* continuation also moves its parent's status.  st is what the caller writes
\* to the other job hashes.
AddInternal(st, k, r, e) ==
    IF status[<<k, r>>] = "absent"
    THEN /\ queue' = [queue EXCEPT ![QueueOf(k)] = Append(@, Job(k, r, e))]
         /\ status' = [st EXCEPT
                ![<<k, r>>] = "queued",
                ![<<"parse", r>>] =
                    IF k = "continue" THEN "waiting_continuation" ELSE @]
    ELSE UNCHANGED queue /\ status' = st

-----------------------------------------------------------------------------
(* The main worker.                                                        *)

JobStatusOf(s) == IF s \in {"failed", "cancelled"} THEN s ELSE "succeeded"

IsCurrent(r) == progress[P(r)].run \in {NoRun, r}

HasEnded(r) == progress[P(r)].run = r /\ progress[P(r)].status \in ParseEnded

SetBoth(j, s) ==
    status' = [status EXCEPT ![Id(j)] = s, ![<<"parse", j.run>>] = s]

\* A lock was lost while the job waited.  _finish_expired_s1_job settles the
\* job and its parent by the progress, which it fails when still open; a job
\* of a replaced run is just cancelled.
LostLock ==
    LET j == job["main"]
        r == j.run
    IN
    /\ \/ pc["main"] = "got" /\ genLock[P(r)] # r
       \/ pc["main"] = "claim" /\ j.kind = "continue" /\ wfLock \notin {NoRun, r}
    /\ \/ /\ ~ IsCurrent(r)
          /\ status' = [status EXCEPT ![Id(j)] = "cancelled"]
          /\ UNCHANGED progress
       \/ /\ IsCurrent(r) /\ HasEnded(r)
          /\ SetBoth(j, JobStatusOf(progress[P(r)].status))
          /\ UNCHANGED progress
       \/ /\ IsCurrent(r) /\ ~ HasEnded(r)
          /\ SetBoth(j, "failed")
          /\ progress' = [progress EXCEPT ![P(r)].status = "failed"]
    /\ inflight' = inflight \cup {Id(j)}
    /\ Finish("main", TRUE, FALSE)
    /\ UNCHANGED <<genLock, wfLock, queue, proc, cancelKey, result, api, job,
                   bounds>>

\* Slip: SET without NX.
ClaimSlotBlind(w) ==
    LET j == job[w]
        to == [parse |-> "parse", continue |-> "continue", docling |-> "batch"]
    IN
    /\ pc[w] = "claim"
    /\ pc' = [pc EXCEPT ![w] = to[j.kind]]
    /\ wfLock' = j.run
    /\ status' = IF w = "docling"
                 THEN [status EXCEPT ![<<"parse", j.run>>] = "running_docling"]
                 ELSE status
    /\ UNCHANGED <<genLock, queue, proc, inflight, cancelKey, db, api, job, fin,
                   bounds>>

\* claim_s1_workflow_lock: take the slot or keep it.
ClaimSlot(w) ==
    LET j == job[w]
        to == [parse |-> "parse", continue |-> "continue", docling |-> "batch"]
    IN
    /\ pc[w] = "claim"
    /\ wfLock \in {NoRun, j.run}
    /\ pc' = [pc EXCEPT ![w] = to[j.kind]]
    /\ wfLock' = j.run
    /\ status' = IF w = "docling"
                 THEN [status EXCEPT ![<<"parse", j.run>>] = "running_docling"]
                 ELSE status
    /\ UNCHANGED <<genLock, queue, proc, inflight, cancelKey, db, api, job, fin,
                   bounds>>

\* Slip: RPUSH without LREM from the processing list.
RequeueCopy ==
    LET j == job["main"] IN
    /\ pc["main"] = "claim"
    /\ j.kind = "parse" /\ wfLock \notin {NoRun, j.run}
    /\ Leave("main", "idle")
    /\ queue' = [queue EXCEPT !["main"] = Append(@, j)]
    /\ inflight' = inflight \ {Id(j)}
    /\ status' = [status EXCEPT ![Id(j)] = "queued"]
    /\ UNCHANGED <<genLock, wfLock, proc, cancelKey, db, api, bounds>>

\* Another workflow is running: the parse job goes to the queue's tail.
Requeue ==
    LET j == job["main"] IN
    /\ pc["main"] = "claim"
    /\ j.kind = "parse" /\ wfLock \notin {NoRun, j.run}
    /\ Leave("main", "idle")
    /\ proc' = [proc EXCEPT !["main"] = RemoveFirst(@, j)]
    /\ queue' = [queue EXCEPT !["main"] = Append(@, j)]
    /\ inflight' = inflight \ {Id(j)}
    /\ status' = [status EXCEPT ![Id(j)] = "queued"]
    /\ UNCHANGED <<genLock, wfLock, cancelKey, db, api, bounds>>

\* s1_parse: check that the run is current and read the progress ...
StartParse ==
    LET j == job["main"] IN
    /\ pc["main"] = "parse"
    /\ \/ /\ IsCurrent(j.run)
          /\ pc' = [pc EXCEPT !["main"] = "started"]
          /\ copy' = [copy EXCEPT !["main"] = progress[P(j.run)]]
          /\ UNCHANGED <<status, fin>>
       \/ /\ ~ IsCurrent(j.run)
          /\ status' = [status EXCEPT ![Id(j)] = "cancelled"]
          /\ Finish("main", TRUE, FALSE)
          /\ UNCHANGED copy
    /\ UNCHANGED <<genLock, wfLock, queue, proc, inflight, cancelKey, db, req,
                   job, bounds>>

\* ... and write it back as running.  It never looks at cancelRequested.
WriteStarted ==
    LET r == job["main"].run IN
    /\ Go("main", "started", "handoff")
    /\ progress' = [progress EXCEPT ![P(r)] =
           [copy["main"] EXCEPT !.status = "running"]]
    /\ copy' = [copy EXCEPT !["main"] = Idle0]
    /\ status' = [status EXCEPT ![<<"parse", r>>] = "waiting_docling"]
    /\ UNCHANGED <<genLock, wfLock, queue, proc, inflight, cancelKey, result,
                   req, job, fin, bounds>>

\* enqueue_docling_batch; the run's locks stay.
NextStage(r) == IF r \in PdfRuns THEN "docling" ELSE "continue"

\* Slip: the hand-off releases the locks like any other end.
HandOffReleases ==
    LET r == job["main"].run IN
    /\ pc["main"] = "handoff"
    /\ AddInternal(status, NextStage(r), r, FALSE)
    /\ Finish("main", TRUE, FALSE)
    /\ UNCHANGED <<genLock, wfLock, proc, inflight, cancelKey, db, api, job,
                   bounds>>

HandOff ==
    LET r == job["main"].run IN
    /\ pc["main"] = "handoff"
    /\ AddInternal(status, NextStage(r), r, FALSE)
    /\ Finish("main", FALSE, FALSE)
    /\ UNCHANGED <<genLock, wfLock, proc, inflight, cancelKey, db, api, job,
                   bounds>>

\* enqueue_internal_job reports a Redis error, whether or not the script was
\* applied.
AddInternalFails(st, k, r, e) ==
    \/ UNCHANGED queue /\ status' = st
    \/ /\ status[<<k, r>>] = "absent"
       /\ queue' = [queue EXCEPT ![QueueOf(k)] = Append(@, Job(k, r, e))]
       /\ status' = [st EXCEPT ![<<k, r>>] = "queued"]

\* The parse is failed and both locks are given back.
HandOffFails ==
    LET r == job["main"].run IN
    /\ pc["main"] = "handoff"
    /\ Fault("handoff")
    /\ AddInternalFails([status EXCEPT ![<<"parse", r>>] = "failed"],
                        NextStage(r), r, FALSE)
    /\ progress' = [progress EXCEPT ![P(r)].status = "failed"]
    /\ Finish("main", TRUE, TRUE)
    /\ UNCHANGED <<genLock, wfLock, proc, inflight, cancelKey, result, api, job,
                   expiries, cancels>>

\* s1_parse_continue: copy an outcome the run already has, report a Docling
\* error, or enter execute_s1_parse_job, which looks for a cancellation first.
Continue ==
    LET j == job["main"]
        r == j.run
        g == progress[P(r)]
    IN
    /\ pc["main"] = "continue"
    /\ \/ /\ HasEnded(r)
          /\ SetBoth(j, JobStatusOf(g.status))
          /\ Finish("main", TRUE, FALSE)
          /\ UNCHANGED <<progress, cancelKey>>
       \/ /\ ~ HasEnded(r) /\ j.err
          /\ progress' = [progress EXCEPT ![P(r)].status = "failed"]
          /\ SetBoth(j, "failed")
          /\ Finish("main", TRUE, TRUE)
          /\ UNCHANGED cancelKey
       \/ /\ ~ HasEnded(r) /\ ~ j.err
          /\ \/ /\ g.cancel
                /\ CancelledProgress(P(r))
                /\ pc' = [pc EXCEPT !["main"] = "returned"]
             \/ /\ ~ g.cancel /\ ~ IsCurrent(r)
                /\ pc' = [pc EXCEPT !["main"] = "returned"]
                /\ UNCHANGED <<progress, cancelKey>>
             \/ /\ ~ g.cancel /\ IsCurrent(r)
                /\ progress' = [progress EXCEPT ![P(r)].status = "running"]
                /\ pc' = [pc EXCEPT !["main"] = "executing"]
                /\ UNCHANGED cancelKey
          /\ UNCHANGED <<status, fin>>
    /\ UNCHANGED <<genLock, wfLock, queue, proc, inflight, result, api, job,
                   bounds>>

\* The documents are parsed; unless cancelled meanwhile, the result is stored.
Persist ==
    LET p == P(job["main"].run) IN
    /\ pc["main"] = "executing"
    /\ \/ /\ progress[p].cancel
          /\ CancelledProgress(p)
          /\ pc' = [pc EXCEPT !["main"] = "returned"]
          /\ UNCHANGED result
       \/ /\ ~ progress[p].cancel
          /\ result' = [result EXCEPT ![p] = job["main"].run]
          /\ pc' = [pc EXCEPT !["main"] = "persisted"]
          /\ UNCHANGED <<progress, cancelKey>>
    /\ UNCHANGED <<genLock, wfLock, queue, proc, status, inflight, api, job, fin,
                   bounds>>

Complete ==
    /\ Go("main", "persisted", "returned")
    /\ progress' = [progress EXCEPT ![P(job["main"].run)].status = "completed"]
    /\ UNCHANGED <<redis, result, api, job, fin, bounds>>

\* A retryable error: wait, then report "running" and try again.
Retry ==
    LET p == P(job["main"].run) IN
    /\ pc["main"] = "executing"
    /\ progress[p].status # "running"
    /\ progress' = [progress EXCEPT ![p].status = "running"]
    /\ UNCHANGED <<redis, result, api, wk, bounds>>

\* A final error while parsing or post-processing, unless it was a cancel.
ParseFails ==
    LET j == job["main"]
        p == P(j.run)
    IN
    /\ pc["main"] \in {"executing", "persisted"}
    /\ \/ /\ progress[p].cancel
          /\ CancelledProgress(p)
          /\ pc' = [pc EXCEPT !["main"] = "returned"]
          /\ UNCHANGED <<status, fin>>
       \/ /\ ~ progress[p].cancel
          /\ progress' = [progress EXCEPT ![p].status = "failed"]
          /\ SetBoth(j, "failed")
          /\ Finish("main", TRUE, TRUE)
          /\ UNCHANGED cancelKey
    /\ UNCHANGED <<genLock, wfLock, queue, proc, inflight, result, api, job,
                   bounds>>

\* The outcome is whatever the project's progress says by now.
MapOutcome ==
    LET j == job["main"] IN
    /\ pc["main"] = "returned"
    /\ SetBoth(j, JobStatusOf(progress[P(j.run)].status))
    /\ Finish("main", TRUE, FALSE)
    /\ UNCHANGED <<genLock, wfLock, queue, proc, inflight, cancelKey, db, api,
                   job, bounds>>

\* reclaim_stale_inflight_jobs, run between jobs: an entry older than the lock
\* TTL is failed with its parent and its locks are given back.  Only entries
\* whose clearing failed are ever that old here.
Reclaim(j) ==
    LET r == j.run IN
    /\ pc["main"] = "idle"
    /\ Id(j) \in inflight /\ j.kind # "docling"
    /\ j \in Members(proc["main"])
    /\ SetBoth(j, "failed")
    /\ genLock' = [genLock EXCEPT ![P(r)] = IF OwnedBy(@, r) THEN NoRun ELSE @]
    /\ wfLock' = IF OwnedBy(wfLock, r) THEN NoRun ELSE wfLock
    /\ inflight' = inflight \ {Id(j)}
    /\ proc' = [proc EXCEPT !["main"] = RemoveFirst(@, j)]
    /\ UNCHANGED <<queue, cancelKey, db, api, wk, bounds>>

-----------------------------------------------------------------------------
(* The Docling worker.                                                     *)

\* The parent's project lock or the workflow slot is gone.
NoProject(r) == pc["docling"] = "got" /\ genLock[P(r)] # r
NoSlot(r) == pc["docling"] = "claim" /\ wfLock \notin {NoRun, r}

\* Report it through a failing continuation.
BatchLostLock ==
    LET j == job["docling"]
        r == j.run
    IN
    /\ NoProject(r) \/ NoSlot(r)
    /\ AddInternal([status EXCEPT ![Id(j)] = "failed"], "continue", r, TRUE)
    /\ inflight' = inflight \cup {Id(j)}
    /\ Finish("docling", NoProject(r), FALSE)
    /\ UNCHANGED <<genLock, wfLock, proc, cancelKey, db, api, job, bounds>>

\* execute_docling_batch looks for the cancel key before each PDF and at the
\* end; a PDF that cannot be parsed becomes the continuation's error.
ParsePdfs ==
    LET j == job["docling"] IN
    /\ pc["docling"] = "batch"
    /\ \/ /\ j.run \in cancelKey
          /\ SetBoth(j, "cancelled")
          /\ Finish("docling", TRUE, FALSE)
          /\ UNCHANGED job
       \/ /\ j.run \notin cancelKey
          /\ pc' = [pc EXCEPT !["docling"] = "parsed"]
          /\ \E e \in BOOLEAN : job' = [job EXCEPT !["docling"].err = e]
          /\ UNCHANGED <<status, fin>>
    /\ UNCHANGED <<genLock, wfLock, queue, proc, inflight, cancelKey, db, api,
                   bounds>>

HandBack ==
    LET j == job["docling"] IN
    /\ Go("docling", "parsed", "handed")
    /\ AddInternal(status, "continue", j.run, j.err)
    /\ UNCHANGED <<genLock, wfLock, proc, inflight, cancelKey, db, api, job, fin,
                   bounds>>

\* The continuation is not accepted: the parent waits and the container exits,
\* so that its restart recovers the batch.
HandBackFails ==
    LET j == job["docling"] IN
    /\ pc["docling"] = "parsed"
    /\ Fault("handback")
    /\ AddInternalFails(
           [status EXCEPT ![Id(j)] = "retrying",
                          ![<<"parse", j.run>>] = "waiting_docling"],
           "continue", j.run, j.err)
    /\ Leave("docling", "boot")
    /\ UNCHANGED <<genLock, wfLock, proc, inflight, cancelKey, db, api,
                   expiries, cancels>>

\* Nor is the report of a lost lock, applied or not: the container exits too.
BatchReportFails ==
    LET j == job["docling"]
        st == [status EXCEPT ![Id(j)] = "running"]
    IN
    /\ NoProject(j.run) \/ NoSlot(j.run)
    /\ Fault("handback")
    /\ \/ AddInternal(st, "continue", j.run, TRUE)
       \/ UNCHANGED queue /\ status' = st
    /\ inflight' = inflight \cup {Id(j)}
    /\ Leave("docling", "boot")
    /\ UNCHANGED <<genLock, wfLock, proc, cancelKey, db, api, expiries, cancels>>

CloseBatch ==
    LET j == job["docling"] IN
    /\ pc["docling"] = "handed"
    /\ status' = [status EXCEPT ![Id(j)] =
           IF j.err THEN "failed" ELSE "succeeded"]
    /\ job' = [job EXCEPT !["docling"].err = FALSE]
    /\ Finish("docling", FALSE, FALSE)
    /\ UNCHANGED <<genLock, wfLock, queue, proc, inflight, cancelKey, db, api,
                   bounds>>

-----------------------------------------------------------------------------
(* Lock expiry.                                                            *)

\* A worker renews both locks of its job's run while it works on it.
Renewing(w, r) ==
    pc[w] \notin {"boot", "idle", "got", "releasing"} /\ job[w].run = r

\* The heartbeat's claim, and the one after a hand-off, take a free slot again,
\* whoever freed it.
Beat(w) ==
    LET r == job[w].run IN
    /\ Renewing(w, r) /\ pc[w] # "claim"
    /\ pc[w] = "ending" => w = "main" /\ ~ fin[w].release
    /\ wfLock = NoRun
    /\ wfLock' = r
    /\ UNCHANGED <<genLock, queue, proc, status, inflight, cancelKey, db, api,
                   wk, bounds>>

HasJob(r) ==
    \E q \in Workers : \E j \in Members(queue[q]) \cup Members(proc[q]) : j.run = r

\* Nobody is left to release or renew the run's locks: its jobs are neither
\* queued nor being worked on nor about to be recovered.
Leaked(r) ==
    /\ req[r] # "locked"
    /\ \A w \in Workers :
           /\ job[w].run # r
           /\ \A j \in Members(queue[w]) : j.run # r
           /\ pc[w] = "boot" => \A j \in Members(proc[w]) : j.run # r

\* A TTL runs out: of a leaked lock in the end, or of the lock of a run that
\* waited too long, which the model allows MaxExpiries times.
Expire(r) ==
    /\ \/ Leaked(r) /\ UNCHANGED expiries
       \/ /\ ~ Leaked(r)
          /\ \A w \in Workers : ~ Renewing(w, r)
          /\ expiries < MaxExpiries /\ expiries' = expiries + 1
    /\ \/ /\ genLock[P(r)] = r
          /\ genLock' = [genLock EXCEPT ![P(r)] = NoRun]
          /\ UNCHANGED wfLock
       \/ /\ wfLock = r
          /\ wfLock' = NoRun
          /\ UNCHANGED genLock
    /\ UNCHANGED <<queue, proc, status, inflight, cancelKey, db, api, wk, faults,
                   cancels>>

ExpireLeaked(r) == Leaked(r) /\ Expire(r)

-----------------------------------------------------------------------------

Request(r) ==
    \/ CheckLock(r) \/ ResetProgress(r) \/ TakeLock(r) \/ PushJob(r)
    \/ BindRead(r) \/ BindWrite(r)

Common(w) ==
    \/ Recover(w) \/ Dequeue(w) \/ Begin(w) \/ ClaimSlot(w)
    \/ EndJob(w) \/ ReleaseLocks(w)

MainStep ==
    \/ Common("main") \/ LostLock \/ Requeue \/ StartParse \/ WriteStarted
    \/ HandOff \/ Continue \/ Persist \/ Complete \/ ParseFails \/ MapOutcome

DoclingStep ==
    \/ Common("docling") \/ BatchLostLock \/ ParsePdfs \/ HandBack \/ CloseBatch

Next ==
    \/ \E r \in Runs : Request(r) \/ PushFails(r) \/ ApiCrash(r)
    \/ \E p \in Projects : CancelRead(p) \/ CancelWrite(p)
    \/ MainStep \/ Retry \/ HandOffFails
    \/ \E j \in Jobs : Reclaim(j)
    \/ DoclingStep \/ HandBackFails \/ BatchReportFails
    \/ \E w \in Workers : Crash(w) \/ Beat(w)
    \/ \E r \in Runs : Expire(r)

Spec == Init /\ [][Next]_vars

\* Requests finish, both containers restart and keep taking jobs, a long call
\* ends, and a leaked lock's TTL runs out.
Fairness ==
    /\ \A r \in Runs : WF_vars(Request(r)) /\ WF_vars(ExpireLeaked(r))
    /\ WF_vars(MainStep) /\ WF_vars(DoclingStep)

FairSpec == Spec /\ Fairness
-----------------------------------------------------------------------------
(* Properties.                                                             *)

TypeOK ==
    /\ genLock \in [Projects -> Runs \cup {NoRun}]
    /\ wfLock \in Runs \cup {NoRun}
    /\ queue \in [Workers -> Seq(Jobs)]
    /\ proc \in [Workers -> Seq(Jobs)]
    /\ status \in [JobIds -> Statuses]
    /\ inflight \subseteq JobIds
    /\ cancelKey \subseteq Runs
    /\ progress \in [Projects -> Progress]
    /\ result \in [Projects -> Runs \cup {NoRun}]
    /\ req \in [Runs -> ReqPcs]
    /\ copy \in [Readers -> Progress]
    /\ pc \in [Workers -> Pcs]
    /\ job \in [Workers -> Jobs \cup {NoJob}]
    /\ fin \in [Workers -> [release : BOOLEAN, raise : BOOLEAN]]
    /\ faults \in Nat /\ expiries \in Nat /\ cancels \in Nat

\* A job is in one place: queued once or being processed once, never both,
\* through hand-offs, requeues, crashes and recoveries.
JobsOnce ==
    \A q \in Workers :
        LET s == queue[q] \o proc[q] IN
        \A i, k \in 1..Len(s) : Id(s[i]) = Id(s[k]) => i = k

Working(w) == pc[w] \in {"started", "handoff", "executing", "persisted",
                         "returned", "batch", "parsed"}

Live(r) == status[<<"continue", r>>] \notin Ended

\* The global slot holds: the two workers never work for two different open
\* runs.  (A batch delivered again after its continuation has ended may still
\* be running; so may a continuation whose batch, delivered again, met a cancel
\* request and gave the slot back.)
OneWorkflow ==
    Working("main") /\ Working("docling") =>
        \/ job["main"].run = job["docling"].run
        \/ ~ Live(job["docling"].run)
        \/ job["main"].run \in cancelKey

\* A run that has been queued and not ended still has a job somewhere: no
\* hand-off, crash or recovery loses it.  (A batch that is cancelled ends its run,
\* which a parse job delivered again may report as waiting once more.)
RunAccounted ==
    \A r \in Runs :
        \/ status[<<"parse", r>>] \in Ended \cup {"absent"}
        \/ status[<<"docling", r>>] = "cancelled"
        \/ status[<<"continue", r>>] \in Ended
        \/ HasJob(r)

\* While an open run has a job and its lock has not run out, the project's lock
\* is its own, unless a cancel was asked for: hand-offs between workers keep it,
\* nobody else gets it.
LockHeld ==
    expiries = 0 =>
        \A r \in Runs :
            HasJob(r) /\ Live(r) => genLock[P(r)] = r \/ r \in cancelKey

\* A lock is taken from a run only by a worker ending that run's job, by the
\* reclaim of a stale in-flight entry of that run, by its request, or by its
\* TTL: a late job of an older run of the project cannot free its successor's
\* lock.
OwnLock ==
    [][\A r \in Runs :
          \/ genLock[P(r)] = r /\ genLock'[P(r)] # r
          \/ wfLock = r /\ wfLock' # r
          => \/ \E w \in Workers : pc[w] = "releasing" /\ job[w].run = r
             \/ \E i \in inflight \ inflight' : i[2] = r
             \/ req'[r] # req[r]
             \/ Leaked(r) \/ expiries' # expiries]_vars

\* A parse result is stored only by the run that holds both the project's lock
\* and the workflow slot, whatever expired while its jobs were waiting.  (When a
\* cancel is asked for, a batch delivered again may give both back before the
\* main worker sees the request.)
ResultUnderLocks ==
    [][\A p \in Projects :
          result'[p] # result[p] =>
              \/ genLock[p] = result'[p] /\ wfLock = result'[p]
              \/ result'[p] \in cancelKey]_vars

\* Once a run has been cancelled its progress stays cancelled, until a new
\* submission resets it.
CancelledStays ==
    [][\A p \in Projects :
          progress[p].status = "cancelled" /\ progress'[p].cancel
          => progress'[p].status = "cancelled"]_vars

Settled(r) ==
    status[<<"parse", r>>] \in Ended \/ status[<<"continue", r>>] \in Ended

\* Where a run stands: a job of it is left, or none is, any more or yet.
PhaseOf(r) ==
    IF HasJob(r) THEN "open"
    ELSE IF status[<<"parse", r>>] = "absent" THEN "new" ELSE "over"

Life == INSTANCE ParseRuns WITH
    Reports <- Statuses,
    phase   <- [r \in Runs |-> PhaseOf(r)],
    report  <- [r \in Runs |-> status[<<"parse", r>>]],
    settled <- [r \in Runs |-> Settled(r) \/ status[<<"docling", r>>] = "cancelled"]

\* Seen by their submitters, the runs do no more than ParseRuns: none is lost
\* before it is settled, and no job delivered again, late hand-off or expired lock
\* reopens one that is over, changes its status or lets it store a result.
RunsImplemented == Life!RunsSpec

\* Every queued run is settled once the crashes stop, while other runs take
\* turns at the slot and whatever the crash or the Redis error interrupted: no
\* run stays queued or at work.
RunEnds ==
    \A r \in Runs : []<>(status[<<"parse", r>>] = "absent" \/ Settled(r))
=============================================================================
