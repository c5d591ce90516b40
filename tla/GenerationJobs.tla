--------------------------- MODULE GenerationJobs ---------------------------
(***************************************************************************)
(* The two generations of a technical project, the directory and the body: *)
(* the requests that submit them to the queue, the worker that runs them   *)
(* one at a time, the body's recovery from runs without progress, and the  *)
(* edits of the outline between them.                                      *)
(*   services/bid_directory_flow.py, bid_generation_flow.py,               *)
(*   bid_outline_state.py, bid_fill_generation_state.py, job_queue.py,     *)
(*   workers/redis_worker.py                                               *)
(* The API is one event loop: a handler is interrupted by the worker, and  *)
(* by other handlers only where it awaits.  Redis is up.                   *)
(***************************************************************************)
EXTENDS Naturals, FiniteSets, Sequences

CONSTANTS
    Runs, Regenerations,    \* requests for a directory, the latter anew
    Fills,                  \* requests for the body
    Marks,                  \* percentages a directory job reports
    MaxEdits,               \* edits of the outline
    Faults,                 \* kinds of faults that may happen, each once
    MaxFaults

\* What is assumed of the constants.
GenerationConstants ==
    /\ Runs \cap Regenerations = {}
    /\ (Runs \cup Regenerations) \cap Fills = {}
    /\ (Runs \cup Regenerations \cup Fills) \cap {"poll", "editor", "nobody"} = {}
    /\ Marks \subseteq 3..99
    /\ MaxEdits \in Nat /\ MaxFaults \in Nat

Requests == Runs \cup Regenerations \cup Fills
Poll     == "poll"        \* the request that reads the body's status
Editor   == "editor"      \* the request that saves or confirms the outline
Nobody   == "nobody"
Handlers == Requests \cup {Poll, Editor}
Kinds    == {"directory", "fill"}
KindOf(r) == IF r \in Fills THEN "fill" ELSE "directory"

Statuses == {"idle", "running", "completed", "failed"}
Pcs      == {"idle", "stale", "forced", "checked", "locked", "stated", "done"}
WorkPcs  == {"idle", "taken", "work", "save", "end", "release", "down"}

VARIABLES
    dir,        \* directory_state: status and percentage
    outline,    \* outline_state: regenerations, version, confirmed
    fill,       \* fill_state: status, and a sign of life within the hour
    doc,        \* the regeneration the document was assembled from, if any
    lock, queue,        \* the lock of each kind of job, and the queue
    api, pc,            \* the handler on the event loop; where each one is
    wpc, job, copy,     \* the worker, its job and what it has read
    edits, faults

row    == <<dir, outline, fill, doc>>
redis  == <<lock, queue>>
worker == <<wpc, job, copy>>
vars   == <<row, redis, api, pc, worker, edits, faults>>

NoOutline == [gen |-> 0, ver |-> 0, confirmed |-> FALSE]
Unread    == [outline |-> NoOutline, fill |-> [status |-> "idle", fresh |-> TRUE]]

\* A project without a directory, and one with its body assembled.
Init ==
    /\ \/ /\ dir = [status |-> "idle", pct |-> 0]
          /\ outline = NoOutline
          /\ fill = [status |-> "idle", fresh |-> TRUE] /\ doc = {}
       \/ /\ dir = [status |-> "completed", pct |-> 100]
          /\ outline = [gen |-> 0, ver |-> 1, confirmed |-> TRUE]
          /\ fill = [status |-> "completed", fresh |-> TRUE] /\ doc = {0}
    /\ lock = [k \in Kinds |-> Nobody] /\ queue = <<>>
    /\ api = Nobody /\ pc = [h \in Handlers |-> "idle"]
    /\ wpc = "idle" /\ job = Nobody /\ copy = Unread
    /\ edits = 0 /\ faults = {}

Fault(kind) ==
    /\ kind \in Faults \ faults
    /\ Cardinality(faults) < MaxFaults
    /\ faults' = faults \cup {kind}

\* A handler gets the event loop, goes on with it, and gives it back.
Enter(h, from, to) ==
    /\ api = Nobody /\ api' = h
    /\ pc[h] = from /\ pc' = [pc EXCEPT ![h] = to]

Step(h, from, to) ==
    /\ api = h /\ pc[h] = from
    /\ pc' = [pc EXCEPT ![h] = to]
    /\ UNCHANGED api

Leave(h, from, to) ==
    /\ api = h /\ api' = Nobody
    /\ pc[h] = from /\ pc' = [pc EXCEPT ![h] = to]

Answer(h) ==     \* a request that only reads
    /\ api = Nobody /\ pc[h] = "idle"
    /\ pc' = [pc EXCEPT ![h] = "done"]
    /\ UNCHANGED api

Delivered(r) == job = r \/ \E k \in DOMAIN queue : queue[k] = r

\* Somebody works on a job of this kind, or is on the way to submit one.
Backed(kind) ==
    \E r \in Requests :
        /\ KindOf(r) = kind
        /\ Delivered(r) \/ pc[r] \notin {"idle", "done"}
-----------------------------------------------------------------------------
(* Submitting a directory: run_generation, regenerate_outline.             *)

\* _directory_state_with_active_lock shows a locked project as running.
DirectoryShownRunning == dir.status = "running" \/ lock["directory"] # Nobody

AskDirectory(r) ==
    /\ r \in Runs \cup Regenerations
    /\ \/ DirectoryShownRunning /\ Answer(r)
       \/ ~ DirectoryShownRunning /\ Enter(r, "idle", "checked")
    /\ UNCHANGED <<row, redis, worker, edits, faults>>

\* SET NX; a request that finds the lock taken is told that a job is running.
AcquireDirectory(r) ==
    /\ r \in Runs \cup Regenerations
    /\ \/ /\ lock["directory"] = Nobody
          /\ Step(r, "checked", "locked")
          /\ lock' = [lock EXCEPT !["directory"] = r]
       \/ /\ lock["directory"] # Nobody
          /\ Leave(r, "checked", "done")
          /\ UNCHANGED lock
    /\ UNCHANGED <<row, queue, worker, edits, faults>>

\* on_lock_acquired: start_directory_generation
StartDirectory(r) ==
    /\ r \in Runs \cup Regenerations
    /\ Step(r, "locked", "stated")
    /\ dir' = [status |-> "running", pct |-> 2]
    /\ UNCHANGED <<outline, fill, doc, redis, worker, edits, faults>>

\* It raises: the lock is given back.
StartRaises(r) ==
    /\ r \in Runs \cup Regenerations
    /\ Fault("store")
    /\ Leave(r, "locked", "done")
    /\ lock' = [lock EXCEPT !["directory"] = IF @ = r THEN Nobody ELSE @]
    /\ UNCHANGED <<row, queue, worker, edits>>

PushDirectory(r) ==
    /\ r \in Runs \cup Regenerations
    /\ Leave(r, "stated", "done")
    /\ queue' = Append(queue, r)
    /\ UNCHANGED <<row, lock, worker, edits, faults>>
-----------------------------------------------------------------------------
(* Submitting the body, and its status: BidGenerationService.run, status.  *)

\* Slip: a running state is never called stale.
NeverStale == FALSE

\* _is_fill_generation_stale: no event, output or assembled item for an hour
Stale == fill.status = "running" /\ ~ fill.fresh

\* An hour passes without one, over a body that nobody works on ...
HourUnattended ==
    /\ fill.status = "running" /\ fill.fresh
    /\ ~ Backed("fill")
    /\ fill' = [fill EXCEPT !.fresh = FALSE]
    /\ UNCHANGED <<dir, outline, doc, redis, api, pc, worker, edits, faults>>

\* ... or over a job that is slow, or waits that long for its turn.
HourSlow ==
    /\ fill.status = "running" /\ fill.fresh
    /\ Backed("fill")
    /\ Fault("slow")
    /\ fill' = [fill EXCEPT !.fresh = FALSE]
    /\ UNCHANGED <<dir, outline, doc, redis, api, pc, worker, edits>>

AskFill(r) ==
    /\ r \in Fills
    /\ \/ Stale /\ Enter(r, "idle", "stale")
       \/ /\ ~ Stale
          /\ IF fill.status = "running" \/ lock["fill"] # Nobody
             THEN Answer(r) ELSE Enter(r, "idle", "checked")
    /\ UNCHANGED <<row, redis, worker, edits, faults>>

AskStatus ==
    /\ Stale
    /\ Enter(Poll, "idle", "stale")
    /\ UNCHANGED <<row, redis, worker, edits, faults>>

\* _recover_stale_fill_generation deletes the lock, whoever holds it, ...
ForceRelease(h) ==
    /\ Step(h, "stale", "forced")
    /\ lock' = [lock EXCEPT !["fill"] = Nobody]
    /\ UNCHANGED <<row, queue, worker, edits, faults>>

\* ... and marks the state failed, whatever it has become.
FailStale(h) ==
    /\ fill' = [fill EXCEPT !.status = "failed"]
    /\ IF h = Poll THEN Leave(Poll, "forced", "idle")
                   ELSE Step(h, "forced", "checked")
    /\ UNCHANGED <<dir, outline, doc, redis, worker, edits, faults>>

\* start_fill_generation, before the lock; the audit entry is awaited.
StartFill(r) ==
    /\ r \in Fills
    /\ Leave(r, "checked", "stated")
    /\ fill' = [status |-> "running", fresh |-> TRUE]
    /\ UNCHANGED <<dir, outline, doc, redis, worker, edits, faults>>

\* _schedule_fill_generation_job: a request that comes second ends silently.
AcquireFill(r) ==
    /\ r \in Fills
    /\ api = Nobody /\ pc[r] = "stated"
    /\ IF lock["fill"] = Nobody
       THEN /\ Enter(r, "stated", "locked")
            /\ lock' = [lock EXCEPT !["fill"] = r]
       ELSE /\ pc' = [pc EXCEPT ![r] = "done"]
            /\ UNCHANGED <<api, lock>>
    /\ UNCHANGED <<row, queue, worker, edits, faults>>

PushFill(r) ==
    /\ r \in Fills
    /\ Leave(r, "locked", "done")
    /\ queue' = Append(queue, r)
    /\ UNCHANGED <<row, lock, worker, edits, faults>>
-----------------------------------------------------------------------------
(* Saving and confirming the outline.                                      *)

\* Slip: only the state is asked, not the lock.
EditableByState == dir.status # "running"

\* ensure_outline_editable
Editable == dir.status # "running" /\ lock["directory"] = Nobody

AskEdit ==
    /\ edits < MaxEdits
    /\ Editable
    /\ Enter(Editor, "idle", "checked")
    /\ UNCHANGED <<row, redis, worker, edits, faults>>

SaveOutline ==
    /\ Leave(Editor, "checked", "idle")
    /\ outline' = [outline EXCEPT !.ver = @ + 1, !.confirmed = FALSE]
    /\ edits' = edits + 1
    /\ UNCHANGED <<dir, fill, doc, redis, worker, faults>>

ConfirmOutline ==
    /\ Leave(Editor, "checked", "idle")
    /\ outline' = [outline EXCEPT !.confirmed = TRUE]
    /\ edits' = edits + 1
    /\ UNCHANGED <<dir, fill, doc, redis, worker, faults>>
-----------------------------------------------------------------------------
(* The worker: redis_worker._run_job around the two jobs.                  *)

Work(from, to) == wpc = from /\ wpc' = to

\* A job that no longer has its lock is not run.
Dequeue ==
    /\ queue # <<>>
    /\ LET r       == Head(queue)
           current == lock[KindOf(r)] = r
       IN  /\ Work("idle", IF current THEN "taken" ELSE "idle")
           /\ job' = IF current THEN r ELSE Nobody
    /\ queue' = Tail(queue)
    /\ UNCHANGED <<row, lock, api, pc, copy, edits, faults>>

BeginDirectory ==
    /\ KindOf(job) = "directory"
    /\ Work("taken", "work")
    /\ UNCHANGED <<row, redis, api, pc, job, copy, edits, faults>>

\* Parallel sessions report in any order: a percentage only grows.
Clamp(old, new) == IF new > old THEN new ELSE old

\* _handle_directory_progress, _update_directory_state
DirectoryProgress(p) ==
    /\ KindOf(job) = "directory"
    /\ Work("work", "work")
    /\ dir' = [dir EXCEPT !.pct = Clamp(@, p)]
    /\ UNCHANGED <<outline, fill, doc, redis, api, pc, job, copy, edits, faults>>

DirectoryFails ==
    /\ KindOf(job) = "directory"
    /\ Fault("generate")
    /\ Work("work", "end")
    /\ dir' = [dir EXCEPT !.status = "failed"]
    /\ UNCHANGED <<outline, fill, doc, redis, api, pc, job, copy, edits>>

\* The whole project is read ...
ReadProject ==
    /\ KindOf(job) = "directory"
    /\ Work("work", "save")
    /\ copy' = [outline |-> outline, fill |-> fill]
    /\ UNCHANGED <<row, redis, api, pc, job, edits, faults>>

\* A new version, a draft
Regenerated(old) ==
    [gen |-> old.gen + IF job \in Regenerations THEN 1 ELSE 0,
     ver |-> old.ver + 1, confirmed |-> FALSE]

\* Slip: what was assembled from the old directory stays.
SaveKeepingDocument ==
    /\ KindOf(job) = "directory"
    /\ Work("save", "end")
    /\ dir' = [status |-> "completed", pct |-> 100]
    /\ outline' = Regenerated(copy.outline)
    /\ fill' = copy.fill
    /\ UNCHANGED <<doc, redis, api, pc, job, copy, edits, faults>>

\* ... and written back whole: save_generated_outline_state.  A regeneration
\* resets what was made from the directory before.
SaveDirectory ==
    /\ KindOf(job) = "directory"
    /\ Work("save", "end")
    /\ dir' = [status |-> "completed", pct |-> 100]
    /\ outline' = Regenerated(copy.outline)
    /\ IF job \in Regenerations
       THEN fill' = [status |-> "idle", fresh |-> TRUE] /\ doc' = {}
       ELSE fill' = copy.fill /\ UNCHANGED doc
    /\ UNCHANGED <<redis, api, pc, job, copy, edits, faults>>

\* The body is assembled from a confirmed outline, read here.
BeginFill ==
    /\ KindOf(job) = "fill"
    /\ outline.confirmed
    /\ Work("taken", "work")
    /\ copy' = [copy EXCEPT !.outline = outline]
    /\ UNCHANGED <<row, redis, api, pc, job, edits, faults>>

FillUnconfirmed ==
    /\ KindOf(job) = "fill"
    /\ ~ outline.confirmed
    /\ Work("taken", "end")
    /\ fill' = [fill EXCEPT !.status = "failed"]
    /\ UNCHANGED <<dir, outline, doc, redis, api, pc, job, copy, edits, faults>>

\* _handle_fill_progress: a sign of life, whatever the status
FillProgress ==
    /\ KindOf(job) = "fill"
    /\ Work("work", "work")
    /\ fill' = [fill EXCEPT !.fresh = TRUE]
    /\ UNCHANGED <<dir, outline, doc, redis, api, pc, job, copy, edits, faults>>

FillFails ==
    /\ KindOf(job) = "fill"
    /\ Fault("generate")
    /\ Work("work", "end")
    /\ fill' = [fill EXCEPT !.status = "failed"]
    /\ UNCHANGED <<dir, outline, doc, redis, api, pc, job, copy, edits>>

\* save_fill_generation_result_state
SaveFill ==
    /\ KindOf(job) = "fill"
    /\ Work("work", "end")
    /\ fill' = [status |-> "completed", fresh |-> TRUE]
    /\ doc' = {copy.outline.gen}
    /\ UNCHANGED <<dir, outline, redis, api, pc, job, copy, edits, faults>>

\* Writing the result fails, and so does marking the state as failed.
Unsaved ==
    /\ Fault("store")
    /\ wpc \in {"work", "save"} /\ wpc' = "end"
    /\ UNCHANGED <<row, redis, api, pc, job, copy, edits>>

\* finally: the job leaves the processing list, then its lock is freed.
EndJob ==
    /\ Work("end", "release")
    /\ UNCHANGED <<row, redis, api, pc, job, copy, edits, faults>>

Release ==
    /\ Work("release", "idle")
    /\ lock' = [lock EXCEPT ![KindOf(job)] = IF @ = job THEN Nobody ELSE @]
    /\ job' = Nobody /\ copy' = Unread
    /\ UNCHANGED <<row, queue, api, pc, edits, faults>>

\* The worker is killed; a job still on the processing list comes back first.
Crash ==
    /\ Fault("crash")
    /\ wpc \notin {"idle", "down"}
    /\ wpc' = "down" /\ copy' = Unread
    /\ job' = IF wpc = "release" THEN Nobody ELSE job
    /\ UNCHANGED <<row, redis, api, pc, edits>>

\* Slip: what was on the processing list is forgotten.
RecoverNothing ==
    /\ Work("down", "idle")
    /\ job' = Nobody
    /\ UNCHANGED <<row, redis, api, pc, copy, edits, faults>>

\* recover_processing_jobs
Recover ==
    /\ Work("down", "idle")
    /\ queue' = IF job # Nobody THEN <<job>> \o queue ELSE queue
    /\ job' = Nobody
    /\ UNCHANGED <<row, lock, api, pc, copy, edits, faults>>
-----------------------------------------------------------------------------

\* The API dies inside a handler, or where one awaits, and is restarted.
ApiDies ==
    /\ Fault("die")
    /\ api' = Nobody
    /\ pc' = [h \in Handlers |->
                 IF h \in {Poll, Editor} \/ pc[h] = "idle" THEN "idle" ELSE "done"]
    /\ UNCHANGED <<row, redis, worker, edits>>

\* A lock runs out that no job and no handler stands behind ...
ExpireLost(k) ==
    /\ lock[k] # Nobody /\ ~ Delivered(lock[k]) /\ pc[lock[k]] = "done"
    /\ lock' = [lock EXCEPT ![k] = Nobody]
    /\ UNCHANGED <<row, queue, api, pc, worker, edits, faults>>

\* ... or one of a job that waits too long, for its turn or for the worker.
ExpireWaiting(k) ==
    /\ Fault("expire")
    /\ lock[k] # Nobody /\ Delivered(lock[k])
    /\ job # lock[k] \/ wpc = "down"
    /\ lock' = [lock EXCEPT ![k] = Nobody]
    /\ UNCHANGED <<row, queue, api, pc, worker, edits>>

Submission(r) ==
    \/ AcquireDirectory(r) \/ StartDirectory(r) \/ PushDirectory(r)
    \/ StartFill(r) \/ AcquireFill(r) \/ PushFill(r)

Handling ==
    \/ \E r \in Requests : Submission(r)
    \/ \E h \in Fills \cup {Poll} : ForceRelease(h) \/ FailStale(h)
    \/ SaveOutline \/ ConfirmOutline

WorkerStep ==
    \/ Dequeue \/ EndJob \/ Release \/ Recover
    \/ BeginDirectory \/ ReadProject \/ SaveDirectory \/ DirectoryFails
    \/ \E p \in Marks : DirectoryProgress(p)
    \/ BeginFill \/ FillUnconfirmed \/ FillProgress \/ SaveFill \/ FillFails
    \/ Unsaved

Next ==
    \/ \E r \in Requests : AskDirectory(r) \/ AskFill(r) \/ StartRaises(r)
    \/ AskStatus \/ AskEdit \/ Handling
    \/ WorkerStep \/ Crash
    \/ HourUnattended \/ HourSlow \/ ApiDies
    \/ \E k \in Kinds : ExpireLost(k) \/ ExpireWaiting(k)

Spec == Init /\ [][Next]_vars

\* Handlers run to their end, the worker's loop goes on and is restarted, time
\* passes, and the page keeps asking for the body's status.
FairSpec ==
    /\ Spec
    /\ WF_vars(Handling) /\ WF_vars(WorkerStep)
    /\ WF_vars(AskStatus) /\ WF_vars(HourUnattended)
-----------------------------------------------------------------------------
(* Properties.                                                             *)

Outlines == [gen : Nat, ver : Nat, confirmed : BOOLEAN]

\* Every variable has its type; an idle worker has no job, and the handler on the
\* event loop is in the middle of a request.
TypeOK ==
    /\ dir \in [status : Statuses, pct : {0, 2, 100} \cup Marks]
    /\ outline \in Outlines
    /\ fill \in [status : Statuses, fresh : BOOLEAN]
    /\ doc \subseteq Nat
    /\ lock \in [Kinds -> Requests \cup {Nobody}] /\ queue \in Seq(Requests)
    /\ api \in Handlers \cup {Nobody} /\ pc \in [Handlers -> Pcs]
    /\ wpc \in WorkPcs /\ job \in Requests \cup {Nobody}
    /\ copy \in [outline : Outlines, fill : [status : Statuses, fresh : BOOLEAN]]
    /\ wpc = "idle" => job = Nobody
    /\ api # Nobody => pc[api] \notin {"idle", "done"}
    /\ edits \in 0..MaxEdits /\ faults \subseteq Faults

\* A directory has no recovery of its own, so a running state must have a job
\* that will end it: however requests, a job that ends and a worker that is
\* killed meet, nobody marks it running after its job has gone.
DirectoryHasJob ==
    (dir.status = "running" /\ faults \cap {"die", "expire", "store"} = {}) =>
        \E r \in Runs \cup Regenerations :
            \/ api = r /\ pc[r] = "stated"
            \/ Delivered(r) /\ lock["directory"] = r
               /\ (job = r => wpc \notin {"end", "release"})

\* A document assembled before the directory was regenerated is never shown
\* after it, in whatever order the two jobs were submitted, run and repeated.
DocumentCurrent == doc \subseteq {outline.gen}

\* While a directory job works, a second time after a crash included, nobody
\* else changes the outline it is going to replace.
OutlineStill ==
    [][ /\ job # Nobody /\ KindOf(job) = "directory"
        /\ wpc \in {"taken", "work", "save"} /\ outline' # outline
        => wpc = "save" /\ wpc' = "end" ]_vars

\* Whatever stops or delays its job, a running body ends, if only by being told
\* that it has made no progress.
FillSettles == []<>(fill.status # "running")
=============================================================================
