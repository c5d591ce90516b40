------------------------------ MODULE BodyFill ------------------------------
(***************************************************************************)
(* Filling the open tasks of a technical bid in one go: the requests that  *)
(* submit the job, the worker that computes fills in a pool of threads and *)
(* merges them one by one, and the requests that meanwhile fill single     *)
(* items and edit the plan.  Every write of the project's row is a checked *)
(* one that is replayed on conflicts (ProjectStore), so it is one step.    *)
(*   services/technical_body_fill_job.py, technical_gap_ai_fill.py,        *)
(*   technical_gap_service.py, workers/redis_worker.py                     *)
(***************************************************************************)
EXTENDS Naturals, FiniteSets, Sequences

CONSTANTS
    Items,
    Tasks,        \* pairs of an item and the number of a task in it
    Scopes,       \* the sets of items a submission may ask for
    Submits,      \* submissions of the whole job
    Singles,      \* requests that fill one task
    Pool,         \* threads that compute at once
    MaxEdits,     \* edits of one item by users
    Faults,       \* kinds of faults that may happen
    MaxFaults

\* What is assumed of the constants.
BodyFillConstants ==
    /\ Tasks \subseteq Items \X Nat
    /\ Scopes \subseteq SUBSET Items
    /\ Pool \in Nat \ {0} /\ MaxEdits \in Nat /\ MaxFaults \in Nat
    /\ IsFiniteSet(Tasks)

ItemOf(t) == t[1]
None      == <<>>         \* no task, no submission
Statuses  == {"idle", "queued", "running", "succeeded", "partial", "failed"}
SubPcs    == {"idle", "checked", "stated", "done"}
WorkPcs   == {"idle", "taken", "running", "count", "recount", "end", "release", "down"}
Phases    == {"none", "wait", "run", "filled", "failed", "collected"}
OnePcs    == {"idle", "checked", "filling", "filled", "free", "done"}

VARIABLES
    filled,     \* the completed tasks of the plan
    edits,      \* how many user edits each item has
    error,      \* each item's fillError: the task that failed last
    fill,       \* bodyFillState
    sub, scope, asked,  \* the submissions, the items and number of targets
    lock, queue,        \* the job's lock and the queue: submissions
    wpc, job, phase, ok,    \* the worker, its batch, the fills that succeeded
    one, what, copy,    \* the single requests, their task and snapshot
    slot,       \* the request that holds each item's AI-fill lock
    faults

plan    == <<filled, edits, error>>
submits == <<sub, scope, asked>>
redis   == <<lock, queue>>
worker  == <<wpc, job, phase, ok>>
singles == <<one, what, copy, slot>>
vars    == <<plan, fill, submits, redis, worker, singles, faults>>

Idle == [status |-> "idle", total |-> 0, done |-> 0]

Init ==
    /\ filled = {}
    /\ edits = [i \in Items |-> 0]
    /\ error = [i \in Items |-> None]
    /\ fill = Idle
    /\ sub = [s \in Submits |-> "idle"]
    /\ scope = [s \in Submits |-> {}] /\ asked = [s \in Submits |-> 0]
    /\ lock = None /\ queue = <<>>
    /\ wpc = "idle" /\ job = None
    /\ phase = [t \in Tasks |-> "none"] /\ ok = 0
    /\ one = [r \in Singles |-> "idle"]
    /\ what = [r \in Singles |-> None]
    /\ copy = [r \in Singles |-> [filled |-> {}, edits |-> 0]]
    /\ slot = [i \in Items |-> None]
    /\ faults = 0

Fault(kind) == kind \in Faults /\ faults < MaxFaults /\ faults' = faults + 1

\* collect_body_fill_targets: the open tasks of the items asked for
Targets(items) == {t \in Tasks \ filled : ItemOf(t) \in items}

Running == fill.status \in {"queued", "running"}

\* Slip: a running state is believed whatever the lock says.
StaleNever == FALSE

\* body_fill_stale: running, but nobody has the job's lock
Stale == Running /\ lock = None

Blocked == Running /\ ~ Stale
-----------------------------------------------------------------------------
(* Submitting: body_fill_all and schedule_body_fill_job.                   *)

Sub(s, from, to) == sub[s] = from /\ sub' = [sub EXCEPT ![s] = to]

SubmitCheck(s) ==
    /\ Sub(s, "idle", "checked")
    /\ ~ Blocked
    /\ \E items \in Scopes :
          /\ Targets(items) # {}
          /\ scope' = [scope EXCEPT ![s] = items]
          /\ asked' = [asked EXCEPT ![s] = Cardinality(Targets(items))]
    /\ UNCHANGED <<plan, fill, redis, worker, singles, faults>>

\* The state is reset before the submission learns whether the job is locked.
SubmitState(s) ==
    /\ Sub(s, "checked", "stated")
    /\ fill' = [status |-> "queued", total |-> asked[s], done |-> 0]
    /\ UNCHANGED <<plan, scope, asked, redis, worker, singles, faults>>

SubmitEnqueue(s) ==
    /\ Sub(s, "stated", "done")
    /\ IF lock = None
       THEN lock' = s /\ queue' = Append(queue, s)
       ELSE UNCHANGED redis
    /\ UNCHANGED <<plan, fill, scope, asked, worker, singles, faults>>
-----------------------------------------------------------------------------
(* The worker: redis_worker._run_job around run_body_fill_job.             *)

Work(from, to) == wpc = from /\ wpc' = to

\* A job whose lock ran out while it waited is not executed.
Dequeue ==
    /\ queue # <<>>
    /\ LET current == lock = Head(queue)
       IN  /\ Work("idle", IF current THEN "taken" ELSE "idle")
           /\ job' = IF current THEN Head(queue) ELSE None
    /\ queue' = Tail(queue)
    /\ UNCHANGED <<plan, fill, submits, lock, phase, ok, singles, faults>>

\* The targets are counted anew; without any the job is done.
Start ==
    /\ LET targets == Targets(scope[job])
       IN  /\ Work("taken", IF targets = {} THEN "end" ELSE "running")
           /\ phase' = [t \in Tasks |-> IF t \in targets THEN "wait" ELSE "none"]
           /\ fill' = [status |-> IF targets = {} THEN "succeeded" ELSE "running",
                       total |-> Cardinality(targets), done |-> 0]
    /\ ok' = 0
    /\ UNCHANGED <<plan, submits, redis, job, singles, faults>>

\* The fact table has no columns of the specification list: the whole batch fails.
StartFails ==
    /\ Fault("facts")
    /\ Work("taken", "end")
    /\ fill' = [fill EXCEPT !.status = "failed"]
    /\ UNCHANGED <<plan, submits, redis, job, phase, ok, singles>>

Batch(p) == {t \in Tasks : phase[t] = p}

\* A thread of the pool takes a task, with a snapshot of its own.
Compute(t) ==
    /\ wpc \in {"running", "count", "recount"}
    /\ phase[t] = "wait"
    /\ Cardinality(Batch("run")) < Pool
    /\ phase' = [phase EXCEPT ![t] = "run"]
    /\ UNCHANGED <<plan, fill, submits, redis, wpc, job, ok, singles, faults>>

Computed(t) ==
    /\ wpc \in {"running", "count", "recount"}
    /\ phase[t] = "run"
    /\ \/ phase' = [phase EXCEPT ![t] = "filled"] /\ UNCHANGED faults
       \/ phase' = [phase EXCEPT ![t] = "failed"] /\ Fault("fill")
    /\ UNCHANGED <<plan, fill, submits, redis, wpc, job, ok, singles>>

\* collect_one on the main thread: apply_technical_ai_fill_result
Collect(t) ==
    /\ Work("running", "count")
    /\ phase[t] = "filled"
    /\ phase' = [phase EXCEPT ![t] = "collected"]
    /\ filled' = filled \cup {t}
    /\ ok' = ok + 1
    /\ UNCHANGED <<edits, error, fill, submits, redis, job, singles, faults>>

\* _record_item_failure
CollectFailure(t) ==
    /\ Work("running", "count")
    /\ phase[t] = "failed"
    /\ phase' = [phase EXCEPT ![t] = "collected"]
    /\ error' = [error EXCEPT ![ItemOf(t)] = t]
    /\ UNCHANGED <<filled, edits, fill, submits, redis, job, ok, singles, faults>>

\* Recording it fails as well, which is passed over.
CollectUnrecorded(t) ==
    /\ Fault("record")
    /\ Work("running", "count")
    /\ phase[t] = "failed"
    /\ phase' = [phase EXCEPT ![t] = "collected"]
    /\ UNCHANGED <<plan, fill, submits, redis, job, ok, singles>>

\* The write-back gives up after its replays: the fill counts as failed.
CollectRefused(t) ==
    /\ Fault("conflict")
    /\ Work("running", "count")
    /\ phase[t] = "filled"
    /\ phase' = [phase EXCEPT ![t] = "collected"]
    /\ error' = [error EXCEPT ![ItemOf(t)] = t]
    /\ UNCHANGED <<filled, edits, fill, submits, redis, job, ok, singles>>

Done == Cardinality(Batch("collected"))
Left == Batch("wait") \cup Batch("run") \cup Batch("filled") \cup Batch("failed")

\* Slip: the last result is not counted before the end.
CountShort ==
    /\ wpc = "count"
    /\ wpc' = IF Cardinality(Left) <= 1 THEN "recount" ELSE "running"
    /\ fill' = [fill EXCEPT !.done = Done]
    /\ UNCHANGED <<plan, submits, redis, job, phase, ok, singles, faults>>

\* finally: the counters are written over whatever state there is.
Count ==
    /\ Work("count", IF Left = {} THEN "recount" ELSE "running")
    /\ fill' = [fill EXCEPT !.done = Done]
    /\ UNCHANGED <<plan, submits, redis, job, phase, ok, singles, faults>>

\* That write gives up: the job ends with its state still running.
CountRaises ==
    /\ Fault("conflict")
    /\ Work("count", "end")
    /\ phase' = [t \in Tasks |-> "none"]
    /\ UNCHANGED <<plan, fill, submits, redis, job, ok, singles>>

Finalize ==
    /\ Work("recount", "end")
    /\ fill' = [fill EXCEPT !.status = IF ok = Done THEN "succeeded" ELSE "partial",
                            !.done = Done]
    /\ UNCHANGED <<plan, submits, redis, job, phase, ok, singles, faults>>

\* finally of _run_job: the job leaves the processing list, then its lock is freed.
EndJob ==
    /\ Work("end", "release")
    /\ phase' = [t \in Tasks |-> "none"]
    /\ UNCHANGED <<plan, fill, submits, redis, job, ok, singles, faults>>

Release ==
    /\ Work("release", "idle")
    /\ lock' = IF lock = job THEN None ELSE lock
    /\ job' = None
    /\ UNCHANGED <<plan, fill, submits, queue, phase, ok, singles, faults>>

\* The worker is killed.  A job that has left the list is not delivered again.
Crash ==
    /\ Fault("crash")
    /\ wpc \notin {"idle", "down"}
    /\ wpc' = "down"
    /\ job' = IF wpc = "release" THEN None ELSE job
    /\ phase' = [t \in Tasks |-> "none"] /\ ok' = 0
    /\ UNCHANGED <<plan, fill, submits, redis, singles>>

\* It comes back and puts the job in front of the queue: recover_processing_jobs.
Recover ==
    /\ Work("down", "idle")
    /\ queue' = IF job # None THEN <<job>> \o queue ELSE queue
    /\ job' = None
    /\ UNCHANGED <<plan, fill, submits, lock, phase, ok, singles, faults>>

\* Nobody renews the lock while the worker is down, or when the job is lost.
Expire ==
    /\ lock # None
    /\ wpc = "down" \/ (lock # job /\ \A k \in DOMAIN queue : queue[k] # lock)
    /\ lock' = None
    /\ UNCHANGED <<plan, fill, submits, queue, worker, singles, faults>>
-----------------------------------------------------------------------------
(* Users: editing items, and filling single tasks (ai_fill).               *)

Edit(i) ==
    /\ edits[i] < MaxEdits
    /\ edits' = [edits EXCEPT ![i] = @ + 1]
    /\ UNCHANGED <<filled, error, fill, submits, redis, worker, singles, faults>>

One(r, from, to) == one[r] = from /\ one' = [one EXCEPT ![r] = to]

\* The snapshot is taken first, and must not show the whole job running.
OneCheck(r) ==
    /\ One(r, "idle", "checked")
    /\ ~ Blocked /\ lock = None
    /\ \E t \in Tasks :
          /\ what' = [what EXCEPT ![r] = t]
          /\ copy' = [copy EXCEPT ![r] =
                 [filled |-> {u \in filled : ItemOf(u) = ItemOf(t)},
                  edits |-> edits[ItemOf(t)]]]
    /\ UNCHANGED <<plan, fill, submits, redis, worker, slot, faults>>

\* SET NX of the item's lock; a second request is refused.
OneSlot(r) ==
    LET i == ItemOf(what[r])
    IN  /\ One(r, "checked", IF slot[i] = None THEN "filling" ELSE "done")
        /\ slot' = IF slot[i] = None THEN [slot EXCEPT ![i] = r] ELSE slot
        /\ UNCHANGED <<plan, fill, submits, redis, worker, what, copy, faults>>

OneFill(r) ==
    /\ \/ One(r, "filling", "filled") /\ UNCHANGED faults
       \/ One(r, "filling", "free") /\ Fault("fill")
    /\ UNCHANGED <<plan, fill, submits, redis, worker, what, copy, slot>>

\* Slip: the item is replaced by the filled copy.
ReplaceItem(r) ==
    LET i == ItemOf(what[r])
    IN  /\ filled' = {t \in filled : ItemOf(t) # i} \cup copy[r].filled
                     \cup {what[r]}
        /\ edits' = [edits EXCEPT ![i] = copy[r].edits]

\* apply_filled_gap_item: only the filled task of the latest item changes.
MergeItem(r) ==
    /\ filled' = filled \cup {what[r]}
    /\ UNCHANGED edits

OneApply(r) ==
    /\ One(r, "filled", "free")
    /\ MergeItem(r)
    /\ UNCHANGED <<error, fill, submits, redis, worker, what, copy, slot, faults>>

OneFree(r) ==
    /\ One(r, "free", "done")
    /\ slot' = [slot EXCEPT ![ItemOf(what[r])] = IF @ = r THEN None ELSE @]
    /\ UNCHANGED <<plan, fill, submits, redis, worker, what, copy, faults>>
-----------------------------------------------------------------------------

Submit(s) == SubmitState(s) \/ SubmitEnqueue(s)

PoolStep(t) ==
    \/ Compute(t) \/ Computed(t)
    \/ Collect(t) \/ CollectFailure(t) \/ CollectUnrecorded(t)
    \/ CollectRefused(t)

WorkerStep ==
    \/ Dequeue \/ Start \/ StartFails \/ Count \/ CountRaises \/ Finalize
    \/ EndJob \/ Release \/ Recover
    \/ \E t \in Tasks : PoolStep(t)

Single(r) == OneSlot(r) \/ OneFill(r) \/ OneApply(r) \/ OneFree(r)

Next ==
    \/ \E s \in Submits : SubmitCheck(s) \/ Submit(s)
    \/ WorkerStep \/ Crash \/ Expire
    \/ \E i \in Items : Edit(i)
    \/ \E r \in Singles : OneCheck(r) \/ Single(r)

Spec == Init /\ [][Next]_vars

\* A request that was accepted runs to its end, the worker's loop goes on and is
\* restarted, every computation ends, and locks nobody renews run out.
FairSpec ==
    /\ Spec
    /\ \A s \in Submits : WF_vars(Submit(s))
    /\ WF_vars(WorkerStep)
    /\ WF_vars(Expire)
-----------------------------------------------------------------------------
(* Properties.                                                             *)

TypeOK ==
    /\ filled \subseteq Tasks
    /\ edits \in [Items -> 0..MaxEdits]
    /\ error \in [Items -> Tasks \cup {None}]
    /\ fill \in [status : Statuses, total : 0..Cardinality(Tasks),
                 done : 0..Cardinality(Tasks)]
    /\ sub \in [Submits -> SubPcs]
    /\ scope \in [Submits -> SUBSET Items]
    /\ asked \in [Submits -> 0..Cardinality(Tasks)]
    /\ lock \in Submits \cup {None} /\ queue \in Seq(Submits)
    /\ wpc \in WorkPcs /\ job \in Submits \cup {None}
    /\ phase \in [Tasks -> Phases] /\ ok \in 0..Cardinality(Tasks)
    /\ one \in [Singles -> OnePcs]
    /\ what \in [Singles -> Tasks \cup {None}]
    /\ copy \in [Singles -> [filled : SUBSET Tasks, edits : 0..MaxEdits]]
    /\ slot \in [Items -> Singles \cup {None}]
    /\ faults \in 0..MaxFaults

\* Neither a fill that lasted long, of one task or of the whole plan, nor one of
\* another task of the same item takes back what was edited or filled meanwhile.
WorkKept ==
    [][ /\ filled \subseteq filled'
        /\ \A i \in Items : edits[i] <= edits'[i] ]_vars

\* A batch that ends by itself has counted every task it started with, and each
\* of them is filled or marked red, whatever failed on the way but the mark itself.
BatchAccounted ==
    [][ Finalize => /\ fill'.done = Cardinality({t \in Tasks : phase[t] # "none"})
                    /\ \A t \in Tasks : phase[t] # "none" =>
                          t \in filled' \/ error'[ItemOf(t)] # None ]_vars

\* However a job ends, by itself, by an exception or with its worker, a running
\* state does not keep later submissions out for ever.
SubmitAgain == []<> ~ Blocked
=============================================================================
