------------------------------ MODULE OcrLease ------------------------------
(***************************************************************************)
(* The OCR task table and the workers that drain it (ocr_service.py).  A   *)
(* worker claims the oldest claimable row by one conditional UPDATE that   *)
(* writes its name and a new fencing token, renews the row's lock while it *)
(* works, and writes the result under the guard "still processing, still   *)
(* mine, still my token".  A lock older than LockTimeout may be taken over *)
(* while its first holder is still running.                                *)
(***************************************************************************)
EXTENDS Naturals, Sequences

CONSTANTS
    NumTasks,      \* rows of ocr_tasks, numbered in order of created_at
    Workers,       \* worker coroutines, over every API process
    MaxRetries,    \* _OCR_MAX_RETRIES
    LockTimeout,   \* _OCR_LOCK_TIMEOUT_SECONDS, in clock steps
    HbInterval,    \* _OCR_HEARTBEAT_INTERVAL_SECONDS, in clock steps
    Timely,        \* TRUE: a live heartbeat is never late
    MaxFaults,     \* bound on crashes, dead heartbeats and stalls
    NoWorker       \* locked_by IS NULL

ASSUME OcrConstants ==
    /\ NumTasks \in Nat /\ MaxRetries \in Nat /\ MaxFaults \in Nat
    /\ LockTimeout \in Nat /\ HbInterval \in Nat
    /\ HbInterval <= LockTimeout
    /\ Timely \in BOOLEAN
    /\ NoWorker \notin Workers

Tasks == 1..NumTasks

Statuses == {"absent", "pending", "processing", "completed", "failed"}
Reasons  == {"none", "config", "inputLost", "ocr"}
Answers  == {"none", "waiting", "ok", "error", "timeout"}
Pcs      == {"idle", "selected", "claimed", "recognising", "recognised",
             "failing", "completedRow", "audit"}

VARIABLES
    status, fence, lockedBy, lockAge, retries, reason,  \* the row
    batches,     \* candidate batches written for a task
    inputFile,   \* the task's input file is on disk
    answer,      \* what _wait_for_task told the submitter
    audits,      \* outcomes recorded in the audit log
    pc,          \* a worker's position
    task, token, seen, why,  \* its task, its fencing token, the retry count
                 \* it read and the reason it fails with
    hbAge,       \* clock steps since the worker's last heartbeat
    hbAlive,     \* the worker's heartbeat coroutine still runs
    faults

row    == <<status, fence, lockedBy, lockAge, retries, reason>>
output == <<batches, inputFile, answer, audits>>
local  == <<task, token, seen, why>>
worker == <<pc, local, hbAge, hbAlive>>
vars   == <<row, output, worker, faults>>

Init ==
    /\ status = [t \in Tasks |-> "absent"]
    /\ fence = [t \in Tasks |-> 0]
    /\ lockedBy = [t \in Tasks |-> NoWorker]
    /\ lockAge = [t \in Tasks |-> 0]
    /\ retries = [t \in Tasks |-> 0]
    /\ reason = [t \in Tasks |-> "none"]
    /\ batches = [t \in Tasks |-> 0]
    /\ inputFile = [t \in Tasks |-> FALSE]
    /\ answer = [t \in Tasks |-> "none"]
    /\ audits = [t \in Tasks |-> <<>>]
    /\ pc = [w \in Workers |-> "idle"]
    /\ task = [w \in Workers |-> 0]
    /\ token = [w \in Workers |-> 0]
    /\ seen = [w \in Workers |-> 0]
    /\ why = [w \in Workers |-> "none"]
    /\ hbAge = [w \in Workers |-> 0]
    /\ hbAlive = [w \in Workers |-> FALSE]
    /\ faults = 0

-----------------------------------------------------------------------------
(* The submitting request: _submit_parse_task, then _wait_for_task.        *)

Submit(t) ==
    /\ status[t] = "absent"
    /\ \A u \in 1..(t - 1) : status[u] # "absent"
    /\ status' = [status EXCEPT ![t] = "pending"]
    /\ inputFile' = [inputFile EXCEPT ![t] = TRUE]
    /\ answer' = [answer EXCEPT ![t] = "waiting"]
    /\ UNCHANGED <<fence, lockedBy, lockAge, retries, reason, batches, audits,
                   worker, faults>>

Poll(t) ==
    /\ answer[t] = "waiting"
    /\ \/ status[t] = "completed" /\ answer' = [answer EXCEPT ![t] = "ok"]
       \/ status[t] = "failed" /\ answer' = [answer EXCEPT ![t] = "error"]
    /\ UNCHANGED <<row, batches, inputFile, audits, worker, faults>>

\* The deadline is checked before each read, so it may pass with the answer
\* already in the table.
WaitTimeout(t) ==
    /\ answer[t] = "waiting"
    /\ answer' = [answer EXCEPT ![t] = "timeout"]
    /\ UNCHANGED <<row, batches, inputFile, audits, worker, faults>>

-----------------------------------------------------------------------------
(* A worker.                                                               *)

\* Slips: a lock is never taken over; a lock is taken over too early.
ClaimableFresh(t) == status[t] = "pending" /\ lockedBy[t] = NoWorker
ClaimableSoon(t) ==
    \/ ClaimableFresh(t)
    \/ status[t] = "processing" /\ lockAge[t] >= HbInterval

Claimable(t) ==
    \/ status[t] = "pending" /\ lockedBy[t] = NoWorker
    \/ status[t] = "processing" /\ lockAge[t] > LockTimeout

\* SELECT id ... WHERE claimable ORDER BY created_at LIMIT 1
SelectTask(w) ==
    /\ pc[w] = "idle"
    /\ \E t \in Tasks :
           /\ Claimable(t)
           /\ \A u \in Tasks : Claimable(u) => t <= u
           /\ task' = [task EXCEPT ![w] = t]
    /\ pc' = [pc EXCEPT ![w] = "selected"]
    /\ UNCHANGED <<row, output, token, seen, why, hbAge, hbAlive, faults>>

GoIdle(w) ==
    /\ pc' = [pc EXCEPT ![w] = "idle"]
    /\ task' = [task EXCEPT ![w] = 0]
    /\ token' = [token EXCEPT ![w] = 0]
    /\ seen' = [seen EXCEPT ![w] = 0]
    /\ why' = [why EXCEPT ![w] = "none"]
    /\ hbAge' = [hbAge EXCEPT ![w] = 0]
    /\ hbAlive' = [hbAlive EXCEPT ![w] = FALSE]

\* Slip: a takeover keeps the row's token.
SameToken(t) == fence[t]

NextToken(t) == fence[t] + 1

\* UPDATE ... WHERE id = candidate AND claimable RETURNING fence_token: the
\* row takes this worker's name and the next token, or another worker won.
ClaimTask(w) ==
    LET t == task[w] IN
    /\ pc[w] = "selected"
    /\ Claimable(t)
    /\ status' = [status EXCEPT ![t] = "processing"]
    /\ fence' = [fence EXCEPT ![t] = NextToken(t)]
    /\ lockedBy' = [lockedBy EXCEPT ![t] = w]
    /\ lockAge' = [lockAge EXCEPT ![t] = 0]
    /\ token' = [token EXCEPT ![w] = NextToken(t)]
    /\ pc' = [pc EXCEPT ![w] = "claimed"]
    /\ hbAge' = [hbAge EXCEPT ![w] = 0]
    /\ hbAlive' = [hbAlive EXCEPT ![w] = TRUE]
    /\ UNCHANGED <<retries, reason, output, task, seen, why, faults>>

LoseClaim(w) ==
    /\ pc[w] = "selected"
    /\ ~ Claimable(task[w])
    /\ GoIdle(w)
    /\ UNCHANGED <<row, output, faults>>

\* Slips: the guard looks at the row's id only, or at its status only.
GuardedById(w, t) == task[w] = t
GuardedByStatus(w, t) == task[w] = t /\ status[t] = "processing"

\* _fencing_guard
Guarded(w, t) ==
    /\ status[t] = "processing"
    /\ lockedBy[t] = w
    /\ fence[t] = token[w]

\* _run_claimed_task reads the row it claimed and the OCR settings.  It may
\* find OCR switched off, the input gone, or go on to recognise.
LoadTask(w) ==
    LET t == task[w]
        Go(p, y) ==
            /\ pc' = [pc EXCEPT ![w] = p]
            /\ why' = [why EXCEPT ![w] = y]
    IN
    /\ pc[w] = "claimed"
    /\ \/ Go("failing", "config")
       \/ ~ inputFile[t] /\ Go("failing", "inputLost")
       \/ inputFile[t] /\ Go("recognising", "none")
    /\ seen' = [seen EXCEPT ![w] = retries[t]]
    /\ UNCHANGED <<row, output, task, token, hbAge, hbAlive, faults>>

Recognise(w) ==
    /\ pc[w] = "recognising"
    /\ \/ pc' = [pc EXCEPT ![w] = "recognised"] /\ UNCHANGED why
       \/ /\ pc' = [pc EXCEPT ![w] = "failing"]
          /\ why' = [why EXCEPT ![w] = "ocr"]
    /\ UNCHANGED <<row, output, task, token, seen, hbAge, hbAlive, faults>>

\* _finalize_task_success: the row and its candidates in one transaction,
\* dropped whole when the guard no longer holds.
FinalizeSuccess(w) ==
    LET t == task[w] IN
    /\ pc[w] = "recognised"
    /\ \/ /\ Guarded(w, t)
          /\ status' = [status EXCEPT ![t] = "completed"]
          /\ reason' = [reason EXCEPT ![t] = "none"]
          /\ lockAge' = [lockAge EXCEPT ![t] = 0]
          /\ batches' = [batches EXCEPT ![t] = @ + 1]
          /\ pc' = [pc EXCEPT ![w] = "completedRow"]
          /\ UNCHANGED <<fence, lockedBy, retries, local, hbAge, hbAlive>>
       \/ ~ Guarded(w, t) /\ GoIdle(w) /\ UNCHANGED <<row, batches>>
    /\ UNCHANGED <<inputFile, answer, audits, faults>>

\* Slips: one attempt too few; attempts without end.
CanRetryShort(w) == why[w] = "ocr" /\ seen[w] + 1 < MaxRetries
CanRetryAlways(w) == why[w] = "ocr"

\* Only an OCR error may be retried; a missing configuration or input is final.
CanRetry(w) == why[w] = "ocr" /\ seen[w] < MaxRetries

WriteFailure(w, t) ==
    /\ status' = [status EXCEPT ![t] = IF CanRetry(w) THEN "pending" ELSE "failed"]
    /\ retries' = [retries EXCEPT ![t] = IF CanRetry(w) THEN seen[w] + 1 ELSE @]
    /\ reason' = [reason EXCEPT ![t] = why[w]]
    /\ lockedBy' = [lockedBy EXCEPT ![t] = NoWorker]
    /\ lockAge' = [lockAge EXCEPT ![t] = 0]
    /\ UNCHANGED fence

ToAudit(w) ==
    /\ pc' = [pc EXCEPT ![w] = "audit"]
    /\ UNCHANGED <<local, hbAge, hbAlive>>

\* Slip: the failure is audited although the write was refused.
FinalizeFailureAudits(w) ==
    LET t == task[w] IN
    /\ pc[w] = "failing"
    /\ \/ Guarded(w, t) /\ WriteFailure(w, t)
       \/ ~ Guarded(w, t) /\ UNCHANGED row
    /\ IF CanRetry(w) THEN GoIdle(w) ELSE ToAudit(w)
    /\ UNCHANGED <<output, faults>>

\* _finalize_task_failure: back to pending with one more retry counted, from
\* the count this worker read, or failed for good.
FinalizeFailure(w) ==
    LET t == task[w] IN
    /\ pc[w] = "failing"
    /\ \/ /\ Guarded(w, t)
          /\ WriteFailure(w, t)
          /\ IF CanRetry(w) THEN GoIdle(w) ELSE ToAudit(w)
       \/ ~ Guarded(w, t) /\ GoIdle(w) /\ UNCHANGED row
    /\ UNCHANGED <<output, faults>>

\* _delete_task_input, reached only after the completed row is committed.
DeleteInput(w) ==
    /\ pc[w] = "completedRow"
    /\ inputFile' = [inputFile EXCEPT ![task[w]] = FALSE]
    /\ pc' = [pc EXCEPT ![w] = "audit"]
    /\ UNCHANGED <<row, batches, answer, audits, local, hbAge, hbAlive, faults>>

\* _record_task_audit is given the outcome this worker wrote.
RecordAudit(w) ==
    /\ pc[w] = "audit"
    /\ audits' = [audits EXCEPT ![task[w]] =
           Append(@, IF why[w] = "none" THEN "completed" ELSE "failed")]
    /\ GoIdle(w)
    /\ UNCHANGED <<row, batches, inputFile, answer, faults>>

-----------------------------------------------------------------------------
(* Leases, time and faults.                                                *)

Active(w)  == pc[w] \notin {"idle", "selected"}
Beating(w) == Active(w) /\ hbAlive[w]
Overdue(w) == Beating(w) /\ hbAge[w] >= HbInterval

\* _heartbeat_loop: refresh locked_at under the guard, or find the lease gone
\* and cancel the worker where it stands, even after its row was committed.
Heartbeat(w) ==
    LET t == task[w] IN
    /\ Overdue(w)
    /\ \/ /\ Guarded(w, t)
          /\ lockAge' = [lockAge EXCEPT ![t] = 0]
          /\ hbAge' = [hbAge EXCEPT ![w] = 0]
          /\ UNCHANGED <<status, fence, lockedBy, retries, reason,
                         pc, local, hbAlive>>
       \/ ~ Guarded(w, t) /\ GoIdle(w) /\ UNCHANGED row
    /\ UNCHANGED <<output, faults>>

\* One clock step.  Ages stop counting just past the value they are compared
\* with.  A step taken while a live heartbeat is overdue is a stall of that
\* worker's event loop, a fault.
Tick ==
    LET stall == \E w \in Workers : Overdue(w) IN
    /\ stall => ~ Timely /\ faults < MaxFaults
    /\ faults' = IF stall THEN faults + 1 ELSE faults
    /\ lockAge' = [t \in Tasks |->
           IF status[t] = "processing" /\ lockAge[t] <= LockTimeout
           THEN lockAge[t] + 1 ELSE lockAge[t]]
    /\ hbAge' = [w \in Workers |->
           IF Beating(w) /\ hbAge[w] < HbInterval
           THEN hbAge[w] + 1 ELSE hbAge[w]]
    /\ <<lockAge, hbAge>>' # <<lockAge, hbAge>>
    /\ UNCHANGED <<status, fence, lockedBy, retries, reason, output,
                   pc, local, hbAlive>>

\* The process dies, stop_worker cancels the coroutine, or a database error
\* escapes to _ocr_worker_loop: the worker starts over and the row stays as
\* the last commit left it.
Crash(w) ==
    /\ pc[w] # "idle"
    /\ faults < MaxFaults
    /\ faults' = faults + 1
    /\ GoIdle(w)
    /\ UNCHANGED <<row, output>>

\* An exception in _renew_lease ends the heartbeat coroutine, and nobody looks
\* at it until the task is over.
HeartbeatDies(w) ==
    /\ Beating(w)
    /\ faults < MaxFaults
    /\ faults' = faults + 1
    /\ hbAlive' = [hbAlive EXCEPT ![w] = FALSE]
    /\ UNCHANGED <<row, output, pc, local, hbAge>>

-----------------------------------------------------------------------------

WorkerStep(w) ==
    \/ SelectTask(w) \/ ClaimTask(w) \/ LoseClaim(w) \/ LoadTask(w)
    \/ Recognise(w) \/ FinalizeSuccess(w) \/ FinalizeFailure(w)
    \/ DeleteInput(w) \/ RecordAudit(w)

Next ==
    \/ \E t \in Tasks : Submit(t) \/ Poll(t) \/ WaitTimeout(t)
    \/ \E w \in Workers :
           WorkerStep(w) \/ Heartbeat(w) \/ Crash(w) \/ HeartbeatDies(w)
    \/ Tick

Spec == Init /\ [][Next]_vars

\* The event loop keeps running every worker and heartbeat, the clock moves,
\* and the submitter keeps polling.
Fairness ==
    /\ \A w \in Workers : WF_vars(WorkerStep(w)) /\ WF_vars(Heartbeat(w))
    /\ \A t \in Tasks : WF_vars(Poll(t))
    /\ WF_vars(Tick)

FairSpec == Spec /\ Fairness
-----------------------------------------------------------------------------
(* Properties.                                                             *)

TypeOK ==
    /\ status \in [Tasks -> Statuses]
    /\ fence \in [Tasks -> Nat]
    /\ lockedBy \in [Tasks -> Workers \cup {NoWorker}]
    /\ lockAge \in [Tasks -> Nat]
    /\ retries \in [Tasks -> 0..MaxRetries]
    /\ reason \in [Tasks -> Reasons]
    /\ batches \in [Tasks -> Nat]
    /\ inputFile \in [Tasks -> BOOLEAN]
    /\ answer \in [Tasks -> Answers]
    /\ audits \in [Tasks -> Seq({"completed", "failed"})]
    /\ pc \in [Workers -> Pcs]
    /\ task \in [Workers -> Tasks \cup {0}]
    /\ token \in [Workers -> Nat]
    /\ seen \in [Workers -> 0..MaxRetries]
    /\ why \in [Workers -> Reasons]
    /\ hbAge \in [Workers -> Nat]
    /\ hbAlive \in [Workers -> BOOLEAN]
    /\ faults \in Nat

Final == {"completed", "failed"}

\* A fencing token belongs to one worker: of two workers busy with the same
\* task, at most one carries the row's token, however late the other wakes up.
TokenUnique ==
    \A v, w \in Workers :
        /\ Active(v) /\ Active(w) /\ v # w
        /\ task[v] = task[w]
        => token[v] # token[w]

\* A task has exactly one batch of candidates once completed and none before:
\* a worker whose lease was taken over adds nothing (the guard of
\* _finalize_task_success covers the candidates too).
CandidatesOnce ==
    \A t \in Tasks : batches[t] = IF status[t] = "completed" THEN 1 ELSE 0

\* The input outlives every attempt that may still need it, so no task is ever
\* failed for a missing input (_delete_task_input runs after the commit only).
InputKept ==
    \A t \in Tasks :
        /\ status[t] \in {"pending", "processing"} => inputFile[t]
        /\ reason[t] # "inputLost"

\* The audit log holds at most one outcome of a task, and the true one.
AuditTrue ==
    \A t \in Tasks :
        \/ audits[t] = <<>>
        \/ status[t] \in Final /\ audits[t] = <<status[t]>>

\* What the submitter was told stays true: the row it read is never reopened.
AnswerTrue ==
    \A t \in Tasks :
        /\ answer[t] = "ok" => status[t] = "completed"
        /\ answer[t] = "error" => status[t] = "failed"

\* A task given up for an OCR error used all its retries, although the count
\* that is written back is the one a worker read before the attempt.
RetriesUsed ==
    \A t \in Tasks :
        status[t] = "failed" /\ reason[t] = "ocr" => retries[t] = MaxRetries

\* Only the worker that carries the row's current token ends an attempt.
HolderEnds ==
    [][\A t \in Tasks :
          status[t] = "processing" /\ status'[t] # "processing"
          => \E w \in Workers :
                /\ Active(w) /\ task[w] = t /\ token[w] = fence[t]
                /\ pc'[w] # pc[w]]_vars

\* A finished row is never touched again: no zombie reopens it, changes its
\* reason or retry count, or adds candidates.
FinalStays ==
    [][\A t \in Tasks :
          status[t] \in Final =>
              UNCHANGED <<status[t], reason[t], retries[t], fence[t],
                          batches[t]>>]_vars

\* While the heartbeat of the worker that holds a lease runs on time, nobody
\* takes the lease over: the interval fits inside the lock timeout.
LeaseKept ==
    [][\A t \in Tasks, w \in Workers :
          /\ Beating(w)
          /\ task[w] = t /\ token[w] = fence[t]
          => fence'[t] = fence[t]]_vars

\* The rows implement the task life the submitter relies on.
Life == INSTANCE OcrTaskLife
        WITH status <- status, retries <- retries, batches <- batches
LifeImplemented == Life!LifeSpec

\* Every submitted task is finished once the crashes and dead heartbeats stop:
\* an abandoned row is claimed again when its lock has timed out.
TaskEnds == \A t \in Tasks : status[t] = "pending" ~> status[t] \in Final
=============================================================================
