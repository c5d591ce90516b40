---------------------------- MODULE OcrTaskLife ----------------------------
(***************************************************************************)
(* What an OCR task promises to the request that submitted it, with no     *)
(* workers, leases or clocks: one attempt at a time, at most MaxRetries    *)
(* repeated attempts, and exactly one batch of candidates, written by the  *)
(* step that completes the task.  OcrLease is shown to implement it.       *)
(***************************************************************************)
EXTENDS Naturals

CONSTANTS Tasks, MaxRetries

VARIABLES status, retries, batches

life == <<status, retries, batches>>

LifeInit ==
    /\ status = [t \in Tasks |-> "absent"]
    /\ retries = [t \in Tasks |-> 0]
    /\ batches = [t \in Tasks |-> 0]

Move(t, from, to) ==
    /\ status[t] = from
    /\ status' = [status EXCEPT ![t] = to]

Submit(t) == Move(t, "absent", "pending") /\ UNCHANGED <<retries, batches>>

Start(t) == Move(t, "pending", "processing") /\ UNCHANGED <<retries, batches>>

Retry(t) ==
    /\ Move(t, "processing", "pending")
    /\ retries[t] < MaxRetries
    /\ retries' = [retries EXCEPT ![t] = @ + 1]
    /\ UNCHANGED batches

Complete(t) ==
    /\ Move(t, "processing", "completed")
    /\ batches' = [batches EXCEPT ![t] = @ + 1]
    /\ UNCHANGED retries

Fail(t) == Move(t, "processing", "failed") /\ UNCHANGED <<retries, batches>>

LifeNext ==
    \E t \in Tasks :
        Submit(t) \/ Start(t) \/ Retry(t) \/ Complete(t) \/ Fail(t)

LifeSpec == LifeInit /\ [][LifeNext]_life
=============================================================================
