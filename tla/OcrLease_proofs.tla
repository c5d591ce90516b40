--------------------------- MODULE OcrLease_proofs ---------------------------
(***************************************************************************)
(* Theorems of OcrLease, for any number of tasks and workers, any retry    *)
(* limit and timeouts, any stalls and crashes.                             *)
(***************************************************************************)
EXTENDS OcrLease, TLAPS

-----------------------------------------------------------------------------
(* The inductive invariant.                                                *)

\* A worker that is not idle knows its task.
BusyOnTask == \A w \in Workers : pc[w] # "idle" => task[w] \in Tasks

RowType ==
    /\ status \in [Tasks -> Statuses]
    /\ fence \in [Tasks -> Nat]
    /\ lockedBy \in [Tasks -> Workers \cup {NoWorker}]
    /\ lockAge \in [Tasks -> Nat]
    /\ retries \in [Tasks -> 0..MaxRetries]
    /\ reason \in [Tasks -> Reasons]

OutputType ==
    /\ batches \in [Tasks -> Nat]
    /\ inputFile \in [Tasks -> BOOLEAN]
    /\ answer \in [Tasks -> Answers]
    /\ audits \in [Tasks -> Seq({"completed", "failed"})]

WorkerType ==
    /\ pc \in [Workers -> Pcs]
    /\ task \in [Workers -> Tasks \cup {0}]
    /\ token \in [Workers -> Nat]
    /\ seen \in [Workers -> 0..MaxRetries]
    /\ why \in [Workers -> Reasons]
    /\ hbAge \in [Workers -> Nat]
    /\ hbAlive \in [Workers -> BOOLEAN]
    /\ BusyOnTask

TypeInv == RowType /\ OutputType /\ WorkerType /\ faults \in Nat

LEMMA InitType == Init => TypeInv
  BY OcrConstants
  DEF Init, TypeInv, RowType, OutputType, WorkerType, BusyOnTask,
      Statuses, Reasons, Answers, Pcs

LEMMA IdleType ==
  ASSUME WorkerType, NEW w \in Workers, GoIdle(w)
  PROVE  WorkerType'
  BY OcrConstants DEF WorkerType, BusyOnTask, GoIdle, Pcs, Reasons

LEMMA UnchangedType ==
  /\ RowType /\ UNCHANGED row => RowType'
  /\ OutputType /\ UNCHANGED output => OutputType'
  /\ WorkerType /\ UNCHANGED worker => WorkerType'
<1>1. RowType /\ UNCHANGED row => RowType'
  BY DEF RowType, row
<1>2. OutputType /\ UNCHANGED output => OutputType'
  BY DEF OutputType, output
<1>3. WorkerType /\ UNCHANGED worker => WorkerType'
  BY DEF WorkerType, BusyOnTask, worker, local
<1> QED
  BY <1>1, <1>2, <1>3

LEMMA StepType == TypeInv /\ [Next]_vars => TypeInv'
<1> SUFFICES ASSUME TypeInv, [Next]_vars PROVE TypeInv'
  OBVIOUS
<1> RowType /\ OutputType /\ WorkerType /\ faults \in Nat
  BY DEF TypeInv
<1> USE OcrConstants
<1>1. ASSUME NEW t \in Tasks, Submit(t) \/ Poll(t) \/ WaitTimeout(t)
      PROVE  TypeInv'
  <2>1. RowType' /\ OutputType'
    BY <1>1 DEF Submit, Poll, WaitTimeout, RowType, OutputType, Statuses,
                Answers, row
  <2>2. UNCHANGED <<worker, faults>>
    BY <1>1 DEF Submit, Poll, WaitTimeout
  <2> QED
    BY <2>1, <2>2, UnchangedType DEF TypeInv
<1>2. ASSUME NEW w \in Workers, SelectTask(w)
      PROVE  TypeInv'
  <2>1. WorkerType'
    BY <1>2 DEF SelectTask, WorkerType, BusyOnTask, Pcs
  <2> QED
    BY <1>2, <2>1, UnchangedType DEF SelectTask, TypeInv
<1>3. ASSUME NEW w \in Workers, ClaimTask(w)
      PROVE  TypeInv'
  <2>1. task[w] \in Tasks
    BY <1>3 DEF ClaimTask, WorkerType, BusyOnTask
  <2>2. RowType'
    BY <1>3, <2>1 DEF ClaimTask, NextToken, RowType, Statuses
  <2>3. WorkerType'
    BY <1>3, <2>1 DEF ClaimTask, NextToken, RowType, WorkerType, BusyOnTask, Pcs
  <2> QED
    BY <1>3, <2>2, <2>3, UnchangedType DEF ClaimTask, TypeInv
<1>4. ASSUME NEW w \in Workers, LoseClaim(w)
      PROVE  TypeInv'
  BY <1>4, IdleType, UnchangedType DEF LoseClaim, TypeInv
<1>5. ASSUME NEW w \in Workers, LoadTask(w)
      PROVE  TypeInv'
  <2>1. WorkerType'
    BY <1>5 DEF LoadTask, RowType, WorkerType, BusyOnTask, Pcs, Reasons
  <2> QED
    BY <1>5, <2>1, UnchangedType DEF LoadTask, TypeInv
<1>6. ASSUME NEW w \in Workers, Recognise(w)
      PROVE  TypeInv'
  <2>1. WorkerType'
    BY <1>6 DEF Recognise, WorkerType, BusyOnTask, Pcs, Reasons
  <2> QED
    BY <1>6, <2>1, UnchangedType DEF Recognise, TypeInv
<1>7. ASSUME NEW w \in Workers, FinalizeSuccess(w)
      PROVE  TypeInv'
  <2>1. task[w] \in Tasks
    BY <1>7 DEF FinalizeSuccess, WorkerType, BusyOnTask
  <2>2. CASE Guarded(w, task[w])
    <3>1. RowType'
      BY <1>7, <2>1, <2>2 DEF FinalizeSuccess, RowType, Statuses, Reasons
    <3>2. OutputType'
      <4>1. batches' \in [Tasks -> Nat]
        BY <1>7, <2>1, <2>2 DEF FinalizeSuccess, OutputType
      <4> QED
        BY <1>7, <4>1 DEF FinalizeSuccess, OutputType
    <3>3. WorkerType'
      BY <1>7, <2>2
      DEF FinalizeSuccess, WorkerType, BusyOnTask, Pcs, local
    <3> QED
      BY <1>7, <3>1, <3>2, <3>3 DEF FinalizeSuccess, TypeInv
  <2>3. CASE ~ Guarded(w, task[w])
    BY <1>7, <2>3, IdleType, UnchangedType
    DEF FinalizeSuccess, TypeInv, OutputType
  <2> QED
    BY <2>2, <2>3
<1>8. ASSUME NEW w \in Workers, FinalizeFailure(w)
      PROVE  TypeInv'
  <2>1. task[w] \in Tasks
    BY <1>8 DEF FinalizeFailure, WorkerType, BusyOnTask
  <2>2. RowType'
    <3>1. CASE WriteFailure(w, task[w])
      BY <2>1, <3>1
      DEF WriteFailure, CanRetry, RowType, WorkerType, Statuses, Reasons
    <3> QED
      BY <1>8, <3>1, UnchangedType DEF FinalizeFailure
  <2>3. WorkerType'
    <3>1. CASE ToAudit(w)
      BY <1>8, <3>1
      DEF FinalizeFailure, ToAudit, WorkerType, BusyOnTask, Pcs, local
    <3> QED
      BY <1>8, <3>1, IdleType DEF FinalizeFailure
  <2> QED
    BY <1>8, <2>2, <2>3, UnchangedType DEF FinalizeFailure, TypeInv
<1>9. ASSUME NEW w \in Workers, DeleteInput(w)
      PROVE  TypeInv'
  <2>1. OutputType'
    BY <1>9 DEF DeleteInput, OutputType
  <2>2. WorkerType'
    BY <1>9 DEF DeleteInput, WorkerType, BusyOnTask, Pcs, local
  <2> QED
    BY <1>9, <2>1, <2>2, UnchangedType DEF DeleteInput, TypeInv
<1>10. ASSUME NEW w \in Workers, RecordAudit(w)
       PROVE  TypeInv'
  <2>1. OutputType'
    <3>1. task[w] \in Tasks
      BY <1>10 DEF RecordAudit, WorkerType, BusyOnTask
    <3> DEFINE told == IF why[w] = "none" THEN "completed" ELSE "failed"
    <3>2. Append(audits[task[w]], told) \in Seq({"completed", "failed"})
      BY <3>1 DEF OutputType
    <3>3. audits' = [audits EXCEPT ![task[w]] = Append(@, told)]
      BY <1>10 DEF RecordAudit
    <3> HIDE DEF told
    <3>4. audits' \in [Tasks -> Seq({"completed", "failed"})]
      BY <3>1, <3>2, <3>3 DEF OutputType
    <3> QED
      BY <1>10, <3>4 DEF RecordAudit, OutputType
  <2> QED
    BY <1>10, <2>1, IdleType, UnchangedType DEF RecordAudit, TypeInv
<1>11. ASSUME NEW w \in Workers, Heartbeat(w)
       PROVE  TypeInv'
  <2>1. CASE Guarded(w, task[w])
    <3>1. RowType' /\ WorkerType'
      BY <1>11, <2>1
      DEF Heartbeat, RowType, WorkerType, BusyOnTask, local
    <3> QED
      BY <1>11, <3>1, UnchangedType DEF Heartbeat, TypeInv
  <2>2. CASE ~ Guarded(w, task[w])
    BY <1>11, <2>2, IdleType, UnchangedType DEF Heartbeat, TypeInv
  <2> QED
    BY <2>1, <2>2
<1>12. ASSUME NEW w \in Workers, Crash(w)
       PROVE  TypeInv'
  BY <1>12, IdleType, UnchangedType DEF Crash, TypeInv
<1>13. ASSUME NEW w \in Workers, HeartbeatDies(w)
       PROVE  TypeInv'
  <2>1. WorkerType'
    BY <1>13 DEF HeartbeatDies, WorkerType, BusyOnTask, local
  <2> QED
    BY <1>13, <2>1, UnchangedType DEF HeartbeatDies, TypeInv
<1>14. ASSUME Tick
       PROVE  TypeInv'
  <2>1. RowType'
    <3>1. lockAge' \in [Tasks -> Nat]
      BY <1>14 DEF Tick, RowType
    <3> QED
      BY <1>14, <3>1 DEF Tick, RowType
  <2>2. WorkerType'
    <3>1. hbAge' \in [Workers -> Nat]
      BY <1>14 DEF Tick, WorkerType
    <3> QED
      BY <1>14, <3>1 DEF Tick, WorkerType, BusyOnTask, local
  <2>3. faults' \in Nat
    BY <1>14 DEF Tick
  <2> QED
    BY <1>14, <2>1, <2>2, <2>3, UnchangedType DEF Tick, TypeInv
<1>15. CASE UNCHANGED vars
  BY <1>15, UnchangedType DEF vars, TypeInv
<1> QED
  BY <1>1, <1>2, <1>3, <1>4, <1>5, <1>6, <1>7, <1>8, <1>9, <1>10, <1>11,
     <1>12, <1>13, <1>14, <1>15 DEF Next, WorkerStep

\* The types of the rows, the outputs and the workers' variables hold in every
\* reachable state, whatever the number of workers and rows.
THEOREM TypeCorrect == Spec => []TypeOK
<1>1. TypeInv => TypeOK
  BY DEF TypeInv, TypeOK, RowType, OutputType, WorkerType
<1> QED
  BY <1>1, InitType, StepType, PTL DEF Spec

-----------------------------------------------------------------------------
(* Fencing tokens.                                                         *)

\* An active worker carries a token its row has issued.
TokenIssued ==
    \A w \in Workers :
        Active(w) =>
            /\ status[task[w]] # "absent"
            /\ token[w] <= fence[task[w]]

TokenInv == TypeInv /\ TokenIssued /\ TokenUnique

\* What every step but a claim does: nobody becomes the holder of a token.
NoNewHolder ==
    /\ \A v \in Workers :
           Active(v)' => Active(v) /\ task'[v] = task[v] /\ token'[v] = token[v]
    /\ fence' = fence
    /\ \A t \in Tasks : status[t] # "absent" => status'[t] # "absent"

LEMMA IdleHolder ==
  ASSUME WorkerType, NEW w \in Workers, GoIdle(w), NEW v \in Workers, Active(v)'
  PROVE  Active(v) /\ task'[v] = task[v] /\ token'[v] = token[v]
  BY DEF WorkerType, GoIdle, Active

LEMMA StepHolder ==
  ASSUME TypeInv, [Next]_vars
  PROVE  NoNewHolder \/ \E w \in Workers : ClaimTask(w)
<1> RowType /\ WorkerType
  BY DEF TypeInv
<1>1. ASSUME NEW t \in Tasks, Submit(t) \/ Poll(t) \/ WaitTimeout(t)
      PROVE  NoNewHolder
  BY <1>1
  DEF Submit, Poll, WaitTimeout, NoNewHolder, Active, row, worker, local, RowType
<1>2. ASSUME NEW w \in Workers, SelectTask(w)
      PROVE  NoNewHolder
  BY <1>2 DEF SelectTask, NoNewHolder, Active, row, WorkerType
<1>3. ASSUME NEW w \in Workers, LoseClaim(w)
      PROVE  NoNewHolder
  BY <1>3, IdleHolder DEF LoseClaim, NoNewHolder, row
<1>4. ASSUME NEW w \in Workers, LoadTask(w) \/ Recognise(w) \/ DeleteInput(w)
      PROVE  NoNewHolder
  BY <1>4 DEF LoadTask, Recognise, DeleteInput, NoNewHolder, Active, row, local,
              WorkerType
<1>5. ASSUME NEW w \in Workers, FinalizeSuccess(w)
      PROVE  NoNewHolder
  <2>1. CASE Guarded(w, task[w])
    BY <1>5, <2>1 DEF FinalizeSuccess, NoNewHolder, Active, local, RowType,
                      WorkerType
  <2>2. CASE ~ Guarded(w, task[w])
    BY <1>5, <2>2, IdleHolder DEF FinalizeSuccess, NoNewHolder, row
  <2> QED
    BY <2>1, <2>2
<1>6. ASSUME NEW w \in Workers, FinalizeFailure(w)
      PROVE  NoNewHolder
  <2>1. /\ fence' = fence
        /\ \A t \in Tasks : status[t] # "absent" => status'[t] # "absent"
    BY <1>6 DEF FinalizeFailure, WriteFailure, row, RowType
  <2>2. CASE ToAudit(w)
    BY <1>6, <2>1, <2>2 DEF FinalizeFailure, ToAudit, NoNewHolder, Active, local,
                            WorkerType
  <2>3. CASE GoIdle(w)
    BY <2>1, <2>3, IdleHolder DEF NoNewHolder
  <2> QED
    BY <1>6, <2>2, <2>3 DEF FinalizeFailure
<1>7. ASSUME NEW w \in Workers, RecordAudit(w) \/ Crash(w)
      PROVE  NoNewHolder
  BY <1>7, IdleHolder DEF RecordAudit, Crash, NoNewHolder, row
<1>8. ASSUME NEW w \in Workers, Heartbeat(w)
      PROVE  NoNewHolder
  <2>1. CASE Guarded(w, task[w])
    BY <1>8, <2>1 DEF Heartbeat, NoNewHolder, Active, local
  <2>2. CASE ~ Guarded(w, task[w])
    BY <1>8, <2>2, IdleHolder DEF Heartbeat, NoNewHolder, row
  <2> QED
    BY <2>1, <2>2
<1>9. CASE (\E w \in Workers : HeartbeatDies(w)) \/ Tick \/ UNCHANGED vars
  BY <1>9 DEF HeartbeatDies, Tick, NoNewHolder, Active, row, worker, local, vars
<1> QED
  BY <1>1, <1>2, <1>3, <1>4, <1>5, <1>6, <1>7, <1>8, <1>9 DEF Next, WorkerStep

LEMMA StepToken == TokenInv /\ [Next]_vars => TokenInv'
<1> SUFFICES ASSUME TokenInv, [Next]_vars PROVE TokenInv'
  OBVIOUS
<1> TypeInv /\ RowType /\ WorkerType
  BY DEF TokenInv, TypeInv
<1> TypeInv' /\ RowType' /\ WorkerType'
  BY StepType DEF TypeInv
<1>1. CASE NoNewHolder
  <2>1. TokenIssued'
    BY <1>1 DEF TokenInv, TokenIssued, NoNewHolder, WorkerType, BusyOnTask, Active
  <2>2. TokenUnique'
    BY <1>1 DEF TokenInv, TokenUnique, NoNewHolder
  <2> QED
    BY <2>1, <2>2 DEF TokenInv
<1>2. ASSUME NEW w \in Workers, ClaimTask(w)
      PROVE  TokenInv'
  <2> DEFINE t == task[w]
  <2>1. t \in Tasks /\ fence[t] \in Nat
    BY <1>2 DEF ClaimTask, RowType, WorkerType, BusyOnTask
  <2>2. /\ fence' = [fence EXCEPT ![t] = fence[t] + 1]
        /\ token' = [token EXCEPT ![w] = fence[t] + 1]
        /\ status' = [status EXCEPT ![t] = "processing"]
        /\ task' = task
        /\ \A v \in Workers \ {w} : pc'[v] = pc[v]
    BY <1>2 DEF ClaimTask, NextToken, WorkerType
  <2>3. \A v \in Workers \ {w} :
            Active(v)' => /\ Active(v) /\ task[v] \in Tasks
                          /\ token'[v] = token[v] /\ token[v] \in Nat
                          /\ token[v] <= fence[task[v]]
                          /\ fence[task[v]] \in Nat
                          /\ fence[task[v]] <= fence'[task[v]]
    BY <2>1, <2>2
    DEF TokenInv, TokenIssued, Active, RowType, WorkerType, BusyOnTask
  <2>4. token'[w] = fence[t] + 1 /\ fence'[t] = fence[t] + 1
    BY <2>1, <2>2 DEF RowType, WorkerType
  <2>5. TokenIssued'
    <3> SUFFICES ASSUME NEW v \in Workers, Active(v)'
                 PROVE  status'[task[v]] # "absent" /\ token'[v] <= fence'[task[v]]
      BY <2>2 DEF TokenIssued
    <3>1. CASE v = w
      BY <2>1, <2>2, <2>4, <3>1 DEF RowType
    <3>2. CASE v # w
      <4>1. status'[task[v]] # "absent"
        BY <2>2, <2>3, <3>2 DEF TokenInv, TokenIssued, RowType
      <4>2. token'[v] <= fence'[task[v]]
        BY <2>3, <3>2 DEF RowType
      <4> QED
        BY <4>1, <4>2
    <3> QED
      BY <3>1, <3>2
  <2>6. TokenUnique'
    <3> SUFFICES ASSUME NEW u \in Workers, NEW v \in Workers,
                        Active(u)', Active(v)', u # v, task[u] = task[v]
                 PROVE  token'[u] # token'[v]
      BY <2>2 DEF TokenUnique
    <3>1. CASE u # w /\ v # w
      BY <2>3, <3>1 DEF TokenInv, TokenUnique
    <3>2. CASE u = w
      BY <2>1, <2>3, <2>4, <3>2
    <3>3. CASE v = w
      BY <2>1, <2>3, <2>4, <3>3
    <3> QED
      BY <3>1, <3>2, <3>3
  <2> QED
    BY <2>5, <2>6 DEF TokenInv
<1> QED
  BY <1>1, <1>2, StepHolder

LEMMA InitToken == Init => TokenInv
  BY InitType DEF Init, TokenInv, TokenIssued, TokenUnique, Active

\* Of two workers busy with the same task, at most one carries the row's token,
\* for any number of workers, takeovers, stalls and crashes.
THEOREM TokensUnique == Spec => []TokenUnique
<1>1. TokenInv => TokenUnique
  BY DEF TokenInv
<1> QED
  BY <1>1, InitToken, StepToken, PTL DEF Spec

-----------------------------------------------------------------------------
(* What a step may do to a row.                                            *)

\* The only steps that move a row, and what they leave alone.
LEMMA RowSteps ==
  ASSUME TypeInv, [Next]_vars
  PROVE  \/ \E t \in Tasks : Submit(t)
         \/ \E w \in Workers : ClaimTask(w)
         \/ \E w \in Workers : FinalizeSuccess(w) /\ Guarded(w, task[w])
         \/ \E w \in Workers : FinalizeFailure(w) /\ Guarded(w, task[w])
         \/ UNCHANGED <<status, fence, retries, reason, batches>>
  BY DEF Next, WorkerStep, Poll, WaitTimeout, SelectTask, LoseClaim, LoadTask,
         Recognise, FinalizeSuccess, FinalizeFailure, DeleteInput, RecordAudit,
         Heartbeat, Crash, HeartbeatDies, Tick, vars, row, output

LEMMA FinalStep ==
  ASSUME TypeInv, [Next]_vars, NEW t \in Tasks, status[t] \in Final
  PROVE  UNCHANGED <<status[t], reason[t], retries[t], fence[t], batches[t]>>
<1> RowType /\ OutputType /\ WorkerType
  BY DEF TypeInv
<1>1. ASSUME NEW u \in Tasks, Submit(u)
      PROVE  UNCHANGED <<status[t], reason[t], retries[t], fence[t], batches[t]>>
  BY <1>1 DEF Submit, Final, RowType, worker
<1>2. ASSUME NEW w \in Workers, ClaimTask(w)
      PROVE  UNCHANGED <<status[t], reason[t], retries[t], fence[t], batches[t]>>
  <2>1. task[w] # t
    BY <1>2 DEF ClaimTask, Claimable, Final
  <2> QED
    BY <1>2, <2>1 DEF ClaimTask, RowType, output
<1>3. ASSUME NEW w \in Workers, FinalizeSuccess(w), Guarded(w, task[w])
      PROVE  UNCHANGED <<status[t], reason[t], retries[t], fence[t], batches[t]>>
  <2>1. task[w] # t
    BY <1>3 DEF Guarded, Final
  <2> QED
    BY <1>3, <2>1 DEF FinalizeSuccess, RowType, OutputType
<1>4. ASSUME NEW w \in Workers, FinalizeFailure(w), Guarded(w, task[w])
      PROVE  UNCHANGED <<status[t], reason[t], retries[t], fence[t], batches[t]>>
  <2>1. task[w] # t
    BY <1>4 DEF Guarded, Final
  <2> QED
    BY <1>4, <2>1 DEF FinalizeFailure, WriteFailure, RowType, output
<1> QED
  BY <1>1, <1>2, <1>3, <1>4, RowSteps

\* No zombie reopens a finished row or adds candidates to it.
THEOREM FinalRowsStay == Spec => FinalStays
<1>1. TypeInv /\ [Next]_vars =>
          [\A t \in Tasks :
              status[t] \in Final =>
                  UNCHANGED <<status[t], reason[t], retries[t], fence[t],
                              batches[t]>>]_vars
  BY FinalStep
<1> QED
  BY <1>1, InitType, StepType, PTL DEF Spec, FinalStays

\* An attempt is ended only by the worker that carries the row's token.
THEOREM OnlyHolderEnds == Spec => HolderEnds
<1>1. ASSUME TypeInv, [Next]_vars, NEW t \in Tasks,
             status[t] = "processing", status'[t] # "processing"
      PROVE  \E w \in Workers :
                 /\ Active(w) /\ task[w] = t /\ token[w] = fence[t]
                 /\ pc'[w] # pc[w]
  <2> RowType /\ WorkerType
    BY <1>1 DEF TypeInv
  <2>1. ASSUME NEW u \in Tasks, Submit(u)
        PROVE  FALSE
    BY <1>1, <2>1 DEF Submit, RowType
  <2>2. ASSUME NEW w \in Workers, ClaimTask(w)
        PROVE  FALSE
    BY <1>1, <2>2 DEF ClaimTask, RowType
  <2>3. ASSUME NEW w \in Workers, Guarded(w, task[w]),
               FinalizeSuccess(w) \/ FinalizeFailure(w)
        PROVE  Active(w) /\ task[w] = t /\ token[w] = fence[t] /\ pc'[w] # pc[w]
    <3>1. task[w] = t
      BY <1>1, <2>3 DEF FinalizeSuccess, FinalizeFailure, WriteFailure, RowType
    <3>2. Active(w) /\ pc'[w] # pc[w]
      BY <2>3
      DEF FinalizeSuccess, FinalizeFailure, ToAudit, GoIdle, Active, WorkerType
    <3> QED
      BY <2>3, <3>1, <3>2 DEF Guarded
  <2> QED
    BY <1>1, <2>1, <2>2, <2>3, RowSteps
<1>2. TypeInv /\ [Next]_vars =>
          [\A t \in Tasks :
              status[t] = "processing" /\ status'[t] # "processing"
              => \E w \in Workers :
                    /\ Active(w) /\ task[w] = t /\ token[w] = fence[t]
                    /\ pc'[w] # pc[w]]_vars
  BY <1>1
<1> QED
  BY <1>2, InitType, StepType, PTL DEF Spec, HolderEnds

-----------------------------------------------------------------------------
(* Candidates and answers.                                                 *)

LEMMA StepBatch ==
  TypeInv /\ CandidatesOnce /\ AnswerTrue /\ [Next]_vars
      => CandidatesOnce' /\ AnswerTrue'
<1> SUFFICES ASSUME TypeInv, CandidatesOnce, AnswerTrue, [Next]_vars
             PROVE  CandidatesOnce' /\ AnswerTrue'
  OBVIOUS
<1> RowType /\ OutputType /\ WorkerType
  BY DEF TypeInv
<1>1. CandidatesOnce'
  <2>1. ASSUME NEW u \in Tasks, Submit(u)
        PROVE  CandidatesOnce'
    BY <2>1 DEF Submit, CandidatesOnce, RowType
  <2>2. ASSUME NEW w \in Workers, ClaimTask(w)
        PROVE  CandidatesOnce'
    <3>1. status[task[w]] # "completed"
      BY <2>2 DEF ClaimTask, Claimable
    <3> QED
      BY <2>2, <3>1 DEF ClaimTask, CandidatesOnce, RowType, output
  <2>3. ASSUME NEW w \in Workers, FinalizeSuccess(w), Guarded(w, task[w])
        PROVE  CandidatesOnce'
    <3>1. task[w] \in Tasks /\ batches[task[w]] = 0
      BY <2>3 DEF FinalizeSuccess, Guarded, CandidatesOnce, WorkerType, BusyOnTask
    <3>2. /\ status' = [status EXCEPT ![task[w]] = "completed"]
          /\ batches' = [batches EXCEPT ![task[w]] = 1]
      BY <2>3, <3>1 DEF FinalizeSuccess
    <3> QED
      BY <3>1, <3>2 DEF CandidatesOnce, RowType, OutputType
  <2>4. ASSUME NEW w \in Workers, FinalizeFailure(w), Guarded(w, task[w])
        PROVE  CandidatesOnce'
    BY <2>4 DEF FinalizeFailure, WriteFailure, Guarded, CandidatesOnce, RowType,
                output
  <2>5. CASE UNCHANGED <<status, batches>>
    BY <2>5 DEF CandidatesOnce
  <2> QED
    BY <2>1, <2>2, <2>3, <2>4, <2>5, RowSteps
<1>2. AnswerTrue'
  <2> SUFFICES ASSUME NEW t \in Tasks
               PROVE  /\ answer'[t] = "ok" => status'[t] = "completed"
                      /\ answer'[t] = "error" => status'[t] = "failed"
    BY DEF AnswerTrue
  <2>1. CASE answer'[t] = answer[t]
    BY <2>1, FinalStep DEF AnswerTrue, Final
  <2>2. CASE answer'[t] # answer[t]
    <3>1. \E u \in Tasks : Submit(u) \/ Poll(u) \/ WaitTimeout(u)
      BY <2>2 DEF Next, WorkerStep, SelectTask, ClaimTask, LoseClaim, LoadTask,
                  Recognise, FinalizeSuccess, FinalizeFailure, DeleteInput,
                  RecordAudit, Heartbeat, Crash, HeartbeatDies, Tick, vars, output
    <3> QED
      BY <2>2, <3>1 DEF Submit, Poll, WaitTimeout, OutputType, row
  <2> QED
    BY <2>1, <2>2
<1> QED
  BY <1>1, <1>2

LEMMA InitBatch == Init => CandidatesOnce /\ AnswerTrue
  BY DEF Init, CandidatesOnce, AnswerTrue

\* A task has one batch of candidates once completed and none before.
THEOREM OneBatch == Spec => []CandidatesOnce
  BY InitType, StepType, InitBatch, StepBatch, PTL DEF Spec

\* The answer the submitter was given stays the truth about the row.
THEOREM AnswersTrue == Spec => []AnswerTrue
  BY InitType, StepType, InitBatch, StepBatch, PTL DEF Spec

-----------------------------------------------------------------------------
(* The audit log.                                                          *)

\* Only a failing worker, or one that has written a failure, has a reason.
WhyKnown ==
    \A w \in Workers :
        /\ pc[w] \notin {"failing", "audit"} => why[w] = "none"
        /\ pc[w] = "failing" => why[w] # "none"

\* A worker that has written a final row but not audited it.
Closing(w) == pc[w] \in {"completedRow", "audit"}

\* It still carries the row's token, the row says what it wrote, and the log is
\* still empty.
ClosingTrue ==
    \A w \in Workers :
        Closing(w) =>
            /\ token[w] = fence[task[w]]
            /\ status[task[w]] = IF why[w] = "none" THEN "completed" ELSE "failed"
            /\ audits[task[w]] = <<>>

AuditInv == TokenInv /\ WhyKnown /\ ClosingTrue /\ AuditTrue

LEMMA StepWhy ==
  ASSUME TypeInv, WhyKnown, [Next]_vars
  PROVE  WhyKnown'
<1> WorkerType
  BY DEF TypeInv
<1>1. ASSUME NEW w \in Workers, GoIdle(w)
      PROVE  WhyKnown'
  BY <1>1 DEF GoIdle, WhyKnown, WorkerType
<1>2. ASSUME NEW w \in Workers, SelectTask(w) \/ ClaimTask(w)
      PROVE  WhyKnown'
  BY <1>2 DEF SelectTask, ClaimTask, WhyKnown, WorkerType
<1>3. ASSUME NEW w \in Workers, LoadTask(w) \/ Recognise(w)
      PROVE  WhyKnown'
  BY <1>3 DEF LoadTask, Recognise, WhyKnown, WorkerType
<1>4. ASSUME NEW w \in Workers, FinalizeSuccess(w) \/ DeleteInput(w)
      PROVE  WhyKnown'
  BY <1>1, <1>4 DEF FinalizeSuccess, DeleteInput, WhyKnown, WorkerType, local
<1>5. ASSUME NEW w \in Workers, FinalizeFailure(w)
      PROVE  WhyKnown'
  BY <1>1, <1>5 DEF FinalizeFailure, ToAudit, WhyKnown, WorkerType, local
<1>6. CASE UNCHANGED <<pc, local>>
  BY <1>6 DEF WhyKnown, local
<1> QED
  BY <1>1, <1>2, <1>3, <1>4, <1>5, <1>6
  DEF Next, WorkerStep, Submit, Poll, WaitTimeout, LoseClaim, RecordAudit,
      Heartbeat, Crash, HeartbeatDies, Tick, vars, worker

\* How a worker comes to be closing a task.
LEMMA ClosingSteps ==
  ASSUME TypeInv, [Next]_vars, NEW v \in Workers, Closing(v)'
  PROVE  \/ /\ Closing(v)
            /\ task'[v] = task[v] /\ token'[v] = token[v] /\ why'[v] = why[v]
         \/ FinalizeSuccess(v) /\ Guarded(v, task[v])
         \/ FinalizeFailure(v) /\ Guarded(v, task[v]) /\ ~ CanRetry(v)
<1> DEFINE Kept == /\ Closing(v)
                   /\ task'[v] = task[v] /\ token'[v] = token[v] /\ why'[v] = why[v]
<1> WorkerType
  BY DEF TypeInv
<1>1. ASSUME NEW w \in Workers, GoIdle(w)
      PROVE  Kept
  BY <1>1 DEF GoIdle, Closing, WorkerType
<1>2. ASSUME NEW w \in Workers,
             SelectTask(w) \/ ClaimTask(w) \/ LoadTask(w) \/ Recognise(w)
      PROVE  Kept
  BY <1>2 DEF SelectTask, ClaimTask, LoadTask, Recognise, Closing, WorkerType
<1>3. ASSUME NEW w \in Workers, FinalizeSuccess(w)
      PROVE  Kept \/ (FinalizeSuccess(v) /\ Guarded(v, task[v]))
  <2>1. CASE w = v /\ Guarded(w, task[w])
    BY <1>3, <2>1, Zenon
  <2>2. CASE w # v /\ Guarded(w, task[w])
    <3>1. pc'[v] = pc[v] /\ UNCHANGED local
      BY <1>3, <2>2 DEF FinalizeSuccess, WorkerType
    <3> QED
      BY <3>1 DEF Closing, local
  <2>3. CASE ~ Guarded(w, task[w])
    BY <1>1, <1>3, <2>3 DEF FinalizeSuccess
  <2> QED
    BY <2>1, <2>2, <2>3
<1>4. ASSUME NEW w \in Workers, FinalizeFailure(w)
      PROVE  Kept \/ (FinalizeFailure(v) /\ Guarded(v, task[v]) /\ ~ CanRetry(v))
  <2>1. CASE GoIdle(w)
    BY <1>1, <2>1
  <2>2. CASE /\ w = v
             /\ ToAudit(w) /\ Guarded(w, task[w]) /\ ~ CanRetry(w)
    BY <1>4, <2>2, Zenon
  <2>3. CASE w # v /\ ToAudit(w)
    <3>1. pc'[v] = pc[v] /\ UNCHANGED local
      BY <2>3 DEF ToAudit, WorkerType
    <3> QED
      BY <3>1 DEF Closing, local
  <2> QED
    BY <1>4, <2>1, <2>2, <2>3 DEF FinalizeFailure
<1>5. ASSUME NEW w \in Workers, DeleteInput(w)
      PROVE  Kept
  BY <1>5 DEF DeleteInput, Closing, WorkerType, local
<1>6. CASE UNCHANGED <<pc, local>>
  BY <1>6 DEF Closing, local
<1> QED
  BY <1>1, <1>2, <1>3, <1>4, <1>5, <1>6
  DEF Next, WorkerStep, Submit, Poll, WaitTimeout, LoseClaim, RecordAudit,
      Heartbeat, Crash, HeartbeatDies, Tick, vars, worker

LEMMA AuditSteps ==
  ASSUME TypeInv, [Next]_vars
  PROVE  audits' = audits \/ \E w \in Workers : RecordAudit(w)
  BY DEF Next, WorkerStep, Submit, Poll, WaitTimeout, SelectTask, ClaimTask,
         LoseClaim, LoadTask, Recognise, FinalizeSuccess, FinalizeFailure,
         DeleteInput, Heartbeat, Crash, HeartbeatDies, Tick, vars, output

\* Two workers never close the same task.
LEMMA OneCloser ==
  ASSUME AuditInv, NEW v \in Workers, NEW w \in Workers, Closing(v), Closing(w),
         task[v] = task[w]
  PROVE  v = w
  BY DEF AuditInv, TokenInv, TokenUnique, ClosingTrue, Closing, Active

LEMMA StepAudit == AuditInv /\ [Next]_vars => AuditInv'
<1> SUFFICES ASSUME AuditInv, [Next]_vars PROVE AuditInv'
  OBVIOUS
<1> TokenInv /\ TypeInv /\ RowType /\ OutputType /\ WorkerType
  BY DEF AuditInv, TokenInv, TypeInv
<1>1. TokenInv' /\ WhyKnown'
  BY StepToken, StepWhy DEF AuditInv
<1>2. ClosingTrue'
  <2> SUFFICES ASSUME NEW v \in Workers, Closing(v)'
               PROVE  /\ token'[v] = fence'[task'[v]]
                      /\ status'[task'[v]] =
                             IF why'[v] = "none" THEN "completed" ELSE "failed"
                      /\ audits'[task'[v]] = <<>>
    BY DEF ClosingTrue
  <2>1. CASE /\ Closing(v)
             /\ task'[v] = task[v] /\ token'[v] = token[v] /\ why'[v] = why[v]
    <3>1. task[v] \in Tasks /\ status[task[v]] \in Final
      BY <2>1 DEF Closing, WorkerType, BusyOnTask, AuditInv, ClosingTrue, Final
    <3>2. fence'[task[v]] = fence[task[v]] /\ status'[task[v]] = status[task[v]]
      BY <3>1, FinalStep
    <3>3. audits'[task[v]] = audits[task[v]]
      <4>1. ASSUME NEW w \in Workers, RecordAudit(w)
            PROVE  task[w] # task[v]
        <5>1. Closing(w) /\ ~ Closing(w)'
          BY <4>1 DEF RecordAudit, GoIdle, Closing, WorkerType
        <5> QED
          BY <2>1, <5>1, OneCloser
      <4> QED
        BY <3>1, <4>1, AuditSteps DEF RecordAudit, OutputType
    <3> QED
      BY <2>1, <3>2, <3>3 DEF AuditInv, ClosingTrue
  <2>2. CASE FinalizeSuccess(v) /\ Guarded(v, task[v])
    <3>1. task[v] \in Tasks /\ why[v] = "none" /\ audits[task[v]] = <<>>
      BY <2>2 DEF FinalizeSuccess, Guarded, WorkerType, BusyOnTask, AuditInv,
                  WhyKnown, AuditTrue, Final
    <3> QED
      BY <2>2, <3>1 DEF FinalizeSuccess, Guarded, RowType, local
  <2>3. CASE FinalizeFailure(v) /\ Guarded(v, task[v]) /\ ~ CanRetry(v)
    <3>1. task[v] \in Tasks /\ why[v] # "none" /\ audits[task[v]] = <<>>
      BY <2>3 DEF FinalizeFailure, Guarded, WorkerType, BusyOnTask, AuditInv,
                  WhyKnown, AuditTrue, Final
    <3> QED
      BY <2>3, <3>1
      DEF FinalizeFailure, WriteFailure, ToAudit, Guarded, RowType, output, local
  <2> QED
    BY <2>1, <2>2, <2>3, ClosingSteps
<1>3. AuditTrue'
  <2> SUFFICES ASSUME NEW t \in Tasks
               PROVE  \/ audits'[t] = <<>>
                      \/ status'[t] \in Final /\ audits'[t] = <<status'[t]>>
    BY DEF AuditTrue
  <2>1. CASE audits'[t] = audits[t]
    BY <2>1, FinalStep DEF AuditInv, AuditTrue
  <2>2. CASE audits'[t] # audits[t]
    <3>1. PICK w \in Workers : RecordAudit(w)
      BY <2>2, AuditSteps
    <3>2. Closing(w) /\ task[w] = t
      BY <2>2, <3>1 DEF RecordAudit, Closing, OutputType
    <3>3. /\ status[t] = IF why[w] = "none" THEN "completed" ELSE "failed"
          /\ audits[t] = <<>>
      BY <3>2 DEF AuditInv, ClosingTrue
    <3>4. status'[t] = status[t] /\ status[t] \in Final
      BY <3>3, FinalStep DEF Final
    <3>5. audits'[t] = Append(<<>>, status[t])
      BY <3>1, <3>2, <3>3 DEF RecordAudit, OutputType
    <3> QED
      BY <3>4, <3>5
  <2> QED
    BY <2>1, <2>2
<1> QED
  BY <1>1, <1>2, <1>3 DEF AuditInv

LEMMA InitAudit == Init => AuditInv
  BY InitToken DEF Init, AuditInv, WhyKnown, ClosingTrue, Closing, AuditTrue

\* The audit log holds at most one outcome of a task, and it is the true one.
THEOREM AuditsTrue == Spec => []AuditTrue
<1>1. AuditInv => AuditTrue
  BY DEF AuditInv
<1> QED
  BY <1>1, InitAudit, StepAudit, PTL DEF Spec
-----------------------------------------------------------------------------
(* The input file.                                                         *)

\* The input disappears only from a completed task.
InputGone ==
    \A t \in Tasks : ~ inputFile[t] => status[t] \in {"absent", "completed"}

\* A worker that found no input was looking at a task completed by another.
LostToOther ==
    \A w \in Workers : why[w] = "inputLost" => status[task[w]] = "completed"

InputInv ==
    AuditInv /\ InputGone /\ LostToOther /\ \A t \in Tasks : reason[t] # "inputLost"

\* How a worker comes to have a reason.
LEMMA WhySteps ==
  ASSUME TypeInv, WhyKnown, [Next]_vars, NEW v \in Workers, why'[v] = "inputLost"
  PROVE  /\ task'[v] = task[v] /\ pc[v] # "idle"
         /\ \/ why[v] = "inputLost"
            \/ pc[v] = "claimed" /\ ~ inputFile[task[v]]
<1> WorkerType
  BY DEF TypeInv
<1>1. ASSUME NEW w \in Workers, GoIdle(w)
      PROVE  why[v] = "inputLost" /\ task'[v] = task[v]
  BY <1>1 DEF GoIdle, WorkerType
<1>2. ASSUME NEW w \in Workers, SelectTask(w) \/ ClaimTask(w)
      PROVE  why[v] = "inputLost" /\ task'[v] = task[v]
  BY <1>2 DEF SelectTask, ClaimTask, WhyKnown, WorkerType
<1>3. ASSUME NEW w \in Workers, LoadTask(w) \/ Recognise(w)
      PROVE  /\ task'[v] = task[v]
             /\ \/ why[v] = "inputLost"
                \/ pc[v] = "claimed" /\ ~ inputFile[task[v]]
  BY <1>3 DEF LoadTask, Recognise, WorkerType
<1>4. ASSUME NEW w \in Workers,
             FinalizeSuccess(w) \/ FinalizeFailure(w) \/ DeleteInput(w)
      PROVE  why[v] = "inputLost" /\ task'[v] = task[v]
  BY <1>1, <1>4 DEF FinalizeSuccess, FinalizeFailure, ToAudit, DeleteInput, local
<1>5. ASSUME UNCHANGED <<pc, local>>
      PROVE  why[v] = "inputLost" /\ task'[v] = task[v]
  BY <1>5 DEF local
<1>6. why[v] = "inputLost" => pc[v] # "idle"
  BY DEF WhyKnown
<1> QED
  BY <1>1, <1>2, <1>3, <1>4, <1>5, <1>6
  DEF Next, WorkerStep, Submit, Poll, WaitTimeout, LoseClaim, RecordAudit,
      Heartbeat, Crash, HeartbeatDies, Tick, vars, worker

LEMMA InputSteps ==
  ASSUME TypeInv, [Next]_vars
  PROVE  \/ \E t \in Tasks : Submit(t)
         \/ \E w \in Workers : DeleteInput(w)
         \/ inputFile' = inputFile
  BY DEF Next, WorkerStep, Poll, WaitTimeout, SelectTask, ClaimTask, LoseClaim,
         LoadTask, Recognise, FinalizeSuccess, FinalizeFailure, RecordAudit,
         Heartbeat, Crash, HeartbeatDies, Tick, vars, output

LEMMA StepInput == InputInv /\ [Next]_vars => InputInv'
<1> SUFFICES ASSUME InputInv, [Next]_vars PROVE InputInv'
  OBVIOUS
<1> AuditInv /\ TokenInv /\ WhyKnown /\ TypeInv /\ RowType /\ OutputType /\ WorkerType
  BY DEF InputInv, AuditInv, TokenInv, TypeInv
<1>1. InputGone'
  <2> SUFFICES ASSUME NEW t \in Tasks, ~ inputFile'[t]
               PROVE  status'[t] \in {"absent", "completed"}
    BY DEF InputGone
  <2>1. CASE inputFile[t]
    <3>1. PICK w \in Workers : DeleteInput(w)
      BY <2>1, InputSteps DEF Submit, OutputType
    <3>2. task[w] = t
      BY <2>1, <3>1 DEF DeleteInput, OutputType
    <3>3. status[t] = "completed"
      BY <3>1, <3>2 DEF DeleteInput, AuditInv, WhyKnown, ClosingTrue, Closing
    <3> QED
      BY <3>1, <3>3 DEF DeleteInput, row
  <2>2. CASE ~ inputFile[t] /\ status[t] = "completed"
    BY <2>2, FinalStep DEF Final
  <2>3. CASE ~ inputFile[t] /\ status[t] = "absent"
    <3>1. ASSUME NEW u \in Tasks, Submit(u)
          PROVE  status'[t] = "absent"
      BY <2>3, <3>1 DEF Submit, RowType, OutputType
    <3>2. ASSUME NEW w \in Workers, ClaimTask(w)
          PROVE  status'[t] = "absent"
      BY <2>3, <3>2 DEF ClaimTask, Claimable, RowType
    <3>3. ASSUME NEW w \in Workers, Guarded(w, task[w]),
                 FinalizeSuccess(w) \/ FinalizeFailure(w)
          PROVE  status'[t] = "absent"
      BY <2>3, <3>3 DEF FinalizeSuccess, FinalizeFailure, WriteFailure, Guarded, RowType
    <3> QED
      BY <2>3, <3>1, <3>2, <3>3, RowSteps
  <2> QED
    BY <2>1, <2>2, <2>3 DEF InputInv, InputGone
<1>2. LostToOther'
  <2> SUFFICES ASSUME NEW w \in Workers, why'[w] = "inputLost"
               PROVE  status'[task'[w]] = "completed"
    BY DEF LostToOther
  <2>1. task'[w] = task[w] /\ task[w] \in Tasks
    BY WhySteps DEF WorkerType, BusyOnTask
  <2>2. status[task[w]] = "completed"
    <3>1. CASE why[w] = "inputLost"
      BY <3>1 DEF InputInv, LostToOther
    <3>2. CASE pc[w] = "claimed" /\ ~ inputFile[task[w]]
      BY <2>1, <3>2 DEF InputInv, InputGone, TokenInv, TokenIssued, Active
    <3> QED
      BY <3>1, <3>2, WhySteps
  <2> QED
    BY <2>1, <2>2, FinalStep DEF Final
<1>3. ASSUME NEW t \in Tasks
      PROVE  reason'[t] # "inputLost"
  <2>1. ASSUME NEW w \in Workers, FinalizeSuccess(w), Guarded(w, task[w])
        PROVE  reason'[t] # "inputLost"
    BY <2>1 DEF FinalizeSuccess, InputInv, RowType
  <2>2. ASSUME NEW w \in Workers, FinalizeFailure(w), Guarded(w, task[w])
        PROVE  reason'[t] # "inputLost"
    <3>1. why[w] # "inputLost"
      BY <2>2 DEF Guarded, InputInv, LostToOther
    <3> QED
      BY <2>2, <3>1 DEF FinalizeFailure, WriteFailure, InputInv, RowType
  <2> QED
    BY <2>1, <2>2, RowSteps DEF Submit, ClaimTask, InputInv
<1> QED
  BY <1>1, <1>2, <1>3, StepAudit DEF InputInv

LEMMA InitInput == Init => InputInv
  BY InitAudit DEF Init, InputInv, InputGone, LostToOther

\* The input outlives every attempt that may need it, and no task is ever
\* failed for a missing input, whoever crashes or is taken over when.
THEOREM InputsKept == Spec => []InputKept
<1>1. InputInv => InputKept
  BY DEF InputInv, InputGone, InputKept
<1> QED
  BY <1>1, InitInput, StepInput, PTL DEF Spec

-----------------------------------------------------------------------------
(* The retry count.                                                        *)

\* The count read before the attempt is still the row's, as long as the worker
\* carries the row's token.
SeenCurrent ==
    \A w \in Workers :
        /\ pc[w] \in {"recognising", "recognised", "failing"}
        /\ token[w] = fence[task[w]]
        => seen[w] = retries[task[w]]

CountInv == TokenInv /\ SeenCurrent /\ RetriesUsed

\* How a worker comes to hold a count.
LEMMA SeenSteps ==
  ASSUME TypeInv, [Next]_vars, NEW v \in Workers,
         pc'[v] \in {"recognising", "recognised", "failing"}
  PROVE  /\ task'[v] = task[v] /\ token'[v] = token[v] /\ Active(v)
         /\ \/ /\ pc[v] \in {"recognising", "recognised", "failing"}
               /\ seen'[v] = seen[v]
            \/ seen'[v] = retries[task[v]] /\ UNCHANGED row
<1> DEFINE Kept == /\ pc[v] \in {"recognising", "recognised", "failing"}
                   /\ task'[v] = task[v] /\ token'[v] = token[v]
                   /\ seen'[v] = seen[v]
<1> WorkerType
  BY DEF TypeInv
<1>1. ASSUME NEW w \in Workers, GoIdle(w)
      PROVE  Kept
  BY <1>1 DEF GoIdle, WorkerType
<1>2. ASSUME NEW w \in Workers, SelectTask(w) \/ ClaimTask(w) \/ Recognise(w)
      PROVE  Kept
  BY <1>2 DEF SelectTask, ClaimTask, Recognise, WorkerType
<1>3. ASSUME NEW w \in Workers, LoadTask(w)
      PROVE  \/ Kept
             \/ /\ task'[v] = task[v] /\ token'[v] = token[v]
                /\ pc[v] = "claimed"
                /\ seen'[v] = retries[task[v]] /\ UNCHANGED row
  BY <1>3 DEF LoadTask, WorkerType
<1>4. ASSUME NEW w \in Workers,
             FinalizeSuccess(w) \/ FinalizeFailure(w) \/ DeleteInput(w)
      PROVE  Kept
  BY <1>1, <1>4
  DEF FinalizeSuccess, FinalizeFailure, ToAudit, DeleteInput, local, WorkerType
<1>5. ASSUME UNCHANGED <<pc, local>>
      PROVE  Kept
  BY <1>5 DEF local
<1>6. Kept => Active(v)
  BY DEF Active
<1>7. pc[v] = "claimed" => Active(v)
  BY DEF Active
<1> QED
  BY <1>1, <1>2, <1>3, <1>4, <1>5, <1>6, <1>7
  DEF Next, WorkerStep, Submit, Poll, WaitTimeout, LoseClaim, RecordAudit,
      Heartbeat, Crash, HeartbeatDies, Tick, vars, worker

LEMMA StepCount == CountInv /\ [Next]_vars => CountInv'
<1> SUFFICES ASSUME CountInv, [Next]_vars PROVE CountInv'
  OBVIOUS
<1> TokenInv /\ TypeInv /\ RowType /\ WorkerType
  BY DEF CountInv, TokenInv, TypeInv
<1>1. SeenCurrent'
  <2> SUFFICES ASSUME NEW v \in Workers,
                      pc'[v] \in {"recognising", "recognised", "failing"},
                      token'[v] = fence'[task'[v]]
               PROVE  seen'[v] = retries'[task'[v]]
    BY DEF SeenCurrent
  <2>1. task'[v] = task[v] /\ token'[v] = token[v] /\ Active(v) /\ task[v] \in Tasks
    BY SeenSteps DEF Active, WorkerType, BusyOnTask
  <2>2. CASE UNCHANGED <<fence, retries>>
    BY <2>1, <2>2, SeenSteps DEF CountInv, SeenCurrent
  <2>3. ASSUME NEW w \in Workers, ClaimTask(w)
        PROVE  seen'[v] = retries'[task'[v]]
    <3>1. task[w] # task[v]
      <4>1. v # w /\ token[v] <= fence[task[v]] /\ fence[task[v]] \in Nat
            /\ task[w] \in Tasks
        BY <2>1, <2>3
        DEF ClaimTask, Active, TokenInv, TokenIssued, RowType, WorkerType, BusyOnTask
      <4>2. ASSUME task[w] = task[v]
            PROVE  fence'[task[v]] = fence[task[v]] + 1
        BY <2>1, <2>3, <4>1, <4>2 DEF ClaimTask, NextToken, RowType
      <4> QED
        BY <2>1, <4>1, <4>2 DEF WorkerType
    <3>2. fence'[task[v]] = fence[task[v]] /\ retries' = retries
      BY <2>1, <2>3, <3>1 DEF ClaimTask, RowType
    <3>3. ~ UNCHANGED row
      BY <2>3 DEF ClaimTask, NextToken, row, RowType, WorkerType, BusyOnTask
    <3> QED
      BY <2>1, <3>2, <3>3, SeenSteps DEF CountInv, SeenCurrent
  <2>4. ASSUME NEW w \in Workers, FinalizeFailure(w), Guarded(w, task[w])
        PROVE  seen'[v] = retries'[task'[v]]
    <3>1. v # w
      BY <2>4 DEF FinalizeFailure, ToAudit, GoIdle, WorkerType
    <3>2. task[w] # task[v]
      <4>1. Active(w) /\ token[w] = fence[task[w]] /\ fence' = fence
        BY <2>4 DEF FinalizeFailure, WriteFailure, Guarded, Active
      <4> QED
        BY <2>1, <3>1, <4>1 DEF TokenInv, TokenUnique
    <3>3. fence' = fence /\ retries'[task[v]] = retries[task[v]]
      BY <2>1, <2>4, <3>2 DEF FinalizeFailure, WriteFailure, Guarded, RowType
    <3>4. ~ UNCHANGED row
      BY <2>4 DEF FinalizeFailure, WriteFailure, Guarded, row, RowType, WorkerType,
                  BusyOnTask
    <3> QED
      BY <2>1, <3>3, <3>4, SeenSteps DEF CountInv, SeenCurrent
  <2> QED
    BY <2>2, <2>3, <2>4, RowSteps DEF Submit, FinalizeSuccess
<1>2. RetriesUsed'
  <2> SUFFICES ASSUME NEW t \in Tasks, status'[t] = "failed", reason'[t] = "ocr"
               PROVE  retries'[t] = MaxRetries
    BY DEF RetriesUsed
  <2>1. CASE status[t] = "failed"
    BY <2>1, FinalStep DEF CountInv, RetriesUsed, Final
  <2>2. CASE status[t] # "failed"
    <3>1. PICK w \in Workers : FinalizeFailure(w) /\ Guarded(w, task[w])
      BY <2>2, RowSteps DEF Submit, ClaimTask, FinalizeSuccess, RowType
    <3>2. task[w] = t /\ WriteFailure(w, t)
      BY <2>2, <3>1 DEF FinalizeFailure, WriteFailure, RowType
    <3>3. why[w] = "ocr" /\ ~ CanRetry(w) /\ retries'[t] = retries[t]
      BY <2>2, <3>2 DEF WriteFailure, RowType
    <3>4. seen[w] = retries[t]
      BY <3>1, <3>2 DEF FinalizeFailure, Guarded, CountInv, SeenCurrent
    <3>5. seen[w] \in 0..MaxRetries /\ ~ (seen[w] < MaxRetries)
      BY <3>3 DEF CanRetry, WorkerType
    <3> QED
      BY <3>3, <3>4, <3>5, OcrConstants
  <2> QED
    BY <2>1, <2>2
<1> QED
  BY <1>1, <1>2, StepToken DEF CountInv

LEMMA InitCount == Init => CountInv
  BY InitToken DEF Init, CountInv, SeenCurrent, RetriesUsed

\* A task given up for an OCR error used all its retries.
THEOREM RetriesAllUsed == Spec => []RetriesUsed
<1>1. CountInv => RetriesUsed
  BY DEF CountInv
<1> QED
  BY <1>1, InitCount, StepCount, PTL DEF Spec

-----------------------------------------------------------------------------
(* Leases on time.                                                         *)

\* A row whose current token is carried is not waiting to be claimed.
HeldNotPending ==
    \A w \in Workers :
        Active(w) /\ token[w] = fence[task[w]] => status[task[w]] # "pending"

\* The lock of a worker with a heartbeat is no older than its last heartbeat,
\* and that is not older than the interval.
LockFresh ==
    \A w \in Workers :
        Beating(w) =>
            /\ hbAge[w] <= HbInterval
            /\ token[w] = fence[task[w]] => lockAge[task[w]] <= hbAge[w]

LeaseInv == TokenInv /\ HeldNotPending /\ LockFresh

LEMMA StepPending ==
  ASSUME TokenInv, HeldNotPending, [Next]_vars
  PROVE  HeldNotPending'
<1> TypeInv /\ RowType /\ WorkerType /\ TokenIssued /\ TokenUnique
  BY DEF TokenInv, TypeInv
<1> SUFFICES ASSUME NEW v \in Workers, Active(v)', token'[v] = fence'[task'[v]]
             PROVE  status'[task'[v]] # "pending"
  BY DEF HeldNotPending
<1>1. ASSUME NEW w \in Workers, ClaimTask(w)
      PROVE  status'[task'[v]] # "pending"
  <2> DEFINE t == task[w]
  <2>1. /\ t \in Tasks /\ task' = task
        /\ status' = [status EXCEPT ![t] = "processing"]
        /\ fence' = [fence EXCEPT ![t] = fence[t] + 1]
        /\ v # w => pc'[v] = pc[v] /\ token'[v] = token[v]
    BY <1>1 DEF ClaimTask, NextToken, WorkerType, BusyOnTask
  <2>2. CASE task[v] = t
    BY <2>1, <2>2 DEF RowType
  <2>3. CASE task[v] # t
    <3>1. v # w /\ Active(v) /\ task[v] \in Tasks
      BY <2>1, <2>3 DEF Active, WorkerType, BusyOnTask
    <3>2. token[v] = fence[task[v]] /\ status'[task[v]] = status[task[v]]
      BY <2>1, <2>3, <3>1 DEF RowType
    <3> QED
      BY <2>1, <3>1, <3>2 DEF HeldNotPending
  <2> QED
    BY <2>2, <2>3
<1>2. CASE NoNewHolder
  <2>1. /\ Active(v) /\ task'[v] = task[v] /\ token'[v] = token[v]
        /\ token[v] = fence[task[v]] /\ task[v] \in Tasks
        /\ status[task[v]] \notin {"absent", "pending"}
    BY <1>2 DEF NoNewHolder, TokenIssued, HeldNotPending, WorkerType, BusyOnTask, Active
  <2>2. ASSUME NEW t \in Tasks, Submit(t)
        PROVE  status'[task[v]] # "pending"
    BY <2>1, <2>2 DEF Submit, RowType
  <2>3. ASSUME NEW w \in Workers, FinalizeSuccess(w), Guarded(w, task[w])
        PROVE  status'[task[v]] # "pending"
    BY <2>1, <2>3 DEF FinalizeSuccess, RowType
  <2>4. ASSUME NEW w \in Workers, FinalizeFailure(w), Guarded(w, task[w])
        PROVE  status'[task[v]] # "pending"
    <3>1. status' = [status EXCEPT ![task[w]] =
                         IF CanRetry(w) THEN "pending" ELSE "failed"]
      BY <2>4 DEF FinalizeFailure, WriteFailure
    <3>2. CASE task[v] # task[w] \/ ~ CanRetry(w)
      BY <2>1, <3>1, <3>2 DEF RowType
    <3>3. CASE task[v] = task[w] /\ CanRetry(w)
      <4>1. GoIdle(w) /\ Active(w)
        BY <2>4, <3>3 DEF FinalizeFailure, Active
      <4>2. v = w
        BY <2>1, <2>4, <3>3, <4>1 DEF TokenUnique, Guarded
      <4> QED
        BY <4>1, <4>2 DEF GoIdle, Active, WorkerType
    <3> QED
      BY <3>2, <3>3
  <2>5. CASE UNCHANGED status
    BY <2>1, <2>5
  <2>6. ASSUME NEW w \in Workers, ClaimTask(w)
        PROVE  status'[task'[v]] # "pending"
    BY <1>1, <2>6
  <2> QED
    BY <2>1, <2>2, <2>3, <2>4, <2>5, <2>6, RowSteps
<1> QED
  BY <1>1, <1>2, StepHolder

\* What a step other than the clock's does to the ages a beating worker is judged
\* by: nothing, or the lock has just been renewed.
AgesKept(v) ==
    /\ Beating(v) /\ hbAge'[v] = hbAge[v]
    /\ UNCHANGED <<task[v], token[v], fence[task[v]], lockAge[task[v]]>>

Renewed(v) ==
    /\ lockAge'[task'[v]] = 0
    /\ \/ hbAge'[v] = 0
       \/ Beating(v) /\ hbAge'[v] = hbAge[v]

LEMMA AgeSteps ==
  ASSUME TypeInv, [Next]_vars, NEW v \in Workers, Beating(v)'
  PROVE  Tick \/ AgesKept(v) \/ Renewed(v)
<1> RowType /\ WorkerType
  BY DEF TypeInv
<1> USE DEF AgesKept, Renewed, Beating, Active
<1>1. ASSUME NEW t \in Tasks, Submit(t) \/ Poll(t) \/ WaitTimeout(t)
      PROVE  AgesKept(v)
  BY <1>1 DEF Submit, Poll, WaitTimeout, row, worker, local
<1>2. ASSUME NEW w \in Workers, GoIdle(w), UNCHANGED row
      PROVE  AgesKept(v)
  <2>1. v # w
    BY <1>2 DEF GoIdle, WorkerType
  <2> QED
    BY <1>2, <2>1 DEF GoIdle, WorkerType, row
<1>3. ASSUME NEW w \in Workers, SelectTask(w)
      PROVE  AgesKept(v)
  <2>1. v # w
    BY <1>3 DEF SelectTask, WorkerType
  <2> QED
    BY <1>3, <2>1 DEF SelectTask, WorkerType, row
<1>7. ASSUME NEW w \in Workers, LoadTask(w) \/ Recognise(w) \/ DeleteInput(w)
      PROVE  AgesKept(v)
  <2>1. UNCHANGED <<row, task, token, hbAge, hbAlive>>
    BY <1>7 DEF LoadTask, Recognise, DeleteInput, local
  <2>2. Active(v)
    BY <1>7 DEF LoadTask, Recognise, DeleteInput, WorkerType
  <2> QED
    BY <2>1, <2>2 DEF row
<1>4. ASSUME NEW w \in Workers, ClaimTask(w)
      PROVE  AgesKept(v) \/ Renewed(v)
  <2>1. task[w] \in Tasks
    BY <1>4 DEF ClaimTask, WorkerType, BusyOnTask
  <2>2. CASE v = w
    <3>1. hbAge'[v] = 0 /\ task'[v] = task[w]
      BY <1>4, <2>2 DEF ClaimTask, WorkerType
    <3>2. lockAge'[task[w]] = 0
      BY <1>4, <2>1 DEF ClaimTask, RowType
    <3> QED
      BY <3>1, <3>2
  <2>3. CASE v # w
    <3>1. Beating(v) /\ UNCHANGED <<hbAge[v], task[v], token[v]>>
      BY <1>4, <2>3 DEF ClaimTask, WorkerType
    <3>2. CASE task[v] = task[w]
      BY <1>4, <2>1, <3>1, <3>2 DEF ClaimTask, RowType
    <3>3. CASE task[v] # task[w]
      <4>1. task[v] \in Tasks
        BY <3>1 DEF WorkerType, BusyOnTask
      <4> QED
        BY <1>4, <2>1, <3>1, <3>3, <4>1 DEF ClaimTask, RowType
    <3> QED
      BY <3>2, <3>3
  <2> QED
    BY <2>2, <2>3
<1>5. ASSUME NEW w \in Workers,
             \/ FinalizeSuccess(w) \/ FinalizeFailure(w) \/ Heartbeat(w)
      PROVE  AgesKept(v) \/ Renewed(v)
  <2>1. CASE ~ Guarded(w, task[w])
    BY <1>2, <1>5, <2>1 DEF FinalizeSuccess, FinalizeFailure, Heartbeat
  <2>2. CASE Guarded(w, task[w])
    <3>1. /\ task[w] \in Tasks
          /\ lockAge' = [lockAge EXCEPT ![task[w]] = 0] /\ fence' = fence
      BY <1>5, <2>2
      DEF FinalizeSuccess, FinalizeFailure, Heartbeat, WriteFailure, Overdue,
          WorkerType, BusyOnTask
    <3>2. CASE GoIdle(w)
      <4>1. v # w
        BY <3>2 DEF GoIdle, WorkerType
      <4>2. Beating(v) /\ UNCHANGED <<hbAge[v], task[v], token[v]>>
        BY <3>2, <4>1 DEF GoIdle, WorkerType
      <4> QED
        BY <3>1, <4>2 DEF RowType, WorkerType, BusyOnTask
    <3>3. CASE UNCHANGED <<local, hbAge, hbAlive>>
      <4>1. Beating(v)
        BY <1>5, <2>2, <3>3
        DEF FinalizeSuccess, FinalizeFailure, Heartbeat, ToAudit, GoIdle, Overdue,
            WorkerType
      <4> QED
        BY <3>1, <3>3, <4>1 DEF RowType, WorkerType, BusyOnTask, local
    <3>4. CASE Heartbeat(w)
      <4>1. /\ UNCHANGED <<pc, local, hbAlive>>
            /\ hbAge' = [hbAge EXCEPT ![w] = 0]
        BY <2>2, <3>4 DEF Heartbeat
      <4>2. Beating(v) /\ task[v] \in Tasks
        BY <4>1 DEF WorkerType, BusyOnTask
      <4> QED
        BY <3>1, <4>1, <4>2 DEF RowType, WorkerType, local
    <3> QED
      BY <1>5, <2>2, <3>2, <3>3, <3>4 DEF FinalizeSuccess, FinalizeFailure, ToAudit
  <2> QED
    BY <2>1, <2>2
<1>6. CASE (\E w \in Workers : HeartbeatDies(w)) \/ UNCHANGED vars
  BY <1>6 DEF HeartbeatDies, vars, row, worker, local, WorkerType
<1> QED
  BY <1>1, <1>2, <1>3, <1>4, <1>5, <1>6, <1>7
  DEF Next, WorkerStep, LoseClaim, RecordAudit, Crash

LEMMA StepFresh ==
  ASSUME Timely, TypeInv, LockFresh, [Next]_vars
  PROVE  LockFresh'
<1> RowType /\ WorkerType /\ RowType' /\ WorkerType'
  BY StepType DEF TypeInv
<1> SUFFICES ASSUME NEW v \in Workers, Beating(v)'
             PROVE  /\ hbAge'[v] <= HbInterval
                    /\ token'[v] = fence'[task'[v]] => lockAge'[task'[v]] <= hbAge'[v]
  BY DEF LockFresh
<1>0. HbInterval \in Nat /\ hbAge[v] \in Nat /\ hbAge'[v] \in Nat
  BY OcrConstants DEF WorkerType
<1>1. CASE AgesKept(v)
  BY <1>1 DEF AgesKept, LockFresh
<1>2. CASE Renewed(v)
  BY <1>0, <1>2 DEF Renewed, LockFresh
<1>3. CASE Tick
  <2>1. /\ Beating(v) /\ task[v] \in Tasks
        /\ UNCHANGED <<task, token, fence>>
    BY <1>3 DEF Tick, Beating, Active, local, WorkerType, BusyOnTask
  <2>2. hbAge[v] < HbInterval
    BY <1>0, <1>3, <2>1 DEF Tick, Overdue
  <2>3. hbAge'[v] = hbAge[v] + 1
    BY <1>3, <2>1, <2>2 DEF Tick
  <2>4. lockAge'[task[v]] <= lockAge[task[v]] + 1 /\ lockAge[task[v]] \in Nat
    BY <1>3, <2>1 DEF Tick, RowType
  <2>5. lockAge'[task[v]] \in Nat
    BY <2>1 DEF RowType
  <2> QED
    BY <1>0, <2>1, <2>2, <2>3, <2>4, <2>5 DEF LockFresh
<1> QED
  BY <1>1, <1>2, <1>3, AgeSteps

LEMMA LeaseStep ==
  ASSUME LeaseInv, [Next]_vars, NEW t \in Tasks, NEW w \in Workers,
         Beating(w), task[w] = t, token[w] = fence[t]
  PROVE  fence'[t] = fence[t]
<1> TypeInv /\ RowType /\ WorkerType
  BY DEF LeaseInv, TokenInv, TypeInv
<1>1. CASE NoNewHolder
  BY <1>1 DEF NoNewHolder
<1>2. ASSUME NEW u \in Workers, ClaimTask(u)
      PROVE  fence'[t] = fence[t]
  <2>1. lockAge[t] <= hbAge[w] /\ hbAge[w] <= HbInterval /\ status[t] # "pending"
    BY DEF LeaseInv, LockFresh, HeldNotPending, Beating
  <2>2. ~ Claimable(t)
    <3>1. lockAge[t] \in Nat /\ hbAge[w] \in Nat
      BY DEF RowType, WorkerType
    <3> QED
      BY <2>1, <3>1, OcrConstants DEF Claimable
  <2>3. task[u] # t /\ task[u] \in Tasks
    BY <1>2, <2>2 DEF ClaimTask, WorkerType, BusyOnTask
  <2> QED
    BY <1>2, <2>3 DEF ClaimTask, RowType
<1> QED
  BY <1>1, <1>2, StepHolder

\* Where the event loops do not stall, the lease of a worker whose heartbeat runs
\* is not taken over, through the retries and takeovers of everybody else.
THEOREM LeasesAreKept ==
  ASSUME Timely
  PROVE  Spec => LeaseKept
<1>1. Init => LeaseInv
  BY InitToken DEF Init, LeaseInv, HeldNotPending, LockFresh, Beating, Active
<1>2. LeaseInv /\ [Next]_vars => LeaseInv'
  BY StepToken, StepPending, StepFresh DEF LeaseInv, TokenInv
<1>3. LeaseInv /\ [Next]_vars =>
          [\A t \in Tasks, w \in Workers :
              /\ Beating(w)
              /\ task[w] = t /\ token[w] = fence[t]
              => fence'[t] = fence[t]]_vars
  BY LeaseStep
<1> QED
  BY <1>1, <1>2, <1>3, PTL DEF Spec, LeaseKept

-----------------------------------------------------------------------------
(* The rows implement OcrTaskLife.                                         *)

LifeInv == CountInv /\ CandidatesOnce /\ AnswerTrue

LEMMA StepLife == LifeInv /\ [Next]_vars => [Life!LifeNext]_Life!life
<1> SUFFICES ASSUME LifeInv, [Next]_vars
             PROVE  Life!LifeNext \/ UNCHANGED <<status, retries, batches>>
  BY DEF Life!life
<1> TypeInv /\ RowType /\ OutputType /\ WorkerType
  BY DEF LifeInv, CountInv, TokenInv, TypeInv
<1>1. ASSUME NEW t \in Tasks, Submit(t)
      PROVE  Life!Submit(t)
  BY <1>1 DEF Submit, Life!Submit, Life!Move
<1>2. ASSUME NEW w \in Workers, ClaimTask(w)
      PROVE  Life!Start(task[w]) \/ UNCHANGED <<status, retries, batches>>
  <2>1. CASE status[task[w]] = "pending"
    BY <1>2, <2>1 DEF ClaimTask, Life!Start, Life!Move, output
  <2>2. CASE status[task[w]] = "processing"
    BY <1>2, <2>2 DEF ClaimTask, RowType, output
  <2> QED
    BY <1>2, <2>1, <2>2 DEF ClaimTask, Claimable
<1>3. ASSUME NEW w \in Workers, FinalizeSuccess(w), Guarded(w, task[w])
      PROVE  Life!Complete(task[w])
  BY <1>3 DEF FinalizeSuccess, Guarded, Life!Complete, Life!Move
<1>4. ASSUME NEW w \in Workers, FinalizeFailure(w), Guarded(w, task[w])
      PROVE  Life!Retry(task[w]) \/ Life!Fail(task[w])
  <2> DEFINE t == task[w]
  <2>1. seen[w] = retries[t] /\ t \in Tasks /\ status[t] = "processing"
    BY <1>4 DEF FinalizeFailure, Guarded, LifeInv, CountInv, SeenCurrent, WorkerType,
                BusyOnTask
  <2>2. CASE CanRetry(w)
    <3>1. /\ status' = [status EXCEPT ![t] = "pending"]
          /\ retries' = [retries EXCEPT ![t] = retries[t] + 1]
          /\ retries[t] < MaxRetries
          /\ batches' = batches
      BY <1>4, <2>1, <2>2 DEF FinalizeFailure, WriteFailure, Guarded, CanRetry, output
    <3> QED
      BY <2>1, <3>1 DEF Life!Retry, Life!Move
  <2>3. CASE ~ CanRetry(w)
    <3>1. /\ status' = [status EXCEPT ![t] = "failed"]
          /\ retries' = retries
          /\ batches' = batches
      BY <1>4, <2>1, <2>3 DEF FinalizeFailure, WriteFailure, Guarded, RowType, output
    <3> QED
      BY <2>1, <3>1 DEF Life!Fail, Life!Move
  <2> QED
    BY <2>2, <2>3
<1>5. \A w \in Workers : pc[w] # "idle" => task[w] \in Tasks
  BY DEF WorkerType, BusyOnTask
<1> QED
  BY <1>1, <1>2, <1>3, <1>4, <1>5, RowSteps
  DEF Life!LifeNext, ClaimTask, FinalizeSuccess, FinalizeFailure

LEMMA InitLife == Init => LifeInv /\ Life!LifeInit
  BY InitCount, InitBatch DEF Init, LifeInv, Life!LifeInit

\* Seen from the rows, the workers with their leases, takeovers and crashes do
\* no more than the task life the submitter relies on.
THEOREM LifeRefined == Spec => LifeImplemented
<1>1. LifeInv /\ [Next]_vars => LifeInv'
  BY StepCount, StepBatch DEF LifeInv, CountInv, TokenInv
<1> QED
  BY <1>1, InitLife, StepLife, PTL DEF Spec, LifeImplemented, Life!LifeSpec
=============================================================================
