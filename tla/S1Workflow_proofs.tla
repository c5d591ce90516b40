-------------------------- MODULE S1Workflow_proofs --------------------------
(***************************************************************************)
(* Theorems of S1Workflow, for any projects and runs, any faults and any   *)
(* number of cancels and expiries, and of the scene "slot" of MC_S1Scenes. *)
(***************************************************************************)
EXTENDS MC_S1Scenes, SequenceTheorems, WellFoundedInduction, TLAPS

-----------------------------------------------------------------------------
(* Types.                                                                  *)

\* A worker that is past its queue has a job in hand.
Holding == \A w \in Workers : pc[w] \notin {"boot", "idle"} => job[w] \in Jobs

TypeInv == TypeOK /\ Holding

LEMMA JobParts ==
  /\ \A j \in Jobs : j.kind \in Kinds /\ j.run \in Runs /\ j.err \in BOOLEAN
                     /\ Id(j) \in JobIds /\ P(j.run) \in Projects
  /\ \A k \in Kinds, r \in Runs, e \in BOOLEAN :
        /\ Job(k, r, e) \in Jobs /\ Id(Job(k, r, e)) = <<k, r>>
        /\ <<k, r>> \in JobIds
  /\ \A r \in Runs : P(r) \in Projects
  BY S1Constants DEF Jobs, Job, Id, JobIds, P

LEMMA ProgressParts ==
  /\ Idle0 \in Progress
  /\ \A g \in Progress :
        /\ g.run \in Runs \cup {NoRun}
        /\ Cancelled(g) \in Progress
        /\ \A r \in Runs : [g EXCEPT !.run = r] \in Progress
        /\ \A s \in {"idle", "queued", "running", "completed", "failed", "cancelled"} :
              [g EXCEPT !.status = s] \in Progress
  BY DEF Progress, Idle0, Cancelled, ParseEnded

LEMMA InitTypes == Init => TypeInv
<1> SUFFICES ASSUME Init PROVE TypeInv
  OBVIOUS
<1>1. /\ genLock \in [Projects -> Runs \cup {NoRun}]
      /\ wfLock \in Runs \cup {NoRun}
      /\ inflight \subseteq JobIds /\ cancelKey \subseteq Runs
      /\ result \in [Projects -> Runs \cup {NoRun}]
      /\ req \in [Runs -> ReqPcs]
      /\ faults \in Nat /\ expiries \in Nat /\ cancels \in Nat
  BY DEF Init, Quiet, ReqPcs
<1>2. queue \in [Workers -> Seq(Jobs)] /\ proc \in [Workers -> Seq(Jobs)]
  <2>1. <<>> \in Seq(Jobs)
    BY EmptySeq
  <2> QED
    BY <2>1 DEF Init, Quiet
<1>3. status \in [JobIds -> Statuses] /\ pc \in [Workers -> Pcs]
  BY DEF Init, Quiet, Statuses, Pcs
<1>4. progress \in [Projects -> Progress] /\ copy \in [Readers -> Progress]
  BY ProgressParts DEF Init, Quiet
<1>5. job \in [Workers -> Jobs \cup {NoJob}]
  BY DEF Init, Quiet
<1>6. fin \in [Workers -> [release : BOOLEAN, raise : BOOLEAN]]
  BY DEF Init, Quiet, NoEnd
<1>7. TypeOK
  BY <1>1, <1>2, <1>3, <1>4, <1>5, <1>6 DEF TypeOK
<1> QED
  BY <1>7 DEF Init, Quiet, TypeInv, Holding

LEMMA AddParseTypes ==
  ASSUME TypeInv, NEW r \in Runs, AddParse(r)
  PROVE  queue' \in [Workers -> Seq(Jobs)] /\ status' \in [JobIds -> Statuses]
<1>1. /\ queue \in [Workers -> Seq(Jobs)] /\ status \in [JobIds -> Statuses]
      /\ Job("parse", r, FALSE) \in Jobs
  BY JobParts DEF TypeInv, TypeOK, Kinds
<1>2. Append(queue["main"], Job("parse", r, FALSE)) \in Seq(Jobs)
  BY <1>1, AppendProperties DEF Workers
<1>3. queue' \in [Workers -> Seq(Jobs)]
  BY <1>1, <1>2 DEF AddParse
<1>4. status' \in [JobIds -> Statuses]
  BY <1>1 DEF AddParse, Statuses
<1> QED
  BY <1>3, <1>4

LEMMA TypesRequest ==
  ASSUME TypeInv, NEW r \in Runs, Request(r) \/ PushFails(r) \/ ApiCrash(r)
  PROVE  TypeInv'
<1>t. /\ genLock \in [Projects -> Runs \cup {NoRun}]
      /\ progress \in [Projects -> Progress] /\ copy \in [Readers -> Progress]
      /\ req \in [Runs -> ReqPcs] /\ P(r) \in Projects /\ faults \in Nat
      /\ r \in Readers
  BY JobParts DEF TypeInv, TypeOK, Readers
<1>1. CASE CheckLock(r)
  <2>1. req' \in [Runs -> ReqPcs]
    BY <1>1, <1>t DEF CheckLock, ReqGo, ReqPcs
  <2> QED
    BY <1>1, <2>1 DEF CheckLock, TypeInv, TypeOK, Holding, redis, db, wk, bounds
<1>2. CASE ResetProgress(r)
  <2>1. req' \in [Runs -> ReqPcs]
    BY <1>2, <1>t DEF ResetProgress, ReqGo, ReqPcs
  <2>2. progress' \in [Projects -> Progress]
    BY <1>2, <1>t DEF ResetProgress, Progress
  <2> QED
    BY <1>2, <2>1, <2>2 DEF ResetProgress, TypeInv, TypeOK, Holding, redis, wk, bounds
<1>3. CASE TakeLock(r)
  <2>1. req' \in [Runs -> ReqPcs] /\ genLock' \in [Projects -> Runs \cup {NoRun}]
    BY <1>3, <1>t DEF TakeLock, ReqGo, ReqPcs
  <2> QED
    BY <1>3, <2>1 DEF TakeLock, TypeInv, TypeOK, Holding, db, wk, bounds
<1>4. CASE PushJob(r)
  <2>1. req' \in [Runs -> ReqPcs]
    BY <1>4, <1>t DEF PushJob, ReqGo, ReqPcs
  <2>2. queue' \in [Workers -> Seq(Jobs)] /\ status' \in [JobIds -> Statuses]
    BY <1>4, AddParseTypes DEF PushJob
  <2> QED
    BY <1>4, <2>1, <2>2 DEF PushJob, TypeInv, TypeOK, Holding, db, wk, bounds
<1>5. CASE BindRead(r)
  <2>1. req' \in [Runs -> ReqPcs] /\ copy' \in [Readers -> Progress]
    BY <1>5, <1>t DEF BindRead, ReqGo, ReqPcs
  <2> QED
    BY <1>5, <2>1 DEF BindRead, TypeInv, TypeOK, Holding, redis, db, wk, bounds
<1>6. CASE BindWrite(r)
  <2>1. req' \in [Runs -> ReqPcs] /\ copy' \in [Readers -> Progress]
    BY <1>6, <1>t, ProgressParts DEF BindWrite, ReqGo, ReqPcs
  <2>2. progress' \in [Projects -> Progress]
    BY <1>6, <1>t, ProgressParts DEF BindWrite
  <2> QED
    BY <1>6, <2>1, <2>2 DEF BindWrite, TypeInv, TypeOK, Holding, redis, wk, bounds
<1>7. CASE PushFails(r)
  <2>1. /\ req' \in [Runs -> ReqPcs] /\ genLock' \in [Projects -> Runs \cup {NoRun}]
        /\ faults' \in Nat
    BY <1>7, <1>t DEF PushFails, ReqGo, ReqPcs, Fault
  <2>2. progress' \in [Projects -> Progress]
    BY <1>7, <1>t, ProgressParts DEF PushFails
  <2>3. queue' \in [Workers -> Seq(Jobs)] /\ status' \in [JobIds -> Statuses]
    BY <1>7, AddParseTypes DEF PushFails, TypeInv, TypeOK
  <2> QED
    BY <1>7, <2>1, <2>2, <2>3 DEF PushFails, TypeInv, TypeOK, Holding, wk
<1>8. CASE ApiCrash(r)
  <2>1. /\ req' \in [Runs -> ReqPcs] /\ faults' \in Nat
        /\ copy' \in [Readers -> Progress]
    BY <1>8, <1>t, ProgressParts DEF ApiCrash, ReqPcs, Fault
  <2> QED
    BY <1>8, <2>1 DEF ApiCrash, TypeInv, TypeOK, Holding, redis, db, wk
<1> QED
  BY <1>1, <1>2, <1>3, <1>4, <1>5, <1>6, <1>7, <1>8 DEF Request

LEMMA AskedTypes ==
  ASSUME TypeInv, NEW p \in Projects, AskCancel(p)
  PROVE  cancelKey' \subseteq Runs
<1>1. progress[p] \in Progress /\ cancelKey \subseteq Runs
  BY DEF TypeInv, TypeOK
<1> QED
  BY <1>1, ProgressParts DEF AskCancel

LEMMA TypesCancel ==
  ASSUME TypeInv, NEW p \in Projects, CancelRead(p) \/ CancelWrite(p)
  PROVE  TypeInv'
<1>t. /\ progress \in [Projects -> Progress] /\ copy \in [Readers -> Progress]
      /\ cancels \in Nat /\ p \in Readers
  BY DEF TypeInv, TypeOK, Readers
<1>1. CASE CancelRead(p)
  <2>1. cancels' \in Nat /\ copy' \in [Readers -> Progress]
    BY <1>1, <1>t DEF CancelRead
  <2>2. cancelKey' \subseteq Runs
    BY <1>1, AskedTypes DEF CancelRead
  <2> QED
    BY <1>1, <2>1, <2>2 DEF CancelRead, TypeInv, TypeOK, Holding, db, wk
<1>2. CASE CancelWrite(p)
  <2>1. copy' \in [Readers -> Progress] /\ progress' \in [Projects -> Progress]
    BY <1>2, <1>t, ProgressParts DEF CancelWrite
  <2> QED
    BY <1>2, <2>1 DEF CancelWrite, TypeInv, TypeOK, Holding, redis, wk, bounds
<1> QED
  BY <1>1, <1>2

\* A set of numbers that is not empty has a least one.
LEMMA LeastNat ==
  ASSUME NEW I, I \subseteq Nat, I # {}
  PROVE  \E x \in I : \A y \in I : x <= y
<1> DEFINE R == OpToRel(<, Nat)
<1>1. \E x \in I : \A y \in I : <<y, x>> \notin R
  BY NatLessThanWellFounded, WFMin, Zenon
<1>2. \A x, y \in Nat : <<y, x>> \in R <=> y < x
  BY Zenon DEF OpToRel
<1> HIDE DEF R
<1>3. PICK x \in I : \A y \in I : <<y, x>> \notin R
  BY <1>1
<1>4. ASSUME NEW y \in I PROVE x <= y
  <2>1. ~ (y < x) /\ x \in Nat /\ y \in Nat
    BY <1>2, <1>3
  <2> QED
    BY <2>1
<1> QED
  BY <1>4

\* What RemoveFirst does to a sequence that has the element.
LEMMA RemoveFirstCut ==
  ASSUME NEW s \in Seq(Jobs), NEW j, NEW k \in 1..Len(s), s[k] = j
  PROVE  \E n \in 1..Len(s) :
            /\ s[n] = j
            /\ RemoveFirst(s, j) = SubSeq(s, 1, n - 1) \o SubSeq(s, n + 1, Len(s))
<1> DEFINE I == {i \in 1..Len(s) : s[i] = j}
           n == SelectInSeq(s, LAMBDA v : v = j)
<1>1. I # {} /\ I \subseteq Nat
  OBVIOUS
<1>2. n = Min(I)
  BY <1>1 DEF SelectInSeq
<1>3. Min(I) \in I
  BY <1>1, LeastNat DEF Min
<1>4. RemoveFirst(s, j) = SubSeq(s, 1, n - 1) \o SubSeq(s, n + 1, Len(s))
  BY DEF RemoveFirst, RemoveAt
<1> HIDE DEF n
<1> QED
  BY <1>2, <1>3, <1>4

LEMMA RemoveFirstType ==
  ASSUME NEW s \in Seq(Jobs), NEW j
  PROVE  RemoveFirst(s, j) \in Seq(Jobs)
<1>1. CASE \E k \in 1..Len(s) : s[k] = j
  <2>1. PICK n \in 1..Len(s) :
           RemoveFirst(s, j) = SubSeq(s, 1, n - 1) \o SubSeq(s, n + 1, Len(s))
    BY <1>1, RemoveFirstCut
  <2>2. Len(s) \in Nat /\ n - 1 \in 0..Len(s) /\ n + 1 \in 1..(Len(s) + 1)
    BY LenProperties
  <2>3. SubSeq(s, 1, n - 1) \in Seq(Jobs) /\ SubSeq(s, n + 1, Len(s)) \in Seq(Jobs)
    BY <2>2, SubSeqProperties
  <2> QED
    BY <2>1, <2>3, ConcatProperties
<1>2. CASE ~ \E k \in 1..Len(s) : s[k] = j
  BY <1>2 DEF RemoveFirst
<1> QED
  BY <1>1, <1>2

LEMMA TypesWorker ==
  ASSUME TypeInv, NEW w \in Workers, Common(w) \/ Crash(w) \/ Beat(w)
  PROVE  TypeInv'
<1>t. /\ genLock \in [Projects -> Runs \cup {NoRun}] /\ wfLock \in Runs \cup {NoRun}
      /\ queue \in [Workers -> Seq(Jobs)] /\ proc \in [Workers -> Seq(Jobs)]
      /\ status \in [JobIds -> Statuses] /\ inflight \subseteq JobIds
      /\ copy \in [Readers -> Progress]
      /\ pc \in [Workers -> Pcs] /\ job \in [Workers -> Jobs \cup {NoJob}]
      /\ fin \in [Workers -> [release : BOOLEAN, raise : BOOLEAN]]
      /\ faults \in Nat
      /\ Holding /\ w \in Readers
  BY DEF TypeInv, TypeOK, Readers
<1>j. pc[w] \notin {"boot", "idle"} =>
          /\ job[w] \in Jobs /\ job[w].run \in Runs /\ job[w].kind \in Kinds
          /\ Id(job[w]) \in JobIds /\ P(job[w].run) \in Projects
  BY <1>t, JobParts DEF Holding
<1>e. NoEnd \in [release : BOOLEAN, raise : BOOLEAN]
  BY DEF NoEnd
<1>1. CASE Recover(w)
  <2>1. pc' \in [Workers -> Pcs] /\ Holding'
    BY <1>1, <1>t DEF Recover, Go, Pcs, Holding
  <2>2. queue' \in [Workers -> Seq(Jobs)]
    <3>1. proc[w] \o queue[w] \in Seq(Jobs)
      BY <1>t, ConcatProperties
    <3> QED
      BY <1>1, <1>t, <3>1 DEF Recover
  <2>3. proc' \in [Workers -> Seq(Jobs)]
    BY <1>1, <1>t, EmptySeq DEF Recover
  <2>4. inflight' \subseteq JobIds /\ status' \in [JobIds -> Statuses]
    BY <1>1, <1>t DEF Recover, Statuses
  <2> QED
    BY <1>1, <2>1, <2>2, <2>3, <2>4 DEF Recover, TypeInv, TypeOK, db, api, bounds
<1>2. CASE Dequeue(w)
  <2>1. queue[w] \in Seq(Jobs) /\ queue[w] # <<>>
    BY <1>2, <1>t DEF Dequeue
  <2>2. Head(queue[w]) \in Jobs /\ Tail(queue[w]) \in Seq(Jobs)
    BY <2>1, HeadTailProperties
  <2>3. Append(proc[w], Head(queue[w])) \in Seq(Jobs)
    BY <1>t, <2>2, AppendProperties
  <2>4. queue' \in [Workers -> Seq(Jobs)] /\ proc' \in [Workers -> Seq(Jobs)]
    BY <1>2, <1>t, <2>2, <2>3 DEF Dequeue
  <2>5. pc' \in [Workers -> Pcs] /\ job' \in [Workers -> Jobs \cup {NoJob}] /\ Holding'
    BY <1>2, <1>t, <2>2 DEF Dequeue, Go, Pcs, Holding
  <2> QED
    BY <1>2, <2>4, <2>5 DEF Dequeue, TypeInv, TypeOK, db, api, bounds
<1>3. CASE Begin(w)
  <2>1. pc' \in [Workers -> Pcs] /\ Holding'
    BY <1>3, <1>t DEF Begin, Go, Pcs, Holding
  <2>2. inflight' \subseteq JobIds /\ status' \in [JobIds -> Statuses]
    BY <1>3, <1>t, <1>j DEF Begin, Go, Statuses
  <2> QED
    BY <1>3, <2>1, <2>2 DEF Begin, TypeInv, TypeOK, db, api, bounds
<1>4. CASE ClaimSlot(w)
  <2>1. pc' \in [Workers -> Pcs] /\ Holding'
    BY <1>4, <1>t, <1>j DEF ClaimSlot, Pcs, Holding, Kinds
  <2>2. wfLock' \in Runs \cup {NoRun} /\ status' \in [JobIds -> Statuses]
    BY <1>4, <1>t, <1>j DEF ClaimSlot, Statuses
  <2> QED
    BY <1>4, <2>1, <2>2 DEF ClaimSlot, TypeInv, TypeOK, db, api, bounds
<1>5. CASE EndJob(w)
  <2>1. inflight' \subseteq JobIds /\ faults' \in Nat
    BY <1>5, <1>t DEF EndJob, Fault
  <2>2. proc' \in [Workers -> Seq(Jobs)]
    <3>1. RemoveFirst(proc[w], job[w]) \in Seq(Jobs)
      BY <1>t, RemoveFirstType
    <3> QED
      BY <1>5, <1>t, <3>1 DEF EndJob
  <2>3. pc' \in [Workers -> Pcs]
    BY <1>5, <1>t DEF EndJob, Leave, Loop, Pcs
  <2>4. /\ job' \in [Workers -> Jobs \cup {NoJob}]
        /\ fin' \in [Workers -> [release : BOOLEAN, raise : BOOLEAN]]
    BY <1>5, <1>t, <1>e DEF EndJob, Leave
  <2>5. Holding'
    BY <1>5, <1>t, <1>j DEF EndJob, Leave, Loop, Holding
  <2> QED
    BY <1>5, <2>1, <2>2, <2>3, <2>4, <2>5 DEF EndJob, TypeInv, TypeOK, db, api
<1>6. CASE ReleaseLocks(w)
  <2>1. pc' \in [Workers -> Pcs] /\ Holding'
    BY <1>6, <1>t DEF ReleaseLocks, Leave, Loop, Pcs, Holding
  <2>2. /\ job' \in [Workers -> Jobs \cup {NoJob}]
        /\ fin' \in [Workers -> [release : BOOLEAN, raise : BOOLEAN]]
    BY <1>6, <1>t, <1>e DEF ReleaseLocks, Leave
  <2>3. genLock' \in [Projects -> Runs \cup {NoRun}] /\ wfLock' \in Runs \cup {NoRun}
    BY <1>6, <1>t, <1>j DEF ReleaseLocks
  <2> QED
    BY <1>6, <2>1, <2>2, <2>3 DEF ReleaseLocks, TypeInv, TypeOK, db, api, bounds
<1>7. CASE Crash(w)
  <2>1. pc' \in [Workers -> Pcs] /\ Holding' /\ faults' \in Nat
    BY <1>7, <1>t DEF Crash, Leave, Pcs, Holding, Fault
  <2>2. /\ job' \in [Workers -> Jobs \cup {NoJob}]
        /\ fin' \in [Workers -> [release : BOOLEAN, raise : BOOLEAN]]
    BY <1>7, <1>t, <1>e DEF Crash, Leave
  <2>3. copy' \in [Readers -> Progress]
    BY <1>7, <1>t, ProgressParts DEF Crash
  <2> QED
    BY <1>7, <2>1, <2>2, <2>3 DEF Crash, TypeInv, TypeOK, redis, db
<1>8. CASE Beat(w)
  <2>1. wfLock' \in Runs \cup {NoRun}
    BY <1>8, <1>j DEF Beat, Renewing
  <2> QED
    BY <1>8, <2>1 DEF Beat, TypeInv, TypeOK, Holding, db, api, wk, bounds
<1> QED
  BY <1>1, <1>2, <1>3, <1>4, <1>5, <1>6, <1>7, <1>8 DEF Common

LEMMA PushTypes ==
  ASSUME TypeInv, NEW k \in Kinds, NEW r \in Runs, NEW e \in BOOLEAN,
         NEW st \in [JobIds -> Statuses],
         AddInternal(st, k, r, e) \/ AddInternalFails(st, k, r, e)
  PROVE  queue' \in [Workers -> Seq(Jobs)] /\ status' \in [JobIds -> Statuses]
<1>1. /\ queue \in [Workers -> Seq(Jobs)] /\ QueueOf(k) \in Workers
      /\ Job(k, r, e) \in Jobs
  BY JobParts DEF TypeInv, TypeOK, QueueOf, Workers
<1>2. Append(queue[QueueOf(k)], Job(k, r, e)) \in Seq(Jobs)
  BY <1>1, AppendProperties
<1>3. queue' \in [Workers -> Seq(Jobs)]
  BY <1>1, <1>2 DEF AddInternal, AddInternalFails
<1>4. status' \in [JobIds -> Statuses]
  BY DEF AddInternal, AddInternalFails, Statuses
<1> QED
  BY <1>3, <1>4

LEMMA BothTypes ==
  ASSUME TypeInv, NEW j \in Jobs, NEW s \in Statuses, SetBoth(j, s)
  PROVE  status' \in [JobIds -> Statuses]
  BY DEF SetBoth, TypeInv, TypeOK

LEMMA FinishTypes ==
  ASSUME TypeInv, NEW w \in Workers, job[w] \in Jobs, job'[w] \in Jobs,
         NEW a \in BOOLEAN, NEW b \in BOOLEAN, Finish(w, a, b),
         \A v \in Workers \ {w} : job'[v] = job[v]
  PROVE  /\ pc' \in [Workers -> Pcs]
         /\ fin' \in [Workers -> [release : BOOLEAN, raise : BOOLEAN]]
         /\ Holding'
  BY DEF Finish, Pcs, TypeInv, TypeOK, Holding

LEMMA TypesMain ==
  ASSUME TypeInv,
         \/ LostLock \/ Requeue \/ StartParse \/ WriteStarted \/ HandOff \/ HandOffFails
         \/ Continue \/ Persist \/ Complete \/ Retry \/ ParseFails \/ MapOutcome
  PROVE  TypeInv'
<1> DEFINE m == "main"
           j == job["main"]
           r == j.run
           p == P(r)
<1>t. /\ queue \in [Workers -> Seq(Jobs)] /\ proc \in [Workers -> Seq(Jobs)]
      /\ status \in [JobIds -> Statuses] /\ inflight \subseteq JobIds
      /\ progress \in [Projects -> Progress] /\ result \in [Projects -> Runs \cup {NoRun}]
      /\ copy \in [Readers -> Progress]
      /\ pc \in [Workers -> Pcs] /\ job \in [Workers -> Jobs \cup {NoJob}]
      /\ fin \in [Workers -> [release : BOOLEAN, raise : BOOLEAN]]
      /\ faults \in Nat
      /\ Holding /\ m \in Workers /\ m \in Readers
  BY DEF TypeInv, TypeOK, Readers, Workers
<1>p. pc[m] \notin {"boot", "idle"}
  BY DEF LostLock, Requeue, StartParse, WriteStarted, HandOff, HandOffFails,
         Continue, Persist, Complete, Retry, ParseFails, MapOutcome, Go
<1>j. /\ j \in Jobs /\ r \in Runs /\ j.kind \in Kinds /\ j.err \in BOOLEAN
      /\ Id(j) \in JobIds /\ p \in Projects /\ <<"parse", r>> \in JobIds
  BY <1>t, <1>p, JobParts DEF Holding, Kinds
<1>s. /\ \A s : JobStatusOf(s) \in Statuses
      /\ "failed" \in Statuses /\ "cancelled" \in Statuses
  BY DEF JobStatusOf, Statuses, Ended
<1>e. NoEnd \in [release : BOOLEAN, raise : BOOLEAN]
  BY DEF NoEnd
<1>f. progress[p] \in Progress /\ [progress[p] EXCEPT !.status = "failed"] \in Progress
      /\ [progress[p] EXCEPT !.status = "running"] \in Progress
      /\ [progress[p] EXCEPT !.status = "completed"] \in Progress
  BY <1>t, <1>j, ProgressParts
<1> HIDE DEF m, j, r, p
<1>1. CASE LostLock
  <2>1. status' \in [JobIds -> Statuses]
    BY <1>1, <1>t, <1>j, <1>s, BothTypes DEF LostLock, j
  <2>2. progress' \in [Projects -> Progress] /\ inflight' \subseteq JobIds
    BY <1>1, <1>t, <1>j, <1>f DEF LostLock, j, r, p
  <2>3. /\ pc' \in [Workers -> Pcs] /\ Holding'
        /\ fin' \in [Workers -> [release : BOOLEAN, raise : BOOLEAN]]
    BY <1>1, <1>t, <1>j, FinishTypes DEF LostLock, j, m
  <2> QED
    BY <1>1, <2>1, <2>2, <2>3 DEF LostLock, TypeInv, TypeOK, api, bounds
<1>2. CASE Requeue
  <2>1. /\ pc' \in [Workers -> Pcs] /\ Holding'
        /\ job' \in [Workers -> Jobs \cup {NoJob}]
        /\ fin' \in [Workers -> [release : BOOLEAN, raise : BOOLEAN]]
    BY <1>2, <1>t, <1>e DEF Requeue, Leave, Pcs, Holding
  <2>2. RemoveFirst(proc[m], j) \in Seq(Jobs) /\ Append(queue[m], j) \in Seq(Jobs)
    BY <1>t, <1>j, RemoveFirstType, AppendProperties
  <2>3. queue' \in [Workers -> Seq(Jobs)] /\ proc' \in [Workers -> Seq(Jobs)]
    BY <1>2, <1>t, <2>2 DEF Requeue, j, m
  <2>4. status' \in [JobIds -> Statuses] /\ inflight' \subseteq JobIds
    BY <1>2, <1>t, <1>j DEF Requeue, j, Statuses
  <2> QED
    BY <1>2, <2>1, <2>3, <2>4 DEF Requeue, TypeInv, TypeOK, db, api, bounds
<1>3. CASE StartParse
  <2>1. copy' \in [Readers -> Progress] /\ status' \in [JobIds -> Statuses]
    BY <1>3, <1>t, <1>j, <1>f, <1>s DEF StartParse, j, r, p
  <2>2. /\ pc' \in [Workers -> Pcs] /\ Holding'
        /\ fin' \in [Workers -> [release : BOOLEAN, raise : BOOLEAN]]
    BY <1>3, <1>t, <1>j, FinishTypes DEF StartParse, j, m, Pcs, Holding
  <2> QED
    BY <1>3, <2>1, <2>2 DEF StartParse, TypeInv, TypeOK, db, bounds
<1>4. CASE WriteStarted
  <2>1. /\ copy' \in [Readers -> Progress] /\ progress' \in [Projects -> Progress]
    BY <1>4, <1>t, <1>j, ProgressParts DEF WriteStarted, j, r, p, m
  <2>2. status' \in [JobIds -> Statuses] /\ pc' \in [Workers -> Pcs] /\ Holding'
    BY <1>4, <1>t, <1>j DEF WriteStarted, Go, Statuses, Pcs, Holding
  <2> QED
    BY <1>4, <2>1, <2>2 DEF WriteStarted, TypeInv, TypeOK, bounds
<1>5. CASE HandOff
  <2>1. NextStage(r) \in Kinds
    BY DEF NextStage, Kinds
  <2>2. queue' \in [Workers -> Seq(Jobs)] /\ status' \in [JobIds -> Statuses]
    BY <1>5, <1>t, <1>j, <2>1, PushTypes DEF HandOff, j, r
  <2>3. /\ pc' \in [Workers -> Pcs] /\ Holding'
        /\ fin' \in [Workers -> [release : BOOLEAN, raise : BOOLEAN]]
    BY <1>5, <1>t, <1>j, FinishTypes DEF HandOff, j, m
  <2> QED
    BY <1>5, <2>2, <2>3 DEF HandOff, TypeInv, TypeOK, db, api, bounds
<1>6. CASE HandOffFails
  <2>1. NextStage(r) \in Kinds
    BY DEF NextStage, Kinds
  <2>2. [status EXCEPT ![<<"parse", r>>] = "failed"] \in [JobIds -> Statuses]
    BY <1>t, <1>s
  <2>3. queue' \in [Workers -> Seq(Jobs)] /\ status' \in [JobIds -> Statuses]
    BY <1>6, <1>j, <2>1, <2>2, PushTypes DEF HandOffFails, j, r
  <2>4. progress' \in [Projects -> Progress]
    <3>1. progress' = [progress EXCEPT ![p].status = "failed"]
      BY <1>6 DEF HandOffFails, j, r, p
    <3> QED
      BY <1>t, <1>f, <3>1
  <2>6. faults' \in Nat
    BY <1>6, <1>t DEF HandOffFails, Fault
  <2>5. /\ pc' \in [Workers -> Pcs] /\ Holding'
        /\ fin' \in [Workers -> [release : BOOLEAN, raise : BOOLEAN]]
    BY <1>6, <1>t, <1>j, FinishTypes DEF HandOffFails, j, m
  <2> QED
    BY <1>6, <2>3, <2>4, <2>5, <2>6 DEF HandOffFails, TypeInv, TypeOK, api
<1>7. CASE Continue
  <2>1. progress' \in [Projects -> Progress]
    BY <1>7, <1>t, <1>f, ProgressParts DEF Continue, CancelledProgress, j, r, p
  <2>2. cancelKey' \subseteq Runs
    BY <1>7, <1>j, AskedTypes DEF Continue, CancelledProgress, TypeInv, TypeOK, j, r, p
  <2>3. status' \in [JobIds -> Statuses]
    BY <1>7, <1>t, <1>j, <1>s, BothTypes DEF Continue, j
  <2>4. /\ pc' \in [Workers -> Pcs] /\ Holding'
        /\ fin' \in [Workers -> [release : BOOLEAN, raise : BOOLEAN]]
    BY <1>7, <1>t, <1>j, FinishTypes DEF Continue, j, m, Pcs, Holding
  <2> QED
    BY <1>7, <2>1, <2>2, <2>3, <2>4 DEF Continue, TypeInv, TypeOK, api, bounds
<1>8. CASE Persist
  <2>1. progress' \in [Projects -> Progress]
    BY <1>8, <1>t, <1>f, ProgressParts DEF Persist, CancelledProgress, j, r, p
  <2>2. cancelKey' \subseteq Runs /\ result' \in [Projects -> Runs \cup {NoRun}]
    BY <1>8, <1>t, <1>j, AskedTypes
    DEF Persist, CancelledProgress, TypeInv, TypeOK, j, r, p
  <2>3. pc' \in [Workers -> Pcs] /\ Holding'
    BY <1>8, <1>t, <1>j DEF Persist, Pcs, Holding, j
  <2> QED
    BY <1>8, <2>1, <2>2, <2>3 DEF Persist, TypeInv, TypeOK, api, bounds
<1>9. CASE Complete
  <2>1. progress' \in [Projects -> Progress]
    BY <1>9, <1>t, <1>f DEF Complete, j, r, p
  <2>2. pc' \in [Workers -> Pcs] /\ Holding'
    BY <1>9, <1>t DEF Complete, Go, Pcs, Holding
  <2> QED
    BY <1>9, <2>1, <2>2 DEF Complete, TypeInv, TypeOK, redis, api, bounds
<1>10. CASE Retry
  <2>1. progress' \in [Projects -> Progress]
    BY <1>10, <1>t, <1>f DEF Retry, j, r, p
  <2> QED
    BY <1>10, <2>1 DEF Retry, TypeInv, TypeOK, Holding, redis, api, wk, bounds
<1>11. CASE ParseFails
  <2>1. progress' \in [Projects -> Progress]
    BY <1>11, <1>t, <1>f, ProgressParts DEF ParseFails, CancelledProgress, j, r, p
  <2>2. cancelKey' \subseteq Runs
    BY <1>11, <1>j, AskedTypes DEF ParseFails, CancelledProgress, TypeInv, TypeOK, j, r, p
  <2>3. status' \in [JobIds -> Statuses]
    BY <1>11, <1>t, <1>j, <1>s, BothTypes DEF ParseFails, j
  <2>4. /\ pc' \in [Workers -> Pcs] /\ Holding'
        /\ fin' \in [Workers -> [release : BOOLEAN, raise : BOOLEAN]]
    BY <1>11, <1>t, <1>j, FinishTypes DEF ParseFails, j, m, Pcs, Holding
  <2> QED
    BY <1>11, <2>1, <2>2, <2>3, <2>4 DEF ParseFails, TypeInv, TypeOK, api, bounds
<1>12. CASE MapOutcome
  <2>1. status' \in [JobIds -> Statuses]
    BY <1>12, <1>t, <1>j, <1>s, BothTypes DEF MapOutcome, j
  <2>2. /\ pc' \in [Workers -> Pcs] /\ Holding'
        /\ fin' \in [Workers -> [release : BOOLEAN, raise : BOOLEAN]]
    BY <1>12, <1>t, <1>j, FinishTypes DEF MapOutcome, j, m
  <2> QED
    BY <1>12, <2>1, <2>2 DEF MapOutcome, TypeInv, TypeOK, db, api, bounds
<1> QED
  BY <1>1, <1>2, <1>3, <1>4, <1>5, <1>6, <1>7, <1>8, <1>9, <1>10, <1>11, <1>12

LEMMA TypesDocling ==
  ASSUME TypeInv,
         \/ BatchLostLock \/ ParsePdfs \/ HandBack \/ CloseBatch
         \/ HandBackFails \/ BatchReportFails
  PROVE  TypeInv'
<1> DEFINE m == "docling"
           j == job["docling"]
           r == j.run
<1>t. /\ queue \in [Workers -> Seq(Jobs)] /\ proc \in [Workers -> Seq(Jobs)]
      /\ status \in [JobIds -> Statuses] /\ inflight \subseteq JobIds
      /\ pc \in [Workers -> Pcs] /\ job \in [Workers -> Jobs \cup {NoJob}]
      /\ fin \in [Workers -> [release : BOOLEAN, raise : BOOLEAN]]
      /\ faults \in Nat
      /\ Holding /\ m \in Workers
  BY DEF TypeInv, TypeOK, Workers
<1>p. pc[m] \notin {"boot", "idle"}
  BY DEF BatchLostLock, ParsePdfs, HandBack, CloseBatch, HandBackFails,
         BatchReportFails, NoProject, NoSlot, Go
<1>j. /\ j \in Jobs /\ r \in Runs /\ j.kind \in Kinds /\ j.err \in BOOLEAN
      /\ Id(j) \in JobIds /\ <<"parse", r>> \in JobIds /\ "continue" \in Kinds
  BY <1>t, <1>p, JobParts DEF Holding, Kinds
<1>r. \A e \in BOOLEAN : [j EXCEPT !.err = e] \in Jobs
  BY <1>j DEF Jobs
<1>e. NoEnd \in [release : BOOLEAN, raise : BOOLEAN]
  BY DEF NoEnd
<1> HIDE DEF m, j, r
<1>1. CASE BatchLostLock
  <2>1. [status EXCEPT ![Id(j)] = "failed"] \in [JobIds -> Statuses]
    BY <1>t, <1>j DEF Statuses, Ended
  <2>2. queue' \in [Workers -> Seq(Jobs)] /\ status' \in [JobIds -> Statuses]
    BY <1>1, <1>j, <2>1, PushTypes DEF BatchLostLock, j, r
  <2>3. inflight' \subseteq JobIds
    BY <1>1, <1>t, <1>j DEF BatchLostLock, j
  <2>4. NoProject(r) \in BOOLEAN
    BY DEF NoProject
  <2>5. /\ pc' \in [Workers -> Pcs] /\ Holding'
        /\ fin' \in [Workers -> [release : BOOLEAN, raise : BOOLEAN]]
    BY <1>1, <1>t, <1>j, <2>4, FinishTypes DEF BatchLostLock, j, r, m
  <2> QED
    BY <1>1, <2>2, <2>3, <2>5 DEF BatchLostLock, TypeInv, TypeOK, db, api, bounds
<1>2. CASE ParsePdfs
  <2>1. CASE UNCHANGED job /\ SetBoth(j, "cancelled") /\ Finish("docling", TRUE, FALSE)
    <3>1. status' \in [JobIds -> Statuses]
      BY <1>j, <2>1, BothTypes DEF Statuses, Ended
    <3>2. /\ pc' \in [Workers -> Pcs] /\ Holding'
          /\ fin' \in [Workers -> [release : BOOLEAN, raise : BOOLEAN]]
      BY <1>t, <1>j, <2>1, FinishTypes DEF j, m
    <3> QED
      BY <1>2, <2>1, <3>1, <3>2 DEF ParsePdfs, TypeInv, TypeOK, db, api, bounds
  <2>2. CASE /\ pc' = [pc EXCEPT !["docling"] = "parsed"] /\ UNCHANGED <<status, fin>>
             /\ \E e \in BOOLEAN : job' = [job EXCEPT !["docling"].err = e]
    <3>1. job' \in [Workers -> Jobs \cup {NoJob}] /\ job'["docling"] \in Jobs
      BY <1>t, <1>r, <2>2 DEF j, m
    <3>2. pc' \in [Workers -> Pcs] /\ Holding'
      BY <1>t, <2>2, <3>1 DEF Pcs, Holding
    <3> QED
      BY <1>2, <2>2, <3>1, <3>2 DEF ParsePdfs, TypeInv, TypeOK, db, api, bounds
  <2> QED
    BY <1>2, <2>1, <2>2 DEF ParsePdfs, j
<1>3. CASE HandBack
  <2>1. queue' \in [Workers -> Seq(Jobs)] /\ status' \in [JobIds -> Statuses]
    BY <1>3, <1>t, <1>j, PushTypes DEF HandBack, j, r
  <2>2. pc' \in [Workers -> Pcs] /\ Holding'
    BY <1>3, <1>t DEF HandBack, Go, Pcs, Holding
  <2> QED
    BY <1>3, <2>1, <2>2 DEF HandBack, TypeInv, TypeOK, db, api, bounds
<1>4. CASE CloseBatch
  <2>1. status' \in [JobIds -> Statuses]
    BY <1>4, <1>t, <1>j DEF CloseBatch, Statuses, Ended
  <2>2. job' \in [Workers -> Jobs \cup {NoJob}] /\ job'["docling"] \in Jobs
    BY <1>4, <1>t, <1>r DEF CloseBatch, j, m
  <2>3. /\ pc' \in [Workers -> Pcs] /\ Holding'
        /\ fin' \in [Workers -> [release : BOOLEAN, raise : BOOLEAN]]
    BY <1>4, <1>t, <2>2 DEF CloseBatch, Finish, Pcs, Holding
  <2> QED
    BY <1>4, <2>1, <2>2, <2>3 DEF CloseBatch, TypeInv, TypeOK, db, api, bounds
<1>5. CASE HandBackFails \/ BatchReportFails
  <2>1. /\ [status EXCEPT ![Id(j)] = "retrying", ![<<"parse", r>>] = "waiting_docling"]
             \in [JobIds -> Statuses]
        /\ [status EXCEPT ![Id(j)] = "running"] \in [JobIds -> Statuses]
    BY <1>t, <1>j DEF Statuses
  <2>2. queue' \in [Workers -> Seq(Jobs)] /\ status' \in [JobIds -> Statuses]
    <3>1. CASE HandBackFails
      BY <1>j, <2>1, <3>1, PushTypes DEF HandBackFails, j, r
    <3>2. CASE BatchReportFails
      BY <1>t, <1>j, <2>1, <3>2, PushTypes DEF BatchReportFails, j, r
    <3> QED
      BY <1>5, <3>1, <3>2
  <2>3. /\ Leave("docling", "boot") /\ faults' = faults + 1
        /\ inflight' \subseteq inflight \cup {Id(j)}
    <3>1. CASE HandBackFails
      BY <3>1 DEF HandBackFails, Fault
    <3>2. CASE BatchReportFails
      BY <3>2 DEF BatchReportFails, Fault, j
    <3> QED
      BY <1>5, <3>1, <3>2
  <2>5. faults' \in Nat /\ inflight' \subseteq JobIds
    BY <1>t, <1>j, <2>3
  <2>4. /\ pc' \in [Workers -> Pcs] /\ Holding'
        /\ job' \in [Workers -> Jobs \cup {NoJob}]
        /\ fin' \in [Workers -> [release : BOOLEAN, raise : BOOLEAN]]
    BY <1>t, <1>e, <2>3 DEF Leave, Pcs, Holding
  <2> QED
    BY <1>5, <2>2, <2>4, <2>5
    DEF HandBackFails, BatchReportFails, TypeInv, TypeOK, db, api
<1> QED
  BY <1>1, <1>2, <1>3, <1>4, <1>5

LEMMA TypesReclaim ==
  ASSUME TypeInv, NEW j \in Jobs, Reclaim(j)
  PROVE  TypeInv'
<1>t. /\ genLock \in [Projects -> Runs \cup {NoRun}] /\ wfLock \in Runs \cup {NoRun}
      /\ proc \in [Workers -> Seq(Jobs)] /\ inflight \subseteq JobIds
      /\ P(j.run) \in Projects
  BY JobParts DEF TypeInv, TypeOK
<1>1. status' \in [JobIds -> Statuses]
  BY BothTypes DEF Reclaim, Statuses, Ended
<1>2. RemoveFirst(proc["main"], j) \in Seq(Jobs)
  BY <1>t, RemoveFirstType DEF Workers
<1>3. /\ genLock' \in [Projects -> Runs \cup {NoRun}] /\ wfLock' \in Runs \cup {NoRun}
      /\ proc' \in [Workers -> Seq(Jobs)] /\ inflight' \subseteq JobIds
  BY <1>t, <1>2 DEF Reclaim
<1> QED
  BY <1>1, <1>3 DEF Reclaim, TypeInv, TypeOK, Holding, db, api, wk, bounds

LEMMA TypesExpire ==
  ASSUME TypeInv, NEW r \in Runs, Expire(r)
  PROVE  TypeInv'
<1>t. /\ genLock \in [Projects -> Runs \cup {NoRun}] /\ wfLock \in Runs \cup {NoRun}
      /\ expiries \in Nat
  BY DEF TypeInv, TypeOK
<1>0. /\ genLock' = genLock \/ genLock' = [genLock EXCEPT ![P(r)] = NoRun]
      /\ wfLock' = wfLock \/ wfLock' = NoRun
      /\ expiries' = expiries \/ expiries' = expiries + 1
  BY DEF Expire
<1>1. /\ genLock' \in [Projects -> Runs \cup {NoRun}] /\ wfLock' \in Runs \cup {NoRun}
      /\ expiries' \in Nat
  BY <1>t, <1>0
<1> QED
  BY <1>1 DEF Expire, TypeInv, TypeOK, Holding, db, api, wk

LEMMA StepTypes == TypeInv /\ [Next]_vars => TypeInv'
<1> SUFFICES ASSUME TypeInv, [Next]_vars PROVE TypeInv'
  OBVIOUS
<1>1. CASE UNCHANGED vars
  BY <1>1 DEF vars, redis, db, api, wk, bounds, TypeInv, TypeOK, Holding
<1>2. "main" \in Workers /\ "docling" \in Workers
  BY DEF Workers
<1> QED
  BY <1>1, <1>2, TypesRequest, TypesCancel, TypesWorker, TypesMain, TypesDocling,
     TypesReclaim, TypesExpire
  DEF Next, MainStep, DoclingStep

\* Every reachable state is well typed, whatever crashes, expires or is cancelled.
THEOREM TypeCorrect == Spec => []TypeOK
<1>1. TypeInv => TypeOK
  BY DEF TypeInv
<1> QED
  BY <1>1, InitTypes, StepTypes, PTL DEF Spec

-----------------------------------------------------------------------------
(* The lists of jobs.                                                      *)

\* The ids in a list, and that none of them is in it twice.
IdsOf(s) == {Id(s[i]) : i \in DOMAIN s}
Unique(s) == \A i, k \in DOMAIN s : Id(s[i]) = Id(s[k]) => i = k

LEMMA ConcatIds ==
  ASSUME NEW s \in Seq(Jobs), NEW t \in Seq(Jobs)
  PROVE  /\ s \o t \in Seq(Jobs)
         /\ IdsOf(s \o t) = IdsOf(s) \cup IdsOf(t)
         /\ Unique(s \o t) <=> Unique(s) /\ Unique(t) /\ IdsOf(s) \cap IdsOf(t) = {}
<1> DEFINE u == s \o t
<1>1. /\ u \in Seq(Jobs) /\ Len(s) \in Nat /\ Len(t) \in Nat
      /\ DOMAIN s = 1..Len(s) /\ DOMAIN t = 1..Len(t)
      /\ DOMAIN u = 1..(Len(s) + Len(t))
  BY ConcatProperties, LenProperties
<1>2. \A i \in 1..Len(s) : u[i] = s[i]
  BY <1>1, ConcatProperties
<1>3. \A i \in 1..Len(t) : u[Len(s) + i] = t[i]
  <2> TAKE i \in 1..Len(t)
  <2>1. /\ Len(s) + i \in 1..(Len(s) + Len(t)) /\ ~ (Len(s) + i <= Len(s))
        /\ (Len(s) + i) - Len(s) = i
    BY <1>1
  <2> QED
    BY <2>1, ConcatProperties
<1>4. \A i \in DOMAIN u : \/ i \in 1..Len(s)
                          \/ \E k \in 1..Len(t) : i = Len(s) + k
  <2> TAKE i \in DOMAIN u
  <2>1. i \in 1..Len(s) \/ i - Len(s) \in 1..Len(t)
    BY <1>1
  <2> QED
    BY <1>1, <2>1
<1>5. /\ 1..Len(s) \subseteq DOMAIN u
      /\ \A k \in 1..Len(t) : Len(s) + k \in DOMAIN u
      /\ \A i \in 1..Len(s), k \in 1..Len(t) : i # Len(s) + k
      /\ \A i, k \in 1..Len(t) : Len(s) + i = Len(s) + k => i = k
  BY <1>1
<1> HIDE DEF u
<1>6. IdsOf(u) = IdsOf(s) \cup IdsOf(t)
  <2>1. ASSUME NEW i \in DOMAIN u PROVE Id(u[i]) \in IdsOf(s) \cup IdsOf(t)
    BY <1>1, <1>2, <1>3, <1>4 DEF IdsOf
  <2>2. ASSUME NEW i \in DOMAIN s PROVE Id(s[i]) \in IdsOf(u)
    <3>1. i \in DOMAIN u /\ u[i] = s[i]
      BY <1>1, <1>2, <1>5
    <3> QED
      BY <3>1 DEF IdsOf
  <2>3. ASSUME NEW i \in DOMAIN t PROVE Id(t[i]) \in IdsOf(u)
    <3>1. Len(s) + i \in DOMAIN u /\ u[Len(s) + i] = t[i]
      BY <1>1, <1>3, <1>5
    <3> QED
      BY <3>1 DEF IdsOf
  <2> QED
    BY <2>1, <2>2, <2>3 DEF IdsOf
<1>7. ASSUME Unique(u) PROVE Unique(s) /\ Unique(t) /\ IdsOf(s) \cap IdsOf(t) = {}
  <2>1. Unique(s)
    BY <1>1, <1>2, <1>5, <1>7 DEF Unique
  <2>2. Unique(t)
    BY <1>1, <1>3, <1>5, <1>7 DEF Unique
  <2>3. ASSUME NEW i \in 1..Len(s), NEW k \in 1..Len(t) PROVE Id(s[i]) # Id(t[k])
    BY <1>2, <1>3, <1>5, <1>7 DEF Unique
  <2> QED
    BY <1>1, <2>1, <2>2, <2>3 DEF IdsOf
<1>8. ASSUME Unique(s), Unique(t), IdsOf(s) \cap IdsOf(t) = {} PROVE Unique(u)
  <2>1. \A i \in 1..Len(s) : Id(u[i]) \in IdsOf(s)
    BY <1>1, <1>2 DEF IdsOf
  <2>2. \A k \in 1..Len(t) : Id(u[Len(s) + k]) \in IdsOf(t)
    BY <1>1, <1>3 DEF IdsOf
  <2> SUFFICES ASSUME NEW i \in DOMAIN u, NEW k \in DOMAIN u, Id(u[i]) = Id(u[k])
               PROVE  i = k
    BY DEF Unique
  <2>3. CASE i \in 1..Len(s) /\ k \in 1..Len(s)
    BY <1>1, <1>2, <1>8, <2>3 DEF Unique
  <2>4. CASE i \notin 1..Len(s) /\ k \notin 1..Len(s)
    <3>1. PICK a \in 1..Len(t), b \in 1..Len(t) : i = Len(s) + a /\ k = Len(s) + b
      BY <1>4, <2>4
    <3> QED
      BY <1>1, <1>3, <1>8, <3>1 DEF Unique
  <2>5. CASE i \in 1..Len(s) /\ k \notin 1..Len(s)
    BY <1>4, <1>8, <2>1, <2>2, <2>5
  <2>6. CASE i \notin 1..Len(s) /\ k \in 1..Len(s)
    BY <1>4, <1>8, <2>1, <2>2, <2>6
  <2> QED
    BY <2>3, <2>4, <2>5, <2>6
<1> QED
  BY <1>1, <1>6, <1>7, <1>8 DEF u

LEMMA OneId ==
  ASSUME NEW j \in Jobs
  PROVE  <<j>> \in Seq(Jobs) /\ IdsOf(<<j>>) = {Id(j)} /\ Unique(<<j>>)
<1>1. <<j>> \in Seq(Jobs) /\ DOMAIN <<j>> = {1} /\ <<j>>[1] = j
  OBVIOUS
<1> QED
  BY <1>1 DEF IdsOf, Unique

LEMMA EmptyIds == IdsOf(<<>>) = {} /\ Unique(<<>>)
<1>1. DOMAIN <<>> = {}
  OBVIOUS
<1> QED
  BY <1>1 DEF IdsOf, Unique

LEMMA FrontIds ==
  ASSUME NEW s \in Seq(Jobs), NEW j \in Jobs
  PROVE  /\ <<j>> \o s \in Seq(Jobs) /\ s \o <<j>> \in Seq(Jobs)
         /\ IdsOf(<<j>> \o s) = IdsOf(s) \cup {Id(j)}
         /\ IdsOf(s \o <<j>>) = IdsOf(s) \cup {Id(j)}
         /\ Unique(<<j>> \o s) <=> Unique(s) /\ Id(j) \notin IdsOf(s)
         /\ Unique(s \o <<j>>) <=> Unique(s) /\ Id(j) \notin IdsOf(s)
<1> DEFINE t == <<j>>
<1>1. t \in Seq(Jobs) /\ IdsOf(t) = {Id(j)} /\ Unique(t)
  BY OneId
<1> HIDE DEF t
<1>2. /\ t \o s \in Seq(Jobs) /\ s \o t \in Seq(Jobs)
      /\ IdsOf(t \o s) = IdsOf(t) \cup IdsOf(s)
      /\ IdsOf(s \o t) = IdsOf(s) \cup IdsOf(t)
      /\ Unique(t \o s) <=> Unique(t) /\ Unique(s) /\ IdsOf(t) \cap IdsOf(s) = {}
      /\ Unique(s \o t) <=> Unique(s) /\ Unique(t) /\ IdsOf(s) \cap IdsOf(t) = {}
  BY <1>1, ConcatIds
<1>3. /\ IdsOf(t) \cap IdsOf(s) = {} <=> Id(j) \notin IdsOf(s)
      /\ IdsOf(s) \cap IdsOf(t) = {} <=> Id(j) \notin IdsOf(s)
  BY <1>1
<1> QED
  BY <1>1, <1>2, <1>3 DEF t

LEMMA AppendIds ==
  ASSUME NEW s \in Seq(Jobs), NEW j \in Jobs
  PROVE  /\ Append(s, j) \in Seq(Jobs)
         /\ IdsOf(Append(s, j)) = IdsOf(s) \cup {Id(j)}
         /\ Unique(s) /\ Id(j) \notin IdsOf(s) => Unique(Append(s, j))
<1>1. Append(s, j) = s \o <<j>>
  BY AppendIsConcat
<1> QED
  BY <1>1, FrontIds

LEMMA HeadIds ==
  ASSUME NEW s \in Seq(Jobs), s # <<>>
  PROVE  /\ Head(s) \in Jobs /\ Tail(s) \in Seq(Jobs)
         /\ IdsOf(s) = {Id(Head(s))} \cup IdsOf(Tail(s))
         /\ Unique(s) => Unique(Tail(s)) /\ Id(Head(s)) \notin IdsOf(Tail(s))
<1>1. Head(s) \in Jobs /\ Tail(s) \in Seq(Jobs) /\ Len(s) \in Nat \ {0}
  BY HeadTailProperties, EmptySeq
<1>2. /\ SubSeq(s, 1, Len(s)) = <<s[1]>> \o SubSeq(s, 2, Len(s))
      /\ SubSeq(s, 1, Len(s)) = s
      /\ Tail(s) = SubSeq(s, 2, Len(s))
  <2>1. 1 \in 1..Len(s) /\ Len(s) \in 1..Len(s) /\ 1 + 1 = 2
    BY <1>1
  <2> QED
    BY <2>1, SubSeqRecursiveFirst, SubSeqFull, TailIsSubSeq
<1>3. Head(s) = s[1]
  OBVIOUS
<1> DEFINE h == Head(s)
           t == Tail(s)
<1>4. s = <<h>> \o t /\ h \in Jobs /\ t \in Seq(Jobs)
  BY <1>1, <1>2, <1>3
<1> HIDE DEF h, t
<1>5. /\ IdsOf(s) = {Id(h)} \cup IdsOf(t)
      /\ Unique(s) => Unique(t) /\ Id(h) \notin IdsOf(t)
  BY <1>4, FrontIds
<1> QED
  BY <1>4, <1>5 DEF h, t

\* Removing a job takes its id out of the list, and nothing new in.
LEMMA RemoveIds ==
  ASSUME NEW s \in Seq(Jobs), NEW j, Unique(s)
  PROVE  /\ RemoveFirst(s, j) \in Seq(Jobs)
         /\ IdsOf(RemoveFirst(s, j)) \subseteq IdsOf(s)
         /\ IdsOf(s) \ {Id(j)} \subseteq IdsOf(RemoveFirst(s, j))
         /\ Unique(RemoveFirst(s, j))
         /\ (\E k \in 1..Len(s) : s[k] = j) =>
               Id(j) \in IdsOf(s) /\ Id(j) \notin IdsOf(RemoveFirst(s, j))
<1>1. RemoveFirst(s, j) \in Seq(Jobs)
  BY RemoveFirstType
<1>2. CASE \E k \in 1..Len(s) : s[k] = j
  <2>1. PICK n \in 1..Len(s) :
           /\ s[n] = j
           /\ RemoveFirst(s, j) = SubSeq(s, 1, n - 1) \o SubSeq(s, n + 1, Len(s))
    BY <1>2, RemoveFirstCut
  <2> DEFINE a == SubSeq(s, 1, n - 1)
             b == SubSeq(s, n + 1, Len(s))
  <2>2. /\ Len(s) \in Nat /\ n - 1 \in 0..Len(s) /\ (n - 1) + 1 = n
        /\ Len(s) \in (n - 1)..Len(s) /\ Len(s) \in n..Len(s) /\ 1 \in 1..(Len(s) + 1)
        /\ n - 1 \in (1 - 1)..Len(s)
    BY LenProperties
  <2>3. s = a \o SubSeq(s, n, Len(s))
    BY <2>2, ConcatAdjacentSubSeq, SubSeqFull
  <2>4. SubSeq(s, n, Len(s)) = <<j>> \o b
    BY <2>1, <2>2, SubSeqRecursiveFirst
  <2>5. a \in Seq(Jobs) /\ b \in Seq(Jobs) /\ j \in Jobs
    BY <2>1, <2>2, SubSeqProperties, ElementOfSeq
  <2> HIDE DEF a, b
  <2>6. s = a \o (<<j>> \o b)
    BY <2>3, <2>4
  <2>7. /\ IdsOf(<<j>> \o b) = {Id(j)} \cup IdsOf(b) /\ <<j>> \o b \in Seq(Jobs)
        /\ Unique(<<j>> \o b) => Unique(b) /\ Id(j) \notin IdsOf(b)
    BY <2>5, FrontIds
  <2>8. /\ IdsOf(s) = IdsOf(a) \cup {Id(j)} \cup IdsOf(b)
        /\ Unique(a) /\ Unique(b) /\ IdsOf(a) \cap IdsOf(b) = {}
        /\ Id(j) \notin IdsOf(a) /\ Id(j) \notin IdsOf(b)
    BY <2>5, <2>6, <2>7, ConcatIds
  <2>9. /\ IdsOf(a \o b) = IdsOf(a) \cup IdsOf(b) /\ Unique(a \o b)
    BY <2>5, <2>8, ConcatIds
  <2> QED
    BY <1>1, <2>1, <2>8, <2>9 DEF a, b
<1>3. CASE ~ \E k \in 1..Len(s) : s[k] = j
  BY <1>1, <1>3 DEF RemoveFirst
<1> QED
  BY <1>2, <1>3

-----------------------------------------------------------------------------
(* A job is in one place.                                                  *)

Held(q) == IdsOf(queue[q]) \cup IdsOf(proc[q])

\* The request of a run has not pushed its job yet.
Fresh(r) == req[r] \in {"new", "checked", "reset", "locked"}

\* No job is twice in a list, or in both lists of a queue.
Apart ==
    \A q \in Workers : /\ Unique(queue[q]) /\ Unique(proc[q])
                       /\ IdsOf(queue[q]) \cap IdsOf(proc[q]) = {}

\* Ids in the lists are kept apart, have a hash, and of a run whose request has not
\* pushed it there is no parse job; the job the main worker has just taken is in its
\* processing list, from where a requeue removes it.
OnceInv ==
    /\ Apart
    /\ \A q \in Workers : \A id \in Held(q) : status[id] # "absent"
    /\ \A r \in Runs : Fresh(r) => \A q \in Workers : <<"parse", r>> \notin Held(q)
    /\ pc["main"] \in {"got", "claim"} =>
          \E k \in 1..Len(proc["main"]) : proc["main"][k] = job["main"]

\* A worker has a job that it has not taken off its processing list.
InHand(w) == pc[w] \notin {"boot", "idle", "releasing"}

\* What a step does to the lists of jobs.
PushesParse(r) ==
    /\ req[r] = "locked" /\ ~ Fresh(r)'
    /\ queue' = [queue EXCEPT !["main"] = Append(@, Job("parse", r, FALSE))]
    /\ UNCHANGED proc
    /\ status'[<<"parse", r>>] # "absent"

PushesNext(k, r, e) ==
    /\ \E w \in Workers : InHand(w) /\ job[w].run = r
    /\ k # "parse" /\ status[<<k, r>>] = "absent"
    /\ queue' = [queue EXCEPT ![QueueOf(k)] = Append(@, Job(k, r, e))]
    /\ UNCHANGED proc
    /\ status'[<<k, r>>] # "absent"

PutsBack(w) ==
    /\ queue' = [queue EXCEPT ![w] = proc[w] \o @]
    /\ proc' = [proc EXCEPT ![w] = <<>>]

Takes(w) ==
    /\ queue[w] # <<>>
    /\ queue' = [queue EXCEPT ![w] = Tail(@)]
    /\ proc' = [proc EXCEPT ![w] = Append(@, Head(queue[w]))]

Ends(w, j) ==
    /\ \/ EndJob(w) /\ j = job[w]
       \/ Reclaim(j) /\ w = "main"
    /\ UNCHANGED queue
    /\ proc' = [proc EXCEPT ![w] = RemoveFirst(@, j)]

ListStep ==
    \/ UNCHANGED <<queue, proc>>
    \/ \E r \in Runs : PushesParse(r)
    \/ \E k \in Kinds, r \in Runs, e \in BOOLEAN : PushesNext(k, r, e)
    \/ \E w \in Workers : Recover(w) /\ PutsBack(w)
    \/ \E w \in Workers : Dequeue(w) /\ Takes(w)
    \/ \E w \in Workers, j \in Jobs : Ends(w, j)
    \/ Requeue

LEMMA PushListed ==
  ASSUME TypeInv, NEW k \in Kinds, k # "parse", NEW r \in Runs, NEW e \in BOOLEAN,
         NEW w \in Workers, InHand(w), job[w].run = r,
         NEW st \in [JobIds -> Statuses], UNCHANGED proc,
         AddInternal(st, k, r, e) \/ AddInternalFails(st, k, r, e)
  PROVE  UNCHANGED queue \/ PushesNext(k, r, e)
<1>1. <<k, r>> \in JobIds /\ k # "parse"
  BY JobParts
<1>2. CASE AddInternal(st, k, r, e)
  <2>1. CASE status[<<k, r>>] = "absent"
    <3>1. /\ queue' = [queue EXCEPT ![QueueOf(k)] = Append(@, Job(k, r, e))]
          /\ status' = [st EXCEPT
                ![<<k, r>>] = "queued",
                ![<<"parse", r>>] =
                    IF k = "continue" THEN "waiting_continuation" ELSE @]
      BY <1>2, <2>1 DEF AddInternal
    <3>2. status'[<<k, r>>] = "queued"
      BY <1>1, <3>1
    <3> QED
      BY <2>1, <3>1, <3>2 DEF PushesNext
  <2>2. CASE status[<<k, r>>] # "absent"
    BY <1>2, <2>2 DEF AddInternal
  <2> QED
    BY <2>1, <2>2
<1>3. CASE AddInternalFails(st, k, r, e)
  BY <1>1, <1>3 DEF AddInternalFails, PushesNext
<1> QED
  BY <1>2, <1>3

LEMMA ListSteps ==
  ASSUME TypeInv, [Next]_vars
  PROVE  ListStep
<1>t. /\ Holding /\ job \in [Workers -> Jobs \cup {NoJob}]
      /\ status \in [JobIds -> Statuses]
      /\ "main" \in Workers /\ "docling" \in Workers
      /\ \A r \in Runs : <<"parse", r>> \in JobIds
  BY JobParts DEF TypeInv, TypeOK, Workers, Kinds
<1>1. ASSUME NEW r \in Runs, PushJob(r) \/ PushFails(r) PROVE ListStep
  <2>1. UNCHANGED <<queue, proc>> \/ PushesParse(r)
    BY <1>t, <1>1
    DEF PushJob, PushFails, PushesParse, AddParse, ReqGo, Fresh, TypeInv, TypeOK
  <2> QED
    BY <2>1 DEF ListStep
<1>2. ASSUME NEW w \in Workers, Recover(w) PROVE ListStep
  BY <1>2 DEF Recover, ListStep, PutsBack
<1>3. ASSUME NEW w \in Workers, Dequeue(w) PROVE ListStep
  BY <1>3 DEF Dequeue, ListStep, Takes
<1>4. ASSUME NEW w \in Workers, EndJob(w) PROVE ListStep
  <2>1. job[w] \in Jobs
    BY <1>t, <1>4 DEF EndJob, Holding
  <2> QED
    BY <1>4, <2>1 DEF EndJob, ListStep, Ends
<1>5. ASSUME NEW j \in Jobs, Reclaim(j) PROVE ListStep
  BY <1>t, <1>5 DEF Reclaim, ListStep, Ends
<1>6. CASE HandOff \/ HandOffFails
  <2> DEFINE r == job["main"].run
  <2>1. /\ r \in Runs /\ NextStage(r) \in Kinds /\ NextStage(r) # "parse"
        /\ InHand("main")
    BY <1>t, <1>6, JobParts DEF HandOff, HandOffFails, Holding, NextStage, Kinds, InHand
  <2>2. /\ [status EXCEPT ![<<"parse", r>>] = "failed"] \in [JobIds -> Statuses]
        /\ FALSE \in BOOLEAN
    BY <1>t DEF Statuses, Ended
  <2>3. UNCHANGED queue \/ PushesNext(NextStage(r), r, FALSE)
    <3>1. CASE HandOff
      BY <1>t, <2>1, <2>2, <3>1, PushListed DEF HandOff
    <3>2. CASE HandOffFails
      BY <1>t, <2>1, <2>2, <3>2, PushListed DEF HandOffFails
    <3> QED
      BY <1>6, <3>1, <3>2
  <2> HIDE DEF r
  <2> QED
    BY <1>6, <2>1, <2>2, <2>3 DEF HandOff, HandOffFails, ListStep
<1>7. CASE BatchLostLock \/ HandBack \/ HandBackFails \/ BatchReportFails
  <2> DEFINE j == job["docling"]
             r == j.run
  <2>1. /\ j \in Jobs /\ r \in Runs /\ j.err \in BOOLEAN /\ Id(j) \in JobIds
        /\ InHand("docling")
    <3>1. j \in Jobs /\ InHand("docling")
      BY <1>t, <1>7
      DEF BatchLostLock, HandBack, HandBackFails, BatchReportFails, NoProject, NoSlot,
          Go, Holding, InHand
    <3> QED
      BY <3>1, JobParts
  <2>2. /\ [status EXCEPT ![Id(j)] = "failed"] \in [JobIds -> Statuses]
        /\ [status EXCEPT ![Id(j)] = "running"] \in [JobIds -> Statuses]
        /\ [status EXCEPT ![Id(j)] = "retrying", ![<<"parse", r>>] = "waiting_docling"]
             \in [JobIds -> Statuses]
        /\ "continue" \in Kinds /\ TRUE \in BOOLEAN
    BY <1>t DEF Statuses, Ended, Kinds
  <2>3. \E e \in BOOLEAN : UNCHANGED queue \/ PushesNext("continue", r, e)
    <3>1. CASE BatchLostLock
      BY <1>t, <2>1, <2>2, <3>1, PushListed DEF BatchLostLock
    <3>2. CASE HandBack
      BY <1>t, <2>1, <2>2, <3>2, PushListed DEF HandBack
    <3>3. CASE HandBackFails
      BY <1>t, <2>1, <2>2, <3>3, PushListed DEF HandBackFails
    <3>4. CASE BatchReportFails
      BY <1>t, <2>1, <2>2, <3>4, PushListed DEF BatchReportFails
    <3> QED
      BY <1>7, <3>1, <3>2, <3>3, <3>4
  <2>4. UNCHANGED proc
    BY <1>7 DEF BatchLostLock, HandBack, HandBackFails, BatchReportFails
  <2> HIDE DEF r
  <2> QED
    BY <2>1, <2>2, <2>3, <2>4 DEF ListStep
<1>8. CASE Requeue
  BY <1>8 DEF ListStep
<1>9. ASSUME NEW r \in Runs,
             \/ CheckLock(r) \/ ResetProgress(r) \/ TakeLock(r) \/ BindRead(r)
             \/ BindWrite(r) \/ ApiCrash(r) \/ Expire(r)
      PROVE  ListStep
  BY <1>9
  DEF CheckLock, ResetProgress, TakeLock, BindRead, BindWrite, ApiCrash, Expire, redis,
      ListStep
<1>10. ASSUME NEW p \in Projects, CancelRead(p) \/ CancelWrite(p) PROVE ListStep
  BY <1>10 DEF CancelRead, CancelWrite, redis, ListStep
<1>11. ASSUME NEW w \in Workers,
              Begin(w) \/ ClaimSlot(w) \/ ReleaseLocks(w) \/ Crash(w) \/ Beat(w)
       PROVE  ListStep
  BY <1>11 DEF Begin, ClaimSlot, ReleaseLocks, Crash, Beat, redis, ListStep
<1>12. CASE \/ LostLock \/ StartParse \/ WriteStarted \/ Continue \/ Persist
            \/ Complete \/ Retry \/ ParseFails \/ MapOutcome \/ ParsePdfs \/ CloseBatch
            \/ UNCHANGED vars
  BY <1>12
  DEF LostLock, StartParse, WriteStarted, Continue, Persist, Complete, Retry, ParseFails,
      MapOutcome, ParsePdfs, CloseBatch, vars, redis, ListStep
<1> QED
  BY <1>t, <1>1, <1>2, <1>3, <1>4, <1>5, <1>6, <1>7, <1>8, <1>9, <1>10, <1>11, <1>12
  DEF Next, Request, MainStep, DoclingStep, Common

\* A job's hash, once there, stays.
LEMMA HashesStay ==
  ASSUME TypeInv, [Next]_vars, NEW id \in JobIds, status[id] # "absent"
  PROVE  status'[id] # "absent"
<1>t. Holding /\ status \in [JobIds -> Statuses]
  BY DEF TypeInv, TypeOK
<1>s. \A s : JobStatusOf(s) # "absent"
  BY DEF JobStatusOf
<1>b. ASSUME NEW j, NEW s, SetBoth(j, s), s # "absent" PROVE status'[id] # "absent"
  BY <1>t, <1>b DEF SetBoth
<1>1. ASSUME NEW r \in Runs, PushJob(r) \/ PushFails(r) PROVE status'[id] # "absent"
  BY <1>t, <1>1 DEF PushJob, PushFails, AddParse
<1>2. ASSUME NEW w \in Workers, Recover(w) \/ Begin(w) \/ ClaimSlot(w)
      PROVE  status'[id] # "absent"
  BY <1>t, <1>2 DEF Recover, Begin, ClaimSlot
<1>3. CASE LostLock \/ Continue \/ ParseFails \/ MapOutcome \/ ParsePdfs
  BY <1>t, <1>s, <1>b, <1>3 DEF LostLock, Continue, ParseFails, MapOutcome, ParsePdfs
<1>4. ASSUME NEW j \in Jobs, Reclaim(j) PROVE status'[id] # "absent"
  BY <1>b, <1>4 DEF Reclaim
<1>5. CASE Requeue \/ StartParse \/ WriteStarted \/ CloseBatch
  BY <1>t, <1>5 DEF Requeue, StartParse, WriteStarted, CloseBatch
<1>6. CASE \/ HandOff \/ HandOffFails \/ BatchLostLock \/ HandBack \/ HandBackFails
           \/ BatchReportFails
  BY <1>t, <1>6
  DEF HandOff, HandOffFails, BatchLostLock, HandBack, HandBackFails, BatchReportFails,
      AddInternal, AddInternalFails
<1>7. CASE UNCHANGED status
  BY <1>7
<1>8. ASSUME NEW r \in Runs,
             \/ CheckLock(r) \/ ResetProgress(r) \/ TakeLock(r) \/ BindRead(r)
             \/ BindWrite(r) \/ ApiCrash(r) \/ Expire(r)
      PROVE  UNCHANGED status
  BY <1>8
  DEF CheckLock, ResetProgress, TakeLock, BindRead, BindWrite, ApiCrash, Expire, redis
<1>9. ASSUME NEW p \in Projects, CancelRead(p) \/ CancelWrite(p) PROVE UNCHANGED status
  BY <1>9 DEF CancelRead, CancelWrite, redis
<1>10. ASSUME NEW w \in Workers,
              Dequeue(w) \/ EndJob(w) \/ ReleaseLocks(w) \/ Crash(w) \/ Beat(w)
       PROVE  UNCHANGED status
  BY <1>10 DEF Dequeue, EndJob, ReleaseLocks, Crash, Beat, redis
<1>11. CASE Persist \/ Complete \/ Retry \/ UNCHANGED vars
  BY <1>11 DEF Persist, Complete, Retry, vars, redis
<1>12. "main" \in Workers /\ "docling" \in Workers
  BY DEF Workers
<1> QED
  BY <1>1, <1>2, <1>3, <1>4, <1>5, <1>6, <1>7, <1>8, <1>9, <1>10, <1>11, <1>12
  DEF Next, Request, MainStep, DoclingStep, Common

\* Only a request's own steps move it, and it does not go back to where its job was
\* not pushed.
LEMMA RequestSteps ==
  ASSUME [Next]_vars
  PROVE  \/ UNCHANGED req
         \/ \E s \in Runs : Request(s) \/ PushFails(s) \/ ApiCrash(s)
<1>1. ASSUME NEW p \in Projects, CancelRead(p) \/ CancelWrite(p) PROVE UNCHANGED req
  BY <1>1 DEF CancelRead, CancelWrite
<1>2. ASSUME NEW w \in Workers, Common(w) \/ Crash(w) \/ Beat(w) PROVE UNCHANGED req
  BY <1>2
  DEF Common, Recover, Dequeue, Begin, ClaimSlot, EndJob, ReleaseLocks, Crash, Beat, api
<1>3. ASSUME NEW j \in Jobs, Reclaim(j) PROVE UNCHANGED req
  BY <1>3 DEF Reclaim, api
<1>4. ASSUME NEW s \in Runs, Expire(s) PROVE UNCHANGED req
  BY <1>4 DEF Expire, api
<1>5. CASE \/ LostLock \/ Requeue \/ StartParse \/ WriteStarted \/ HandOff
           \/ HandOffFails \/ Continue \/ Persist \/ Complete \/ Retry \/ ParseFails
           \/ MapOutcome
  BY <1>5
  DEF LostLock, Requeue, StartParse, WriteStarted, HandOff, HandOffFails, Continue,
      Persist, Complete, Retry, ParseFails, MapOutcome, api
<1>6. CASE \/ BatchLostLock \/ ParsePdfs \/ HandBack \/ CloseBatch \/ HandBackFails
           \/ BatchReportFails \/ UNCHANGED vars
  BY <1>6
  DEF BatchLostLock, ParsePdfs, HandBack, CloseBatch, HandBackFails, BatchReportFails,
      vars, api
<1>7. "main" \in Workers /\ "docling" \in Workers
  BY DEF Workers
<1> QED
  BY <1>1, <1>2, <1>3, <1>4, <1>5, <1>6, <1>7 DEF Next, MainStep, DoclingStep

LEMMA FreshMoves ==
  ASSUME TypeInv, [Next]_vars, NEW r \in Runs, Fresh(r)'
  PROVE  Fresh(r)
<1>t. req \in [Runs -> ReqPcs]
  BY DEF TypeInv, TypeOK
<1>1. ASSUME NEW s \in Runs, Request(s) \/ PushFails(s) \/ ApiCrash(s) PROVE Fresh(r)
  BY <1>t, <1>1
  DEF Request, CheckLock, ResetProgress, TakeLock, PushJob, BindRead, BindWrite,
      PushFails, ApiCrash, ReqGo, Fresh
<1> QED
  BY <1>1, RequestSteps DEF Fresh

\* The main worker has just taken a job from the queue, or nobody has touched it.
LEMMA JustTaken ==
  ASSUME TypeInv, [Next]_vars, pc'["main"] \in {"got", "claim"}
  PROVE  \/ Dequeue("main")
         \/ /\ pc["main"] \in {"got", "claim"}
            /\ job'["main"] = job["main"] /\ proc'["main"] = proc["main"]
<1>t. /\ pc \in [Workers -> Pcs] /\ job \in [Workers -> Jobs \cup {NoJob}]
      /\ proc \in [Workers -> Seq(Jobs)]
      /\ "main" \in Workers /\ "docling" \in Workers
  BY DEF TypeInv, TypeOK, Workers
<1> DEFINE Goal == \/ Dequeue("main")
                   \/ /\ pc["main"] \in {"got", "claim"}
                      /\ job'["main"] = job["main"] /\ proc'["main"] = proc["main"]
<1> SUFFICES Goal
  OBVIOUS
<1>1. ASSUME NEW r \in Runs, Request(r) \/ PushFails(r) \/ ApiCrash(r) \/ Expire(r)
      PROVE  Goal
  BY <1>1
  DEF Request, CheckLock, ResetProgress, TakeLock, PushJob, BindRead, BindWrite,
      PushFails, ApiCrash, Expire, redis, wk
<1>2. ASSUME NEW p \in Projects, CancelRead(p) \/ CancelWrite(p) PROVE Goal
  BY <1>2 DEF CancelRead, CancelWrite, redis, wk
<1>3. ASSUME NEW w \in Workers, Beat(w) PROVE Goal
  BY <1>3 DEF Beat, wk
<1>4. ASSUME NEW j \in Jobs, Reclaim(j) PROVE Goal
  BY <1>4 DEF Reclaim, wk
<1>5. ASSUME NEW w \in Workers,
             Recover(w) \/ Begin(w) \/ ClaimSlot(w) \/ ReleaseLocks(w) \/ Crash(w)
      PROVE  Goal
  <2>1. CASE w = "main"
    BY <1>t, <1>5, <2>1
    DEF Recover, Begin, ClaimSlot, ReleaseLocks, Crash, Go, Leave, Loop, redis,
        Kinds, TypeInv, Holding, Jobs
  <2>2. CASE w # "main"
    BY <1>t, <1>5, <2>2
    DEF Recover, Begin, ClaimSlot, ReleaseLocks, Crash, Go, Leave, redis
  <2> QED
    BY <2>1, <2>2
<1>6. ASSUME NEW w \in Workers, EndJob(w) \/ Dequeue(w) PROVE Goal
  <2>1. CASE w = "main"
    BY <1>t, <1>6, <2>1 DEF EndJob, Leave, Loop
  <2>2. CASE w # "main"
    BY <1>t, <1>6, <2>2 DEF EndJob, Dequeue, Go, Leave
  <2> QED
    BY <2>1, <2>2
<1>7. CASE \/ LostLock \/ Requeue \/ StartParse \/ WriteStarted \/ HandOff
           \/ HandOffFails \/ Continue \/ Persist \/ Complete \/ ParseFails \/ MapOutcome
  BY <1>t, <1>7
  DEF LostLock, Requeue, StartParse, WriteStarted, HandOff, HandOffFails, Continue,
      Persist, Complete, ParseFails, MapOutcome, Go, Finish, Leave
<1>8. CASE Retry \/ UNCHANGED vars
  BY <1>8 DEF Retry, vars, redis, wk
<1>9. CASE \/ BatchLostLock \/ ParsePdfs \/ HandBack \/ CloseBatch \/ HandBackFails
           \/ BatchReportFails
  BY <1>t, <1>9
  DEF BatchLostLock, ParsePdfs, HandBack, CloseBatch, HandBackFails, BatchReportFails,
      Go, Finish, Leave
<1> QED
  BY <1>t, <1>1, <1>2, <1>3, <1>4, <1>5, <1>6, <1>7, <1>8, <1>9
  DEF Next, MainStep, DoclingStep, Common

LEMMA InitOnce == Init => OnceInv
<1> SUFFICES ASSUME Init PROVE OnceInv
  OBVIOUS
<1>1. \A q \in Workers : queue[q] = <<>> /\ proc[q] = <<>>
  BY DEF Init, Quiet
<1>2. \A q \in Workers : Held(q) = {}
  BY <1>1, EmptyIds DEF Held
<1>3. pc["main"] = "boot"
  BY DEF Init, Quiet, Workers
<1> QED
  BY <1>1, <1>2, <1>3, EmptyIds DEF OnceInv, Apart

LEMMA PushApart ==
  ASSUME TypeInv, Apart, NEW w \in Workers, NEW j \in Jobs, Id(j) \notin Held(w),
         queue' = [queue EXCEPT ![w] = Append(@, j)], UNCHANGED proc
  PROVE  /\ Apart'
         /\ \A q \in Workers :
               Held(q)' = IF q = w THEN Held(q) \cup {Id(j)} ELSE Held(q)
<1>t. queue \in [Workers -> Seq(Jobs)] /\ proc \in [Workers -> Seq(Jobs)]
  BY DEF TypeInv, TypeOK
<1>1. /\ IdsOf(queue'[w]) = IdsOf(queue[w]) \cup {Id(j)}
      /\ Unique(queue'[w])
  <2>1. queue'[w] = Append(queue[w], j) /\ queue[w] \in Seq(Jobs)
    BY <1>t
  <2>2. Unique(queue[w]) /\ Id(j) \notin IdsOf(queue[w])
    BY DEF Apart, Held
  <2> QED
    BY <2>1, <2>2, AppendIds
<1>2. \A q \in Workers \ {w} : queue'[q] = queue[q]
  BY <1>t
<1>3. Apart'
  BY <1>1, <1>2 DEF Apart, Held
<1>4. \A q \in Workers : Held(q)' = IF q = w THEN Held(q) \cup {Id(j)} ELSE Held(q)
  BY <1>1, <1>2 DEF Held
<1> QED
  BY <1>3, <1>4

\* Jobs that go from one list of a queue to the other, or are removed.
LEMMA MoveApart ==
  ASSUME TypeInv, Apart,
         \/ \E w \in Workers : PutsBack(w) \/ Takes(w)
         \/ \E w \in Workers, j \in Jobs : Ends(w, j)
  PROVE  /\ Apart'
         /\ \A q \in Workers : Held(q)' \subseteq Held(q)
         /\ \A q \in Workers : \A id \in Held(q) :
               \/ id \in Held(q)'
               \/ \E j \in Jobs : Ends(q, j) /\ id = Id(j)
<1>t. queue \in [Workers -> Seq(Jobs)] /\ proc \in [Workers -> Seq(Jobs)]
  BY DEF TypeInv, TypeOK
<1> SUFFICES ASSUME NEW w \in Workers,
                    PutsBack(w) \/ Takes(w) \/ \E j \in Jobs : Ends(w, j)
             PROVE  /\ Apart'
                    /\ \A q \in Workers : Held(q)' \subseteq Held(q)
                    /\ \A q \in Workers : \A id \in Held(q) :
                          \/ id \in Held(q)'
                          \/ \E j \in Jobs : Ends(q, j) /\ id = Id(j)
  OBVIOUS
<1>u. /\ Unique(queue[w]) /\ Unique(proc[w]) /\ IdsOf(queue[w]) \cap IdsOf(proc[w]) = {}
      /\ queue[w] \in Seq(Jobs) /\ proc[w] \in Seq(Jobs)
  BY <1>t DEF Apart
<1>1. /\ Unique(queue'[w]) /\ Unique(proc'[w])
      /\ IdsOf(queue'[w]) \cap IdsOf(proc'[w]) = {}
      /\ IdsOf(queue'[w]) \cup IdsOf(proc'[w]) \subseteq Held(w)
      /\ \A id \in Held(w) : \/ id \in IdsOf(queue'[w]) \cup IdsOf(proc'[w])
                              \/ \E j \in Jobs : Ends(w, j) /\ id = Id(j)
  <2>1. CASE PutsBack(w)
    <3>1. queue'[w] = proc[w] \o queue[w] /\ proc'[w] = <<>>
      BY <1>t, <2>1 DEF PutsBack
    <3>2. /\ IdsOf(proc[w] \o queue[w]) = IdsOf(proc[w]) \cup IdsOf(queue[w])
          /\ Unique(proc[w] \o queue[w])
      BY <1>u, ConcatIds
    <3> QED
      BY <3>1, <3>2, EmptyIds DEF Held
  <2>2. CASE Takes(w)
    <3> DEFINE h == Head(queue[w])
    <3>1. /\ h \in Jobs /\ Tail(queue[w]) \in Seq(Jobs)
          /\ IdsOf(queue[w]) = {Id(h)} \cup IdsOf(Tail(queue[w]))
          /\ Unique(Tail(queue[w])) /\ Id(h) \notin IdsOf(Tail(queue[w]))
      BY <1>u, <2>2, HeadIds DEF Takes
    <3>2. queue'[w] = Tail(queue[w]) /\ proc'[w] = Append(proc[w], h)
      BY <1>t, <2>2 DEF Takes
    <3> HIDE DEF h
    <3>3. /\ IdsOf(Append(proc[w], h)) = IdsOf(proc[w]) \cup {Id(h)}
          /\ Unique(Append(proc[w], h))
      BY <1>u, <3>1, AppendIds
    <3> QED
      BY <1>u, <3>1, <3>2, <3>3 DEF Held
  <2>3. ASSUME NEW j \in Jobs, Ends(w, j)
        PROVE  /\ Unique(queue'[w]) /\ Unique(proc'[w])
               /\ IdsOf(queue'[w]) \cap IdsOf(proc'[w]) = {}
               /\ IdsOf(queue'[w]) \cup IdsOf(proc'[w]) \subseteq Held(w)
               /\ Held(w) \ {Id(j)} \subseteq IdsOf(queue'[w]) \cup IdsOf(proc'[w])
    <3>1. queue'[w] = queue[w] /\ proc'[w] = RemoveFirst(proc[w], j)
      BY <1>t, <2>3 DEF Ends
    <3>2. /\ IdsOf(RemoveFirst(proc[w], j)) \subseteq IdsOf(proc[w])
          /\ IdsOf(proc[w]) \ {Id(j)} \subseteq IdsOf(RemoveFirst(proc[w], j))
          /\ Unique(RemoveFirst(proc[w], j))
      BY <1>u, RemoveIds
    <3> QED
      BY <1>u, <3>1, <3>2 DEF Held
  <2> QED
    BY <2>1, <2>2, <2>3
<1>2. \A q \in Workers \ {w} : queue'[q] = queue[q] /\ proc'[q] = proc[q]
  BY <1>t DEF PutsBack, Takes, Ends
<1>3. Apart'
  BY <1>1, <1>2 DEF Apart
<1> QED
  BY <1>1, <1>2, <1>3 DEF Held

\* A requeue takes the job from the processing list before it is in the queue.
LEMMA RequeueApart ==
  ASSUME TypeInv, OnceInv, Requeue
  PROVE  Apart' /\ \A q \in Workers : Held(q)' = Held(q)
<1> DEFINE j == job["main"]
           c == proc["main"]
           d == queue["main"]
<1>t. /\ queue \in [Workers -> Seq(Jobs)] /\ proc \in [Workers -> Seq(Jobs)]
      /\ "main" \in Workers /\ j \in Jobs /\ Apart
  BY DEF TypeInv, TypeOK, Holding, Workers, Requeue, OnceInv
<1>1. \E k \in 1..Len(c) : c[k] = j
  BY DEF OnceInv, Requeue
<1>2. queue'["main"] = Append(d, j) /\ proc'["main"] = RemoveFirst(c, j)
  BY <1>t DEF Requeue
<1>3. /\ \A q \in Workers \ {"main"} : queue'[q] = queue[q] /\ proc'[q] = proc[q]
      /\ c \in Seq(Jobs) /\ d \in Seq(Jobs)
      /\ Unique(c) /\ Unique(d) /\ IdsOf(d) \cap IdsOf(c) = {}
  BY <1>t DEF Requeue, Apart
<1>h. Held("main") = IdsOf(d) \cup IdsOf(c)
  BY DEF Held
<1> HIDE DEF j, c, d
<1>4. /\ IdsOf(RemoveFirst(c, j)) \subseteq IdsOf(c) /\ Unique(RemoveFirst(c, j))
      /\ IdsOf(c) \ {Id(j)} \subseteq IdsOf(RemoveFirst(c, j))
      /\ Id(j) \in IdsOf(c) /\ Id(j) \notin IdsOf(RemoveFirst(c, j))
  BY <1>1, <1>3, RemoveIds
<1>5. IdsOf(Append(d, j)) = IdsOf(d) \cup {Id(j)} /\ Unique(Append(d, j))
  BY <1>t, <1>3, <1>4, AppendIds
<1>6. Apart'
  <2>1. (IdsOf(d) \cup {Id(j)}) \cap IdsOf(RemoveFirst(c, j)) = {}
    BY <1>3, <1>4
  <2>2. /\ Unique(queue'["main"]) /\ Unique(proc'["main"])
        /\ IdsOf(queue'["main"]) \cap IdsOf(proc'["main"]) = {}
    BY <1>2, <1>4, <1>5, <2>1
  <2> QED
    BY <1>t, <1>3, <2>2 DEF Apart
<1>7. ASSUME NEW q \in Workers PROVE Held(q)' = Held(q)
  <2>1. CASE q = "main"
    <3>1. Held(q)' = (IdsOf(d) \cup {Id(j)}) \cup IdsOf(RemoveFirst(c, j))
      BY <1>2, <1>5, <2>1 DEF Held
    <3> QED
      BY <1>4, <1>h, <2>1, <3>1
  <2>2. CASE q # "main"
    BY <1>3, <2>2 DEF Held
  <2> QED
    BY <2>1, <2>2
<1> QED
  BY <1>6, <1>7

LEMMA StepOnce ==
  ASSUME TypeInv, TypeInv', OnceInv, [Next]_vars
  PROVE  OnceInv'
<1>t. /\ "main" \in Workers /\ Apart
      /\ queue \in [Workers -> Seq(Jobs)] /\ proc \in [Workers -> Seq(Jobs)]
  BY DEF OnceInv, Workers, TypeInv, TypeOK
<1>i. \A q \in Workers : Held(q) \subseteq JobIds
  <2> TAKE q \in Workers
  <2>1. /\ queue[q] \in Seq(Jobs) /\ proc[q] \in Seq(Jobs)
    BY <1>t
  <2>2. ASSUME NEW s \in Seq(Jobs) PROVE IdsOf(s) \subseteq JobIds
    BY JobParts, LenProperties, ElementOfSeq DEF IdsOf
  <2> QED
    BY <2>1, <2>2 DEF Held
\* What is new in the lists was nowhere, has a hash, and is not of a fresh run.
<1> DEFINE Kept ==
             /\ Apart'
             /\ \A q \in Workers : \A id \in Held(q)' :
                   \/ id \in Held(q)
                   \/ /\ status'[id] # "absent"
                      /\ \A r \in Runs : Fresh(r)' => id # <<"parse", r>>
<1>1. Kept
  <2>0. ListStep
    BY ListSteps
  <2>1. CASE UNCHANGED <<queue, proc>>
    BY <1>t, <2>1 DEF Apart, Held
  <2>2. ASSUME NEW r \in Runs, PushesParse(r) PROVE Kept
    <3>1. /\ Job("parse", r, FALSE) \in Jobs /\ Id(Job("parse", r, FALSE)) = <<"parse", r>>
      BY JobParts DEF Kinds
    <3>2. <<"parse", r>> \notin Held("main")
      BY <1>t, <2>2 DEF OnceInv, PushesParse, Fresh
    <3>3. Apart' /\ \A q \in Workers : Held(q)' \subseteq Held(q) \cup {<<"parse", r>>}
      BY <1>t, <2>2, <3>1, <3>2, PushApart DEF PushesParse
    <3> QED
      BY <2>2, <3>3 DEF PushesParse
  <2>3. ASSUME NEW k \in Kinds, NEW r \in Runs, NEW e \in BOOLEAN, PushesNext(k, r, e)
        PROVE  Kept
    <3>1. Job(k, r, e) \in Jobs /\ Id(Job(k, r, e)) = <<k, r>> /\ QueueOf(k) \in Workers
      BY JobParts DEF QueueOf, Workers
    <3>2. <<k, r>> \notin Held(QueueOf(k))
      BY <2>3, <3>1 DEF OnceInv, PushesNext
    <3>3. Apart' /\ \A q \in Workers : Held(q)' \subseteq Held(q) \cup {<<k, r>>}
      BY <1>t, <2>3, <3>1, <3>2, PushApart DEF PushesNext
    <3> QED
      BY <2>3, <3>3 DEF PushesNext
  <2>4. ASSUME \/ \E w \in Workers : PutsBack(w) \/ Takes(w)
               \/ \E w \in Workers, j \in Jobs : Ends(w, j)
        PROVE  Kept
    BY <1>t, <2>4, MoveApart
  <2>5. CASE Requeue
    BY <2>5, RequeueApart
  <2> QED
    BY <2>0, <2>1, <2>2, <2>3, <2>4, <2>5 DEF ListStep
<1>2. \A q \in Workers : \A id \in Held(q)' : status'[id] # "absent"
  BY <1>1, <1>i, HashesStay DEF OnceInv
<1>3. \A r \in Runs : Fresh(r)' => \A q \in Workers : <<"parse", r>> \notin Held(q)'
  BY <1>1, FreshMoves DEF OnceInv
<1>4. pc'["main"] \in {"got", "claim"} =>
          \E k \in 1..Len(proc'["main"]) : proc'["main"][k] = job'["main"]
  <2> SUFFICES ASSUME pc'["main"] \in {"got", "claim"}
               PROVE  \E k \in 1..Len(proc'["main"]) : proc'["main"][k] = job'["main"]
    OBVIOUS
  <2>1. CASE Dequeue("main")
    <3> DEFINE h == Head(queue["main"])
               c == proc["main"]
    <3>1. /\ h \in Jobs /\ c \in Seq(Jobs)
          /\ proc'["main"] = Append(c, h) /\ job'["main"] = h
      BY <1>t, <2>1, HeadTailProperties DEF Dequeue, TypeInv, TypeOK
    <3> HIDE DEF h, c
    <3>2. /\ Append(c, h)[Len(c) + 1] = h /\ Len(Append(c, h)) = Len(c) + 1
          /\ Len(c) \in Nat
      BY <3>1, AppendProperties, LenProperties
    <3>3. Len(c) + 1 \in 1..Len(Append(c, h))
      BY <3>2
    <3> QED
      BY <3>1, <3>2, <3>3
  <2>2. CASE /\ pc["main"] \in {"got", "claim"}
             /\ job'["main"] = job["main"] /\ proc'["main"] = proc["main"]
    BY <2>2 DEF OnceInv
  <2> QED
    BY <2>1, <2>2, JustTaken
<1> QED
  BY <1>1, <1>2, <1>3, <1>4 DEF OnceInv

\* A job is queued once or being processed once, never both, whatever is handed off,
\* requeued, crashes or is recovered, and however often requests and Redis fail
\* (enqueue_internal_job, dequeue_job, recover_processing_jobs, _requeue_s1_job).
THEOREM JobsAreOnce == Spec => []JobsOnce
<1>1. TypeInv /\ OnceInv => JobsOnce
  <2> SUFFICES ASSUME TypeInv, OnceInv, NEW q \in Workers
               PROVE  LET s == queue[q] \o proc[q] IN
                      \A i, k \in 1..Len(s) : Id(s[i]) = Id(s[k]) => i = k
    BY DEF JobsOnce
  <2>1. queue[q] \in Seq(Jobs) /\ proc[q] \in Seq(Jobs)
    BY DEF TypeInv, TypeOK
  <2>2. queue[q] \o proc[q] \in Seq(Jobs) /\ Unique(queue[q] \o proc[q])
    BY <2>1, ConcatIds DEF OnceInv, Apart
  <2>3. DOMAIN (queue[q] \o proc[q]) = 1..Len(queue[q] \o proc[q])
    BY <2>2, LenProperties
  <2> QED
    BY <2>2, <2>3 DEF Unique
<1>2. TypeInv /\ OnceInv /\ [Next]_vars => TypeInv' /\ OnceInv'
  BY StepTypes, StepOnce
<1> QED
  BY <1>1, <1>2, InitTypes, InitOnce, PTL DEF Spec

-----------------------------------------------------------------------------
(* No run is lost.                                                         *)

Listed(id) == id \in Held(QueueOf(id[1]))

\* What a job was for is settled, or the next job of its run exists.
PassedOn(id) ==
    LET next(k) == status[<<k, id[2]>>] # "absent" IN
    \/ /\ id[1] = "parse"
       /\ status[id] \in Ended \/ next("docling") \/ next("continue")
    \/ /\ id[1] = "docling"
       /\ status[id] = "cancelled" \/ next("continue")
    \/ /\ id[1] = "continue"
       /\ status[id] \in Ended

\* Every job that was ever added is in its lists or has passed its run on; it has
\* when its worker comes to take it off them.
AccountInv ==
    /\ \A q \in Workers : \A id \in Held(q) : id \in JobIds /\ QueueOf(id[1]) = q
    /\ \A w \in Workers : InHand(w) => Id(job[w]) \in IdsOf(proc[w])
    /\ \A id \in JobIds : status[id] # "absent" => Listed(id) \/ PassedOn(id)
    /\ \A w \in Workers : pc[w] = "ending" => PassedOn(Id(job[w]))
    /\ pc["main"] \in {"parse", "started", "handoff"} => job["main"].kind = "parse"
    /\ pc["docling"] = "handed" =>
          status[<<"continue", job["docling"].run>>] # "absent"

\* A worker has a job in hand because it has just taken it, or had it.
LEMMA HandSteps ==
  ASSUME TypeInv, [Next]_vars, NEW w \in Workers, InHand(w)'
  PROVE  \/ Dequeue(w)
         \/ InHand(w) /\ Id(job'[w]) = Id(job[w]) /\ proc'[w] = proc[w]
<1>t. /\ pc \in [Workers -> Pcs] /\ job \in [Workers -> Jobs \cup {NoJob}]
      /\ proc \in [Workers -> Seq(Jobs)]
      /\ "main" \in Workers /\ "docling" \in Workers /\ "main" # "docling"
  BY DEF TypeInv, TypeOK, Workers
<1> DEFINE Goal == \/ Dequeue(w)
                   \/ InHand(w) /\ Id(job'[w]) = Id(job[w]) /\ proc'[w] = proc[w]
<1> SUFFICES Goal
  OBVIOUS
<1>1. ASSUME NEW r \in Runs, Request(r) \/ PushFails(r) \/ ApiCrash(r) \/ Expire(r)
      PROVE  Goal
  BY <1>1
  DEF Request, CheckLock, ResetProgress, TakeLock, PushJob, BindRead, BindWrite,
      PushFails, ApiCrash, Expire, redis, wk, InHand
<1>2. ASSUME NEW p \in Projects, CancelRead(p) \/ CancelWrite(p) PROVE Goal
  BY <1>2 DEF CancelRead, CancelWrite, redis, wk, InHand
<1>3. ASSUME NEW v \in Workers, Beat(v) PROVE Goal
  BY <1>3 DEF Beat, wk, InHand
<1>4. ASSUME NEW j \in Jobs, Reclaim(j) PROVE Goal
  BY <1>t, <1>4 DEF Reclaim, wk, InHand
<1>5. ASSUME NEW v \in Workers,
             \/ Recover(v) \/ Dequeue(v) \/ Begin(v) \/ ClaimSlot(v) \/ EndJob(v)
             \/ ReleaseLocks(v) \/ Crash(v)
      PROVE  Goal
  <2>1. CASE v = w
    BY <1>t, <1>5, <2>1
    DEF Recover, Begin, ClaimSlot, EndJob, ReleaseLocks, Crash, Go, Leave, Loop, redis,
        InHand
  <2>2. CASE v # w
    BY <1>t, <1>5, <2>2
    DEF Recover, Dequeue, Begin, ClaimSlot, EndJob, ReleaseLocks, Crash, Go, Leave,
        redis, InHand
  <2> QED
    BY <2>1, <2>2
<1>6. CASE \/ LostLock \/ Requeue \/ StartParse \/ WriteStarted \/ HandOff
           \/ HandOffFails \/ Continue \/ Persist \/ Complete \/ ParseFails \/ MapOutcome
  BY <1>t, <1>6
  DEF LostLock, Requeue, StartParse, WriteStarted, HandOff, HandOffFails, Continue,
      Persist, Complete, ParseFails, MapOutcome, Go, Finish, Leave, redis, InHand
<1>7. CASE Retry \/ UNCHANGED vars
  BY <1>7 DEF Retry, vars, redis, wk, InHand
<1>8. CASE ParsePdfs \/ CloseBatch
  <2>1. job["docling"] \in Jobs
    BY <1>8 DEF ParsePdfs, CloseBatch, TypeInv, Holding, Workers
  <2>2. \A e : Id([job["docling"] EXCEPT !.err = e]) = Id(job["docling"])
    BY <2>1 DEF Jobs, Id
  <2>3. /\ UNCHANGED proc /\ InHand("docling") /\ \A v \in Workers \ {"docling"} : pc'[v] = pc[v]
        /\ \/ UNCHANGED job
           \/ \E e : job' = [job EXCEPT !["docling"].err = e]
    BY <1>t, <1>8 DEF ParsePdfs, CloseBatch, Finish, InHand
  <2> QED
    BY <1>t, <2>2, <2>3 DEF InHand
<1>9. CASE BatchLostLock \/ HandBack \/ HandBackFails \/ BatchReportFails
  BY <1>t, <1>9
  DEF BatchLostLock, HandBack, HandBackFails, BatchReportFails, NoProject, NoSlot, Go,
      Finish, Leave, InHand
<1> QED
  BY <1>t, <1>1, <1>2, <1>3, <1>4, <1>5, <1>6, <1>7, <1>8, <1>9
  DEF Next, MainStep, DoclingStep, Common

\* A worker is not done with the job, or the job is put back or pushed.
Rework(id) ==
    \/ \E w \in Workers : Recover(w) /\ id \in IdsOf(proc[w])
    \/ \E r \in Runs : PushesParse(r) /\ id = <<"parse", r>>
    \/ \E w \in Workers : InHand(w) /\ pc[w] # "ending" /\ id = Id(job[w])

LEMMA HandFacts ==
  ASSUME TypeInv, OnceInv, AccountInv, NEW w \in Workers, InHand(w)
  PROVE  /\ job[w] \in Jobs /\ job[w].run \in Runs /\ job[w].kind \in Kinds
         /\ Id(job[w]) = <<job[w].kind, job[w].run>> /\ Id(job[w]) \in JobIds
         /\ Id(job[w]) \in IdsOf(proc[w]) /\ Id(job[w]) \in Held(w)
         /\ QueueOf(job[w].kind) = w /\ status[Id(job[w])] # "absent"
<1>1. job[w] \in Jobs
  BY DEF InHand, TypeInv, Holding
<1>2. /\ job[w].run \in Runs /\ job[w].kind \in Kinds /\ Id(job[w]) \in JobIds
      /\ Id(job[w]) = <<job[w].kind, job[w].run>>
  BY <1>1, JobParts DEF Id
<1>3. Id(job[w]) \in IdsOf(proc[w]) /\ Id(job[w]) \in Held(w)
  BY DEF AccountInv, Held
<1>4. QueueOf(Id(job[w])[1]) = w /\ status[Id(job[w])] # "absent"
  BY <1>3 DEF AccountInv, OnceInv
<1> QED
  BY <1>1, <1>2, <1>3, <1>4

\* What enqueue_internal_job does to a hash, applied or not.
LEMMA AddedStatus ==
  ASSUME TypeInv, NEW k \in Kinds, k # "parse", NEW r \in Runs, NEW e \in BOOLEAN,
         NEW w \in Workers, InHand(w), job[w].run = r,
         NEW st \in [JobIds -> Statuses], UNCHANGED proc,
         AddInternal(st, k, r, e) \/ AddInternalFails(st, k, r, e),
         NEW id \in JobIds
  PROVE  \/ status'[id] = st[id]
         \/ PushesNext(k, r, e) /\ id = <<k, r>>
         \/ /\ k = "continue" /\ id = <<"parse", r>>
            /\ status'[<<"continue", r>>] # "absent"
<1>1. <<k, r>> \in JobIds /\ <<"parse", r>> \in JobIds /\ <<k, r>> # <<"parse", r>>
  BY JobParts DEF Kinds
<1>2. CASE AddInternal(st, k, r, e) /\ status[<<k, r>>] = "absent"
  <2>1. /\ queue' = [queue EXCEPT ![QueueOf(k)] = Append(@, Job(k, r, e))]
        /\ status' = [st EXCEPT
              ![<<k, r>>] = "queued",
              ![<<"parse", r>>] =
                  IF k = "continue" THEN "waiting_continuation" ELSE @]
    BY <1>2 DEF AddInternal
  <2>2. status'[<<k, r>>] = "queued"
    BY <1>1, <2>1
  <2>3. PushesNext(k, r, e)
    BY <1>2, <2>1, <2>2 DEF PushesNext
  <2>4. CASE id = <<k, r>>
    BY <2>3, <2>4
  <2>5. CASE id = <<"parse", r>>
    BY <1>1, <2>1, <2>2, <2>5
  <2>6. CASE id # <<k, r>> /\ id # <<"parse", r>>
    BY <2>1, <2>6
  <2> QED
    BY <2>4, <2>5, <2>6
<1>3. CASE AddInternal(st, k, r, e) /\ status[<<k, r>>] # "absent"
  BY <1>3 DEF AddInternal
<1>4. CASE AddInternalFails(st, k, r, e)
  BY <1>1, <1>4 DEF AddInternalFails, PushesNext
<1> QED
  BY <1>2, <1>3, <1>4

\* Who writes a job's hash: a worker at work on the job, a push, an end of the run, or,
\* for the parse job's, a later job of the run.
LEMMA StatusMoves ==
  ASSUME TypeInv, OnceInv, AccountInv, [Next]_vars,
         NEW id \in JobIds, status'[id] # status[id]
  PROVE  \/ Rework(id)
         \/ \E k \in Kinds, r \in Runs, e \in BOOLEAN :
               PushesNext(k, r, e) /\ id = <<k, r>>
         \/ id[1] # "docling" /\ status'[id] \in Ended
         \/ /\ id[1] = "parse"
            /\ \E k \in {"docling", "continue"} : status'[<<k, id[2]>>] # "absent"
<1> DEFINE Pushed == \E k \in Kinds, r \in Runs, e \in BOOLEAN :
                        PushesNext(k, r, e) /\ id = <<k, r>>
           Closed == id[1] # "docling" /\ status'[id] \in Ended
           Later  == /\ id[1] = "parse"
                     /\ \E k \in {"docling", "continue"} : status'[<<k, id[2]>>] # "absent"
           Goal   == Rework(id) \/ Pushed \/ Closed \/ Later
<1> SUFFICES Goal
  OBVIOUS
<1>t. /\ status \in [JobIds -> Statuses]
      /\ "main" \in Workers /\ "docling" \in Workers /\ "main" # "docling"
      /\ \A r \in Runs, k \in Kinds : <<k, r>> \in JobIds
      /\ "parse" \in Kinds /\ "docling" \in Kinds /\ "continue" \in Kinds
  BY JobParts DEF TypeInv, TypeOK, Workers, Kinds
<1>e. \A s : JobStatusOf(s) \in Ended
  BY DEF JobStatusOf, Ended
\* The run of a batch in hand has a batch.
<1>d. ASSUME InHand("docling"), id = <<"parse", job["docling"].run>> PROVE Later
  <2>1. /\ Id(job["docling"]) = <<job["docling"].kind, job["docling"].run>>
        /\ Id(job["docling"]) \in JobIds
        /\ status[Id(job["docling"])] # "absent"
        /\ QueueOf(job["docling"].kind) = "docling"
    BY <1>t, <1>d, HandFacts
  <2>2. status'[Id(job["docling"])] # "absent" /\ job["docling"].kind = "docling"
    BY <1>t, <2>1, HashesStay DEF QueueOf
  <2> QED
    BY <1>d, <2>1, <2>2
\* Nobody else writes what the main worker writes.
<1>m. ASSUME InHand("main"), pc["main"] # "ending",
             id \in {Id(job["main"]), <<"parse", job["main"].run>>}
      PROVE  Rework(id) \/ Later
  <2>1. CASE id = Id(job["main"])
    BY <1>t, <1>m, <2>1 DEF Rework
  <2>2. CASE id # Id(job["main"]) /\ id = <<"parse", job["main"].run>>
    <3>1. /\ Id(job["main"]) = <<job["main"].kind, job["main"].run>>
          /\ job["main"].kind \in Kinds /\ Id(job["main"]) \in JobIds
          /\ status[Id(job["main"])] # "absent"
          /\ QueueOf(job["main"].kind) = "main"
      BY <1>t, <1>m, HandFacts
    <3>2. job["main"].kind = "continue" /\ status'[Id(job["main"])] # "absent"
      BY <1>t, <2>2, <3>1, HashesStay DEF QueueOf, Kinds
    <3> QED
      BY <2>2, <3>1, <3>2
  <2> QED
    BY <1>m, <2>1, <2>2
<1>1. ASSUME NEW r \in Runs, PushJob(r) \/ PushFails(r) PROVE Goal
  <2>1. id = <<"parse", r>> /\ AddParse(r)
    BY <1>t, <1>1 DEF PushJob, PushFails, AddParse
  <2>2. PushesParse(r)
    BY <1>t, <1>1, <2>1
    DEF PushJob, PushFails, PushesParse, AddParse, ReqGo, Fresh, TypeInv, TypeOK
  <2> QED
    BY <2>1, <2>2 DEF Rework
<1>2. ASSUME NEW w \in Workers, Recover(w) PROVE Goal
  <2>1. \E j \in Members(proc[w]) : id = Id(j)
    BY <1>t, <1>2 DEF Recover
  <2>2. id \in IdsOf(proc[w])
    BY <2>1, LenProperties DEF Members, IdsOf, TypeInv, TypeOK
  <2> QED
    BY <1>2, <2>2 DEF Rework
<1>3. ASSUME NEW w \in Workers, Begin(w) PROVE Goal
  <2>1. id = Id(job[w])
    BY <1>t, <1>3 DEF Begin
  <2> QED
    BY <1>3, <2>1 DEF Rework, Begin, Go, InHand
<1>4. ASSUME NEW w \in Workers, ClaimSlot(w) PROVE Goal
  <2>1. w = "docling" /\ id = <<"parse", job["docling"].run>> /\ InHand("docling")
    BY <1>t, <1>4 DEF ClaimSlot, InHand
  <2> QED
    BY <1>d, <2>1
<1>5. CASE LostLock \/ Continue \/ ParseFails \/ MapOutcome
  <2>1. InHand("main") /\ pc["main"] # "ending"
    BY <1>5 DEF LostLock, Continue, ParseFails, MapOutcome, InHand
  <2>2. id \in {Id(job["main"]), <<"parse", job["main"].run>>}
    BY <1>t, <1>5 DEF LostLock, Continue, ParseFails, MapOutcome, SetBoth
  <2> QED
    BY <1>m, <2>1, <2>2
<1>6. CASE Requeue \/ StartParse \/ WriteStarted
  <2>1. InHand("main") /\ pc["main"] # "ending"
    BY <1>6 DEF Requeue, StartParse, WriteStarted, Go, InHand
  <2>2. id \in {Id(job["main"]), <<"parse", job["main"].run>>}
    BY <1>t, <1>6 DEF Requeue, StartParse, WriteStarted
  <2> QED
    BY <1>m, <2>1, <2>2
<1>7. CASE ParsePdfs \/ CloseBatch
  <2>1. InHand("docling") /\ pc["docling"] # "ending"
    BY <1>7 DEF ParsePdfs, CloseBatch, InHand
  <2>2. id \in {Id(job["docling"]), <<"parse", job["docling"].run>>}
    BY <1>t, <1>7 DEF ParsePdfs, CloseBatch, SetBoth
  <2> QED
    BY <1>t, <1>d, <2>1, <2>2 DEF Rework
<1>8. ASSUME NEW j \in Jobs, Reclaim(j) PROVE Goal
  <2>1. id \in {Id(j), <<"parse", j.run>>} /\ status'[id] = "failed"
    BY <1>t, <1>8 DEF Reclaim, SetBoth
  <2> QED
    BY <1>8, <2>1 DEF Reclaim, Id, Ended
<1>9. CASE HandOff \/ HandOffFails
  <2> DEFINE parse == <<"parse", job["main"].run>>
  <2>1. /\ job["main"].run \in Runs /\ FALSE \in BOOLEAN
        /\ NextStage(job["main"].run) \in Kinds
        /\ NextStage(job["main"].run) # "parse"
        /\ InHand("main")
    BY <1>t, <1>9, JobParts
    DEF HandOff, HandOffFails, Holding, TypeInv, NextStage, Kinds, Go,
        InHand
  <2>2. UNCHANGED proc
    BY <1>9 DEF HandOff, HandOffFails
  <2>3. ASSUME NEW st \in [JobIds -> Statuses], NEW r \in Runs,
               NEW k \in Kinds, k # "parse", NEW e \in BOOLEAN, job["main"].run = r,
               AddInternal(st, k, r, e) \/ AddInternalFails(st, k, r, e)
        PROVE  status'[id] = st[id] \/ Pushed \/ Later
    <3>1. \/ status'[id] = st[id]
          \/ PushesNext(k, r, e) /\ id = <<k, r>>
          \/ id = <<"parse", r>> /\ status'[<<"continue", r>>] # "absent"
      BY <1>t, <2>1, <2>2, <2>3, AddedStatus
    <3> QED
      BY <3>1
  <2>4. CASE HandOff
    <3>1. AddInternal(status, NextStage(job["main"].run), job["main"].run, FALSE)
      BY <2>4 DEF HandOff
    <3> QED
      BY <1>t, <2>1, <2>3, <3>1
  <2>5. CASE HandOffFails
    <3>1. AddInternalFails([status EXCEPT ![parse] = "failed"],
                           NextStage(job["main"].run), job["main"].run, FALSE)
      BY <2>5 DEF HandOffFails
    <3>2. [status EXCEPT ![parse] = "failed"] \in [JobIds -> Statuses]
      BY <1>t DEF Statuses, Ended
    <3>3. status'[id] = [status EXCEPT ![parse] = "failed"][id] => Closed
      BY <1>t DEF Ended
    <3> QED
      BY <2>1, <2>3, <3>1, <3>2, <3>3
  <2> QED
    BY <1>9, <2>4, <2>5
<1>10. CASE BatchLostLock \/ HandBack \/ HandBackFails \/ BatchReportFails
  <2> DEFINE j == job["docling"]
             r == j.run
  <2>1. InHand("docling") /\ pc["docling"] # "ending" /\ UNCHANGED proc
    BY <1>10
    DEF BatchLostLock, HandBack, HandBackFails, BatchReportFails, NoProject, NoSlot, Go,
        InHand
  <2>2. j \in Jobs /\ r \in Runs /\ j.err \in BOOLEAN /\ TRUE \in BOOLEAN
    BY <1>t, <2>1, HandFacts, JobParts
  <2>3. ASSUME NEW st \in [JobIds -> Statuses], NEW e \in BOOLEAN,
               \A i \in JobIds \ {Id(j), <<"parse", r>>} : st[i] = status[i],
               \/ AddInternal(st, "continue", r, e)
               \/ AddInternalFails(st, "continue", r, e)
               \/ status' = st
        PROVE  Goal
    <3>1. \/ status'[id] = st[id]
          \/ PushesNext("continue", r, e) /\ id = <<"continue", r>>
          \/ id = <<"parse", r>> /\ status'[<<"continue", r>>] # "absent"
      BY <1>t, <2>1, <2>2, <2>3, AddedStatus
    <3>2. CASE status'[id] = st[id]
      <4>1. id \in {Id(j), <<"parse", r>>}
        BY <2>3, <3>2
      <4> QED
        BY <1>t, <1>d, <2>1, <4>1 DEF Rework
    <3> QED
      BY <1>t, <2>2, <2>3, <3>1, <3>2
  <2>4. /\ status \in [JobIds -> Statuses]
        /\ [status EXCEPT ![Id(j)] = "failed"] \in [JobIds -> Statuses]
        /\ [status EXCEPT ![Id(j)] = "running"] \in [JobIds -> Statuses]
        /\ [status EXCEPT ![Id(j)] = "retrying", ![<<"parse", r>>] = "waiting_docling"]
             \in [JobIds -> Statuses]
    BY <1>t DEF Statuses, Ended
  <2>5. \A i \in JobIds \ {Id(j), <<"parse", r>>} :
           /\ [status EXCEPT ![Id(j)] = "failed"][i] = status[i]
           /\ [status EXCEPT ![Id(j)] = "running"][i] = status[i]
           /\ [status EXCEPT ![Id(j)] = "retrying",
                             ![<<"parse", r>>] = "waiting_docling"][i] = status[i]
    BY <1>t
  <2>6. CASE BatchLostLock
    <3>1. AddInternal([status EXCEPT ![Id(j)] = "failed"], "continue", r, TRUE)
      BY <2>6 DEF BatchLostLock
    <3> QED
      BY <2>2, <2>3, <2>4, <2>5, <3>1
  <2>7. CASE HandBack
    <3>1. AddInternal(status, "continue", r, j.err)
      BY <2>7 DEF HandBack
    <3> QED
      BY <2>2, <2>3, <2>4, <3>1
  <2>8. CASE HandBackFails
    <3>1. AddInternalFails(
             [status EXCEPT ![Id(j)] = "retrying", ![<<"parse", r>>] = "waiting_docling"],
             "continue", r, j.err)
      BY <2>8 DEF HandBackFails
    <3> QED
      BY <2>2, <2>3, <2>4, <2>5, <3>1
  <2>9. CASE BatchReportFails
    <3>1. \/ AddInternal([status EXCEPT ![Id(j)] = "running"], "continue", r, TRUE)
          \/ status' = [status EXCEPT ![Id(j)] = "running"]
      BY <2>9 DEF BatchReportFails
    <3> QED
      BY <2>2, <2>3, <2>4, <2>5, <3>1
  <2> QED
    BY <1>10, <2>6, <2>7, <2>8, <2>9
<1>11. ASSUME NEW r \in Runs,
             \/ CheckLock(r) \/ ResetProgress(r) \/ TakeLock(r) \/ BindRead(r)
             \/ BindWrite(r) \/ ApiCrash(r) \/ Expire(r)
      PROVE  UNCHANGED status
  BY <1>11
  DEF CheckLock, ResetProgress, TakeLock, BindRead, BindWrite, ApiCrash, Expire, redis
<1>12. ASSUME NEW p \in Projects, CancelRead(p) \/ CancelWrite(p) PROVE UNCHANGED status
  BY <1>12 DEF CancelRead, CancelWrite, redis
<1>13. ASSUME NEW w \in Workers,
              Dequeue(w) \/ EndJob(w) \/ ReleaseLocks(w) \/ Crash(w) \/ Beat(w)
       PROVE  UNCHANGED status
  BY <1>13 DEF Dequeue, EndJob, ReleaseLocks, Crash, Beat, redis
<1>14. CASE Persist \/ Complete \/ Retry \/ UNCHANGED vars
  BY <1>14 DEF Persist, Complete, Retry, vars, redis
<1> HIDE DEF Goal
<1> QED
  BY <1>t, <1>1, <1>2, <1>3, <1>4, <1>5, <1>6, <1>7, <1>8, <1>9, <1>10, <1>11, <1>12,
     <1>13, <1>14
  DEF Next, Request, MainStep, DoclingStep, Common

\* What a job passed on stays passed on, unless somebody is still to work on it.
LEMMA PassedStays ==
  ASSUME TypeInv, OnceInv, AccountInv, [Next]_vars, NEW id \in JobIds,
         PassedOn(id), ~ Rework(id)
  PROVE  PassedOn(id)'
<1>t. /\ \A r \in Runs, k \in Kinds : <<k, r>> \in JobIds
      /\ id = <<id[1], id[2]>> /\ id[1] \in Kinds /\ id[2] \in Runs
      /\ "docling" \in Kinds /\ "continue" \in Kinds
  BY JobParts DEF JobIds, Kinds
<1>1. \A k \in {"docling", "continue"} :
         status[<<k, id[2]>>] # "absent" => status'[<<k, id[2]>>] # "absent"
  BY <1>t, HashesStay
<1>2. CASE status'[id] = status[id]
  BY <1>1, <1>2 DEF PassedOn
<1>3. CASE status'[id] # status[id]
  <2>1. \/ \E k \in Kinds, r \in Runs, e \in BOOLEAN :
              PushesNext(k, r, e) /\ id = <<k, r>>
        \/ id[1] # "docling" /\ status'[id] \in Ended
        \/ /\ id[1] = "parse"
           /\ \E k \in {"docling", "continue"} : status'[<<k, id[2]>>] # "absent"
    BY <1>3, StatusMoves
  <2>2. CASE \E k \in Kinds, r \in Runs, e \in BOOLEAN :
                PushesNext(k, r, e) /\ id = <<k, r>>
    <3>1. status[id] = "absent" /\ id[1] # "parse"
      BY <2>2 DEF PushesNext
    <3>2. id[1] = "docling" /\ status[<<"continue", id[2]>>] # "absent"
      BY <3>1 DEF PassedOn, Ended
    <3> QED
      BY <1>1, <3>2 DEF PassedOn
  <2>3. CASE id[1] # "docling" /\ status'[id] \in Ended
    BY <1>t, <2>3 DEF PassedOn, Kinds
  <2>4. CASE /\ id[1] = "parse"
             /\ \E k \in {"docling", "continue"} : status'[<<k, id[2]>>] # "absent"
    BY <2>4 DEF PassedOn
  <2> QED
    BY <2>1, <2>2, <2>3, <2>4
<1> QED
  BY <1>2, <1>3

\* What comes into the lists, and what leaves them.
LEMMA ListMoves ==
  ASSUME TypeInv, OnceInv, [Next]_vars
  PROVE  /\ \A q \in Workers : \A id \in Held(q)' :
               id \in Held(q) \/ (id \in JobIds /\ QueueOf(id[1]) = q)
         /\ \A q \in Workers : \A id \in Held(q) :
               \/ id \in Held(q)'
               \/ \E j \in Jobs : Ends(q, j) /\ id = Id(j)
         /\ \A q \in Workers : \A id \in Held(q)' \ Held(q) :
               \/ PushesParse(id[2])
               \/ \E e \in BOOLEAN : PushesNext(id[1], id[2], e)
         /\ \A r \in Runs : PushesParse(r) => <<"parse", r>> \in Held("main")'
         /\ \A k \in Kinds, r \in Runs, e \in BOOLEAN :
               PushesNext(k, r, e) => <<k, r>> \in Held(QueueOf(k))'
<1> DEFINE Come == \A q \in Workers : \A id \in Held(q)' :
                      id \in Held(q) \/ (id \in JobIds /\ QueueOf(id[1]) = q)
           Gone == \A q \in Workers : \A id \in Held(q) :
                      \/ id \in Held(q)'
                      \/ \E j \in Jobs : Ends(q, j) /\ id = Id(j)
           New  == \A q \in Workers : \A id \in Held(q)' \ Held(q) :
                      \/ PushesParse(id[2])
                      \/ \E e \in BOOLEAN : PushesNext(id[1], id[2], e)
<1>t. /\ "main" \in Workers /\ Apart
      /\ queue \in [Workers -> Seq(Jobs)] /\ proc \in [Workers -> Seq(Jobs)]
  BY DEF OnceInv, Workers, TypeInv, TypeOK
<1>1. ASSUME NEW r \in Runs, PushesParse(r)
      PROVE  Come /\ New /\ Gone /\ <<"parse", r>> \in Held("main")'
  <2>1. /\ Job("parse", r, FALSE) \in Jobs /\ Id(Job("parse", r, FALSE)) = <<"parse", r>>
        /\ <<"parse", r>> \in JobIds /\ QueueOf("parse") = "main"
    BY JobParts DEF Kinds, QueueOf
  <2>2. <<"parse", r>> \notin Held("main")
    BY <1>t, <1>1 DEF OnceInv, PushesParse, Fresh
  <2>3. \A q \in Workers :
           Held(q)' = IF q = "main" THEN Held(q) \cup {<<"parse", r>>} ELSE Held(q)
    BY <1>t, <1>1, <2>1, <2>2, PushApart DEF PushesParse
  <2>4. <<"parse", r>> \in Held("main")' /\ Gone
    BY <1>t, <2>3
  <2>5. Come /\ New
    BY <1>1, <2>1, <2>3
  <2> QED
    BY <2>4, <2>5
<1>2. ASSUME NEW k \in Kinds, NEW r \in Runs, NEW e \in BOOLEAN, PushesNext(k, r, e)
      PROVE  Come /\ New /\ Gone /\ <<k, r>> \in Held(QueueOf(k))'
  <2>1. /\ Job(k, r, e) \in Jobs /\ Id(Job(k, r, e)) = <<k, r>> /\ QueueOf(k) \in Workers
        /\ <<k, r>> \in JobIds
    BY JobParts DEF QueueOf, Workers
  <2>2. <<k, r>> \notin Held(QueueOf(k))
    BY <1>2, <2>1 DEF OnceInv, PushesNext
  <2>3. \A q \in Workers :
           Held(q)' = IF q = QueueOf(k) THEN Held(q) \cup {<<k, r>>} ELSE Held(q)
    BY <1>t, <1>2, <2>1, <2>2, PushApart DEF PushesNext
  <2>4. <<k, r>> \in Held(QueueOf(k))' /\ Gone
    BY <2>1, <2>3
  <2>5. Come /\ New
    BY <1>2, <2>1, <2>3
  <2> QED
    BY <2>4, <2>5
<1>3. ASSUME UNCHANGED <<queue, proc>> PROVE Come /\ New /\ Gone
  BY <1>3 DEF Held
<1>4. ASSUME \/ \E w \in Workers : PutsBack(w) \/ Takes(w)
             \/ \E w \in Workers, j \in Jobs : Ends(w, j)
      PROVE  Come /\ New /\ Gone
  BY <1>t, <1>4, MoveApart
<1>5. ASSUME Requeue PROVE Come /\ New /\ Gone
  BY <1>5, RequeueApart
<1>6. ListStep
  BY ListSteps
<1>7. Come /\ New /\ Gone
  BY <1>1, <1>2, <1>3, <1>4, <1>5, <1>6 DEF ListStep
<1> QED
  BY <1>1, <1>2, <1>7

\* Only its own steps move a worker.
LEMMA OwnSteps ==
  ASSUME TypeInv, [Next]_vars
  PROVE  /\ \/ MainStep \/ HandOffFails \/ Crash("main")
            \/ /\ pc'["main"] = pc["main"] /\ job'["main"] = job["main"]
               /\ fin'["main"] = fin["main"]
         /\ \/ DoclingStep \/ HandBackFails \/ BatchReportFails \/ Crash("docling")
            \/ /\ pc'["docling"] = pc["docling"] /\ job'["docling"] = job["docling"]
               /\ fin'["docling"] = fin["docling"]
<1>t. /\ pc \in [Workers -> Pcs] /\ job \in [Workers -> Jobs \cup {NoJob}]
      /\ fin \in [Workers -> [release : BOOLEAN, raise : BOOLEAN]]
      /\ "main" \in Workers /\ "docling" \in Workers /\ "main" # "docling"
  BY DEF TypeInv, TypeOK, Workers
<1> DEFINE Still(w) == pc'[w] = pc[w] /\ job'[w] = job[w] /\ fin'[w] = fin[w]
<1>1. CASE UNCHANGED wk
  BY <1>1 DEF wk
<1>2. ASSUME NEW v \in Workers, NEW w \in Workers, v # w, Common(v) \/ Crash(v)
      PROVE  Still(w)
  BY <1>t, <1>2
  DEF Common, Recover, Dequeue, Begin, ClaimSlot, EndJob, ReleaseLocks, Crash, Go, Leave
<1>3. CASE \/ LostLock \/ Requeue \/ StartParse \/ WriteStarted \/ HandOff
           \/ HandOffFails \/ Continue \/ Persist \/ Complete \/ ParseFails \/ MapOutcome
  <2>1. Still("docling")
    BY <1>t, <1>3
    DEF LostLock, Requeue, StartParse, WriteStarted, HandOff, HandOffFails, Continue,
        Persist, Complete, ParseFails, MapOutcome, Go, Finish, Leave
  <2> QED
    BY <1>3, <2>1 DEF MainStep
<1>4. CASE \/ BatchLostLock \/ ParsePdfs \/ HandBack \/ CloseBatch \/ HandBackFails
           \/ BatchReportFails
  <2>1. Still("main")
    BY <1>t, <1>4
    DEF BatchLostLock, ParsePdfs, HandBack, CloseBatch, HandBackFails, BatchReportFails,
        Go, Finish, Leave
  <2> QED
    BY <1>4, <2>1 DEF DoclingStep
<1>5. ASSUME NEW r \in Runs, Request(r) \/ PushFails(r) \/ ApiCrash(r) \/ Expire(r)
      PROVE  UNCHANGED wk
  BY <1>5
  DEF Request, CheckLock, ResetProgress, TakeLock, PushJob, BindRead, BindWrite,
      PushFails, ApiCrash, Expire
<1>6. ASSUME NEW p \in Projects, CancelRead(p) \/ CancelWrite(p) PROVE UNCHANGED wk
  BY <1>6 DEF CancelRead, CancelWrite
<1>7. CASE \/ \E w \in Workers : Beat(w)
           \/ \E j \in Jobs : Reclaim(j)
           \/ Retry \/ UNCHANGED vars
  BY <1>7 DEF Beat, Reclaim, Retry, vars, wk
<1> HIDE DEF Still
<1>8. CASE Common("main") \/ Crash("main")
  BY <1>t, <1>2, <1>8 DEF MainStep, Still
<1>9. CASE Common("docling") \/ Crash("docling")
  BY <1>t, <1>2, <1>9 DEF DoclingStep, Still
<1>10. ASSUME NEW w \in Workers, Crash(w) PROVE w = "main" \/ w = "docling"
  BY DEF Workers
<1> QED
  BY <1>1, <1>3, <1>4, <1>5, <1>6, <1>7, <1>8, <1>9, <1>10
  DEF Next, MainStep, DoclingStep

\* A worker concludes a job when its run is settled or has its next job.
LEMMA Concludes ==
  ASSUME TypeInv, OnceInv, AccountInv, [Next]_vars, NEW w \in Workers,
         pc'[w] = "ending", pc[w] # "ending"
  PROVE  PassedOn(Id(job[w]))'
<1>t. /\ pc \in [Workers -> Pcs] /\ job \in [Workers -> Jobs \cup {NoJob}]
      /\ status \in [JobIds -> Statuses]
      /\ "main" \in Workers /\ "docling" \in Workers /\ w \in {"main", "docling"}
      /\ \A r \in Runs, k \in Kinds : <<k, r>> \in JobIds
      /\ "parse" \in Kinds /\ "docling" \in Kinds /\ "continue" \in Kinds
      /\ \A s : JobStatusOf(s) \in Ended
  BY JobParts DEF TypeInv, TypeOK, Workers, Kinds, JobStatusOf, Ended
<1>c. ~ (Common(w) \/ Crash(w))
  <2>1. ASSUME \/ Recover(w) \/ Dequeue(w) \/ Begin(w) \/ EndJob(w) \/ ReleaseLocks(w)
               \/ Crash(w)
        PROVE  pc'[w] # "ending"
    BY <1>t, <2>1
    DEF Recover, Dequeue, Begin, EndJob, ReleaseLocks, Crash, Go, Leave, Loop
  <2>2. ASSUME ClaimSlot(w) PROVE pc'[w] # "ending"
    <3>1. job[w].kind \in Kinds
      BY <2>2, JobParts DEF ClaimSlot, TypeInv, Holding
    <3> QED
      BY <1>t, <2>2, <3>1 DEF ClaimSlot, Kinds
  <2> QED
    BY <2>1, <2>2 DEF Common
<1>1. CASE w = "main"
  <2> DEFINE j == job["main"]
  <2>1. /\ \/ LostLock \/ Requeue \/ StartParse \/ WriteStarted \/ HandOff \/ Continue
           \/ Persist \/ Complete \/ ParseFails \/ MapOutcome \/ HandOffFails
        /\ InHand("main")
    <3>1. \/ LostLock \/ Requeue \/ StartParse \/ WriteStarted \/ HandOff \/ Continue
          \/ Persist \/ Complete \/ ParseFails \/ MapOutcome \/ HandOffFails
      BY <1>1, <1>c, OwnSteps DEF MainStep
    <3> QED
      BY <3>1
      DEF LostLock, Requeue, StartParse, WriteStarted, HandOff, Continue, Persist,
          Complete, ParseFails, MapOutcome, HandOffFails, Go, InHand
  <2>2. /\ j.kind \in {"parse", "continue"} /\ j.run \in Runs
        /\ Id(j) = <<j.kind, j.run>> /\ Id(j) \in JobIds
    BY <1>t, <2>1, HandFacts DEF QueueOf, Kinds
  <2>3. job'["main"] = j
    BY <1>t, <1>1, <2>1
    DEF LostLock, Requeue, StartParse, WriteStarted, HandOff, Continue, Persist,
        Complete, ParseFails, MapOutcome, HandOffFails, Go, Leave
  <2>4. ASSUME status'[Id(j)] \in Ended PROVE PassedOn(Id(job["main"]))'
    BY <2>2, <2>3, <2>4 DEF PassedOn
  <2>5. CASE LostLock \/ ParseFails \/ MapOutcome \/ Continue
    <3>1. ASSUME LostLock PROVE status'[Id(j)] \in Ended
      BY <1>t, <2>2, <3>1 DEF LostLock, SetBoth, Ended
    <3>2. ASSUME ParseFails PROVE status'[Id(j)] \in Ended
      BY <1>t, <1>1, <2>2, <3>2 DEF ParseFails, SetBoth, Ended
    <3>3. ASSUME MapOutcome PROVE status'[Id(j)] \in Ended
      BY <1>t, <2>2, <3>3 DEF MapOutcome, SetBoth
    <3>4. ASSUME Continue PROVE status'[Id(j)] \in Ended
      <4>1. pc'["main"] = "ending"
        BY <1>1
      <4>2. \/ SetBoth(j, JobStatusOf(progress[P(j.run)].status))
            \/ SetBoth(j, "failed")
        BY <1>t, <3>4, <4>1 DEF Continue
      <4> QED
        BY <1>t, <2>2, <4>2 DEF SetBoth, Ended
    <3> QED
      BY <1>1, <2>4, <2>5, <3>1, <3>2, <3>3, <3>4
  <2>6. CASE StartParse
    <3>1. status'[Id(j)] \in Ended
      BY <1>t, <1>1, <2>2, <2>6 DEF StartParse, Ended
    <3> QED
      BY <1>1, <2>4, <3>1
  <2>7. CASE HandOff \/ HandOffFails
    <3>1. j.kind = "parse" /\ NextStage(j.run) \in {"docling", "continue"}
      BY <2>7 DEF HandOff, HandOffFails, AccountInv, NextStage
    <3>2. CASE HandOff
      <4>1. status'[<<NextStage(j.run), j.run>>] # "absent"
        BY <1>t, <2>2, <3>1, <3>2 DEF HandOff, AddInternal
      <4> QED
        BY <1>1, <2>2, <2>3, <3>1, <4>1 DEF PassedOn
    <3>3. CASE HandOffFails
      <4>1. status'[<<"parse", j.run>>] = "failed"
        BY <1>t, <2>2, <3>1, <3>3 DEF HandOffFails, AddInternalFails
      <4> QED
        BY <1>1, <2>2, <2>4, <3>1, <4>1 DEF Ended
    <3> QED
      BY <2>7, <3>2, <3>3
  <2>8. CASE Requeue \/ WriteStarted \/ Persist \/ Complete
    BY <1>t, <1>1, <2>8 DEF Requeue, WriteStarted, Persist, Complete, Go, Leave
  <2> QED
    BY <2>1, <2>5, <2>6, <2>7, <2>8
<1>2. CASE w = "docling"
  <2> DEFINE j == job["docling"]
             r == j.run
  <2>1. /\ \/ BatchLostLock \/ ParsePdfs \/ HandBack \/ CloseBatch \/ HandBackFails
           \/ BatchReportFails
        /\ InHand("docling")
    <3>1. \/ BatchLostLock \/ ParsePdfs \/ HandBack \/ CloseBatch \/ HandBackFails
          \/ BatchReportFails
      BY <1>2, <1>c, OwnSteps DEF DoclingStep
    <3> QED
      BY <3>1
      DEF BatchLostLock, ParsePdfs, HandBack, CloseBatch, HandBackFails,
          BatchReportFails, NoProject, NoSlot, Go, InHand
  <2>2. /\ j.kind = "docling" /\ r \in Runs /\ j \in Jobs
        /\ Id(j) = <<"docling", r>> /\ Id(j) \in JobIds
    BY <1>t, <2>1, HandFacts DEF QueueOf
  <2>3. CASE BatchLostLock
    <3>1. job'["docling"] = j /\ status'[<<"continue", r>>] # "absent"
      BY <1>t, <2>2, <2>3 DEF BatchLostLock, AddInternal
    <3> QED
      BY <1>2, <2>2, <3>1 DEF PassedOn
  <2>4. CASE ParsePdfs
    <3>1. job'["docling"] = j /\ status'[Id(j)] = "cancelled"
      BY <1>t, <1>2, <2>2, <2>4 DEF ParsePdfs, SetBoth
    <3> QED
      BY <1>2, <2>2, <3>1 DEF PassedOn
  <2>5. CASE CloseBatch
    <3>1. Id(job'["docling"]) = Id(j)
      BY <1>t, <2>2, <2>5 DEF CloseBatch, Jobs, Id
    <3>2. status[<<"continue", r>>] # "absent"
      BY <2>5 DEF CloseBatch, AccountInv
    <3>3. status'[<<"continue", r>>] # "absent"
      BY <1>t, <2>2, <3>2, HashesStay
    <3> QED
      BY <1>2, <2>2, <3>1, <3>3 DEF PassedOn
  <2>6. CASE HandBack \/ HandBackFails \/ BatchReportFails
    BY <1>t, <1>2, <2>6 DEF HandBack, HandBackFails, BatchReportFails, Go, Leave
  <2> QED
    BY <2>1, <2>3, <2>4, <2>5, <2>6
<1> QED
  BY <1>t, <1>1, <1>2

LEMMA StepAccount ==
  ASSUME TypeInv, TypeInv', OnceInv, OnceInv', AccountInv, [Next]_vars
  PROVE  AccountInv'
<1>t. /\ pc \in [Workers -> Pcs] /\ job \in [Workers -> Jobs \cup {NoJob}]
      /\ proc \in [Workers -> Seq(Jobs)] /\ queue \in [Workers -> Seq(Jobs)]
      /\ "main" \in Workers /\ "docling" \in Workers /\ "main" # "docling"
      /\ \A id \in JobIds : /\ id = <<id[1], id[2]>> /\ id[2] \in Runs /\ id[1] \in Kinds
                            /\ QueueOf(id[1]) \in Workers
      /\ \A q \in Workers : IdsOf(proc[q]) \subseteq Held(q)
  BY DEF TypeInv, TypeOK, Workers, JobIds, Kinds, QueueOf, Held
<1>1. \A q \in Workers : \A id \in Held(q)' : id \in JobIds /\ QueueOf(id[1]) = q
  BY ListMoves DEF AccountInv
<1>2. ASSUME NEW w \in Workers, InHand(w)' PROVE Id(job'[w]) \in IdsOf(proc'[w])
  <2>1. CASE Dequeue(w)
    <3>1. /\ Head(queue[w]) \in Jobs /\ proc[w] \in Seq(Jobs)
          /\ job'[w] = Head(queue[w]) /\ proc'[w] = Append(proc[w], Head(queue[w]))
      BY <1>t, <2>1, HeadIds DEF Dequeue
    <3>2. IdsOf(Append(proc[w], Head(queue[w])))
            = IdsOf(proc[w]) \cup {Id(Head(queue[w]))}
      BY <3>1, AppendIds
    <3> QED
      BY <3>1, <3>2
  <2>2. CASE InHand(w) /\ Id(job'[w]) = Id(job[w]) /\ proc'[w] = proc[w]
    BY <2>2 DEF AccountInv
  <2> QED
    BY <1>2, <2>1, <2>2, HandSteps
\* What is still to be done with a job keeps it in its lists.
<1>3. ASSUME NEW id \in JobIds, Rework(id) PROVE Listed(id)'
  <2>1. ASSUME NEW w \in Workers, Recover(w), id \in IdsOf(proc[w]) PROVE Listed(id)'
    <3>1. id \in Held(w) /\ QueueOf(id[1]) = w
      BY <1>t, <2>1 DEF AccountInv
    <3>2. ~ \E j \in Jobs : Ends(w, j)
      BY <1>t, <2>1 DEF Recover, Go, Ends, EndJob, Reclaim, wk
    <3> QED
      BY <3>1, <3>2, ListMoves DEF Listed
  <2>2. ASSUME NEW r \in Runs, PushesParse(r), id = <<"parse", r>> PROVE Listed(id)'
    BY <2>2, ListMoves DEF Listed, QueueOf
  <2>3. ASSUME NEW w \in Workers, InHand(w), pc[w] # "ending", id = Id(job[w])
        PROVE  Listed(id)'
    <3>1. id \in Held(w) /\ QueueOf(id[1]) = w
      BY <1>t, <2>3, HandFacts DEF AccountInv
    <3>2. ~ \E j \in Jobs : Ends(w, j)
      BY <1>t, <2>3 DEF InHand, Ends, EndJob, Reclaim
    <3> QED
      BY <3>1, <3>2, ListMoves DEF Listed
  <2> QED
    BY <1>3, <2>1, <2>2, <2>3 DEF Rework
\* A job that leaves its lists has passed its run on.
<1>4. ASSUME NEW id \in JobIds, Listed(id), ~ Listed(id)' PROVE PassedOn(id)'
  <2> DEFINE q == QueueOf(id[1])
  <2>1. PICK j \in Jobs : Ends(q, j) /\ id = Id(j)
    BY <1>t, <1>4, ListMoves DEF Listed
  <2>2. CASE EndJob(q) /\ j = job[q]
    <3>1. PassedOn(id) /\ UNCHANGED status
      BY <1>t, <2>1, <2>2 DEF EndJob, AccountInv
    <3> QED
      BY <3>1 DEF PassedOn
  <2>3. CASE Reclaim(j)
    <3>1. status'[id] = "failed" /\ id[1] # "docling"
      BY <2>1, <2>3 DEF Reclaim, SetBoth, Id, TypeInv, TypeOK
    <3> QED
      BY <1>t, <3>1 DEF PassedOn, Ended, Kinds
  <2> QED
    BY <2>1, <2>2, <2>3 DEF Ends
<1>5. ASSUME NEW id \in JobIds, status'[id] # "absent" PROVE Listed(id)' \/ PassedOn(id)'
  <2>1. CASE Listed(id)
    BY <1>4, <2>1
  <2>2. CASE PassedOn(id)
    BY <1>3, <2>2, PassedStays
  <2>3. CASE status[id] = "absent"
    <3>1. \/ Rework(id)
          \/ \E k \in Kinds, r \in Runs, e \in BOOLEAN :
                PushesNext(k, r, e) /\ id = <<k, r>>
          \/ id[1] # "docling" /\ status'[id] \in Ended
          \/ /\ id[1] = "parse"
             /\ \E k \in {"docling", "continue"} : status'[<<k, id[2]>>] # "absent"
      BY <1>5, <2>3, StatusMoves
    <3>2. CASE Rework(id)
      BY <1>3, <3>2
    <3>3. CASE \E k \in Kinds, r \in Runs, e \in BOOLEAN :
                  PushesNext(k, r, e) /\ id = <<k, r>>
      BY <3>3, ListMoves DEF Listed
    <3>4. CASE id[1] # "docling" /\ status'[id] \in Ended
      BY <1>t, <3>4 DEF PassedOn, Kinds
    <3>5. CASE /\ id[1] = "parse"
               /\ \E k \in {"docling", "continue"} : status'[<<k, id[2]>>] # "absent"
      BY <3>5 DEF PassedOn
    <3> QED
      BY <3>1, <3>2, <3>3, <3>4, <3>5
  <2> QED
    BY <2>1, <2>2, <2>3 DEF AccountInv
<1>6. ASSUME NEW w \in Workers, pc'[w] = "ending" PROVE PassedOn(Id(job[w]))'
  <2>1. CASE pc[w] # "ending"
    BY <1>6, <2>1, Concludes
  <2>2. CASE pc[w] = "ending"
    <3>1. InHand(w)' /\ InHand(w) /\ ~ Dequeue(w)
      BY <1>6, <2>2 DEF InHand, Dequeue, Go
    <3>2. PICK id \in JobIds : id = Id(job[w])
      BY <3>1, HandFacts
    <3>3. /\ Id(job'[w]) = id /\ PassedOn(id)
          /\ id \in Held(w) /\ QueueOf(id[1]) = w
      BY <2>2, <3>1, <3>2, HandFacts, HandSteps DEF AccountInv
    <3>4. ~ Rework(id)
      <4>1. ASSUME NEW v \in Workers, id \in Held(v) PROVE v = w
        BY <3>3, <4>1 DEF AccountInv
      <4>2. ASSUME NEW v \in Workers, Recover(v), id \in IdsOf(proc[v]) PROVE FALSE
        BY <1>t, <2>2, <4>1, <4>2 DEF Recover, Go
      <4>3. ASSUME NEW r \in Runs, PushesParse(r), id = <<"parse", r>> PROVE FALSE
        BY <3>3, <4>3 DEF PushesParse, OnceInv, Fresh
      <4>4. ASSUME NEW v \in Workers, InHand(v), pc[v] # "ending", id = Id(job[v])
            PROVE  FALSE
        <5>1. id \in Held(v)
          BY <4>4, HandFacts
        <5> QED
          BY <2>2, <4>1, <4>4, <5>1
      <4> QED
        BY <4>2, <4>3, <4>4 DEF Rework
    <3>5. PassedOn(id)'
      BY <3>3, <3>4, PassedStays
    <3> QED
      BY <3>3, <3>5
  <2> QED
    BY <2>1, <2>2
<1>7. ASSUME pc'["main"] \in {"parse", "started", "handoff"}
      PROVE  job'["main"].kind = "parse"
  <2>1. CASE Common("main")
    BY <1>t, <1>7, <2>1
    DEF Common, Recover, Dequeue, Begin, ClaimSlot, EndJob, ReleaseLocks, Go, Leave,
        Loop, Kinds, TypeInv, Holding, Jobs
  <2>2. CASE \/ LostLock \/ Requeue \/ StartParse \/ WriteStarted \/ HandOff
             \/ Continue \/ Persist \/ Complete \/ ParseFails \/ MapOutcome
             \/ HandOffFails \/ Crash("main")
    BY <1>t, <1>7, <2>2
    DEF LostLock, Requeue, StartParse, WriteStarted, HandOff, Continue, Persist,
        Complete, ParseFails, MapOutcome, HandOffFails, Crash, Go, Finish, Leave,
        AccountInv
  <2>3. CASE pc'["main"] = pc["main"] /\ job'["main"] = job["main"]
    BY <1>7, <2>3 DEF AccountInv
  <2> QED
    BY <2>1, <2>2, <2>3, OwnSteps DEF MainStep
<1>8. ASSUME pc'["docling"] = "handed"
      PROVE  status'[<<"continue", job'["docling"].run>>] # "absent"
  <2> DEFINE r == job["docling"].run
  <2>1. CASE Common("docling") \/ Crash("docling")
    BY <1>t, <1>8, <2>1
    DEF Common, Recover, Dequeue, Begin, ClaimSlot, EndJob, ReleaseLocks, Crash, Go,
        Leave, Loop, Kinds, TypeInv, Holding, Jobs
  <2>2. CASE BatchLostLock \/ ParsePdfs \/ CloseBatch \/ HandBackFails \/ BatchReportFails
    BY <1>t, <1>8, <2>2
    DEF BatchLostLock, ParsePdfs, CloseBatch, HandBackFails, BatchReportFails, Finish,
        Leave
  <2>3. CASE HandBack
    <3>1. InHand("docling")
      BY <2>3 DEF HandBack, Go, InHand
    <3>2. r \in Runs /\ <<"continue", r>> \in JobIds
      BY <1>t, <3>1, HandFacts, JobParts DEF Kinds
    <3>3. job'["docling"] = job["docling"] /\ status'[<<"continue", r>>] # "absent"
      BY <2>3, <3>2 DEF HandBack, AddInternal, TypeInv, TypeOK
    <3> QED
      BY <3>3
  <2>4. CASE pc'["docling"] = pc["docling"] /\ job'["docling"] = job["docling"]
    <3>1. InHand("docling") /\ status[<<"continue", r>>] # "absent"
      BY <1>8, <2>4 DEF AccountInv, InHand
    <3>2. r \in Runs /\ <<"continue", r>> \in JobIds
      BY <1>t, <3>1, HandFacts, JobParts DEF Kinds
    <3> QED
      BY <2>4, <3>1, <3>2, HashesStay
  <2> QED
    BY <2>1, <2>2, <2>3, <2>4, OwnSteps DEF DoclingStep
<1> QED
  BY <1>1, <1>2, <1>5, <1>6, <1>7, <1>8 DEF AccountInv

LEMMA InitAccount == Init => AccountInv
<1> SUFFICES ASSUME Init PROVE AccountInv
  OBVIOUS
<1>1. \A q \in Workers : Held(q) = {}
  BY EmptyIds DEF Init, Quiet, Held
<1>2. \A w \in Workers : pc[w] = "boot"
  BY DEF Init, Quiet
<1>3. \A id \in JobIds : status[id] = "absent"
  BY DEF Init, Quiet
<1> QED
  BY <1>1, <1>2, <1>3 DEF AccountInv, InHand, Workers

LEMMA Accounted ==
  ASSUME TypeInv, OnceInv, AccountInv
  PROVE  RunAccounted
<1> SUFFICES ASSUME NEW r \in Runs,
                    status[<<"parse", r>>] \notin Ended \cup {"absent"},
                    status[<<"docling", r>>] # "cancelled",
                    status[<<"continue", r>>] \notin Ended
             PROVE  HasJob(r)
  BY DEF RunAccounted
<1>1. /\ \A k \in Kinds : <<k, r>> \in JobIds
      /\ "parse" \in Kinds /\ "docling" \in Kinds /\ "continue" \in Kinds
  BY JobParts DEF Kinds
<1>2. ASSUME NEW k \in Kinds, Listed(<<k, r>>) PROVE HasJob(r)
  <2>1. PICK q \in Workers : <<k, r>> \in IdsOf(queue[q]) \/ <<k, r>> \in IdsOf(proc[q])
    BY <1>2 DEF Listed, Held, QueueOf, Workers
  <2>2. ASSUME NEW s \in Seq(Jobs), <<k, r>> \in IdsOf(s)
        PROVE  \E j \in Members(s) : j.run = r
    <3>1. PICK i \in 1..Len(s) : <<k, r>> = Id(s[i])
      BY <2>2, LenProperties DEF IdsOf
    <3> QED
      BY <3>1 DEF Members, Id
  <2>3. queue[q] \in Seq(Jobs) /\ proc[q] \in Seq(Jobs)
    BY DEF TypeInv, TypeOK
  <2>4. \E j \in Members(queue[q]) \cup Members(proc[q]) : j.run = r
    BY <2>1, <2>2, <2>3
  <2> QED
    BY <2>4 DEF HasJob
<1>3. CASE status[<<"continue", r>>] # "absent"
  BY <1>1, <1>2, <1>3 DEF AccountInv, PassedOn
<1>4. CASE /\ status[<<"continue", r>>] = "absent"
           /\ status[<<"docling", r>>] # "absent"
  BY <1>1, <1>2, <1>4 DEF AccountInv, PassedOn
<1>5. CASE /\ status[<<"continue", r>>] = "absent"
           /\ status[<<"docling", r>>] = "absent"
  BY <1>1, <1>2, <1>5 DEF AccountInv, PassedOn
<1> QED
  BY <1>3, <1>4, <1>5

\* A run that was queued has ended or has a job in a list, whatever crashes, is
\* recovered, handed off, requeued, reclaimed or fails half-way (dequeue_job,
\* recover_processing_jobs, enqueue_internal_job, clear_job_inflight): what takes a
\* job off its processing list has settled the run or added its next job.
THEOREM NoRunLost == Spec => []RunAccounted
<1>1. TypeInv /\ OnceInv /\ AccountInv /\ [Next]_vars
        => TypeInv' /\ OnceInv' /\ AccountInv'
  BY StepTypes, StepOnce, StepAccount
<1> QED
  BY <1>1, Accounted, InitTypes, InitOnce, InitAccount, PTL DEF Spec

-----------------------------------------------------------------------------
(* Locks.                                                                  *)

\* The steps that touch a lock; and a cancel request is never forgotten.
LEMMA LockSteps ==
  ASSUME TypeInv, [Next]_vars
  PROVE  /\ \/ UNCHANGED <<genLock, wfLock>>
            \/ \E s \in Runs : TakeLock(s) \/ PushFails(s) \/ Expire(s)
            \/ \E w \in Workers : ClaimSlot(w) \/ Beat(w) \/ ReleaseLocks(w)
            \/ \E j \in Jobs : Reclaim(j)
         /\ cancelKey \subseteq cancelKey'
<1> DEFINE Touch == \/ \E s \in Runs : TakeLock(s) \/ PushFails(s) \/ Expire(s)
                    \/ \E w \in Workers : ClaimSlot(w) \/ Beat(w) \/ ReleaseLocks(w)
                    \/ \E j \in Jobs : Reclaim(j)
           Idle  == UNCHANGED <<genLock, wfLock>> /\ cancelKey \subseteq cancelKey'
<1>1. ASSUME NEW s \in Runs,
             \/ CheckLock(s) \/ ResetProgress(s) \/ PushJob(s) \/ BindRead(s)
             \/ BindWrite(s) \/ ApiCrash(s)
      PROVE  Idle
  BY <1>1 DEF CheckLock, ResetProgress, PushJob, BindRead, BindWrite, ApiCrash, redis
<1>2. ASSUME NEW p \in Projects, CancelRead(p) \/ CancelWrite(p) PROVE Idle
  BY <1>2 DEF CancelRead, CancelWrite, AskCancel, redis
<1>3. ASSUME NEW w \in Workers,
             Recover(w) \/ Dequeue(w) \/ Begin(w) \/ EndJob(w) \/ Crash(w)
      PROVE  Idle
  BY <1>3 DEF Recover, Dequeue, Begin, EndJob, Crash, redis
<1>4. ASSUME Continue \/ Persist \/ ParseFails PROVE Idle
  BY <1>4 DEF Continue, Persist, ParseFails, CancelledProgress, AskCancel
<1>5. ASSUME \/ LostLock \/ Requeue \/ StartParse \/ WriteStarted \/ HandOff
             \/ HandOffFails \/ Complete \/ Retry \/ MapOutcome
      PROVE  Idle
  BY <1>5
  DEF LostLock, Requeue, StartParse, WriteStarted, HandOff, HandOffFails, Complete,
      Retry, MapOutcome, redis
<1>6. ASSUME \/ BatchLostLock \/ ParsePdfs \/ HandBack \/ CloseBatch \/ HandBackFails
             \/ BatchReportFails \/ UNCHANGED vars
      PROVE  Idle
  BY <1>6
  DEF BatchLostLock, ParsePdfs, HandBack, CloseBatch, HandBackFails, BatchReportFails,
      vars, redis
<1>7. ASSUME Touch PROVE cancelKey' = cancelKey
  BY <1>7
  DEF TakeLock, PushFails, Expire, ClaimSlot, Beat, ReleaseLocks, Reclaim
<1>8. "main" \in Workers /\ "docling" \in Workers
  BY DEF Workers
<1>9. Touch \/ Idle
  <2> HIDE DEF Touch, Idle
  <2>1. ASSUME \/ \E s \in Runs : TakeLock(s) \/ PushFails(s) \/ Expire(s)
               \/ \E w \in Workers : ClaimSlot(w) \/ Beat(w) \/ ReleaseLocks(w)
               \/ \E j \in Jobs : Reclaim(j)
        PROVE  Touch
    BY <2>1 DEF Touch
  <2>2. CASE \/ LostLock \/ Requeue \/ StartParse \/ WriteStarted \/ HandOff
             \/ HandOffFails \/ Continue \/ Persist \/ Complete \/ Retry \/ ParseFails
             \/ MapOutcome \/ BatchLostLock \/ ParsePdfs \/ HandBack \/ CloseBatch
             \/ HandBackFails \/ BatchReportFails \/ UNCHANGED vars
    BY <1>4, <1>5, <1>6, <2>2 DEF Idle
  <2> QED
    BY <1>1, <1>2, <1>3, <1>8, <2>1, <2>2 DEF Next, Request, MainStep, DoclingStep, Common
<1> QED
  BY <1>7, <1>9

\* Locks are compared before they are deleted (release_generation_lock,
\* release_s1_workflow_lock, reclaim_stale_inflight_jobs): whatever is delivered
\* late or again, nobody frees the lock of another run.
THEOREM LocksAreOwn == Spec => OwnLock
<1> DEFINE Freed(r) == \/ genLock[P(r)] = r /\ genLock'[P(r)] # r
                       \/ wfLock = r /\ wfLock' # r
           Rightly(r) == \/ \E w \in Workers : pc[w] = "releasing" /\ job[w].run = r
                         \/ \E i \in inflight \ inflight' : i[2] = r
                         \/ req'[r] # req[r]
                         \/ Leaked(r) \/ expiries' # expiries
<1>1. ASSUME TypeInv, [Next]_vars, NEW r \in Runs, Freed(r) PROVE Rightly(r)
  <2>t. /\ genLock \in [Projects -> Runs \cup {NoRun}] /\ wfLock \in Runs \cup {NoRun}
        /\ req \in [Runs -> ReqPcs] /\ expiries \in Nat
        /\ P(r) \in Projects /\ r # NoRun
        /\ \A s \in Runs : P(s) \in Projects
        /\ Holding
    BY <1>1, JobParts, S1Constants DEF TypeInv, TypeOK
  <2>1. ASSUME NEW s \in Runs, TakeLock(s) PROVE Rightly(r)
    BY <1>1, <2>t, <2>1 DEF TakeLock
  <2>2. ASSUME NEW s \in Runs, PushFails(s) PROVE Rightly(r)
    BY <1>1, <2>t, <2>2 DEF PushFails, ReqGo, ReqPcs
  <2>3. ASSUME NEW w \in Workers, ClaimSlot(w) \/ Beat(w) PROVE Rightly(r)
    BY <1>1, <2>t, <2>3 DEF ClaimSlot, Beat
  <2>4. ASSUME NEW w \in Workers, ReleaseLocks(w) PROVE Rightly(r)
    BY <1>1, <2>t, <2>4, JobParts DEF ReleaseLocks, OwnedBy, Holding
  <2>5. ASSUME NEW j \in Jobs, Reclaim(j) PROVE Rightly(r)
    BY <1>1, <2>t, <2>5, JobParts DEF Reclaim, OwnedBy, Id
  <2>6. ASSUME NEW s \in Runs, Expire(s) PROVE Rightly(r)
    BY <1>1, <2>t, <2>6 DEF Expire
  <2>7. CASE UNCHANGED <<genLock, wfLock>>
    BY <1>1, <2>7
  <2> HIDE DEF Rightly
  <2> QED
    BY <1>1, <2>1, <2>2, <2>3, <2>4, <2>5, <2>6, <2>7, LockSteps
<1>2. TypeInv /\ [Next]_vars => [\A r \in Runs : Freed(r) => Rightly(r)]_vars
  BY <1>1
<1> QED
  BY <1>2, InitTypes, StepTypes, PTL DEF Spec, OwnLock

WorkPcs == {"parse", "started", "handoff", "continue", "executing", "persisted",
            "returned"}

\* The Docling worker will try to give its run's locks back.
GivesBack ==
    \/ pc["docling"] = "releasing"
    \/ pc["docling"] = "ending" /\ fin["docling"].release

\* A run whose request has not pushed it has no job.  A batch whose end gives the
\* locks back is cancelled or had lost its project's lock for good.  The main worker
\* works under both locks, unless a cancel was asked for.
LockInv ==
    /\ \A r \in Runs : Fresh(r) => \A q \in Workers : \A id \in Held(q) : id[2] # r
    /\ LET r == job["docling"].run IN
       GivesBack => ~ Fresh(r) /\ (r \in cancelKey \/ genLock[P(r)] # r)
    /\ LET r == job["main"].run IN
       /\ pc["main"] \in WorkPcs \cup {"claim"} => r \in cancelKey \/ genLock[P(r)] = r
       /\ pc["main"] \in WorkPcs => r \in cancelKey \/ wfLock = r

\* A run that a worker has in hand is not fresh.
LEMMA HandNotFresh ==
  ASSUME TypeInv, OnceInv, AccountInv, LockInv, NEW w \in Workers, InHand(w)
  PROVE  job[w].run \in Runs /\ ~ Fresh(job[w].run)
<1>1. /\ Id(job[w]) = <<job[w].kind, job[w].run>> /\ Id(job[w]) \in Held(w)
      /\ job[w].run \in Runs
  BY HandFacts
<1> QED
  BY <1>1 DEF LockInv

LEMMA StepFresh ==
  ASSUME TypeInv, OnceInv, AccountInv, LockInv, [Next]_vars,
         NEW r \in Runs, Fresh(r)', NEW q \in Workers, NEW id \in Held(q)'
  PROVE  id[2] # r
<1>1. Fresh(r)
  BY FreshMoves
<1>2. CASE id \in Held(q)
  BY <1>1, <1>2 DEF LockInv
<1>3. CASE id \notin Held(q)
  <2>1. \/ PushesParse(id[2])
        \/ \E e \in BOOLEAN : PushesNext(id[1], id[2], e)
    BY <1>3, ListMoves
  <2>2. CASE PushesParse(id[2])
    BY <2>2 DEF PushesParse
  <2>3. CASE \E e \in BOOLEAN : PushesNext(id[1], id[2], e)
    <3>1. PICK w \in Workers : InHand(w) /\ job[w].run = id[2]
      BY <2>3 DEF PushesNext
    <3> QED
      BY <1>1, <3>1, HandNotFresh
  <2> QED
    BY <2>1, <2>2, <2>3
<1> QED
  BY <1>2, <1>3

\* The main worker starts to claim, and to work, in these steps only.
LEMMA WorkBegins ==
  ASSUME TypeInv, [Next]_vars
  PROVE  /\ pc'["main"] = "claim" => Begin("main") \/ pc["main"] = "claim"
         /\ pc'["main"] \in WorkPcs => ClaimSlot("main") \/ pc["main"] \in WorkPcs
         /\ pc'["main"] \in WorkPcs \cup {"claim"}
              => /\ job'["main"] = job["main"] /\ InHand("main")
                 /\ pc["main"] # "ending"
<1> DEFINE Goal == /\ pc'["main"] = "claim" => Begin("main") \/ pc["main"] = "claim"
                   /\ pc'["main"] \in WorkPcs => ClaimSlot("main") \/ pc["main"] \in WorkPcs
                   /\ pc'["main"] \in WorkPcs \cup {"claim"}
                        => /\ job'["main"] = job["main"] /\ InHand("main")
                           /\ pc["main"] # "ending"
<1> SUFFICES Goal
  OBVIOUS
<1>t. /\ pc \in [Workers -> Pcs] /\ job \in [Workers -> Jobs \cup {NoJob}]
      /\ "main" \in Workers
  BY DEF TypeInv, TypeOK, Workers
<1>1. CASE Common("main") \/ Crash("main")
  <2>1. CASE \/ Recover("main") \/ Dequeue("main") \/ Begin("main") \/ EndJob("main")
             \/ ReleaseLocks("main") \/ Crash("main")
    BY <1>t, <2>1
    DEF Recover, Dequeue, Begin, EndJob, ReleaseLocks, Crash, Go, Leave, Loop, WorkPcs,
        InHand
  <2>2. CASE ClaimSlot("main")
    <3>1. job["main"].kind \in Kinds
      BY <1>t, <2>2, JobParts DEF ClaimSlot, TypeInv, Holding
    <3> QED
      BY <1>t, <2>2, <3>1 DEF ClaimSlot, Kinds, WorkPcs, InHand
  <2> QED
    BY <1>1, <2>1, <2>2 DEF Common
<1>2. CASE \/ LostLock \/ Requeue \/ StartParse \/ WriteStarted \/ HandOff
           \/ HandOffFails \/ Continue \/ Persist \/ Complete \/ ParseFails \/ MapOutcome
  BY <1>t, <1>2
  DEF LostLock, Requeue, StartParse, WriteStarted, HandOff, HandOffFails, Continue,
      Persist, Complete, ParseFails, MapOutcome, Go, Finish, Leave, WorkPcs, InHand
<1>3. CASE pc'["main"] = pc["main"] /\ job'["main"] = job["main"]
  BY <1>3 DEF WorkPcs, InHand
<1> QED
  BY <1>1, <1>2, <1>3, OwnSteps DEF MainStep

\* The Docling worker comes to give locks back with a cancelled batch, or with one
\* whose project's lock it has found lost.
LEMMA GiveBackBegins ==
  ASSUME TypeInv, [Next]_vars, GivesBack'
  PROVE  /\ job'["docling"].run = job["docling"].run
         /\ \/ GivesBack
            \/ /\ InHand("docling")
               /\ \/ job["docling"].run \in cancelKey
                  \/ /\ genLock[P(job["docling"].run)] # job["docling"].run
                     /\ UNCHANGED genLock
<1> DEFINE r == job["docling"].run
           Goal == /\ job'["docling"].run = r
                   /\ \/ GivesBack
                      \/ /\ InHand("docling")
                         /\ r \in cancelKey \/ (genLock[P(r)] # r /\ UNCHANGED genLock)
<1> SUFFICES Goal
  OBVIOUS
<1>t. /\ pc \in [Workers -> Pcs] /\ job \in [Workers -> Jobs \cup {NoJob}]
      /\ fin \in [Workers -> [release : BOOLEAN, raise : BOOLEAN]]
      /\ "docling" \in Workers
  BY DEF TypeInv, TypeOK, Workers
<1>1. CASE \/ Recover("docling") \/ Dequeue("docling") \/ Begin("docling")
           \/ ReleaseLocks("docling") \/ Crash("docling") \/ HandBackFails
           \/ BatchReportFails
  BY <1>t, <1>1
  DEF Recover, Dequeue, Begin, ReleaseLocks, Crash, HandBackFails, BatchReportFails, Go,
      Leave, Loop, GivesBack
<1>2. CASE ClaimSlot("docling")
  <2>1. job["docling"].kind \in Kinds
    BY <1>t, <1>2, JobParts DEF ClaimSlot, TypeInv, Holding
  <2> QED
    BY <1>t, <1>2, <2>1 DEF ClaimSlot, Kinds, GivesBack
<1>3. CASE EndJob("docling")
  BY <1>t, <1>3 DEF EndJob, Leave, Loop, GivesBack
<1>4. CASE HandBack \/ CloseBatch
  BY <1>t, <1>4 DEF HandBack, CloseBatch, Go, Finish, GivesBack
<1>5. CASE BatchLostLock
  BY <1>t, <1>5 DEF BatchLostLock, Finish, NoProject, NoSlot, GivesBack, InHand
<1>6. CASE ParsePdfs
  BY <1>t, <1>6 DEF ParsePdfs, Finish, GivesBack, InHand
<1>7. CASE /\ pc'["docling"] = pc["docling"] /\ job'["docling"] = job["docling"]
           /\ fin'["docling"] = fin["docling"]
  BY <1>7 DEF GivesBack
<1> QED
  BY <1>1, <1>2, <1>3, <1>4, <1>5, <1>6, <1>7, OwnSteps DEF DoclingStep, Common

\* A run does not get its project's lock back: only a fresh run's request takes it.
LEMMA LostForGood ==
  ASSUME TypeInv, [Next]_vars, NEW r \in Runs, ~ Fresh(r), genLock[P(r)] # r
  PROVE  genLock'[P(r)] # r
<1>t. /\ genLock \in [Projects -> Runs \cup {NoRun}] /\ NoRun \notin Runs
      /\ \A s \in Runs : P(s) \in Projects
  BY S1Constants DEF TypeInv, TypeOK, P
<1>1. ASSUME NEW s \in Runs, TakeLock(s) PROVE genLock'[P(r)] # r
  BY <1>t, <1>1 DEF TakeLock, ReqGo, Fresh
<1>2. ASSUME NEW s \in Runs, PushFails(s) \/ Expire(s) PROVE genLock'[P(r)] # r
  BY <1>t, <1>2 DEF PushFails, Expire
<1>3. ASSUME NEW w \in Workers, ClaimSlot(w) \/ Beat(w) PROVE genLock'[P(r)] # r
  BY <1>3 DEF ClaimSlot, Beat
<1>4. ASSUME NEW w \in Workers, ReleaseLocks(w) PROVE genLock'[P(r)] # r
  BY <1>t, <1>4 DEF ReleaseLocks, OwnedBy
<1>5. ASSUME NEW j \in Jobs, Reclaim(j) PROVE genLock'[P(r)] # r
  BY <1>t, <1>5 DEF Reclaim, OwnedBy
<1> QED
  BY <1>1, <1>2, <1>3, <1>4, <1>5, LockSteps

LEMMA StepLock ==
  ASSUME TypeInv, OnceInv, AccountInv, LockInv, [Next]_vars
  PROVE  LockInv'
<1>t. /\ genLock \in [Projects -> Runs \cup {NoRun}] /\ wfLock \in Runs \cup {NoRun}
      /\ req \in [Runs -> ReqPcs] /\ NoRun \notin Runs
      /\ "main" \in Workers /\ "docling" \in Workers /\ "main" # "docling"
      /\ \A w \in Workers : w = "main" \/ w = "docling"
      /\ \A s \in Runs : P(s) \in Projects
      /\ cancelKey \subseteq cancelKey'
  BY JobParts, S1Constants, LockSteps DEF TypeInv, TypeOK, Workers
<1>1. \A r \in Runs : Fresh(r)' => \A q \in Workers : \A id \in Held(q)' : id[2] # r
  BY StepFresh
<1>2. ASSUME NEW r \in Runs, ~ Fresh(r), genLock[P(r)] # r PROVE genLock'[P(r)] # r
  BY <1>2, LostForGood
<1>3. ASSUME GivesBack'
      PROVE  \E r \in Runs : /\ r = job'["docling"].run
                             /\ ~ Fresh(r)' /\ (r \in cancelKey' \/ genLock'[P(r)] # r)
  <2>1. PICK r : r = job["docling"].run
    OBVIOUS
  <2>2. ~ Fresh(r) /\ (r \in cancelKey \/ genLock[P(r)] # r) /\ r \in Runs
    <3>1. CASE GivesBack
      <4>1. job["docling"] \in Jobs
        BY <1>t, <3>1 DEF GivesBack, TypeInv, Holding
      <4> QED
        BY <2>1, <3>1, <4>1, JobParts DEF LockInv
    <3>2. CASE ~ GivesBack
      BY <1>t, <1>3, <2>1, <3>2, GiveBackBegins, HandNotFresh
    <3> QED
      BY <3>1, <3>2
  <2>3. ~ Fresh(r)'
    BY <2>2, FreshMoves
  <2>4. r \in cancelKey' \/ genLock'[P(r)] # r
    <3>1. CASE r \in cancelKey
      BY <1>t, <3>1
    <3>2. CASE r \notin cancelKey
      BY <1>2, <2>2, <3>2
    <3> QED
      BY <3>1, <3>2
  <2> QED
    BY <1>3, <2>1, <2>2, <2>3, <2>4, GiveBackBegins
\* What takes a lock from the run that the main worker works for has been told of a
\* cancel.
<1>4. ASSUME pc["main"] \in WorkPcs \cup {"claim"}, NEW r \in Runs,
             job["main"].run = r, ~ Fresh(r), r \notin cancelKey, genLock[P(r)] = r
      PROVE  genLock'[P(r)] = r /\ (wfLock = r => wfLock' = r)
  <2> DEFINE Kept == genLock'[P(r)] = r /\ (wfLock = r => wfLock' = r)
  <2>p. pc["main"] \notin {"boot", "idle", "got", "releasing"}
    BY <1>4 DEF WorkPcs
  <2>1. ASSUME NEW s \in Runs, TakeLock(s) PROVE Kept
    BY <1>t, <1>4, <2>1 DEF TakeLock
  <2>2. ASSUME NEW s \in Runs, PushFails(s) PROVE Kept
    BY <1>t, <1>4, <2>2 DEF PushFails, ReqGo, Fresh
  <2>3. ASSUME NEW s \in Runs, Expire(s) PROVE Kept
    <3>1. Renewing("main", r) /\ ~ Leaked(r)
      BY <1>t, <1>4, <2>p DEF Renewing, Leaked
    <3>2. s = r => FALSE
      BY <1>t, <2>3, <3>1 DEF Expire
    <3> QED
      BY <1>t, <1>4, <2>3, <3>2 DEF Expire
  <2>4. ASSUME NEW w \in Workers, ClaimSlot(w) \/ Beat(w) PROVE Kept
    BY <1>t, <1>4, <2>4 DEF ClaimSlot, Beat
  <2>5. ASSUME NEW w \in Workers, ReleaseLocks(w) PROVE Kept
    <3>1. w = "docling" /\ GivesBack
      BY <1>t, <2>p, <2>5 DEF ReleaseLocks, GivesBack
    <3>2. job["docling"].run # r
      BY <1>4, <3>1 DEF LockInv
    <3> QED
      BY <1>t, <1>4, <2>5, <3>1, <3>2 DEF ReleaseLocks, OwnedBy
  <2>6. ASSUME NEW j \in Jobs, Reclaim(j) PROVE Kept
    BY <2>p, <2>6 DEF Reclaim
  <2>7. CASE UNCHANGED <<genLock, wfLock>>
    BY <1>4, <2>7
  <2> QED
    BY <2>1, <2>2, <2>3, <2>4, <2>5, <2>6, <2>7, LockSteps
<1>5. ASSUME pc'["main"] \in WorkPcs \cup {"claim"}
      PROVE  LET r == job'["main"].run IN
             /\ r \in cancelKey' \/ genLock'[P(r)] = r
             /\ pc'["main"] \in WorkPcs => r \in cancelKey' \/ wfLock' = r
  <2> DEFINE r == job["main"].run
  <2>1. job'["main"] = job["main"] /\ r \in Runs /\ ~ Fresh(r)
    BY <1>t, <1>5, WorkBegins, HandNotFresh
  <2>2. CASE Begin("main")
    BY <1>t, <2>1, <2>2 DEF Begin, Go, TypeInv, TypeOK, WorkPcs
  <2>3. CASE pc["main"] \in WorkPcs \cup {"claim"}
    <3>1. r \in cancelKey \/ genLock[P(r)] = r
      BY <2>3 DEF LockInv
    <3>2. CASE r \in cancelKey
      BY <1>t, <2>1, <3>2
    <3>3. CASE r \notin cancelKey
      <4>1. genLock'[P(r)] = r /\ (wfLock = r => wfLock' = r)
        BY <1>4, <2>1, <2>3, <3>1, <3>3
      <4>2. CASE pc["main"] \in WorkPcs
        BY <2>1, <3>3, <4>1, <4>2 DEF LockInv
      <4>3. CASE ClaimSlot("main")
        BY <2>1, <4>1, <4>3 DEF ClaimSlot
      <4>4. CASE pc'["main"] \notin WorkPcs
        BY <2>1, <4>1, <4>4
      <4> QED
        BY <4>2, <4>3, <4>4, WorkBegins
    <3> QED
      BY <3>2, <3>3
  <2> QED
    <3>1. ClaimSlot("main") => pc["main"] = "claim"
      BY DEF ClaimSlot
    <3> QED
      BY <1>5, <2>2, <2>3, <3>1, WorkBegins
<1> QED
  BY <1>1, <1>3, <1>5 DEF LockInv

LEMMA InitLock == Init => LockInv
<1> SUFFICES ASSUME Init PROVE LockInv
  OBVIOUS
<1>1. \A q \in Workers : Held(q) = {}
  BY EmptyIds DEF Init, Quiet, Held
<1>2. pc["main"] = "boot" /\ pc["docling"] = "boot"
  BY DEF Init, Quiet, Workers
<1> QED
  BY <1>1, <1>2 DEF LockInv, GivesBack, WorkPcs

\* A parse result is stored under both locks of its run, whatever expired, was
\* delivered again or failed before (execute_s1_parse_job under the two claims of
\* redis_worker): a run that lost one finds out before it works, and the only other
\* worker that gives its locks back does so for a cancelled batch or for one that can
\* never have them again.
THEOREM ResultsUnderLocks == Spec => ResultUnderLocks
<1> DEFINE Stored(p) == \/ genLock[p] = result'[p] /\ wfLock = result'[p]
                        \/ result'[p] \in cancelKey
<1>1. ASSUME TypeInv, LockInv, [Next]_vars, NEW p \in Projects, result'[p] # result[p]
      PROVE  Stored(p)
  <2>1. Persist
    <3>1. ASSUME NEW s \in Runs, Request(s) \/ PushFails(s) \/ ApiCrash(s) \/ Expire(s)
          PROVE  UNCHANGED result
      BY <3>1
      DEF Request, CheckLock, ResetProgress, TakeLock, PushJob, BindRead, BindWrite,
          PushFails, ApiCrash, Expire, db
    <3>2. ASSUME NEW q \in Projects, CancelRead(q) \/ CancelWrite(q)
          PROVE  UNCHANGED result
      BY <3>2 DEF CancelRead, CancelWrite, db
    <3>3. ASSUME NEW w \in Workers, Common(w) \/ Crash(w) \/ Beat(w)
          PROVE  UNCHANGED result
      BY <3>3
      DEF Common, Recover, Dequeue, Begin, ClaimSlot, EndJob, ReleaseLocks, Crash, Beat,
          db
    <3>4. ASSUME NEW j \in Jobs, Reclaim(j) PROVE UNCHANGED result
      BY <3>4 DEF Reclaim, db
    <3>5. CASE \/ LostLock \/ Requeue \/ StartParse \/ WriteStarted \/ HandOff
               \/ HandOffFails \/ Continue \/ Complete \/ Retry \/ ParseFails
               \/ MapOutcome
      BY <1>1, <3>5
      DEF LostLock, Requeue, StartParse, WriteStarted, HandOff, HandOffFails, Continue,
          Complete, Retry, ParseFails, MapOutcome, db
    <3>6. CASE \/ BatchLostLock \/ ParsePdfs \/ HandBack \/ CloseBatch
               \/ HandBackFails \/ BatchReportFails \/ UNCHANGED vars
      BY <1>1, <3>6
      DEF BatchLostLock, ParsePdfs, HandBack, CloseBatch, HandBackFails,
          BatchReportFails, vars, db
    <3>7. "main" \in Workers /\ "docling" \in Workers
      BY DEF Workers
    <3> QED
      BY <1>1, <3>1, <3>2, <3>3, <3>4, <3>5, <3>6, <3>7
      DEF Next, MainStep, DoclingStep
  <2>2. /\ p = P(job["main"].run) /\ result'[p] = job["main"].run
        /\ pc["main"] \in WorkPcs
    BY <1>1, <2>1 DEF Persist, TypeInv, TypeOK, WorkPcs
  <2> QED
    BY <1>1, <2>2 DEF LockInv
<1>2. /\ TypeInv /\ OnceInv /\ AccountInv /\ LockInv /\ [Next]_vars
           => TypeInv' /\ OnceInv' /\ AccountInv' /\ LockInv'
      /\ TypeInv /\ LockInv /\ [Next]_vars
           => [\A p \in Projects : result'[p] # result[p] => Stored(p)]_vars
  BY <1>1, StepTypes, StepOnce, StepAccount, StepLock
<1> QED
  BY <1>2, InitTypes, InitOnce, InitAccount, InitLock, PTL DEF Spec, ResultUnderLocks

-----------------------------------------------------------------------------
(* One workflow at a time.                                                 *)

Parses    == {"got", "claim", "parse", "started", "handoff"}
Continues == {"continue", "executing", "persisted", "returned"}

\* The main worker takes its processing list empty, but for what a dead process has
\* left there, and works for a continuation only where it finishes a parse.
MainInv ==
    /\ pc["main"] \in {"idle", "releasing"} => proc["main"] = <<>>
    /\ InHand("main") => proc["main"] = <<job["main"]>>
    /\ pc["main"] \in Continues => job["main"].kind = "continue"
    /\ pc["main"] \notin {"batch", "parsed", "handed"}

\* What the steps do to the place of the main worker and to its job.
MainMoves ==
    /\ pc'["main"] \in Parses =>
          \/ Dequeue("main")
          \/ pc["main"] \in Parses /\ job'["main"] = job["main"]
    /\ pc'["main"] \in Continues =>
          /\ job'["main"] = job["main"]
          /\ pc["main"] \in Continues \/ job["main"].kind = "continue"
    /\ pc'["main"] = "ending" => job'["main"] = job["main"]
    /\ pc'["main"] = "releasing" =>
          \/ EndJob("main") /\ fin["main"].release /\ job'["main"] = job["main"]
          \/ pc["main"] = "releasing" /\ job'["main"] = job["main"]
    /\ pc'["main"] \in {"batch", "parsed", "handed"} =>
          pc["main"] \in {"batch", "parsed", "handed"}
    /\ pc'["main"] = "idle" =>
          \/ pc["main"] \in {"idle", "releasing"} \/ Recover("main")
          \/ EndJob("main") \/ Requeue
    /\ pc'["main"] = "boot" =>
          pc["main"] \in {"boot", "releasing"} \/ EndJob("main") \/ Crash("main")

LEMMA MainGoes ==
  ASSUME TypeInv, OnceInv, AccountInv, [Next]_vars
  PROVE  MainMoves
<1> USE DEF MainMoves
<1>t. /\ pc \in [Workers -> Pcs] /\ job \in [Workers -> Jobs \cup {NoJob}]
      /\ "main" \in Workers
  BY DEF TypeInv, TypeOK, Workers
<1>1. CASE \/ Recover("main") \/ Dequeue("main") \/ Begin("main") \/ EndJob("main")
           \/ ReleaseLocks("main") \/ Crash("main")
  BY <1>t, <1>1
  DEF Recover, Dequeue, Begin, EndJob, ReleaseLocks, Crash, Go, Leave, Loop, Parses,
      Continues
<1>2. CASE ClaimSlot("main")
  <2>1. job["main"].kind \in {"parse", "continue"} /\ UNCHANGED job
    <3>1. QueueOf(job["main"].kind) = "main" /\ job["main"].kind \in Kinds
      BY <1>t, <1>2, HandFacts DEF ClaimSlot, InHand
    <3> QED
      BY <1>2, <3>1 DEF ClaimSlot, QueueOf, Kinds
  <2>2. /\ pc["main"] = "claim"
        /\ pc'["main"] = IF job["main"].kind = "parse" THEN "parse" ELSE "continue"
    BY <1>t, <1>2, <2>1 DEF ClaimSlot
  <2> QED
    BY <2>1, <2>2 DEF Parses, Continues
<1>3. CASE \/ LostLock \/ Requeue \/ StartParse \/ WriteStarted \/ HandOff
           \/ HandOffFails \/ Continue \/ Persist \/ Complete \/ ParseFails \/ MapOutcome
  BY <1>t, <1>3
  DEF LostLock, Requeue, StartParse, WriteStarted, HandOff, HandOffFails, Continue,
      Persist, Complete, ParseFails, MapOutcome, Go, Finish, Leave, Parses, Continues
<1>4. CASE /\ pc'["main"] = pc["main"] /\ job'["main"] = job["main"]
           /\ fin'["main"] = fin["main"]
  BY <1>4
<1> QED
  BY <1>1, <1>2, <1>3, <1>4, OwnSteps DEF MainStep, Common

LEMMA SingleJob ==
  ASSUME NEW j \in Jobs
  PROVE  RemoveFirst(<<j>>, j) = <<>>
<1> DEFINE o == <<j>>
           s == RemoveFirst(o, j)
<1>1. o \in Seq(Jobs) /\ Unique(o) /\ IdsOf(o) = {Id(j)}
  BY OneId
<1>2. \E k \in 1..Len(o) : o[k] = j
  <2>1. 1 \in 1..Len(o) /\ o[1] = j
    OBVIOUS
  <2> QED
    BY <2>1
<1> HIDE DEF o
<1>3. s \in Seq(Jobs) /\ IdsOf(s) \subseteq IdsOf(o) /\ Id(j) \notin IdsOf(s)
  BY <1>1, <1>2, RemoveIds
<1> HIDE DEF s
<1>4. IdsOf(s) = {}
  BY <1>1, <1>3
<1>5. Len(s) \in Nat /\ DOMAIN s = 1..Len(s)
  BY <1>3, LenProperties
<1>6. ASSUME Len(s) # 0 PROVE FALSE
  <2>1. 1 \in DOMAIN s
    BY <1>5, <1>6
  <2> QED
    BY <1>4, <2>1 DEF IdsOf
<1> QED
  BY <1>3, <1>6, EmptySeq DEF s, o

\* The steps that change the main worker's processing list.
LEMMA ProcSteps ==
  ASSUME TypeInv, [Next]_vars
  PROVE  \/ proc'["main"] = proc["main"]
         \/ Recover("main") \/ Dequeue("main") \/ EndJob("main") \/ Requeue
         \/ \E j \in Jobs : Reclaim(j) /\ j \in Members(proc["main"])
<1>t. proc \in [Workers -> Seq(Jobs)] /\ "main" \in Workers /\ "docling" \in Workers
  BY DEF TypeInv, TypeOK, Workers
<1>1. CASE \/ UNCHANGED <<queue, proc>>
           \/ \E r \in Runs : PushesParse(r)
           \/ \E k \in Kinds, r \in Runs, e \in BOOLEAN : PushesNext(k, r, e)
  BY <1>1 DEF PushesParse, PushesNext
<1>2. ASSUME NEW w \in Workers, Recover(w) \/ Dequeue(w)
      PROVE  w = "main" \/ proc'["main"] = proc["main"]
  BY <1>t, <1>2 DEF Recover, Dequeue
<1>3. ASSUME NEW w \in Workers, NEW j \in Jobs, Ends(w, j)
      PROVE  \/ proc'["main"] = proc["main"]
             \/ EndJob("main")
             \/ Reclaim(j) /\ j \in Members(proc["main"])
  BY <1>t, <1>3 DEF Ends, Reclaim
<1> QED
  BY <1>1, <1>2, <1>3, ListSteps DEF ListStep

LEMMA StepMain ==
  ASSUME TypeInv, OnceInv, AccountInv, MainInv, [Next]_vars, "clear" \notin Faults
  PROVE  MainInv'
<1>t. /\ pc \in [Workers -> Pcs] /\ job \in [Workers -> Jobs \cup {NoJob}]
      /\ proc \in [Workers -> Seq(Jobs)] /\ "main" \in Workers
  BY DEF TypeInv, TypeOK, Workers
<1>1. CASE Recover("main") \/ Requeue
  <2>1. /\ pc'["main"] = "idle"
        /\ Recover("main") => proc'["main"] = <<>>
    BY <1>t, <1>1 DEF Recover, Requeue, Go, Leave
  <2>2. Requeue => proc'["main"] = <<>>
    <3>1. ASSUME Requeue PROVE proc["main"] = <<job["main"]>> /\ job["main"] \in Jobs
      BY <3>1, HandFacts, <1>t DEF Requeue, InHand, MainInv
    <3> QED
      BY <1>t, <3>1, SingleJob DEF Requeue
  <2> QED
    BY <1>1, <2>1, <2>2 DEF MainInv, InHand, Continues
<1>2. CASE Dequeue("main")
  <2>1. /\ proc["main"] = <<>> /\ pc'["main"] = "got"
        /\ job'["main"] = Head(queue["main"])
        /\ proc'["main"] = Append(proc["main"], Head(queue["main"]))
    BY <1>t, <1>2 DEF Dequeue, Go, MainInv
  <2> QED
    BY <2>1 DEF MainInv, InHand, Continues
<1>3. CASE EndJob("main")
  <2>1. proc["main"] = <<job["main"]>> /\ job["main"] \in Jobs /\ pc["main"] = "ending"
    BY <1>t, <1>3, HandFacts DEF EndJob, InHand, MainInv
  <2>2. proc'["main"] = <<>>
    BY <1>t, <1>3, <2>1, SingleJob DEF EndJob, Fault
  <2>3. pc'["main"] \in {"releasing", "idle", "boot"}
    BY <1>t, <1>3 DEF EndJob, Leave, Loop
  <2> QED
    BY <2>2, <2>3 DEF MainInv, InHand, Continues
<1>4. ASSUME NEW j \in Jobs, Reclaim(j), j \in Members(proc["main"]) PROVE FALSE
  BY <1>4 DEF Reclaim, MainInv, Members
<1>5. CASE /\ proc'["main"] = proc["main"]
           /\ ~ (Recover("main") \/ Requeue \/ Dequeue("main") \/ EndJob("main"))
  <2>1. pc'["main"] \in {"idle", "releasing"} => proc'["main"] = <<>>
    BY <1>5, MainGoes DEF MainMoves, MainInv
  <2>2. InHand("main")' => proc'["main"] = <<job'["main"]>>
    <3>1. ASSUME InHand("main")' PROVE InHand("main") /\ job'["main"] = job["main"]
      <4>1. InHand("main")
        BY <1>5, <1>t, <3>1, HandSteps
      <4>2. pc'["main"] \in Pcs
        BY <1>t, StepTypes DEF TypeInv, TypeOK
      <4>3. \/ pc'["main"] \in Parses \cup Continues
            \/ pc'["main"] \in {"ending", "batch", "parsed", "handed"}
        BY <3>1, <4>2 DEF Pcs, InHand, Parses, Continues
      <4> QED
        BY <1>5, <4>1, <4>3, MainGoes DEF MainMoves, MainInv
    <3> QED
      BY <1>5, <3>1 DEF MainInv
  <2>3. /\ pc'["main"] \in Continues => job'["main"].kind = "continue"
        /\ pc'["main"] \notin {"batch", "parsed", "handed"}
    BY MainGoes DEF MainMoves, MainInv
  <2> QED
    BY <2>1, <2>2, <2>3 DEF MainInv
<1> QED
  BY <1>1, <1>2, <1>3, <1>4, <1>5, ProcSteps

\* The main worker has handed a run on; a run is over, and no job will have it open
\* again.
Handed(r) == status[<<"docling", r>>] # "absent" \/ status[<<"continue", r>>] # "absent"
Over(r)   == /\ status[<<"continue", r>>] \in Ended
             /\ <<"continue", r>> \notin Held("main")

\* The hash of a batch or of a continuation appears with the job: the main worker's
\* hand-off pushes either, the Docling worker a continuation.
LEMMA HashAppears ==
  ASSUME TypeInv, OnceInv, AccountInv, [Next]_vars,
         NEW k \in Kinds, k # "parse", NEW r \in Runs,
         status[<<k, r>>] = "absent", status'[<<k, r>>] # "absent"
  PROVE  \/ /\ HandOff \/ HandOffFails
            /\ job["main"].run = r /\ k = NextStage(r)
         \/ k = "continue" /\ InHand("docling") /\ job["docling"].run = r
<1> DEFINE id   == <<k, r>>
           Goal == \/ /\ HandOff \/ HandOffFails
                      /\ job["main"].run = r /\ k = NextStage(r)
                   \/ k = "continue" /\ InHand("docling") /\ job["docling"].run = r
<1> SUFFICES Goal
  OBVIOUS
<1>t. /\ id \in JobIds /\ status \in [JobIds -> Statuses]
      /\ status[id] = "absent" /\ status'[id] # "absent" /\ id[1] # "parse"
      /\ "main" \in Workers /\ "docling" \in Workers
      /\ \A w \in Workers : InHand(w) => Id(job[w]) # id
  BY JobParts, HandFacts DEF TypeInv, TypeOK, Workers
<1>n. \A i : i[1] = "parse" => i # id
  BY <1>t
<1> HIDE DEF Goal
<1>1. ASSUME NEW s \in Runs, Request(s) \/ PushFails(s) \/ ApiCrash(s) \/ Expire(s)
      PROVE  FALSE
  BY <1>t, <1>1
  DEF Request, CheckLock, ResetProgress, TakeLock, PushJob, BindRead, BindWrite,
      PushFails, ApiCrash, Expire, AddParse, redis
<1>2. ASSUME NEW p \in Projects, CancelRead(p) \/ CancelWrite(p) PROVE FALSE
  BY <1>t, <1>2 DEF CancelRead, CancelWrite, redis
<1>3. ASSUME NEW w \in Workers, Common(w) \/ Crash(w) \/ Beat(w) PROVE FALSE
  <2>1. CASE \/ Dequeue(w) \/ EndJob(w) \/ ReleaseLocks(w) \/ Crash(w) \/ Beat(w)
    BY <1>t, <2>1 DEF Dequeue, EndJob, ReleaseLocks, Crash, Beat, redis
  <2>2. CASE Begin(w)
    BY <1>t, <2>2 DEF Begin, Go, InHand
  <2>3. CASE ClaimSlot(w)
    BY <1>t, <2>3 DEF ClaimSlot
  <2>4. CASE Recover(w)
    <3>1. id \in {Id(j) : j \in Members(proc[w])}
      BY <1>t, <2>4 DEF Recover
    <3>2. proc[w] \in Seq(Jobs)
      BY DEF TypeInv, TypeOK
    <3>3. id \in IdsOf(proc[w])
      BY <3>1, <3>2, LenProperties DEF Members, IdsOf
    <3> QED
      BY <1>t, <3>3 DEF OnceInv, Held
  <2> QED
    BY <1>3, <2>1, <2>2, <2>3, <2>4 DEF Common
<1>4. CASE \/ LostLock \/ Requeue \/ StartParse \/ WriteStarted \/ Continue \/ Persist
           \/ Complete \/ Retry \/ ParseFails \/ MapOutcome
  BY <1>t, <1>4
  DEF LostLock, Requeue, StartParse, WriteStarted, Continue, Persist, Complete, Retry,
      ParseFails, MapOutcome, SetBoth, Go, InHand, redis
<1>5. CASE ParsePdfs \/ CloseBatch \/ UNCHANGED vars
  BY <1>t, <1>5 DEF ParsePdfs, CloseBatch, SetBoth, InHand, vars, redis
<1>6. ASSUME NEW j \in Jobs, Reclaim(j) PROVE FALSE
  <2>1. Id(j) \in IdsOf(proc["main"])
    BY <1>t, <1>6, LenProperties DEF Reclaim, Members, IdsOf, TypeInv, TypeOK
  <2>2. status[Id(j)] # "absent"
    BY <1>t, <2>1 DEF OnceInv, Held
  <2> QED
    BY <1>t, <1>6, <2>2 DEF Reclaim, SetBoth
<1>7. CASE HandOff \/ HandOffFails
  <2>1. id = <<NextStage(job["main"].run), job["main"].run>>
    BY <1>t, <1>7 DEF HandOff, HandOffFails, AddInternal, AddInternalFails
  <2> QED
    BY <1>7, <2>1 DEF Goal
<1>8. CASE BatchLostLock \/ HandBack \/ HandBackFails \/ BatchReportFails
  <2>1. InHand("docling")
    BY <1>8
    DEF BatchLostLock, HandBack, HandBackFails, BatchReportFails, NoProject, NoSlot, Go,
        InHand
  <2>2. id = <<"continue", job["docling"].run>>
    BY <1>t, <1>8, <2>1
    DEF BatchLostLock, HandBack, HandBackFails, BatchReportFails, AddInternal,
        AddInternalFails
  <2> QED
    BY <2>1, <2>2 DEF Goal
<1> QED
  BY <1>t, <1>1, <1>2, <1>3, <1>4, <1>5, <1>6, <1>7, <1>8
  DEF Next, MainStep, DoclingStep

\* Only the main worker's hand-off gives a run a batch or its first continuation.
LEMMA HandedBegins ==
  ASSUME TypeInv, OnceInv, AccountInv, [Next]_vars, NEW r \in Runs,
         ~ Handed(r), Handed(r)'
  PROVE  /\ HandOff \/ HandOffFails
         /\ job["main"].run = r /\ job["main"].kind = "parse"
         /\ \A i \in IdsOf(queue'["main"]) : i[1] = "parse" => i \in IdsOf(queue["main"])
<1>t. queue \in [Workers -> Seq(Jobs)] /\ "main" \in Workers /\ "docling" \in Workers
  BY DEF TypeInv, TypeOK, Workers
<1>1. PICK k \in {"docling", "continue"} :
         status[<<k, r>>] = "absent" /\ status'[<<k, r>>] # "absent"
  BY DEF Handed
<1>2. ASSUME InHand("docling"), job["docling"].run = r PROVE Handed(r)
  <2>1. job["docling"].kind = "docling" /\ status[<<job["docling"].kind, r>>] # "absent"
    BY <1>t, <1>2, HandFacts DEF QueueOf, Kinds
  <2> QED
    BY <2>1 DEF Handed
<1>3. (HandOff \/ HandOffFails) /\ job["main"].run = r
  BY <1>1, <1>2, HashAppears DEF Kinds
<1>4. job["main"].kind = "parse"
  BY <1>3 DEF HandOff, HandOffFails, AccountInv
<1>5. PICK j \in Jobs : /\ Id(j) = <<NextStage(r), r>>
                        /\ \/ queue'["main"] = queue["main"]
                           \/ queue'["main"] = Append(queue["main"], j)
  <2>1. /\ Job(NextStage(r), r, FALSE) \in Jobs
        /\ Id(Job(NextStage(r), r, FALSE)) = <<NextStage(r), r>>
    BY JobParts DEF NextStage, Kinds
  <2>2. \/ queue'["main"] = queue["main"]
        \/ queue'["main"] = Append(queue["main"], Job(NextStage(r), r, FALSE))
    BY <1>3, <1>t DEF HandOff, HandOffFails, AddInternal, AddInternalFails, QueueOf
  <2> QED
    BY <2>1, <2>2
<1>6. \A i \in IdsOf(queue'["main"]) : i[1] = "parse" => i \in IdsOf(queue["main"])
  <2>1. CASE queue'["main"] = queue["main"]
    BY <2>1
  <2>2. CASE queue'["main"] = Append(queue["main"], j)
    <3>1. IdsOf(queue'["main"]) = IdsOf(queue["main"]) \cup {Id(j)}
      BY <1>t, <2>2, AppendIds
    <3>2. Id(j)[1] # "parse"
      BY <1>5 DEF NextStage
    <3> QED
      BY <3>1, <3>2
  <2> QED
    BY <1>5, <2>1, <2>2
<1> QED
  BY <1>3, <1>4, <1>6

\* The end of a continuation is not written over but by the worker that has it again.
LEMMA EndStays ==
  ASSUME TypeInv, OnceInv, AccountInv, [Next]_vars, NEW r \in Runs,
         status[<<"continue", r>>] \in Ended,
         <<"continue", r>> \notin Held("main") \/ pc["main"] = "ending"
  PROVE  status'[<<"continue", r>>] \in Ended
<1> DEFINE id == <<"continue", r>>
<1>t. id \in JobIds /\ id[1] = "continue" /\ "absent" \notin Ended
  BY JobParts DEF Kinds, Ended
<1>1. ASSUME Rework(id) PROVE FALSE
  <2>1. ASSUME NEW w \in Workers, id \in Held(w) PROVE w = "main"
    BY <1>t, <2>1 DEF AccountInv, QueueOf
  <2>2. ASSUME NEW w \in Workers, Recover(w), id \in IdsOf(proc[w]) PROVE FALSE
    BY <2>1, <2>2 DEF Held, Recover, Go
  <2>3. ASSUME NEW w \in Workers, InHand(w), pc[w] # "ending", id = Id(job[w])
        PROVE  FALSE
    BY <2>1, <2>3, HandFacts
  <2> QED
    BY <1>1, <1>t, <2>2, <2>3 DEF Rework
<1>2. ASSUME NEW k \in Kinds, NEW s \in Runs, NEW e \in BOOLEAN,
             PushesNext(k, s, e), id = <<k, s>>
      PROVE  FALSE
  BY <1>2, <1>t DEF PushesNext
<1>3. status'[id] # status[id] => status'[id] \in Ended
  BY <1>1, <1>2, <1>t, StatusMoves
<1> QED
  BY <1>3

LEMMA OverStays ==
  ASSUME TypeInv, OnceInv, AccountInv, [Next]_vars, NEW r \in Runs, Over(r)
  PROVE  Over(r)'
<1> DEFINE id == <<"continue", r>>
<1>1. status'[id] \in Ended
  BY EndStays DEF Over
<1>2. ASSUME id \in Held("main")' PROVE FALSE
  <2>1. id \in Held("main")' \ Held("main") /\ "main" \in Workers
    BY <1>2 DEF Over, Workers
  <2>2. \/ PushesParse(id[2])
        \/ \E e \in BOOLEAN : PushesNext(id[1], id[2], e)
    BY <2>1, ListMoves
  <2>3. CASE \E e \in BOOLEAN : PushesNext(id[1], id[2], e)
    BY <2>3 DEF PushesNext, Over, Ended
  <2>4. CASE PushesParse(r)
    <3>1. /\ queue'["main"] = Append(queue["main"], Job("parse", r, FALSE))
          /\ proc'["main"] = proc["main"] /\ queue["main"] \in Seq(Jobs)
          /\ Job("parse", r, FALSE) \in Jobs /\ Id(Job("parse", r, FALSE)) = <<"parse", r>>
      BY <2>1, <2>4, JobParts DEF PushesParse, TypeInv, TypeOK, Kinds
    <3>2. IdsOf(queue'["main"]) = IdsOf(queue["main"]) \cup {<<"parse", r>>}
      BY <3>1, AppendIds
    <3>3. Held("main")' = IdsOf(queue'["main"]) \cup IdsOf(proc'["main"])
      BY DEF Held, IdsOf
    <3> QED
      BY <2>1, <3>1, <3>2, <3>3 DEF Held
  <2> QED
    BY <2>2, <2>3, <2>4
<1> QED
  BY <1>1, <1>2 DEF Over

\* Progress is kept, read and written back under its own project.
Mine(p) == {r \in Runs : P(r) = p} \cup {NoRun}

OwnProgress ==
    /\ \A p \in Projects : progress[p].run \in Mine(p) /\ copy[p].run \in Mine(p)
    /\ pc["main"] = "started" => copy["main"].run \in Mine(P(job["main"].run))

LEMMA StepProgress ==
  ASSUME TypeInv, OnceInv, AccountInv, OwnProgress, [Next]_vars
  PROVE  OwnProgress'
<1>t. /\ progress \in [Projects -> Progress] /\ copy \in [Readers -> Progress]
      /\ pc \in [Workers -> Pcs] /\ job \in [Workers -> Jobs \cup {NoJob}]
      /\ "main" \in Workers /\ "docling" \in Workers
      /\ Projects \subseteq Readers /\ Workers \subseteq Readers /\ Runs \subseteq Readers
      /\ \A p \in Projects : p \notin Workers /\ p \notin Runs
      /\ \A r \in Runs : r \notin Workers
      /\ \A r \in Runs : P(r) \in Projects /\ r \in Mine(P(r))
      /\ \A p \in Projects : NoRun \in Mine(p)
      /\ Idle0.run = NoRun
  BY S1Constants DEF TypeInv, TypeOK, Workers, Readers, Mine, P, Idle0
<1>p. \A p \in Projects : progress[p] \in Progress /\ copy[p] \in Progress
  BY <1>t
<1> DEFINE Kept   == \A p \in Projects : progress'[p].run \in Mine(p)
           Copied == \A p \in Projects : copy'[p].run \in Mine(p)
           Begun  == pc'["main"] = "started" =>
                        copy'["main"].run \in Mine(P(job'["main"].run))
<1> SUFFICES Kept /\ Copied /\ Begun
  BY DEF OwnProgress, Mine
<1>1. UNCHANGED progress => Kept
  BY DEF OwnProgress
<1>2. UNCHANGED copy => Copied
  BY DEF OwnProgress
<1>3. UNCHANGED <<pc, job>> /\ copy'["main"] = copy["main"] => Begun
  BY DEF OwnProgress
<1>4. ASSUME NEW p \in Projects, progress' = [progress EXCEPT ![p] = progress'[p]],
             progress'[p].run \in Mine(p)
      PROVE  Kept
  BY <1>t, <1>4 DEF OwnProgress
<1>5. ASSUME NEW p \in Projects, NEW st, progress' = [progress EXCEPT ![p].status = st]
      PROVE  Kept
  BY <1>p, <1>t, <1>5 DEF OwnProgress, Progress
<1>6. ASSUME NEW r \in Runs,
             \/ CheckLock(r) \/ ResetProgress(r) \/ TakeLock(r) \/ PushJob(r)
             \/ BindRead(r) \/ BindWrite(r) \/ PushFails(r) \/ ApiCrash(r) \/ Expire(r)
      PROVE  Kept /\ Copied /\ Begun
  <2>1. UNCHANGED <<pc, job>> /\ copy'["main"] = copy["main"]
    BY <1>t, <1>6
    DEF CheckLock, ResetProgress, TakeLock, PushJob, BindRead, BindWrite, PushFails,
        ApiCrash, Expire, wk, api
  <2>2. Copied
    BY <1>t, <1>6
    DEF CheckLock, ResetProgress, TakeLock, PushJob, BindRead, BindWrite, PushFails,
        ApiCrash, Expire, api, OwnProgress
  <2>3. Kept
    <3>1. CASE \/ CheckLock(r) \/ TakeLock(r) \/ PushJob(r) \/ BindRead(r) \/ ApiCrash(r)
               \/ Expire(r)
      BY <1>1, <3>1 DEF CheckLock, TakeLock, PushJob, BindRead, ApiCrash, Expire, db
    <3>2. CASE ResetProgress(r)
      BY <1>t, <3>2 DEF ResetProgress, OwnProgress
    <3>3. CASE BindWrite(r)
      <4>1. [copy[r] EXCEPT !.run = r].run = r
        BY <1>t DEF Progress
      <4> QED
        BY <1>t, <3>3, <4>1 DEF BindWrite, OwnProgress
    <3>4. CASE PushFails(r)
      BY <1>5, <1>t, <3>4 DEF PushFails
    <3> QED
      BY <1>6, <3>1, <3>2, <3>3, <3>4
  <2> QED
    BY <1>3, <2>1, <2>2, <2>3
<1>7. ASSUME NEW p \in Projects, CancelRead(p) \/ CancelWrite(p)
      PROVE  Kept /\ Copied /\ Begun
  <2>1. UNCHANGED <<pc, job>> /\ copy'["main"] = copy["main"]
    BY <1>t, <1>7 DEF CancelRead, CancelWrite, wk
  <2>2. Copied
    BY <1>t, <1>7 DEF CancelRead, CancelWrite, OwnProgress
  <2>3. Kept
    <3>1. Cancelled(copy[p]).run = copy[p].run
      BY <1>p DEF Cancelled, Progress
    <3> QED
      BY <1>t, <1>7, <3>1 DEF CancelRead, CancelWrite, OwnProgress, db
  <2> QED
    BY <1>3, <2>1, <2>2, <2>3
<1>8. ASSUME NEW w \in Workers, Common(w) \/ Crash(w) \/ Beat(w)
      PROVE  Kept /\ Copied /\ Begun
  <2>1. Kept
    BY <1>1, <1>8
    DEF Common, Recover, Dequeue, Begin, ClaimSlot, EndJob, ReleaseLocks, Crash, Beat, db
  <2>2. Copied
    BY <1>t, <1>8
    DEF Common, Recover, Dequeue, Begin, ClaimSlot, EndJob, ReleaseLocks, Crash, Beat,
        OwnProgress, api
  <2>3. Begun
    <3>1. ASSUME w = "main", ~ Beat(w) PROVE pc'["main"] # "started"
      <4>1. CASE ClaimSlot(w)
        <5>1. job["main"].kind \in Kinds
          BY <1>t, <3>1, <4>1, HandFacts DEF ClaimSlot, InHand
        <5> QED
          BY <1>t, <3>1, <4>1, <5>1 DEF ClaimSlot, Kinds
      <4> QED
        BY <1>t, <1>8, <3>1, <4>1
        DEF Common, Recover, Dequeue, Begin, EndJob, ReleaseLocks, Crash, Go, Leave, Loop
    <3>2. ASSUME w = "docling" PROVE copy'["main"] = copy["main"]
      BY <1>t, <1>8, <3>2
      DEF Common, Recover, Dequeue, Begin, ClaimSlot, EndJob, ReleaseLocks, Crash, Beat,
          api
    <3>3. ASSUME w = "docling" PROVE pc'["main"] = pc["main"] /\ job'["main"] = job["main"]
      BY <1>t, <1>8, <3>3
      DEF Common, Recover, Dequeue, Begin, ClaimSlot, EndJob, ReleaseLocks, Crash, Beat,
          Go, Leave, wk
    <3>4. Beat(w) => UNCHANGED <<pc, job>> /\ copy'["main"] = copy["main"]
      BY DEF Beat, wk, api
    <3>5. w = "main" \/ w = "docling"
      BY DEF Workers
    <3> QED
      BY <1>3, <3>1, <3>2, <3>3, <3>4, <3>5 DEF OwnProgress
  <2> QED
    BY <2>1, <2>2, <2>3
<1>9. CASE StartParse
  <2>1. InHand("main") /\ job["main"].run \in Runs /\ UNCHANGED <<progress, job>>
    BY <1>9, HandFacts DEF StartParse, InHand, db, Workers
  <2>2. copy'["main"] = progress[P(job["main"].run)] \/ pc'["main"] = "ending"
    BY <1>t, <1>9 DEF StartParse, Finish
  <2>3. Copied
    BY <1>t, <1>9 DEF StartParse, OwnProgress
  <2> QED
    BY <1>1, <1>t, <2>1, <2>2, <2>3 DEF OwnProgress
<1>10. CASE WriteStarted
  <2>1. InHand("main") /\ job["main"].run \in Runs /\ pc["main"] = "started"
    BY <1>10, HandFacts DEF WriteStarted, Go, InHand, Workers
  <2>2. pc'["main"] = "handoff" /\ Copied
    BY <1>t, <1>10 DEF WriteStarted, Go, OwnProgress
  <2>3. [copy["main"] EXCEPT !.status = "running"].run = copy["main"].run
    BY <1>t DEF Progress
  <2>4. Kept
    BY <1>t, <1>10, <2>1, <2>3 DEF WriteStarted, OwnProgress
  <2> QED
    BY <2>2, <2>4
<1>11. ASSUME \/ LostLock \/ Requeue \/ HandOff \/ HandOffFails \/ Continue \/ Persist
              \/ Complete \/ Retry \/ ParseFails \/ MapOutcome
       PROVE  Kept /\ Copied /\ Begun
  <2> DEFINE p == P(job["main"].run)
  <2>1. p \in Projects
    <3>1. InHand("main")
      BY <1>11
      DEF LostLock, Requeue, HandOff, HandOffFails, Continue, Persist, Complete, Retry,
          ParseFails, MapOutcome, Go, InHand
    <3> QED
      BY <1>t, <3>1, HandFacts
  <2>2. Copied
    BY <1>2, <1>11
    DEF LostLock, Requeue, HandOff, HandOffFails, Continue, Persist, Complete, Retry,
        ParseFails, MapOutcome, api
  <2>3. pc'["main"] # "started"
    BY <1>t, <1>11
    DEF LostLock, Requeue, HandOff, HandOffFails, Continue, Persist, Complete, Retry,
        ParseFails, MapOutcome, Go, Finish, Leave, wk
  <2>4. \/ UNCHANGED progress
        \/ \E st : progress' = [progress EXCEPT ![p].status = st]
        \/ progress' = [progress EXCEPT ![p] = Cancelled(@)]
    BY <1>11
    DEF LostLock, Requeue, HandOff, HandOffFails, Continue, Persist, Complete, Retry,
        ParseFails, MapOutcome, CancelledProgress, db
  <2>5. ASSUME progress' = [progress EXCEPT ![p] = Cancelled(@)] PROVE Kept
    <3>1. Cancelled(progress[p]).run = progress[p].run
      BY <1>p, <2>1 DEF Cancelled, Progress
    <3> QED
      BY <1>t, <2>1, <2>5, <3>1 DEF OwnProgress
  <2> HIDE DEF p
  <2> QED
    BY <1>1, <1>5, <2>1, <2>2, <2>3, <2>4, <2>5
<1>12. ASSUME \/ BatchLostLock \/ ParsePdfs \/ HandBack \/ CloseBatch \/ HandBackFails
              \/ BatchReportFails \/ UNCHANGED vars \/ \E j \in Jobs : Reclaim(j)
       PROVE  Kept /\ Copied /\ Begun
  <2>1. UNCHANGED <<progress, copy>>
    BY <1>12
    DEF BatchLostLock, ParsePdfs, HandBack, CloseBatch, HandBackFails, BatchReportFails,
        Reclaim, vars, db, api
  <2>2. pc'["main"] = pc["main"] /\ job'["main"] = job["main"]
    BY <1>t, <1>12
    DEF BatchLostLock, ParsePdfs, HandBack, CloseBatch, HandBackFails, BatchReportFails,
        Reclaim, vars, wk, Go, Finish, Leave
  <2> QED
    BY <1>1, <1>2, <2>1, <2>2 DEF OwnProgress
<1> HIDE DEF Kept, Copied, Begun
<1> QED
  BY <1>t, <1>6, <1>7, <1>8, <1>9, <1>10, <1>11, <1>12
  DEF Next, Request, MainStep, DoclingStep

\* A run's parse job is started once while the main worker does not die: nothing is
\* left in its processing list to be put back, and no run that was handed on has a
\* parse job any more.
Parsing(r) == pc["main"] \in Parses /\ Id(job["main"]) = <<"parse", r>>

FirstTime ==
    /\ pc["main"] = "boot" => proc["main"] = <<>>
    /\ \A r \in Runs :
          <<"parse", r>> \in IdsOf(queue["main"]) \/ Parsing(r) => ~ Handed(r)

\* A run is not handed on before its request has pushed it.
LEMMA StepUnhanded ==
  ASSUME TypeInv, OnceInv, AccountInv, LockInv, [Next]_vars, NEW r \in Runs,
         Fresh(r) => ~ Handed(r), Fresh(r)', Handed(r)'
  PROVE  FALSE
<1>1. Fresh(r)
  BY FreshMoves
<1>2. (HandOff \/ HandOffFails) /\ job["main"].run = r
  BY <1>1, HandedBegins
<1>3. InHand("main") /\ "main" \in Workers
  BY <1>2 DEF HandOff, HandOffFails, InHand, Workers
<1> QED
  BY <1>1, <1>2, <1>3, HandNotFresh

\* What comes into the main worker's queue, when it has nothing to put back.
LEMMA QueueGains ==
  ASSUME TypeInv, OnceInv, AccountInv, FirstTime, [Next]_vars, NEW r \in Runs,
         <<"parse", r>> \in IdsOf(queue'["main"])
  PROVE  \/ <<"parse", r>> \in IdsOf(queue["main"])
         \/ req[r] = "locked"
         \/ Parsing(r)
<1> DEFINE id == <<"parse", r>>
           Goal == id \in IdsOf(queue["main"]) \/ req[r] = "locked" \/ Parsing(r)
<1> SUFFICES Goal
  OBVIOUS
<1>t. /\ queue \in [Workers -> Seq(Jobs)] /\ queue["main"] \in Seq(Jobs)
      /\ job \in [Workers -> Jobs \cup {NoJob}]
      /\ "main" \in Workers /\ "docling" \in Workers
  BY DEF TypeInv, TypeOK, Workers
<1>1. ASSUME NEW j \in Jobs, queue'["main"] = Append(queue["main"], j)
      PROVE  id \in IdsOf(queue["main"]) \/ id = Id(j)
  BY <1>1, <1>t, AppendIds
<1>2. CASE queue'["main"] = queue["main"]
  BY <1>2
<1>3. ASSUME NEW s \in Runs, PushesParse(s) PROVE Goal
  <2>1. Job("parse", s, FALSE) \in Jobs /\ Id(Job("parse", s, FALSE)) = <<"parse", s>>
    BY JobParts DEF Kinds
  <2>2. queue'["main"] = Append(queue["main"], Job("parse", s, FALSE)) /\ req[s] = "locked"
    BY <1>3, <1>t DEF PushesParse
  <2>3. id \in IdsOf(queue["main"]) \/ id = <<"parse", s>>
    <3> HIDE DEF id
    <3> QED
      BY <1>1, <2>1, <2>2
  <2> QED
    BY <2>2, <2>3
<1>4. ASSUME NEW k \in Kinds, NEW s \in Runs, NEW e \in BOOLEAN, PushesNext(k, s, e)
      PROVE  Goal
  <2>1. Job(k, s, e) \in Jobs /\ Id(Job(k, s, e)) = <<k, s>> /\ k # "parse"
    BY <1>4, JobParts DEF PushesNext
  <2>2. \/ queue'["main"] = Append(queue["main"], Job(k, s, e))
        \/ queue'["main"] = queue["main"]
    BY <1>4, <1>t DEF PushesNext, QueueOf
  <2> QED
    BY <1>1, <1>2, <2>1, <2>2
<1>5. ASSUME NEW w \in Workers, Recover(w), PutsBack(w) PROVE Goal
  <2>1. CASE w = "main"
    <3>1. proc["main"] = <<>>
      BY <1>5, <2>1 DEF Recover, Go, FirstTime
    <3>2. queue'["main"] = <<>> \o queue["main"]
      BY <1>5, <1>t, <2>1, <3>1 DEF PutsBack
    <3>3. <<>> \o queue["main"] = queue["main"]
      BY <1>t, ConcatEmptySeq
    <3> QED
      BY <1>2, <3>2, <3>3
  <2>2. CASE w # "main"
    BY <1>2, <1>5, <1>t, <2>2 DEF PutsBack
  <2> QED
    BY <2>1, <2>2
<1>6. ASSUME NEW w \in Workers, Takes(w) PROVE Goal
  <2>1. CASE w = "main"
    <3>1. queue["main"] # <<>> /\ queue'["main"] = Tail(queue["main"])
      BY <1>6, <1>t, <2>1 DEF Takes
    <3>2. IdsOf(Tail(queue["main"])) \subseteq IdsOf(queue["main"])
      BY <1>t, <3>1, HeadIds
    <3> QED
      BY <3>1, <3>2
  <2>2. CASE w # "main"
    BY <1>2, <1>6, <1>t, <2>2 DEF Takes
  <2> QED
    BY <2>1, <2>2
<1>7. CASE Requeue
  <2>1. /\ InHand("main") /\ pc["main"] \in Parses
        /\ queue'["main"] = Append(queue["main"], job["main"])
    BY <1>7, <1>t DEF Requeue, InHand, Parses
  <2>2. job["main"] \in Jobs
    BY <1>t, <2>1, HandFacts
  <2> QED
    BY <1>1, <2>1, <2>2 DEF Parsing
<1>8. UNCHANGED queue => Goal
  BY <1>2
<1> HIDE DEF Goal
<1>9. ListStep
  BY ListSteps
<1>10. ASSUME NEW w \in Workers, NEW j \in Jobs, Ends(w, j) PROVE UNCHANGED queue
  BY <1>10 DEF Ends
<1> QED
  BY <1>3, <1>4, <1>5, <1>6, <1>7, <1>8, <1>9, <1>10 DEF ListStep

\* A job that ends leaves the main worker's processing list empty.
LEMMA EndClears ==
  ASSUME TypeInv, OnceInv, AccountInv, MainInv, EndJob("main"), "clear" \notin Faults
  PROVE  proc'["main"] = <<>>
<1>1. proc["main"] = <<job["main"]>> /\ job["main"] \in Jobs
  BY HandFacts DEF EndJob, InHand, MainInv, Workers
<1> QED
  BY <1>1, SingleJob DEF EndJob, Fault, TypeInv, TypeOK, Workers

LEMMA StepFirst ==
  ASSUME TypeInv, OnceInv, AccountInv, LockInv, MainInv, FirstTime, [Next]_vars,
         {"main", "clear"} \cap Faults = {}, \A r \in Runs : Fresh(r) => ~ Handed(r)
  PROVE  FirstTime'
<1>t. /\ queue["main"] \in Seq(Jobs) /\ job \in [Workers -> Jobs \cup {NoJob}]
      /\ pc \in [Workers -> Pcs] /\ "main" \in Workers
      /\ "main" \notin Faults /\ "clear" \notin Faults
  BY DEF TypeInv, TypeOK, Workers
<1>1. ASSUME pc'["main"] = "boot" PROVE proc'["main"] = <<>>
  <2>1. ~ Crash("main")
    BY <1>t DEF Crash, Fault
  <2>2. CASE EndJob("main")
    BY <1>t, <2>2, EndClears
  <2>3. CASE pc["main"] \in {"boot", "releasing"}
    <3>1. proc["main"] = <<>>
      BY <2>3 DEF FirstTime, MainInv
    <3>2. ~ (Recover("main") \/ Dequeue("main") \/ EndJob("main") \/ Requeue)
      BY <1>1, <1>t, <2>3 DEF Recover, Dequeue, EndJob, Requeue, Go
    <3>3. ASSUME NEW j \in Jobs, Reclaim(j) PROVE FALSE
      BY <2>3, <3>3 DEF Reclaim
    <3> QED
      BY <3>1, <3>2, <3>3, ProcSteps
  <2> QED
    BY <1>1, <2>1, <2>2, <2>3, MainGoes DEF MainMoves
<1>2. ASSUME NEW r \in Runs, Parsing(r)'
      PROVE  \/ <<"parse", r>> \in IdsOf(queue["main"])
             \/ Parsing(r)
  <2>1. pc'["main"] \in Parses /\ Id(job'["main"]) = <<"parse", r>>
    BY <1>2 DEF Parsing, Id
  <2>2. CASE Dequeue("main")
    <3>1. job'["main"] = Head(queue["main"]) /\ queue["main"] # <<>>
      BY <1>t, <2>2 DEF Dequeue
    <3> QED
      BY <1>t, <2>1, <3>1, HeadIds
  <2>3. CASE pc["main"] \in Parses /\ job'["main"] = job["main"]
    BY <2>1, <2>3 DEF Parsing
  <2> QED
    BY <2>1, <2>2, <2>3, MainGoes DEF MainMoves
<1>3. ASSUME NEW r \in Runs, <<"parse", r>> \in IdsOf(queue'["main"]) \/ Parsing(r)',
             Handed(r)'
      PROVE  FALSE
  <2>1. ~ Handed(r)
    BY <1>2, <1>3, QueueGains DEF FirstTime, Fresh
  <2>2. /\ HandOff \/ HandOffFails
        /\ job["main"].run = r /\ job["main"].kind = "parse"
        /\ \A i \in IdsOf(queue'["main"]) : i[1] = "parse" => i \in IdsOf(queue["main"])
    BY <1>3, <2>1, HandedBegins
  <2>3. pc'["main"] = "ending" /\ InHand("main")
    BY <1>t, <2>2 DEF HandOff, HandOffFails, Finish, InHand
  <2>4. <<"parse", r>> \in IdsOf(proc["main"])
    BY <1>t, <2>2, <2>3, HandFacts
  <2>5. <<"parse", r>> \in IdsOf(queue["main"])
    BY <1>3, <2>2, <2>3 DEF Parsing, Parses
  <2> QED
    BY <1>t, <2>4, <2>5 DEF OnceInv, Apart
<1>4. IdsOf(queue["main"])' = IdsOf(queue'["main"])
  BY DEF IdsOf, Id
<1> QED
  BY <1>1, <1>3, <1>4 DEF FirstTime

\* No two runs are of one project.
OneRunEach == \A r, s \in Runs : P(r) = P(s) => r = s

\* The run may be replaced by its successor before it is handed on.
Unstarted(r) == ~ OneRunEach /\ ~ Handed(r)

Batches == {"claim", "batch", "parsed"}

\* The Docling worker works for a batch under both locks of an open run.  The main
\* worker gives locks back for a run whose continuation has ended, that has lost its
\* project's lock for good, or that was replaced before it was handed on.
SlotInv ==
    /\ \A r \in Runs : Fresh(r) => ~ Handed(r)
    /\ pc["docling"] \notin WorkPcs
    /\ LET r == job["docling"].run IN
       /\ pc["docling"] \in Batches => Over(r) \/ genLock[P(r)] = r
       /\ pc["docling"] \in {"batch", "parsed"} => Over(r) \/ wfLock = r
    /\ LET r == job["main"].run IN
       /\ pc["main"] = "ending" /\ fin["main"].release =>
             /\ ~ Fresh(r)
             /\ \/ /\ job["main"].kind = "continue"
                   /\ status[<<"continue", r>>] \in Ended
                \/ genLock[P(r)] # r \/ Unstarted(r)
       /\ pc["main"] = "releasing" =>
             /\ ~ Fresh(r)
             /\ Over(r) \/ genLock[P(r)] # r \/ Unstarted(r)

\* The Docling worker comes to a batch in these steps only.
LEMMA BatchGoes ==
  ASSUME TypeInv, OnceInv, AccountInv, [Next]_vars
  PROVE  /\ pc'["docling"] \in WorkPcs => pc["docling"] \in WorkPcs
         /\ pc'["docling"] \in Batches =>
               /\ job'["docling"].run = job["docling"].run /\ InHand("docling")
               /\ Begin("docling") \/ pc["docling"] \in Batches
         /\ pc'["docling"] \in {"batch", "parsed"} =>
               ClaimSlot("docling") \/ pc["docling"] \in {"batch", "parsed"}
<1> DEFINE Goal ==
      /\ pc'["docling"] \in WorkPcs => pc["docling"] \in WorkPcs
      /\ pc'["docling"] \in Batches =>
            /\ job'["docling"].run = job["docling"].run /\ InHand("docling")
            /\ Begin("docling") \/ pc["docling"] \in Batches
      /\ pc'["docling"] \in {"batch", "parsed"} =>
            ClaimSlot("docling") \/ pc["docling"] \in {"batch", "parsed"}
<1> SUFFICES Goal
  OBVIOUS
<1>t. /\ pc \in [Workers -> Pcs] /\ job \in [Workers -> Jobs \cup {NoJob}]
      /\ "docling" \in Workers
  BY DEF TypeInv, TypeOK, Workers
<1>1. CASE \/ Recover("docling") \/ Dequeue("docling") \/ Begin("docling")
           \/ EndJob("docling") \/ ReleaseLocks("docling") \/ Crash("docling")
  BY <1>t, <1>1
  DEF Recover, Dequeue, Begin, EndJob, ReleaseLocks, Crash, Go, Leave, Loop, Batches,
      WorkPcs, InHand
<1>2. CASE ClaimSlot("docling")
  <2>1. job["docling"].kind = "docling" /\ UNCHANGED job
    <3>1. QueueOf(job["docling"].kind) = "docling" /\ job["docling"].kind \in Kinds
      BY <1>t, <1>2, HandFacts DEF ClaimSlot, InHand
    <3> QED
      BY <1>2, <3>1 DEF ClaimSlot, QueueOf, Kinds
  <2>2. pc["docling"] = "claim" /\ pc'["docling"] = "batch"
    BY <1>t, <1>2, <2>1 DEF ClaimSlot
  <2> QED
    BY <1>2, <2>1, <2>2 DEF Batches, WorkPcs, InHand
<1>3. CASE ParsePdfs
  <2>1. job["docling"] \in Jobs /\ pc["docling"] = "batch"
    BY <1>t, <1>3 DEF ParsePdfs, TypeInv, Holding
  <2>2. \A e \in BOOLEAN : [job["docling"] EXCEPT !.err = e].run = job["docling"].run
    BY <2>1 DEF Jobs
  <2>3. /\ pc'["docling"] \in {"ending", "parsed"}
        /\ \/ UNCHANGED job
           \/ \E e \in BOOLEAN : job' = [job EXCEPT !["docling"].err = e]
    BY <1>t, <1>3 DEF ParsePdfs, Finish
  <2>4. job'["docling"].run = job["docling"].run
    BY <1>t, <2>2, <2>3
  <2> QED
    BY <2>1, <2>3, <2>4 DEF Batches, WorkPcs, InHand
<1>4. CASE \/ BatchLostLock \/ HandBack \/ CloseBatch \/ HandBackFails
           \/ BatchReportFails
  BY <1>t, <1>4
  DEF BatchLostLock, HandBack, CloseBatch, HandBackFails, BatchReportFails, Go, Finish,
      Leave, Batches, WorkPcs
<1>5. CASE pc'["docling"] = pc["docling"] /\ job'["docling"] = job["docling"]
  BY <1>5 DEF Batches, WorkPcs, InHand
<1> QED
  BY <1>1, <1>2, <1>3, <1>4, <1>5, OwnSteps DEF DoclingStep, Common

\* No step but a crash, a report of a lost lock or the end of the run takes a lock
\* from the run that the Docling worker works for.
LEMMA BatchKeeps ==
  ASSUME TypeInv, OnceInv, AccountInv, LockInv, MainInv, SlotInv, [Next]_vars,
         pc["docling"] \in Batches, NEW r, r = job["docling"].run, ~ Over(r),
         genLock[P(r)] = r
  PROVE  genLock'[P(r)] = r /\ (wfLock = r => wfLock' = r)
<1> DEFINE Kept == genLock'[P(r)] = r /\ (wfLock = r => wfLock' = r)
<1> SUFFICES Kept
  OBVIOUS
<1>t. /\ genLock \in [Projects -> Runs \cup {NoRun}] /\ wfLock \in Runs \cup {NoRun}
      /\ req \in [Runs -> ReqPcs] /\ NoRun \notin Runs
      /\ "main" \in Workers /\ "docling" \in Workers
      /\ \A w \in Workers : w = "main" \/ w = "docling"
      /\ \A s \in Runs : P(s) \in Projects
  BY S1Constants DEF TypeInv, TypeOK, Workers, P
<1>p. /\ pc["docling"] \notin {"boot", "idle", "got", "releasing"}
      /\ InHand("docling")
  BY DEF Batches, InHand
<1>r. r \in Runs /\ ~ Fresh(r) /\ Handed(r)
  <2>1. /\ QueueOf(job["docling"].kind) = "docling" /\ job["docling"].kind \in Kinds
        /\ status[<<job["docling"].kind, r>>] # "absent"
    BY <1>t, <1>p, HandFacts
  <2> QED
    BY <1>t, <1>p, <2>1, HandNotFresh DEF QueueOf, Kinds, Handed
<1>1. ASSUME NEW s \in Runs, TakeLock(s) PROVE Kept
  BY <1>t, <1>r, <1>1 DEF TakeLock
<1>2. ASSUME NEW s \in Runs, PushFails(s) PROVE Kept
  BY <1>t, <1>r, <1>2 DEF PushFails, ReqGo, Fresh
<1>3. ASSUME NEW s \in Runs, Expire(s) PROVE Kept
  <2>1. Renewing("docling", r) /\ ~ Leaked(r)
    BY <1>t, <1>p DEF Renewing, Leaked
  <2>2. s = r => FALSE
    BY <1>t, <1>3, <2>1 DEF Expire
  <2> QED
    BY <1>t, <1>r, <1>3, <2>2 DEF Expire
<1>4. ASSUME NEW w \in Workers, ClaimSlot(w) \/ Beat(w) PROVE Kept
  BY <1>t, <1>r, <1>4 DEF ClaimSlot, Beat
<1>5. ASSUME NEW w \in Workers, ReleaseLocks(w) PROVE Kept
  <2>1. w = "main" /\ pc["main"] = "releasing"
    BY <1>t, <1>p, <1>5 DEF ReleaseLocks
  <2>2. job["main"].run # r
    BY <1>r, <2>1 DEF SlotInv, Unstarted
  <2> QED
    BY <1>t, <1>r, <1>5, <2>1, <2>2 DEF ReleaseLocks, OwnedBy
<1>6. ASSUME NEW j \in Jobs, Reclaim(j) PROVE Kept
  BY <1>6 DEF Reclaim, MainInv, Members
<1>7. CASE UNCHANGED <<genLock, wfLock>>
  BY <1>7
<1> HIDE DEF Kept
<1> QED
  BY <1>1, <1>2, <1>3, <1>4, <1>5, <1>6, <1>7, LockSteps

\* A parse job that finds its run replaced has not handed it on.
Replaced ==
    LET r == job["main"].run IN
    pc["main"] = "parse" /\ ~ IsCurrent(r) => Unstarted(r)

LEMMA ReplacedUnhanded ==
  ASSUME TypeInv, OnceInv, AccountInv, OwnProgress,
         FirstTime \/ OneRunEach
  PROVE  Replaced
<1> SUFFICES ASSUME pc["main"] = "parse", ~ IsCurrent(job["main"].run)
             PROVE  Unstarted(job["main"].run)
  BY DEF Replaced
<1>1. /\ job["main"].run \in Runs /\ job["main"].kind = "parse"
      /\ Id(job["main"]) = <<job["main"].kind, job["main"].run>>
  BY HandFacts DEF InHand, Workers, AccountInv
<1>2. CASE FirstTime /\ ~ OneRunEach
  BY <1>1, <1>2 DEF FirstTime, Parsing, Parses, Unstarted
<1>3. CASE OneRunEach
  <2>1. P(job["main"].run) \in Projects
    BY <1>1, S1Constants DEF P
  <2>2. progress[P(job["main"].run)].run \in {job["main"].run, NoRun}
    BY <1>1, <1>3, <2>1 DEF OwnProgress, Mine, OneRunEach
  <2> QED
    BY <2>2 DEF IsCurrent
<1> QED
  BY <1>2, <1>3

\* The main worker comes to the end of a job that gives the locks back with a
\* continuation that has ended, a lock that is lost, or a run that was replaced.
LEMMA MainGivesUp ==
  ASSUME TypeInv, OnceInv, AccountInv, MainInv, Replaced, [Next]_vars,
         "handoff" \notin Faults, pc["main"] # "ending", pc'["main"] = "ending",
         fin'["main"].release
  PROVE  LET r == job["main"].run IN
         /\ job'["main"] = job["main"] /\ InHand("main")
         /\ \/ job["main"].kind = "continue" /\ status'[<<"continue", r>>] \in Ended
            \/ genLock[P(r)] # r /\ UNCHANGED genLock
            \/ Unstarted(r) /\ pc["main"] = "parse"
<1> DEFINE r == job["main"].run
           Goal == /\ job'["main"] = job["main"] /\ InHand("main")
                   /\ \/ job["main"].kind = "continue" /\ status'[<<"continue", r>>] \in Ended
                      \/ genLock[P(r)] # r /\ UNCHANGED genLock
                      \/ Unstarted(r) /\ pc["main"] = "parse"
<1> SUFFICES Goal
  OBVIOUS
<1>t. /\ pc \in [Workers -> Pcs] /\ job \in [Workers -> Jobs \cup {NoJob}]
      /\ fin \in [Workers -> [release : BOOLEAN, raise : BOOLEAN]]
      /\ status \in [JobIds -> Statuses] /\ "main" \in Workers
  BY DEF TypeInv, TypeOK, Workers
<1>m. MainMoves
  BY MainGoes
<1>h. job'["main"] = job["main"]
  BY <1>m DEF MainMoves
<1>e. \A s : JobStatusOf(s) \in Ended
  BY DEF JobStatusOf, Ended
<1>c. ASSUME InHand("main"), job["main"].kind = "continue", NEW s \in Ended,
             SetBoth(job["main"], s)
      PROVE  Goal
  <2>1. /\ Id(job["main"]) = <<"continue", r>> /\ <<"continue", r>> \in JobIds
        /\ <<"continue", r>> # <<"parse", r>>
    BY <1>t, <1>c, HandFacts
  <2> HIDE DEF r
  <2>2. status'[<<"continue", r>>] = s
    BY <1>c, <1>t, <2>1 DEF SetBoth, r
  <2> QED
    BY <1>c, <1>h, <2>2 DEF r
<1> HIDE DEF r
<1>1. CASE Continue \/ ParseFails \/ MapOutcome
  <2>1. InHand("main") /\ job["main"].kind = "continue"
    BY <1>1 DEF Continue, ParseFails, MapOutcome, InHand, MainInv, Continues
  <2>2. \E s \in Ended : SetBoth(job["main"], s)
    <3>1. "failed" \in Ended
      BY DEF Ended
    <3> QED
      BY <1>1, <1>e, <1>t, <3>1 DEF Continue, ParseFails, MapOutcome
  <2> QED
    BY <1>c, <2>1, <2>2
<1>2. CASE LostLock
  <2>1. InHand("main") /\ UNCHANGED genLock
    BY <1>2 DEF LostLock, InHand
  <2>2. CASE genLock[P(r)] # r
    BY <1>h, <2>1, <2>2
  <2>3. CASE genLock[P(r)] = r
    <3>1. job["main"].kind = "continue"
      BY <1>2, <2>3 DEF LostLock, r
    <3>2. Id(job["main"]) = <<"continue", r>> /\ <<"continue", r>> \in JobIds
      BY <1>t, <2>1, <3>1, HandFacts DEF r
    <3>3. CASE status' = [status EXCEPT ![Id(job["main"])] = "cancelled"]
      <4>1. status'[<<"continue", r>>] = "cancelled"
        BY <1>t, <3>2, <3>3
      <4> QED
        BY <1>h, <2>1, <3>1, <4>1 DEF Ended
    <3>4. CASE \E s \in Ended : SetBoth(job["main"], s)
      BY <1>c, <2>1, <3>1, <3>4
    <3>5. "failed" \in Ended
      BY DEF Ended
    <3> QED
      BY <1>2, <1>e, <3>3, <3>4, <3>5 DEF LostLock
  <2> QED
    BY <2>2, <2>3
<1>3. CASE StartParse
  <2>1. ~ IsCurrent(r) /\ pc["main"] = "parse"
    BY <1>3, <1>t DEF StartParse, r
  <2> QED
    BY <1>h, <2>1 DEF Replaced, InHand, r
<1>4. CASE HandOff \/ HandOffFails
  <2>1. ~ HandOffFails
    BY DEF HandOffFails, Fault
  <2>2. fin'["main"] = [release |-> FALSE, raise |-> FALSE]
    BY <1>4, <1>t, <2>1 DEF HandOff, Finish
  <2>3. fin'["main"].release = FALSE
    BY <2>2
  <2> QED
    BY <2>3
<1>5. CASE Common("main") \/ Crash("main")
  <2>1. CASE \/ Recover("main") \/ Dequeue("main") \/ Begin("main") \/ EndJob("main")
             \/ ReleaseLocks("main") \/ Crash("main")
    BY <1>t, <2>1
    DEF Recover, Dequeue, Begin, EndJob, ReleaseLocks, Crash, Go, Leave, Loop
  <2>2. CASE ClaimSlot("main")
    <3>1. job["main"].kind \in Kinds
      BY <1>t, <2>2, HandFacts DEF ClaimSlot, InHand
    <3> QED
      BY <1>t, <2>2, <3>1 DEF ClaimSlot, Kinds
  <2> QED
    BY <1>5, <2>1, <2>2 DEF Common
<1>6. CASE Requeue \/ WriteStarted \/ Persist \/ Complete
  BY <1>t, <1>6 DEF Requeue, WriteStarted, Persist, Complete, Go, Leave
<1>7. CASE pc'["main"] = pc["main"]
  BY <1>7
<1> HIDE DEF Goal
<1> QED
  BY <1>1, <1>2, <1>3, <1>4, <1>5, <1>6, <1>7, OwnSteps DEF MainStep

\* A worker that stays at the end of a job does not change its mind.
LEMMA EndingStays ==
  ASSUME TypeInv, [Next]_vars, pc["main"] = "ending", pc'["main"] = "ending"
  PROVE  fin'["main"] = fin["main"]
<1>t. pc \in [Workers -> Pcs] /\ "main" \in Workers
  BY DEF TypeInv, TypeOK, Workers
<1>1. CASE MainStep \/ HandOffFails \/ Crash("main")
  BY <1>t, <1>1
  DEF MainStep, Common, Recover, Dequeue, Begin, ClaimSlot, EndJob, ReleaseLocks, Crash,
      LostLock, Requeue, StartParse, WriteStarted, HandOff, HandOffFails, Continue,
      Persist, Complete, ParseFails, MapOutcome, Go, Leave, Loop
<1> QED
  BY <1>1, OwnSteps

LEMMA StepSlot ==
  ASSUME TypeInv, OnceInv, AccountInv, LockInv, MainInv, Replaced, SlotInv, [Next]_vars,
         {"handoff", "clear"} \cap Faults = {}
  PROVE  SlotInv'
<1>t. /\ "main" \in Workers /\ "docling" \in Workers
      /\ pc \in [Workers -> Pcs] /\ queue \in [Workers -> Seq(Jobs)]
      /\ "handoff" \notin Faults /\ "clear" \notin Faults
  BY DEF TypeInv, TypeOK, Workers
<1>1. \A r \in Runs : Fresh(r)' => ~ Handed(r)'
  BY StepUnhanded DEF SlotInv
<1>2. pc'["docling"] \notin WorkPcs
  BY BatchGoes DEF SlotInv
\* The Docling worker's locks.
<1>3. ASSUME pc'["docling"] \in Batches
      PROVE  \E r :
             /\ r = job'["docling"].run
             /\ Over(r)' \/ genLock'[P(r)] = r
             /\ pc'["docling"] \in {"batch", "parsed"} => Over(r)' \/ wfLock' = r
  <2>1. PICK r : r = job["docling"].run
    OBVIOUS
  <2>2. job'["docling"].run = r /\ InHand("docling") /\ r \in Runs
    BY <1>3, <1>t, <2>1, BatchGoes, HandFacts
  <2>3. CASE Over(r)
    <3>1. Over(r)'
      BY <2>2, <2>3, OverStays
    <3> QED
      BY <2>2, <3>1
  <2>4. CASE Begin("docling")
    BY <1>t, <2>1, <2>2, <2>4 DEF Begin, Go
  <2>5. CASE ~ Over(r) /\ pc["docling"] \in Batches
    <3>1. genLock[P(r)] = r
      BY <2>1, <2>5 DEF SlotInv
    <3>2. genLock'[P(r)] = r /\ (wfLock = r => wfLock' = r)
      BY <2>1, <2>5, <3>1, BatchKeeps
    <3>3. CASE pc["docling"] \in {"batch", "parsed"}
      <4>1. wfLock = r
        BY <2>1, <2>5, <3>3 DEF SlotInv
      <4> QED
        BY <2>2, <3>2, <4>1
    <3>4. CASE ClaimSlot("docling")
      BY <2>1, <2>2, <3>2, <3>4 DEF ClaimSlot
    <3>5. CASE pc'["docling"] \notin {"batch", "parsed"}
      BY <2>2, <3>2, <3>5
    <3> QED
      BY <3>3, <3>4, <3>5, BatchGoes
  <2> QED
    BY <1>3, <2>3, <2>4, <2>5, BatchGoes
\* The main worker comes to give locks back.
<1>4. ASSUME pc'["main"] = "ending", fin'["main"].release
      PROVE  \E r :
             /\ r = job'["main"].run
             /\ ~ Fresh(r)'
             /\ \/ /\ job'["main"].kind = "continue"
                   /\ status'[<<"continue", r>>] \in Ended
                \/ genLock'[P(r)] # r \/ Unstarted(r)'
  <2>1. PICK r : r = job["main"].run
    OBVIOUS
  <2>2. job'["main"] = job["main"] /\ MainMoves
    BY <1>4, MainGoes DEF MainMoves
  <2>3. CASE pc["main"] = "ending"
    <3>1. r \in Runs /\ ~ Fresh(r) /\ ~ Fresh(r)' /\ InHand("main")
      BY <1>t, <2>1, <2>3, HandFacts, HandNotFresh, FreshMoves DEF InHand
    <3>2. UNCHANGED fin["main"]
      BY <1>4, <1>t, <2>3, EndingStays
    <3>3. CASE job["main"].kind = "continue" /\ status[<<"continue", r>>] \in Ended
      BY <2>1, <2>2, <2>3, <3>1, <3>3, EndStays
    <3>4. CASE genLock[P(r)] # r
      BY <2>1, <2>2, <3>1, <3>4, LostForGood
    <3>5. CASE Unstarted(r)
      <4>1. ~ (HandOff \/ HandOffFails)
        BY <2>3 DEF HandOff, HandOffFails
      <4>2. ~ Handed(r)'
        BY <3>1, <3>5, <4>1, HandedBegins DEF Unstarted
      <4> QED
        BY <2>1, <2>2, <3>1, <3>5, <4>2 DEF Handed, Unstarted, OneRunEach
    <3> QED
      BY <1>4, <2>1, <2>3, <3>2, <3>3, <3>4, <3>5 DEF SlotInv
  <2>4. CASE pc["main"] # "ending"
    <3>1. /\ InHand("main")
          /\ \/ job["main"].kind = "continue" /\ status'[<<"continue", r>>] \in Ended
             \/ genLock[P(r)] # r /\ UNCHANGED genLock
             \/ Unstarted(r) /\ pc["main"] = "parse"
      BY <1>4, <1>t, <2>1, <2>4, MainGivesUp
    <3>2. r \in Runs /\ ~ Fresh(r)'
      BY <1>t, <2>1, <3>1, HandFacts, HandNotFresh, FreshMoves
    <3>3. CASE Unstarted(r) /\ pc["main"] = "parse"
      <4>1. ~ (HandOff \/ HandOffFails)
        BY <3>3 DEF HandOff, HandOffFails
      <4>2. ~ Handed(r)'
        BY <3>2, <3>3, <4>1, HandedBegins DEF Unstarted
      <4> QED
        BY <2>1, <2>2, <3>2, <3>3, <4>2 DEF Handed, Unstarted, OneRunEach, Fresh
    <3> QED
      BY <2>1, <2>2, <3>1, <3>2, <3>3 DEF Fresh
  <2> QED
    BY <2>3, <2>4
\* It gives them back.
<1>5. ASSUME pc'["main"] = "releasing"
      PROVE  \E r :
             /\ r = job'["main"].run
             /\ ~ Fresh(r)'
             /\ Over(r)' \/ genLock'[P(r)] # r \/ Unstarted(r)'
  <2>1. PICK r : r = job["main"].run
    OBVIOUS
  <2>2. /\ job'["main"] = job["main"]
        /\ pc["main"] = "releasing" \/ (EndJob("main") /\ fin["main"].release)
    BY <1>5, MainGoes DEF MainMoves
  <2>3. /\ ~ Fresh(r) /\ r \in Runs
        /\ ~ (HandOff \/ HandOffFails)
        /\ Over(r)' \/ genLock[P(r)] # r \/ Unstarted(r)
    <3>1. CASE pc["main"] = "releasing"
      <4>1. r \in Runs
        BY <2>1, <3>1, <1>t, JobParts DEF TypeInv, Holding
      <4>2. ~ Fresh(r) /\ (Over(r) \/ genLock[P(r)] # r \/ Unstarted(r))
        BY <2>1, <3>1 DEF SlotInv
      <4> QED
        BY <3>1, <4>1, <4>2, OverStays DEF HandOff, HandOffFails
    <3>2. CASE EndJob("main") /\ fin["main"].release
      <4>1. /\ r \in Runs /\ pc["main"] = "ending" /\ UNCHANGED <<queue, status>>
            /\ InHand("main")
        BY <1>t, <2>1, <3>2, HandFacts DEF EndJob, InHand
      <4>2. /\ ~ Fresh(r)
            /\ \/ /\ job["main"].kind = "continue" /\ status[<<"continue", r>>] \in Ended
               \/ genLock[P(r)] # r \/ Unstarted(r)
        BY <2>1, <3>2, <4>1 DEF SlotInv
      <4>3. ASSUME job["main"].kind = "continue", status[<<"continue", r>>] \in Ended
            PROVE  Over(r)'
        <5>1. <<"continue", r>> \in IdsOf(proc["main"])
          BY <1>t, <2>1, <4>1, <4>3, HandFacts
        <5>2. <<"continue", r>> \notin IdsOf(queue["main"])
          BY <1>t, <5>1 DEF OnceInv, Apart
        <5>3. proc'["main"] = <<>>
          BY <1>t, <3>2, EndClears
        <5>4. <<"continue", r>> \notin IdsOf(proc'["main"])
          BY <5>3, EmptyIds
        <5>5. Held("main")' = IdsOf(queue'["main"]) \cup IdsOf(proc'["main"])
          BY DEF Held, IdsOf, Id
        <5> QED
          BY <4>1, <4>3, <5>2, <5>4, <5>5 DEF Over
      <4> QED
        BY <4>1, <4>2, <4>3 DEF HandOff, HandOffFails
    <3> QED
      BY <2>2, <3>1, <3>2
  <2>4. ~ Fresh(r)'
    BY <2>3, FreshMoves
  <2>5. Over(r)' \/ genLock'[P(r)] # r \/ Unstarted(r)'
    BY <2>3, LostForGood, HandedBegins DEF Unstarted, OneRunEach
  <2> QED
    BY <2>1, <2>2, <2>4, <2>5 DEF Fresh, Over, Handed, Unstarted, Held
<1> QED
  <2> USE DEF Over, Handed, Unstarted, Fresh, Held, IdsOf, Id, P
  <2>1. (LET r == job["docling"].run IN
         /\ pc["docling"] \in Batches => Over(r) \/ genLock[P(r)] = r
         /\ pc["docling"] \in {"batch", "parsed"} => Over(r) \/ wfLock = r)'
    BY <1>3 DEF Batches
  <2>2. (LET r == job["main"].run IN
         pc["main"] = "ending" /\ fin["main"].release =>
             /\ ~ Fresh(r)
             /\ \/ /\ job["main"].kind = "continue"
                   /\ status[<<"continue", r>>] \in Ended
                \/ genLock[P(r)] # r \/ Unstarted(r))'
    BY <1>4
  <2>3. (LET r == job["main"].run IN
         pc["main"] = "releasing" =>
             /\ ~ Fresh(r)
             /\ Over(r) \/ genLock[P(r)] # r \/ Unstarted(r))'
    BY <1>5
  <2> QED
    BY <1>1, <1>2, <2>1, <2>2, <2>3 DEF SlotInv

\* The invariants of the argument, and what is assumed of the faults.
SlotInvs == /\ TypeInv /\ OnceInv /\ AccountInv /\ LockInv /\ MainInv /\ OwnProgress
            /\ SlotInv
            /\ "main" \notin Faults => FirstTime

LEMMA InitSlot == Init => SlotInvs
<1> SUFFICES ASSUME Init PROVE SlotInvs
  OBVIOUS
<1>1. /\ pc["main"] = "boot" /\ pc["docling"] = "boot" /\ proc["main"] = <<>>
      /\ queue["main"] = <<>>
  BY DEF Init, Quiet, Workers
<1>2. \A r \in Runs : ~ Handed(r)
  BY JobParts DEF Init, Quiet, Handed, Kinds
<1>3. MainInv /\ SlotInv
  BY <1>1, <1>2 DEF MainInv, SlotInv, InHand, Continues, Batches, WorkPcs
<1>4. FirstTime
  BY <1>1, <1>2, EmptyIds DEF FirstTime
<1>5. OwnProgress
  BY <1>1, S1Constants DEF OwnProgress, Mine, Init, Quiet, Idle0, Readers
<1> QED
  BY <1>3, <1>4, <1>5, InitTypes, InitOnce, InitAccount, InitLock DEF SlotInvs

LEMMA StepSlots ==
  ASSUME {"handoff", "clear"} \cap Faults = {},
         "main" \notin Faults \/ OneRunEach
  PROVE  SlotInvs /\ [Next]_vars => SlotInvs'
<1> SUFFICES ASSUME SlotInvs, [Next]_vars PROVE SlotInvs'
  OBVIOUS
<1> USE DEF SlotInvs
<1>1. /\ TypeInv /\ OnceInv /\ AccountInv /\ LockInv /\ MainInv /\ OwnProgress
      /\ SlotInv
      /\ "handoff" \notin Faults /\ "clear" \notin Faults
  OBVIOUS
<1>2. TypeInv' /\ OnceInv' /\ AccountInv' /\ LockInv' /\ MainInv' /\ OwnProgress'
  BY <1>1, StepTypes, StepOnce, StepAccount, StepLock, StepMain, StepProgress
<1>3. "main" \notin Faults => FirstTime'
  BY <1>1, StepFirst DEF SlotInv
<1>4. Replaced
  BY <1>1, ReplacedUnhanded
<1>5. SlotInv'
  BY <1>1, <1>4, StepSlot
<1> QED
  BY <1>2, <1>3, <1>5

\* The two workers never work for two different open runs (the slot of
\* claim_s1_workflow_lock), but for one whose cancel was asked for, whichever process
\* dies and whatever runs out, for any number of runs: where a project is submitted
\* once, or the main worker does not die.  The rest can break it: a hand-off that is
\* reported failed although Redis has applied it, an in-flight entry that stays
\* uncleared, or a parse job delivered again that takes its run for replaced after a
\* late bind_parse_run.
THEOREM OneWorkflowAtATime ==
  ASSUME {"handoff", "clear"} \cap Faults = {},
         "main" \notin Faults \/ OneRunEach
  PROVE  Spec => []OneWorkflow
<1>1. SlotInvs => OneWorkflow
  <2> SUFFICES ASSUME SlotInvs, Working("main"), Working("docling"),
                      job["main"].run \notin cancelKey,
                      job["main"].run # job["docling"].run
               PROVE  ~ Live(job["docling"].run)
    BY DEF OneWorkflow
  <2>1. pc["main"] \in WorkPcs
    BY DEF SlotInvs, MainInv, Working, WorkPcs
  <2>2. wfLock = job["main"].run
    BY <2>1 DEF SlotInvs, LockInv
  <2>3. pc["docling"] \in {"batch", "parsed"}
    BY DEF SlotInvs, SlotInv, Working, WorkPcs
  <2>4. Over(job["docling"].run)
    BY <2>2, <2>3 DEF SlotInvs, SlotInv
  <2> QED
    BY <2>4 DEF Over, Live
<1> QED
  BY <1>1, StepSlots, InitSlot, PTL DEF Spec

-----------------------------------------------------------------------------
(* A run's lock stays with its jobs.                                       *)

Plain(j)  == Job(j.kind, j.run, FALSE)
BatchJobs == {j \in Jobs : ~ j.err}

\* The Docling worker too takes its processing list empty.  A batch has no error but
\* while its worker has the outcome in hand.
BatchInv ==
    /\ queue["docling"] \in Seq(BatchJobs) /\ proc["docling"] \in Seq(BatchJobs)
    /\ pc["docling"] \in {"idle", "releasing"} => proc["docling"] = <<>>
    /\ InHand("docling") =>
          /\ proc["docling"] = <<Plain(job["docling"])>>
          /\ pc["docling"] \notin {"parsed", "handed"} => ~ job["docling"].err

LEMMA PlainIs ==
  /\ \A j \in BatchJobs : Plain(j) = j
  /\ \A i, j \in Jobs : Id(i) = Id(j) => Plain(i) = Plain(j)
  /\ \A j \in Jobs : Plain(j) \in BatchJobs
<1>1. ASSUME NEW j \in Jobs PROVE Plain(j) \in BatchJobs
  BY <1>1, JobParts DEF Plain, BatchJobs, Jobs, Job
<1>2. ASSUME NEW j \in BatchJobs PROVE Plain(j) = j
  <2>1. PICK k \in Kinds, r \in Runs, e \in BOOLEAN :
           j = [kind |-> k, run |-> r, err |-> e]
    BY <1>2 DEF BatchJobs, Jobs
  <2>2. j.kind = k /\ j.run = r /\ e = FALSE
    BY <1>2, <2>1 DEF BatchJobs
  <2> QED
    BY <2>1, <2>2 DEF Plain, Job
<1>3. ASSUME NEW i \in Jobs, NEW j \in Jobs, Id(i) = Id(j) PROVE Plain(i) = Plain(j)
  BY <1>3 DEF Plain, Id
<1> QED
  BY <1>1, <1>2, <1>3

\* Where the Docling worker rests, and where a batch has no outcome yet.
LEMMA DoclingGoes ==
  ASSUME TypeInv, OnceInv, AccountInv, [Next]_vars
  PROVE  /\ pc'["docling"] \in {"idle", "releasing"} =>
               \/ pc["docling"] \in {"idle", "releasing"}
               \/ Recover("docling") \/ EndJob("docling")
         /\ InHand("docling")' /\ pc'["docling"] \notin {"parsed", "handed"} =>
               \/ Dequeue("docling")
               \/ CloseBatch
               \/ /\ InHand("docling") /\ pc["docling"] \notin {"parsed", "handed"}
                  /\ job'["docling"] = job["docling"]
         /\ CloseBatch => job'["docling"].err = FALSE
<1> DEFINE Rests == pc'["docling"] \in {"idle", "releasing"} =>
                       \/ pc["docling"] \in {"idle", "releasing"}
                       \/ Recover("docling") \/ EndJob("docling")
           Blank == InHand("docling")' /\ pc'["docling"] \notin {"parsed", "handed"} =>
                       \/ Dequeue("docling")
                       \/ CloseBatch
                       \/ /\ InHand("docling") /\ pc["docling"] \notin {"parsed", "handed"}
                          /\ job'["docling"] = job["docling"]
<1>t. /\ pc \in [Workers -> Pcs] /\ job \in [Workers -> Jobs \cup {NoJob}]
      /\ "docling" \in Workers
  BY DEF TypeInv, TypeOK, Workers
<1>1. CASE \/ Recover("docling") \/ Dequeue("docling") \/ Begin("docling")
           \/ EndJob("docling") \/ ReleaseLocks("docling") \/ Crash("docling")
  <2>1. Rests
    BY <1>t, <1>1
    DEF Recover, Dequeue, Begin, EndJob, ReleaseLocks, Crash, Go, Leave, Loop
  <2>2. Blank
    BY <1>t, <1>1
    DEF Recover, Dequeue, Begin, EndJob, ReleaseLocks, Crash, Go, Leave, Loop, InHand
  <2>3. ~ CloseBatch
    BY <1>t, <1>1
    DEF Recover, Dequeue, Begin, EndJob, ReleaseLocks, Crash, Go, Leave, Loop, CloseBatch,
        Finish
  <2> QED
    BY <2>1, <2>2, <2>3
<1>2. CASE ClaimSlot("docling")
  <2>1. job["docling"].kind \in Kinds /\ pc["docling"] = "claim"
    BY <1>t, <1>2, HandFacts DEF ClaimSlot, InHand
  <2> QED
    BY <1>t, <1>2, <2>1 DEF ClaimSlot, Kinds, InHand, CloseBatch
<1>3. CASE BatchLostLock \/ ParsePdfs \/ HandBack
  BY <1>t, <1>3
  DEF BatchLostLock, ParsePdfs, HandBack, CloseBatch, Go, Finish, NoProject, NoSlot,
      InHand
<1>4. CASE HandBackFails \/ BatchReportFails
  BY <1>t, <1>4
  DEF HandBackFails, BatchReportFails, NoProject, NoSlot, CloseBatch, Finish, Leave,
      InHand
<1>5. CASE CloseBatch
  <2>1. job["docling"] \in Jobs
    BY <1>t, <1>5, HandFacts DEF CloseBatch, InHand
  <2>2. [job["docling"] EXCEPT !.err = FALSE].err = FALSE
    BY <2>1 DEF Jobs
  <2>3. job'["docling"] = [job["docling"] EXCEPT !.err = FALSE]
    BY <1>t, <1>5 DEF CloseBatch
  <2> QED
    BY <1>t, <1>5, <2>2, <2>3 DEF CloseBatch, Finish
<1>6. CASE pc'["docling"] = pc["docling"] /\ job'["docling"] = job["docling"]
  BY <1>6, <1>t DEF InHand, CloseBatch, Finish
<1> QED
  BY <1>1, <1>2, <1>3, <1>4, <1>5, <1>6, OwnSteps DEF DoclingStep, Common

\* A batch is pushed without an error, and stays so in the queue.
LEMMA BatchesStay ==
  ASSUME TypeInv, OnceInv, AccountInv, BatchInv, [Next]_vars
  PROVE  queue'["docling"] \in Seq(BatchJobs)
<1>t. /\ queue \in [Workers -> Seq(Jobs)] /\ proc \in [Workers -> Seq(Jobs)]
      /\ "main" \in Workers /\ "docling" \in Workers /\ "main" # "docling"
      /\ queue["docling"] \in Seq(BatchJobs) /\ proc["docling"] \in Seq(BatchJobs)
  BY DEF TypeInv, TypeOK, Workers, BatchInv
<1> DEFINE Goal == queue'["docling"] \in Seq(BatchJobs)
<1> SUFFICES Goal
  OBVIOUS
<1>1. CASE queue'["docling"] = queue["docling"]
  BY <1>t, <1>1
<1>2. ASSUME NEW k \in Kinds, NEW r \in Runs, NEW e \in BOOLEAN, PushesNext(k, r, e)
      PROVE  Goal
  <2>1. CASE k = "docling"
    <3>1. status[<<k, r>>] = "absent" /\ status'[<<k, r>>] # "absent"
      BY <1>2 DEF PushesNext
    <3>2. (HandOff \/ HandOffFails) /\ job["main"].run = r
      BY <2>1, <3>1, HashAppears
    <3>3. \/ queue'["docling"] = queue["docling"]
          \/ queue'["docling"] = Append(queue["docling"], Job(NextStage(r), r, FALSE))
      BY <1>t, <3>2
      DEF HandOff, HandOffFails, AddInternal, AddInternalFails, QueueOf, NextStage
    <3>4. Job(NextStage(r), r, FALSE) \in BatchJobs
      BY JobParts DEF BatchJobs, NextStage, Kinds, Job
    <3>5. ASSUME NEW b \in BatchJobs PROVE Append(queue["docling"], b) \in Seq(BatchJobs)
      BY <1>t, AppendProperties
    <3> QED
      BY <1>1, <3>3, <3>4, <3>5
  <2>2. CASE k # "docling"
    BY <1>1, <1>2, <1>t, <2>2 DEF PushesNext, QueueOf
  <2> QED
    BY <2>1, <2>2
<1>3. ASSUME NEW r \in Runs, PushesParse(r) PROVE Goal
  BY <1>1, <1>3, <1>t DEF PushesParse
<1>4. ASSUME NEW w \in Workers, PutsBack(w) PROVE Goal
  <2>1. CASE w = "docling"
    <3>1. queue'["docling"] = proc["docling"] \o queue["docling"]
      BY <1>4, <1>t, <2>1 DEF PutsBack
    <3> QED
      BY <1>t, <3>1, ConcatProperties
  <2>2. CASE w # "docling"
    BY <1>1, <1>4, <1>t, <2>2 DEF PutsBack
  <2> QED
    BY <2>1, <2>2
<1>5. ASSUME NEW w \in Workers, Takes(w) PROVE Goal
  <2>1. CASE w = "docling"
    <3>1. queue["docling"] # <<>> /\ queue'["docling"] = Tail(queue["docling"])
      BY <1>5, <1>t, <2>1 DEF Takes
    <3> QED
      BY <1>t, <3>1, HeadTailProperties
  <2>2. CASE w # "docling"
    BY <1>1, <1>5, <1>t, <2>2 DEF Takes
  <2> QED
    BY <2>1, <2>2
<1>6. ASSUME NEW w \in Workers, NEW j \in Jobs, Ends(w, j) PROVE Goal
  BY <1>1, <1>6 DEF Ends
<1>7. CASE Requeue
  BY <1>1, <1>7, <1>t DEF Requeue
<1>8. UNCHANGED queue => Goal
  BY <1>1
<1> HIDE DEF Goal
<1> QED
  BY <1>2, <1>3, <1>4, <1>5, <1>6, <1>7, <1>8, ListSteps DEF ListStep

\* A batch that ends leaves the Docling worker's processing list empty.
LEMMA BatchEnds ==
  ASSUME TypeInv, OnceInv, AccountInv, BatchInv, EndJob("docling"), "clear" \notin Faults
  PROVE  proc'["docling"] = <<>>
<1> DEFINE j == job["docling"]
<1>1. j \in Jobs /\ pc["docling"] = "ending"
  BY HandFacts DEF EndJob, InHand, Workers
<1>2. ~ j.err /\ proc["docling"] = <<Plain(j)>>
  BY <1>1 DEF BatchInv, InHand
<1>3. Plain(j) = j
  BY <1>1, <1>2, PlainIs DEF BatchJobs
<1>4. proc'["docling"] = RemoveFirst(<<j>>, j)
  BY <1>2, <1>3 DEF EndJob, Fault, TypeInv, TypeOK, Workers
<1> HIDE DEF j
<1> QED
  BY <1>1, <1>4, SingleJob

LEMMA StepBatch ==
  ASSUME TypeInv, OnceInv, AccountInv, BatchInv, [Next]_vars, "clear" \notin Faults
  PROVE  BatchInv'
<1>t. /\ pc \in [Workers -> Pcs] /\ job \in [Workers -> Jobs \cup {NoJob}]
      /\ proc \in [Workers -> Seq(Jobs)] /\ "docling" \in Workers /\ "main" # "docling"
      /\ queue \in [Workers -> Seq(Jobs)]
      /\ <<>> \in Seq(BatchJobs)
  BY EmptySeq DEF TypeInv, TypeOK, Workers
<1> DEFINE Rest == pc'["docling"] \in {"idle", "releasing"} => proc'["docling"] = <<>>
           Has  == InHand("docling")' => proc'["docling"] = <<Plain(job'["docling"])>>
           Good == /\ InHand("docling")' /\ pc'["docling"] \notin {"parsed", "handed"}
                         => ~ job'["docling"].err
<1>1. queue'["docling"] \in Seq(BatchJobs)
  BY BatchesStay
\* What changes the processing list.
<1>2. \/ proc'["docling"] = proc["docling"]
      \/ Recover("docling") /\ proc'["docling"] = <<>>
      \/ Dequeue("docling")
      \/ EndJob("docling") /\ proc'["docling"] = <<>>
  <2>1. CASE UNCHANGED <<queue, proc>> \/ Requeue
    BY <1>t, <2>1 DEF Requeue
  <2>2. ASSUME NEW r \in Runs, PushesParse(r) PROVE UNCHANGED proc
    BY <2>2 DEF PushesParse
  <2>3. ASSUME NEW k \in Kinds, NEW r \in Runs, NEW e \in BOOLEAN, PushesNext(k, r, e)
        PROVE  UNCHANGED proc
    BY <2>3 DEF PushesNext
  <2>4. ASSUME NEW w \in Workers, Recover(w), PutsBack(w)
        PROVE  \/ proc'["docling"] = proc["docling"]
               \/ Recover("docling") /\ proc'["docling"] = <<>>
    BY <1>t, <2>4 DEF PutsBack
  <2>5. ASSUME NEW w \in Workers, Dequeue(w), Takes(w)
        PROVE  proc'["docling"] = proc["docling"] \/ Dequeue("docling")
    BY <1>t, <2>5 DEF Takes
  <2>6. ASSUME NEW w \in Workers, NEW j \in Jobs, Ends(w, j)
        PROVE  \/ proc'["docling"] = proc["docling"]
               \/ EndJob("docling") /\ proc'["docling"] = <<>>
    <3>1. CASE w = "docling"
      BY <2>6, <3>1, BatchEnds DEF Ends, Reclaim
    <3>2. CASE w # "docling"
      BY <1>t, <2>6, <3>2 DEF Ends
    <3> QED
      BY <3>1, <3>2
  <2> QED
    BY <2>1, <2>2, <2>3, <2>4, <2>5, <2>6, ListSteps DEF ListStep
<1>3. CASE Dequeue("docling")
  <2>1. /\ proc["docling"] = <<>> /\ pc'["docling"] = "got"
        /\ queue["docling"] # <<>>
        /\ job'["docling"] = Head(queue["docling"])
        /\ proc'["docling"] = Append(proc["docling"], Head(queue["docling"]))
    BY <1>t, <1>3 DEF Dequeue, Go, BatchInv
  <2>2. Head(queue["docling"]) \in BatchJobs
    BY <2>1, HeadTailProperties DEF BatchInv
  <2> DEFINE h == Head(queue["docling"])
  <2> HIDE DEF h
  <2>3. proc'["docling"] = <<h>> /\ job'["docling"] = h /\ h \in BatchJobs
    BY <2>1, <2>2 DEF h
  <2>4. <<h>> \in Seq(BatchJobs) /\ Plain(h) = h /\ ~ h.err
    BY <2>3, PlainIs DEF BatchJobs
  <2>5. Rest /\ Has /\ Good /\ proc'["docling"] \in Seq(BatchJobs)
    BY <2>1, <2>3, <2>4
  <2> QED
    BY <1>1, <2>5 DEF BatchInv, Plain
<1>4. CASE ~ Dequeue("docling")
  <2>1. proc'["docling"] \in Seq(BatchJobs)
    BY <1>2, <1>4, <1>t DEF BatchInv
  <2>2. Rest
    <3>1. Recover("docling") \/ EndJob("docling") => proc'["docling"] = <<>>
      BY <1>t, BatchEnds DEF Recover
    <3> QED
      BY <1>2, <1>4, <3>1, DoclingGoes DEF BatchInv
  <2>3. Has
    <3>1. ASSUME InHand("docling")'
          PROVE  /\ InHand("docling") /\ Id(job'["docling"]) = Id(job["docling"])
                 /\ proc'["docling"] = proc["docling"]
      BY <1>4, <1>t, <3>1, HandSteps
    <3>2. ASSUME InHand("docling")' PROVE job'["docling"] \in Jobs /\ job["docling"] \in Jobs
      <4>1. TypeInv'
        BY StepTypes
      <4> QED
        BY <1>t, <3>1, <3>2, <4>1 DEF TypeInv, Holding, InHand
    <3> QED
      BY <3>1, <3>2, PlainIs DEF BatchInv
  <2>4. Good
    BY <1>4, DoclingGoes DEF BatchInv
  <2> QED
    BY <1>1, <2>1, <2>2, <2>3, <2>4 DEF BatchInv, Plain
<1> QED
  BY <1>3, <1>4


\* The job whose locks the main worker is about to give back is off its lists.
DoneInv ==
    pc["main"] = "releasing" =>
        /\ Id(job["main"]) \in JobIds /\ job["main"].kind # "docling"
        /\ status[Id(job["main"])] # "absent"
        /\ Id(job["main"]) \notin Held("main")

LEMMA StepDone ==
  ASSUME TypeInv, OnceInv, AccountInv, MainInv, SlotInv, DoneInv, [Next]_vars,
         "clear" \notin Faults
  PROVE  DoneInv'
<1> SUFFICES ASSUME pc'["main"] = "releasing"
             PROVE  \E i : /\ i = Id(job'["main"]) /\ i \in JobIds
                          /\ job'["main"].kind # "docling"
                          /\ status'[i] # "absent" /\ i \notin Held("main")'
  BY DEF DoneInv, Id, Held, IdsOf
<1>t. "main" \in Workers /\ \A id \in JobIds : id = <<id[1], id[2]>>
  BY DEF Workers, JobIds
<1> DEFINE id == Id(job["main"])
<1>1. /\ job'["main"] = job["main"]
      /\ pc["main"] = "releasing" \/ EndJob("main")
  BY MainGoes DEF MainMoves
<1>2. CASE EndJob("main")
  <2>1. /\ id \in JobIds /\ job["main"].kind # "docling" /\ status[id] # "absent"
        /\ id \in IdsOf(proc["main"])
    BY <1>t, <1>2, HandFacts DEF EndJob, InHand, QueueOf
  <2>2. UNCHANGED <<queue, status>> /\ proc'["main"] = <<>>
    BY <1>2, EndClears DEF EndJob
  <2>3. id \notin IdsOf(queue["main"]) /\ id \notin IdsOf(proc'["main"])
    BY <1>t, <2>1, <2>2, EmptyIds DEF OnceInv, Apart
  <2>4. id \notin Held("main")'
    BY <2>2, <2>3 DEF Held, IdsOf, Id
  <2> QED
    BY <1>1, <2>1, <2>2, <2>4 DEF Id
<1>3. CASE pc["main"] = "releasing"
  <2>1. /\ id \in JobIds /\ job["main"].kind # "docling" /\ status[id] # "absent"
        /\ id \notin Held("main") /\ id[2] = job["main"].run
        /\ ~ Fresh(job["main"].run)
    BY <1>3 DEF DoneInv, SlotInv, Id
  <2>2. status'[id] # "absent"
    BY <2>1, HashesStay
  <2> HIDE DEF id
  <2>3. ASSUME id \in Held("main")' PROVE FALSE
    <3>1. \/ PushesParse(id[2])
          \/ \E e \in BOOLEAN : PushesNext(id[1], id[2], e)
      BY <1>t, <2>1, <2>3, ListMoves
    <3> QED
      BY <1>t, <2>1, <3>1 DEF PushesParse, PushesNext, Fresh
  <2> QED
    BY <1>1, <2>1, <2>2, <2>3 DEF Id, id
<1> QED
  BY <1>1, <1>2, <1>3

\* A job of the run is in a list; its request has taken the lock and not pushed it,
\* or a job of it is still to be done.
Busy(r)  == \E q \in Workers : \E id \in Held(q) : id[2] = r
Wants(r) == req[r] = "locked" \/ (Busy(r) /\ ~ Over(r))

HeldInv ==
    expiries = 0 =>
        \A r \in Runs : Wants(r) => genLock[P(r)] = r \/ r \in cancelKey

LEMMA BusyHasJob ==
  ASSUME TypeInv, NEW r \in Runs, HasJob(r)
  PROVE  Busy(r)
<1>1. PICK q \in Workers : \E j \in Members(queue[q]) \cup Members(proc[q]) : j.run = r
  BY DEF HasJob
<1>2. queue[q] \in Seq(Jobs) /\ proc[q] \in Seq(Jobs)
  BY <1>1 DEF TypeInv, TypeOK
<1>3. ASSUME NEW s \in Seq(Jobs), NEW j \in Members(s), j.run = r
      PROVE  \E id \in IdsOf(s) : id[2] = r
  <2>1. PICK i \in DOMAIN s : s[i] = j
    BY <1>3 DEF Members
  <2>2. Id(s[i]) \in IdsOf(s)
    BY <2>1 DEF IdsOf
  <2>3. Id(s[i])[2] = r
    BY <1>3, <2>1 DEF Id
  <2> QED
    BY <2>2, <2>3
<1>4. \/ \E id \in IdsOf(queue[q]) : id[2] = r
      \/ \E id \in IdsOf(proc[q]) : id[2] = r
  BY <1>1, <1>2, <1>3
<1> QED
  BY <1>4 DEF Busy, Held

LEMMA HandBusy ==
  ASSUME TypeInv, OnceInv, AccountInv, NEW w \in Workers, InHand(w)
  PROVE  Busy(job[w].run)
<1>1. Id(job[w]) \in Held(w) /\ Id(job[w]) = <<job[w].kind, job[w].run>>
  BY HandFacts
<1> QED
  BY <1>1 DEF Busy

\* A run comes to want its lock only when its request takes it: the jobs pushed later
\* are pushed for a run that has a job in hand.
LEMMA WantsBegins ==
  ASSUME TypeInv, OnceInv, AccountInv, [Next]_vars, NEW r \in Runs, Wants(r)'
  PROVE  \/ Wants(r)
         \/ TakeLock(r) /\ genLock'[P(r)] = r
<1>t. /\ req \in [Runs -> ReqPcs]
      /\ genLock \in [Projects -> Runs \cup {NoRun}] /\ P(r) \in Projects
  BY JobParts DEF TypeInv, TypeOK
<1>1. CASE req'[r] = "locked"
  <2>1. ASSUME NEW s \in Runs, Request(s) \/ PushFails(s) \/ ApiCrash(s)
        PROVE  req[r] = "locked" \/ TakeLock(r)
    BY <1>t, <1>1, <2>1
    DEF Request, CheckLock, ResetProgress, PushJob, BindRead, BindWrite, TakeLock,
        PushFails, ApiCrash, ReqGo
  <2>2. req[r] = "locked" \/ TakeLock(r)
    BY <1>1, <2>1, RequestSteps
  <2>3. ASSUME TakeLock(r) PROVE genLock'[P(r)] = r
    BY <1>t, <1>1, <2>3 DEF TakeLock, ReqGo
  <2> QED
    BY <2>2, <2>3 DEF Wants
<1>2. CASE req'[r] # "locked"
  <2>1. Busy(r)' /\ ~ Over(r)
    BY <1>2, OverStays DEF Wants
  <2>0. PICK q \in Workers : \E id \in Held(q)' : id[2] = r
    BY <2>1 DEF Busy
  <2>2. PICK id \in Held(q)' : id[2] = r
    BY <2>0
  <2>3. CASE id \in Held(q)
    BY <2>1, <2>2, <2>3 DEF Busy, Wants
  <2>4. CASE id \notin Held(q)
    <3>1. \/ PushesParse(r)
          \/ \E e \in BOOLEAN : PushesNext(id[1], r, e)
      BY <2>2, <2>4, ListMoves
    <3>2. CASE PushesParse(r)
      BY <3>2 DEF PushesParse, Wants
    <3>3. CASE \E e \in BOOLEAN : PushesNext(id[1], r, e)
      BY <2>1, <3>3, HandBusy DEF PushesNext, Wants
    <3> QED
      BY <3>1, <3>2, <3>3
  <2> QED
    BY <2>3, <2>4
<1> QED
  BY <1>1, <1>2

\* A run that wants its lock is not given up by its TTL before it has waited too long.
LEMMA WantedNotLeaked ==
  ASSUME TypeInv, OnceInv, AccountInv, MainInv, BatchInv, NEW r \in Runs, Wants(r)
  PROVE  ~ Leaked(r)
<1> SUFFICES ASSUME Leaked(r), Busy(r) PROVE FALSE
  BY DEF Leaked, Wants
<1>t. /\ queue \in [Workers -> Seq(Jobs)] /\ proc \in [Workers -> Seq(Jobs)]
      /\ pc \in [Workers -> Pcs]
  BY DEF TypeInv, TypeOK
<1>0. PICK q \in Workers : \E id \in Held(q) : id[2] = r
  BY DEF Busy
<1>1. PICK id \in Held(q) : id[2] = r
  BY <1>0
<1>2. ASSUME NEW s \in Seq(Jobs), id \in IdsOf(s)
      PROVE  \E j \in Members(s) : j.run = r
  <2>1. PICK i \in DOMAIN s : id = Id(s[i])
    BY <1>2 DEF IdsOf
  <2>2. s[i] \in Members(s) /\ s[i].run = r
    BY <1>1, <2>1 DEF Members, Id
  <2> QED
    BY <2>2
<1>3. id \notin IdsOf(queue[q])
  BY <1>t, <1>1, <1>2 DEF Leaked
<1>4. id \in IdsOf(proc[q]) /\ pc[q] # "boot"
  BY <1>t, <1>1, <1>2, <1>3 DEF Leaked, Held
<1>5. CASE pc[q] \in {"idle", "releasing"}
  <2>1. proc[q] = <<>>
    BY <1>5 DEF MainInv, BatchInv, Workers
  <2> QED
    BY <1>4, <2>1, EmptyIds
<1>6. CASE InHand(q)
  <2>1. proc[q] = <<job[q]>> \/ proc[q] = <<Plain(job[q])>>
    BY <1>6 DEF MainInv, BatchInv, Workers
  <2>2. job[q] \in Jobs /\ Plain(job[q]) \in Jobs
    BY <1>6, HandFacts, PlainIs DEF BatchJobs
  <2>3. id = Id(job[q]) \/ id = Id(Plain(job[q]))
    BY <1>4, <2>1, <2>2, OneId
  <2>4. job[q].run = r
    BY <1>1, <2>3 DEF Id, Plain, Job
  <2> QED
    BY <2>4 DEF Leaked
<1> QED
  BY <1>4, <1>5, <1>6 DEF InHand

\* A run that the main worker gives up before it is handed on has no other job.
LEMMA DoneNotBusy ==
  ASSUME TypeInv, OnceInv, AccountInv, DoneInv, pc["main"] = "releasing",
         NEW r \in Runs, job["main"].run = r, ~ Handed(r)
  PROVE  ~ Busy(r)
<1> SUFFICES ASSUME Busy(r) PROVE FALSE
  OBVIOUS
<1>1. PICK q \in Workers : \E id \in Held(q) : id[2] = r
  BY DEF Busy
<1>2. PICK id \in Held(q) : id[2] = r
  BY <1>1
<1>3. id \in JobIds /\ QueueOf(id[1]) = q /\ status[id] # "absent"
  BY DEF AccountInv, OnceInv
<1>4. id[1] \in Kinds /\ id = <<id[1], r>>
  BY <1>2, <1>3 DEF JobIds
<1>5. id = <<"parse", r>> /\ q = "main"
  BY <1>3, <1>4 DEF Handed, Kinds, QueueOf
<1>6. job["main"].kind \in Kinds /\ Id(job["main"]) = <<job["main"].kind, r>>
  BY DEF DoneInv, Id, JobIds
<1>7. Id(job["main"]) = <<"parse", r>>
  BY <1>6 DEF DoneInv, Handed, Kinds
<1> QED
  BY <1>5, <1>7 DEF DoneInv

\* Nobody takes the lock of a run that wants it.
LEMMA WantedStays ==
  ASSUME TypeInv, OnceInv, AccountInv, LockInv, MainInv, SlotInv, BatchInv, DoneInv,
         [Next]_vars, {"push", "clear"} \cap Faults = {},
         NEW r \in Runs, Wants(r), genLock[P(r)] = r, r \notin cancelKey, expiries' = 0
  PROVE  genLock'[P(r)] = r
<1>t. /\ genLock \in [Projects -> Runs \cup {NoRun}] /\ NoRun \notin Runs
      /\ \A s \in Runs : P(s) \in Projects
      /\ expiries \in Nat /\ "push" \notin Faults
      /\ "main" \in Workers /\ "docling" \in Workers
  BY S1Constants, JobParts DEF TypeInv, TypeOK, Workers
<1>1. ASSUME NEW s \in Runs, TakeLock(s) PROVE genLock'[P(r)] = r
  BY <1>t, <1>1 DEF TakeLock
<1>2. ASSUME NEW s \in Runs, PushFails(s) PROVE FALSE
  BY <1>t, <1>2 DEF PushFails, Fault
<1>3. ASSUME NEW s \in Runs, Expire(s) PROVE genLock'[P(r)] = r
  <2>1. Leaked(s)
    BY <1>t, <1>3 DEF Expire
  <2>2. s # r
    BY <2>1, WantedNotLeaked
  <2> QED
    BY <1>t, <1>3, <2>2 DEF Expire
<1>4. ASSUME NEW w \in Workers, ClaimSlot(w) \/ Beat(w) PROVE genLock'[P(r)] = r
  BY <1>4 DEF ClaimSlot, Beat
<1>5. ASSUME NEW w \in Workers, ReleaseLocks(w) PROVE genLock'[P(r)] = r
  <2>1. ASSUME job[w].run = r PROVE FALSE
    <3>1. CASE w = "main"
      <4>1. /\ pc["main"] = "releasing"
            /\ ~ Fresh(r) /\ (Over(r) \/ ~ Handed(r))
        BY <1>5, <2>1, <3>1 DEF ReleaseLocks, SlotInv, Unstarted
      <4>2. Busy(r) /\ ~ Handed(r)
        BY <4>1 DEF Wants, Fresh
      <4> QED
        BY <2>1, <3>1, <4>1, <4>2, DoneNotBusy
    <3>2. CASE w = "docling"
      BY <1>5, <2>1, <3>2 DEF ReleaseLocks, LockInv, GivesBack
    <3> QED
      BY <3>1, <3>2 DEF Workers
  <2> QED
    BY <1>t, <1>5, <2>1 DEF ReleaseLocks, OwnedBy
<1>6. ASSUME NEW j \in Jobs, Reclaim(j) PROVE FALSE
  <2>1. proc["main"] = <<>> /\ j \in Members(proc["main"])
    BY <1>6 DEF Reclaim, MainInv
  <2> QED
    BY <2>1 DEF Members
<1> QED
  BY <1>1, <1>2, <1>3, <1>4, <1>5, <1>6, LockSteps

LEMMA ExpiriesGrow ==
  ASSUME TypeInv, [Next]_vars
  PROVE  expiries' = 0 => expiries = 0
<1>1. ASSUME NEW r \in Runs, Request(r) \/ PushFails(r) \/ ApiCrash(r)
      PROVE  UNCHANGED expiries
  BY <1>1
  DEF Request, CheckLock, ResetProgress, TakeLock, PushJob, BindRead, BindWrite,
      PushFails, ApiCrash, bounds
<1>2. ASSUME NEW p \in Projects, CancelRead(p) \/ CancelWrite(p)
      PROVE  UNCHANGED expiries
  BY <1>2 DEF CancelRead, CancelWrite, bounds
<1>3. ASSUME NEW w \in Workers, Common(w) \/ Crash(w) \/ Beat(w)
      PROVE  UNCHANGED expiries
  BY <1>3
  DEF Common, Recover, Dequeue, Begin, ClaimSlot, EndJob, ReleaseLocks, Crash, Beat,
      bounds
<1>4. ASSUME NEW j \in Jobs, Reclaim(j) PROVE UNCHANGED expiries
  BY <1>4 DEF Reclaim, bounds
<1>5. ASSUME NEW r \in Runs, Expire(r), expiries' = 0 PROVE expiries = 0
  BY <1>5 DEF Expire, TypeInv, TypeOK
<1>6. CASE \/ LostLock \/ Requeue \/ StartParse \/ WriteStarted \/ HandOff
           \/ HandOffFails \/ Continue \/ Persist \/ Complete \/ Retry \/ ParseFails
           \/ MapOutcome
  BY <1>6
  DEF LostLock, Requeue, StartParse, WriteStarted, HandOff, HandOffFails, Continue,
      Persist, Complete, Retry, ParseFails, MapOutcome, bounds
<1>7. CASE \/ BatchLostLock \/ ParsePdfs \/ HandBack \/ CloseBatch \/ HandBackFails
           \/ BatchReportFails \/ UNCHANGED vars
  BY <1>7
  DEF BatchLostLock, ParsePdfs, HandBack, CloseBatch, HandBackFails, BatchReportFails,
      vars, bounds
<1>8. "main" \in Workers /\ "docling" \in Workers
  BY DEF Workers
<1> QED
  BY <1>1, <1>2, <1>3, <1>4, <1>5, <1>6, <1>7, <1>8 DEF Next, MainStep, DoclingStep

LEMMA StepHeld ==
  ASSUME TypeInv, OnceInv, AccountInv, LockInv, MainInv, SlotInv, BatchInv, DoneInv,
         HeldInv, [Next]_vars, {"push", "clear"} \cap Faults = {}
  PROVE  HeldInv'
<1>1. expiries' = 0 => expiries = 0
  BY ExpiriesGrow
<1>2. ASSUME expiries' = 0, NEW r \in Runs, Wants(r)', r \notin cancelKey'
      PROVE  genLock'[P(r)] = r
  <2>1. r \notin cancelKey
    BY <1>2, LockSteps
  <2>2. CASE Wants(r)
    <3>1. genLock[P(r)] = r
      BY <1>1, <1>2, <2>1, <2>2 DEF HeldInv
    <3> QED
      BY <1>2, <2>1, <2>2, <3>1, WantedStays
  <2> QED
    BY <1>2, <2>2, WantsBegins
<1> QED
  BY <1>2 DEF HeldInv, P

LEMMA InitHeld == Init => BatchInv /\ DoneInv /\ HeldInv
<1> SUFFICES ASSUME Init PROVE BatchInv /\ DoneInv /\ HeldInv
  OBVIOUS
<1>1. /\ \A q \in Workers : queue[q] = <<>> /\ proc[q] = <<>>
      /\ pc["main"] = "boot" /\ pc["docling"] = "boot" /\ "docling" \in Workers
      /\ \A r \in Runs : req[r] = "new"
  BY DEF Init, Quiet, Workers
<1>2. BatchInv /\ DoneInv
  BY <1>1, EmptySeq DEF BatchInv, DoneInv, InHand
<1>3. \A q \in Workers : Held(q) = {}
  BY <1>1, EmptyIds DEF Held
<1> QED
  BY <1>1, <1>2, <1>3 DEF HeldInv, Wants, Busy

LEMMA StepAllHeld ==
  ASSUME {"push", "handoff", "clear"} \cap Faults = {},
         "main" \notin Faults \/ OneRunEach
  PROVE  SlotInvs /\ BatchInv /\ DoneInv /\ HeldInv /\ [Next]_vars
           => (SlotInvs /\ BatchInv /\ DoneInv /\ HeldInv)'
<1> SUFFICES ASSUME SlotInvs, BatchInv, DoneInv, HeldInv, [Next]_vars
             PROVE  (SlotInvs /\ BatchInv /\ DoneInv /\ HeldInv)'
  OBVIOUS
<1>1. /\ TypeInv /\ OnceInv /\ AccountInv /\ LockInv /\ MainInv /\ SlotInv
      /\ {"push", "clear"} \cap Faults = {} /\ {"handoff", "clear"} \cap Faults = {}
  BY DEF SlotInvs
<1>2. SlotInvs'
  BY <1>1, StepSlots
<1>3. BatchInv' /\ DoneInv' /\ HeldInv'
  BY <1>1, StepBatch, StepDone, StepHeld
<1> QED
  BY <1>2, <1>3

\* A project's lock stays with its open run from the submission through both hand-offs
\* to the end: nothing on the way gives it back, lets it expire or gives it to another
\* run, whichever process dies and whatever batch is not accepted, for any number of
\* runs, as long as no lock runs out under a waiting run and no cancel of it was asked
\* for; where a project is submitted once, or the main worker does not die.  The rest
\* can break it: a parse job delivered again that takes its run for replaced, a
\* submission or a hand-off that is reported failed although Redis has applied it, or
\* an in-flight entry that stays uncleared and is reclaimed.
THEOREM LocksStayHeld ==
  ASSUME {"push", "handoff", "clear"} \cap Faults = {},
         "main" \notin Faults \/ OneRunEach
  PROVE  Spec => []LockHeld
<1> DEFINE Inv == SlotInvs /\ BatchInv /\ DoneInv /\ HeldInv
<1>1. Inv => LockHeld
  BY BusyHasJob DEF SlotInvs, HeldInv, LockHeld, Wants, Over, Live
<1>2. Inv /\ [Next]_vars => Inv'
  BY StepAllHeld
<1> QED
  BY <1>1, <1>2, InitSlot, InitHeld, PTL DEF Spec

\* What the run checks: in the scene of the crashes, the projects' locks are kept.
THEOREM SlotKeepsLocks ==
  ASSUME {"push", "handoff", "clear"} \cap Faults = {},
         "main" \notin Faults \/ OneRunEach
  PROVE  SceneSpec => []LockKept
<1> DEFINE Inv == scene = "slot" => SlotInvs /\ BatchInv /\ DoneInv /\ HeldInv
<1>1. Inv => LockKept
  BY BusyHasJob DEF SlotInvs, HeldInv, LockHeld, LockKept, Wants, Over, Live
<1>2. SceneInit => Inv
  BY InitSlot, InitHeld DEF SceneInit
<1>3. Inv /\ [SceneNext]_allVars => Inv'
  <2> SUFFICES ASSUME Inv, [SceneNext]_allVars, scene' = "slot" PROVE Inv'
    OBVIOUS
  <2>1. scene = "slot" /\ [Next]_vars
    BY DEF SceneNext, InSlot, Alone, allVars
  <2> QED
    BY <2>1, StepAllHeld
<1> QED
  BY <1>1, <1>2, <1>3, PTL DEF SceneSpec

-----------------------------------------------------------------------------
(* The life of a run.                                                      *)

\* The hash of a run's parse job is there before any other of its jobs', and not
\* before its request has pushed it.
PushedInv ==
    /\ \A id \in JobIds : status[id] # "absent" => status[<<"parse", id[2]>>] # "absent"
    /\ \A r \in Runs : Fresh(r) => status[<<"parse", r>>] = "absent"

\* A run's hashes change only while it has a job in a list, or when it is pushed.
LEMMA ReportMoves ==
  ASSUME TypeInv, OnceInv, AccountInv, [Next]_vars,
         NEW id \in JobIds, status'[id] # status[id]
  PROVE  Busy(id[2]) \/ PushesParse(id[2])
<1> DEFINE Goal  == Busy(id[2]) \/ PushesParse(id[2])
           Of(j) == {Id(j), <<"parse", j.run>>, <<"docling", j.run>>,
                     <<"continue", j.run>>}
<1> SUFFICES Goal
  OBVIOUS
<1>t. /\ status \in [JobIds -> Statuses]
      /\ "main" \in Workers /\ "docling" \in Workers
      /\ \A r \in Runs, k \in Kinds : <<k, r>> \in JobIds
      /\ "parse" \in Kinds /\ "docling" \in Kinds /\ "continue" \in Kinds
  BY JobParts DEF TypeInv, TypeOK, Workers, Kinds
<1>h. ASSUME NEW w \in Workers, InHand(w), id \in Of(job[w]) PROVE Goal
  <2>1. id[2] = job[w].run
    BY <1>h DEF Id
  <2> QED
    BY <1>h, <2>1, HandBusy
<1>1. ASSUME NEW r \in Runs, PushJob(r) \/ PushFails(r) PROVE Goal
  <2>1. id = <<"parse", r>> /\ AddParse(r)
    BY <1>t, <1>1 DEF PushJob, PushFails, AddParse
  <2>2. PushesParse(r)
    BY <1>t, <1>1, <2>1
    DEF PushJob, PushFails, PushesParse, AddParse, ReqGo, Fresh, TypeInv, TypeOK
  <2> QED
    BY <2>1, <2>2
<1>2. ASSUME NEW w \in Workers, Recover(w) PROVE Goal
  <2>1. \E j \in Members(proc[w]) : id = Id(j)
    BY <1>t, <1>2 DEF Recover
  <2>2. id \in IdsOf(proc[w])
    BY <2>1, LenProperties DEF Members, IdsOf, TypeInv, TypeOK
  <2> QED
    BY <2>2 DEF Busy, Held
<1>3. ASSUME NEW w \in Workers, Begin(w) PROVE Goal
  <2>1. id = Id(job[w]) /\ InHand(w)
    BY <1>t, <1>3 DEF Begin, Go, InHand
  <2> QED
    BY <1>h, <2>1
<1>4. ASSUME NEW w \in Workers, ClaimSlot(w) PROVE Goal
  <2>1. id = <<"parse", job[w].run>> /\ InHand(w)
    BY <1>t, <1>4 DEF ClaimSlot, InHand
  <2> QED
    BY <1>h, <2>1
<1>5. CASE \/ LostLock \/ Continue \/ ParseFails \/ MapOutcome \/ Requeue \/ StartParse
           \/ WriteStarted
  <2>1. InHand("main")
    BY <1>5
    DEF LostLock, Continue, ParseFails, MapOutcome, Requeue, StartParse, WriteStarted,
        Go, InHand
  <2>2. id \in {Id(job["main"]), <<"parse", job["main"].run>>}
    BY <1>t, <1>5
    DEF LostLock, Continue, ParseFails, MapOutcome, Requeue, StartParse, WriteStarted,
        SetBoth
  <2> QED
    BY <1>t, <1>h, <2>1, <2>2
<1>6. CASE ParsePdfs \/ CloseBatch
  <2>1. InHand("docling")
    BY <1>6 DEF ParsePdfs, CloseBatch, InHand
  <2>2. id \in {Id(job["docling"]), <<"parse", job["docling"].run>>}
    BY <1>t, <1>6 DEF ParsePdfs, CloseBatch, SetBoth
  <2> QED
    BY <1>t, <1>h, <2>1, <2>2
<1>7. ASSUME NEW j \in Jobs, Reclaim(j) PROVE Goal
  <2>1. id[2] = j.run
    BY <1>t, <1>7 DEF Reclaim, SetBoth, Id
  <2>2. Id(j) \in IdsOf(proc["main"])
    BY <1>t, <1>7, LenProperties DEF Reclaim, Members, IdsOf, TypeInv, TypeOK
  <2>3. Id(j)[2] = j.run /\ Id(j) \in Held("main")
    BY <2>2 DEF Id, Held
  <2> QED
    BY <1>t, <2>1, <2>3 DEF Busy
<1>8. CASE HandOff \/ HandOffFails
  <2> DEFINE r == job["main"].run
             k == NextStage(r)
  <2>1. InHand("main")
    BY <1>8 DEF HandOff, HandOffFails, Go, InHand
  <2>2. k \in {"docling", "continue"}
    BY DEF NextStage
  <2>3. id \in {<<"parse", r>>, <<k, r>>}
    BY <1>t, <1>8 DEF HandOff, HandOffFails, AddInternal, AddInternalFails
  <2> HIDE DEF k
  <2> QED
    BY <1>t, <1>h, <2>1, <2>2, <2>3
<1>9. CASE BatchLostLock \/ HandBack \/ HandBackFails \/ BatchReportFails
  <2> DEFINE j == job["docling"]
             r == j.run
  <2>1. InHand("docling")
    BY <1>9
    DEF BatchLostLock, HandBack, HandBackFails, BatchReportFails, NoProject, NoSlot, Go,
        InHand
  <2>2. id \in {Id(j), <<"parse", r>>, <<"continue", r>>}
    BY <1>t, <1>9
    DEF BatchLostLock, HandBack, HandBackFails, BatchReportFails, AddInternal,
        AddInternalFails
  <2> QED
    BY <1>t, <1>h, <2>1, <2>2
<1>10. ASSUME NEW r \in Runs,
              \/ CheckLock(r) \/ ResetProgress(r) \/ TakeLock(r) \/ BindRead(r)
              \/ BindWrite(r) \/ ApiCrash(r) \/ Expire(r)
       PROVE  UNCHANGED status
  BY <1>10
  DEF CheckLock, ResetProgress, TakeLock, BindRead, BindWrite, ApiCrash, Expire, redis
<1>11. ASSUME NEW p \in Projects, CancelRead(p) \/ CancelWrite(p) PROVE UNCHANGED status
  BY <1>11 DEF CancelRead, CancelWrite, redis
<1>12. ASSUME NEW w \in Workers,
              Dequeue(w) \/ EndJob(w) \/ ReleaseLocks(w) \/ Crash(w) \/ Beat(w)
       PROVE  UNCHANGED status
  BY <1>12 DEF Dequeue, EndJob, ReleaseLocks, Crash, Beat, redis
<1>13. CASE Persist \/ Complete \/ Retry \/ UNCHANGED vars
  BY <1>13 DEF Persist, Complete, Retry, vars, redis
<1> HIDE DEF Goal
<1> QED
  BY <1>t, <1>1, <1>2, <1>3, <1>4, <1>5, <1>6, <1>7, <1>8, <1>9, <1>10, <1>11, <1>12,
     <1>13
  DEF Next, Request, MainStep, DoclingStep, Common

LEMMA StepPushed ==
  ASSUME TypeInv, OnceInv, AccountInv, LockInv, PushedInv, [Next]_vars
  PROVE  PushedInv'
<1>t. \A id \in JobIds : id[2] \in Runs /\ <<"parse", id[2]>> \in JobIds
  BY JobParts DEF JobIds, Kinds
<1>1. ASSUME NEW id \in JobIds, status'[id] # "absent"
      PROVE  status'[<<"parse", id[2]>>] # "absent"
  <2>1. ASSUME status[<<"parse", id[2]>>] # "absent"
        PROVE  status'[<<"parse", id[2]>>] # "absent"
    BY <1>t, <2>1, HashesStay
  <2>2. CASE status[id] # "absent"
    BY <2>1, <2>2 DEF PushedInv
  <2>3. CASE Busy(id[2])
    <3>0. PICK q \in Workers : \E i \in Held(q) : i[2] = id[2]
      BY <2>3 DEF Busy
    <3>1. PICK i \in Held(q) : i[2] = id[2]
      BY <3>0
    <3>2. i \in JobIds /\ status[i] # "absent"
      BY DEF AccountInv, OnceInv
    <3> QED
      BY <2>1, <3>1, <3>2 DEF PushedInv
  <2>4. CASE PushesParse(id[2])
    BY <2>4 DEF PushesParse
  <2> QED
    BY <1>1, <2>2, <2>3, <2>4, ReportMoves
<1>2. ASSUME NEW r \in Runs, Fresh(r)' PROVE status'[<<"parse", r>>] = "absent"
  <2>1. Fresh(r) /\ status[<<"parse", r>>] = "absent"
    BY <1>2, FreshMoves DEF PushedInv
  <2>2. ~ Busy(r)
    BY <2>1 DEF LockInv, Busy
  <2>3. ~ PushesParse(r)
    BY <1>2 DEF PushesParse
  <2>4. <<"parse", r>> \in JobIds /\ <<"parse", r>>[2] = r
    BY JobParts DEF Kinds
  <2> QED
    BY <2>1, <2>2, <2>3, <2>4, ReportMoves
<1> QED
  BY <1>1, <1>2 DEF PushedInv

\* The ids in the lists say which runs have a job.
JobIn(Q, R, r) == \E q \in Workers : \E j \in Members(Q[q]) \cup Members(R[q]) : j.run = r
IdIn(Q, R, r)  == \E q \in Workers : \E id \in IdsOf(Q[q]) \cup IdsOf(R[q]) : id[2] = r

LEMMA HasIds ==
  ASSUME NEW Q \in [Workers -> Seq(Jobs)], NEW R \in [Workers -> Seq(Jobs)], NEW r \in Runs
  PROVE  JobIn(Q, R, r) <=> IdIn(Q, R, r)
<1>1. ASSUME NEW s \in Seq(Jobs)
      PROVE  (\E j \in Members(s) : j.run = r) <=> \E id \in IdsOf(s) : id[2] = r
  <2>1. DOMAIN s = 1..Len(s)
    BY LenProperties
  <2>2. ASSUME NEW i \in DOMAIN s PROVE Id(s[i])[2] = s[i].run
    BY DEF Id
  <2> QED
    BY <2>1, <2>2 DEF Members, IdsOf
<1>2. ASSUME NEW q \in Workers
      PROVE  (\E j \in Members(Q[q]) \cup Members(R[q]) : j.run = r)
               <=> \E id \in IdsOf(Q[q]) \cup IdsOf(R[q]) : id[2] = r
  <2>1. Q[q] \in Seq(Jobs) /\ R[q] \in Seq(Jobs)
    OBVIOUS
  <2> QED
    BY <1>1, <2>1
<1> QED
  BY <1>2 DEF JobIn, IdIn

\* One job at a time leaves a processing list for good.
LEMMA OneEnds ==
  ASSUME TypeInv, NEW v \in Workers, NEW i \in Jobs, Ends(v, i),
         NEW w \in Workers, NEW j \in Jobs, Ends(w, j)
  PROVE  i.run = j.run
<1>t. pc \in [Workers -> Pcs] /\ inflight \subseteq JobIds
  BY DEF TypeInv, TypeOK
<1>1. ASSUME NEW u \in Workers, EndJob(u)
      PROVE  /\ pc[u] = "ending" /\ pc'[u] # "ending"
             /\ \A x \in Workers \ {u} : pc'[x] = pc[x]
  BY <1>t, <1>1 DEF EndJob, Leave, Loop
<1>2. ASSUME NEW k \in Jobs, Reclaim(k)
      PROVE  Id(k) \in inflight /\ inflight' = inflight \ {Id(k)} /\ pc' = pc
  BY <1>2 DEF Reclaim, wk
<1>3. CASE EndJob(v) /\ i = job[v] /\ EndJob(w) /\ j = job[w]
  BY <1>1, <1>3
<1>4. CASE Reclaim(i) /\ Reclaim(j)
  <2>1. Id(i) = Id(j)
    BY <1>2, <1>4
  <2> QED
    BY <2>1 DEF Id
<1>5. CASE \/ EndJob(v) /\ Reclaim(j)
           \/ EndJob(w) /\ Reclaim(i)
  BY <1>1, <1>2, <1>5
<1> QED
  BY <1>3, <1>4, <1>5 DEF Ends

LEMMA ResultSteps ==
  ASSUME [Next]_vars
  PROVE  UNCHANGED result \/ Persist
<1>1. ASSUME NEW r \in Runs, Request(r) \/ PushFails(r) \/ ApiCrash(r) \/ Expire(r)
      PROVE  UNCHANGED result
  BY <1>1
  DEF Request, CheckLock, ResetProgress, TakeLock, PushJob, BindRead, BindWrite,
      PushFails, ApiCrash, Expire, db
<1>2. ASSUME NEW p \in Projects, CancelRead(p) \/ CancelWrite(p) PROVE UNCHANGED result
  BY <1>2 DEF CancelRead, CancelWrite, db
<1>3. ASSUME NEW w \in Workers, Common(w) \/ Crash(w) \/ Beat(w) PROVE UNCHANGED result
  BY <1>3
  DEF Common, Recover, Dequeue, Begin, ClaimSlot, EndJob, ReleaseLocks, Crash, Beat, db
<1>4. ASSUME NEW j \in Jobs, Reclaim(j) PROVE UNCHANGED result
  BY <1>4 DEF Reclaim, db
<1>5. CASE \/ LostLock \/ Requeue \/ StartParse \/ WriteStarted \/ HandOff
           \/ HandOffFails \/ Continue \/ Complete \/ Retry \/ ParseFails \/ MapOutcome
  BY <1>5
  DEF LostLock, Requeue, StartParse, WriteStarted, HandOff, HandOffFails, Continue,
      Complete, Retry, ParseFails, MapOutcome, db
<1>6. CASE \/ BatchLostLock \/ ParsePdfs \/ HandBack \/ CloseBatch \/ HandBackFails
           \/ BatchReportFails \/ UNCHANGED vars
  BY <1>6
  DEF BatchLostLock, ParsePdfs, HandBack, CloseBatch, HandBackFails, BatchReportFails,
      vars, db
<1>7. "main" \in Workers /\ "docling" \in Workers
  BY DEF Workers
<1> QED
  BY <1>1, <1>2, <1>3, <1>4, <1>5, <1>6, <1>7 DEF Next, MainStep, DoclingStep

\* A run comes to have a job when it is pushed, and to have none when its last job
\* leaves a processing list.
LEMMA BusyMoves ==
  ASSUME TypeInv, OnceInv, AccountInv, [Next]_vars, NEW r \in Runs
  PROVE  /\ Busy(r)' => Busy(r) \/ PushesParse(r)
         /\ Busy(r) => Busy(r)' \/ \E q \in Workers, j \in Jobs : Ends(q, j) /\ j.run = r
<1>1. ASSUME NEW q \in Workers, NEW id \in Held(q)', id[2] = r
      PROVE  Busy(r) \/ PushesParse(r)
  <2>1. CASE id \in Held(q)
    BY <1>1, <2>1 DEF Busy
  <2>2. CASE id \notin Held(q)
    <3>1. PushesParse(r) \/ \E e \in BOOLEAN : PushesNext(id[1], r, e)
      BY <1>1, <2>2, ListMoves
    <3> QED
      BY <3>1, HandBusy DEF PushesNext
  <2> QED
    BY <2>1, <2>2
<1>2. ASSUME NEW q \in Workers, NEW id \in Held(q), id[2] = r
      PROVE  Busy(r)' \/ \E j \in Jobs : Ends(q, j) /\ j.run = r
  <2>1. \/ id \in Held(q)'
        \/ \E j \in Jobs : Ends(q, j) /\ id = Id(j)
    BY ListMoves
  <2>2. CASE id \in Held(q)'
    BY <1>2, <2>2 DEF Busy
  <2>3. CASE \E j \in Jobs : Ends(q, j) /\ id = Id(j)
    BY <1>2, <2>3 DEF Id
  <2> QED
    BY <2>1, <2>2, <2>3
<1> QED
  BY <1>1, <1>2 DEF Busy

\* What a run's submitter can tell: where it stands, in the model's terms.
Stands(r) ==
    IF Busy(r) THEN "open"
    ELSE IF status[<<"parse", r>>] = "absent" THEN "new" ELSE "over"

LEMMA StandsIs ==
  ASSUME TypeInv, TypeInv', NEW r \in Runs
  PROVE  /\ PhaseOf(r) = Stands(r) /\ PhaseOf(r)' = Stands(r)'
         /\ HasJob(r)' => Busy(r)'
<1>1. /\ queue \in [Workers -> Seq(Jobs)] /\ proc \in [Workers -> Seq(Jobs)]
      /\ queue' \in [Workers -> Seq(Jobs)] /\ proc' \in [Workers -> Seq(Jobs)]
  BY DEF TypeInv, TypeOK
<1>2. /\ JobIn(queue, proc, r) <=> IdIn(queue, proc, r)
      /\ JobIn(queue', proc', r) <=> IdIn(queue', proc', r)
  BY <1>1, HasIds
<1>3. /\ HasJob(r) <=> JobIn(queue, proc, r)
      /\ HasJob(r)' <=> JobIn(queue', proc', r)
  BY DEF HasJob, JobIn
<1>4. /\ Busy(r) <=> IdIn(queue, proc, r)
      /\ Busy(r)' <=> IdIn(queue', proc', r)
  BY DEF Busy, Held, IdIn
<1> QED
  BY <1>2, <1>3, <1>4 DEF PhaseOf, Stands

\* The runs that a step may change are those with a job, and the one it pushes; one
\* that loses its last job has been settled.
LEMMA StandsMoves ==
  ASSUME TypeInv, OnceInv, AccountInv, LockInv, PushedInv, [Next]_vars, RunAccounted',
         TypeInv', NEW r \in Runs, ~ PushesParse(r)
  PROVE  /\ Stands(r) # "open" =>
               /\ Stands(r)' = Stands(r)
               /\ \A k \in Kinds : status'[<<k, r>>] = status[<<k, r>>]
         /\ Stands(r) = "open" =>
               \/ Stands(r)' = "open"
               \/ /\ Stands(r)' = "over"
                  /\ Settled(r)' \/ status'[<<"docling", r>>] = "cancelled"
                  /\ \E q \in Workers, j \in Jobs : Ends(q, j) /\ j.run = r
<1>t. \A k \in Kinds : <<k, r>> \in JobIds /\ <<k, r>>[2] = r
  BY JobParts
<1>p. "parse" \in Kinds
  BY DEF Kinds
<1>1. CASE ~ Busy(r)
  <2>1. ~ Busy(r)'
    BY <1>1, BusyMoves
  <2>2. \A k \in Kinds : status'[<<k, r>>] = status[<<k, r>>]
    BY <1>t, <1>1, ReportMoves
  <2> QED
    BY <1>1, <1>p, <2>1, <2>2 DEF Stands
<1>2. CASE Busy(r)
  <2>0. PICK q \in Workers : \E i \in Held(q) : i[2] = r
    BY <1>2 DEF Busy
  <2>1. PICK i \in Held(q) : i[2] = r
    BY <2>0
  <2>2. i \in JobIds /\ status[i] # "absent"
    BY DEF AccountInv, OnceInv
  <2>3. status'[<<"parse", r>>] # "absent"
    <3>1. status[<<"parse", r>>] # "absent"
      BY <2>1, <2>2 DEF PushedInv
    <3> QED
      BY <1>t, <1>p, <3>1, HashesStay
  <2>4. CASE Busy(r)'
    BY <1>2, <2>4 DEF Stands
  <2>5. CASE ~ Busy(r)'
    <3>1. \E w \in Workers, j \in Jobs : Ends(w, j) /\ j.run = r
      BY <1>2, <2>5, BusyMoves
    <3>2. Stands(r)' = "over" /\ Stands(r) = "open"
      BY <1>2, <2>3, <2>5 DEF Stands
    <3>3. ~ HasJob(r)'
      BY <2>5, StandsIs
    <3>4. Settled(r)' \/ status'[<<"docling", r>>] = "cancelled"
      BY <2>3, <3>3 DEF RunAccounted, Settled
    <3> QED
      BY <3>1, <3>2, <3>4
  <2> QED
    BY <2>4, <2>5
<1> QED
  BY <1>1, <1>2

\* Apart from a push, nothing gives a run its parse job.
LEMMA NoPush ==
  ASSUME TypeInv, [Next]_vars, ~ \E s \in Runs : PushJob(s) \/ PushFails(s) \/ ApiCrash(s),
         NEW r \in Runs
  PROVE  ~ PushesParse(r)
<1>1. req \in [Runs -> ReqPcs]
  BY DEF TypeInv, TypeOK
<1>2. ASSUME NEW s \in Runs,
             \/ CheckLock(s) \/ ResetProgress(s) \/ TakeLock(s) \/ BindRead(s)
             \/ BindWrite(s)
      PROVE  req[r] = "locked" => req'[r] = "locked"
  BY <1>1, <1>2 DEF CheckLock, ResetProgress, TakeLock, BindRead, BindWrite, ReqGo
<1> QED
  BY <1>2, RequestSteps DEF PushesParse, Fresh, Request

LEMMA LifeStep ==
  ASSUME TypeInv, OnceInv, AccountInv, LockInv, PushedInv, [Next]_vars, RunAccounted',
         TypeInv'
  PROVE  [Life!RunsNext]_(Life!runs)
<1> DEFINE phase   == [r \in Runs |-> PhaseOf(r)]
           report  == [r \in Runs |-> status[<<"parse", r>>]]
           Over3(r) == Settled(r) \/ status[<<"docling", r>>] = "cancelled"
           settled == [r \in Runs |-> Over3(r)]
           Same(r) == \A k \in Kinds : status'[<<k, r>>] = status[<<k, r>>]
<1>t. /\ status \in [JobIds -> Statuses] /\ status' \in [JobIds -> Statuses]
      /\ result \in [Projects -> Runs \cup {NoRun}]
      /\ \A r \in Runs, k \in Kinds : <<k, r>> \in JobIds
      /\ "main" \in Workers /\ "docling" \in Workers
      /\ "parse" \in Kinds /\ "docling" \in Kinds /\ "continue" \in Kinds
      /\ \A r \in Runs : P(r) = ProjectOf[r]
  BY JobParts DEF TypeInv, TypeOK, Workers, Kinds, P
<1>s. \A r \in Runs : PhaseOf(r) = Stands(r) /\ PhaseOf(r)' = Stands(r)'
  BY StandsIs
<1>w. /\ report' \in [Runs -> Statuses]
      /\ settled' \in [Runs -> BOOLEAN]
      /\ \A r \in Runs : Same(r) => report'[r] = report[r] /\ settled'[r] = settled[r]
  BY <1>t DEF Settled
<1>u. ASSUME UNCHANGED <<queue, proc, status>>
      PROVE  UNCHANGED <<phase, report, settled>>
  BY <1>u DEF PhaseOf, HasJob, Settled
\* A push.
<1>1. ASSUME NEW s \in Runs, PushJob(s) \/ PushFails(s)
      PROVE  Life!Submit(s) \/ UNCHANGED Life!runs
  <2>1. UNCHANGED <<proc, result>> /\ ReqGo(s, "locked", req'[s])
    BY <1>1 DEF PushJob, PushFails, ReqGo, TypeInv, TypeOK, db
  <2>2. CASE UNCHANGED <<queue, status>>
    BY <1>u, <2>1, <2>2 DEF Life!runs
  <2>3. CASE AddParse(s)
    <3>1. /\ PushesParse(s) /\ Fresh(s)
          /\ status' = [status EXCEPT ![<<"parse", s>>] = "queued"]
      BY <1>t, <1>1, <2>1, <2>3
      DEF PushJob, PushFails, PushesParse, AddParse, ReqGo, Fresh, TypeInv, TypeOK
    <3>2. Stands(s) = "new"
      BY <3>1 DEF PushedInv, LockInv, Stands, Busy
    <3>3. Stands(s)' = "open"
      <4>1. <<"parse", s>> \in Held("main")'
        BY <3>1, ListMoves
      <4> QED
        BY <1>t, <4>1 DEF Stands, Busy
    <3>4. ASSUME NEW r \in Runs \ {s} PROVE Stands(r)' = Stands(r) /\ Same(r)
      <4>1. ~ PushesParse(r)
        BY <2>1 DEF PushesParse, ReqGo, Fresh, TypeInv, TypeOK
      <4>2. ~ \E q \in Workers, j \in Jobs : Ends(q, j)
        BY <1>1 DEF Ends, EndJob, Reclaim, PushJob, PushFails, ReqGo, api, TypeInv, TypeOK
      <4>3. Same(r)
        BY <1>t, <3>1
      <4>4. Stands(r) \in {"new", "open", "over"}
        BY DEF Stands
      <4> QED
        BY <4>1, <4>2, <4>3, <4>4, StandsMoves
    <3>5. phase' = [phase EXCEPT ![s] = "open"] /\ phase[s] = "new"
      BY <1>s, <3>2, <3>3, <3>4
    <3>6. report' = [report EXCEPT ![s] = "queued"]
      BY <1>t, <3>1
    <3>7. UNCHANGED settled
      <4>1. status[<<"parse", s>>] = "absent"
        BY <3>1 DEF PushedInv
      <4>2. ASSUME NEW r \in Runs PROVE Over3(r)' = Over3(r)
        BY <1>t, <3>1, <4>1 DEF Settled, Ended
      <4> QED
        BY <4>2
    <3> QED
      BY <2>1, <3>5, <3>6, <3>7 DEF Life!Submit
  <2> QED
    BY <1>1, <2>2, <2>3 DEF PushJob, PushFails
\* The result is stored.
<1>2. CASE Persist
  <2>1. UNCHANGED <<queue, proc, status>> /\ InHand("main")
    BY <1>2 DEF Persist, InHand
  <2>2. job["main"].run \in Runs /\ Busy(job["main"].run)
    BY <1>t, <2>1, HandFacts, HandBusy
  <2>3. phase[job["main"].run] = "open"
    BY <1>s, <2>2 DEF Stands
  <2>4. \/ UNCHANGED result
        \/ result' = [result EXCEPT ![P(job["main"].run)] = job["main"].run]
    BY <1>2 DEF Persist
  <2>5. UNCHANGED Life!runs \/ Life!Store(job["main"].run)
    BY <1>t, <1>u, <2>1, <2>2, <2>3, <2>4 DEF Life!runs, Life!Store
  <2> QED
    BY <2>2, <2>5 DEF Life!RunsNext
\* The last job of a run is gone.
<1>3. ASSUME UNCHANGED result, \A r \in Runs : ~ PushesParse(r),
             NEW r \in Runs, Stands(r) = "open", Stands(r)' # "open"
      PROVE  Life!Close(r)
  <2>0. PICK q \in Workers : \E j \in Jobs : Ends(q, j) /\ j.run = r
    BY <1>3, StandsMoves
  <2>1. PICK j \in Jobs : Ends(q, j) /\ j.run = r
    BY <2>0
  <2>2. Stands(r)' = "over" /\ Over3(r)'
    BY <1>3, StandsMoves
  <2>3. ASSUME NEW s \in Runs \ {r} PROVE Stands(s)' = Stands(s)
    <3>1. ASSUME NEW w \in Workers, NEW i \in Jobs, Ends(w, i), i.run = s PROVE FALSE
      BY <2>1, <3>1, OneEnds
    <3>2. /\ Stands(s) # "open" => Stands(s)' = Stands(s)
          /\ Stands(s) = "open" =>
                \/ Stands(s)' = "open"
                \/ \E w \in Workers, i \in Jobs : Ends(w, i) /\ i.run = s
      BY <1>3, StandsMoves
    <3> QED
      BY <3>1, <3>2
  <2>4. ASSUME NEW s \in Runs \ {r} PROVE Same(s)
    <3>1. ASSUME SetBoth(j, "failed") PROVE Same(s)
      BY <1>t, <2>1, <3>1 DEF SetBoth, Id
    <3> QED
      BY <2>1, <3>1 DEF Ends, EndJob, Reclaim
  <2>5. phase' = [phase EXCEPT ![r] = "over"] /\ phase[r] = "open"
    BY <1>s, <1>3, <2>2, <2>3
  <2>6. /\ report' = [report EXCEPT ![r] = report'[r]] /\ report'[r] \in Statuses
        /\ settled' = [settled EXCEPT ![r] = TRUE]
    <3> HIDE DEF Same
    <3>1. \A s \in Runs \ {r} : report'[s] = report[s] /\ settled'[s] = settled[s]
      BY <1>w, <2>4
    <3>2. settled'[r] = TRUE
      BY <2>2
    <3> QED
      BY <1>w, <3>1, <3>2
  <2> QED
    BY <1>3, <2>5, <2>6 DEF Life!Close
\* A worker reports.
<1>4. ASSUME UNCHANGED result, \A r \in Runs : ~ PushesParse(r),
             \A r \in Runs : Stands(r) = "open" => Stands(r)' = "open"
      PROVE  Life!Work
  <2>1. ASSUME NEW r \in Runs
        PROVE  phase'[r] = phase[r] /\ (phase[r] # "open" => Same(r))
    <3>1. Stands(r)' = Stands(r) /\ (Stands(r) # "open" => Same(r))
      BY <1>4, StandsMoves
    <3> QED
      BY <1>s, <3>1
  <2> HIDE DEF Same
  <2> QED
    BY <1>w, <1>4, <2>1 DEF Life!Work
<1>5. CASE \E s \in Runs : PushJob(s) \/ PushFails(s)
  BY <1>1, <1>5 DEF Life!RunsNext
<1>6. CASE \E s \in Runs : ApiCrash(s)
  <2>1. UNCHANGED <<queue, proc, status, result>>
    BY <1>6 DEF ApiCrash, redis, db
  <2> QED
    BY <1>u, <2>1 DEF Life!runs
<1>7. CASE /\ ~ \E s \in Runs : PushJob(s) \/ PushFails(s) \/ ApiCrash(s)
           /\ ~ Persist
  <2>1. UNCHANGED result /\ \A r \in Runs : ~ PushesParse(r)
    BY <1>7, NoPush, ResultSteps
  <2> QED
    BY <1>3, <1>4, <2>1 DEF Life!RunsNext
<1> QED
  BY <1>2, <1>5, <1>6, <1>7

\* Seen by their submitters, runs do what ParseRuns says and no more, whatever crashes,
\* expires, is delivered again or reported failed (enqueue_internal_job,
\* recover_processing_jobs, reclaim_stale_inflight_jobs, execute_s1_parse_job): once a
\* run's last job has left the lists, it is settled, its status and the stored result no
\* longer change because of it, and nothing opens it again.
THEOREM RunsAreImplemented == Spec => RunsImplemented
<1> DEFINE Inv == TypeInv /\ OnceInv /\ AccountInv /\ LockInv /\ PushedInv
<1>1. Init => Life!RunsInit
  <2> SUFFICES ASSUME Init PROVE Life!RunsInit
    OBVIOUS
  <2>1. /\ \A q \in Workers : queue[q] = <<>> /\ proc[q] = <<>>
        /\ \A id \in JobIds : status[id] = "absent"
        /\ result = [p \in Projects |-> NoRun]
    BY DEF Init, Quiet
  <2>2. ASSUME NEW r \in Runs
        PROVE  /\ PhaseOf(r) = "new" /\ status[<<"parse", r>>] = "absent"
               /\ ~ (Settled(r) \/ status[<<"docling", r>>] = "cancelled")
    <3>1. ~ HasJob(r)
      BY <2>1 DEF HasJob, Members
    <3>2. \A k \in {"parse", "docling", "continue"} : status[<<k, r>>] = "absent"
      BY <2>1, JobParts DEF Kinds
    <3> QED
      BY <3>1, <3>2 DEF PhaseOf, Settled, Ended
  <2> QED
    BY <2>1, <2>2 DEF Life!RunsInit
<1>2. Init => Inv
  <2>1. Init => PushedInv
    BY JobParts DEF Init, Quiet, PushedInv, JobIds, Kinds
  <2> QED
    BY <2>1, InitTypes, InitOnce, InitAccount, InitLock
<1>3. Inv /\ [Next]_vars => Inv'
  BY StepTypes, StepOnce, StepAccount, StepLock, StepPushed
<1>4. Inv => RunAccounted
  BY Accounted
<1>5. Inv /\ Inv' /\ RunAccounted' /\ [Next]_vars => [Life!RunsNext]_(Life!runs)
  BY LifeStep
<1> QED
  BY <1>1, <1>2, <1>3, <1>4, <1>5, PTL DEF Spec, RunsImplemented, Life!RunsSpec

=============================================================================
