----------------------- MODULE MaterialCleaning_proofs -----------------------
(***************************************************************************)
(* Theorems of MaterialCleaning, for any files, number of versions, moves  *)
(* and faults.                                                             *)
(***************************************************************************)
EXTENDS MaterialCleaning, SequenceTheorems, TLAPS

-----------------------------------------------------------------------------
(* Types.                                                                  *)

LEMMA Ranges ==
  ASSUME CleaningConstants
  PROVE  /\ MaxVersion \in Nat /\ MaxVersion >= 1 /\ MaxFaults \in Nat
         /\ Versions \subseteq Keys /\ Versions \subseteq 0..MaxVersion
         /\ Versions \subseteq Nat /\ 1 \in Versions /\ Dest \in Keys
         /\ 0 \in 0..MaxVersion /\ 0 \in 0..MaxFaults
BY DEF CleaningConstants, Versions, Keys, Dest

MoveType == [pc : MovePcs, status : Statuses, cleaned : 0..MaxVersion, key : Keys]

LEMMA InitType == ASSUME CleaningConstants, Init PROVE TypeOK
<1> USE Ranges
<1>1. job \in Jobs
  <2>1. \E f \in Files : [file |-> f, ver |-> 1] \in Jobs
    BY DEF CleaningConstants, Jobs
  <2> QED
    BY <2>1 DEF Init
<1>2. NoMove \in MoveType
  BY DEF NoMove, MoveType, MovePcs, Statuses
<1>3. move \in [Files -> MoveType]
  BY <1>2 DEF Init
<1>4. queue \in Seq(Jobs) /\ locks \subseteq Jobs
  BY DEF Init
<1>5. /\ version \in [Files -> 0..MaxVersion] /\ cleaned \in [Files -> 0..MaxVersion]
      /\ status \in [Files -> Statuses] /\ key \in [Files -> Keys]
  BY DEF Init, Statuses
<1>6. /\ src \in [Files -> [Keys -> 0..MaxVersion]]
      /\ objs \in [Files -> [Versions -> 0..MaxVersion]]
      /\ warned \subseteq Files \X Versions
      /\ up \in [Files -> [Versions -> UpPcs]]
      /\ drop \in [Files -> [Versions -> 0..MaxVersion]]
  BY DEF Init, UpPcs
<1>7. /\ wpc \in WorkPcs /\ wkey \in Keys /\ got \in 0..MaxVersion
      /\ want \in Versions /\ faults \in 0..MaxFaults
  BY DEF Init, WorkPcs
<1> QED
  BY <1>1, <1>3, <1>4, <1>5, <1>6, <1>7 DEF TypeOK, MoveType

LEMMA SrcType ==
  ASSUME TypeOK, NEW f \in Files, NEW k \in Keys, NEW n \in 0..MaxVersion,
         src' = [src EXCEPT ![f][k] = n]
  PROVE  src' \in [Files -> [Keys -> 0..MaxVersion]]
<1> DEFINE R == 0..MaxVersion
<1>1. src \in [Files -> [Keys -> R]] /\ n \in R
  BY DEF TypeOK
<1> HIDE DEF R
<1>2. src' \in [Files -> [Keys -> R]]
  BY <1>1
<1> QED
  BY <1>2 DEF R

LEMMA ObjsType ==
  ASSUME TypeOK, NEW f \in Files, NEW k \in Versions, NEW n \in 0..MaxVersion,
         objs' = [objs EXCEPT ![f][k] = n]
  PROVE  objs' \in [Files -> [Versions -> 0..MaxVersion]]
<1> DEFINE R == 0..MaxVersion
<1>1. objs \in [Files -> [Versions -> R]] /\ n \in R
  BY DEF TypeOK
<1> HIDE DEF R
<1>2. objs' \in [Files -> [Versions -> R]]
  BY <1>1
<1> QED
  BY <1>2 DEF R

LEMMA DropType ==
  ASSUME TypeOK, NEW f \in Files, NEW k \in Versions, NEW n \in 0..MaxVersion,
         drop' = [drop EXCEPT ![f][k] = n]
  PROVE  drop' \in [Files -> [Versions -> 0..MaxVersion]]
<1> DEFINE R == 0..MaxVersion
<1>1. drop \in [Files -> [Versions -> R]] /\ n \in R
  BY DEF TypeOK
<1> HIDE DEF R
<1>2. drop' \in [Files -> [Versions -> R]]
  BY <1>1
<1> QED
  BY <1>2 DEF R

LEMMA FaultType ==
  ASSUME CleaningConstants, TypeOK, NEW kind, Fault(kind) \/ UNCHANGED faults
  PROVE  faults' \in 0..MaxFaults
BY DEF TypeOK, Fault, CleaningConstants

LEMMA RemoveSourceType ==
  ASSUME CleaningConstants, TypeOK, NEW f \in Files, NEW k \in Keys, RemoveSource(f, k)
  PROVE  src' \in [Files -> [Keys -> 0..MaxVersion]]
<1>1. CASE UNCHANGED src
  BY <1>1 DEF TypeOK
<1>2. CASE src' = [src EXCEPT ![f][k] = 0]
  BY <1>2, SrcType, Ranges
<1> QED
  BY <1>1, <1>2 DEF RemoveSource

\* What an upload remembers is a version.
LEMMA DropVersion ==
  ASSUME CleaningConstants, TypeOK, NEW f \in Files, NEW v \in Versions, drop[f][v] # 0
  PROVE  drop[f][v] \in Versions
<1>1. drop[f][v] \in 0..MaxVersion /\ MaxVersion \in Nat
  BY Ranges DEF TypeOK
<1> QED
  BY <1>1 DEF Versions

\* A cleaned object is gone after its removal, or it is named in the log.
LEMMA RemoveCleanedType ==
  ASSUME CleaningConstants, TypeOK, NEW f \in Files, NEW v \in Versions,
         RemoveCleaned(f, v)
  PROVE  /\ objs' \in [Files -> [Versions -> 0..MaxVersion]]
         /\ warned' \subseteq Files \X Versions /\ warned \subseteq warned'
         /\ faults' \in 0..MaxFaults
         /\ \A g \in Files : \A u \in Versions :
               g # f \/ u # v => objs'[g][u] = objs[g][u]
         /\ objs'[f][v] # 0 => /\ objs'[f][v] = objs[f][v]
                               /\ <<f, v>> \in warned'
<1>1. CASE objs' = [objs EXCEPT ![f][v] = 0] /\ UNCHANGED <<warned, faults>>
  <2>1. objs' \in [Files -> [Versions -> 0..MaxVersion]]
    BY <1>1, ObjsType, Ranges
  <2>2. objs \in [Files -> [Versions -> 0..MaxVersion]]
    BY DEF TypeOK
  <2>3. /\ objs'[f][v] = 0
        /\ \A g \in Files : \A u \in Versions :
              g # f \/ u # v => objs'[g][u] = objs[g][u]
    BY <1>1, <2>2
  <2> QED
    BY <1>1, <2>1, <2>3 DEF TypeOK
<1>2. CASE Fault("remove") /\ warned' = warned \cup {<<f, v>>} /\ UNCHANGED objs
  <2>1. faults' \in 0..MaxFaults
    BY <1>2, FaultType
  <2> QED
    BY <1>2, <2>1 DEF TypeOK
<1> QED
  BY <1>1, <1>2 DEF RemoveCleaned

LEMMA EnqueueType ==
  ASSUME TypeOK, NEW f \in Files, NEW v \in Versions, Enqueue(f, v)
  PROVE  queue' \in Seq(Jobs) /\ locks' \subseteq Jobs
<1> DEFINE j == [file |-> f, ver |-> v]
<1>1. j \in Jobs
  BY DEF Jobs
<1>2. \/ UNCHANGED <<queue, locks>>
      \/ queue' = Append(queue, j) /\ locks' = locks \cup {j}
  BY DEF Enqueue, redis
<1> HIDE DEF j
<1>3. Append(queue, j) \in Seq(Jobs)
  BY <1>1 DEF TypeOK
<1> QED
  BY <1>1, <1>2, <1>3 DEF TypeOK

LEMMA UpGoType ==
  ASSUME TypeOK, NEW f \in Files, NEW v \in Versions, NEW from, NEW to \in UpPcs,
         UpGo(f, v, from, to)
  PROVE  up' \in [Files -> [Versions -> UpPcs]]
BY DEF TypeOK, UpGo

LEMMA MoveGoType ==
  ASSUME TypeOK, NEW f \in Files, NEW from, NEW to \in MovePcs, MoveGo(f, from, to)
  PROVE  move' \in [Files -> MoveType]
<1>1. move \in [Files -> MoveType] /\ move' = [move EXCEPT ![f].pc = to]
  BY DEF TypeOK, MoveGo, MoveType
<1>2. [move[f] EXCEPT !.pc = to] \in MoveType
  BY <1>1 DEF MoveType
<1> QED
  BY <1>1, <1>2

LEMMA TypeUpload ==
  ASSUME CleaningConstants, TypeOK, NEW f \in Files,
         \/ UploadWrite(f)
         \/ \E v \in Versions : Upload(f, v) \/ ApiCrash(f, v)
  PROVE  TypeOK'
<1> USE Ranges
<1>1. CASE UploadWrite(f)
  <2> DEFINE v == version[f] + 1
  <2>1. v \in Versions
    BY <1>1 DEF UploadWrite, TypeOK, Versions
  <2>2. /\ UpGo(f, v, "idle", "written")
        /\ src' = [src EXCEPT ![f][SourceKey(v)] = v]
        /\ UNCHANGED <<row, objs, warned, drop, redis, worker, move, faults>>
    BY <1>1 DEF UploadWrite
  <2> HIDE DEF v
  <2>3. up' \in [Files -> [Versions -> UpPcs]]
    BY <2>1, <2>2, UpGoType DEF UpPcs
  <2>4. src' \in [Files -> [Keys -> 0..MaxVersion]]
    BY <2>1, <2>2 DEF TypeOK, SourceKey
  <2> QED
    BY <2>2, <2>3, <2>4 DEF TypeOK, row, redis, worker
<1>2. ASSUME NEW v \in Versions, UploadCommit(f, v) PROVE TypeOK'
  <2>1. /\ UpGo(f, v, "written", "committed")
        /\ drop' = [drop EXCEPT ![f][v] = cleaned[f]]
        /\ version' = [version EXCEPT ![f] = v]
        /\ status' = [status EXCEPT ![f] = "pending"]
        /\ cleaned' = [cleaned EXCEPT ![f] = 0]
        /\ key' = [key EXCEPT ![f] = v]
        /\ UNCHANGED <<minio, redis, worker, move, faults>>
    BY <1>2 DEF UploadCommit, SourceKey
  <2>2. up' \in [Files -> [Versions -> UpPcs]]
    BY <2>1, UpGoType DEF UpPcs
  <2>3. drop' \in [Files -> [Versions -> 0..MaxVersion]]
    BY <2>1 DEF TypeOK
  <2>4. /\ version' \in [Files -> 0..MaxVersion]
        /\ cleaned' \in [Files -> 0..MaxVersion]
        /\ status' \in [Files -> Statuses] /\ key' \in [Files -> Keys]
    BY <2>1 DEF TypeOK, Statuses
  <2> QED
    BY <2>1, <2>2, <2>3, <2>4 DEF TypeOK, minio, redis, worker
<1>3. ASSUME NEW v \in Versions, UploadFails(f, v) \/ DropOld(f, v) PROVE TypeOK'
  <2>1. \E from \in UpPcs, to \in UpPcs : UpGo(f, v, from, to)
    BY <1>3 DEF UploadFails, DropOld, UpPcs
  <2>2. up' \in [Files -> [Versions -> UpPcs]]
    BY <2>1, UpGoType
  <2>3. src' \in [Files -> [Keys -> 0..MaxVersion]]
    <3>1. CASE UploadFails(f, v)
      BY <3>1, RemoveSourceType DEF UploadFails, SourceKey
    <3>2. CASE DropOld(f, v)
      BY <3>2 DEF DropOld, TypeOK
    <3> QED
      BY <1>3, <3>1, <3>2
  <2>4. /\ objs' \in [Files -> [Versions -> 0..MaxVersion]]
        /\ warned' \subseteq Files \X Versions
        /\ faults' \in 0..MaxFaults
    <3>1. CASE UNCHANGED <<objs, warned>> /\ (Fault("upload") \/ UNCHANGED faults)
      BY <3>1, FaultType DEF TypeOK
    <3>2. CASE drop[f][v] # 0 /\ RemoveCleaned(f, drop[f][v])
      <4>1. drop[f][v] \in Versions
        BY <3>2, DropVersion
      <4> QED
        BY <3>2, <4>1, RemoveCleanedType
    <3> QED
      BY <1>3, <3>1, <3>2 DEF UploadFails, DropOld
  <2>5. drop' \in [Files -> [Versions -> 0..MaxVersion]]
    <3>1. drop' = drop \/ drop' = [drop EXCEPT ![f][v] = 0]
      BY <1>3 DEF UploadFails, DropOld
    <3>2. drop' = [drop EXCEPT ![f][v] = 0]
          => drop' \in [Files -> [Versions -> 0..MaxVersion]]
      BY DropType
    <3> QED
      BY <3>1, <3>2 DEF TypeOK
  <2>6. UNCHANGED <<row, redis, worker, move>>
    BY <1>3 DEF UploadFails, DropOld
  <2> QED
    BY <2>2, <2>3, <2>4, <2>5, <2>6 DEF TypeOK, row, redis, worker
<1>4. ASSUME NEW v \in Versions,
             UploadEnqueue(f, v) \/ UploadUnqueued(f, v) \/ ApiCrash(f, v)
      PROVE  TypeOK'
  <2>1. up' \in [Files -> [Versions -> UpPcs]]
    <3>1. CASE ApiCrash(f, v)
      BY <3>1 DEF TypeOK, ApiCrash, UpPcs
    <3>2. CASE UploadEnqueue(f, v) \/ UploadUnqueued(f, v)
      BY <3>2, UpGoType DEF UploadEnqueue, UploadUnqueued, UpPcs
    <3> QED
      BY <1>4, <3>1, <3>2
  <2>2. queue' \in Seq(Jobs) /\ locks' \subseteq Jobs
    <3>1. CASE UploadEnqueue(f, v)
      BY <3>1, EnqueueType DEF UploadEnqueue
    <3>2. CASE UploadUnqueued(f, v) \/ ApiCrash(f, v)
      BY <3>2 DEF TypeOK, UploadUnqueued, ApiCrash, redis
    <3> QED
      BY <1>4, <3>1, <3>2
  <2>3. faults' \in 0..MaxFaults
    BY <1>4, FaultType DEF UploadEnqueue, UploadUnqueued, ApiCrash
  <2>4. UNCHANGED <<row, minio, drop, worker, move>>
    BY <1>4 DEF UploadEnqueue, UploadUnqueued, ApiCrash
  <2> QED
    BY <2>1, <2>2, <2>3, <2>4 DEF TypeOK, row, minio, worker
<1> QED
  BY <1>1, <1>2, <1>3, <1>4 DEF Upload

LEMMA TypeMove ==
  ASSUME CleaningConstants, TypeOK, NEW f \in Files, Move(f)
  PROVE  TypeOK'
<1> USE Ranges
<1>1. move' \in [Files -> MoveType]
  <2>1. CASE MoveRead(f)
    <3> DEFINE m == [pc |-> "read", status |-> status[f],
                     cleaned |-> cleaned[f], key |-> key[f]]
    <3>1. m \in MoveType
      BY DEF TypeOK, MoveType, MovePcs
    <3>2. move \in [Files -> MoveType] /\ move' = [move EXCEPT ![f] = m]
      BY <2>1 DEF TypeOK, MoveRead, MoveType
    <3> HIDE DEF m
    <3> QED
      BY <3>1, <3>2
  <2>2. CASE MoveCopy(f) \/ MoveCommit(f) \/ MoveDrop(f)
    BY <2>2, MoveGoType DEF MoveCopy, MoveCommit, MoveDrop, MovePcs
  <2> QED
    BY <2>1, <2>2 DEF Move
<1>2. move[f].key \in Keys /\ move[f].status \in Statuses
      /\ move[f].cleaned \in 0..MaxVersion
  BY DEF TypeOK
<1>3. src' \in [Files -> [Keys -> 0..MaxVersion]]
  <2>1. \/ src' = src
        \/ src' = [src EXCEPT ![f][Dest] = src[f][move[f].key]]
        \/ src' = [src EXCEPT ![f][move[f].key] = 0]
    BY DEF Move, MoveRead, MoveCopy, MoveCommit, MoveDrop, RemoveSource, minio
  <2>2. src[f][move[f].key] \in 0..MaxVersion
    BY <1>2 DEF TypeOK
  <2>3. ASSUME NEW k \in Keys, NEW n \in 0..MaxVersion,
               src' = [src EXCEPT ![f][k] = n]
        PROVE  src' \in [Files -> [Keys -> 0..MaxVersion]]
    BY <2>3, SrcType
  <2>4. src' = src => src' \in [Files -> [Keys -> 0..MaxVersion]]
    BY DEF TypeOK
  <2> QED
    BY <1>2, <2>1, <2>2, <2>3, <2>4
<1>4. /\ status' \in [Files -> Statuses] /\ key' \in [Files -> Keys]
      /\ cleaned' \in [Files -> 0..MaxVersion]
  <2>1. \/ UNCHANGED <<status, key, cleaned>>
        \/ /\ key' = [key EXCEPT ![f] = Dest]
           /\ status' = [status EXCEPT ![f] = move[f].status]
           /\ cleaned' = [cleaned EXCEPT ![f] = move[f].cleaned]
    BY DEF Move, MoveRead, MoveCopy, MoveCommit, MoveDrop, row
  <2>2. CASE UNCHANGED <<status, key, cleaned>>
    BY <2>2 DEF TypeOK
  <2>3. CASE /\ key' = [key EXCEPT ![f] = Dest]
             /\ status' = [status EXCEPT ![f] = move[f].status]
             /\ cleaned' = [cleaned EXCEPT ![f] = move[f].cleaned]
    <3> DEFINE R == 0..MaxVersion
               st == move[f].status
               cl == move[f].cleaned
    <3>1. /\ status \in [Files -> Statuses] /\ key \in [Files -> Keys]
          /\ cleaned \in [Files -> R]
      BY DEF TypeOK
    <3>2. /\ st \in Statuses /\ cl \in R /\ Dest \in Keys
          /\ key' = [key EXCEPT ![f] = Dest] /\ status' = [status EXCEPT ![f] = st]
          /\ cleaned' = [cleaned EXCEPT ![f] = cl]
      BY <1>2, <2>3
    <3> HIDE DEF R, st, cl
    <3>3. /\ status' \in [Files -> Statuses] /\ key' \in [Files -> Keys]
          /\ cleaned' \in [Files -> R]
      BY <3>1, <3>2
    <3> QED
      BY <3>3 DEF R
  <2> QED
    BY <2>1, <2>2, <2>3
<1>5. UNCHANGED <<version, objs, warned, uploads, redis, worker, faults>>
  BY DEF Move, MoveRead, MoveCopy, MoveCommit, MoveDrop, row, minio
<1> QED
  BY <1>1, <1>3, <1>4, <1>5 DEF TypeOK, MoveType, uploads, redis, worker

\* What the worker may do, action by action.
LEMMA TypeWorker ==
  ASSUME CleaningConstants, TypeOK, WorkerStep \/ WorkerCrash
  PROVE  TypeOK'
<1> USE Ranges
<1>0. F \in Files /\ V \in Versions
  BY DEF TypeOK, Jobs, F, V
<1>1. UNCHANGED <<version, key, src, uploads, move>>
  BY DEF WorkerStep, WorkerCrash, Dequeue, ReadRow, MarkCleaning, Drive, MarkFailed,
         DriverRaises, UploadCleaned, MarkCleaned, MarkCleanedFails, Discard,
         RequeueRead, RequeuePush, EndJob, Release, row, minio
<1>2. wpc' \in WorkPcs
  BY DEF WorkerStep, WorkerCrash, Dequeue, ReadRow, MarkCleaning, Drive, MarkFailed,
         DriverRaises, UploadCleaned, MarkCleaned, MarkCleanedFails, Discard,
         RequeueRead, RequeuePush, EndJob, Release, Work, SetStatus, WorkPcs
<1>3. faults' \in 0..MaxFaults
  <2>1. UNCHANGED faults \/ (faults < MaxFaults /\ faults' = faults + 1)
    BY DEF WorkerStep, WorkerCrash, Dequeue, ReadRow, MarkCleaning, Drive,
         MarkFailed, DriverRaises, UploadCleaned, MarkCleaned, MarkCleanedFails,
         Discard, RequeueRead, RequeuePush, EndJob, Release, Fault, RemoveCleaned
  <2> QED
    BY <2>1 DEF TypeOK
<1>4. status' \in [Files -> Statuses] /\ cleaned' \in [Files -> 0..MaxVersion]
  <2>1. CASE MarkCleaning \/ MarkFailed \/ MarkCleaned
    <3>1. \/ status' = status
          \/ \E to \in Statuses : status' = [status EXCEPT ![F] = to]
      BY <2>1 DEF MarkCleaning, MarkFailed, MarkCleaned, SetStatus, Statuses
    <3>2. cleaned' = cleaned \/ cleaned' = [cleaned EXCEPT ![F] = V]
      BY <2>1 DEF MarkCleaning, MarkFailed, MarkCleaned, row
    <3> QED
      BY <1>0, <3>1, <3>2 DEF TypeOK
  <2>2. CASE ~ (MarkCleaning \/ MarkFailed \/ MarkCleaned)
    <3>1. UNCHANGED <<status, cleaned>>
      BY <2>2 DEF WorkerStep, WorkerCrash, Dequeue, ReadRow, Drive, DriverRaises,
           UploadCleaned, MarkCleanedFails, Discard, RequeueRead, RequeuePush,
           EndJob, Release, row
    <3> QED
      BY <3>1 DEF TypeOK
  <2> QED
    BY <2>1, <2>2
<1>5. /\ objs' \in [Files -> [Versions -> 0..MaxVersion]]
      /\ warned' \subseteq Files \X Versions
  <2>1. CASE Discard
    BY <1>0, <2>1, RemoveCleanedType DEF Discard, CleanedKey
  <2>2. CASE UploadCleaned
    <3>1. objs' = [objs EXCEPT ![F][V] = got] /\ got \in 0..MaxVersion
      BY <2>2 DEF UploadCleaned, CleanedKey, TypeOK
    <3> QED
      BY <1>0, <2>2, <3>1, ObjsType DEF UploadCleaned, TypeOK
  <2>3. CASE ~ (Discard \/ UploadCleaned)
    <3>1. UNCHANGED <<objs, warned>>
      BY <2>3 DEF WorkerStep, WorkerCrash, Dequeue, ReadRow, MarkCleaning, Drive,
           MarkFailed, DriverRaises, MarkCleaned, MarkCleanedFails, RequeueRead,
           RequeuePush, EndJob, Release, minio
    <3> QED
      BY <3>1 DEF TypeOK
  <2> QED
    BY <2>1, <2>2, <2>3
<1>6. /\ wkey' \in Keys /\ got' \in 0..MaxVersion
  <2>1. /\ wkey' \in {wkey, key[F]} /\ got' \in {got, src[F][wkey]}
    BY DEF WorkerStep, WorkerCrash, Dequeue, ReadRow, MarkCleaning, Drive,
         MarkFailed, DriverRaises, UploadCleaned, MarkCleaned, MarkCleanedFails,
         Discard, RequeueRead, RequeuePush, EndJob, Release, worker
  <2>2. key[F] \in Keys /\ src[F][wkey] \in 0..MaxVersion
    BY <1>0 DEF TypeOK
  <2> QED
    BY <2>1, <2>2 DEF TypeOK
<1>7. want' \in Versions
  <2>1. want' = want \/ (want' = version[F] /\ version[F] > V)
    BY DEF WorkerStep, WorkerCrash, Dequeue, ReadRow, MarkCleaning, Drive,
         MarkFailed, DriverRaises, UploadCleaned, MarkCleaned, MarkCleanedFails,
         Discard, RequeueRead, RequeuePush, EndJob, Release, worker
  <2> QED
    BY <1>0, <2>1 DEF TypeOK, Versions
<1>8. job' \in Jobs /\ queue' \in Seq(Jobs) /\ locks' \subseteq Jobs
  <2>1. CASE Dequeue
    BY <2>1 DEF TypeOK, Dequeue
  <2>2. CASE RequeuePush
    BY <1>0, <2>2, EnqueueType DEF TypeOK, RequeuePush
  <2>3. CASE WorkerCrash
    <3>1. <<job>> \in Seq(Jobs)
      BY DEF TypeOK
    <3>2. <<job>> \o queue \in Seq(Jobs)
      BY <3>1, ConcatProperties DEF TypeOK
    <3> QED
      BY <2>3, <3>2 DEF TypeOK, WorkerCrash
  <2>4. CASE ~ (Dequeue \/ RequeuePush \/ WorkerCrash)
    <3>1. UNCHANGED <<job, queue>> /\ locks' \subseteq locks
      BY <2>4 DEF WorkerStep, ReadRow, MarkCleaning, Drive, MarkFailed, DriverRaises,
           UploadCleaned, MarkCleaned, MarkCleanedFails, Discard, RequeueRead,
           EndJob, Release, redis
    <3> QED
      BY <3>1 DEF TypeOK
  <2> QED
    BY <2>1, <2>2, <2>3, <2>4
<1> QED
  BY <1>1, <1>2, <1>3, <1>4, <1>5, <1>6, <1>7, <1>8 DEF TypeOK, uploads

LEMMA TypeStep == ASSUME CleaningConstants, TypeOK, [Next]_vars PROVE TypeOK'
<1>1. CASE UNCHANGED vars
  BY <1>1 DEF vars, row, minio, uploads, redis, worker, TypeOK
<1> QED
  BY <1>1, TypeUpload, TypeMove, TypeWorker DEF Next

\* Every reachable state is well typed.
THEOREM TypeCorrect == ASSUME CleaningConstants PROVE Spec => []TypeOK
BY InitType, TypeStep, PTL DEF Spec

-----------------------------------------------------------------------------
(* The inductive invariant.                                                *)

\* The jobs for a version the file has had.
Known == {j \in Jobs : j.ver <= version[j.file]}

\* An open upload is of the next version, an ended one of an earlier one, and what
\* it removes is older than the row.
UploadInv(f) ==
    /\ \A v \in Versions : up[f][v] = "written" => v = version[f] + 1
    /\ \A v \in Versions :
          up[f][v] \notin {"idle", "written"} => v <= version[f]
    /\ \A v \in Versions : drop[f][v] # 0 => drop[f][v] < version[f]

\* There is an artefact of the row's version.
Artifact(f) == version[f] \in Versions /\ objs[f][version[f]] # 0

\* The row and the copy a move writes back name no later version, and not the
\* row's unless its artefact is there.
RowInv(f) ==
    /\ cleaned[f] <= version[f] /\ move[f].cleaned <= version[f]
    /\ version[f] # 0 /\ cleaned[f] = version[f] => Artifact(f)
    /\ version[f] # 0 /\ move[f].cleaned = version[f] => Artifact(f)

\* The worker's job and the one it will enqueue are known, it discards only an
\* overwritten version's artefact, as the database refuses nothing, and has stored
\* the one it will name.
WorkInv ==
    /\ queue \in Seq(Known)
    /\ wpc # "idle" => job \in Known
    /\ wpc = "requeue" => want <= version[F]
    /\ wpc = "discard" => V < version[F]
    /\ wpc # "compensate"
    /\ wpc = "uploaded" /\ V = version[F] => Artifact(F)

Structure == WorkInv /\ \A f \in Files : UploadInv(f) /\ RowInv(f)

LEMMA InitStructure == ASSUME CleaningConstants, Init PROVE Structure
<1>1. \A f \in Files : UploadInv(f) /\ RowInv(f)
  <2> TAKE f \in Files
  <2>1. version[f] = 0 /\ cleaned[f] = 0 /\ move[f].cleaned = 0
    BY DEF Init, NoMove
  <2>2. \A v \in Versions : up[f][v] = "idle" /\ drop[f][v] = 0
    BY DEF Init
  <2> QED
    BY <2>1, <2>2 DEF UploadInv, RowInv
<1>2. WorkInv
  BY DEF Init, WorkInv
<1> QED
  BY <1>1, <1>2 DEF Structure

LEMMA RowTypes ==
  ASSUME CleaningConstants, TypeOK, NEW f \in Files
  PROVE  /\ version[f] \in Nat /\ cleaned[f] \in Nat /\ move[f].cleaned \in Nat
         /\ version[f] # 0 => version[f] \in Versions
         /\ \A v \in Versions : drop[f][v] \in Nat /\ v \in Nat /\ v > 0
<1>1. MaxVersion \in Nat
  BY Ranges
<1>2. /\ version[f] \in 0..MaxVersion /\ cleaned[f] \in 0..MaxVersion
      /\ \A v \in Versions : drop[f][v] \in 0..MaxVersion
  BY DEF TypeOK
<1>3. move[f].cleaned \in 0..MaxVersion
  BY DEF TypeOK
<1> QED
  BY <1>1, <1>2, <1>3 DEF Versions

LEMMA JobTypes ==
  ASSUME CleaningConstants, TypeOK
  PROVE  /\ F \in Files /\ V \in Versions /\ V \in Nat /\ V > 0 /\ want \in Nat
         /\ \A j \in Jobs : j.file \in Files /\ j.ver \in Nat
<1>1. MaxVersion \in Nat /\ \A v \in Versions : v \in Nat /\ v > 0
  BY Ranges DEF Versions
<1>2. \A j \in Jobs : j.file \in Files /\ j.ver \in Versions
  BY DEF Jobs
<1>3. job \in Jobs /\ want \in Versions
  BY DEF TypeOK
<1> QED
  BY <1>1, <1>2, <1>3 DEF F, V

\* A step that neither lowers a version nor touches the worker or the queue, and
\* keeps the artefact of a version that stays the row's.
LEMMA WorkKept ==
  ASSUME CleaningConstants, TypeOK, TypeOK', WorkInv,
         UNCHANGED worker, queue' \in Seq(Known'),
         \A f \in Files : version[f] <= version'[f],
         \A f \in Files : version'[f] = version[f] /\ Artifact(f) => Artifact(f)'
  PROVE  WorkInv'
<1>1. /\ F \in Files /\ V \in Nat /\ want \in Nat /\ version[F] \in Nat
      /\ version'[F] \in Nat /\ F' = F /\ V' = V
      /\ UNCHANGED <<wpc, job, want>>
  <2>1. UNCHANGED <<wpc, job, want>> /\ F' = F /\ V' = V
    BY DEF worker, F, V
  <2>2. F \in Files /\ V \in Nat /\ want \in Nat
    BY JobTypes
  <2>3. version[F] \in Nat
    BY <2>2, RowTypes
  <2>4. version'[F] \in 0..MaxVersion /\ MaxVersion \in Nat
    BY <2>2, Ranges DEF TypeOK
  <2> QED
    BY <2>1, <2>2, <2>3, <2>4
<1>2. job \in Known => job \in Known'
  BY <1>1 DEF Known, F, V
<1>3. wpc # "idle" => V <= version[F]
  BY DEF WorkInv, Known, F, V
<1> QED
  BY <1>1, <1>2, <1>3 DEF WorkInv

LEMMA SeqKnown ==
  ASSUME CleaningConstants, TypeOK, TypeOK', NEW s \in Seq(Known),
         \A f \in Files : version[f] <= version'[f]
  PROVE  s \in Seq(Known')
<1>1. Known \subseteq Known'
  <2>1. MaxVersion \in Nat /\ version' \in [Files -> 0..MaxVersion]
    BY Ranges DEF TypeOK
  <2> QED
    BY <2>1, JobTypes, RowTypes DEF Known
<1> DEFINE A == Known
           B == Known'
<1>2. s \in Seq(A) /\ A \subseteq B
  BY <1>1
<1> HIDE DEF A, B
<1>3. s \in Seq(B)
  BY <1>2
<1> QED
  BY <1>3 DEF B

LEMMA EnqueueKnown ==
  ASSUME CleaningConstants, TypeOK, NEW f \in Files, NEW v \in Versions,
         v <= version[f], queue \in Seq(Known), Enqueue(f, v)
  PROVE  queue' \in Seq(Known)
<1> DEFINE j == [file |-> f, ver |-> v]
<1>1. j \in Known
  BY DEF Known, Jobs
<1>2. queue' = queue \/ queue' = Append(queue, j)
  BY DEF Enqueue, redis
<1> HIDE DEF j
<1> QED
  BY <1>1, <1>2

-----------------------------------------------------------------------------
(* The steps.                                                              *)

LEMMA StepUpload ==
  ASSUME CleaningConstants, TypeOK, TypeOK', Structure, NEW f \in Files,
         \/ UploadWrite(f)
         \/ \E v \in Versions : Upload(f, v) \/ ApiCrash(f, v)
  PROVE  Structure'
<1> USE RowTypes
<1>0. WorkInv /\ \A g \in Files : UploadInv(g) /\ RowInv(g)
  BY DEF Structure
<1>1. CASE UploadWrite(f)
  <2>1. /\ up' = [up EXCEPT ![f][version[f] + 1] = "written"]
        /\ UNCHANGED <<row, objs, warned, drop, redis, worker, move>>
    BY <1>1 DEF UploadWrite, UpGo
  <2>2. \A g \in Files : UploadInv(g)'
    BY <1>0, <2>1 DEF UploadInv, row, TypeOK
  <2>3. \A g \in Files : RowInv(g)'
    BY <1>0, <2>1 DEF RowInv, Artifact, row
  <2>4. WorkInv'
    <3>1. queue' \in Seq(Known')
      BY <1>0, <2>1 DEF WorkInv, Known, row, redis
    <3> QED
      BY <1>0, <2>1, <3>1, WorkKept DEF row, Artifact
  <2> QED
    BY <2>2, <2>3, <2>4 DEF Structure
<1>2. ASSUME NEW v \in Versions, UploadCommit(f, v) PROVE Structure'
  <2>1. /\ up[f][v] = "written" /\ up' = [up EXCEPT ![f][v] = "committed"]
        /\ drop' = [drop EXCEPT ![f][v] = cleaned[f]]
        /\ version' = [version EXCEPT ![f] = v]
        /\ cleaned' = [cleaned EXCEPT ![f] = 0]
        /\ UNCHANGED <<objs, redis, worker, move>>
    BY <1>2 DEF UploadCommit, UpGo, minio
  <2>2. v = version[f] + 1 /\ version'[f] = v /\ cleaned'[f] = 0
        /\ \A g \in Files \ {f} : /\ version'[g] = version[g]
                                  /\ cleaned'[g] = cleaned[g]
                                  /\ up'[g] = up[g] /\ drop'[g] = drop[g]
    BY <1>0, <2>1 DEF UploadInv, TypeOK
  <2>3. \A u \in Versions : /\ u # v => up'[f][u] = up[f][u] /\ drop'[f][u] = drop[f][u]
                            /\ u = v => up'[f][u] = "committed"
                                        /\ drop'[f][u] = cleaned[f]
    BY <2>1 DEF TypeOK
  <2>4. UploadInv(f)'
    <3>1. cleaned[f] < v /\ version[f] < v /\ version[f] + 1 = v
      BY <1>0, <2>2 DEF RowInv
    <3>2. \A u \in Versions : up'[f][u] # "written"
      BY <1>0, <2>2, <2>3 DEF UploadInv
    <3>3. \A u \in Versions : up'[f][u] \notin {"idle", "written"} => u <= v
      BY <1>0, <2>3, <3>1 DEF UploadInv
    <3>4. \A u \in Versions : drop'[f][u] # 0 => drop'[f][u] < v
      BY <1>0, <2>3, <3>1 DEF UploadInv
    <3> QED
      BY <2>2, <3>2, <3>3, <3>4 DEF UploadInv
  <2>5. RowInv(f)'
    <3>1. version'[f] # 0 /\ cleaned'[f] # version'[f] /\ cleaned'[f] <= version'[f]
      BY <2>2
    <3>2. move'[f].cleaned < version'[f]
      BY <1>0, <2>1, <2>2 DEF RowInv
    <3>3. move'[f].cleaned \in Nat /\ version'[f] \in Nat
      BY <2>1, <2>2
    <3> QED
      BY <3>1, <3>2, <3>3 DEF RowInv
  <2>6. \A g \in Files \ {f} : UploadInv(g)' /\ RowInv(g)'
    BY <1>0, <2>1, <2>2 DEF UploadInv, RowInv, Artifact
  <2>7. WorkInv'
    <3>1. \A g \in Files : version[g] <= version'[g]
      BY <2>2
    <3>2. queue' \in Seq(Known')
      BY <1>0, <2>1, <3>1, SeqKnown DEF WorkInv, redis
    <3>3. \A g \in Files : version'[g] = version[g] /\ Artifact(g) => Artifact(g)'
      BY <2>1 DEF Artifact
    <3> QED
      BY <1>0, <2>1, <3>1, <3>2, <3>3, WorkKept
  <2> QED
    BY <2>4, <2>5, <2>6, <2>7 DEF Structure
<1>3. ASSUME NEW v \in Versions,
             \/ UploadFails(f, v) \/ DropOld(f, v) \/ UploadEnqueue(f, v)
             \/ UploadUnqueued(f, v) \/ ApiCrash(f, v)
      PROVE  Structure'
  <2>1. /\ \/ /\ up[f][v] = "written" /\ up' = [up EXCEPT ![f][v] = "idle"]
           \/ /\ up[f][v] \in {"committed", "dropped"}
              /\ \E p \in {"dropped", "done"} : up' = [up EXCEPT ![f][v] = p]
        /\ UNCHANGED <<row, worker, move>>
    BY <1>3 DEF UploadFails, DropOld, UploadEnqueue, UploadUnqueued, ApiCrash, UpGo
  <2>2. drop' = drop \/ drop' = [drop EXCEPT ![f][v] = 0]
    BY <1>3 DEF UploadFails, DropOld, UploadEnqueue, UploadUnqueued, ApiCrash
  <2>3. \A g \in Files : UploadInv(g)'
    <3> TAKE g \in Files
    <3>0. /\ up \in [Files -> [Versions -> UpPcs]]
          /\ \A u \in Versions : g # f \/ u # v => up'[g][u] = up[g][u]
          /\ \/ up[f][v] = "written" /\ up'[f][v] = "idle"
             \/ up[f][v] \notin {"idle", "written"} /\ up'[f][v] # "written"
      <4>1. up \in [Files -> [Versions -> UpPcs]]
        BY DEF TypeOK
      <4>2. PICK p : up' = [up EXCEPT ![f][v] = p]
        BY <2>1
      <4>3. /\ up'[f][v] = p
            /\ \A u \in Versions : g # f \/ u # v => up'[g][u] = up[g][u]
        BY <4>1, <4>2
      <4>4. \/ up[f][v] = "written" /\ p = "idle"
            \/ up[f][v] \notin {"idle", "written"} /\ p # "written"
        BY <2>1, <4>1, <4>2
      <4> QED
        BY <4>1, <4>3, <4>4
    <3>1. \A u \in Versions : up'[g][u] = "written" => up[g][u] = "written"
      BY <3>0
    <3>2. \A u \in Versions : up'[g][u] \notin {"idle", "written"}
                              => up[g][u] \notin {"idle", "written"}
      BY <3>0
    <3>3. \A u \in Versions : drop'[g][u] \in {0, drop[g][u]}
      <4>1. drop \in [Files -> [Versions -> 0..MaxVersion]]
        BY DEF TypeOK
      <4> QED
        BY <2>2, <4>1
    <3>4. version' = version
      BY <2>1 DEF row
    <3> QED
      BY <1>0, <3>1, <3>2, <3>3, <3>4 DEF UploadInv
  <2>4. \A g \in Files : Artifact(g) => Artifact(g)'
    <3>1. CASE DropOld(f, v)
      <4>1. CASE UNCHANGED objs
        BY <2>1, <4>1 DEF Artifact, row
      <4>2. CASE drop[f][v] # 0 /\ RemoveCleaned(f, drop[f][v])
        <5>1. drop[f][v] < version[f] /\ drop[f][v] \in Versions
          BY <1>0, <4>2, DropVersion DEF UploadInv
        <5>2. \A g \in Files : \A u \in Versions :
                 g # f \/ u # drop[f][v] => objs'[g][u] = objs[g][u]
          BY <4>2, <5>1, RemoveCleanedType
        <5>3. version' = version /\ version[f] # drop[f][v]
          BY <2>1, <5>1 DEF row
        <5> QED
          BY <5>2, <5>3 DEF Artifact
      <4> QED
        BY <3>1, <4>1, <4>2 DEF DropOld
    <3>2. CASE UNCHANGED objs
      BY <2>1, <3>2 DEF Artifact, row
    <3> QED
      BY <1>3, <3>1, <3>2
         DEF UploadFails, UploadEnqueue, UploadUnqueued, ApiCrash, minio
  <2>5. \A g \in Files : RowInv(g)'
    BY <1>0, <2>1, <2>4 DEF RowInv, row
  <2>6. WorkInv'
    <3>1. Known' = Known /\ version' = version
      BY <2>1 DEF Known, row
    <3>2. queue' \in Seq(Known)
      <4>1. CASE UploadEnqueue(f, v)
        <5>1. v <= version[f]
          BY <1>0, <4>1 DEF UploadEnqueue, UpGo, UploadInv
        <5> QED
          BY <1>0, <4>1, <5>1, EnqueueKnown DEF UploadEnqueue, WorkInv
      <4>2. CASE UNCHANGED queue
        BY <1>0, <4>2 DEF WorkInv
      <4> QED
        BY <1>3, <4>1, <4>2
           DEF UploadFails, DropOld, UploadUnqueued, ApiCrash, redis
    <3>3. \A g \in Files : version[g] <= version'[g]
      BY <3>1
    <3> QED
      BY <1>0, <2>1, <2>4, <3>1, <3>2, <3>3, WorkKept
  <2> QED
    BY <2>3, <2>5, <2>6 DEF Structure
<1> QED
  BY <1>1, <1>2, <1>3 DEF Upload

LEMMA StepMove ==
  ASSUME CleaningConstants, TypeOK, TypeOK', Structure, NEW f \in Files, Move(f)
  PROVE  Structure'
<1> USE RowTypes
<1>0. WorkInv /\ \A g \in Files : UploadInv(g) /\ RowInv(g)
  BY DEF Structure
<1>1. UNCHANGED <<version, objs, uploads, redis, worker>>
  BY DEF Move, MoveRead, MoveCopy, MoveCommit, MoveDrop, row, minio
<1>2. /\ move'[f].cleaned \in {move[f].cleaned, cleaned[f]}
      /\ \A g \in Files \ {f} : move'[g] = move[g]
  <2>1. CASE MoveRead(f)
    BY <2>1 DEF MoveRead, TypeOK
  <2>2. CASE MoveCopy(f) \/ MoveCommit(f) \/ MoveDrop(f)
    <3>1. PICK p : move' = [move EXCEPT ![f].pc = p]
      BY <2>2 DEF MoveCopy, MoveCommit, MoveDrop, MoveGo
    <3>2. move \in [Files -> MoveType]
      BY DEF TypeOK, MoveType
    <3>3. /\ move'[f] = [move[f] EXCEPT !.pc = p]
          /\ \A g \in Files \ {f} : move'[g] = move[g]
      BY <3>1, <3>2
    <3>4. move'[f].cleaned = move[f].cleaned
      BY <3>2, <3>3 DEF MoveType
    <3> QED
      BY <3>3, <3>4
  <2> QED
    BY <2>1, <2>2 DEF Move
<1>3. \A g \in Files : cleaned'[g] \in {cleaned[g], move[g].cleaned}
  <2>1. cleaned' = cleaned \/ cleaned' = [cleaned EXCEPT ![f] = move[f].cleaned]
    BY DEF Move, MoveRead, MoveCopy, MoveCommit, MoveDrop, row
  <2> QED
    BY <2>1 DEF TypeOK
<1>4. \A g \in Files : UploadInv(g)'
  BY <1>0, <1>1 DEF UploadInv, uploads
<1>5. \A g \in Files : Artifact(g)' = Artifact(g)
  BY <1>1 DEF Artifact
<1>6. \A g \in Files : RowInv(g)'
  <2> TAKE g \in Files
  <2>1. move'[g].cleaned \in {move[g].cleaned, cleaned[g]}
    BY <1>2
  <2> QED
    BY <1>0, <1>1, <1>3, <1>5, <2>1 DEF RowInv
<1>7. WorkInv'
  <2>1. queue' \in Seq(Known')
    BY <1>0, <1>1 DEF WorkInv, Known, redis
  <2> QED
    BY <1>0, <1>1, <1>5, <2>1, WorkKept
<1> QED
  BY <1>4, <1>6, <1>7 DEF Structure

\* The worker's steps that change neither its job nor the queue.
LEMMA StepCleaning ==
  ASSUME CleaningConstants, "db" \notin Faults, TypeOK, TypeOK', Structure,
         \/ ReadRow \/ MarkCleaning \/ Drive \/ MarkFailed \/ DriverRaises
         \/ UploadCleaned \/ MarkCleaned \/ MarkCleanedFails \/ Discard
         \/ RequeueRead \/ EndJob \/ Release
  PROVE  Structure'
<1> USE RowTypes, JobTypes
<1>0. WorkInv /\ \A g \in Files : UploadInv(g) /\ RowInv(g)
  BY DEF Structure
<1>1. /\ UNCHANGED <<version, uploads, queue, job, move>> /\ wpc # "idle"
      /\ F' = F /\ V' = V
  BY DEF ReadRow, MarkCleaning, Drive, MarkFailed, DriverRaises, UploadCleaned,
         MarkCleaned, MarkCleanedFails, Discard, RequeueRead, EndJob, Release, row,
         redis, worker, Work, F, V
<1>2. \A g \in Files : UploadInv(g)'
  BY <1>0, <1>1 DEF UploadInv, uploads
<1>3. \A g \in Files : Artifact(g) => Artifact(g)'
  <2>1. CASE UploadCleaned
    BY <1>1, <2>1 DEF UploadCleaned, CleanedKey, Artifact, TypeOK
  <2>2. CASE Discard
    <3>1. V < version[F] /\ RemoveCleaned(F, V)
      BY <1>0, <2>2 DEF Discard, Work, CleanedKey, WorkInv
    <3>2. \A g \in Files : \A u \in Versions :
             g # F \/ u # V => objs'[g][u] = objs[g][u]
      BY <3>1, RemoveCleanedType
    <3> QED
      BY <1>1, <3>1, <3>2 DEF Artifact
  <2>3. CASE UNCHANGED objs
    BY <1>1, <2>3 DEF Artifact
  <2> QED
    BY <2>1, <2>2, <2>3
       DEF ReadRow, MarkCleaning, Drive, MarkFailed, DriverRaises, MarkCleaned,
           MarkCleanedFails, RequeueRead, EndJob, Release, minio
<1>4. \A g \in Files : \/ cleaned'[g] = cleaned[g]
                       \/ cleaned'[g] = version[g] /\ Artifact(g)
  <2>1. CASE MarkCleaned /\ OnRow(F, V)
    <3>1. V = version[F] /\ Artifact(F) /\ cleaned' = [cleaned EXCEPT ![F] = V]
      BY <1>0, <2>1 DEF MarkCleaned, OnRow, Current, WorkInv
    <3> QED
      BY <3>1 DEF TypeOK
  <2>2. CASE ~ (MarkCleaned /\ OnRow(F, V))
    <3>1. cleaned' = cleaned
      BY <2>2 DEF ReadRow, MarkCleaning, Drive, MarkFailed, DriverRaises,
         UploadCleaned, MarkCleaned, MarkCleanedFails, Discard, RequeueRead, EndJob,
         Release, row
    <3> QED
      BY <3>1
  <2> QED
    BY <2>1, <2>2
<1>5. \A g \in Files : RowInv(g)'
  BY <1>0, <1>1, <1>3, <1>4 DEF RowInv
<1>6. WorkInv'
  <2>1. Known' = Known
    BY <1>1 DEF Known
  <2>2. wpc' = "requeue" => want' <= version[F]
    BY <1>1 DEF ReadRow, MarkCleaning, Drive, MarkFailed, DriverRaises,
         UploadCleaned, MarkCleaned, MarkCleanedFails, Discard, RequeueRead, EndJob,
         Release, Work, SetStatus
  <2>3. wpc' = "discard" => V < version[F]
    <3>1. wpc' = "discard" => version[F] # V
      BY DEF ReadRow, MarkCleaning, Drive, MarkFailed, DriverRaises, UploadCleaned,
         MarkCleaned, MarkCleanedFails, Discard, RequeueRead, EndJob, Release, Work,
         SetStatus, OnRow, Current
    <3>2. V <= version[F]
      BY <1>0, <1>1 DEF WorkInv, Known, F, V
    <3> QED
      BY <3>1, <3>2
  <2>4. wpc' = "uploaded" /\ V = version[F] => Artifact(F)'
    <3>1. wpc' = "uploaded" => UploadCleaned
      BY DEF ReadRow, MarkCleaning, Drive, MarkFailed, DriverRaises, MarkCleaned,
         MarkCleanedFails, Discard, RequeueRead, EndJob, Release, Work, SetStatus
    <3>2. UploadCleaned => objs' = [objs EXCEPT ![F][V] = got] /\ got # 0
      BY DEF UploadCleaned, CleanedKey
    <3>3. objs \in [Files -> [Versions -> 0..MaxVersion]]
      BY DEF TypeOK
    <3> QED
      BY <1>1, <3>1, <3>2, <3>3 DEF Artifact
  <2>5. wpc' # "compensate"
    BY DEF ReadRow, MarkCleaning, Drive, MarkFailed, DriverRaises, UploadCleaned,
         MarkCleaned, MarkCleanedFails, Discard, RequeueRead, EndJob, Release, Work,
         SetStatus, Fault
  <2> QED
    BY <1>0, <1>1, <2>1, <2>2, <2>3, <2>4, <2>5 DEF WorkInv
<1> QED
  BY <1>2, <1>5, <1>6 DEF Structure

LEMMA StepJob ==
  ASSUME CleaningConstants, TypeOK, TypeOK', Structure,
         Dequeue \/ RequeuePush \/ WorkerCrash
  PROVE  Structure'
<1> USE RowTypes, JobTypes
<1>0. WorkInv /\ \A g \in Files : UploadInv(g) /\ RowInv(g)
  BY DEF Structure
<1>1. UNCHANGED <<row, minio, uploads, move>>
  BY DEF Dequeue, RequeuePush, WorkerCrash
<1>2. \A g \in Files : UploadInv(g)' /\ RowInv(g)'
  BY <1>0, <1>1 DEF UploadInv, RowInv, Artifact, row, minio, uploads
<1>3. Known' = Known
  BY <1>1 DEF Known, row
<1>4. WorkInv'
  <2>1. CASE Dequeue
    <3> DEFINE K == Known
    <3>1. queue \in Seq(K) /\ queue # <<>>
      BY <1>0, <2>1 DEF WorkInv, Dequeue
    <3> HIDE DEF K
    <3>2. Head(queue) \in K /\ Tail(queue) \in Seq(K)
      BY <3>1
    <3>3. job' \in Known /\ queue' \in Seq(Known) /\ wpc' = "taken"
      BY <2>1, <3>2 DEF Dequeue, Work, K
    <3> QED
      BY <1>3, <3>3 DEF WorkInv
  <2>2. CASE RequeuePush
    <3>1. /\ wpc = "requeue" /\ wpc' = "finish" /\ Enqueue(F, want)
          /\ job' = job
      BY <2>2 DEF RequeuePush, Work
    <3>2. queue' \in Seq(Known)
      BY <1>0, <3>1, EnqueueKnown DEF WorkInv, TypeOK
    <3> QED
      BY <1>0, <1>3, <3>1, <3>2 DEF WorkInv
  <2>3. CASE WorkerCrash
    <3>1. /\ wpc # "idle" /\ wpc' = "idle"
          /\ queue' = queue \/ queue' = <<job>> \o queue
      BY <2>3 DEF WorkerCrash
    <3> DEFINE K == Known
    <3>2. queue \in Seq(K) /\ job \in K
      BY <1>0, <3>1 DEF WorkInv
    <3> HIDE DEF K
    <3>3. <<job>> \in Seq(K)
      BY <3>2
    <3>4. queue' \in Seq(K)
      BY <3>1, <3>2, <3>3, ConcatProperties
    <3> QED
      BY <1>3, <3>1, <3>4 DEF WorkInv, K
  <2> QED
    BY <2>1, <2>2, <2>3
<1> QED
  BY <1>2, <1>4 DEF Structure

LEMMA StructureStep ==
  ASSUME CleaningConstants, "db" \notin Faults, TypeOK, Structure, [Next]_vars
  PROVE  Structure'
<1>0. TypeOK'
  BY TypeStep
<1>1. CASE UNCHANGED vars
  BY <1>1 DEF vars, row, minio, uploads, redis, worker, Structure, WorkInv,
              UploadInv, RowInv, Artifact, Known, F, V
<1>2. CASE WorkerStep \/ WorkerCrash
  BY <1>0, <1>2, StepCleaning, StepJob DEF WorkerStep
<1>3. CASE \E f \in Files :
             \/ UploadWrite(f)
             \/ Move(f)
             \/ \E v \in Versions : Upload(f, v) \/ ApiCrash(f, v)
  BY <1>0, <1>3, StepUpload, StepMove
<1> QED
  BY <1>1, <1>2, <1>3 DEF Next

\* The artefact the row names as current is there, whatever uploads, moves, late
\* cleanings and crashes come together, as long as the database refuses no write of
\* a cleaned artefact: the object such a refusal removes may be one that an earlier
\* cleaning of the same version stored (_run_cleaning).
THEOREM UsableIsThere ==
  ASSUME CleaningConstants, "db" \notin Faults PROVE Spec => []UsableArtifactKept
<1>1. Init => TypeOK /\ Structure
  BY InitType, InitStructure
<1>2. TypeOK /\ Structure /\ [Next]_vars => (TypeOK /\ Structure)'
  BY TypeStep, StructureStep
<1>3. Structure => UsableArtifactKept
  BY DEF Structure, RowInv, Artifact, UsableArtifactKept
<1> QED
  BY <1>1, <1>2, <1>3, PTL DEF Spec
-----------------------------------------------------------------------------
(* Nothing is left behind.                                                 *)

\* A source object holds the version it is named for, and the row its own; the
\* cleaning at work reads and has read the version of its job.
SourceInv ==
    /\ \A f \in Files : \A v \in Versions : src[f][v] \in {0, v}
    /\ \A f \in Files : version[f] # 0 => key[f] = version[f]
    /\ wpc \in {"read", "cleaning"} => wkey = V
    /\ wpc \in {"driven", "uploaded"} => got \in {0, V}

\* The worker has stored a cleaned object that it has still to name or to remove.
Storing(f, v) == wpc \in {"uploaded", "compensate", "discard"} /\ F = f /\ V = v

Owned(f, v) ==
    \/ cleaned[f] = v
    \/ Storing(f, v)
    \/ \E u \in Versions : drop[f][u] = v
    \/ <<f, v>> \in warned

\* The row names its own version or none, an upload remembers an old artefact only
\* until it removes it, and what there is has an owner or is named in the log.
OwnerInv ==
    \A f \in Files :
        /\ cleaned[f] \in {0, version[f]}
        /\ \A v \in Versions : drop[f][v] # 0 => up[f][v] = "committed"
        /\ \A v \in Versions :
              objs[f][v] # 0 => objs[f][v] = v /\ Owned(f, v)

OrphanInv == SourceInv /\ OwnerInv

LEMMA InitOrphan == ASSUME CleaningConstants, Init PROVE OrphanInv
<1>1. Versions \subseteq Keys
  BY Ranges
<1> QED
  BY <1>1 DEF Init, OrphanInv, SourceInv, OwnerInv

LEMMA OrphanUpload ==
  ASSUME CleaningConstants, "api" \notin Faults, TypeOK, OrphanInv, NEW f \in Files,
         \/ UploadWrite(f)
         \/ \E v \in Versions : Upload(f, v) \/ ApiCrash(f, v)
  PROVE  OrphanInv'
<1>t. /\ F \in Files /\ V \in Versions /\ Versions \subseteq Keys
      /\ \A v \in Versions : v \in Nat /\ v # 0
      /\ version[f] \in Nat /\ 0 \notin Versions
      /\ F' = F /\ V' = V /\ UNCHANGED worker
  BY Ranges, JobTypes, RowTypes
  DEF UploadWrite, Upload, UploadCommit, UploadFails, DropOld, UploadEnqueue,
      UploadUnqueued, ApiCrash, worker, F, V, Versions
<1>w. UNCHANGED <<wpc, wkey, got>> /\ \A g, v : Storing(g, v)' = Storing(g, v)
  BY <1>t DEF worker, Storing
\* An upload that has nothing to remove may go anywhere.
<1>d. ASSUME NEW x \in Versions, NEW to, up[f][x] # "committed",
             up' = [up EXCEPT ![f][x] = to], UNCHANGED drop
      PROVE  \A g \in Files : \A v \in Versions :
                drop'[g][v] # 0 => up'[g][v] = "committed"
  BY <1>d DEF OrphanInv, OwnerInv, TypeOK
<1>1. CASE UploadWrite(f)
  <2>1. /\ version[f] + 1 \in Versions
        /\ up' = [up EXCEPT ![f][version[f] + 1] = "written"]
        /\ up[f][version[f] + 1] = "idle"
        /\ src' = [src EXCEPT ![f][version[f] + 1] = version[f] + 1]
        /\ UNCHANGED <<version, cleaned, key, objs, warned, drop>>
    <3>1. version[f] + 1 \in Versions
      BY <1>1, <1>t, Ranges DEF UploadWrite, Versions
    <3> QED
      BY <1>1, <3>1 DEF UploadWrite, UpGo, SourceKey, row
  <2>2. SourceInv'
    BY <1>t, <1>w, <2>1 DEF OrphanInv, SourceInv, TypeOK
  <2>3. OwnerInv'
    BY <1>d, <1>w, <2>1 DEF OrphanInv, OwnerInv, Owned
  <2> QED
    BY <2>2, <2>3 DEF OrphanInv
<1>2. ASSUME NEW v \in Versions, UploadCommit(f, v) PROVE OrphanInv'
  <2>1. /\ up[f][v] = "written" /\ up' = [up EXCEPT ![f][v] = "committed"]
        /\ drop' = [drop EXCEPT ![f][v] = cleaned[f]]
        /\ version' = [version EXCEPT ![f] = v]
        /\ cleaned' = [cleaned EXCEPT ![f] = 0]
        /\ key' = [key EXCEPT ![f] = v]
        /\ UNCHANGED <<src, objs, warned>>
    BY <1>2 DEF UploadCommit, UpGo, SourceKey, minio
  <2>2. SourceInv'
    BY <1>w, <1>t, <2>1 DEF OrphanInv, SourceInv, TypeOK
  <2>3. drop[f][v] = 0
    BY <2>1 DEF OrphanInv, OwnerInv
  <2>4. ASSUME NEW g \in Files, NEW u \in Versions, objs'[g][u] # 0
        PROVE  objs'[g][u] = u /\ Owned(g, u)'
    <3>1. objs[g][u] = u /\ Owned(g, u)
      BY <2>1, <2>4 DEF OrphanInv, OwnerInv
    <3>2. CASE cleaned[g] = u
      <4>1. CASE g = f
        <5>1. drop'[f][v] = cleaned[f]
          BY <2>1 DEF TypeOK
        <5> QED
          BY <3>1, <3>2, <4>1, <5>1, <2>1 DEF Owned
      <4>2. CASE g # f
        BY <3>1, <3>2, <4>2, <2>1 DEF Owned, TypeOK
      <4> QED
        BY <4>1, <4>2
    <3>3. CASE Storing(g, u) \/ <<g, u>> \in warned
      BY <1>w, <2>1, <3>1, <3>3 DEF Owned
    <3>4. ASSUME NEW x \in Versions, drop[g][x] = u PROVE Owned(g, u)'
      <4>1. drop'[g][x] = u
        BY <1>t, <2>1, <2>3, <3>4 DEF TypeOK
      <4> QED
        BY <4>1 DEF Owned
    <3> QED
      BY <2>1, <3>1, <3>2, <3>3, <3>4 DEF Owned
  <2>5. ASSUME NEW g \in Files
        PROVE  /\ cleaned'[g] \in {0, version'[g]}
               /\ \A u \in Versions : drop'[g][u] # 0 => up'[g][u] = "committed"
    <3>1. cleaned'[g] \in {0, version'[g]}
      BY <2>1 DEF OrphanInv, OwnerInv, TypeOK
    <3>2. ASSUME NEW u \in Versions, drop'[g][u] # 0 PROVE up'[g][u] = "committed"
      <4>1. g = f /\ u = v => up'[g][u] = "committed"
        BY <2>1 DEF TypeOK
      <4>2. ~ (g = f /\ u = v) => drop'[g][u] = drop[g][u] /\ up'[g][u] = up[g][u]
        BY <2>1 DEF TypeOK
      <4> QED
        BY <3>2, <4>1, <4>2 DEF OrphanInv, OwnerInv
    <3> QED
      BY <3>1, <3>2
  <2> QED
    BY <2>2, <2>4, <2>5 DEF OrphanInv, OwnerInv
<1>3. ASSUME NEW v \in Versions, UploadFails(f, v) PROVE OrphanInv'
  <2>1. /\ up[f][v] = "written" /\ up' = [up EXCEPT ![f][v] = "idle"]
        /\ src' = [src EXCEPT ![f][v] = 0] \/ src' = src
        /\ UNCHANGED <<version, cleaned, key, objs, warned, drop>>
    BY <1>3 DEF UploadFails, UpGo, RemoveSource, SourceKey, row
  <2>2. \A g \in Files : \A u \in Versions : src'[g][u] \in {0, src[g][u]}
    <3>1. CASE src' = [src EXCEPT ![f][v] = 0]
      <4>1. src \in [Files -> [Keys -> 0..MaxVersion]]
        BY DEF TypeOK
      <4>2. \A g \in Files : \A u \in Keys :
               src'[g][u] = IF g = f /\ u = v THEN 0 ELSE src[g][u]
        BY <3>1, <4>1
      <4> QED
        BY <1>t, <4>2
    <3>2. CASE src' = src
      BY <3>2
    <3> QED
      BY <2>1, <3>1, <3>2
  <2>3. SourceInv'
    BY <1>t, <1>w, <2>1, <2>2 DEF OrphanInv, SourceInv
  <2>4. OwnerInv'
    BY <1>d, <1>w, <2>1 DEF OrphanInv, OwnerInv, Owned
  <2> QED
    BY <2>3, <2>4 DEF OrphanInv
<1>4. ASSUME NEW v \in Versions, DropOld(f, v) PROVE OrphanInv'
  <2>1. /\ up' = [up EXCEPT ![f][v] = "dropped"]
        /\ drop' = [drop EXCEPT ![f][v] = 0]
        /\ UNCHANGED <<version, cleaned, key, src>>
        /\ \/ drop[f][v] = 0 /\ UNCHANGED <<objs, warned>>
           \/ drop[f][v] # 0 /\ RemoveCleaned(f, drop[f][v])
    BY <1>4 DEF DropOld, UpGo, row
  <2>2. SourceInv'
    BY <1>w, <1>t, <2>1 DEF OrphanInv, SourceInv
  <2>3. /\ warned \subseteq warned'
        /\ \A g \in Files : \A u \in Versions : objs'[g][u] # 0 =>
              /\ objs'[g][u] = objs[g][u]
              /\ g = f /\ u = drop[f][v] => <<g, u>> \in warned'
    <3>1. CASE drop[f][v] = 0 /\ UNCHANGED <<objs, warned>>
      BY <1>t, <3>1
    <3>2. CASE drop[f][v] # 0 /\ RemoveCleaned(f, drop[f][v])
      <4>1. drop[f][v] \in Versions
        BY <3>2, DropVersion
      <4>2. /\ warned \subseteq warned'
            /\ \A g \in Files : \A u \in Versions :
                  g # f \/ u # drop[f][v] => objs'[g][u] = objs[g][u]
            /\ objs'[f][drop[f][v]] # 0 =>
                  /\ objs'[f][drop[f][v]] = objs[f][drop[f][v]]
                  /\ <<f, drop[f][v]>> \in warned'
        BY <3>2, <4>1, RemoveCleanedType
      <4> QED
        BY <4>2
    <3> QED
      BY <2>1, <3>1, <3>2
  <2>4. ASSUME NEW g \in Files, NEW u \in Versions, objs'[g][u] # 0
        PROVE  objs'[g][u] = u /\ Owned(g, u)'
    <3>1. objs[g][u] = u /\ Owned(g, u)
      BY <2>3, <2>4 DEF OrphanInv, OwnerInv
    <3>2. ASSUME NEW x \in Versions, drop[g][x] = u, <<g, u>> \notin warned'
          PROVE  drop'[g][x] = u
      <4>1. ~ (g = f /\ x = v)
        BY <2>3, <2>4, <3>2
      <4> QED
        BY <2>1, <3>2, <4>1 DEF TypeOK
    <3> QED
      BY <1>w, <2>1, <2>3, <2>4, <3>1, <3>2 DEF Owned
  <2>5. ASSUME NEW g \in Files
        PROVE  /\ cleaned'[g] \in {0, version'[g]}
               /\ \A u \in Versions : drop'[g][u] # 0 => up'[g][u] = "committed"
    BY <2>1 DEF OrphanInv, OwnerInv, TypeOK
  <2> QED
    BY <2>2, <2>4, <2>5 DEF OrphanInv, OwnerInv
<1>5. ASSUME NEW v \in Versions, UploadEnqueue(f, v) \/ UploadUnqueued(f, v)
      PROVE  OrphanInv'
  <2>1. /\ up[f][v] = "dropped" /\ up' = [up EXCEPT ![f][v] = "done"]
        /\ UNCHANGED <<version, cleaned, key, src, objs, warned, drop>>
    BY <1>5 DEF UploadEnqueue, UploadUnqueued, UpGo, row, minio
  <2>2. SourceInv'
    BY <1>w, <1>t, <2>1 DEF OrphanInv, SourceInv
  <2>3. OwnerInv'
    BY <1>d, <1>w, <2>1 DEF OrphanInv, OwnerInv, Owned
  <2> QED
    BY <2>2, <2>3 DEF OrphanInv
<1>6. ASSUME NEW v \in Versions, ApiCrash(f, v) PROVE FALSE
  BY <1>6 DEF ApiCrash, Fault
<1> QED
  BY <1>1, <1>2, <1>3, <1>4, <1>5, <1>6 DEF Upload

LEMMA OrphanWorker ==
  ASSUME CleaningConstants, TypeOK, OrphanInv, WorkerStep
  PROVE  OrphanInv'
<1>t. /\ F \in Files /\ V \in Versions /\ Versions \subseteq Keys
      /\ \A v \in Versions : v \in Nat /\ v # 0
  BY Ranges, JobTypes DEF Versions
<1>u. UNCHANGED <<version, key, src, drop, up>>
  BY DEF WorkerStep, Dequeue, ReadRow, MarkCleaning, Drive, MarkFailed, DriverRaises,
         UploadCleaned, MarkCleaned, MarkCleanedFails, Discard, RequeueRead,
         RequeuePush, EndJob, Release, row, minio, uploads
<1>n. ASSUME NEW f \in Files
      PROVE  \A v \in Versions : drop'[f][v] # 0 => up'[f][v] = "committed"
  BY <1>u DEF OrphanInv, OwnerInv
\* Steps that neither store nor name an artefact, nor leave one unnamed.
<1>k. ASSUME UNCHANGED <<cleaned, objs, warned>>,
             wpc \notin {"uploaded", "compensate", "discard"}
      PROVE  OwnerInv'
  <2>1. \A f, v : ~ Storing(f, v)
    BY <1>k DEF Storing
  <2> QED
    BY <1>u, <1>k, <1>n, <2>1 DEF OrphanInv, OwnerInv, Owned
<1>1. CASE ReadRow
  <2>1. /\ wpc = "taken" /\ wkey' = key[F] /\ UNCHANGED <<cleaned, objs, warned, job>>
        /\ wpc' \in {"read", "stale"} /\ (wpc' = "read" => version[F] = V)
    BY <1>1 DEF ReadRow, Work, row, minio
  <2>2. F' = F /\ V' = V
    BY <2>1 DEF F, V
  <2>3. SourceInv'
    BY <1>t, <1>u, <2>1, <2>2 DEF OrphanInv, SourceInv
  <2> QED
    BY <1>k, <2>1, <2>3 DEF OrphanInv
<1>2. CASE MarkCleaning
  <2>1. /\ wpc = "read" /\ UNCHANGED <<cleaned, objs, warned, job, wkey, got>>
        /\ wpc' \in {"cleaning", "stale"}
    BY <1>2 DEF MarkCleaning, SetStatus, minio
  <2>2. F' = F /\ V' = V
    BY <2>1 DEF F, V
  <2>3. SourceInv'
    BY <1>u, <2>1, <2>2 DEF OrphanInv, SourceInv
  <2> QED
    BY <1>k, <2>1, <2>3 DEF OrphanInv
<1>3. CASE Drive
  <2>1. /\ wpc = "cleaning" /\ wpc' = "driven" /\ got' = src[F][wkey]
        /\ UNCHANGED <<cleaned, objs, warned, job, wkey>>
    BY <1>3 DEF Drive, Work, row, minio
  <2>2. F' = F /\ V' = V /\ got' \in {0, V}
    BY <1>t, <2>1 DEF F, V, OrphanInv, SourceInv
  <2>3. SourceInv'
    BY <1>u, <2>1, <2>2 DEF OrphanInv, SourceInv
  <2> QED
    BY <1>k, <2>1, <2>3 DEF OrphanInv
<1>4. CASE UploadCleaned
  <2>1. /\ wpc = "driven" /\ wpc' = "uploaded" /\ got # 0
        /\ objs' = [objs EXCEPT ![F][V] = got]
        /\ UNCHANGED <<cleaned, warned, job, wkey, got>>
    BY <1>4 DEF UploadCleaned, Work, CleanedKey, row
  <2>2. F' = F /\ V' = V /\ got = V
    BY <2>1 DEF F, V, OrphanInv, SourceInv
  <2>3. SourceInv'
    BY <1>u, <2>1, <2>2 DEF OrphanInv, SourceInv
  <2>4. ASSUME NEW f \in Files, NEW v \in Versions, objs'[f][v] # 0
        PROVE  objs'[f][v] = v /\ Owned(f, v)'
    <3>1. CASE f = F /\ v = V
      BY <1>t, <2>1, <2>2, <3>1 DEF Owned, Storing, TypeOK
    <3>2. CASE f # F \/ v # V
      <4>1. objs'[f][v] = objs[f][v]
        BY <1>t, <2>1, <3>2 DEF TypeOK
      <4>2. ~ Storing(f, v)
        BY <3>2 DEF Storing
      <4>3. /\ objs[f][v] = v
            /\ \/ cleaned[f] = v \/ <<f, v>> \in warned
               \/ \E u \in Versions : drop[f][u] = v
        BY <2>4, <4>1, <4>2 DEF OrphanInv, OwnerInv, Owned
      <4> QED
        BY <1>u, <2>1, <4>1, <4>3 DEF Owned
    <3> QED
      BY <3>1, <3>2
  <2>5. OwnerInv'
    BY <1>n, <1>u, <2>1, <2>4 DEF OrphanInv, OwnerInv
  <2> QED
    BY <2>3, <2>5 DEF OrphanInv
<1>5. CASE MarkCleaned
  <2>1. /\ wpc = "uploaded" /\ wpc' = IF OnRow(F, V) THEN "finish" ELSE "discard"
        /\ cleaned' = IF OnRow(F, V) THEN [cleaned EXCEPT ![F] = V] ELSE cleaned
        /\ UNCHANGED <<objs, warned, job, wkey, got>>
    BY <1>5 DEF MarkCleaned, SetStatus, minio
  <2>2. F' = F /\ V' = V
    BY <2>1 DEF F, V
  <2>3. SourceInv'
    BY <1>u, <2>1, <2>2 DEF OrphanInv, SourceInv
  <2>4. CASE OnRow(F, V)
    <3>1. /\ V = version[F] /\ cleaned' = [cleaned EXCEPT ![F] = V]
          /\ cleaned[F] \in {0, V}
      BY <1>t, <2>1, <2>4 DEF OnRow, Current, OrphanInv, OwnerInv
    <3>2. ASSUME NEW f \in Files, NEW v \in Versions, objs'[f][v] # 0
          PROVE  objs'[f][v] = v /\ Owned(f, v)'
      <4>1. objs[f][v] = v /\ Owned(f, v)
        BY <2>1, <3>2 DEF OrphanInv, OwnerInv
      <4>2. CASE cleaned[f] = v \/ Storing(f, v)
        BY <1>t, <3>1, <4>1, <4>2, <2>1 DEF Owned, Storing, TypeOK
      <4>3. CASE <<f, v>> \in warned \/ \E u \in Versions : drop[f][u] = v
        BY <1>u, <2>1, <4>1, <4>3 DEF Owned
      <4> QED
        BY <4>1, <4>2, <4>3 DEF Owned
    <3>3. \A f \in Files : cleaned'[f] \in {0, version[f]}
      BY <3>1 DEF OrphanInv, OwnerInv, TypeOK
    <3>4. OwnerInv'
      BY <1>n, <1>u, <3>2, <3>3 DEF OwnerInv
    <3> QED
      BY <2>3, <3>4 DEF OrphanInv
  <2>5. CASE ~ OnRow(F, V)
    <3>1. \A f, v : Storing(f, v) => Storing(f, v)'
      BY <2>1, <2>2, <2>5 DEF Storing
    <3>2. OwnerInv'
      BY <1>n, <1>u, <2>1, <2>5, <3>1 DEF OrphanInv, OwnerInv, Owned
    <3> QED
      BY <2>3, <3>2 DEF OrphanInv
  <2> QED
    BY <2>4, <2>5
<1>6. CASE MarkCleanedFails
  <2>1. /\ wpc = "uploaded" /\ wpc' = "compensate"
        /\ UNCHANGED <<cleaned, objs, warned, job, wkey, got>>
    BY <1>6 DEF MarkCleanedFails, Work, row, minio
  <2>2. F' = F /\ V' = V
    BY <2>1 DEF F, V
  <2>3. SourceInv'
    BY <1>u, <2>1, <2>2 DEF OrphanInv, SourceInv
  <2>4. \A f, v : Storing(f, v) => Storing(f, v)'
    BY <2>1, <2>2 DEF Storing
  <2>5. OwnerInv'
    BY <1>n, <1>u, <2>1, <2>4 DEF OrphanInv, OwnerInv, Owned
  <2> QED
    BY <2>3, <2>5 DEF OrphanInv
<1>7. CASE Discard
  <2>1. /\ wpc \in {"compensate", "discard"} /\ wpc' \in {"finish", "stale"}
        /\ RemoveCleaned(F, V) /\ UNCHANGED <<cleaned, job, wkey, got>>
    BY <1>7 DEF Discard, Work, CleanedKey, row
  <2>2. F' = F /\ V' = V
    BY <2>1 DEF F, V
  <2>3. SourceInv'
    BY <1>u, <2>1, <2>2 DEF OrphanInv, SourceInv
  <2>4. ASSUME NEW f \in Files, NEW v \in Versions, objs'[f][v] # 0
        PROVE  objs'[f][v] = v /\ Owned(f, v)'
    <3>1. /\ objs'[f][v] = objs[f][v] /\ warned \subseteq warned'
          /\ f = F /\ v = V => <<f, v>> \in warned'
      BY <1>t, <2>1, <2>4, RemoveCleanedType
    <3>2. objs[f][v] = v /\ Owned(f, v)
      BY <2>4, <3>1 DEF OrphanInv, OwnerInv
    <3>3. Storing(f, v) => <<f, v>> \in warned'
      BY <3>1 DEF Storing
    <3> QED
      BY <1>u, <2>1, <3>1, <3>2, <3>3 DEF Owned
  <2>5. OwnerInv'
    BY <1>n, <1>u, <2>1, <2>4 DEF OrphanInv, OwnerInv
  <2> QED
    BY <2>3, <2>5 DEF OrphanInv
<1>8. CASE \/ Dequeue \/ MarkFailed \/ DriverRaises \/ RequeueRead \/ RequeuePush
           \/ EndJob \/ Release
  <2>1. /\ wpc \notin {"uploaded", "compensate", "discard"}
        /\ UNCHANGED <<cleaned, objs, warned>>
        /\ wpc' \notin {"read", "cleaning", "driven", "uploaded"}
    BY <1>8
    DEF Dequeue, MarkFailed, DriverRaises, RequeueRead, RequeuePush, EndJob, Release,
        Work, SetStatus, row, minio
  <2>2. SourceInv'
    BY <1>u, <2>1 DEF OrphanInv, SourceInv
  <2> QED
    BY <1>k, <2>1, <2>2 DEF OrphanInv
<1> QED
  BY <1>1, <1>2, <1>3, <1>4, <1>5, <1>6, <1>7, <1>8 DEF WorkerStep

\* A cleaned object was made from the version it is kept for and belongs to the row,
\* to the cleaning at work or to an upload about to remove it, whatever is overwritten
\* while it is cleaned and whatever the database refuses, or it is one whose removal
\* MinIO refused and the log tells: a refused or outdated artefact is removed by the
\* worker that stored it (_discard_stale_artifact), an overwritten one after the
\* commit, and each tries no more than a few times.  A crash or a move may leave one
\* behind.
THEOREM NothingLeftBehind ==
  ASSUME CleaningConstants, Movable = {}, Faults \cap {"api", "worker"} = {}
  PROVE  Spec => []NoOrphan
<1>1. Init => TypeOK /\ OrphanInv
  BY InitType, InitOrphan
<1>2. ASSUME TypeOK, OrphanInv, [Next]_vars PROVE (TypeOK /\ OrphanInv)'
  <2>1. ASSUME NEW f \in Files,
               \/ UploadWrite(f)
               \/ \E v \in Versions : Upload(f, v) \/ ApiCrash(f, v)
        PROVE  OrphanInv'
    BY <1>2, <2>1, OrphanUpload
  <2>2. ASSUME UNCHANGED vars PROVE OrphanInv'
    BY <1>2, <2>2
    DEF vars, row, minio, uploads, worker, OrphanInv, SourceInv, OwnerInv, Owned,
        Storing, F, V
  <2>3. \A f \in Files : ~ Move(f)
    BY DEF Move, MoveRead, MoveCopy, MoveCommit, MoveDrop, MoveGo
  <2>4. ~ WorkerCrash
    BY DEF WorkerCrash, Fault
  <2>5. ASSUME WorkerStep PROVE OrphanInv'
    BY <1>2, <2>5, OrphanWorker
  <2> QED
    BY <1>2, <2>1, <2>2, <2>3, <2>4, <2>5, TypeStep DEF Next
<1>3. TypeOK /\ OrphanInv => NoOrphan
  <2>1. ASSUME TypeOK, NEW f \in Files, NEW v \in Versions, Storing(f, v)
        PROVE  InHand(f, v)
    <3>1. job \in [file : Files, ver : Versions] /\ job.file = f /\ job.ver = v
      BY <2>1 DEF Storing, F, V, TypeOK, Jobs
    <3>2. job = [file |-> f, ver |-> v]
      BY <3>1
    <3> QED
      BY <2>1, <3>2 DEF InHand, Storing
  <2> QED
    BY <2>1 DEF OrphanInv, OwnerInv, Owned, NoOrphan
<1> QED
  BY <1>1, <1>2, <1>3, PTL DEF Spec
=============================================================================
