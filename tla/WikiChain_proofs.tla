--------------------------- MODULE WikiChain_proofs ---------------------------
(***************************************************************************)
(* Theorems of WikiChain, for any number of files, any faults, and any     *)
(* interleaving of the API's requests with the worker.                     *)
(***************************************************************************)
EXTENDS WikiChain, FiniteSetTheorems, SequenceTheorems, TLAPS

-----------------------------------------------------------------------------
(* The queue.                                                              *)

\* There is a job of a kind in a queue.
HasKind(q, kind) == \E k \in DOMAIN q : q[k].kind = kind

LEMMA HasKindAppend ==
  ASSUME NEW q \in Seq(Job), NEW j \in Job, NEW kind
  PROVE  /\ Append(q, j) \in Seq(Job)
         /\ HasKind(Append(q, j), kind) <=> HasKind(q, kind) \/ j.kind = kind
<1>1. /\ Append(q, j) \in Seq(Job) /\ Len(q) \in Nat
      /\ DOMAIN q = 1..Len(q) /\ DOMAIN Append(q, j) = 1..(Len(q) + 1)
      /\ \A i \in 1..Len(q) : Append(q, j)[i] = q[i]
      /\ Append(q, j)[Len(q) + 1] = j
  BY AppendProperties, LenProperties
<1>2. 1..(Len(q) + 1) = 1..Len(q) \cup {Len(q) + 1}
  BY <1>1
<1> QED
  BY <1>1, <1>2 DEF HasKind

LEMMA HasKindConcat ==
  ASSUME NEW q \in Seq(Job), NEW s \in Seq(Job), NEW kind
  PROVE  /\ q \o s \in Seq(Job)
         /\ HasKind(q \o s, kind) <=> HasKind(q, kind) \/ HasKind(s, kind)
<1>1. /\ q \o s \in Seq(Job) /\ Len(q) \in Nat /\ Len(s) \in Nat
      /\ DOMAIN q = 1..Len(q) /\ DOMAIN s = 1..Len(s)
      /\ DOMAIN (q \o s) = 1..(Len(q) + Len(s))
      /\ \A i \in 1..(Len(q) + Len(s)) :
            (q \o s)[i] = IF i <= Len(q) THEN q[i] ELSE s[i - Len(q)]
  BY ConcatProperties, LenProperties
<1>2. ASSUME NEW i \in DOMAIN q, q[i].kind = kind PROVE HasKind(q \o s, kind)
  BY <1>1, <1>2 DEF HasKind
<1>3. ASSUME NEW i \in DOMAIN s, s[i].kind = kind PROVE HasKind(q \o s, kind)
  <2>1. /\ i + Len(q) \in 1..(Len(q) + Len(s)) /\ ~ (i + Len(q) <= Len(q))
        /\ (i + Len(q)) - Len(q) = i
    BY <1>1
  <2>2. (q \o s)[i + Len(q)] = s[i]
    BY <1>1, <2>1
  <2> QED
    BY <1>1, <1>3, <2>1, <2>2 DEF HasKind
<1>4. ASSUME NEW i \in DOMAIN (q \o s), (q \o s)[i].kind = kind
      PROVE  HasKind(q, kind) \/ HasKind(s, kind)
  <2>1. CASE i <= Len(q)
    BY <1>1, <1>4, <2>1 DEF HasKind
  <2>2. CASE ~ (i <= Len(q))
    <3>1. i - Len(q) \in 1..Len(s)
      BY <1>1, <2>2
    <3> QED
      BY <1>1, <1>4, <2>2, <3>1 DEF HasKind
  <2> QED
    BY <2>1, <2>2
<1> QED
  BY <1>1, <1>2, <1>3, <1>4 DEF HasKind

LEMMA HasKindTail ==
  ASSUME NEW q \in Seq(Job), q # <<>>, NEW kind
  PROVE  /\ Head(q) \in Job /\ Tail(q) \in Seq(Job)
         /\ HasKind(q, kind) <=> Head(q).kind = kind \/ HasKind(Tail(q), kind)
<1>1. /\ Head(q) \in Job /\ Tail(q) \in Seq(Job)
      /\ Len(q) \in Nat \ {0} /\ DOMAIN q = 1..Len(q)
      /\ DOMAIN Tail(q) = 1..(Len(q) - 1)
      /\ \A i \in 1..(Len(q) - 1) : Tail(q)[i] = q[i + 1]
      /\ Head(q) = q[1]
  BY HeadTailProperties, LenProperties, EmptySeq
<1>2. ASSUME NEW i \in DOMAIN q, q[i].kind = kind
      PROVE  Head(q).kind = kind \/ HasKind(Tail(q), kind)
  <2>1. CASE i = 1
    BY <1>1, <1>2, <2>1
  <2>2. CASE i # 1
    <3>1. i - 1 \in 1..(Len(q) - 1) /\ (i - 1) + 1 = i
      BY <1>1, <2>2
    <3> QED
      BY <1>1, <1>2, <3>1 DEF HasKind
  <2> QED
    BY <2>1, <2>2
<1>3. ASSUME NEW i \in DOMAIN Tail(q), Tail(q)[i].kind = kind
      PROVE  HasKind(q, kind)
  <2>1. i + 1 \in 1..Len(q)
    BY <1>1
  <2> QED
    BY <1>1, <1>3, <2>1 DEF HasKind
<1>4. Head(q).kind = kind => HasKind(q, kind)
  <2>1. 1 \in DOMAIN q
    BY <1>1
  <2> QED
    BY <1>1, <2>1 DEF HasKind
<1> QED
  BY <1>1, <1>2, <1>3, <1>4 DEF HasKind

LEMMA HasKindFront ==
  ASSUME NEW q \in Seq(Job), NEW j \in Job, NEW kind
  PROVE  /\ <<j>> \o q \in Seq(Job)
         /\ HasKind(<<j>> \o q, kind) <=> HasKind(q, kind) \/ j.kind = kind
<1>1. <<j>> \in Seq(Job) /\ DOMAIN <<j>> = {1} /\ <<j>>[1] = j
  OBVIOUS
<1>2. HasKind(<<j>>, kind) <=> j.kind = kind
  BY <1>1 DEF HasKind
<1> QED
  BY <1>1, <1>2, HasKindConcat

LEMMA SetToSeqType ==
  ASSUME NEW S, IsFiniteSet(S)
  PROVE  SetToSeq(S) \in Seq(S)
<1>1. Cardinality(S) \in Nat /\ ExistsBijection(1..Cardinality(S), S)
  BY FS_CardinalityType
<1>2. \E f \in [1..Cardinality(S) -> S] : IsInjective(f)
  BY <1>1 DEF ExistsBijection, Bijection, Injection
<1>3. SetToSeq(S) \in [1..Cardinality(S) -> S]
  BY <1>2 DEF SetToSeq
<1> QED
  BY <1>1, <1>3, SeqDef

-----------------------------------------------------------------------------
(* Types, and what the wiki shows.                                         *)

\* What the worker does fits the job it has in hand.
JobPhase ==
    /\ wpc \in {"clean", "cleanHook"} => job.kind = "clean"
    /\ wpc \in {"deep", "deepHook"} => job.kind = "deep"

\* The wiki was built from the index, which was built from the library.
Layers == wiki \subseteq snap /\ snap \subseteq lib

ChainInv == TypeOK /\ JobPhase /\ Layers

LEMMA JobTypes ==
  /\ Wiki \in Job
  /\ \A i \in Items : Clean(i) \in Job /\ DeepParse(i) \in Job
  /\ \A j \in Job : j.kind \in {"clean", "deep", "wiki"}
  /\ \A j \in Job : j.kind \in {"clean", "deep"} => j.item \in Items
  BY DEF Wiki, Clean, DeepParse, Job

LEMMA InitChain == ASSUME ChainConstants PROVE Init => ChainInv
<1> SUFFICES ASSUME Init PROVE ChainInv
  OBVIOUS
<1>1. queue \in Seq(Job) /\ job \in Job
  BY JobTypes, EmptySeq DEF Init
<1>2. 0 \in 0..MaxFaults
  BY DEF ChainConstants
<1>3. /\ req \in [Items -> ReqPcs] /\ rtok \in [Items -> Nat]
      /\ wpc \in WorkPcs
  BY DEF Init, ReqPcs, WorkPcs
<1>4. /\ lib \subseteq Changes /\ wiki \subseteq Changes /\ snap \subseteq Changes
      /\ lost \subseteq Changes /\ claims \subseteq Items
  BY DEF Init
<1>5. /\ pending \in Nat /\ next \in Nat \ {0} /\ wtok \in Nat
      /\ back \in {"idle", "end"}
  BY DEF Init
<1>b. wikiLock \in BOOLEAN /\ built \in BOOLEAN
  BY Zenon DEF Init
<1>6. faults \in 0..MaxFaults
  BY <1>2 DEF Init
<1>7. TypeOK
  BY <1>1, <1>3, <1>4, <1>5, <1>b, <1>6 DEF TypeOK
<1> QED
  BY <1>7 DEF Init, ChainInv, JobPhase, Layers

LEMMA FaultCounted ==
  ASSUME ChainConstants, TypeOK, NEW kind, Fault(kind)
  PROVE  faults' \in 0..MaxFaults
  BY DEF ChainConstants, Fault, TypeOK

\* A build queues a deep parse for files of Deep only.
LEMMA DeepJobs ==
  ASSUME ChainConstants, TypeOK, BuildStart
  PROVE  \E s \in Seq({DeepParse(i) : i \in Deep}) : queue' = queue \o s
<1> DEFINE due == {i \in Deep : /\ <<i, "file">> \in lib
                                /\ <<i, "deep">> \notin lib
                                /\ ~ Contains(queue, DeepParse(i))}
           new == {DeepParse(i) : i \in due}
<1>1. IsFiniteSet(due)
  BY FS_Subset DEF ChainConstants
<1>2. IsFiniteSet(new)
  <2> DEFINE f == [i \in due |-> DeepParse(i)]
  <2>1. f \in Surjection(due, new)
    BY DEF Surjection
  <2> QED
    BY <1>1, <2>1, FS_Surjection
<1>3. SetToSeq(new) \in Seq(new)
  BY <1>2, SetToSeqType
<1>4. new \subseteq {DeepParse(i) : i \in Deep}
  OBVIOUS
<1>5. SetToSeq(new) \in Seq({DeepParse(i) : i \in Deep})
  BY <1>3, <1>4, SeqMonotonic
<1>6. queue' = queue \o SetToSeq(new)
  BY DEF BuildStart
<1> QED
  BY <1>5, <1>6

\* Steps that leave the worker's job and the index alone, and queue at most one job.
LEMMA StepPlain ==
  ASSUME ChainConstants, ChainInv,
         UNCHANGED <<wiki, snap, lost, job, back, claims>>,
         lib \subseteq lib', lib' \subseteq Changes,
         req' \in [Items -> ReqPcs], rtok' \in [Items -> Nat],
         pending' \in Nat, next' \in Nat \ {0}, wtok' \in Nat,
         \/ queue' = queue
         \/ \E j \in Job : queue' = Append(queue, j),
         wikiLock' \in BOOLEAN, built' \in BOOLEAN, faults' \in 0..MaxFaults,
         wpc' \in WorkPcs,
         wpc' \in {"clean", "cleanHook"} => job.kind = "clean",
         wpc' \in {"deep", "deepHook"} => job.kind = "deep"
  PROVE  ChainInv'
<1>0. TypeOK /\ Layers
  BY DEF ChainInv
<1>1. queue' \in Seq(Job)
  BY <1>0, HasKindAppend DEF TypeOK
<1>2. TypeOK'
  BY <1>0, <1>1 DEF TypeOK
<1>3. JobPhase' /\ Layers'
  BY <1>0 DEF JobPhase, Layers
<1> QED
  BY <1>2, <1>3 DEF ChainInv

LEMMA StepRequest ==
  ASSUME ChainConstants, ChainInv, NEW i \in Items, Commit(i) \/ Request(i)
  PROVE  ChainInv'
<1>0. TypeOK /\ JobPhase
  BY DEF ChainInv
<1>t. /\ lib \subseteq Changes
      /\ req \in [Items -> ReqPcs] /\ rtok \in [Items -> Nat]
      /\ pending \in Nat /\ next \in Nat \ {0} /\ wtok \in Nat
      /\ faults \in 0..MaxFaults /\ wpc \in WorkPcs
      /\ wpc \in {"clean", "cleanHook"} => job.kind = "clean"
      /\ wpc \in {"deep", "deepHook"} => job.kind = "deep"
  BY <1>0 DEF TypeOK, JobPhase
<1>b. wikiLock \in BOOLEAN /\ built \in BOOLEAN
  BY <1>0 DEF TypeOK
<1>w. UNCHANGED <<wpc, job, back, wtok, built, wiki, snap, lost, claims, faults>>
  BY DEF Commit, Request, UploadWord, UploadPlain, ReqMark, ReqEnqueue, ReqAck,
         PushWiki, redis, worker
<1>r. req' \in [Items -> ReqPcs]
  BY <1>t DEF Commit, Request, UploadWord, UploadPlain, ReqMark, ReqEnqueue, ReqAck,
              Req, ReqPcs
<1>1. CASE Commit(i)
  <2>1. lib \subseteq lib' /\ lib' \subseteq Changes
    BY <1>1, <1>t DEF Commit, Changes
  <2>2. UNCHANGED <<rtok, pending, next, queue, wikiLock>>
    BY <1>1 DEF Commit, mark, redis
  <2> QED
    BY <1>t, <1>b, <1>w, <1>r, <2>1, <2>2, StepPlain
<1>2. CASE UploadWord(i)
  <2>1. queue' = Append(queue, Clean(i)) /\ Clean(i) \in Job
    BY <1>2, JobTypes DEF UploadWord
  <2>2. UNCHANGED <<lib, rtok, pending, next, wikiLock>>
    BY <1>2 DEF UploadWord, mark
  <2> QED
    BY <1>t, <1>b, <1>w, <1>r, <2>1, <2>2, StepPlain
<1>3. CASE UploadPlain(i)
  <2>1. UNCHANGED <<lib, rtok, pending, next, queue, wikiLock>>
    BY <1>3 DEF UploadPlain, mark, redis
  <2> QED
    BY <1>t, <1>b, <1>w, <1>r, <2>1, StepPlain
<1>4. CASE ReqMark(i)
  <2>1. /\ UNCHANGED <<lib, queue, wikiLock>>
        /\ rtok' \in [Items -> Nat] /\ pending' \in Nat /\ next' \in Nat \ {0}
    BY <1>4, <1>t DEF ReqMark, SetPending, redis
  <2> QED
    BY <1>t, <1>b, <1>w, <1>r, <2>1, StepPlain
<1>5. CASE ReqEnqueue(i)
  <2>1. UNCHANGED <<lib, rtok, pending, next>>
    BY <1>5 DEF ReqEnqueue, mark
  <2>2. /\ queue' = queue \/ queue' = Append(queue, Wiki)
        /\ wikiLock' = wikiLock \/ wikiLock' = TRUE
    BY <1>5 DEF ReqEnqueue, PushWiki, redis
  <2>3. wikiLock' \in BOOLEAN
    BY <1>b, <2>2, Zenon
  <2> QED
    BY <1>t, <1>b, <1>w, <1>r, <2>1, <2>2, <2>3, JobTypes, StepPlain
<1>6. CASE ReqAck(i)
  <2>1. /\ UNCHANGED <<lib, rtok, next, queue, wikiLock>>
        /\ pending' \in Nat
    BY <1>6, <1>t DEF ReqAck, Ack, redis
  <2> QED
    BY <1>t, <1>b, <1>w, <1>r, <2>1, StepPlain
<1> QED
  BY <1>1, <1>2, <1>3, <1>4, <1>5, <1>6 DEF Request

LEMMA StepDequeue ==
  ASSUME ChainConstants, ChainInv, Dequeue
  PROVE  ChainInv'
<1>0. TypeOK /\ Layers
  BY DEF ChainInv
<1>1. queue \in Seq(Job) /\ queue # <<>>
  BY <1>0 DEF TypeOK, Dequeue
<1>2. job' \in Job /\ queue' \in Seq(Job)
  BY <1>1, HasKindTail DEF Dequeue
<1>3. /\ wpc' \in WorkPcs
      /\ wpc' \in {"clean", "cleanHook"} => job'.kind = "clean"
      /\ wpc' \in {"deep", "deepHook"} => job'.kind = "deep"
  <2>1. CASE job'.kind = "clean"
    BY <2>1 DEF Dequeue, WorkPcs
  <2>2. CASE job'.kind = "deep"
    BY <2>2 DEF Dequeue, WorkPcs
  <2>3. CASE job'.kind \notin {"clean", "deep"}
    BY <2>3 DEF Dequeue, WorkPcs
  <2> QED
    BY <2>1, <2>2, <2>3
<1>4. /\ back' = "end"
      /\ UNCHANGED <<lib, wiki, snap, lost, req, rtok, pending, next, claims, wtok,
                     faults>>
  BY DEF Dequeue, requests, mark
<1>5. wikiLock' \in BOOLEAN /\ built' \in BOOLEAN
  BY <1>0, Zenon DEF TypeOK, Dequeue
<1>6. TypeOK'
  BY <1>0, <1>2, <1>3, <1>4, <1>5 DEF TypeOK
<1> QED
  BY <1>0, <1>3, <1>4, <1>6 DEF ChainInv, JobPhase, Layers

LEMMA StepCrash ==
  ASSUME ChainConstants, ChainInv, Crash
  PROVE  ChainInv'
<1>0. TypeOK /\ Layers
  BY DEF ChainInv
<1>1. queue \in Seq(Job) /\ job \in Job
  BY <1>0 DEF TypeOK
<1>2. queue' \in Seq(Job)
  BY <1>1, HasKindFront DEF Crash
<1>3. faults' \in 0..MaxFaults
  BY <1>0, FaultCounted DEF Crash
<1>4. /\ wpc' = "idle" /\ back' = "idle"
      /\ UNCHANGED <<lib, wiki, snap, lost, req, rtok, pending, next, wikiLock,
                     claims, job, wtok, built>>
  BY DEF Crash, requests, mark
<1>5. TypeOK'
  BY <1>0, <1>2, <1>3, <1>4 DEF TypeOK, WorkPcs
<1> QED
  BY <1>0, <1>4, <1>5 DEF ChainInv, JobPhase, Layers

\* The worker's steps with a job in hand, but for those of a build.
LEMMA StepHook ==
  ASSUME ChainConstants, ChainInv,
         \/ CleanEnds \/ CleanRaises \/ CleanHook \/ DeepEnds \/ DeepHook
         \/ WorkMark \/ WorkEnqueue \/ WorkAck
  PROVE  ChainInv'
<1>0. TypeOK /\ JobPhase /\ Layers
  BY DEF ChainInv
<1>t. /\ lib \subseteq Changes /\ claims \subseteq Items
      /\ req \in [Items -> ReqPcs] /\ rtok \in [Items -> Nat]
      /\ pending \in Nat /\ next \in Nat \ {0} /\ wtok \in Nat
      /\ faults \in 0..MaxFaults /\ wpc \in WorkPcs /\ back \in {"idle", "end"}
      /\ job \in Job
      /\ wpc \in {"clean", "cleanHook"} => job.kind = "clean"
      /\ wpc \in {"deep", "deepHook"} => job.kind = "deep"
  BY <1>0 DEF TypeOK, JobPhase
<1>b. wikiLock \in BOOLEAN /\ built \in BOOLEAN
  BY <1>0 DEF TypeOK
<1>w. UNCHANGED <<req, rtok, wiki, snap, lost, job, back, built>>
  BY DEF CleanEnds, CleanRaises, CleanHook, DeepEnds, DeepHook, WorkMark,
         WorkEnqueue, WorkAck, requests
<1>1. CASE CleanEnds
  <2>1. job.item \in Items
    BY <1>1, <1>t, JobTypes DEF CleanEnds, Work
  <2>2. lib \subseteq lib' /\ lib' \subseteq Changes
    BY <1>1, <1>t, <2>1 DEF CleanEnds, Changes
  <2>3. /\ wpc' = "cleanHook" /\ job.kind = "clean"
        /\ UNCHANGED <<pending, next, queue, wikiLock, claims, wtok, faults>>
    BY <1>1, <1>t DEF CleanEnds, Work, mark, redis
  <2> QED
    BY <1>t, <1>b, <1>w, <2>2, <2>3, StepPlain DEF WorkPcs
<1>2. CASE CleanRaises
  <2>1. /\ wpc' = "end" /\ faults' \in 0..MaxFaults
        /\ UNCHANGED <<lib, pending, next, queue, wikiLock, claims, wtok>>
    BY <1>0, <1>2, FaultCounted DEF CleanRaises, Work, mark, redis
  <2> QED
    BY <1>t, <1>b, <1>w, <2>1, StepPlain DEF WorkPcs
<1>3. CASE CleanHook
  <2>1. /\ wpc' \in {"mark", "end"}
        /\ UNCHANGED <<lib, pending, next, queue, wikiLock, claims, wtok, faults>>
    BY <1>3 DEF CleanHook, Work, mark, redis
  <2> QED
    BY <1>t, <1>b, <1>w, <2>1, StepPlain DEF WorkPcs
<1>4. CASE DeepEnds
  <2>1. job.item \in Items /\ job.kind = "deep"
    BY <1>4, <1>t, JobTypes DEF DeepEnds, Work
  <2>2. lib \subseteq lib' /\ lib' \subseteq Changes
    BY <1>4, <1>t, <2>1 DEF DeepEnds, Changes
  <2>3. /\ wpc' = "deepHook"
        /\ UNCHANGED <<pending, next, queue, wikiLock, claims, wtok>>
    BY <1>4 DEF DeepEnds, Work, mark, redis
  <2>4. faults' \in 0..MaxFaults
    BY <1>0, <1>4, <1>t, FaultCounted DEF DeepEnds
  <2> QED
    BY <1>t, <1>b, <1>w, <2>1, <2>2, <2>3, <2>4, StepPlain DEF WorkPcs
<1>5. CASE DeepHook
  <2>1. /\ wpc' \in {"mark", "end"} /\ claims' \subseteq claims \cup {job.item}
        /\ UNCHANGED <<lib, pending, next, queue, wikiLock, wtok, faults>>
        /\ wpc = "deepHook"
    BY <1>5 DEF DeepHook, Work, mark
  <2>2. claims' \subseteq Items
    BY <1>t, <2>1, JobTypes
  <2>3. TypeOK'
    BY <1>0, <1>w, <2>1, <2>2 DEF TypeOK, WorkPcs
  <2> QED
    BY <1>0, <1>w, <2>1, <2>3 DEF ChainInv, JobPhase, Layers
<1>6. CASE WorkMark
  <2>1. /\ wpc' = "enqueue" /\ pending' \in Nat /\ next' \in Nat \ {0} /\ wtok' \in Nat
        /\ UNCHANGED <<lib, queue, wikiLock, claims, faults>>
    BY <1>6, <1>t DEF WorkMark, Work, SetPending, redis
  <2> QED
    BY <1>t, <1>b, <1>w, <2>1, StepPlain DEF WorkPcs
<1>7. CASE WorkEnqueue
  <2>1. /\ wpc' \in {"ack", back}
        /\ UNCHANGED <<lib, pending, next, claims, wtok, faults>>
        /\ queue' = queue \/ queue' = Append(queue, Wiki)
        /\ wikiLock' = wikiLock \/ wikiLock' = TRUE
    BY <1>7 DEF WorkEnqueue, Work, PushWiki, mark, redis
  <2>2. wikiLock' \in BOOLEAN
    BY <1>b, <2>1, Zenon
  <2> QED
    BY <1>t, <1>b, <1>w, <2>1, <2>2, JobTypes, StepPlain DEF WorkPcs
<1>8. CASE WorkAck
  <2>1. /\ wpc' = back /\ pending' \in Nat
        /\ UNCHANGED <<lib, next, queue, wikiLock, claims, wtok, faults>>
    BY <1>8, <1>t DEF WorkAck, Work, Ack, redis
  <2> QED
    BY <1>t, <1>b, <1>w, <2>1, StepPlain DEF WorkPcs
<1> QED
  BY <1>1, <1>2, <1>3, <1>4, <1>5, <1>6, <1>7, <1>8

LEMMA StepBuild ==
  ASSUME ChainConstants, ChainInv,
         BuildStart \/ BuildStartOld \/ BuildEnds \/ BuildFails
  PROVE  ChainInv'
<1>0. TypeOK /\ JobPhase /\ Layers
  BY DEF ChainInv
<1>t. /\ lib \subseteq Changes /\ snap \subseteq Changes /\ lost \subseteq Changes
      /\ faults \in 0..MaxFaults /\ queue \in Seq(Job)
  BY <1>0 DEF TypeOK
<1>w. UNCHANGED <<lib, req, rtok, pending, next, wikiLock, claims, job, back, wtok>>
  BY DEF BuildStart, BuildStartOld, BuildEnds, BuildFails, requests, mark, redis
<1>1. CASE BuildStart
  <2>1. /\ wpc' = "building" /\ snap' = lib
        /\ UNCHANGED <<wiki, lost, built, faults>>
    BY <1>1 DEF BuildStart, Work
  <2>2. {DeepParse(i) : i \in Deep} \subseteq Job
    BY JobTypes DEF ChainConstants, Items
  <2>3. queue' \in Seq(Job)
    BY <1>0, <1>1, <1>t, <2>2, DeepJobs, SeqMonotonic, HasKindConcat
  <2>4. TypeOK'
    BY <1>0, <1>t, <1>w, <2>1, <2>3 DEF TypeOK, WorkPcs
  <2> QED
    BY <1>0, <1>w, <2>1, <2>4 DEF ChainInv, JobPhase, Layers
<1>2. CASE BuildStartOld
  <2>1. /\ wpc' = "building" /\ faults' \in 0..MaxFaults
        /\ UNCHANGED <<queue, snap, wiki, lost, built>>
    BY <1>0, <1>2, FaultCounted DEF BuildStartOld, Work, redis
  <2>2. TypeOK'
    BY <1>0, <1>w, <2>1 DEF TypeOK, WorkPcs
  <2> QED
    BY <1>0, <1>w, <2>1, <2>2 DEF ChainInv, JobPhase, Layers
<1>3. CASE BuildEnds
  <2>1. /\ wpc' = "end" /\ wiki' = snap
        /\ UNCHANGED <<queue, snap, lost, faults>>
    BY <1>3 DEF BuildEnds, Work, redis
  <2>2. built' \in BOOLEAN
    BY <1>3, Zenon DEF BuildEnds
  <2>3. TypeOK'
    BY <1>0, <1>w, <2>1, <2>2 DEF TypeOK, WorkPcs
  <2> QED
    BY <1>0, <1>w, <2>1, <2>3 DEF ChainInv, JobPhase, Layers
<1>4. CASE BuildFails
  <2>1. /\ wpc' = "end" /\ faults' \in 0..MaxFaults /\ lost' = lost \cup snap
        /\ UNCHANGED <<queue, snap, wiki, built>>
    BY <1>0, <1>4, FaultCounted DEF BuildFails, Work, redis
  <2>2. TypeOK'
    BY <1>0, <1>t, <1>w, <2>1 DEF TypeOK, WorkPcs
  <2> QED
    BY <1>0, <1>w, <2>1, <2>2 DEF ChainInv, JobPhase, Layers
<1> QED
  BY <1>1, <1>2, <1>3, <1>4

\* The worker's steps without a job in hand, and the expiry of the lock.
LEMMA StepIdle ==
  ASSUME ChainConstants, ChainInv,
         EndJob \/ Release \/ Retry \/ IdleRetry \/ Expire
  PROVE  ChainInv'
<1>0. TypeOK /\ JobPhase /\ Layers
  BY DEF ChainInv
<1>w. /\ UNCHANGED <<lib, wiki, snap, lost, req, rtok, pending, next, queue,
                     claims, job, built, faults>>
      /\ wtok' = wtok \/ wtok' = pending
      /\ back' = back \/ back' = "idle"
      /\ wpc' = wpc \/ wpc' \in {"release", "retry", "idle", "enqueue"}
  BY DEF EndJob, Release, Retry, IdleRetry, Expire, Work, requests, mark, redis, worker
<1>b. wikiLock \in BOOLEAN
  BY <1>0 DEF TypeOK
<1>1. wikiLock' \in BOOLEAN
  <2>1. \/ wikiLock' = wikiLock
        \/ wikiLock' = FALSE
        \/ wikiLock' = (wikiLock /\ job.kind # "wiki")
    BY Zenon DEF EndJob, Release, Retry, IdleRetry, Expire, redis
  <2> QED
    BY <1>b, <2>1, Zenon
<1>2. TypeOK'
  BY <1>0, <1>w, <1>1 DEF TypeOK, WorkPcs
<1> QED
  BY <1>0, <1>w, <1>2 DEF ChainInv, JobPhase, Layers

LEMMA StepChain == ASSUME ChainConstants PROVE ChainInv /\ [Next]_vars => ChainInv'
<1> SUFFICES ASSUME ChainInv, [Next]_vars PROVE ChainInv'
  OBVIOUS
<1>1. CASE UNCHANGED vars
  BY <1>1
  DEF vars, requests, mark, redis, worker, ChainInv, TypeOK, JobPhase, Layers
<1> QED
  BY <1>1, StepRequest, StepDequeue, StepHook, StepBuild, StepIdle, StepCrash
  DEF Next, WorkerStep

\* Every reachable state is well typed, whatever jobs meet in the queue.
THEOREM TypeCorrect == ASSUME ChainConstants PROVE Spec => []TypeOK
<1>1. ChainInv => TypeOK
  BY DEF ChainInv
<1> QED
  BY <1>1, InitChain, StepChain, PTL DEF Spec

\* A step of the chain is a change of the library, a refresh of the wiki that takes
\* nothing back, or neither.
LEMMA StepMirror ==
  ASSUME ChainConstants
  PROVE  ChainInv /\ [Next]_vars => [Mirror!Next]_<<lib, wiki>>
<1> SUFFICES ASSUME ChainInv, [Next]_vars, ~ UNCHANGED <<lib, wiki>>
             PROVE  Mirror!Next
  OBVIOUS
<1>0. TypeOK /\ JobPhase /\ Layers
  BY DEF ChainInv
<1>1. CASE BuildEnds
  BY <1>0, <1>1 DEF BuildEnds, Layers, Mirror!Next, Mirror!Refresh
<1>2. ASSUME NEW i \in Items, Commit(i) PROVE Mirror!Next
  <2>1. <<i, "file">> \in Changes
    BY DEF Changes
  <2>2. wiki' = wiki /\ lib' = lib \cup {<<i, "file">>}
    BY <1>2 DEF Commit
  <2> QED
    BY <2>1, <2>2 DEF Mirror!Next, Mirror!Change
<1>3. CASE CleanEnds
  <2>1. job.item \in Items
    BY <1>0, <1>3, JobTypes DEF CleanEnds, Work, TypeOK, JobPhase
  <2>2. <<job.item, "file">> \in Changes
    BY <2>1 DEF Changes
  <2> QED
    BY <1>3, <2>2 DEF CleanEnds, Mirror!Next, Mirror!Change
<1>4. CASE DeepEnds
  <2>1. job.item \in Items
    BY <1>0, <1>4, JobTypes DEF DeepEnds, Work, TypeOK, JobPhase
  <2>2. <<job.item, "deep">> \in Changes
    BY <2>1 DEF Changes
  <2>3. wiki' = wiki /\ lib' = lib \cup {<<job.item, "deep">>}
    BY <1>4 DEF DeepEnds
  <2> QED
    BY <2>2, <2>3 DEF Mirror!Next, Mirror!Change
<1> QED
  BY <1>1, <1>2, <1>3, <1>4
  DEF Next, vars, WorkerStep, Request, UploadWord, UploadPlain, ReqMark, ReqEnqueue,
      ReqAck, Dequeue, CleanRaises, CleanHook, DeepHook, BuildStart, BuildStartOld,
      BuildFails, WorkMark, WorkEnqueue, WorkAck, EndJob, Release, Retry, IdleRetry,
      Crash, Expire

\* The chain implements LibraryMirror: the wiki shows nothing the library did not
\* have, and no build, delivered again or working on an old index, takes back what
\* an earlier one has shown (generate_technical_wiki).
THEOREM ChainMirrors == ASSUME ChainConstants PROVE Spec => MirrorImplemented
<1>1. Init => Mirror!Init
  BY DEF Init, Mirror!Init
<1> QED
  BY <1>1, InitChain, StepChain, StepMirror, PTL
  DEF Spec, MirrorImplemented, Mirror!Spec

-----------------------------------------------------------------------------
(* No change is forgotten.                                                 *)

\* What the theorem is about: no deep parses, no cleaning that raises, and an index
\* that can be rebuilt.
Followed == Deep = {} /\ "raise" \notin Faults /\ "index" \notin Faults

\* A cleaning is still to end, or has ended and not yet set its mark.
Cleans ==
    \/ Queued("clean")
    \/ InHand("clean") /\ wpc = "clean"
    \/ wpc \in {"cleanHook", "mark"}

\* The request of a change has not yet passed it on.
Under(c) == c[2] = "file" /\ req[c[1]] \in {"committed", "mark"}

\* Somebody who has queued a build is about to delete the mark.
Acking ==
    \/ \E i \in Items : req[i] = "ack" /\ rtok[i] = pending
    \/ wpc = "ack" /\ wtok = pending

Marked == pending # 0 /\ ~ Acking

\* Why a change that the wiki lacks will be found: a mark counts only as long as
\* nobody is about to delete it for the sake of an older build.
Certain(c) ==
    \/ BuildComing
    \/ wpc = "building" /\ c \in snap
    \/ Under(c) \/ Cleans \/ Marked

AllCertain == \A c \in lib \ (wiki \cup lost) : Certain(c)

\* A plain upload that meets a cleaning relies on that cleaning's hook.
HookCertain ==
    InHand("clean") /\ wpc \in {"enqueue", "ack", "end"} =>
        BuildComing \/ Queued("clean") \/ Marked

\* Marks are set with new tokens.
Tokens ==
    /\ pending < next /\ wtok < next
    /\ \A i \in Items : rtok[i] < next

\* Which job the worker has in hand at each of its steps.
Phases ==
    /\ ~ Queued("deep") /\ job.kind # "deep" /\ wpc \notin {"deep", "deepHook"}
    /\ wpc \in {"clean", "cleanHook", "mark"} => job.kind = "clean" /\ back = "end"
    /\ wpc \in {"build", "building"} => job.kind = "wiki" /\ back = "end"
    /\ wpc \in {"idle", "release", "retry"} => back = "idle"
    /\ wpc = "end" => back = "end"
    /\ wpc \in {"enqueue", "ack"} /\ back = "end" => job.kind = "clean"

TrackInv == ChainInv /\ Phases /\ Tokens /\ HookCertain /\ AllCertain

LEMMA InitTrack == ASSUME ChainConstants PROVE Init => TrackInv
<1> SUFFICES ASSUME Init PROVE TrackInv
  OBVIOUS
<1>1. ChainInv
  BY InitChain
<1>2. ~ Queued("deep") /\ job.kind = "wiki"
  BY DEF Init, Queued, Wiki
<1>3. Phases /\ Tokens
  BY <1>2 DEF Init, Phases, Tokens
<1>4. HookCertain /\ AllCertain
  BY DEF Init, HookCertain, AllCertain
<1> QED
  BY <1>1, <1>3, <1>4 DEF TrackInv

LEMMA QueueGrows ==
  ASSUME ChainInv, NEW j \in Job, queue' = Append(queue, j), NEW kind
  PROVE  Queued(kind)' <=> Queued(kind) \/ j.kind = kind
<1>1. queue \in Seq(Job)
  BY DEF ChainInv, TypeOK
<1> QED
  BY <1>1, HasKindAppend DEF Queued, HasKind

LEMMA QueueStays ==
  ASSUME queue' = queue, NEW kind
  PROVE  Queued(kind)' <=> Queued(kind)
  BY DEF Queued

\* A step that only pushes a build, or nothing, while the request or the worker that
\* pushes it comes to its acknowledgement: nothing else changes for the changes.
LEMMA PushCovers ==
  ASSUME ChainInv, queue' = Append(queue, Wiki)
  PROVE  BuildComing' /\ (Queued("clean")' <=> Queued("clean"))
                      /\ (Queued("deep")' <=> Queued("deep"))
<1>1. Wiki \in Job /\ Wiki.kind = "wiki"
  BY JobTypes DEF Wiki
<1> QED
  BY <1>1, QueueGrows DEF BuildComing

\* A new mark is nobody's to delete.
LEMMA NewMark ==
  ASSUME ChainInv, Tokens, SetPending,
         \A i \in Items : req'[i] = "ack" => rtok'[i] = rtok[i],
         wpc' # "ack"
  PROVE  Marked'
<1>1. next \in Nat \ {0} /\ pending' = next
  BY DEF ChainInv, TypeOK, SetPending
<1>2. \A i \in Items : rtok[i] \in Nat /\ rtok[i] < next
  BY DEF ChainInv, TypeOK, Tokens
<1>3. ~ Acking'
  BY <1>1, <1>2 DEF Acking
<1> QED
  BY <1>1, <1>3 DEF Marked

LEMMA TrackRequest ==
  ASSUME ChainConstants, TrackInv, ChainInv', NEW i \in Items, Commit(i) \/ Request(i)
  PROVE  TrackInv'
<1>0. ChainInv /\ TypeOK /\ Phases /\ Tokens /\ HookCertain /\ AllCertain
  BY DEF TrackInv, ChainInv
<1>t. /\ req \in [Items -> ReqPcs] /\ rtok \in [Items -> Nat]
      /\ pending \in Nat /\ next \in Nat \ {0}
  BY <1>0 DEF TypeOK
<1>w. UNCHANGED <<wpc, job, back, wtok, wiki, snap, lost>>
  BY DEF Commit, Request, UploadWord, UploadPlain, ReqMark, ReqEnqueue, ReqAck,
         PushWiki, redis, worker
<1>h. \A kind : InHand(kind)' <=> InHand(kind)
  BY <1>w DEF InHand
<1>1. CASE Commit(i)
  <2>1. /\ req' \in {[req EXCEPT ![i] = "mark"], [req EXCEPT ![i] = "committed"]}
        /\ req[i] = "idle"
        /\ lib' \subseteq lib \cup {<<i, "file">>}
        /\ UNCHANGED <<rtok, pending, next, queue>>
    BY <1>1 DEF Commit, Req, mark, redis
  <2>2. \A kind : Queued(kind)' <=> Queued(kind)
    BY <2>1, QueueStays
  <2>3. Marked => Marked'
    BY <1>t, <1>w, <2>1 DEF Marked, Acking
  <2>4. Under(<<i, "file">>)'
    BY <1>t, <2>1 DEF Under
  <2>5. ASSUME NEW c \in Changes, Under(c) PROVE Under(c)'
    <3>1. c[1] \in Items /\ c[1] # i
      BY <2>1, <2>5 DEF Under, Changes
    <3> QED
      BY <1>t, <2>1, <2>5, <3>1 DEF Under
  <2>6. AllCertain'
    <3>1. lib' \subseteq Changes
      BY DEF ChainInv, TypeOK
    <3> QED
      BY <1>0, <1>w, <1>h, <2>1, <2>2, <2>3, <2>4, <2>5, <3>1
      DEF AllCertain, Certain, BuildComing, Cleans
  <2> QED
    BY <1>0, <1>w, <1>h, <2>1, <2>2, <2>3, <2>6
    DEF TrackInv, Phases, Tokens, HookCertain, BuildComing
<1>2. CASE UploadWord(i)
  <2>1. /\ req' = [req EXCEPT ![i] = "done"]
        /\ queue' = Append(queue, Clean(i))
        /\ UNCHANGED <<lib, rtok, pending, next>>
    BY <1>2 DEF UploadWord, Req, mark
  <2>2. \A kind : Queued(kind)' <=> Queued(kind) \/ kind = "clean"
    BY <1>0, <2>1, QueueGrows, JobTypes DEF Clean
  <2>3. Marked => Marked'
    BY <1>t, <1>w, <2>1 DEF Marked, Acking
  <2>4. AllCertain'
    BY <2>2 DEF AllCertain, Certain, Cleans
  <2> QED
    BY <1>0, <1>w, <1>h, <2>1, <2>2, <2>3, <2>4
    DEF TrackInv, Phases, Tokens, HookCertain, BuildComing
<1>3. CASE UploadPlain(i)
  <2>1. /\ req' = [req EXCEPT ![i] = IF Cleaning THEN "done" ELSE "mark"]
        /\ UNCHANGED <<lib, rtok, pending, next, queue>>
    BY <1>3 DEF UploadPlain, Req, mark, redis
  <2>2. \A kind : Queued(kind)' <=> Queued(kind)
    BY <2>1, QueueStays
  <2>3. Marked => Marked'
    BY <1>t, <1>w, <2>1 DEF Marked, Acking
  <2>4. Cleaning => Cleans \/ BuildComing \/ Marked
    BY <1>0 DEF Cleaning, Cleans, HookCertain, InHand, Phases, TypeOK, WorkPcs, ChainInv
  <2>5. ~ Cleaning => \A c : Under(c) => Under(c)'
    BY <1>t, <2>1 DEF Under
  <2>6. AllCertain'
    BY <1>0, <1>w, <1>h, <2>1, <2>2, <2>3, <2>4, <2>5
    DEF AllCertain, Certain, BuildComing, Cleans
  <2> QED
    BY <1>0, <1>w, <1>h, <2>1, <2>2, <2>3, <2>6
    DEF TrackInv, Phases, Tokens, HookCertain, BuildComing
<1>4. CASE ReqMark(i)
  <2>1. /\ req' = [req EXCEPT ![i] = "enqueue"]
        /\ rtok' = [rtok EXCEPT ![i] = next] /\ SetPending
        /\ UNCHANGED <<lib, queue>>
    BY <1>4 DEF ReqMark, Req, redis
  <2>2. \A kind : Queued(kind)' <=> Queued(kind)
    BY <2>1, QueueStays
  <2>3. wpc # "ack" => Marked'
    BY <1>0, <1>t, <1>w, <2>1, NewMark
  <2>4. wpc = "ack" => Marked'
    BY <1>0, <1>t, <1>w, <2>1 DEF Marked, Acking, SetPending, Tokens, TypeOK
  <2>5. AllCertain'
    BY <2>3, <2>4 DEF AllCertain, Certain
  <2>6. Tokens'
    BY <1>0, <1>t, <1>w, <2>1 DEF Tokens, SetPending, TypeOK
  <2> QED
    BY <1>0, <1>w, <1>h, <2>1, <2>2, <2>3, <2>4, <2>5, <2>6
    DEF TrackInv, Phases, HookCertain
<1>5. CASE ReqEnqueue(i)
  <2>1. UNCHANGED <<lib, rtok, pending, next>>
    BY <1>5 DEF ReqEnqueue, mark
  <2>2. CASE queue' = Append(queue, Wiki)
    <3>1. /\ BuildComing' /\ (Queued("clean")' <=> Queued("clean"))
          /\ (Queued("deep")' <=> Queued("deep"))
      BY <1>0, <2>2, PushCovers
    <3>2. AllCertain' /\ HookCertain'
      BY <3>1 DEF AllCertain, Certain, HookCertain
    <3> QED
      BY <1>0, <1>w, <2>1, <3>1, <3>2 DEF TrackInv, Phases, Tokens
  <2>3. CASE queue' = queue /\ req' = [req EXCEPT ![i] = "done"] /\ req[i] = "enqueue"
    <3>1. \A kind : Queued(kind)' <=> Queued(kind)
      BY <2>3, QueueStays
    <3>2. Marked => Marked'
      BY <1>t, <1>w, <2>1, <2>3 DEF Marked, Acking
    <3>3. \A c : Under(c) => Under(c)'
      BY <1>t, <2>3 DEF Under
    <3>4. AllCertain'
      BY <1>0, <1>w, <1>h, <2>1, <3>1, <3>2, <3>3
      DEF AllCertain, Certain, BuildComing, Cleans
    <3> QED
      BY <1>0, <1>w, <1>h, <2>1, <3>1, <3>2, <3>4
      DEF TrackInv, Phases, Tokens, HookCertain, BuildComing
  <2> QED
    BY <1>5, <2>2, <2>3 DEF ReqEnqueue, Req, PushWiki, redis
<1>6. CASE ReqAck(i)
  <2>1. /\ req' = [req EXCEPT ![i] = "done"] /\ req[i] = "ack"
        /\ pending' = IF rtok[i] # 0 /\ pending = rtok[i] THEN 0 ELSE pending
        /\ UNCHANGED <<lib, rtok, next, queue>>
    BY <1>6 DEF ReqAck, Req, Ack, redis
  <2>2. \A kind : Queued(kind)' <=> Queued(kind)
    BY <2>1, QueueStays
  <2>3. Marked => Marked'
    <3>1. Marked => pending' = pending
      BY <1>t, <2>1 DEF Marked, Acking
    <3> QED
      BY <1>t, <1>w, <2>1, <3>1 DEF Marked, Acking
  <2>4. \A c : Under(c) => Under(c)'
    BY <1>t, <2>1 DEF Under
  <2>5. AllCertain'
    BY <1>0, <1>w, <1>h, <2>1, <2>2, <2>3, <2>4
    DEF AllCertain, Certain, BuildComing, Cleans
  <2>6. Tokens'
    BY <1>0, <1>t, <1>w, <2>1 DEF Tokens
  <2> QED
    BY <1>0, <1>w, <1>h, <2>1, <2>2, <2>3, <2>5, <2>6
    DEF TrackInv, Phases, HookCertain, BuildComing
<1> QED
  BY <1>1, <1>2, <1>3, <1>4, <1>5, <1>6 DEF Request
\* A mark stays as good as it is, while nobody sets out to delete it.
LEMMA MarkStays ==
  ASSUME UNCHANGED <<pending, req, rtok>>,
         wpc' = "ack" => wpc = "ack" /\ wtok' = wtok
  PROVE  Marked => Marked'
  BY DEF Marked, Acking

\* The worker takes up a job: a cleaning or a build, which covers every change.
LEMMA TrackDequeue ==
  ASSUME ChainConstants, TrackInv, ChainInv', Dequeue
  PROVE  TrackInv'
<1>0. ChainInv /\ TypeOK /\ Phases /\ Tokens
  BY DEF TrackInv, ChainInv
<1>1. /\ queue \in Seq(Job) /\ queue # <<>>
      /\ job' = Head(queue) /\ queue' = Tail(queue) /\ back' = "end"
      /\ UNCHANGED <<rtok, wtok, pending, next>>
  BY <1>0 DEF TypeOK, Dequeue, requests, mark
<1>2. \A kind : Queued(kind) <=> job'.kind = kind \/ Queued(kind)'
  <2> TAKE kind
  <2>1. HasKind(queue, kind) <=> Head(queue).kind = kind \/ HasKind(Tail(queue), kind)
    BY <1>1, HasKindTail
  <2> QED
    BY <1>1, <2>1 DEF Queued, HasKind
<1>3. job'.kind # "deep" /\ ~ Queued("deep")'
  BY <1>0, <1>2 DEF Phases
<1>4. job' \in Job
  BY <1>1, HasKindTail
<1>5. \/ job'.kind = "clean" /\ wpc' = "clean"
      \/ job'.kind = "wiki" /\ wpc' = "build"
  BY <1>3, <1>4, JobTypes DEF Dequeue
<1>6. Phases' /\ Tokens' /\ HookCertain'
  BY <1>0, <1>1, <1>3, <1>5 DEF Phases, Tokens, HookCertain
<1>7. AllCertain'
  BY <1>1, <1>5 DEF AllCertain, Certain, BuildComing, Cleans, InHand
<1> QED
  BY <1>6, <1>7 DEF TrackInv

\* The end of a cleaning, and its hook.
LEMMA TrackClean ==
  ASSUME ChainConstants, TrackInv, ChainInv', CleanEnds \/ CleanHook
  PROVE  TrackInv'
<1>0. Phases /\ Tokens
  BY DEF TrackInv
<1>1. /\ UNCHANGED <<queue, job, back, rtok, wtok, pending, next>>
      /\ job.kind = "clean" /\ back = "end"
      /\ \/ wpc' \in {"cleanHook", "mark"}
         \/ wpc' = "end" /\ Queued("clean")
  BY <1>0 DEF CleanEnds, CleanHook, LastClean, Work, requests, mark, redis, Phases
<1>2. \A kind : Queued(kind)' <=> Queued(kind)
  BY <1>1, QueueStays
<1>3. Phases' /\ Tokens'
  BY <1>0, <1>1, <1>2 DEF Phases, Tokens
<1>4. HookCertain' /\ AllCertain'
  BY <1>1, <1>2 DEF HookCertain, AllCertain, Certain, Cleans
<1> QED
  BY <1>3, <1>4 DEF TrackInv

\* A build covers what is in the library when it reads it; when it ends, what it has
\* read is shown or lost.
LEMMA TrackBuild ==
  ASSUME ChainConstants, Followed, TrackInv, ChainInv',
         BuildStart \/ BuildEnds \/ BuildFails
  PROVE  TrackInv'
<1>0. ChainInv /\ TypeOK /\ Layers /\ Phases /\ Tokens /\ AllCertain
  BY DEF TrackInv, ChainInv
<1>w. /\ UNCHANGED <<lib, req, rtok, pending, next, job, back, wtok>>
      /\ job.kind = "wiki" /\ back = "end"
      /\ wpc' \in {"building", "end"}
  BY <1>0 DEF BuildStart, BuildEnds, BuildFails, Work, requests, mark, Phases
<1>1. \A kind : Queued(kind)' <=> Queued(kind)
  <2>1. CASE BuildStart
    <3>1. PICK s \in Seq({DeepParse(i) : i \in Deep}) : queue' = queue \o s
      BY <1>0, <2>1, DeepJobs
    <3>2. s = <<>>
      <4>1. {DeepParse(i) : i \in Deep} = {}
        BY DEF Followed
      <4> QED
        BY <3>1, <4>1
    <3>3. queue' = queue
      BY <1>0, <3>1, <3>2 DEF TypeOK
    <3> QED
      BY <3>3, QueueStays
  <2>2. CASE BuildEnds \/ BuildFails
    <3>1. queue' = queue
      BY <2>2 DEF BuildEnds, BuildFails, redis
    <3> QED
      BY <3>1, QueueStays
  <2> QED
    BY <2>1, <2>2
<1>2. Phases' /\ Tokens' /\ HookCertain'
  BY <1>0, <1>w, <1>1 DEF Phases, Tokens, HookCertain, InHand
<1>3. CASE BuildStart
  <2>1. wpc' = "building" /\ snap' = lib
    BY <1>3 DEF BuildStart, Work
  <2>2. AllCertain'
    BY <1>w, <2>1 DEF AllCertain, Certain
  <2> QED
    BY <1>2, <2>2 DEF TrackInv
<1>4. CASE BuildEnds \/ BuildFails
  <2>1. /\ wpc = "building" /\ wpc' = "end"
        /\ snap \subseteq wiki' \cup lost'
        /\ wiki \cup lost \subseteq wiki' \cup lost'
    BY <1>0, <1>4 DEF BuildEnds, BuildFails, Work, Layers
  <2>2. Marked => Marked'
    BY <1>w, <2>1, MarkStays
  <2>3. AllCertain'
    BY <1>0, <1>w, <1>1, <2>1, <2>2
    DEF AllCertain, Certain, BuildComing, Cleans, Under
  <2> QED
    BY <1>2, <2>3 DEF TrackInv
<1> QED
  BY <1>3, <1>4

\* The worker passes changes on: it marks them, and queues a build before it
\* deletes its mark.
LEMMA TrackPass ==
  ASSUME ChainConstants, TrackInv, ChainInv', WorkMark \/ WorkEnqueue \/ WorkAck
  PROVE  TrackInv'
<1>0. ChainInv /\ TypeOK /\ Phases /\ Tokens /\ HookCertain /\ AllCertain
  BY DEF TrackInv, ChainInv
<1>t. /\ pending \in Nat /\ next \in Nat \ {0} /\ wtok \in Nat
      /\ back \in {"idle", "end"}
  BY <1>0 DEF TypeOK
<1>w. UNCHANGED <<lib, wiki, snap, lost, req, rtok, job, back>>
  BY DEF WorkMark, WorkEnqueue, WorkAck, requests
<1>1. CASE WorkMark
  <2>1. /\ wpc = "mark" /\ wpc' = "enqueue" /\ wtok' = next /\ SetPending
        /\ queue' = queue
    BY <1>1 DEF WorkMark, Work, redis
  <2>2. \A kind : Queued(kind)' <=> Queued(kind)
    BY <2>1, QueueStays
  <2>3. Marked'
    BY <1>0, <1>w, <2>1, NewMark
  <2>4. AllCertain' /\ HookCertain'
    BY <2>3 DEF AllCertain, Certain, HookCertain
  <2>5. Tokens'
    <3>1. next' = next + 1 /\ pending' = next
      BY <2>1 DEF SetPending
    <3>2. \A i \in Items : rtok[i] \in Nat /\ rtok[i] < next
      BY <1>0 DEF TypeOK, Tokens
    <3> QED
      BY <1>t, <1>w, <2>1, <3>1, <3>2 DEF Tokens
  <2>6. Phases'
    BY <1>0, <1>w, <2>1, <2>2 DEF Phases
  <2> QED
    BY <2>4, <2>5, <2>6 DEF TrackInv
<1>2. CASE WorkEnqueue /\ queue' = Append(queue, Wiki)
  <2>1. /\ BuildComing' /\ (Queued("clean")' <=> Queued("clean"))
        /\ (Queued("deep")' <=> Queued("deep"))
    BY <1>0, <1>2, PushCovers
  <2>2. AllCertain' /\ HookCertain'
    BY <2>1 DEF AllCertain, Certain, HookCertain
  <2>3. /\ UNCHANGED <<pending, next, wtok>>
        /\ wpc = "enqueue" /\ wpc' \in {"ack", back}
    BY <1>2 DEF WorkEnqueue, Work, mark
  <2>4. Phases' /\ Tokens'
    BY <1>0, <1>t, <1>w, <2>1, <2>3 DEF Phases, Tokens
  <2> QED
    BY <2>2, <2>4 DEF TrackInv
<1>3. CASE WorkAck \/ (WorkEnqueue /\ queue' = queue /\ wpc' = back)
  <2>1. /\ wpc \in {"enqueue", "ack"} /\ wpc' = back /\ queue' = queue
        /\ UNCHANGED <<next, wtok>>
        /\ \/ pending' = pending
           \/ wpc = "ack" /\ wtok = pending /\ pending' = 0
    BY <1>3 DEF WorkAck, WorkEnqueue, Work, Ack, mark, redis
  <2>2. \A kind : Queued(kind)' <=> Queued(kind)
    BY <2>1, QueueStays
  <2>3. Marked => Marked'
    <3>1. Marked => pending' = pending
      BY <2>1 DEF Marked, Acking
    <3>2. wpc' # "ack"
      BY <1>t, <2>1
    <3> QED
      BY <1>w, <3>1, <3>2, MarkStays
  <2>4. AllCertain'
    BY <1>0, <1>w, <2>1, <2>2, <2>3
    DEF AllCertain, Certain, BuildComing, Cleans, Under
  <2>5. HookCertain'
    BY <1>0, <1>t, <1>w, <2>1, <2>2, <2>3
    DEF HookCertain, BuildComing, InHand
  <2>6. Tokens'
    BY <1>0, <1>t, <1>w, <2>1 DEF Tokens
  <2>7. Phases'
    BY <1>0, <1>t, <1>w, <2>1, <2>2 DEF Phases
  <2> QED
    BY <2>4, <2>5, <2>6, <2>7 DEF TrackInv
<1> QED
  <2>1. WorkEnqueue => \/ queue' = Append(queue, Wiki)
                       \/ queue' = queue /\ wpc' = back
    BY DEF WorkEnqueue, Work, PushWiki, redis
  <2> QED
    BY <1>1, <1>2, <1>3, <2>1

\* Between two jobs nothing is covered by a job in hand.
LEMMA TrackIdle ==
  ASSUME ChainConstants, TrackInv, ChainInv',
         EndJob \/ Release \/ Retry \/ IdleRetry \/ Expire
  PROVE  TrackInv'
<1>0. ChainInv /\ TypeOK /\ Phases /\ Tokens /\ HookCertain /\ AllCertain
  BY DEF TrackInv, ChainInv
<1>w. UNCHANGED <<lib, wiki, snap, lost, req, rtok, pending, next, queue, job>>
  BY DEF EndJob, Release, Retry, IdleRetry, Expire, requests, mark, redis, worker
<1>1. \A kind : Queued(kind)' <=> Queued(kind)
  BY <1>w, QueueStays
<1>2. CASE Expire
  <2>1. UNCHANGED <<wpc, back, wtok>>
    BY <1>2 DEF Expire, worker
  <2>2. Marked => Marked'
    BY <1>w, <2>1, MarkStays
  <2> QED
    BY <1>0, <1>w, <1>1, <2>1, <2>2
    DEF TrackInv, Phases, Tokens, HookCertain, AllCertain, Certain, BuildComing,
        Cleans, Under, InHand
<1>3. CASE ~ Expire
  <2>1. /\ wpc \in {"idle", "end", "release", "retry"}
        /\ wpc' \in {"idle", "release", "retry", "enqueue"}
        /\ back' = "idle"
        /\ wtok' = wtok \/ wtok' = pending
    BY <1>0, <1>3 DEF EndJob, Release, Retry, IdleRetry, Work, Phases
  <2>2. Marked => Marked'
    BY <1>w, <2>1, MarkStays
  <2>3. AllCertain'
    BY <1>0, <1>w, <1>1, <2>1, <2>2
    DEF AllCertain, Certain, BuildComing, Cleans, Under
  <2>4. Phases' /\ HookCertain'
    BY <1>0, <1>w, <1>1, <2>1 DEF Phases, HookCertain, InHand
  <2>5. Tokens'
    BY <1>0, <1>w, <2>1 DEF Tokens
  <2> QED
    BY <2>3, <2>4, <2>5 DEF TrackInv
<1> QED
  BY <1>2, <1>3

\* The job in hand is delivered again, with what it stood for.
LEMMA TrackCrash ==
  ASSUME ChainConstants, TrackInv, ChainInv', Crash
  PROVE  TrackInv'
<1>0. ChainInv /\ TypeOK /\ Phases /\ Tokens /\ AllCertain
  BY DEF TrackInv, ChainInv
<1>t. queue \in Seq(Job) /\ job \in Job
  BY <1>0 DEF TypeOK
<1>w. /\ UNCHANGED <<lib, wiki, snap, lost, req, rtok, pending, next, job, wtok>>
      /\ wpc' = "idle" /\ back' = "idle"
      /\ queue' = IF back = "idle" THEN queue ELSE <<job>> \o queue
  BY DEF Crash, requests, mark
<1>1. \A kind : Queued(kind)' <=> Queued(kind) \/ (back # "idle" /\ job.kind = kind)
  <2>1. CASE back = "idle"
    BY <1>w, <2>1, QueueStays
  <2>2. CASE back # "idle"
    <3> TAKE kind
    <3>1. HasKind(<<job>> \o queue, kind) <=> HasKind(queue, kind) \/ job.kind = kind
      BY <1>t, HasKindFront
    <3>2. queue' = <<job>> \o queue
      BY <1>w, <2>2
    <3>3. HasKind(queue', kind) <=> HasKind(queue, kind) \/ job.kind = kind
      BY <3>1, <3>2
    <3> QED
      BY <2>2, <3>3 DEF Queued, HasKind
  <2> QED
    BY <2>1, <2>2
<1>2. Phases' /\ Tokens' /\ HookCertain'
  BY <1>0, <1>w, <1>1 DEF Phases, Tokens, HookCertain, InHand
<1>3. Marked => Marked'
  BY <1>w, MarkStays
<1>4. AllCertain'
  BY <1>0, <1>w, <1>1, <1>3
  DEF AllCertain, Certain, BuildComing, Cleans, Under, InHand, Phases
<1> QED
  BY <1>2, <1>4 DEF TrackInv

LEMMA StepTrack ==
  ASSUME ChainConstants, Followed
  PROVE  TrackInv /\ [Next]_vars => TrackInv'
<1> SUFFICES ASSUME TrackInv, [Next]_vars PROVE TrackInv'
  OBVIOUS
<1>0. ChainInv' /\ Phases
  BY StepChain DEF TrackInv
<1>1. CASE UNCHANGED vars
  <2>1. UNCHANGED <<lib, wiki, snap, lost, req, rtok, pending, next, queue, wpc, job,
                    back, wtok>>
    BY <1>1 DEF vars, requests, mark, redis, worker
  <2>2. \A kind : Queued(kind)' <=> Queued(kind)
    BY <2>1, QueueStays
  <2> QED
    BY <1>0, <2>1, <2>2
    DEF TrackInv, Phases, Tokens, HookCertain, AllCertain, Certain, BuildComing,
        Cleans, Under, InHand, Marked, Acking
<1>2. ~ CleanRaises /\ ~ BuildStartOld
  BY DEF Followed, CleanRaises, BuildStartOld, Fault
<1>3. ~ DeepEnds /\ ~ DeepHook
  BY <1>0 DEF Phases, DeepEnds, DeepHook, Work
<1> QED
  BY <1>0, <1>1, <1>2, <1>3, TrackRequest, TrackDequeue, TrackClean, TrackBuild,
     TrackPass, TrackIdle, TrackCrash
  DEF Next, WorkerStep

\* Without deep parses, and with every cleaning and every rebuilding of the index
\* ending: a change that the wiki lacks is never forgotten, although one pending
\* mark serves all requests, builds are told apart by nothing but the mark's token,
\* and the worker may be killed at any step (_ack_pending, on_material_cleaning_job_finished).
THEOREM ChangesAreTracked ==
  ASSUME ChainConstants, Followed
  PROVE  Spec => []ChangeTracked
<1>1. TrackInv => ChangeTracked
  BY DEF TrackInv, AllCertain, Certain, ChangeTracked, Cleans, Under, Marked
<1> QED
  BY <1>1, InitTrack, StepTrack, PTL DEF Spec
=============================================================================
