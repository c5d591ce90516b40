------------------------ MODULE FulltextExtract_proofs ------------------------
(***************************************************************************)
(* Theorems of FulltextExtract, for any number of uploads, moves and       *)
(* extractions of the PDF, any limit of failures, and any faults, and of   *)
(* the scenes of MC_Library, which cites those of the other components.    *)
(***************************************************************************)
EXTENDS MC_Library, TLAPS

-----------------------------------------------------------------------------
(* The inductive invariant.                                                *)

\* Source keys are new when they are given out: no profile, read by a move or in
\* the row, and no extraction knows the next one.
KeyInv ==
    /\ nextKey > 0 /\ key < nextKey
    /\ profile < nextKey /\ move.profile < nextKey
    /\ \A r \in Runners : src[r] < nextKey

\* Each upload and each move takes one key.
KeyCount ==
    nextKey + (IF move.pc = "read" THEN 1 ELSE 0) <= version + moves + 1

\* What an extraction may find of the text of its version, and may remove.
RunnerInv(r) ==
    /\ ver[r] <= version
    /\ pc[r] \in {"put", "unsure"} /\ ~ gone /\ ver[r] = version => version \in texts
    /\ pc[r] = "remove" => gone \/ ver[r] < version

\* The purge of an overwrite spares the version that took the place.
PurgeInv ==
    \A versions \in purge : gone \/ \A v \in versions : v < version

Structure ==
    /\ KeyInv /\ KeyCount /\ PurgeInv
    /\ \A r \in Runners : RunnerInv(r)

\* What a text that nobody will be served has left: a purge or an extraction.
Handled(v) ==
    \/ \E versions \in purge : v \in versions
    \/ \E r \in Runners : Busy(r, v)

ExtractInv == TypeOK /\ Structure /\ ServedTextExists /\ OldTextsRemoved

LEMMA Arithmetic ==
  /\ MaxVersion \in Nat \ {0} /\ MaxMoves \in Nat /\ MaxTries \in Nat \ {0}
  /\ MaxFaults \in Nat
  BY ExtractConstants

LEMMA InitExtract == Init => ExtractInv
<1> SUFFICES ASSUME Init PROVE ExtractInv
  OBVIOUS
<1>1. TypeOK
  <2>1. 1 \in Versions /\ 1 \in Keys /\ 0 \in 0..(MaxVersion + MaxMoves)
    BY Arithmetic DEF Versions, Keys
  <2>2. /\ 0 \in 0..MaxMoves /\ 0 \in 0..MaxTries /\ 0 \in 0..MaxFaults
    BY Arithmetic
  <2>3. move \in [pc : {"idle", "read"}, status : DpStatus,
                  profile : 0..(MaxVersion + MaxMoves), fails : Nat]
    BY <2>1 DEF Init, DpStatus
  <2> QED
    BY <2>1, <2>2, <2>3 DEF Init, TypeOK, DpStatus, RunPcs
<1>2. Structure
  BY Arithmetic DEF Init, Structure, KeyInv, KeyCount, PurgeInv, RunnerInv
<1>3. ServedTextExists /\ OldTextsRemoved
  BY DEF Init, ServedTextExists, Ready, OldTextsRemoved
<1> QED
  BY <1>1, <1>2, <1>3 DEF ExtractInv

-----------------------------------------------------------------------------
(* Library operations.                                                     *)

LEMMA StepUpload == ASSUME ExtractInv, UploadCommit PROVE ExtractInv'
<1> USE Arithmetic
<1>0. TypeOK /\ Structure /\ OldTextsRemoved
  BY DEF ExtractInv
<1>1. /\ ~ gone /\ version < MaxVersion
      /\ purge' = purge \cup {1..version}
      /\ version' = version + 1
      /\ key' = nextKey /\ nextKey' = nextKey + 1
      /\ status' = "none" /\ profile' = 0
      /\ UNCHANGED <<fails, gone, move, moves, texts, queued, inflight, tries,
                     pc, ver, src, faults>>
  BY DEF UploadCommit, jobs, runners
<1>2. 1..version \subseteq Versions
  BY <1>0 DEF TypeOK, Versions
<1>3. nextKey \in Keys
  BY <1>0, <1>1 DEF TypeOK, Structure, KeyInv, KeyCount, Keys, Versions
<1>4. TypeOK'
  BY <1>0, <1>1, <1>2, <1>3 DEF TypeOK, Versions, DpStatus
<1>5. KeyInv' /\ KeyCount'
  BY <1>0, <1>1 DEF TypeOK, Structure, KeyInv, KeyCount, Keys, Versions
<1>6. PurgeInv'
  BY <1>0, <1>1 DEF TypeOK, Structure, PurgeInv, Versions
<1>7. \A r \in Runners : RunnerInv(r)'
  BY <1>0, <1>1 DEF TypeOK, Structure, RunnerInv, Versions
<1>8. ServedTextExists'
  BY <1>0, <1>1 DEF Structure, KeyInv, ServedTextExists, Ready
<1>9. OldTextsRemoved'
  <2> SUFFICES ASSUME faults = 0, NEW v \in texts, v < version + 1
               PROVE  Handled(v)'
    BY <1>1 DEF OldTextsRemoved, Handled
  <2>1. v \in 1..version
    BY <1>0 DEF TypeOK, Versions
  <2> QED
    BY <1>1, <2>1 DEF Handled
<1> QED
  BY <1>4, <1>5, <1>6, <1>7, <1>8, <1>9 DEF ExtractInv, Structure

LEMMA StepPurge == ASSUME ExtractInv, Purge PROVE ExtractInv'
<1>0. TypeOK /\ Structure /\ ServedTextExists /\ OldTextsRemoved
  BY DEF ExtractInv
<1>1. PICK versions \in purge :
        /\ purge' = purge \ {versions}
        /\ texts' = texts \ versions
        /\ UNCHANGED <<version, key, status, profile, fails, gone, nextKey, move,
                       moves, queued, inflight, tries, pc, ver, src, faults>>
  BY DEF Purge, Purged, row, jobs, runners
<1>2. TypeOK'
  BY <1>0, <1>1 DEF TypeOK
<1>3. gone \/ version \notin versions
  BY <1>0, <1>1 DEF Structure, PurgeInv, TypeOK, Versions
<1>4. KeyInv' /\ KeyCount' /\ PurgeInv'
  BY <1>0, <1>1 DEF Structure, KeyInv, KeyCount, PurgeInv
<1>5. \A r \in Runners : RunnerInv(r)'
  BY <1>0, <1>1, <1>3 DEF Structure, RunnerInv
<1>6. ServedTextExists'
  BY <1>0, <1>1, <1>3 DEF ServedTextExists, Ready
<1>7. OldTextsRemoved'
  BY <1>0, <1>1 DEF OldTextsRemoved, Busy
<1> QED
  BY <1>2, <1>4, <1>5, <1>6, <1>7 DEF ExtractInv, Structure

LEMMA StepMoveRead == ASSUME ExtractInv, MoveRead PROVE ExtractInv'
<1> USE Arithmetic
<1>0. TypeOK /\ Structure /\ ServedTextExists /\ OldTextsRemoved
  BY DEF ExtractInv
<1>1. /\ move.pc = "idle" /\ moves < MaxMoves
      /\ moves' = moves + 1
      /\ move' = [pc |-> "read", status |-> status, profile |-> profile,
                  fails |-> fails]
      /\ UNCHANGED <<version, key, status, profile, fails, gone, nextKey, purge,
                     texts, queued, inflight, tries, pc, ver, src, faults>>
  BY DEF MoveRead, row, jobs, runners
<1>2. TypeOK'
  BY <1>0, <1>1 DEF TypeOK
<1>3. move'.pc = "read" /\ move'.profile = profile
  BY <1>1
<1>4. KeyInv' /\ KeyCount'
  BY <1>0, <1>1, <1>3 DEF TypeOK, Structure, KeyInv, KeyCount, Versions
<1>5. PurgeInv' /\ \A r \in Runners : RunnerInv(r)'
  BY <1>0, <1>1 DEF Structure, PurgeInv, RunnerInv
<1>6. ServedTextExists' /\ OldTextsRemoved'
  BY <1>0, <1>1 DEF ServedTextExists, Ready, OldTextsRemoved, Busy
<1> QED
  BY <1>2, <1>4, <1>5, <1>6 DEF ExtractInv, Structure

LEMMA StepMoveCommit == ASSUME ExtractInv, MoveCommit PROVE ExtractInv'
<1> USE Arithmetic
<1>0. TypeOK /\ Structure /\ ServedTextExists /\ OldTextsRemoved
  BY DEF ExtractInv
<1>1. /\ move.pc = "read" /\ move' = [move EXCEPT !.pc = "idle"]
      /\ UNCHANGED <<version, gone, moves, purge, texts, queued, inflight, tries,
                     pc, ver, src, faults>>
  BY DEF MoveCommit, row, jobs, runners
<1>2. \/ UNCHANGED <<key, status, profile, fails, nextKey>>
      \/ /\ key' = nextKey /\ nextKey' = nextKey + 1
         /\ status' = move.status /\ profile' = move.profile
         /\ fails' = move.fails
  BY DEF MoveCommit, row
<1>3. /\ move' \in [pc : {"idle", "read"}, status : DpStatus,
                    profile : 0..(MaxVersion + MaxMoves), fails : Nat]
      /\ move'.pc = "idle" /\ move'.profile = move.profile
  BY <1>0, <1>1 DEF TypeOK
<1>4. nextKey \in Keys
  BY <1>0, <1>1 DEF TypeOK, Structure, KeyInv, KeyCount, Keys, Versions
<1>5. TypeOK'
  BY <1>0, <1>1, <1>2, <1>3, <1>4 DEF TypeOK
<1>6. KeyInv' /\ KeyCount'
  BY <1>0, <1>1, <1>2, <1>3 DEF TypeOK, Structure, KeyInv, KeyCount, Keys, Versions
<1>7. PurgeInv' /\ \A r \in Runners : RunnerInv(r)'
  BY <1>0, <1>1 DEF Structure, PurgeInv, RunnerInv
<1>8. ServedTextExists'
  BY <1>0, <1>1, <1>2 DEF TypeOK, Structure, KeyInv, ServedTextExists, Ready
<1>9. OldTextsRemoved'
  BY <1>0, <1>1 DEF OldTextsRemoved, Busy
<1> QED
  BY <1>5, <1>6, <1>7, <1>8, <1>9 DEF ExtractInv, Structure

LEMMA StepDelete == ASSUME ExtractInv, Delete PROVE ExtractInv'
<1>0. TypeOK /\ Structure
  BY DEF ExtractInv
<1>1. /\ gone' = TRUE /\ purge' = purge \cup {Versions}
      /\ UNCHANGED <<version, key, status, profile, fails, nextKey, move, moves,
                     texts, queued, inflight, tries, pc, ver, src, faults>>
  BY DEF Delete, jobs, runners
<1>2. TypeOK'
  BY <1>0, <1>1 DEF TypeOK
<1>3. Structure'
  BY <1>0, <1>1 DEF Structure, KeyInv, KeyCount, PurgeInv, RunnerInv
<1>4. ServedTextExists'
  BY <1>1 DEF ServedTextExists
<1>5. OldTextsRemoved'
  BY <1>0, <1>1 DEF OldTextsRemoved, TypeOK
<1> QED
  BY <1>2, <1>3, <1>4, <1>5 DEF ExtractInv

LEMMA StepQueue == ASSUME ExtractInv, QueueJob \/ QueueLocal PROVE ExtractInv'
<1> USE Arithmetic
<1>0. TypeOK /\ Structure /\ ServedTextExists /\ OldTextsRemoved
  BY DEF ExtractInv
<1>1. /\ tries < MaxTries /\ tries' = tries + 1
      /\ queued' \in BOOLEAN /\ inflight' \in BOOLEAN
      /\ faults' \in 0..MaxFaults /\ (faults' = 0 => faults = 0)
      /\ UNCHANGED <<version, key, status, profile, fails, gone, purge, nextKey,
                     move, moves, texts, pc, ver, src>>
  <2>1. faults \in 0..MaxFaults /\ queued \in BOOLEAN /\ inflight \in BOOLEAN
    BY <1>0 DEF TypeOK
  <2>2. CASE QueueJob
    BY <2>1, <2>2 DEF QueueJob, MayQueue, row, files, runners
  <2>3. CASE QueueLocal
    <3>1. faults' \in 0..MaxFaults /\ faults' # 0
      BY <2>1, <2>3 DEF QueueLocal, Fault
    <3> QED
      BY <2>1, <2>3, <3>1 DEF QueueLocal, MayQueue, row, files, runners
  <2> QED
    BY <2>2, <2>3
<1>2. TypeOK'
  BY <1>0, <1>1 DEF TypeOK
<1>3. Structure'
  BY <1>0, <1>1 DEF Structure, KeyInv, KeyCount, PurgeInv, RunnerInv
<1>4. ServedTextExists' /\ OldTextsRemoved'
  BY <1>0, <1>1 DEF ServedTextExists, Ready, OldTextsRemoved, Busy
<1> QED
  BY <1>2, <1>3, <1>4 DEF ExtractInv
-----------------------------------------------------------------------------
(* Extractions.                                                            *)

\* A step that leaves the texts alone, and at most writes the status of the row.
LEMMA StepQuiet ==
  ASSUME ExtractInv, NEW r \in Runners, NEW to \in RunPcs,
         pc' = [pc EXCEPT ![r] = to],
         UNCHANGED <<version, key, gone, purge, nextKey, move, moves, texts, tries>>,
         status' \in DpStatus, fails' \in Nat,
         \/ profile' = profile
         \/ profile' = src[r] /\ (key = src[r] /\ ~ gone => version \in texts),
         queued' \in BOOLEAN, inflight' \in BOOLEAN,
         faults' \in 0..MaxFaults, faults' = 0 => faults = 0,
         ver' \in [Runners -> Versions], src' \in [Runners -> Keys],
         src'[r] < nextKey,
         \A q \in Runners \ {r} : ver'[q] = ver[q] /\ src'[q] = src[q],
         RunnerInv(r)',
         faults' = 0 /\ Busy(r, ver[r]) /\ (gone \/ ver[r] < version) =>
             ver' = ver /\ Busy(r, ver[r])'
  PROVE  ExtractInv'
<1> USE Arithmetic
<1>0. TypeOK /\ Structure /\ ServedTextExists /\ OldTextsRemoved
  BY DEF ExtractInv
<1>1. src[r] < nextKey /\ src[r] \in 0..(MaxVersion + MaxMoves)
  BY <1>0 DEF TypeOK, Structure, KeyInv, Keys
<1>2. TypeOK'
  BY <1>0, <1>1 DEF TypeOK
<1>3. KeyInv' /\ KeyCount' /\ PurgeInv'
  BY <1>0, <1>1 DEF Structure, KeyInv, KeyCount, PurgeInv
<1>4. \A q \in Runners : RunnerInv(q)'
  <2>1. ASSUME NEW q \in Runners \ {r} PROVE RunnerInv(q)'
    BY <1>0 DEF TypeOK, Structure, RunnerInv
  <2> QED
    BY <2>1
<1>5. ServedTextExists'
  BY <1>0 DEF ServedTextExists, Ready
<1>6. OldTextsRemoved'
  <2> SUFFICES ASSUME faults' = 0, NEW v \in texts, gone \/ v < version
               PROVE  Handled(v)'
    BY DEF OldTextsRemoved, Handled
  <2>1. CASE \E versions \in purge : v \in versions
    BY <2>1 DEF Handled
  <2>2. ASSUME NEW q \in Runners, Busy(q, v) PROVE Handled(v)'
    <3>1. CASE q = r
      BY <2>2, <3>1 DEF Busy, Handled
    <3>2. CASE q # r
      <4>1. Busy(q, v)'
        BY <1>0, <2>2, <3>2 DEF Busy, TypeOK
      <4> QED
        BY <4>1 DEF Handled
    <3> QED
      BY <3>1, <3>2
  <2> QED
    BY <1>0, <2>1, <2>2 DEF OldTextsRemoved
<1> QED
  BY <1>2, <1>3, <1>4, <1>5, <1>6 DEF ExtractInv, Structure

\* What a status write may do to the row.
LEMMA Written ==
  ASSUME ExtractInv, NEW r \in Runners, NEW to \in {"running", "failed", "parsed"},
         WriteStatus(r, to)
  PROVE  /\ UNCHANGED <<version, key, gone>>
         /\ status' \in DpStatus /\ fails' \in Nat
         /\ \/ profile' = profile
            \/ to = "parsed" /\ Same(r) /\ profile' = src[r]
<1>0. fails \in Nat /\ status \in DpStatus
  BY DEF ExtractInv, TypeOK
<1>1. CASE ~ Same(r)
  BY <1>0, <1>1 DEF WriteStatus, row
<1>2. CASE Same(r)
  <2>1. CASE to = "running"
    BY <1>0, <1>2, <2>1 DEF WriteStatus, DpStatus
  <2>2. CASE to = "failed"
    BY <1>0, <1>2, <2>2 DEF WriteStatus, DpStatus
  <2>3. CASE to = "parsed"
    BY <1>0, <1>2, <2>3 DEF WriteStatus, DpStatus
  <2> QED
    BY <2>1, <2>2, <2>3
<1> QED
  BY <1>1, <1>2

LEMMA FaultCounted ==
  ASSUME TypeOK, Fault
  PROVE  faults' \in 0..MaxFaults /\ faults' # 0
  BY Arithmetic DEF Fault, TypeOK

LEMMA StepPutText ==
  ASSUME ExtractInv, NEW r \in Runners, PutText(r)
  PROVE  ExtractInv'
<1>0. TypeOK /\ Structure /\ ServedTextExists /\ OldTextsRemoved
  BY DEF ExtractInv
<1>1. /\ pc' = [pc EXCEPT ![r] = "put"] /\ pc[r] = "running"
      /\ texts' = texts \cup {ver[r]}
      /\ UNCHANGED <<version, key, status, profile, fails, gone, purge, nextKey,
                     move, moves, queued, inflight, tries, ver, src, faults>>
  BY DEF PutText, Go, row, files, jobs
<1>2. TypeOK'
  BY <1>0, <1>1 DEF TypeOK, RunPcs
<1>3. Structure'
  BY <1>0, <1>1 DEF TypeOK, Structure, KeyInv, KeyCount, PurgeInv, RunnerInv
<1>4. ServedTextExists'
  BY <1>0, <1>1 DEF ServedTextExists, Ready
<1>5. OldTextsRemoved'
  <2> SUFFICES ASSUME faults = 0, NEW v \in texts', gone \/ v < version
               PROVE  Handled(v)'
    BY <1>1 DEF OldTextsRemoved, Handled
  <2>1. CASE v = ver[r]
    BY <1>0, <1>1, <2>1 DEF Handled, Busy, TypeOK
  <2>2. CASE v \in texts
    BY <1>0, <1>1, <2>2 DEF OldTextsRemoved, Handled, Busy, TypeOK
  <2> QED
    BY <1>1, <2>1, <2>2
<1> QED
  BY <1>2, <1>3, <1>4, <1>5 DEF ExtractInv

LEMMA StepRemove ==
  ASSUME ExtractInv, NEW r \in Runners, Remove(r)
  PROVE  ExtractInv'
<1>0. TypeOK /\ Structure /\ ServedTextExists /\ OldTextsRemoved
  BY DEF ExtractInv
<1>1. /\ pc' = [pc EXCEPT ![r] = "end"] /\ pc[r] = "remove"
      /\ texts' = texts \ {ver[r]}
      /\ UNCHANGED <<version, key, status, profile, fails, gone, purge, nextKey,
                     move, moves, queued, inflight, tries, ver, src, faults>>
  BY DEF Remove, Go, row, files, jobs
<1>2. gone \/ ver[r] # version
  BY <1>0, <1>1 DEF Structure, RunnerInv, TypeOK, Versions
<1>3. TypeOK'
  BY <1>0, <1>1 DEF TypeOK, RunPcs
<1>4. Structure'
  BY <1>0, <1>1, <1>2 DEF TypeOK, Structure, KeyInv, KeyCount, PurgeInv, RunnerInv
<1>5. ServedTextExists'
  BY <1>0, <1>1, <1>2 DEF ServedTextExists, Ready
<1>6. OldTextsRemoved'
  BY <1>0, <1>1 DEF OldTextsRemoved, Busy, TypeOK
<1> QED
  BY <1>3, <1>4, <1>5, <1>6 DEF ExtractInv

LEMMA StepExtract ==
  ASSUME ExtractInv, NEW r \in Runners, Extract(r) \/ Crash(r)
  PROVE  ExtractInv'
<1>0. TypeOK /\ Structure /\ ServedTextExists
  BY DEF ExtractInv
<1>r. RunnerInv(r) /\ src[r] < nextKey /\ key < nextKey
  BY <1>0 DEF Structure, KeyInv
<1>t. /\ status \in DpStatus /\ fails \in Nat /\ faults \in 0..MaxFaults
      /\ queued \in BOOLEAN /\ inflight \in BOOLEAN
      /\ ver \in [Runners -> Versions] /\ src \in [Runners -> Keys]
      /\ pc \in [Runners -> RunPcs]
  BY <1>0 DEF TypeOK
<1>1. CASE Take(r)
  <2>1. RunnerInv(r)' /\ ~ Busy(r, ver[r])
    BY <1>1, <1>r, <1>t DEF Take, Go, row, RunnerInv, Busy
  <2> QED
    BY <1>1, <1>r, <1>t, <2>1, StepQuiet DEF Take, Go, row, files, jobs, RunPcs
<1>2. CASE ReadRow(r)
  <2>1. /\ version \in Versions /\ key \in Keys /\ version <= version
        /\ version' = version /\ key' = key
    BY <1>0, <1>2 DEF ReadRow, row, TypeOK, Versions
  <2>2. pc' = [pc EXCEPT ![r] = IF gone THEN "end" ELSE "read"] /\ pc[r] = "taken"
    BY <1>2 DEF ReadRow, Go
  <2>3. RunnerInv(r)' /\ ~ Busy(r, ver[r])
    BY <1>2, <1>t, <2>1, <2>2 DEF ReadRow, RunnerInv, Busy
  <2>4. /\ ver' \in [Runners -> Versions] /\ src' \in [Runners -> Keys]
        /\ src'[r] < nextKey
        /\ \A q \in Runners \ {r} : ver'[q] = ver[q] /\ src'[q] = src[q]
    BY <1>2, <1>r, <1>t, <2>1 DEF ReadRow
  <2>5. (IF gone THEN "end" ELSE "read") \in RunPcs
    BY DEF RunPcs
  <2> QED
    BY <1>2, <1>t, <2>2, <2>3, <2>4, <2>5, StepQuiet DEF ReadRow, row, files, jobs
<1>3. CASE MarkRunning(r)
  <2>1. /\ UNCHANGED <<version, key, gone>>
        /\ status' \in DpStatus /\ fails' \in Nat /\ profile' = profile
    BY <1>3, Written DEF MarkRunning
  <2>2. /\ pc' = [pc EXCEPT ![r] = IF Same(r) THEN "running" ELSE "end"]
        /\ pc[r] = "read"
    BY <1>3 DEF MarkRunning, Go
  <2>3. RunnerInv(r)' /\ ~ Busy(r, ver[r])
    BY <1>3, <1>r, <1>t, <2>1, <2>2 DEF MarkRunning, RunnerInv, Busy
  <2>4. (IF Same(r) THEN "running" ELSE "end") \in RunPcs
    BY DEF RunPcs
  <2> QED
    BY <1>3, <1>r, <1>t, <2>1, <2>2, <2>3, <2>4, StepQuiet
    DEF MarkRunning, files, jobs
<1>4. CASE ExtractFails(r)
  <2>1. /\ UNCHANGED <<version, key, gone>>
        /\ status' \in DpStatus /\ fails' \in Nat /\ profile' = profile
    BY <1>4, Written DEF ExtractFails
  <2>2. RunnerInv(r)' /\ ~ Busy(r, ver[r])
    BY <1>4, <1>r, <1>t, <2>1 DEF ExtractFails, Go, RunnerInv, Busy
  <2> QED
    BY <1>4, <1>r, <1>t, <2>1, <2>2, StepQuiet
    DEF ExtractFails, Go, files, jobs, RunPcs
<1>5. CASE Persist(r)
  <2>1. /\ UNCHANGED <<version, key, gone>>
        /\ status' \in DpStatus /\ fails' \in Nat
        /\ profile' = profile \/ (Same(r) /\ profile' = src[r])
    BY <1>5, Written DEF Persist
  <2>2. Same(r) => version \in texts
    BY <1>5, <1>r DEF Persist, Go, Same, RunnerInv
  <2>3. pc' = [pc EXCEPT ![r] = IF Same(r) THEN "end" ELSE "verify"]
    BY <1>5 DEF Persist, Go
  <2>4. RunnerInv(r)'
    BY <1>5, <1>r, <1>t, <2>1, <2>3 DEF Persist, RunnerInv
  <2>5. (IF Same(r) THEN "end" ELSE "verify") \in RunPcs
    BY DEF RunPcs
  <2>6. Busy(r, ver[r]) /\ (gone \/ ver[r] < version) => Busy(r, ver[r])'
    BY <1>0, <1>5, <1>t, <2>3 DEF Persist, Same, Busy, TypeOK, Versions
  <2> QED
    BY <1>5, <1>r, <1>t, <2>1, <2>2, <2>3, <2>4, <2>5, <2>6, StepQuiet
    DEF Persist, files, jobs
<1>6. CASE PersistRaises(r)
  <2>1. /\ UNCHANGED <<version, key, gone>>
        /\ status' \in DpStatus /\ fails' \in Nat
        /\ profile' = profile \/ (Same(r) /\ profile' = src[r])
    BY <1>6, <1>t, Written DEF PersistRaises, row
  <2>2. Same(r) => version \in texts
    BY <1>6, <1>r DEF PersistRaises, Go, Same, RunnerInv
  <2>3. RunnerInv(r)'
    BY <1>6, <1>r, <1>t, <2>1 DEF PersistRaises, Go, RunnerInv
  <2>4. faults' \in 0..MaxFaults /\ faults' # 0
    BY <1>0, <1>6, FaultCounted DEF PersistRaises
  <2> QED
    BY <1>6, <1>r, <1>t, <2>1, <2>2, <2>3, <2>4, StepQuiet
    DEF PersistRaises, Go, files, jobs, RunPcs
<1>7. CASE PersistFailed(r)
  <2>1. /\ UNCHANGED <<version, key, gone>>
        /\ status' \in DpStatus /\ fails' \in Nat /\ profile' = profile
    BY <1>7, <1>t, Written DEF PersistFailed, row
  <2>2. RunnerInv(r)'
    BY <1>7, <1>r, <1>t, <2>1 DEF PersistFailed, Go, RunnerInv
  <2>3. faults' \in 0..MaxFaults /\ (faults' = 0 => faults = 0)
    BY <1>0, <1>7, <1>t, FaultCounted DEF PersistFailed
  <2>4. Busy(r, ver[r])'
    BY <1>7, <1>t DEF PersistFailed, Go, Busy
  <2> QED
    BY <1>7, <1>r, <1>t, <2>1, <2>2, <2>3, <2>4, StepQuiet
    DEF PersistFailed, Go, files, jobs, RunPcs
<1>8. CASE Verify(r)
  <2>1. /\ pc' = [pc EXCEPT ![r] = IF Stale(r) THEN "remove" ELSE "end"]
        /\ UNCHANGED <<version, gone, ver>>
    BY <1>8 DEF Verify, Go, row
  <2>2. ver[r] \in Nat /\ version \in Nat
    BY <1>0, <1>t DEF TypeOK, Versions
  <2>3. RunnerInv(r)'
    BY <1>8, <1>r, <1>t, <2>1, <2>2 DEF Verify, Stale, RunnerInv
  <2>4. (IF Stale(r) THEN "remove" ELSE "end") \in RunPcs
    BY DEF RunPcs
  <2>5. gone \/ ver[r] < version => Busy(r, ver[r])'
    BY <1>t, <2>1, <2>2 DEF Stale, Busy
  <2> QED
    BY <1>8, <1>r, <1>t, <2>1, <2>3, <2>4, <2>5, StepQuiet
    DEF Verify, row, files, jobs
<1>9. CASE VerifyUnknown(r)
  <2>1. faults' \in 0..MaxFaults /\ faults' # 0
    BY <1>0, <1>9, FaultCounted DEF VerifyUnknown
  <2>2. RunnerInv(r)'
    BY <1>9, <1>r, <1>t DEF VerifyUnknown, Go, row, RunnerInv
  <2> QED
    BY <1>9, <1>r, <1>t, <2>1, <2>2, StepQuiet
    DEF VerifyUnknown, Go, row, files, jobs, RunPcs
<1>10. CASE End(r)
  <2>1. RunnerInv(r)' /\ ~ Busy(r, ver[r])
    BY <1>10, <1>r, <1>t DEF End, Go, row, RunnerInv, Busy
  <2>2. queued' \in BOOLEAN /\ inflight' \in BOOLEAN
    BY <1>10, <1>t DEF End
  <2> QED
    BY <1>10, <1>r, <1>t, <2>1, <2>2, StepQuiet DEF End, Go, row, files, RunPcs
<1>11. CASE Crash(r)
  <2>1. faults' \in 0..MaxFaults /\ faults' # 0
    BY <1>0, <1>11, FaultCounted DEF Crash
  <2>2. RunnerInv(r)' /\ inflight' \in BOOLEAN
    BY <1>11, <1>r, <1>t DEF Crash, row, RunnerInv
  <2> QED
    BY <1>11, <1>r, <1>t, <2>1, <2>2, StepQuiet DEF Crash, row, files, RunPcs
<1> QED
  BY <1>1, <1>2, <1>3, <1>4, <1>5, <1>6, <1>7, <1>8, <1>9, <1>10, <1>11,
     StepPutText, StepRemove DEF Extract

-----------------------------------------------------------------------------
(* Theorems.                                                               *)

LEMMA StepExtractInv == ExtractInv /\ [Next]_vars => ExtractInv'
<1> SUFFICES ASSUME ExtractInv, [Next]_vars PROVE ExtractInv'
  OBVIOUS
<1>1. CASE UNCHANGED vars
  BY <1>1
  DEF vars, row, files, jobs, runners, ExtractInv, TypeOK, Structure, KeyInv,
      KeyCount, PurgeInv, RunnerInv, ServedTextExists, Ready, OldTextsRemoved, Busy
<1> QED
  BY <1>1, StepUpload, StepPurge, StepMoveRead, StepMoveCommit, StepDelete,
     StepQueue, StepExtract DEF Next

\* Every reachable state is well typed: in particular no source key is given out
\* twice, however uploads and moves overlap.
THEOREM TypeCorrect == Spec => []TypeOK
<1>1. ExtractInv => TypeOK
  BY DEF ExtractInv
<1> QED
  BY <1>1, InitExtract, StepExtractInv, PTL DEF Spec

\* A profile that is served has its text in MinIO, through any overwrites, moves,
\* crashes, failed checks and extractions that end late (pdf_fulltext_for_raw_file).
THEOREM ServedTextIsThere == Spec => []ServedTextExists
<1>1. ExtractInv => ServedTextExists
  BY DEF ExtractInv
<1> QED
  BY <1>1, InitExtract, StepExtractInv, PTL DEF Spec

\* As long as nothing crashes and no check fails, the text of an old version or a
\* deleted PDF has a purge or an extraction that will remove it (_run_extract_job).
THEOREM OldTextsAreRemoved == Spec => []OldTextsRemoved
<1>1. ExtractInv => OldTextsRemoved
  BY DEF ExtractInv
<1> QED
  BY <1>1, InitExtract, StepExtractInv, PTL DEF Spec

-----------------------------------------------------------------------------
(* The scenes of MC_Library: what is proved of a component holds in the    *)
(* scenes in which it moves, and in the others it stands still.            *)

Cleans  == {"refusals", "crashes", "moves"}
Mirrors == {"chain", "deep"}

LEMMA SceneStays ==
  /\ [LibraryNext]_libraryVars => scene' = scene
  /\ [LibraryNext]_libraryVars
     => /\ scene = "refusals" => (scene = "refusals")'
        /\ scene = "crashes" => (scene = "crashes")'
        /\ scene = "moves" => (scene = "moves")'
        /\ scene = "chain" => (scene = "chain")'
        /\ scene = "deep" => (scene = "deep")'
  BY DEF LibraryNext, libraryVars, Scene

\* In a scene of its own an instance of MaterialCleaning moves; in those of the
\* others the files and their objects stay as they are.
LEMMA CleaningMoves ==
  /\ scene = "refusals" /\ [LibraryNext]_libraryVars
     => [Refusing!Next]_(Refusing!vars)
  /\ scene = "crashes" /\ [LibraryNext]_libraryVars
     => [Crashing!Next]_(Crashing!vars)
  /\ scene = "moves" /\ [LibraryNext]_libraryVars
     => [Moving!Next]_(Moving!vars)
  /\ scene \notin Cleans /\ [LibraryNext]_libraryVars => UNCHANGED cleanVars
<1>1. ASSUME scene \in Cleans, UNCHANGED libraryVars
      PROVE  UNCHANGED Refusing!vars /\ UNCHANGED Crashing!vars
             /\ UNCHANGED Moving!vars
  BY <1>1
  DEF libraryVars, cleanVars, Refusing!vars, Refusing!row, Refusing!minio,
      Refusing!uploads, Refusing!redis, Refusing!worker, Crashing!vars, Crashing!row,
      Crashing!minio, Crashing!uploads, Crashing!redis, Crashing!worker, Moving!vars,
      Moving!row, Moving!minio, Moving!uploads, Moving!redis, Moving!worker
<1>2. UNCHANGED libraryVars => UNCHANGED cleanVars
  BY DEF libraryVars
<1> QED
  BY <1>1, <1>2 DEF LibraryNext, Scene, Cleans

LEMMA CleaningStarts ==
  LibraryInit =>
    /\ scene = "refusals" => Refusing!Init
    /\ scene = "crashes" => Crashing!Init
    /\ scene = "moves" => Moving!Init
    /\ cVersion = [f \in {"doc"} |-> 0]
    /\ objs = [f \in {"doc"} |-> [v \in 1..3 |-> 0]] \/ scene = "moves"
  BY DEF LibraryInit, Refusing!Init, Crashing!Init, Moving!Init, Refusing!Jobs,
     Crashing!Jobs, Refusing!Versions, Crashing!Versions, Refusing!Keys, Crashing!Keys,
     Refusing!Dest, Crashing!Dest, Refusing!NoMove, Crashing!NoMove

\* In its scenes, with crashes, overwrites and moves, the artefact that a row of the
\* material library names is kept (_run_cleaning).
THEOREM SceneKeepsUsable == LibrarySpec => []UsableArtifactKept
<1>1. Crashing!Spec => []Crashing!UsableArtifactKept
  <2>1. "db" \notin Crashes
    BY DEF Crashes
  <2> QED
    BY <2>1, LibraryConstants, Crashing!UsableIsThere
<1>2. Moving!Spec => []Moving!UsableArtifactKept
  <2>1. "db" \notin Crashes
    BY DEF Crashes
  <2> QED
    BY <2>1, LibraryConstants, Moving!UsableIsThere
<1>3. scene = "crashes" /\ LibrarySpec => Crashing!Spec /\ [](scene = "crashes")
  BY CleaningStarts, CleaningMoves, SceneStays, PTL DEF LibrarySpec, Crashing!Spec
<1>4. scene = "moves" /\ LibrarySpec => Moving!Spec /\ [](scene = "moves")
  BY CleaningStarts, CleaningMoves, SceneStays, PTL DEF LibrarySpec, Moving!Spec
<1>5. scene = "refusals" /\ LibrarySpec => [](scene = "refusals")
  BY SceneStays, PTL DEF LibrarySpec
<1>6. /\ LibraryInit /\ scene \notin Cleans
         => scene \notin Cleans /\ cVersion = [f \in {"doc"} |-> 0]
      /\ /\ scene \notin Cleans /\ cVersion = [f \in {"doc"} |-> 0]
         /\ [LibraryNext]_libraryVars
         => (scene \notin Cleans /\ cVersion = [f \in {"doc"} |-> 0])'
  BY CleaningStarts, CleaningMoves, SceneStays DEF cleanVars
<1>7. scene \notin Cleans /\ LibrarySpec
      => [](scene \notin Cleans /\ cVersion = [f \in {"doc"} |-> 0])
  BY <1>6, PTL DEF LibrarySpec
<1>8. /\ scene = "crashes" /\ Crashing!UsableArtifactKept => UsableArtifactKept
      /\ scene = "moves" /\ Moving!UsableArtifactKept => UsableArtifactKept
      /\ scene = "refusals" => UsableArtifactKept
      /\ cVersion = [f \in {"doc"} |-> 0] => UsableArtifactKept
  BY DEF UsableArtifactKept, Crashing!UsableArtifactKept, Moving!UsableArtifactKept
<1>9. scene \notin Cleans \/ scene = "crashes" \/ scene = "moves" \/ scene = "refusals"
  BY DEF Cleans
<1> QED
  BY <1>1, <1>2, <1>3, <1>4, <1>5, <1>7, <1>8, <1>9, PTL

\* In the scene with refused writes and without crashes, every cleaned object has
\* an owner, or is one that MinIO refused to remove (_discard_stale_artifact).
THEOREM SceneLeavesNothing == LibrarySpec => []NoOrphan
<1>1. Refusing!Spec => []Refusing!NoOrphan
  <2>1. Refusals \cap {"api", "worker"} = {}
    BY DEF Refusals
  <2> QED
    BY <2>1, LibraryConstants, Refusing!NothingLeftBehind
<1>2. scene = "refusals" /\ LibrarySpec => Refusing!Spec
  BY CleaningStarts, CleaningMoves, SceneStays, PTL DEF LibrarySpec, Refusing!Spec
<1>3. scene # "refusals" /\ LibrarySpec => [](scene # "refusals")
  <2>1. scene # "refusals" /\ [LibraryNext]_libraryVars => (scene # "refusals")'
    BY SceneStays
  <2> QED
    BY <2>1, PTL DEF LibrarySpec
<1>4. /\ Refusing!NoOrphan => NoOrphan
      /\ scene # "refusals" => NoOrphan
      /\ scene = "refusals" \/ scene # "refusals"
  BY DEF NoOrphan
<1> QED
  BY <1>1, <1>2, <1>3, <1>4, PTL

LEMMA ChainMoves ==
  /\ scene = "chain" /\ [LibraryNext]_libraryVars => [Chain!Next]_(Chain!vars)
  /\ scene = "deep" /\ [LibraryNext]_libraryVars => [Deep!Next]_(Deep!vars)
  /\ scene \notin Mirrors /\ [LibraryNext]_libraryVars => UNCHANGED wikiVars
<1>1. UNCHANGED libraryVars
      => UNCHANGED Chain!vars /\ UNCHANGED Deep!vars /\ UNCHANGED wikiVars
  BY DEF libraryVars, wikiVars, Chain!vars, Chain!requests, Chain!mark, Chain!redis,
     Chain!worker, Deep!vars, Deep!requests, Deep!mark, Deep!redis, Deep!worker
<1> QED
  BY <1>1 DEF LibraryNext, Scene, Mirrors

LEMMA ChainStarts == LibraryInit => Chain!Init /\ Deep!Init
  BY DEF LibraryInit, Chain!Init, Deep!Init, Chain!Items, Deep!Items, Chain!Wiki,
     Deep!Wiki, Chain!NoItem, Deep!NoItem

\* In the scene without deep parses, no change that the wiki lacks is forgotten
\* (_ack_pending).
THEOREM SceneTracksChanges == LibrarySpec => []ChangeTracked
<1>1. Chain!Spec => []Chain!ChangeTracked
  <2>1. Chain!Followed
    BY DEF Chain!Followed, Breaks
  <2> QED
    BY <2>1, LibraryConstants, Chain!ChangesAreTracked
<1>2. scene = "chain" /\ LibrarySpec => Chain!Spec
  BY ChainStarts, ChainMoves, SceneStays, PTL DEF LibrarySpec, Chain!Spec
<1>3. scene # "chain" /\ LibrarySpec => [](scene # "chain")
  <2>1. scene # "chain" /\ [LibraryNext]_libraryVars => (scene # "chain")'
    BY SceneStays
  <2> QED
    BY <2>1, PTL DEF LibrarySpec
<1>4. /\ Chain!ChangeTracked => ChangeTracked
      /\ scene # "chain" => ChangeTracked
      /\ scene = "chain" \/ scene # "chain"
  BY DEF ChangeTracked
<1> QED
  BY <1>1, <1>2, <1>3, <1>4, PTL

\* In every scene the library and its wiki are a mirror and what it mirrors
\* (LibraryMirror): with deep parses and all faults as without.
THEOREM SceneMirrors == LibrarySpec => MirrorImplemented
<1>1. (Chain!Spec => Chain!MirrorImplemented) /\ (Deep!Spec => Deep!MirrorImplemented)
  BY LibraryConstants, Chain!ChainMirrors, Deep!ChainMirrors
<1>2. /\ Chain!Mirror!Init => Mirror!Init
      /\ Deep!Mirror!Init => Mirror!Init
      /\ [Chain!Mirror!Next]_<<lib, wiki>> => [Mirror!Next]_<<lib, wiki>>
      /\ [Deep!Mirror!Next]_<<lib, wiki>> => [Mirror!Next]_<<lib, wiki>>
  BY DEF Mirror!Init, Chain!Mirror!Init, Deep!Mirror!Init, Mirror!Next,
     Chain!Mirror!Next, Deep!Mirror!Next, Mirror!Change, Chain!Mirror!Change,
     Deep!Mirror!Change, Mirror!Refresh, Chain!Mirror!Refresh, Deep!Mirror!Refresh,
     Chain!Changes, Deep!Changes, Chain!Items, Deep!Items
<1>3. (Chain!MirrorImplemented \/ Deep!MirrorImplemented) => MirrorImplemented
  BY <1>2, PTL
  DEF MirrorImplemented, Chain!MirrorImplemented, Deep!MirrorImplemented, Mirror!Spec,
      Chain!Mirror!Spec, Deep!Mirror!Spec
<1>4. scene = "chain" /\ LibrarySpec => Chain!Spec
  BY ChainStarts, ChainMoves, SceneStays, PTL DEF LibrarySpec, Chain!Spec
<1>5. scene = "deep" /\ LibrarySpec => Deep!Spec
  BY ChainStarts, ChainMoves, SceneStays, PTL DEF LibrarySpec, Deep!Spec
<1>6. scene \notin Mirrors /\ LibrarySpec => MirrorImplemented
  <2>1. LibraryInit => Mirror!Init
    BY ChainStarts DEF Chain!Init, Mirror!Init
  <2>2. scene \notin Mirrors /\ [LibraryNext]_libraryVars
        => (scene \notin Mirrors)' /\ [Mirror!Next]_<<lib, wiki>>
    BY ChainMoves, SceneStays DEF wikiVars
  <2> QED
    BY <2>1, <2>2, PTL DEF LibrarySpec, MirrorImplemented, Mirror!Spec
<1>7. scene \notin Mirrors \/ scene = "chain" \/ scene = "deep"
  BY DEF Mirrors
<1> QED
  BY <1>1, <1>3, <1>4, <1>5, <1>6, <1>7, PTL
=============================================================================
