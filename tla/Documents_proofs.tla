--------------------------- MODULE Documents_proofs ---------------------------
(***************************************************************************)
(* Theorems of what users edit while workers and OnlyOffice write it:      *)
(* ArtifactCallback, for any number of callbacks and editing sessions,     *)
(* DocumentFlow, for any requests that do not overlap, and BodyFill, for   *)
(* any plan, pool, submissions and edits, all with any faults; and of the  *)
(* scenes of MC_Documents.                                                 *)
(***************************************************************************)
EXTENDS MC_Documents, FiniteSetTheorems, SequenceTheorems, TLAPS

-----------------------------------------------------------------------------
(* ArtifactCallback: the inductive invariant.                              *)

Replacers == {"rechecked", "moved", "swapped", "committed", "restore"}

\* _artifact_callback_lock has one holder.
OneReplacer ==
    \A c, d \in Callbacks : pc[c] \in Replacers /\ pc[d] \in Replacers => c = d

\* What the holder has made of the document so far.
FileOf(c) ==
    /\ pc[c] = "moved" => file = None
    /\ pc[c] \in {"swapped", "committed", "restore"} => file = c
    /\ pc[c] = "committed" => saved = c
    /\ pc[c] \in {"rechecked", "moved", "swapped"} => session[c] = ver

\* The row counts a callback as saved only after the callback's own write.
SavedBy(c) == saved = c => pc[c] \in {"committed", "done"}

CallbackInv ==
    /\ TypeOK
    /\ OneReplacer
    /\ \A c \in Callbacks : FileOf(c) /\ SavedBy(c)
    /\ LastSaveKept

LEMMA InitCallback == Init => CallbackInv
<1> SUFFICES ASSUME Init PROVE CallbackInv
  OBVIOUS
<1>1. TypeOK
  BY CallbackConstants DEF Init, TypeOK, Contents, Pcs
<1>2. OneReplacer /\ \A c \in Callbacks : FileOf(c) /\ SavedBy(c)
  <2>1. \A c \in Callbacks : pc[c] = "idle" /\ saved # c
    BY CallbackConstants DEF Init
  <2> QED
    BY <2>1 DEF OneReplacer, Replacers, FileOf, SavedBy
<1>3. LastSaveKept
  BY DEF Init, LastSaveKept
<1> QED
  BY <1>1, <1>2, <1>3 DEF CallbackInv

LEMMA SavedIsContent == TypeOK => saved # None
<1>1. DOMAIN None = {} /\ DOMAIN Original = {1}
  BY SMT DEF None, Original
<1>2. None # Original
  BY <1>1
<1> QED
  BY <1>2, CallbackConstants DEF TypeOK, Contents

-----------------------------------------------------------------------------
(* The steps that do not touch the document.                               *)

\* A callback that comes no nearer to the document than the download.
Before == {"idle", "open", "checked", "downloaded", "done"}

LEMMA StepBefore ==
  ASSUME CallbackInv, NEW c \in Callbacks, NEW to \in Before,
         pc[c] \in Before \ {"done"}, pc' = [pc EXCEPT ![c] = to],
         session' \in [Callbacks -> 1..MaxSessions],
         \A d \in Callbacks \ {c} : session'[d] = session[d],
         faults' \in 0..MaxFaults,
         UNCHANGED <<live, ver, saved, file, backup, final>>
  PROVE  CallbackInv'
<1>1. TypeOK'
  BY DEF CallbackInv, TypeOK, Pcs, Before
<1>2. OneReplacer' /\ \A d \in Callbacks : FileOf(d)' /\ SavedBy(d)'
  BY DEF CallbackInv, TypeOK, OneReplacer, FileOf, SavedBy, Replacers, Before
<1>3. LastSaveKept'
  BY DEF CallbackInv, TypeOK, LastSaveKept, Replacing, Before
<1> QED
  BY <1>1, <1>2, <1>3 DEF CallbackInv

LEMMA StepRecheck ==
  ASSUME CallbackInv, NEW c \in Callbacks, Recheck(c)
  PROVE  CallbackInv'
<1> USE CallbackConstants
<1>1. CASE pc' = [pc EXCEPT ![c] = "done"]
  BY <1>1, StepBefore
  DEF Recheck, Go, Before, CallbackInv, TypeOK
<1>2. CASE pc' = [pc EXCEPT ![c] = "rechecked"] /\ Valid(c) /\ file # None
  <2>1. TypeOK'
    BY <1>2 DEF Recheck, CallbackInv, TypeOK, Pcs
  <2>2. OneReplacer'
    BY <1>2 DEF Recheck, Alone, CallbackInv, TypeOK, OneReplacer, Replacers
  <2>3. \A d \in Callbacks : FileOf(d)' /\ SavedBy(d)'
    BY <1>2 DEF Recheck, Go, Valid, CallbackInv, TypeOK, FileOf, SavedBy
  <2>4. LastSaveKept'
    BY <1>2 DEF Recheck, Go, CallbackInv, TypeOK, LastSaveKept, Replacing
  <2> QED
    BY <2>1, <2>2, <2>3, <2>4 DEF CallbackInv
<1> QED
  BY <1>1, <1>2 DEF Recheck, Go, Valid

-----------------------------------------------------------------------------
(* The steps that do, under the lock.                                      *)

LEMMA StepMoveOld ==
  ASSUME CallbackInv, NEW c \in Callbacks, MoveOld(c)
  PROVE  CallbackInv'
<1>1. TypeOK'
  BY DEF MoveOld, Go, CallbackInv, TypeOK, Pcs
<1>2. OneReplacer'
  BY DEF MoveOld, Go, CallbackInv, TypeOK, OneReplacer, Replacers
<1>3. \A d \in Callbacks : FileOf(d)' /\ SavedBy(d)'
  BY DEF MoveOld, Go, CallbackInv, TypeOK, OneReplacer, Replacers, FileOf, SavedBy
<1>4. LastSaveKept'
  <2>1. CASE file = saved
    <3>1. backup'[c] = saved' /\ Replacing(c)'
      BY <2>1 DEF MoveOld, Go, CallbackInv, TypeOK, Replacing
    <3> QED
      BY <3>1 DEF LastSaveKept
  <2>2. ASSUME NEW d \in Callbacks, Replacing(d), backup[d] = saved
        PROVE  LastSaveKept'
    <3>1. d # c
      BY <2>2 DEF MoveOld, Go, Replacing
    <3>2. backup'[d] = saved' /\ Replacing(d)'
      BY <2>2, <3>1 DEF MoveOld, Go, CallbackInv, TypeOK, Replacing
    <3> QED
      BY <3>2 DEF LastSaveKept
  <2> QED
    BY <2>1, <2>2 DEF CallbackInv, LastSaveKept
<1> QED
  BY <1>1, <1>2, <1>3, <1>4 DEF CallbackInv

LEMMA StepMoveNew ==
  ASSUME CallbackInv, NEW c \in Callbacks, MoveNew(c)
  PROVE  CallbackInv'
<1>1. TypeOK'
  BY DEF MoveNew, Go, CallbackInv, TypeOK, Pcs, Contents
<1>2. OneReplacer'
  BY DEF MoveNew, Go, CallbackInv, TypeOK, OneReplacer, Replacers
<1>3. \A d \in Callbacks : FileOf(d)' /\ SavedBy(d)'
  BY DEF MoveNew, Go, CallbackInv, TypeOK, OneReplacer, Replacers, FileOf, SavedBy
<1>4. LastSaveKept'
  <2>1. file # saved
    BY SavedIsContent DEF MoveNew, Go, CallbackInv, FileOf
  <2>2. PICK d \in Callbacks : Replacing(d) /\ backup[d] = saved
    BY <2>1 DEF CallbackInv, LastSaveKept
  <2>3. backup'[d] = saved' /\ Replacing(d)'
    BY <2>2 DEF MoveNew, Go, CallbackInv, TypeOK, Replacing
  <2> QED
    BY <2>3 DEF LastSaveKept
<1> QED
  BY <1>1, <1>2, <1>3, <1>4 DEF CallbackInv

LEMMA StepCommitted ==
  ASSUME CallbackInv, NEW c \in Callbacks, Commit(c), Valid(c)
  PROVE  CallbackInv'
<1>1. /\ pc[c] = "swapped" /\ pc' = [pc EXCEPT ![c] = "committed"]
      /\ ver' = NextVersion(c) /\ saved' = c
      /\ UNCHANGED <<live, file, backup, session, final, faults>>
  BY DEF Commit, Go
<1>2. ver' \in 1..MaxSessions
  BY <1>1, CallbackConstants DEF Commit, NextVersion, CallbackInv, TypeOK
<1>3. TypeOK'
  BY <1>1, <1>2 DEF CallbackInv, TypeOK, Pcs, Contents
<1>4. OneReplacer'
  BY <1>1 DEF CallbackInv, TypeOK, OneReplacer, Replacers
<1>5. \A d \in Callbacks : FileOf(d)' /\ SavedBy(d)'
  BY <1>1 DEF CallbackInv, TypeOK, OneReplacer, Replacers, FileOf, SavedBy
<1>6. LastSaveKept'
  BY <1>1 DEF CallbackInv, FileOf, LastSaveKept
<1> QED
  BY <1>3, <1>4, <1>5, <1>6 DEF CallbackInv

\* The write is refused, by the row or by the database.
LEMMA StepRefused ==
  ASSUME CallbackInv, NEW c \in Callbacks, Go(c, "swapped", "restore"),
         faults' \in 0..MaxFaults,
         UNCHANGED <<live, ver, saved, file, backup, session, final>>
  PROVE  CallbackInv'
<1>1. TypeOK'
  BY DEF Go, CallbackInv, TypeOK, Pcs
<1>2. OneReplacer' /\ \A d \in Callbacks : FileOf(d)' /\ SavedBy(d)'
  BY DEF Go, CallbackInv, TypeOK, OneReplacer, Replacers, FileOf, SavedBy
<1>3. LastSaveKept'
  BY DEF Go, CallbackInv, TypeOK, LastSaveKept, Replacing
<1> QED
  BY <1>1, <1>2, <1>3 DEF CallbackInv

LEMMA StepRestore ==
  ASSUME CallbackInv, NEW c \in Callbacks, Restore(c)
  PROVE  CallbackInv'
<1>1. TypeOK'
  BY DEF Restore, Go, CallbackInv, TypeOK, Pcs
<1>2. OneReplacer'
  BY DEF Restore, Go, CallbackInv, TypeOK, OneReplacer, Replacers
<1>3. \A d \in Callbacks : FileOf(d)' /\ SavedBy(d)'
  BY DEF Restore, Go, CallbackInv, TypeOK, OneReplacer, Replacers, FileOf, SavedBy
<1>4. LastSaveKept'
  <2>1. file # saved
    BY DEF Restore, Go, CallbackInv, FileOf, SavedBy
  <2>2. PICK d \in Callbacks : Replacing(d) /\ backup[d] = saved
    BY <2>1 DEF CallbackInv, LastSaveKept
  <2>3. CASE d = c
    BY <2>2, <2>3 DEF Restore, LastSaveKept
  <2>4. CASE d # c
    <3>1. backup'[d] = saved' /\ Replacing(d)'
      BY <2>2, <2>4 DEF Restore, Go, CallbackInv, TypeOK, Replacing
    <3> QED
      BY <3>1 DEF LastSaveKept
  <2> QED
    BY <2>3, <2>4
<1> QED
  BY <1>1, <1>2, <1>3, <1>4 DEF CallbackInv

LEMMA StepDropBackup ==
  ASSUME CallbackInv, NEW c \in Callbacks, DropBackup(c)
  PROVE  CallbackInv'
<1>1. TypeOK'
  BY DEF DropBackup, Go, CallbackInv, TypeOK, Pcs
<1>2. OneReplacer' /\ \A d \in Callbacks : FileOf(d)' /\ SavedBy(d)'
  BY DEF DropBackup, Go, CallbackInv, TypeOK, OneReplacer, Replacers, FileOf, SavedBy
<1>3. LastSaveKept'
  BY DEF DropBackup, Go, CallbackInv, FileOf, LastSaveKept
<1> QED
  BY <1>1, <1>2, <1>3 DEF CallbackInv

LEMMA FaultCounted ==
  ASSUME TypeOK, NEW kind, Fault(kind)
  PROVE  faults' \in 0..MaxFaults
  BY CallbackConstants DEF Fault, TypeOK

LEMMA StepCrash == ASSUME CallbackInv, Crash PROVE CallbackInv'
<1>1. faults' \in 0..MaxFaults
  BY FaultCounted DEF Crash, CallbackInv
<1>2. /\ \A c \in Callbacks :
             pc'[c] = "done" \/ (pc'[c] = pc[c] /\ pc[c] \in {"idle", "open"})
      /\ pc' \in [Callbacks -> Pcs]
      /\ UNCHANGED <<live, ver, saved, file, backup, session, final>>
  BY DEF Crash, CallbackInv, TypeOK, Pcs
<1>3. TypeOK'
  BY <1>1, <1>2 DEF CallbackInv, TypeOK
<1>4. OneReplacer' /\ \A c \in Callbacks : FileOf(c)' /\ SavedBy(c)'
  BY <1>2 DEF CallbackInv, OneReplacer, Replacers, FileOf, SavedBy
<1>5. LastSaveKept'
  <2>1. ASSUME NEW c \in Callbacks, Replacing(c), backup[c] = saved
        PROVE  Replacing(c)' /\ backup'[c] = saved'
    <3>1. backup'[c] = saved' /\ saved' # None
      BY <1>2, <2>1, SavedIsContent DEF CallbackInv
    <3>2. pc'[c] = "done"
      BY <1>2, <2>1 DEF Replacing
    <3> QED
      BY <2>1, <3>1, <3>2 DEF Replacing
  <2> QED
    BY <1>2, <2>1 DEF CallbackInv, LastSaveKept
<1> QED
  BY <1>3, <1>4, <1>5 DEF CallbackInv

-----------------------------------------------------------------------------
(* Theorems.                                                               *)

LEMMA StepCallback ==
  ASSUME CallbackInv, NEW c \in Callbacks, Callback(c)
  PROVE  CallbackInv'
<1> USE CallbackConstants
<1>0. TypeOK
  BY DEF CallbackInv
<1>1. CASE Open(c)
  BY <1>0, <1>1, StepBefore DEF Open, Go, Before, TypeOK
<1>2. CASE Check(c)
  BY <1>0, <1>2, StepBefore DEF Check, Go, Before, TypeOK
<1>3. CASE Download(c)
  BY <1>0, <1>3, StepBefore DEF Download, Go, Before, TypeOK
<1>4. CASE DownloadFails(c)
  <2>1. faults' \in 0..MaxFaults
    BY <1>0, <1>4, FaultCounted DEF DownloadFails
  <2> QED
    BY <1>0, <1>4, <2>1, StepBefore DEF DownloadFails, Go, Before, TypeOK
<1>5. CASE Commit(c)
  <2>1. CASE ~ Valid(c)
    BY <1>0, <1>5, <2>1, StepRefused DEF Commit, TypeOK
  <2> QED
    BY <1>5, <2>1, StepCommitted
<1>6. CASE CommitRefused(c)
  <2>1. faults' \in 0..MaxFaults
    BY <1>0, <1>6, FaultCounted DEF CommitRefused
  <2> QED
    BY <1>6, <2>1, StepRefused DEF CommitRefused
<1> QED
  BY <1>1, <1>2, <1>3, <1>4, <1>5, <1>6, StepRecheck, StepMoveOld, StepMoveNew,
     StepRestore, StepDropBackup DEF Callback

LEMMA StepDocument == CallbackInv /\ [Next]_vars => CallbackInv'
<1> SUFFICES ASSUME CallbackInv, [Next]_vars PROVE CallbackInv'
  OBVIOUS
<1>1. CASE Supersede
  BY <1>1
  DEF Supersede, CallbackInv, TypeOK, OneReplacer, FileOf, SavedBy,
      LastSaveKept, Replacing
<1>2. CASE UNCHANGED vars
  BY <1>2
  DEF vars, CallbackInv, TypeOK, OneReplacer, FileOf, SavedBy,
      LastSaveKept, Replacing
<1> QED
  BY <1>1, <1>2, StepCallback, StepCrash DEF Next

\* Every reachable state is well typed: a final save ends one session, and no
\* more sessions are ended than were opened.
THEOREM TypeCorrect == Spec => []TypeOK
<1>1. CallbackInv => TypeOK
  BY DEF CallbackInv
<1> QED
  BY <1>1, InitCallback, StepDocument, PTL DEF Spec

\* What the row counts as saved is in the document or in a backup, whatever is
\* superseded, refused or killed between the two renames (artifact_callback).
THEOREM SavedIsKept == Spec => []LastSaveKept
<1>1. CallbackInv => LastSaveKept
  BY DEF CallbackInv
<1> QED
  BY <1>1, InitCallback, StepDocument, PTL DEF Spec

\* A session that a final save has ended writes no more into the document: the
\* check is repeated under the lock, after the download (artifact_callback).
THEOREM OnlyOpenSessionsWrite == Spec => EndedSessionsSilent
<1>1. CallbackInv =>
        \A c \in Callbacks : pc[c] = "moved" /\ file' = c => session[c] = ver
  BY DEF CallbackInv, FileOf
<1> QED
  BY <1>1, InitCallback, StepDocument, PTL DEF Spec, EndedSessionsSilent

-----------------------------------------------------------------------------
(* DocumentFlow.                                                           *)

\* The object is the document, or the document is one whose upload failed.
InMinio == object = dFile \/ dFile \in missed

\* One request is at work, on the row as it is: a format that has rewritten the
\* document, or one beside which it is in MinIO unless its upload failed.  The row counts the saves and
\* has what the others wrote; no editor was opened on a later version.
DocInv ==
    /\ Document!TypeOK
    /\ row.ver = ended + 1 /\ acked \subseteq row.rest
    /\ Document!Under = {} => InMinio
    /\ \A r \in Document!Under :
          /\ Document!Under = {r}
          /\ IF r \in Formats THEN dFile = r ELSE dCopy[r] = row /\ InMinio
          /\ r \in Editors => dSession[r] = row.ver
    /\ \A r \in Others : dPc[r] \in {"idle", "done"}
    /\ \A c \in Editors : dSession[c] <= row.ver

LEMMA InitDoc == Document!DocumentConstants /\ Document!Init => DocInv
<1> SUFFICES ASSUME Document!DocumentConstants, Document!Init PROVE DocInv
  OBVIOUS
<1>1. Document!TypeOK
  BY
  DEF Document!DocumentConstants, Document!Init, Document!TypeOK, Document!Row,
      Document!Contents, Document!Original, Document!Pcs
<1>2. Document!Under = {}
  BY DEF Document!Init, Document!Under
<1> QED
  BY <1>1, <1>2 DEF Document!Init, DocInv, InMinio, Document!Requests

\* A request that goes on is the only one at work, before and after.
LEMMA DocGo ==
  ASSUME Document!TypeOK, NEW r \in Document!Requests, NEW from,
         NEW to \in Document!Pcs,
         Document!Go(r, from, to)
  PROVE  /\ Document!Under \subseteq {r}
         /\ dPc' \in [Document!Requests -> Document!Pcs]
         /\ dPc[r] = from /\ dPc'[r] = to
         /\ \A s \in Document!Requests \ {r} : dPc'[s] = dPc[s]
         /\ Document!Under' = IF to \in {"read", "landed"} THEN {r} ELSE {}
         /\ from \in {"read", "landed"} => Document!Under = {r}
         /\ from \notin {"read", "landed"} => Document!Under = {}
<1>1. /\ dPc' \in [Document!Requests -> Document!Pcs]
      /\ dPc[r] = from /\ dPc'[r] = to
      /\ \A s \in Document!Requests \ {r} : dPc'[s] = dPc[s]
      /\ Document!Under \subseteq {r}
  BY DEF Document!TypeOK, Document!Go
<1>2. \A s \in Document!Requests \ {r} : dPc[s] \notin {"read", "landed"}
  BY <1>1 DEF Document!Under
<1>3. Document!Under' = IF to \in {"read", "landed"} THEN {r} ELSE {}
  BY <1>1, <1>2 DEF Document!Under
<1>4. /\ from \in {"read", "landed"} => Document!Under = {r}
      /\ from \notin {"read", "landed"} => Document!Under = {}
  BY <1>1, <1>2 DEF Document!Under
<1> QED
  BY <1>1, <1>3, <1>4

LEMMA DocFault ==
  ASSUME Document!DocumentConstants, Document!TypeOK, NEW kind, Document!Fault(kind)
  PROVE  dFaults' \in 0..MaxFaults
  BY DEF Document!DocumentConstants, Document!TypeOK, Document!Fault

\* What is uploaded as the document is in MinIO, or is known to have missed it.
LEMMA DocSync ==
  ASSUME Document!DocumentConstants, Document!TypeOK,
         NEW content \in Document!Contents, Document!Sync(content), dFile' = content
  PROVE  /\ InMinio' /\ object' \in Document!Contents
         /\ missed' \subseteq Document!Contents /\ dFaults' \in 0..MaxFaults
<1>1. CASE Document!Fault("minio") /\ missed' = missed \cup {content} /\ UNCHANGED object
  BY <1>1, DocFault DEF Document!TypeOK, InMinio
<1>2. CASE object' = content /\ missed' = missed \ {content} /\ UNCHANGED dFaults
  BY <1>2 DEF Document!TypeOK, InMinio
<1> QED
  BY <1>1, <1>2 DEF Document!Sync

LEMMA StepDocCallback ==
  ASSUME Document!DocumentConstants, DocInv, NEW c \in Editors, Document!Callback(c)
  PROVE  DocInv'
<1> USE DEF Document!DocumentConstants
<1>0. /\ Document!TypeOK /\ c \in Document!Requests /\ c \notin Formats /\ c \notin Others
      /\ row.ver \in Nat /\ dCopy[c].ver \in Nat
      /\ {"idle", "open", "read", "landed", "done"} = Document!Pcs
  BY DEF DocInv, Document!Requests, Document!TypeOK, Document!Row, Document!Pcs
<1>1. CASE Document!OpenEditor(c)
  <2>1. /\ Document!Under = {} /\ Document!Under' = {}
        /\ dPc' \in [Document!Requests -> Document!Pcs]
        /\ \A s \in Document!Requests \ {c} : dPc'[s] = dPc[s]
    BY <1>0, <1>1, DocGo DEF Document!OpenEditor
  <2>2. dSession' = [dSession EXCEPT ![c] = row.ver]
    BY <1>1 DEF Document!OpenEditor
  <2>3. Document!TypeOK'
    BY <1>0, <1>1, <2>1, <2>2 DEF Document!OpenEditor, Document!TypeOK
  <2> QED
    BY <1>0, <1>1, <2>1, <2>2, <2>3
    DEF DocInv, InMinio, Document!OpenEditor, Document!TypeOK, Document!Requests
<1>2. CASE Document!CallbackRead(c)
  <2>0. dSession[c] <= row.ver /\ dSession[c] \in Nat
    BY <1>0 DEF DocInv, Document!TypeOK
  <2>1. /\ Document!Under = {}
        /\ Document!Under' = IF dSession[c] < row.ver THEN {} ELSE {c}
        /\ dPc' \in [Document!Requests -> Document!Pcs]
        /\ \A s \in Document!Requests \ {c} : dPc'[s] = dPc[s]
    BY <1>0, <1>2, DocGo DEF Document!CallbackRead, Document!Stale
  <2>2. dCopy' = [dCopy EXCEPT ![c] = row]
    BY <1>2 DEF Document!CallbackRead, Document!Read
  <2>3. Document!TypeOK'
    BY <1>0, <1>2, <2>1, <2>2 DEF Document!CallbackRead, Document!TypeOK
  <2>4. dSession[c] = row.ver \/ Document!Under' = {}
    BY <2>0, <2>1, <1>0
  <2> QED
    BY <1>0, <1>2, <2>1, <2>2, <2>3, <2>4
    DEF DocInv, InMinio, Document!CallbackRead, Document!TypeOK, Document!Requests
<1>3. CASE Document!CallbackLand(c)
  <2>1. /\ Document!Under = {c} /\ Document!Under' = {c}
        /\ dPc' \in [Document!Requests -> Document!Pcs]
        /\ \A s \in Document!Requests \ {c} : dPc'[s] = dPc[s]
    BY <1>0, <1>3, DocGo DEF Document!CallbackLand
  <2>2. /\ InMinio' /\ object' \in Document!Contents
        /\ missed' \subseteq Document!Contents /\ dFaults' \in 0..MaxFaults
        /\ c \in Document!Contents
    BY <1>0, <1>3, DocSync DEF Document!CallbackLand, Document!Contents
  <2>3. Document!TypeOK'
    BY <1>0, <1>3, <2>1, <2>2 DEF Document!CallbackLand, Document!TypeOK
  <2> QED
    BY <1>0, <1>3, <2>1, <2>2, <2>3 DEF DocInv, Document!CallbackLand, Document!Requests
<1>4. CASE Document!DownloadFails(c)
  <2>1. /\ Document!Under = {c} /\ Document!Under' = {}
        /\ dPc' \in [Document!Requests -> Document!Pcs]
        /\ \A s \in Document!Requests \ {c} : dPc'[s] = dPc[s]
    BY <1>0, <1>4, DocGo DEF Document!DownloadFails
  <2>2. dFaults' \in 0..MaxFaults
    BY <1>0, <1>4, DocFault DEF Document!DownloadFails
  <2>3. Document!TypeOK'
    BY <1>0, <1>4, <2>1, <2>2 DEF Document!DownloadFails, Document!TypeOK
  <2> QED
    BY <1>0, <1>4, <2>1, <2>3
    DEF DocInv, InMinio, Document!DownloadFails, Document!Requests
<1>5. CASE Document!CallbackPersist(c)
  <2>1. /\ Document!Under = {c} /\ Document!Under' = {}
        /\ dPc' \in [Document!Requests -> Document!Pcs]
        /\ \A s \in Document!Requests \ {c} : dPc'[s] = dPc[s]
    BY <1>0, <1>5, DocGo DEF Document!CallbackPersist
  <2>2. dCopy[c] = row /\ InMinio
    BY <1>0, <2>1 DEF DocInv
  <2>3. /\ row' = [row EXCEPT !.ver = Document!Advance(c)]
        /\ ended' = IF dFinal[c] THEN ended + 1 ELSE ended
        /\ UNCHANGED <<dFile, object, missed, dCopy, dSession, dFinal, acked, dFaults>>
    BY <1>5, <2>2 DEF Document!CallbackPersist, Document!Persist
  <2>4. Document!Advance(c) = IF dFinal[c] THEN row.ver + 1 ELSE row.ver
    BY <2>2 DEF Document!Advance
  <2>5. row' \in Document!Row /\ row'.ver = Document!Advance(c) /\ row'.rest = row.rest
    BY <1>0, <2>3, <2>4 DEF Document!TypeOK, Document!Row
  <2>6. Document!TypeOK'
    BY <1>0, <2>1, <2>3, <2>5 DEF Document!TypeOK
  <2>7. \A d \in Editors : dSession'[d] <= row'.ver
    BY <1>0, <2>3, <2>4, <2>5 DEF DocInv, Document!TypeOK
  <2> QED
    BY <1>0, <2>1, <2>2, <2>3, <2>4, <2>5, <2>6, <2>7
    DEF DocInv, InMinio, Document!TypeOK, Document!Requests
<1> QED
  BY <1>1, <1>2, <1>3, <1>4, <1>5 DEF Document!Callback

\* A save that raises the version ends at once: nobody is at work afterwards.
LEMMA StepDocSaved ==
  ASSUME Document!DocumentConstants, DocInv,
         NEW r \in Saves \cup Formats, NEW from, Document!Go(r, from, "done"),
         from \in {"read", "landed"},
         row' = [row EXCEPT !.ver = row.ver + 1], ended' = ended + 1,
         dFile' \in Document!Contents, Document!Sync(dFile'),
         UNCHANGED <<dCopy, dSession, dFinal, acked>>
  PROVE  DocInv'
<1> USE DEF Document!DocumentConstants
<1>0. Document!TypeOK /\ r \in Document!Requests /\ r \notin Others /\ row.ver \in Nat
  BY DEF DocInv, Document!Requests, Document!TypeOK, Document!Row
<1>1. /\ Document!Under' = {} /\ dPc' \in [Document!Requests -> Document!Pcs]
      /\ \A s \in Document!Requests \ {r} : dPc'[s] = dPc[s]
  BY <1>0, DocGo DEF Document!Pcs
<1>2. row' \in Document!Row /\ row'.ver = row.ver + 1 /\ row'.rest = row.rest
  BY <1>0 DEF Document!TypeOK, Document!Row
<1>3. /\ InMinio' /\ object' \in Document!Contents
      /\ missed' \subseteq Document!Contents /\ dFaults' \in 0..MaxFaults
  BY <1>0, DocSync
<1>4. Document!TypeOK'
  BY <1>0, <1>1, <1>2, <1>3 DEF Document!TypeOK
<1>5. \A d \in Editors : dSession'[d] <= row'.ver
  BY <1>0, <1>2 DEF DocInv, Document!TypeOK
<1> QED
  BY <1>0, <1>1, <1>2, <1>3, <1>4, <1>5 DEF DocInv, Document!TypeOK, Document!Requests

\* A row that cannot be written ends its request, and leaves the document in MinIO,
\* unless a format had rewritten it.
LEMMA StepDocFails ==
  ASSUME Document!DocumentConstants, DocInv, NEW r \in Document!Requests,
         Document!PersistFails(r)
  PROVE  DocInv'
<1> USE DEF Document!DocumentConstants
<1>0. Document!TypeOK /\ r \notin Others /\ r \in Document!Contents
  BY DEF DocInv, Document!Contents, Document!PersistFails
<1>1. /\ Document!Under' = {} /\ dPc' \in [Document!Requests -> Document!Pcs]
      /\ \A s \in Document!Requests \ {r} : dPc'[s] = dPc[s]
      /\ Document!Under = {r}
  BY <1>0, DocGo DEF Document!PersistFails, Document!Pcs
<1>2. dFaults' \in 0..MaxFaults /\ missed' \subseteq Document!Contents
  BY <1>0, DocFault DEF Document!PersistFails, Document!TypeOK
<1>3. Document!TypeOK'
  BY <1>0, <1>1, <1>2 DEF Document!PersistFails, Document!TypeOK
<1>4. InMinio'
  <2>1. CASE r \in Formats
    BY <1>1, <2>1 DEF DocInv, InMinio, Document!PersistFails
  <2>2. CASE r \notin Formats
    BY <1>1, <2>2 DEF DocInv, InMinio, Document!PersistFails
  <2> QED
    BY <2>1, <2>2
<1> QED
  BY <1>0, <1>1, <1>3, <1>4 DEF DocInv, Document!PersistFails, Document!Requests

LEMMA StepDocSave ==
  ASSUME Document!DocumentConstants, DocInv, NEW s \in Saves,
         Document!SaveRead(s) \/ Document!SavePersist(s) \/ Document!ForceSave(s)
  PROVE  DocInv'
<1> USE DEF Document!DocumentConstants
<1>0. /\ Document!TypeOK /\ s \in Document!Requests /\ row.ver \in Nat
      /\ s \notin Formats /\ s \notin Others /\ s \notin Editors
      /\ s \in Document!Contents /\ dFile \in Document!Contents
  BY DEF DocInv, Document!Requests, Document!TypeOK, Document!Row, Document!Contents
<1>1. CASE Document!SaveRead(s)
  <2>1. /\ Document!Under = {} /\ Document!Under' = {s}
        /\ dPc' \in [Document!Requests -> Document!Pcs]
        /\ \A r \in Document!Requests \ {s} : dPc'[r] = dPc[r]
    BY <1>0, <1>1, DocGo DEF Document!SaveRead, Document!Pcs
  <2>2. dCopy' = [dCopy EXCEPT ![s] = row]
    BY <1>1 DEF Document!SaveRead, Document!Read
  <2>3. Document!TypeOK'
    BY <1>0, <1>1, <2>1, <2>2 DEF Document!SaveRead, Document!TypeOK
  <2> QED
    BY <1>0, <1>1, <2>1, <2>2, <2>3
    DEF DocInv, InMinio, Document!SaveRead, Document!TypeOK, Document!Requests
<1>2. ASSUME Document!Go(s, "read", "done") PROVE dCopy[s] = row
  <2>1. Document!Under = {s}
    BY <1>0, <1>2, DocGo DEF Document!Pcs
  <2> QED
    BY <1>0, <2>1 DEF DocInv
<1>3. CASE Document!SavePersist(s)
  <2>1. dCopy[s] = row
    BY <1>2, <1>3 DEF Document!SavePersist
  <2> QED
    BY <1>0, <1>3, <2>1, StepDocSaved DEF Document!SavePersist, Document!Persist
<1>4. CASE Document!ForceSave(s)
  <2>1. dCopy[s] = row
    BY <1>2, <1>4 DEF Document!ForceSave
  <2> QED
    BY <1>0, <1>4, <2>1, StepDocSaved DEF Document!ForceSave, Document!Persist
<1> QED
  BY <1>1, <1>3, <1>4

LEMMA StepDocFormat ==
  ASSUME Document!DocumentConstants, DocInv, NEW f \in Formats,
         Document!FormatFile(f) \/ Document!FormatPersist(f)
  PROVE  DocInv'
<1> USE DEF Document!DocumentConstants
<1>0. /\ Document!TypeOK /\ f \in Document!Requests /\ f \notin Others /\ f \notin Editors
      /\ f \in Document!Contents /\ dFile \in Document!Contents
  BY DEF DocInv, Document!Requests, Document!TypeOK, Document!Contents
<1>1. CASE Document!FormatFile(f)
  <2>1. /\ Document!Under = {} /\ Document!Under' = {f}
        /\ dPc' \in [Document!Requests -> Document!Pcs]
        /\ \A r \in Document!Requests \ {f} : dPc'[r] = dPc[r]
    BY <1>0, <1>1, DocGo DEF Document!FormatFile, Document!Pcs
  <2>2. Document!TypeOK'
    BY <1>0, <1>1, <2>1 DEF Document!FormatFile, Document!TypeOK
  <2> QED
    BY <1>0, <1>1, <2>1, <2>2 DEF DocInv, Document!FormatFile, Document!Requests
<1>2. CASE Document!FormatPersist(f)
  BY <1>0, <1>2, StepDocSaved DEF Document!FormatPersist
<1> QED
  BY <1>1, <1>2

LEMMA StepDocOther ==
  ASSUME Document!DocumentConstants, DocInv, NEW o \in Others, Document!Other(o)
  PROVE  DocInv'
<1> USE DEF Document!DocumentConstants
<1>0. Document!TypeOK /\ o \in Document!Requests /\ row.rest \subseteq Others
  BY DEF DocInv, Document!Requests, Document!TypeOK, Document!Row
<1>1. /\ Document!Under = {} /\ Document!Under' = {}
      /\ dPc' \in [Document!Requests -> Document!Pcs] /\ dPc'[o] = "done"
      /\ \A r \in Document!Requests \ {o} : dPc'[r] = dPc[r]
  BY <1>0, DocGo DEF Document!Other, Document!Pcs
<1>2. row' \in Document!Row /\ row'.ver = row.ver /\ row'.rest = row.rest \cup {o}
  BY <1>0 DEF Document!Other, Document!TypeOK, Document!Row
<1>3. Document!TypeOK'
  BY <1>0, <1>1, <1>2 DEF Document!Other, Document!TypeOK
<1> QED
  BY <1>0, <1>1, <1>2, <1>3 DEF DocInv, InMinio, Document!Other, Document!Requests

LEMMA StepDoc ==
  ASSUME Document!DocumentConstants, DocInv, [Document!Next]_Document!vars
  PROVE  DocInv'
<1>1. CASE UNCHANGED Document!vars
  BY <1>1
  DEF Document!vars, DocInv, InMinio, Document!TypeOK, Document!Under,
      Document!Requests, Document!Row, Document!Contents
<1> QED
  BY <1>1, StepDocCallback, StepDocSave, StepDocFormat, StepDocFails, StepDocOther
  DEF Document!Next

\* Between two requests on a document the object in MinIO is the document unless
\* MinIO refused this very document, or a format failed before it uploaded it; its
\* version counts the saves that ended a session, and what other operations wrote
\* stays in the row, for any number of requests of any kind that do not overlap,
\* and any downloads, uploads and writes of the row that fail (bid_document_flow,
\* technical_document_service).
THEOREM DocumentIsCurrent ==
  ASSUME Document!DocumentConstants
  PROVE  Document!Spec => [](Document!TypeOK /\ Document!DocumentCurrent)
<1>1. DocInv => Document!TypeOK /\ Document!DocumentCurrent
  BY DEF DocInv, InMinio, Document!DocumentCurrent
<1> QED
  BY <1>1, InitDoc, StepDoc, PTL DEF Document!Spec

\* An editor that was opened on what a page save or a format replaced does not
\* write over it (the callback's check of the version in its URL).
THEOREM NewestIsKept ==
  ASSUME Document!DocumentConstants
  PROVE  Document!Spec => Document!NewestKept
<1>1. ASSUME DocInv, [Document!Next]_Document!vars, NEW c \in Editors,
             dFile' = c, dFile # c
      PROVE  dSession[c] = row.ver
  <2> USE DEF Document!DocumentConstants
  <2>0. c \in Document!Requests /\ Document!TypeOK
    BY <1>1 DEF Document!Requests, DocInv
  <2>1. Document!CallbackLand(c)
    BY <1>1
    DEF Document!Next, Document!vars, Document!Callback, Document!OpenEditor,
        Document!CallbackRead, Document!CallbackLand, Document!DownloadFails,
        Document!CallbackPersist, Document!SaveRead, Document!SavePersist,
        Document!ForceSave, Document!FormatFile, Document!FormatPersist,
        Document!PersistFails, Document!Other
  <2>2. Document!Under = {c}
    BY <2>0, <2>1, DocGo DEF Document!CallbackLand, Document!Pcs
  <2> QED
    BY <2>2, <1>1 DEF DocInv
<1>2. DocInv /\ [Document!Next]_Document!vars =>
        \A c \in Editors :
           dFile' = c /\ dFile # c /\ dFile \in Saves \cup Formats
           => dSession[c] = row.ver
  BY <1>1
<1> QED
  BY <1>2, InitDoc, StepDoc, PTL DEF Document!Spec, Document!NewestKept

-----------------------------------------------------------------------------
(* BodyFill.                                                               *)

AtWork == wpc \in {"running", "count", "recount"}

\* Whoever is at work has a job or a task, no more fills succeeded than were
\* collected, and the last count finds nothing left.
Structure ==
    /\ wpc \notin {"idle", "down"} => job \in Submits
    /\ \A r \in Singles : one[r] \notin {"idle", "done"} => what[r] \in Tasks
    /\ AtWork => ok <= Fill!Done
    /\ wpc = "recount" => Fill!Left = {}

FillInv == Fill!TypeOK /\ Structure

\* What was collected is filled, or its item is marked red.
Accounted ==
    \A t \in Tasks :
        phase[t] = "collected" => t \in filled \/ error[Fill!ItemOf(t)] # Fill!None

TasksLine == 0..Fill!Cardinality(Tasks)

\* An instance has its own Cardinality: the facts about it.
LEMMA SameSize ==
  ASSUME NEW S
  PROVE  /\ Fill!Cardinality(S) = Cardinality(S)
         /\ Fill!IsFiniteSet(S) <=> IsFiniteSet(S)
  BY DEF Fill!Cardinality, Cardinality, Fill!IsFiniteSet, IsFiniteSet

LEMMA SizeType ==
  ASSUME NEW S, Fill!IsFiniteSet(S) PROVE Fill!Cardinality(S) \in Nat
  BY SameSize, FS_CardinalityType

LEMMA SizeSubset ==
  ASSUME NEW S, Fill!IsFiniteSet(S), NEW T \in SUBSET S
  PROVE  /\ Fill!IsFiniteSet(T)
         /\ Fill!Cardinality(T) <= Fill!Cardinality(S)
<1>1. IsFiniteSet(T) /\ Cardinality(T) <= Cardinality(S)
  BY SameSize, FS_Subset
<1> QED
  BY <1>1, SameSize

LEMMA SizeAdd ==
  ASSUME NEW S, NEW x, Fill!IsFiniteSet(S), x \notin S
  PROVE  Fill!Cardinality(S \cup {x}) = Fill!Cardinality(S) + 1
<1>1. Cardinality(S \cup {x}) = Cardinality(S) + 1
  BY SameSize, FS_AddElement
<1> QED
  BY <1>1, SameSize

LEMMA TaskCount ==
  ASSUME Fill!BodyFillConstants
  PROVE  /\ Fill!Cardinality(Tasks) \in Nat /\ 0 \in TasksLine
         /\ \A S \in SUBSET Tasks : Fill!Cardinality(S) \in TasksLine
<1>1. Fill!Cardinality(Tasks) \in Nat
  BY SizeType DEF Fill!BodyFillConstants
<1>2. ASSUME NEW S \in SUBSET Tasks PROVE Fill!Cardinality(S) \in TasksLine
  <2>1. Fill!IsFiniteSet(S) /\ Fill!Cardinality(S) <= Fill!Cardinality(Tasks)
    BY SizeSubset DEF Fill!BodyFillConstants
  <2>2. Fill!Cardinality(S) \in Nat
    BY <2>1, SizeType
  <2> QED
    BY <1>1, <2>1, <2>2 DEF TasksLine
<1> QED
  BY <1>1, <1>2 DEF TasksLine

\* One more collected task.
LEMMA CollectedMore ==
  ASSUME Fill!BodyFillConstants, Fill!TypeOK, NEW t \in Tasks, phase[t] # "collected",
         phase' = [phase EXCEPT ![t] = "collected"]
  PROVE  Fill!Done' = Fill!Done + 1
<1>1. Fill!Batch("collected")' = Fill!Batch("collected") \cup {t}
  BY DEF Fill!TypeOK, Fill!Batch
<1>2. t \notin Fill!Batch("collected") /\ Fill!Batch("collected") \subseteq Tasks
  BY DEF Fill!Batch
<1>3. Fill!IsFiniteSet(Fill!Batch("collected"))
  BY <1>2, SizeSubset DEF Fill!BodyFillConstants
<1>4. Fill!Cardinality(Fill!Batch("collected") \cup {t}) = Fill!Cardinality(Fill!Batch("collected")) + 1
  BY <1>2, <1>3, SizeAdd
<1> QED
  BY <1>1, <1>4 DEF Fill!Done

LEMMA TaskItem ==
  ASSUME Fill!BodyFillConstants, NEW t \in Tasks
  PROVE  Fill!ItemOf(t) \in PlanItems /\ t # Fill!None
BY DEF Fill!BodyFillConstants, Fill!ItemOf, Fill!None

LEMMA InitFill == ASSUME Fill!BodyFillConstants, Fill!Init PROVE FillInv /\ Accounted
<1>1. Fill!TypeOK
  <2>1. fill \in [status : Fill!Statuses, total : TasksLine, done : TasksLine]
    BY TaskCount DEF Fill!Init, Fill!Idle, Fill!Statuses
  <2>2. 0 \in 0..MaxEdits /\ 0 \in 0..MaxFaults
    BY DEF Fill!BodyFillConstants
  <2>3. /\ scope \in [Submits -> SUBSET PlanItems] /\ asked \in [Submits -> TasksLine]
        /\ ok \in TasksLine
    BY TaskCount DEF Fill!Init
  <2>4. copy \in [Singles -> [filled : SUBSET Tasks, edits : 0..MaxEdits]]
    BY <2>2 DEF Fill!Init
  <2>5. queue \in Seq(Submits)
    BY DEF Fill!Init
  <2> QED
    BY <2>1, <2>2, <2>3, <2>4, <2>5
       DEF Fill!Init, Fill!TypeOK, TasksLine, Fill!SubPcs, Fill!WorkPcs,
           Fill!Phases, Fill!OnePcs
<1>2. Structure /\ Accounted
  BY DEF Fill!Init, Structure, AtWork, Accounted
<1> QED
  BY <1>1, <1>2 DEF FillInv

-----------------------------------------------------------------------------
(* Submitting, and the Fill!worker around a batch.                              *)

LEMMA StepSubmit ==
  ASSUME Fill!BodyFillConstants, FillInv, NEW s \in Submits,
         Fill!SubmitCheck(s) \/ Fill!Submit(s)
  PROVE  FillInv'
<1>0. Fill!TypeOK /\ Structure
  BY DEF FillInv
<1>1. CASE Fill!SubmitCheck(s)
  <2>1. PICK items \in Scopes :
          /\ scope' = [scope EXCEPT ![s] = items]
          /\ asked' = [asked EXCEPT ![s] = Fill!Cardinality(Fill!Targets(items))]
    BY <1>1 DEF Fill!SubmitCheck
  <2>2. items \in SUBSET PlanItems /\ Fill!Cardinality(Fill!Targets(items)) \in TasksLine
    BY TaskCount DEF Fill!BodyFillConstants, Fill!Targets
  <2>3. /\ scope' \in [Submits -> SUBSET PlanItems]
        /\ asked' \in [Submits -> TasksLine]
    BY <1>0, <2>1, <2>2 DEF Fill!TypeOK, TasksLine
  <2>4. sub' \in [Submits -> Fill!SubPcs]
    BY <1>0, <1>1 DEF Fill!TypeOK, Fill!SubmitCheck, Fill!Sub, Fill!SubPcs
  <2>5. UNCHANGED <<Fill!plan, fill, Fill!redis, Fill!worker, Fill!singles, fFaults>>
    BY <1>1 DEF Fill!SubmitCheck
  <2>6. Fill!TypeOK'
    BY <1>0, <2>3, <2>4, <2>5
    DEF Fill!TypeOK, TasksLine, Fill!plan, Fill!redis, Fill!worker,
        Fill!singles
  <2>7. Structure'
    BY <1>0, <2>5
       DEF Structure, AtWork, Fill!Done, Fill!Left, Fill!Batch,
           Fill!worker, Fill!singles
  <2> QED
    BY <2>6, <2>7 DEF FillInv
<1>2. CASE Fill!SubmitState(s)
  <2>1. sub' \in [Submits -> Fill!SubPcs]
    BY <1>0, <1>2 DEF Fill!TypeOK, Fill!SubmitState, Fill!Sub, Fill!SubPcs
  <2>2. fill' \in [status : Fill!Statuses, total : TasksLine, done : TasksLine]
    BY <1>0, <1>2, TaskCount
    DEF Fill!TypeOK, Fill!SubmitState, Fill!Statuses, TasksLine
  <2>3. UNCHANGED <<Fill!plan, scope, asked, Fill!redis, Fill!worker, Fill!singles,
                    fFaults>>
    BY <1>2 DEF Fill!SubmitState
  <2>4. Fill!TypeOK'
    BY <1>0, <2>1, <2>2, <2>3
    DEF Fill!TypeOK, TasksLine, Fill!plan, Fill!redis, Fill!worker,
        Fill!singles
  <2>5. Structure'
    BY <1>0, <2>3
    DEF Structure, AtWork, Fill!Done, Fill!Left, Fill!Batch,
        Fill!worker, Fill!singles
  <2> QED
    BY <2>4, <2>5 DEF FillInv
<1>3. CASE Fill!SubmitEnqueue(s)
  <2>1. sub' \in [Submits -> Fill!SubPcs]
    BY <1>0, <1>3
    DEF Fill!TypeOK, Fill!SubmitEnqueue, Fill!Sub, Fill!SubPcs
  <2>2. lock' \in Submits \cup {Fill!None} /\ queue' \in Seq(Submits)
    <3>1. Append(queue, s) \in Seq(Submits)
      BY <1>0 DEF Fill!TypeOK
    <3> QED
      BY <1>0, <1>3, <3>1 DEF Fill!TypeOK, Fill!SubmitEnqueue, Fill!redis
  <2>3. UNCHANGED <<Fill!plan, fill, scope, asked, Fill!worker, Fill!singles,
                    fFaults>>
    BY <1>3 DEF Fill!SubmitEnqueue
  <2>4. Fill!TypeOK'
    BY <1>0, <2>1, <2>2, <2>3
    DEF Fill!TypeOK, Fill!plan, Fill!worker, Fill!singles
  <2>5. Structure'
    BY <1>0, <2>3
    DEF Structure, AtWork, Fill!Done, Fill!Left, Fill!Batch,
        Fill!worker, Fill!singles
  <2> QED
    BY <2>4, <2>5 DEF FillInv
<1> QED
  BY <1>1, <1>2, <1>3 DEF Fill!Submit

LEMMA StepJob ==
  ASSUME Fill!BodyFillConstants, FillInv,
         Fill!Dequeue \/ Fill!EndJob \/ Fill!Release \/ Fill!Crash \/ Fill!Recover \/ Fill!Expire
  PROVE  FillInv'
<1>0. Fill!TypeOK /\ Structure
  BY DEF FillInv
<1>1. CASE Fill!Dequeue
  <2>1. Head(queue) \in Submits /\ Tail(queue) \in Seq(Submits)
    BY <1>0, <1>1 DEF Fill!TypeOK, Fill!Dequeue
  <2>2. /\ wpc' \in Fill!WorkPcs /\ job' \in Submits \cup {Fill!None}
        /\ wpc' = "idle" \/ (wpc' = "taken" /\ job' \in Submits)
        /\ queue' \in Seq(Submits)
    BY <1>1, <2>1 DEF Fill!Dequeue, Fill!Work, Fill!WorkPcs
  <2>3. UNCHANGED <<Fill!plan, fill, Fill!submits, lock, phase, ok, Fill!singles,
                    fFaults>>
    BY <1>1 DEF Fill!Dequeue
  <2>4. Fill!TypeOK'
    BY <1>0, <2>2, <2>3
    DEF Fill!TypeOK, Fill!plan, Fill!submits, Fill!singles
  <2>5. Structure'
    BY <1>0, <2>2, <2>3 DEF Structure, AtWork, Fill!singles
  <2> QED
    BY <2>4, <2>5 DEF FillInv
<1>2. CASE Fill!EndJob
  <2>1. wpc = "end" /\ wpc' = "release" /\ phase' = [t \in Tasks |-> "none"]
    BY <1>2 DEF Fill!EndJob, Fill!Work
  <2>2. UNCHANGED <<Fill!plan, fill, Fill!submits, Fill!redis, job, ok, Fill!singles,
                    fFaults>>
    BY <1>2 DEF Fill!EndJob
  <2>3. Fill!TypeOK'
    BY <1>0, <2>1, <2>2
       DEF Fill!TypeOK, Fill!WorkPcs, Fill!Phases, Fill!plan,
           Fill!submits, Fill!redis, Fill!singles
  <2>4. Structure'
    BY <1>0, <2>1, <2>2 DEF Structure, AtWork, Fill!singles
  <2> QED
    BY <2>3, <2>4 DEF FillInv
<1>3. CASE Fill!Release
  <2>1. wpc' = "idle" /\ job' = Fill!None /\ lock' \in Submits \cup {Fill!None}
    BY <1>0, <1>3 DEF Fill!Release, Fill!Work, Fill!TypeOK
  <2>2. UNCHANGED <<Fill!plan, fill, Fill!submits, queue, phase, ok, Fill!singles,
                    fFaults>>
    BY <1>3 DEF Fill!Release
  <2>3. Fill!TypeOK'
    BY <1>0, <2>1, <2>2
    DEF Fill!TypeOK, Fill!WorkPcs, Fill!plan, Fill!submits,
        Fill!singles
  <2>4. Structure'
    BY <1>0, <2>1, <2>2 DEF Structure, AtWork, Fill!singles
  <2> QED
    BY <2>3, <2>4 DEF FillInv
<1>4. CASE Fill!Crash
  <2>1. /\ wpc' = "down" /\ job' \in Submits \cup {Fill!None}
        /\ phase' = [t \in Tasks |-> "none"] /\ ok' = 0
    BY <1>0, <1>4 DEF Fill!Crash, Fill!TypeOK
  <2>2. fFaults' \in 0..MaxFaults
    BY <1>0, <1>4
    DEF Fill!Crash, Fill!Fault, Fill!TypeOK, Fill!BodyFillConstants
  <2>3. UNCHANGED <<Fill!plan, fill, Fill!submits, Fill!redis, Fill!singles>>
    BY <1>4 DEF Fill!Crash
  <2>4. Fill!TypeOK'
    <3>1. ok' \in TasksLine
      BY <2>1, TaskCount DEF TasksLine
    <3> QED
      BY <1>0, <2>1, <2>2, <2>3, <3>1
         DEF Fill!TypeOK, TasksLine, Fill!WorkPcs, Fill!Phases,
             Fill!plan, Fill!submits, Fill!redis, Fill!singles
  <2>5. Structure'
    BY <1>0, <2>1, <2>3 DEF Structure, AtWork, Fill!singles
  <2> QED
    BY <2>4, <2>5 DEF FillInv
<1>5. CASE Fill!Recover
  <2>1. wpc' = "idle" /\ job' = Fill!None
    BY <1>5 DEF Fill!Recover, Fill!Work
  <2>2. queue' \in Seq(Submits)
    <3>1. CASE job # Fill!None
      <4>1. <<job>> \in Seq(Submits)
        BY <1>0, <3>1 DEF Fill!TypeOK
      <4>2. <<job>> \o queue \in Seq(Submits)
        BY <1>0, <4>1, ConcatProperties DEF Fill!TypeOK
      <4> QED
        BY <1>5, <3>1, <4>2 DEF Fill!Recover
    <3>2. CASE job = Fill!None
      BY <1>0, <1>5, <3>2 DEF Fill!Recover, Fill!TypeOK
    <3> QED
      BY <3>1, <3>2
  <2>3. UNCHANGED <<Fill!plan, fill, Fill!submits, lock, phase, ok, Fill!singles,
                    fFaults>>
    BY <1>5 DEF Fill!Recover
  <2>4. Fill!TypeOK'
    BY <1>0, <2>1, <2>2, <2>3
    DEF Fill!TypeOK, Fill!WorkPcs, Fill!plan, Fill!submits,
        Fill!singles
  <2>5. Structure'
    BY <1>0, <2>1, <2>3 DEF Structure, AtWork, Fill!singles
  <2> QED
    BY <2>4, <2>5 DEF FillInv
<1>6. CASE Fill!Expire
  <2>1. lock' = Fill!None
    BY <1>6 DEF Fill!Expire
  <2>2. UNCHANGED <<Fill!plan, fill, Fill!submits, queue, Fill!worker, Fill!singles,
                    fFaults>>
    BY <1>6 DEF Fill!Expire
  <2>3. Fill!TypeOK'
    BY <1>0, <2>1, <2>2
    DEF Fill!TypeOK, Fill!plan, Fill!submits, Fill!worker,
        Fill!singles
  <2>4. Structure'
    BY <1>0, <2>2
    DEF Structure, AtWork, Fill!Done, Fill!Left, Fill!Batch,
        Fill!worker, Fill!singles
  <2> QED
    BY <2>3, <2>4 DEF FillInv
<1> QED
  BY <1>1, <1>2, <1>3, <1>4, <1>5, <1>6

-----------------------------------------------------------------------------
(* The batch.                                                              *)

LEMMA StepStart ==
  ASSUME Fill!BodyFillConstants, FillInv, Fill!Start \/ Fill!StartFails PROVE FillInv'
<1>0. Fill!TypeOK /\ Structure
  BY DEF FillInv
<1>1. CASE Fill!Start
  <2> DEFINE targets == Fill!Targets(scope[job])
  <2>1. wpc' \in {"end", "running"} /\ ok' = 0 /\ wpc = "taken"
    BY <1>1 DEF Fill!Start, Fill!Work
  <2>2. phase' \in [Tasks -> Fill!Phases]
    BY <1>1 DEF Fill!Start, Fill!Phases
  <2>3. fill' \in [status : Fill!Statuses, total : TasksLine, done : TasksLine]
    <3>1. Fill!Cardinality(targets) \in TasksLine
      BY TaskCount DEF Fill!Targets
    <3> HIDE DEF targets
    <3>2. fill' = [status |-> IF targets = {} THEN "succeeded" ELSE "running",
                   total |-> Fill!Cardinality(targets), done |-> 0]
      BY <1>1 DEF Fill!Start, targets
    <3> QED
      BY <3>1, <3>2, TaskCount DEF Fill!Statuses
  <2>4. UNCHANGED <<Fill!plan, Fill!submits, Fill!redis, job, Fill!singles, fFaults>>
    BY <1>1 DEF Fill!Start
  <2>5. Fill!TypeOK'
    <3>1. ok' \in TasksLine /\ wpc' \in Fill!WorkPcs
      BY <2>1, TaskCount DEF Fill!WorkPcs
    <3> QED
      BY <1>0, <2>2, <2>3, <2>4, <3>1
         DEF Fill!TypeOK, TasksLine, Fill!plan, Fill!submits,
             Fill!redis, Fill!singles
  <2>6. Fill!Done' \in Nat
    <3>1. Fill!Done' \in TasksLine
      <4>1. Fill!Batch("collected")' \in SUBSET Tasks
        BY DEF Fill!Batch
      <4> QED
        BY <4>1, TaskCount DEF Fill!Done
    <3> QED
      BY <3>1, TaskCount DEF TasksLine
  <2>7. Structure'
    BY <1>0, <2>1, <2>4, <2>6 DEF Structure, AtWork, Fill!singles
  <2> QED
    BY <2>5, <2>7 DEF FillInv
<1>2. CASE Fill!StartFails
  <2>1. wpc = "taken" /\ wpc' = "end"
    BY <1>2 DEF Fill!StartFails, Fill!Work
  <2>2. fill' \in [status : Fill!Statuses, total : TasksLine, done : TasksLine]
    BY <1>0, <1>2 DEF Fill!StartFails, Fill!TypeOK, TasksLine, Fill!Statuses
  <2>3. fFaults' \in 0..MaxFaults
    BY <1>0, <1>2
    DEF Fill!StartFails, Fill!Fault, Fill!TypeOK, Fill!BodyFillConstants
  <2>4. UNCHANGED <<Fill!plan, Fill!submits, Fill!redis, job, phase, ok,
                    Fill!singles>>
    BY <1>2 DEF Fill!StartFails
  <2>5. Fill!TypeOK'
    BY <1>0, <2>1, <2>2, <2>3, <2>4
       DEF Fill!TypeOK, TasksLine, Fill!WorkPcs, Fill!plan,
           Fill!submits, Fill!redis, Fill!singles
  <2>6. Structure'
    BY <1>0, <2>1, <2>4 DEF Structure, AtWork, Fill!singles
  <2> QED
    BY <2>5, <2>6 DEF FillInv
<1> QED
  BY <1>1, <1>2

\* A thread of the pool changes no collected task.
LEMMA StepPool ==
  ASSUME Fill!BodyFillConstants, FillInv, NEW t \in Tasks,
         Fill!Compute(t) \/ Fill!Computed(t)
  PROVE  FillInv' /\ (Accounted => Accounted')
<1>0. Fill!TypeOK /\ Structure
  BY DEF FillInv
<1>1. /\ phase[t] \in {"wait", "run"}
      /\ \E p \in {"run", "filled", "failed"} : phase' = [phase EXCEPT ![t] = p]
      /\ UNCHANGED <<Fill!plan, fill, Fill!submits, Fill!redis, wpc, job, ok,
                     Fill!singles>>
      /\ AtWork
  BY DEF Fill!Compute, Fill!Computed, AtWork
<1>2. PICK p \in {"run", "filled", "failed"} : phase' = [phase EXCEPT ![t] = p]
  BY <1>1
<1>3. fFaults' \in 0..MaxFaults
  BY <1>0
  DEF Fill!TypeOK, Fill!Compute, Fill!Computed, Fill!Fault,
      Fill!BodyFillConstants
<1>4. phase' \in [Tasks -> Fill!Phases]
  BY <1>0, <1>2 DEF Fill!TypeOK, Fill!Phases
<1>5. Fill!TypeOK'
  BY <1>0, <1>1, <1>3, <1>4
     DEF Fill!TypeOK, TasksLine, Fill!plan, Fill!submits, Fill!redis,
         Fill!singles
<1>6. Fill!Batch("collected")' = Fill!Batch("collected")
  BY <1>0, <1>1, <1>2 DEF Fill!TypeOK, Fill!Batch
<1>7. wpc # "recount"
  BY <1>0, <1>1 DEF Structure, Fill!Left, Fill!Batch
<1>8. Structure'
  BY <1>0, <1>1, <1>6, <1>7 DEF Structure, AtWork, Fill!Done, Fill!singles
<1>9. Accounted => Accounted'
  BY <1>0, <1>1, <1>2 DEF Fill!TypeOK, Accounted, Fill!plan
<1> QED
  BY <1>5, <1>8, <1>9 DEF FillInv

\* Each result is collected once, and unless marking it fails too its task is
\* filled or its item marked.
LEMMA StepCollect ==
  ASSUME Fill!BodyFillConstants, FillInv, NEW t \in Tasks,
         \/ Fill!Collect(t) \/ Fill!CollectFailure(t) \/ Fill!CollectUnrecorded(t)
         \/ Fill!CollectRefused(t)
  PROVE  FillInv' /\ ("record" \notin FillFaults /\ Accounted => Accounted')
<1>0. Fill!TypeOK /\ Structure
  BY DEF FillInv
<1>1. /\ wpc = "running" /\ wpc' = "count"
      /\ phase[t] \in {"filled", "failed"}
      /\ phase' = [phase EXCEPT ![t] = "collected"]
      /\ UNCHANGED <<edits, fill, Fill!submits, Fill!redis, job, Fill!singles>>
  BY
  DEF Fill!Collect, Fill!CollectFailure, Fill!CollectUnrecorded,
      Fill!CollectRefused, Fill!Work, Fill!plan
<1>2. Fill!Done' = Fill!Done + 1
  BY <1>0, <1>1, CollectedMore
<1>3. Fill!Done \in TasksLine /\ Fill!Done' \in TasksLine
  <2>1. Fill!Batch("collected") \in SUBSET Tasks /\ Fill!Batch("collected")' \in SUBSET Tasks
    BY DEF Fill!Batch
  <2> QED
    BY <2>1, TaskCount DEF Fill!Done
<1>4. ok' \in {ok, ok + 1}
  BY
  DEF Fill!Collect, Fill!CollectFailure, Fill!CollectUnrecorded,
      Fill!CollectRefused
<1>5. ok' <= Fill!Done' /\ ok' \in TasksLine
  <2>1. ok <= Fill!Done /\ ok \in TasksLine
    BY <1>0, <1>1 DEF Structure, AtWork, Fill!TypeOK, TasksLine
  <2> QED
    BY <1>2, <1>3, <1>4, <2>1, TaskCount DEF TasksLine
<1>6. fFaults' \in 0..MaxFaults
  BY <1>0
  DEF Fill!TypeOK, Fill!Collect, Fill!CollectFailure,
      Fill!CollectUnrecorded, Fill!CollectRefused, Fill!Fault,
      Fill!BodyFillConstants
<1>7. filled \subseteq filled' /\ filled' \subseteq Tasks
  BY <1>0
  DEF Fill!TypeOK, Fill!Collect, Fill!CollectFailure,
      Fill!CollectUnrecorded, Fill!CollectRefused, Fill!plan
<1>8. error' \in {error, [error EXCEPT ![Fill!ItemOf(t)] = t]}
  BY
  DEF Fill!Collect, Fill!CollectFailure, Fill!CollectUnrecorded,
      Fill!CollectRefused, Fill!plan
<1>9. error' \in [PlanItems -> Tasks \cup {Fill!None}]
  BY <1>0, <1>8, TaskItem DEF Fill!TypeOK
<1>10. phase' \in [Tasks -> Fill!Phases]
  BY <1>0, <1>1 DEF Fill!TypeOK, Fill!Phases
<1>11. Fill!TypeOK'
  <2>1. wpc' \in Fill!WorkPcs
    BY <1>1 DEF Fill!WorkPcs
  <2> QED
    BY <1>0, <1>1, <1>5, <1>6, <1>7, <1>9, <1>10, <2>1
       DEF Fill!TypeOK, TasksLine, Fill!submits, Fill!redis, Fill!singles
<1>12. Structure'
  BY <1>0, <1>1, <1>5 DEF Structure, AtWork, Fill!singles
<1>13. ASSUME "record" \notin FillFaults, Accounted, NEW u \in Tasks,
              phase'[u] = "collected"
       PROVE  u \in filled' \/ error'[Fill!ItemOf(u)] # Fill!None
  <2>1. CASE u = t
    <3>1. t \in filled' \/ error' = [error EXCEPT ![Fill!ItemOf(t)] = t]
      BY <1>13
      DEF Fill!Collect, Fill!CollectFailure, Fill!CollectUnrecorded,
          Fill!CollectRefused, Fill!Fault
    <3> QED
      BY <1>0, <2>1, <3>1, TaskItem DEF Fill!TypeOK
  <2>2. CASE u # t
    <3>1. u \in filled \/ error[Fill!ItemOf(u)] # Fill!None
      BY <1>0, <1>1, <1>13, <2>2 DEF Fill!TypeOK, Accounted
    <3>2. error[Fill!ItemOf(u)] # Fill!None => error'[Fill!ItemOf(u)] # Fill!None
      BY <1>0, <1>8, TaskItem DEF Fill!TypeOK
    <3> QED
      BY <1>7, <3>1, <3>2
  <2> QED
    BY <2>1, <2>2
<1> QED
  BY <1>11, <1>12, <1>13 DEF FillInv, Accounted

LEMMA StepCount ==
  ASSUME Fill!BodyFillConstants, FillInv,
         Fill!Count \/ Fill!CountRaises \/ Fill!Finalize
  PROVE  FillInv' /\ (Accounted => Accounted')
<1>0. Fill!TypeOK /\ Structure
  BY DEF FillInv
<1>1. Fill!Done \in TasksLine
  <2>1. Fill!Batch("collected") \in SUBSET Tasks
    BY DEF Fill!Batch
  <2> QED
    BY <2>1, TaskCount DEF Fill!Done
<1>2. CASE Fill!Count \/ Fill!Finalize
  <2>1. /\ wpc \in {"count", "recount"} /\ wpc' \in {"recount", "running", "end"}
        /\ wpc' = "recount" => Fill!Left = {}
        /\ UNCHANGED <<Fill!plan, Fill!submits, Fill!redis, job, phase, ok,
                       Fill!singles, fFaults>>
    BY <1>2 DEF Fill!Count, Fill!Finalize, Fill!Work
  <2>2. fill' \in [status : Fill!Statuses, total : TasksLine, done : TasksLine]
    BY <1>0, <1>1, <1>2
    DEF Fill!Count, Fill!Finalize, Fill!TypeOK, TasksLine, Fill!Statuses
  <2>3. Fill!TypeOK'
    <3>1. wpc' \in Fill!WorkPcs
      BY <2>1 DEF Fill!WorkPcs
    <3> QED
      BY <1>0, <2>1, <2>2, <3>1
         DEF Fill!TypeOK, TasksLine, Fill!plan, Fill!submits,
             Fill!redis, Fill!singles
  <2>4. Structure'
    BY <1>0, <2>1
    DEF Structure, AtWork, Fill!Done, Fill!Left, Fill!Batch,
        Fill!singles
  <2>5. Accounted => Accounted'
    BY <2>1 DEF Accounted, Fill!plan
  <2> QED
    BY <2>3, <2>4, <2>5 DEF FillInv
<1>3. CASE Fill!CountRaises
  <2>1. /\ wpc = "count" /\ wpc' = "end" /\ phase' = [t \in Tasks |-> "none"]
        /\ UNCHANGED <<Fill!plan, fill, Fill!submits, Fill!redis, job, ok,
                       Fill!singles>>
    BY <1>3 DEF Fill!CountRaises, Fill!Work
  <2>2. fFaults' \in 0..MaxFaults
    BY <1>0, <1>3
    DEF Fill!TypeOK, Fill!CountRaises, Fill!Fault,
        Fill!BodyFillConstants
  <2>3. Fill!TypeOK'
    BY <1>0, <2>1, <2>2
       DEF Fill!TypeOK, Fill!WorkPcs, Fill!Phases, Fill!plan,
           Fill!submits, Fill!redis, Fill!singles
  <2>4. Structure'
    BY <1>0, <2>1 DEF Structure, AtWork, Fill!singles
  <2>5. Accounted'
    BY <2>1 DEF Accounted
  <2> QED
    BY <2>3, <2>4, <2>5 DEF FillInv
<1> QED
  BY <1>2, <1>3

-----------------------------------------------------------------------------
(* Users.                                                                  *)

LEMMA StepUser ==
  ASSUME Fill!BodyFillConstants, FillInv,
         \/ \E i \in PlanItems : Fill!Edit(i)
         \/ \E r \in Singles : Fill!OneCheck(r) \/ Fill!Single(r)
  PROVE  FillInv'
<1>0. Fill!TypeOK /\ Structure
  BY DEF FillInv
<1>1. ASSUME NEW i \in PlanItems, Fill!Edit(i) PROVE FillInv'
  <2>1. edits' \in [PlanItems -> 0..MaxEdits]
    BY <1>0, <1>1 DEF Fill!TypeOK, Fill!Edit, Fill!BodyFillConstants
  <2>2. UNCHANGED <<filled, error, fill, Fill!submits, Fill!redis, Fill!worker,
                    Fill!singles, fFaults>>
    BY <1>1 DEF Fill!Edit
  <2>3. Fill!TypeOK'
    BY <1>0, <2>1, <2>2
    DEF Fill!TypeOK, Fill!submits, Fill!redis, Fill!worker,
        Fill!singles
  <2>4. Structure'
    BY <1>0, <2>2
    DEF Structure, AtWork, Fill!Done, Fill!Left, Fill!Batch,
        Fill!worker, Fill!singles
  <2> QED
    BY <2>3, <2>4 DEF FillInv
<1>2. ASSUME NEW r \in Singles, Fill!OneCheck(r) PROVE FillInv'
  <2>1. PICK t \in Tasks :
          /\ what' = [what EXCEPT ![r] = t]
          /\ copy' = [copy EXCEPT ![r] =
                 [filled |-> {u \in filled : Fill!ItemOf(u) = Fill!ItemOf(t)},
                  edits |-> edits[Fill!ItemOf(t)]]]
    BY <1>2 DEF Fill!OneCheck
  <2>2. [filled |-> {u \in filled : Fill!ItemOf(u) = Fill!ItemOf(t)},
         edits |-> edits[Fill!ItemOf(t)]] \in [filled : SUBSET Tasks, edits : 0..MaxEdits]
    BY <1>0, TaskItem DEF Fill!TypeOK
  <2>3. copy' \in [Singles -> [filled : SUBSET Tasks, edits : 0..MaxEdits]]
    <3> DEFINE C == [filled : SUBSET Tasks, edits : 0..MaxEdits]
               c == [filled |-> {u \in filled : Fill!ItemOf(u) = Fill!ItemOf(t)},
                     edits |-> edits[Fill!ItemOf(t)]]
    <3>1. c \in C /\ copy \in [Singles -> C] /\ copy' = [copy EXCEPT ![r] = c]
      BY <1>0, <2>1, <2>2 DEF Fill!TypeOK
    <3> HIDE DEF C, c
    <3>2. copy' \in [Singles -> C]
      BY <3>1
    <3> QED
      BY <3>2 DEF C
  <2>4. /\ one' = [one EXCEPT ![r] = "checked"]
        /\ UNCHANGED <<Fill!plan, fill, Fill!submits, Fill!redis, Fill!worker, slot,
                       fFaults>>
    BY <1>2 DEF Fill!OneCheck, Fill!One
  <2>5. one' \in [Singles -> Fill!OnePcs] /\ what' \in [Singles -> Tasks \cup {Fill!None}]
    BY <1>0, <2>1, <2>4 DEF Fill!TypeOK, Fill!OnePcs
  <2>6. Fill!TypeOK'
    BY <1>0, <2>3, <2>4, <2>5
    DEF Fill!TypeOK, Fill!plan, Fill!submits, Fill!redis, Fill!worker
  <2>7. Structure'
    <3>1. \A q \in Singles : one'[q] \notin {"idle", "done"} => what'[q] \in Tasks
      BY <1>0, <2>1, <2>4 DEF Fill!TypeOK, Structure
    <3> QED
      BY <1>0, <2>4, <3>1
      DEF Structure, AtWork, Fill!Done, Fill!Left, Fill!Batch,
          Fill!worker, Fill!plan
  <2> QED
    BY <2>6, <2>7 DEF FillInv
<1>3. ASSUME NEW r \in Singles, Fill!Single(r) PROVE FillInv'
  <2>1. /\ one[r] \in {"checked", "filling", "filled", "free"}
        /\ \E p \in Fill!OnePcs : one' = [one EXCEPT ![r] = p]
        /\ UNCHANGED <<edits, error, fill, Fill!submits, Fill!redis, Fill!worker,
                       what, copy>>
    BY <1>3
    DEF Fill!Single, Fill!OneSlot, Fill!OneFill, Fill!OneApply,
        Fill!OneFree, Fill!One, Fill!OnePcs, Fill!MergeItem,
        Fill!plan
  <2>2. what[r] \in Tasks
    BY <1>0, <2>1 DEF Structure
  <2>3. filled' \subseteq Tasks
    BY <1>0, <1>3, <2>2
       DEF Fill!TypeOK, Fill!Single, Fill!OneSlot, Fill!OneFill,
           Fill!OneApply, Fill!OneFree, Fill!MergeItem, Fill!plan
  <2>4. slot' \in [PlanItems -> Singles \cup {Fill!None}]
    <3>1. Fill!ItemOf(what[r]) \in PlanItems /\ slot \in [PlanItems -> Singles \cup {Fill!None}]
      BY <1>0, <2>2, TaskItem DEF Fill!TypeOK
    <3>2. \/ slot' = slot
          \/ slot' = [slot EXCEPT ![Fill!ItemOf(what[r])] = r]
          \/ slot' = [slot EXCEPT ![Fill!ItemOf(what[r])] = IF @ = r THEN Fill!None ELSE @]
      BY <1>3
      DEF Fill!Single, Fill!OneSlot, Fill!OneFill, Fill!OneApply,
          Fill!OneFree
    <3> QED
      BY <3>1, <3>2
  <2>5. fFaults' \in 0..MaxFaults
    BY <1>0, <1>3
    DEF Fill!TypeOK, Fill!Single, Fill!OneSlot, Fill!OneFill,
        Fill!OneApply, Fill!OneFree, Fill!Fault, Fill!BodyFillConstants
  <2>6. one' \in [Singles -> Fill!OnePcs]
    BY <1>0, <2>1 DEF Fill!TypeOK
  <2>7. Fill!TypeOK'
    BY <1>0, <2>1, <2>3, <2>4, <2>5, <2>6
    DEF Fill!TypeOK, Fill!submits, Fill!redis, Fill!worker
  <2>8. Structure'
    <3>1. \A q \in Singles : one'[q] \notin {"idle", "done"} => what'[q] \in Tasks
      BY <1>0, <2>1, <2>2 DEF Fill!TypeOK, Structure
    <3> QED
      BY <1>0, <2>1, <3>1
      DEF Structure, AtWork, Fill!Done, Fill!Left, Fill!Batch,
          Fill!worker
  <2> QED
    BY <2>7, <2>8 DEF FillInv
<1> QED
  BY <1>1, <1>2, <1>3

-----------------------------------------------------------------------------
(* The theorems.                                                           *)

LEMMA FillStutter ==
  ASSUME UNCHANGED Fill!vars PROVE (FillInv => FillInv') /\ (Accounted => Accounted')
BY
DEF Fill!vars, Fill!plan, Fill!submits, Fill!redis, Fill!worker,
    Fill!singles, FillInv, Fill!TypeOK, Structure, AtWork, Fill!Done,
    Fill!Left, Fill!Batch, Accounted

LEMMA FillStep ==
  ASSUME Fill!BodyFillConstants, FillInv, [Fill!Next]_Fill!vars PROVE FillInv'
<1>1. CASE \E s \in Submits : Fill!SubmitCheck(s) \/ Fill!Submit(s)
  BY <1>1, StepSubmit
<1>2. CASE Fill!WorkerStep
  BY <1>2, StepStart, StepPool, StepCollect, StepCount, StepJob
     DEF Fill!WorkerStep, Fill!PoolStep
<1>3. CASE Fill!Crash \/ Fill!Expire
  BY <1>3, StepJob
<1>4. CASE \/ \E i \in PlanItems : Fill!Edit(i)
           \/ \E r \in Singles : Fill!OneCheck(r) \/ Fill!Single(r)
  BY <1>4, StepUser
<1>5. CASE UNCHANGED Fill!vars
  BY <1>5, FillStutter
<1> QED
  BY <1>1, <1>2, <1>3, <1>4, <1>5 DEF Fill!Next

\* Every reachable state is well typed: of no plan more fills are counted, waited
\* for or found successful than it has tasks.
THEOREM FillTypeCorrect ==
  ASSUME Fill!BodyFillConstants PROVE Fill!Spec => []Fill!TypeOK
<1>1. Fill!Init => FillInv
  BY InitFill
<1>2. FillInv /\ [Fill!Next]_Fill!vars => FillInv'
  BY FillStep
<1>3. FillInv => Fill!TypeOK
  BY DEF FillInv
<1> QED
  BY <1>1, <1>2, <1>3, PTL DEF Fill!Spec

\* A fill merged late, by the whole job or by a request of its own, takes back
\* neither an edit nor another fill (apply_filled_gap_item).
THEOREM NothingTakenBack ==
  ASSUME Fill!BodyFillConstants PROVE Fill!Spec => Fill!WorkKept
<1>1. Fill!Init => FillInv
  BY InitFill
<1>2. FillInv /\ [Fill!Next]_Fill!vars => FillInv'
  BY FillStep
<1>3. ASSUME FillInv, Fill!Next
      PROVE  filled \subseteq filled' /\ \A i \in PlanItems : edits[i] <= edits'[i]
  <2>0. edits \in [PlanItems -> Nat]
    BY <1>3 DEF FillInv, Fill!TypeOK
  <2>1. CASE \E i \in PlanItems : Fill!Edit(i)
    BY <2>0, <2>1 DEF Fill!Edit
  <2>2. CASE UNCHANGED edits /\ filled \subseteq filled'
    BY <2>0, <2>2
  <2>3. \/ \E i \in PlanItems : Fill!Edit(i)
        \/ UNCHANGED edits /\ filled \subseteq filled'
    <3>1. CASE \E s \in Submits : Fill!SubmitCheck(s) \/ Fill!Submit(s)
      BY <3>1
      DEF Fill!Submit, Fill!SubmitCheck, Fill!SubmitState,
          Fill!SubmitEnqueue, Fill!plan
    <3>2. CASE \E t \in Tasks : Fill!PoolStep(t)
      BY <3>2
      DEF Fill!PoolStep, Fill!Compute, Fill!Computed, Fill!Collect,
          Fill!CollectFailure, Fill!CollectUnrecorded, Fill!CollectRefused,
          Fill!plan
    <3>3. CASE \/ Fill!Dequeue \/ Fill!Start \/ Fill!StartFails \/ Fill!Count \/ Fill!CountRaises
               \/ Fill!Finalize \/ Fill!EndJob \/ Fill!Release \/ Fill!Recover \/ Fill!Crash \/ Fill!Expire
      BY <3>3
      DEF Fill!Dequeue, Fill!Start, Fill!StartFails, Fill!Count,
          Fill!CountRaises, Fill!Finalize, Fill!EndJob, Fill!Release,
          Fill!Recover, Fill!Crash, Fill!Expire, Fill!plan
    <3>4. CASE \E r \in Singles : Fill!OneCheck(r) \/ Fill!Single(r)
      BY <3>4
      DEF Fill!OneCheck, Fill!Single, Fill!OneSlot, Fill!OneFill,
          Fill!OneApply, Fill!OneFree, Fill!MergeItem, Fill!plan
    <3> QED
      BY <1>3, <3>1, <3>2, <3>3, <3>4 DEF Fill!Next, Fill!WorkerStep
  <2> QED
    BY <2>1, <2>2, <2>3
<1>4. FillInv /\ [Fill!Next]_Fill!vars =>
         [ filled \subseteq filled' /\ \A i \in PlanItems : edits[i] <= edits'[i] ]_Fill!vars
  BY <1>3
<1> QED
  BY <1>1, <1>2, <1>4, PTL DEF Fill!Spec, Fill!WorkKept

LEMMA AccountedStep ==
  ASSUME Fill!BodyFillConstants, "record" \notin FillFaults, FillInv, Accounted,
         [Fill!Next]_Fill!vars
  PROVE  Accounted'
<1>0. Fill!TypeOK
  BY DEF FillInv
<1>1. CASE \/ \E s \in Submits : Fill!SubmitCheck(s) \/ Fill!Submit(s)
           \/ Fill!Dequeue \/ Fill!StartFails \/ Fill!Release \/ Fill!Recover \/ Fill!Expire
  <2>1. UNCHANGED <<phase, filled, error>>
    BY <1>1
    DEF Fill!SubmitCheck, Fill!Submit, Fill!SubmitState,
        Fill!SubmitEnqueue, Fill!Dequeue, Fill!StartFails, Fill!Release,
        Fill!Recover, Fill!Expire, Fill!plan, Fill!worker
  <2> QED
    BY <2>1 DEF Accounted
<1>2. CASE Fill!Start \/ Fill!EndJob \/ Fill!Crash
  <2>1. \A t \in Tasks : phase'[t] # "collected"
    BY <1>2 DEF Fill!Start, Fill!EndJob, Fill!Crash
  <2> QED
    BY <2>1 DEF Accounted
<1>3. CASE Fill!Count \/ Fill!CountRaises \/ Fill!Finalize
  BY <1>3, StepCount
<1>4. CASE \E t \in Tasks : Fill!PoolStep(t)
  BY <1>4, StepPool, StepCollect DEF Fill!PoolStep
<1>5. CASE \E i \in PlanItems : Fill!Edit(i)
  BY <1>5 DEF Fill!Edit, Accounted, Fill!worker
<1>6. CASE \E r \in Singles : Fill!OneCheck(r) \/ Fill!Single(r)
  <2>1. UNCHANGED <<phase, error>> /\ filled \subseteq filled'
    BY <1>6
    DEF Fill!OneCheck, Fill!Single, Fill!OneSlot, Fill!OneFill,
        Fill!OneApply, Fill!OneFree, Fill!MergeItem, Fill!plan,
        Fill!worker
  <2> QED
    BY <2>1 DEF Accounted
<1>7. CASE UNCHANGED Fill!vars
  BY <1>7, FillStutter
<1> QED
  BY <1>1, <1>2, <1>3, <1>4, <1>5, <1>6, <1>7 DEF Fill!Next, Fill!WorkerStep

\* A batch that ends by itself has counted every task it started with, and filled
\* or marked each, as long as marking does not fail (_record_item_failure).
THEOREM EveryTaskAccounted ==
  ASSUME Fill!BodyFillConstants, "record" \notin FillFaults
  PROVE  Fill!Spec => Fill!BatchAccounted
<1>1. Fill!Init => FillInv /\ Accounted
  BY InitFill
<1>2. FillInv /\ Accounted /\ [Fill!Next]_Fill!vars => (FillInv /\ Accounted)'
  BY FillStep, AccountedStep
<1>3. ASSUME FillInv, Accounted, Fill!Finalize
      PROVE  /\ fill'.done = Fill!Cardinality({t \in Tasks : phase[t] # "none"})
             /\ \A t \in Tasks : phase[t] # "none" =>
                   t \in filled' \/ error'[Fill!ItemOf(t)] # Fill!None
  <2>1. wpc = "recount" /\ UNCHANGED <<filled, error>> /\ fill'.done = Fill!Done
    BY <1>3 DEF Fill!Finalize, Fill!Work, Fill!plan, FillInv, Fill!TypeOK
  <2>2. \A t \in Tasks : phase[t] \in {"none", "collected"}
    <3>1. Fill!Left = {}
      BY <1>3, <2>1 DEF FillInv, Structure
    <3>2. phase \in [Tasks -> Fill!Phases]
      BY <1>3 DEF FillInv, Fill!TypeOK
    <3> QED
      BY <3>1, <3>2 DEF Fill!Left, Fill!Batch, Fill!Phases
  <2>3. {t \in Tasks : phase[t] # "none"} = Fill!Batch("collected")
    BY <2>2 DEF Fill!Batch
  <2> QED
    BY <1>3, <2>1, <2>2, <2>3 DEF Fill!Done, Accounted
<1>4. FillInv /\ Accounted /\ [Fill!Next]_Fill!vars =>
        [ Fill!Finalize => /\ fill'.done = Fill!Cardinality({t \in Tasks : phase[t] # "none"})
                      /\ \A t \in Tasks : phase[t] # "none" =>
                            t \in filled' \/ error'[Fill!ItemOf(t)] # Fill!None ]_Fill!vars
  BY <1>3
<1> QED
  BY <1>1, <1>2, <1>4, PTL DEF Fill!Spec, Fill!BatchAccounted

-----------------------------------------------------------------------------
(* The scenes of MC_Documents: in all of them each component does its own  *)
(* steps or stands still, with the constants of its scene.                 *)

LEMMA SceneStays ==
  [AllNext]_allVars =>
    /\ scene = "result" => (scene = "result")'
    /\ scene # "result" => (scene # "result")'
  BY DEF AllNext, Scene, allVars

LEMMA ComponentMoves ==
  [AllNext]_allVars => [Document!Next]_Document!vars /\ [Fill!Next]_Fill!vars
<1> SUFFICES ASSUME [AllNext]_allVars
             PROVE  [Document!Next]_Document!vars /\ [Fill!Next]_Fill!vars
  OBVIOUS
<1>1. UNCHANGED documentVars => UNCHANGED Document!vars
  BY DEF documentVars, Document!vars
<1>2. UNCHANGED fillVars => UNCHANGED Fill!vars
  BY DEF fillVars, Fill!vars, Fill!plan, Fill!submits, Fill!redis, Fill!worker,
         Fill!singles
<1>3. UNCHANGED allVars => UNCHANGED documentVars /\ UNCHANGED fillVars
  BY DEF allVars
<1> QED
  BY <1>1, <1>2, <1>3 DEF AllNext, Scene, Merge, Batch

LEMMA ResultMoves ==
  [AllNext]_allVars =>
    /\ scene = "result" => [Result!Next]_Result!vars
    /\ scene # "result" => [Folder!Next]_Folder!vars
<1> SUFFICES ASSUME [AllNext]_allVars
             PROVE  /\ scene = "result" => [Result!Next]_Result!vars
                    /\ scene # "result" => [Folder!Next]_Folder!vars
  OBVIOUS
<1>1. UNCHANGED resultVars => UNCHANGED Result!vars /\ UNCHANGED Folder!vars
  BY DEF resultVars, Result!vars, Result!counters, Folder!vars, Folder!counters
<1>2. UNCHANGED allVars => UNCHANGED resultVars
  BY DEF allVars
<1> QED
  BY <1>1, <1>2 DEF AllNext, Scene

\* With callbacks, page saves, formats and other requests that do not overlap, the
\* object is the document between them, unless the upload of that document failed or
\* was not reached (bid_document_flow).
THEOREM SceneDocumentCurrent == AllSpec => []DocumentCurrent
<1>1. AllInit => Document!Init
  BY DEF AllInit
<1>2. AllSpec => Document!Spec
  BY <1>1, ComponentMoves, PTL DEF AllSpec, Document!Spec
<1>3. Document!Spec => [](Document!TypeOK /\ Document!DocumentCurrent)
  BY DocumentsConstants, DocumentIsCurrent
<1> QED
  BY <1>2, <1>3, PTL DEF DocumentCurrent

\* Then an outdated editor replaces nothing newer (the version in its URL).
THEOREM SceneNewestKept == AllSpec => NewestKept
<1>1. AllInit => Document!Init
  BY DEF AllInit
<1>2. Document!Spec => Document!NewestKept
  BY DocumentsConstants, NewestIsKept
<1> QED
  BY <1>1, <1>2, ComponentMoves, PTL DEF AllSpec, Document!Spec, NewestKept

\* No fill, of the whole job or a single one, takes back what was filled or edited
\* (apply_filled_gap_item).
THEOREM SceneWorkKept == AllSpec => WorkKept
<1>1. AllInit => Fill!Init
  BY DEF AllInit
<1>2. Fill!Spec => Fill!WorkKept
  BY DocumentsConstants, NothingTakenBack
<1> QED
  BY <1>1, <1>2, ComponentMoves, PTL DEF AllSpec, Fill!Spec, WorkKept

\* A batch that ends by itself accounts for each of its tasks, as long as marking a
\* failed one does not fail (_record_item_failure).
THEOREM SceneBatchAccounted ==
  ASSUME "record" \notin FillFaults PROVE AllSpec => BatchAccounted
<1>1. AllInit => Fill!Init
  BY DEF AllInit
<1>2. Fill!Spec => Fill!BatchAccounted
  BY DocumentsConstants, EveryTaskAccounted
<1> QED
  BY <1>1, <1>2, ComponentMoves, PTL DEF AllSpec, Fill!Spec, BatchAccounted

LEMMA ResultSpec ==
  /\ scene = "result" /\ AllSpec => Result!Spec /\ [](scene = "result")
  /\ scene # "result" /\ AllSpec => Folder!Spec /\ [](scene # "result")
<1>1. AllInit => /\ scene = "result" => Result!Init
                 /\ scene # "result" => Folder!Init
  BY DEF AllInit
<1>2. scene = "result" /\ AllSpec => Result!Spec /\ [](scene = "result")
  BY <1>1, SceneStays, ResultMoves, PTL DEF AllSpec, Result!Spec
<1>3. scene # "result" /\ AllSpec => Folder!Spec /\ [](scene # "result")
  BY <1>1, SceneStays, ResultMoves, PTL DEF AllSpec, Folder!Spec
<1> QED
  BY <1>2, <1>3

\* An acknowledged choice of appendices stays until the project is parsed again or
\* the user chooses anew (_merge_technical_appendix_runtime_state).
THEOREM SceneChoiceKept == AllSpec => []ChoiceKept
<1>1. /\ Result!Spec => [](Result!TypeOK /\ Result!ChoiceKept)
      /\ Folder!Spec => [](Folder!TypeOK /\ Folder!ChoiceKept)
  BY DocumentsConstants, Result!ChoicesAreKept, Folder!ChoicesAreKept
<1>2. /\ scene = "result" /\ Result!ChoiceKept => ChoiceKept
      /\ scene # "result" /\ Folder!ChoiceKept => ChoiceKept
      /\ scene = "result" \/ scene # "result"
  BY DEF ChoiceKept
<1> QED
  BY <1>1, <1>2, ResultSpec, PTL

\* Between calm requests the result knows of every file of the material folder
\* (BidProjectService.update, "finally").
THEOREM SceneFolderTracked == AllSpec => []FolderTracked
<1>1. /\ Result!Spec => []Result!FolderTracked
      /\ Folder!Spec => []Folder!FolderTracked
  BY DocumentsConstants, Result!FolderIsTracked, Folder!FolderIsTracked
<1>2. /\ scene = "result" /\ Result!FolderTracked => FolderTracked
      /\ scene # "result" /\ Folder!FolderTracked => FolderTracked
      /\ scene = "result" \/ scene # "result"
  BY DEF FolderTracked
<1> QED
  BY <1>1, <1>2, ResultSpec, PTL

\* A calm request that answers "synced" or "skipped" leaves exactly the chosen
\* appendices in the folder (sync_technical_appendix_materials).
THEOREM SceneSyncedIsChosen == AllSpec => SyncedIsChosen
<1> DEFINE Step == IF scene = "result" THEN Result!SyncedStep ELSE Folder!SyncedStep
<1>1. /\ Result!Spec => [][Result!SyncedStep]_Result!vars
      /\ Folder!Spec => [][Folder!SyncedStep]_Folder!vars
  BY DocumentsConstants, Result!SyncedAreChosen, Folder!SyncedAreChosen
  DEF Result!SyncedIsChosen, Folder!SyncedIsChosen
<1>2. UNCHANGED Result!vars \/ UNCHANGED Folder!vars => UNCHANGED resultVars
  BY DEF resultVars, Result!vars, Result!counters, Folder!vars, Folder!counters
<1>3. /\ scene = "result" /\ [Result!SyncedStep]_Result!vars => [Step]_resultVars
      /\ scene # "result" /\ [Folder!SyncedStep]_Folder!vars => [Step]_resultVars
      /\ scene = "result" \/ scene # "result"
  BY <1>2
<1> QED
  BY <1>1, <1>3, ResultSpec, PTL DEF SyncedIsChosen
=============================================================================
