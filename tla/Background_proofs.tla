------------------------- MODULE Background_proofs -------------------------
(***************************************************************************)
(* Theorems of what the background work writes to a project: ProjectStore, *)
(* for any number of operations and fields, any limit of retries, and any  *)
(* mix of ways of writing that it names, and GenerationJobs, for any       *)
(* requests, edits and faults.                                             *)
(***************************************************************************)
EXTENDS MC_Background, SequenceTheorems, TLAPS

-----------------------------------------------------------------------------
(* Types.                                                                  *)

\* A retry keeps the count within the limit.
TriesInv ==
    \A w \in Writers :
        pc[w] \in {"idle", "read", "unmatched"} => tries[w] < Retries

StoreInv == TypeOK /\ TriesInv

LEMMA EmptyPayload == Empty \in Payloads
  BY DEF Empty, Payloads

LEMMA InitStore == Init => StoreInv
  BY StoreConstants, EmptyPayload
  DEF Init, StoreInv, TypeOK, TriesInv, Pcs

\* A copy with its own change added is a payload.
LEMMA ChangedPayload ==
  ASSUME TypeOK, NEW w \in Writers
  PROVE  [row EXCEPT !.val[FieldOf[w]] = @ \cup {w}] \in Payloads
<1>1. row \in Payloads /\ FieldOf[w] \in Fields
  BY StoreConstants DEF TypeOK
<1> QED
  BY <1>1 DEF Payloads

\* What an unconditional or matching write leaves is a payload.
LEMMA StoredPayload ==
  ASSUME TypeOK, NEW w \in Writers, Store(w)
  PROVE  row' \in Payloads /\ exists' = TRUE
<1>1. snap[w] \in Payloads
  BY DEF TypeOK
<1> QED
  BY <1>1 DEF Payloads, Store, NextRev

LEMMA StepStore == StoreInv /\ [Next]_vars => StoreInv'
<1> SUFFICES ASSUME StoreInv, [Next]_vars PROVE StoreInv'
  OBVIOUS
<1> USE StoreConstants, EmptyPayload
<1>0. TypeOK /\ TriesInv
  BY DEF StoreInv
<1>1. ASSUME NEW w \in Writers, Read(w) PROVE StoreInv'
  <2> DEFINE own == [row EXCEPT !.val[FieldOf[w]] = @ \cup {w}]
  <2>1. own \in Payloads
    BY <1>0, ChangedPayload
  <2>2. exists => snap' = [snap EXCEPT ![w] = own]
    BY <1>1 DEF Read
  <2>3. ~ exists => snap' = [snap EXCEPT ![w] = Empty]
    BY <1>1 DEF Read, End
  <2> HIDE DEF own
  <2>4. snap' \in [Writers -> Payloads]
    BY <1>0, <2>1, <2>2, <2>3 DEF TypeOK
  <2>5. \/ pc' = [pc EXCEPT ![w] = "read"] /\ pc[w] = "idle"
        \/ pc' = [pc EXCEPT ![w] = "missing"]
    BY <1>1 DEF Read, Go, End
  <2>6. UNCHANGED <<mode, exists, row, tries>>
    BY <1>1 DEF Read
  <2> QED
    BY <1>0, <2>4, <2>5, <2>6 DEF StoreInv, TypeOK, TriesInv, Pcs
<1>2. ASSUME NEW w \in Writers, Abandon(w) PROVE StoreInv'
  BY <1>0, <1>2 DEF Abandon, Go, End, StoreInv, TypeOK, TriesInv, Pcs
<1>4. ASSUME NEW w \in Writers, PersistWhole(w) PROVE StoreInv'
  <2>1. row' \in Payloads /\ exists' = TRUE
    BY <1>0, <1>4, StoredPayload DEF PersistWhole
  <2> QED
    BY <1>0, <1>4, <2>1
    DEF PersistWhole, Go, End, StoreInv, TypeOK, TriesInv, Pcs
<1>5. ASSUME NEW w \in Writers, PersistFields(w) PROVE StoreInv'
  <2>1. row \in Payloads /\ snap[w] \in Payloads /\ FieldOf[w] \in Fields
    BY <1>0 DEF TypeOK
  <2>2. row' \in Payloads
    BY <1>5, <2>1 DEF PersistFields, Payloads
  <2> QED
    BY <1>0, <1>5, <2>2
    DEF PersistFields, Go, End, StoreInv, TypeOK, TriesInv, Pcs
<1>6. ASSUME NEW w \in Writers, CasUpdate(w) PROVE StoreInv'
  <2>1. CASE Matches(w) /\ End(w, "read", "done") /\ Store(w)
    <3>1. row' \in Payloads /\ exists' = TRUE
      BY <1>0, <2>1, StoredPayload
    <3> QED
      BY <1>0, <1>6, <2>1, <3>1
      DEF CasUpdate, Go, End, StoreInv, TypeOK, TriesInv, Pcs
  <2>2. CASE Go(w, "read", "unmatched") /\ UNCHANGED <<exists, row, snap>>
    BY <1>0, <1>6, <2>2 DEF CasUpdate, Go, StoreInv, TypeOK, TriesInv, Pcs
  <2> QED
    BY <1>6, <2>1, <2>2 DEF CasUpdate
<1>7. ASSUME NEW w \in Writers, CasProbe(w) PROVE StoreInv'
  <2>1. tries[w] < Retries /\ tries[w] \in 0..Retries
    BY <1>0, <1>7 DEF CasProbe, TypeOK, TriesInv
  <2>2. CASE exists /\ MayRetry(w)
    BY <1>0, <1>7, <2>1, <2>2
    DEF CasProbe, Conflict, MayRetry, Go, End, StoreInv, TypeOK, TriesInv, Pcs
  <2>3. CASE exists /\ ~ MayRetry(w)
    BY <1>0, <1>7, <2>1, <2>3
    DEF CasProbe, Conflict, Go, End, StoreInv, TypeOK, TriesInv, Pcs
  <2>4. CASE ~ exists
    BY <1>0, <1>7, <2>1, <2>4
    DEF CasProbe, Go, StoreInv, TypeOK, TriesInv, Pcs
  <2> QED
    BY <2>2, <2>3, <2>4
<1>8. ASSUME NEW w \in Writers, CasInsert(w) PROVE StoreInv'
  <2>1. CASE End(w, "inserting", "refused") /\ UNCHANGED <<exists, row>>
    BY <1>0, <1>8, <2>1
    DEF CasInsert, Go, End, StoreInv, TypeOK, TriesInv, Pcs
  <2>2. CASE End(w, "inserting", "done") /\ Store(w)
    <3>1. row' \in Payloads /\ exists' = TRUE
      BY <1>0, <2>2, StoredPayload
    <3> QED
      BY <1>0, <1>8, <2>2, <3>1
      DEF CasInsert, Go, End, StoreInv, TypeOK, TriesInv, Pcs
  <2> QED
    BY <1>8, <2>1, <2>2 DEF CasInsert
<1>9. ASSUME NEW w \in Writers, Delete(w) PROVE StoreInv'
  BY <1>0, <1>9 DEF Delete, Go, End, StoreInv, TypeOK, TriesInv, Pcs
<1>10. CASE UNCHANGED vars
  BY <1>0, <1>10 DEF vars, StoreInv, TypeOK, TriesInv
<1> QED
  BY <1>1, <1>2, <1>4, <1>5, <1>6, <1>7, <1>8, <1>9, <1>10 DEF Next

\* Every reachable state is well typed, with never more attempts than allowed
\* (mutate_workspace_project's loop).
THEOREM TypeCorrect == Spec => []TypeOK
<1>1. StoreInv => TypeOK
  BY DEF StoreInv
<1> QED
  BY <1>1, InitStore, StepStore, PTL DEF Spec
-----------------------------------------------------------------------------
(* Revisions and changes.                                                  *)

\* Every operation but a deletion checks the revision it has read.
Checked == \A w \in Writers : mode[w] \in {"checked", "mutate", "delete"}

\* A payload with one more change.
Plus(val, w) == [val EXCEPT ![FieldOf[w]] = @ \cup {w}]

\* The copy of an operation that has not written yet: no newer than the row, and
\* made from the row unless that has a newer revision; each conflict the operation
\* met raised the revision before the copy was made.
CopyOf(w) ==
    /\ snap[w].rev <= row.rev
    /\ tries[w] <= snap[w].rev
    /\ snap[w].rev = row.rev => snap[w].val = Plus(row.val, w)
    /\ pc[w] = "unmatched" => snap[w].rev < row.rev

\* The row holds the changes of the operations that are done, and no others.
RowHolds ==
    \A w \in Writers : pc[w] = "done" <=> w \in row.val[FieldOf[w]]

Copies ==
    \A w \in Writers : pc[w] \in {"read", "unmatched"} => CopyOf(w)

Counts ==
    \A w \in Writers : pc[w] # "inserting" /\ tries[w] <= row.rev

Live == Checked /\ ~ Deleted

\* What holds where every write is checked, until the project is deleted.
CheckedInv == Live => exists /\ Counts /\ RowHolds /\ Copies

FullInv == StoreInv /\ CheckedInv

Strong == exists /\ Counts /\ RowHolds /\ Copies

LEMMA InitChecked == Init => FullInv
<1> SUFFICES ASSUME Init PROVE FullInv
  OBVIOUS
<1>1. StoreInv
  BY InitStore
<1>2. \A w \in Writers : FieldOf[w] \in Fields
  BY StoreConstants
<1>3. exists /\ Counts /\ RowHolds /\ Copies
  BY <1>2 DEF Init, Empty, Counts, RowHolds, Copies
<1> QED
  BY <1>1, <1>3 DEF FullInv, CheckedInv

\* An operation that has ended stays ended: a deletion is never forgotten.
LEMMA StaysLive ==
  ASSUME StoreInv, Next, Live'
  PROVE  Live
<1>1. PICK w \in Writers :
        \/ Read(w) \/ Abandon(w) \/ PersistWhole(w) \/ PersistFields(w)
        \/ CasUpdate(w) \/ CasProbe(w) \/ CasInsert(w) \/ Delete(w)
  BY DEF Next
<1>2. mode' = mode
  BY <1>1 DEF Read, Abandon, PersistWhole, PersistFields, CasUpdate, CasProbe,
              CasInsert, Delete
<1>3. pc[w] # "done" /\ \E to : pc' = [pc EXCEPT ![w] = to]
  BY <1>1 DEF Read, Abandon, PersistWhole, PersistFields, CasUpdate, CasProbe,
              Conflict, CasInsert, Delete, End, Go
<1>4. \A v \in Writers : pc[v] = "done" => pc'[v] = "done"
  BY <1>3 DEF StoreInv, TypeOK
<1> QED
  BY <1>2, <1>4 DEF Live, Checked, Deleted

\* A write that matches leaves a row with the writer's change on top of the old.
LEMMA MatchingWrite ==
  ASSUME StoreInv, Strong, NEW w \in Writers,
         Matches(w), End(w, "read", "done"), Store(w)
  PROVE  /\ row'.rev = row.rev + 1
         /\ row'.val = Plus(row.val, w)
<1>1. snap[w] \in Payloads /\ row \in Payloads
  BY DEF StoreInv, TypeOK
<1>2. CopyOf(w)
  BY DEF End, Go, Strong, Copies
<1> QED
  BY <1>1, <1>2 DEF Matches, CopyOf, Store, NextRev, Payloads

LEMMA StepStrong ==
  ASSUME StoreInv, Next, Live, Live', Strong
  PROVE  Strong'
<1> USE StoreConstants
<1>0. TypeOK /\ exists /\ Counts /\ RowHolds /\ Copies
  BY DEF StoreInv, Strong
<1>r. row \in Payloads /\ row.rev \in Nat
  BY <1>0 DEF TypeOK, Payloads
<1>s. \A v \in Writers : snap[v] \in Payloads /\ snap[v].rev \in Nat /\ tries[v] \in Nat
  BY <1>0 DEF TypeOK, Payloads
<1>1. ASSUME NEW w \in Writers, Read(w) PROVE Strong'
  <2>1. pc' = [pc EXCEPT ![w] = "read"] /\ pc[w] = "idle"
    BY <1>0, <1>1 DEF Read, Go
  <2>2. UNCHANGED <<mode, exists, row, tries>>
    BY <1>1 DEF Read
  <2>3. /\ snap'[w].rev = row.rev
        /\ snap'[w].val = Plus(row.val, w)
        /\ \A v \in Writers \ {w} : snap'[v] = snap[v]
    BY <1>0, <1>1, <1>r DEF Read, TypeOK, Payloads, Plus
  <2>4. CopyOf(w)'
    BY <1>0, <1>r, <1>s, <2>1, <2>2, <2>3 DEF CopyOf, Counts, Plus, TypeOK
  <2>5. \A v \in Writers \ {w} : CopyOf(v) => CopyOf(v)'
    BY <1>0, <2>1, <2>2, <2>3 DEF CopyOf, Plus, TypeOK
  <2>6. Copies'
    BY <1>0, <2>1, <2>4, <2>5 DEF Copies, TypeOK
  <2> QED
    BY <1>0, <2>1, <2>2, <2>6 DEF Strong, Counts, RowHolds, TypeOK
<1>2. ASSUME NEW w \in Writers, Abandon(w) PROVE Strong'
  BY <1>0, <1>2
  DEF Abandon, End, Go, Strong, Counts, RowHolds, Copies, CopyOf, Plus, TypeOK
<1>4. ASSUME NEW w \in Writers, PersistWhole(w) PROVE FALSE
  BY <1>4 DEF PersistWhole, Live, Checked
<1>5. ASSUME NEW w \in Writers, PersistFields(w) PROVE FALSE
  BY <1>5 DEF PersistFields, Live, Checked
<1>6. ASSUME NEW w \in Writers, CasUpdate(w) PROVE Strong'
  <2>1. CASE Matches(w) /\ End(w, "read", "done") /\ Store(w)
    <3>1. row'.rev = row.rev + 1 /\ row'.val = Plus(row.val, w)
      BY <2>1, MatchingWrite
    <3>2. /\ pc' = [pc EXCEPT ![w] = "done"] /\ pc[w] = "read" /\ exists'
          /\ snap' = [snap EXCEPT ![w] = Empty] /\ tries' = tries
      BY <1>6, <2>1 DEF End, Go, Store, CasUpdate
    <3>3. RowHolds'
      BY <1>0, <1>r, <3>1, <3>2 DEF RowHolds, Plus, Payloads, TypeOK
    <3>4. Counts'
      BY <1>0, <1>r, <1>s, <3>1, <3>2 DEF Counts, TypeOK
    <3>5. \A v \in Writers \ {w} : CopyOf(v) => CopyOf(v)'
      BY <1>0, <1>r, <1>s, <3>1, <3>2 DEF CopyOf, TypeOK
    <3>6. Copies'
      BY <1>0, <3>2, <3>5 DEF Copies, TypeOK
    <3> QED
      BY <3>2, <3>3, <3>4, <3>6 DEF Strong
  <2>2. CASE /\ ~ Matches(w)
             /\ Go(w, "read", "unmatched")
             /\ UNCHANGED <<exists, row, snap>>
    <3>1. CopyOf(w) /\ snap[w].rev # row.rev
      BY <1>0, <2>2 DEF Go, Copies, Matches
    <3>2. snap[w].rev < row.rev
      BY <1>r, <1>s, <3>1 DEF CopyOf
    <3>3. /\ pc' = [pc EXCEPT ![w] = "unmatched"] /\ pc[w] = "read"
          /\ UNCHANGED <<exists, row, snap, tries>>
      BY <1>6, <2>2 DEF Go, CasUpdate
    <3>4. CopyOf(w)' /\ \A v \in Writers \ {w} : CopyOf(v) => CopyOf(v)'
      BY <1>0, <3>1, <3>2, <3>3 DEF CopyOf, Plus, TypeOK
    <3>5. Copies'
      BY <1>0, <3>3, <3>4 DEF Copies, TypeOK
    <3> QED
      BY <1>0, <3>3, <3>5 DEF Strong, Counts, RowHolds, TypeOK
  <2> QED
    BY <1>6, <2>1, <2>2 DEF CasUpdate
<1>7. ASSUME NEW w \in Writers, CasProbe(w) PROVE Strong'
  <2>1. /\ pc[w] = "unmatched" /\ Conflict(w)
        /\ UNCHANGED <<mode, exists, row>>
    BY <1>0, <1>7 DEF CasProbe
  <2>2. CopyOf(w)
    BY <1>0, <2>1 DEF Copies
  <2>3. tries[w] + 1 <= row.rev
    BY <1>r, <1>s, <2>1, <2>2 DEF CopyOf
  <2>4. /\ \/ pc' = [pc EXCEPT ![w] = "idle"]
           \/ pc' = [pc EXCEPT ![w] = "refused"]
        /\ snap' = [snap EXCEPT ![w] = Empty]
        /\ tries' = [tries EXCEPT ![w] = @ + 1]
    BY <2>1 DEF Conflict, End, Go
  <2>5. Counts' /\ RowHolds'
    BY <1>0, <2>1, <2>3, <2>4 DEF Counts, RowHolds, TypeOK
  <2>6. \A v \in Writers \ {w} : CopyOf(v) => CopyOf(v)'
    BY <1>0, <2>1, <2>4 DEF CopyOf, Plus, TypeOK
  <2>7. Copies'
    BY <1>0, <2>4, <2>6 DEF Copies, TypeOK
  <2> QED
    BY <1>0, <2>1, <2>5, <2>7 DEF Strong
<1>8. ASSUME NEW w \in Writers, CasInsert(w) PROVE FALSE
  BY <1>0, <1>8 DEF CasInsert, End, Go, Counts
<1>9. ASSUME NEW w \in Writers, Delete(w) PROVE FALSE
  <2>1. pc'[w] = "done" /\ mode'[w] = "delete"
    BY <1>0, <1>9 DEF Delete, End, Go, TypeOK
  <2> QED
    BY <2>1 DEF Live, Deleted
<1> QED
  BY <1>1, <1>2, <1>4, <1>5, <1>6, <1>7, <1>8, <1>9 DEF Next

LEMMA StepChecked == FullInv /\ [Next]_vars => FullInv'
<1> SUFFICES ASSUME FullInv, [Next]_vars PROVE FullInv'
  OBVIOUS
<1>1. StoreInv /\ StoreInv'
  BY StepStore DEF FullInv
<1>2. ASSUME Next, Live' PROVE Strong'
  <2>1. Live
    BY <1>1, <1>2, StaysLive
  <2>2. Strong
    BY <2>1 DEF FullInv, CheckedInv, Strong
  <2> QED
    BY <1>1, <1>2, <2>1, <2>2, StepStrong
<1>3. CASE Next
  BY <1>1, <1>2, <1>3 DEF FullInv, CheckedInv, Strong
<1>4. CASE UNCHANGED vars
  BY <1>1, <1>4
  DEF vars, FullInv, CheckedInv, Live, Checked, Deleted, Counts, RowHolds,
      Copies, CopyOf
<1> QED
  BY <1>3, <1>4

\* Writes that need no check: those of fields that nobody else writes, or all those
\* of a single operation.  Deletions may come in between.
SeparateMix(m) ==
    /\ \A w \in Writers : m[w] \in {"whole", "fields", "delete"}
    /\ \A v, w \in Writers :
          v # w /\ m[v] # "delete" /\ m[w] # "delete" =>
              /\ m[v] = "fields" /\ m[w] = "fields"
              /\ FieldOf[v] # FieldOf[w]

\* Every write but a deletion checked.
GuardedMix(m) == \A w \in Writers : m[w] \in {"checked", "mutate", "delete"}

\* What an operation has in its copy, and has left in the row.
Holds(w) ==
    mode[w] # "delete" =>
        /\ pc[w] = "read" => w \in snap[w].val[FieldOf[w]]
        /\ pc[w] = "done" => w \in row.val[FieldOf[w]]
        /\ pc[w] # "inserting"

SeparateInv == SeparateMix(mode) /\ ~ Deleted => exists /\ \A w \in Writers : Holds(w)

LEMMA InitSeparate == Init => SeparateInv
  BY DEF Init, SeparateInv, Holds

LEMMA StepSeparate ==
  ASSUME StoreInv, SeparateInv, [Next]_vars PROVE SeparateInv'
<1> USE StoreConstants
<1>1. CASE UNCHANGED vars
  BY <1>1 DEF vars, SeparateInv, SeparateMix, Deleted, Holds
<1>2. ASSUME Next, SeparateMix(mode'), ~ Deleted' PROVE exists' /\ \A w \in Writers : Holds(w)'
  <2>0. TypeOK
    BY DEF StoreInv
  <2>1. PICK w \in Writers :
          \/ Read(w) \/ Abandon(w) \/ PersistWhole(w) \/ PersistFields(w)
          \/ CasUpdate(w) \/ CasProbe(w) \/ CasInsert(w) \/ Delete(w)
    BY <1>2 DEF Next
  <2>2. mode' = mode
    BY <2>1 DEF Read, Abandon, PersistWhole, PersistFields, CasUpdate, CasProbe,
                CasInsert, Delete
  <2>3. pc[w] # "done" /\ \E to \in Pcs : pc' = [pc EXCEPT ![w] = to]
    BY <2>1 DEF Read, Abandon, PersistWhole, PersistFields, CasUpdate, CasProbe,
                Conflict, CasInsert, Delete, End, Go, Pcs
  <2>4. \A v \in Writers \ {w} : pc'[v] = pc[v] /\ snap'[v] = snap[v]
    BY <2>0, <2>1, <2>3
    DEF TypeOK, Read, Abandon, PersistWhole, PersistFields, CasUpdate, CasProbe,
        Conflict, CasInsert, Delete, End, Go
  <2>5. SeparateMix(mode) /\ ~ Deleted
    BY <1>2, <2>2, <2>3, <2>4 DEF SeparateMix, Deleted
  <2>6. exists /\ \A v \in Writers : Holds(v)
    BY <2>5 DEF SeparateInv
  <2>7. ASSUME ~ Delete(w), UNCHANGED row, exists', Holds(w)'
        PROVE  exists' /\ \A v \in Writers : Holds(v)'
    BY <2>2, <2>4, <2>6, <2>7 DEF Holds
  <2>8. CASE Read(w)
    <3>1. snap'[w].val[FieldOf[w]] = row.val[FieldOf[w]] \cup {w}
      BY <2>0, <2>6, <2>8 DEF TypeOK, Read, Payloads
    <3>2. pc'[w] = "read" /\ exists' /\ UNCHANGED row
      BY <2>0, <2>6, <2>8 DEF TypeOK, Read, Go
    <3> QED
      BY <2>8, <3>1, <3>2, <2>2, <2>4, <2>6 DEF Holds
  <2>9. CASE Abandon(w) \/ CasProbe(w) \/ CasInsert(w)
    <3>1. mode[w] # "delete" => pc[w] # "inserting"
      BY <2>6 DEF Holds
    <3>2. exists' /\ UNCHANGED row
      BY <2>6, <2>9 DEF Abandon, CasProbe, CasInsert
    <3>3. pc'[w] \notin {"read", "done", "inserting"}
      BY <2>0, <2>6, <2>9 DEF TypeOK, Abandon, CasProbe, Conflict, CasInsert, End, Go
    <3> QED
      BY <3>2, <3>3, <2>2, <2>4, <2>6 DEF Holds
  <2>10. CASE PersistFields(w)
    <3>1. /\ row' = [row EXCEPT !.val[FieldOf[w]] = snap[w].val[FieldOf[w]]]
          /\ pc[w] = "read" /\ pc'[w] = "done" /\ exists' /\ mode[w] = "fields"
      BY <2>0, <2>6, <2>10 DEF TypeOK, PersistFields, End, Go
    <3>2. /\ row'.val[FieldOf[w]] = snap[w].val[FieldOf[w]]
          /\ \A x \in Fields \ {FieldOf[w]} : row'.val[x] = row.val[x]
      BY <2>0, <3>1 DEF TypeOK, Payloads
    <3>3. Holds(w)'
      BY <2>2, <2>6, <3>1, <3>2 DEF Holds
    <3>4. ASSUME NEW v \in Writers \ {w} PROVE Holds(v)'
      <4>1. mode[v] # "delete" => FieldOf[v] \in Fields \ {FieldOf[w]}
        BY <2>5, <3>1 DEF SeparateMix
      <4> QED
        BY <2>2, <2>4, <2>6, <3>2, <4>1 DEF Holds
    <3> QED
      BY <3>1, <3>3, <3>4
  <2>11. CASE PersistWhole(w) \/ CasUpdate(w)
    <3>1. mode[w] \notin {"fields", "delete"}
      BY <2>11 DEF PersistWhole, CasUpdate, Checks
    <3>2. \A v \in Writers \ {w} : Holds(v)'
      BY <2>2, <2>5, <3>1 DEF SeparateMix, Holds
    <3>3. CASE End(w, "read", "done") /\ Store(w)
      <4>1. pc[w] = "read" /\ pc'[w] = "done" /\ exists'
        BY <2>0, <3>3 DEF TypeOK, End, Go, Store
      <4>2. row'.val = snap[w].val
        BY <2>0, <3>3 DEF TypeOK, Payloads, Store
      <4> QED
        BY <2>2, <2>6, <3>1, <3>2, <4>1, <4>2 DEF Holds
    <3>4. CASE Go(w, "read", "unmatched") /\ UNCHANGED <<exists, row, snap>>
      BY <2>0, <2>6, <3>2, <3>4 DEF TypeOK, Go, Holds
    <3> QED
      BY <2>11, <3>3, <3>4 DEF PersistWhole, CasUpdate
  <2>12. ~ Delete(w)
    BY <2>0, <2>2, <1>2 DEF TypeOK, Delete, End, Go, Deleted
  <2> QED
    BY <2>1, <2>8, <2>9, <2>10, <2>11, <2>12
<1> QED
  BY <1>1, <1>2 DEF SeparateInv

\* What was acknowledged stays in the row until the project is deleted, for any
\* number of operations and any meeting of their writes, wherever every operation
\* but a deletion checks the revision it has read, or every one writes a field of
\* its own, or only one writes (persist_project_state_checked, persist_project_fields).
THEOREM AcknowledgedStays ==
  ASSUME \A m \in Mixes : GuardedMix(m) \/ SeparateMix(m)
  PROVE  Spec => []AckedKept
<1>1. FullInv /\ SeparateInv => AckedKept
  <2> SUFFICES ASSUME FullInv, SeparateInv, ~ Deleted, NEW w \in Writers, pc[w] = "done"
               PROVE  exists /\ w \in row.val[FieldOf[w]]
    BY DEF AckedKept
  <2>1. mode[w] # "delete" /\ mode \in Mixes
    BY DEF Deleted, FullInv, StoreInv, TypeOK
  <2>2. CASE GuardedMix(mode)
    <3>1. Checked
      BY <2>2 DEF GuardedMix, Checked
    <3> QED
      BY <3>1 DEF FullInv, CheckedInv, Live, RowHolds
  <2>3. CASE SeparateMix(mode)
    BY <2>1, <2>3 DEF SeparateInv, Holds
  <2> QED
    BY <2>1, <2>2, <2>3
<1>2. Init => SeparateInv
  BY InitSeparate
<1>3. FullInv /\ SeparateInv /\ [Next]_vars => SeparateInv'
  BY StepSeparate DEF FullInv
<1> QED
  BY <1>1, <1>2, <1>3, InitChecked, StepChecked, PTL DEF Spec

LEMMA CasOnlyIsLive == ASSUME CasOnly PROVE Live
  BY DEF CasOnly, Checks, Live, Checked, Deleted

\* A checked operation is refused only after as many others went through as it
\* made attempts (mutate_workspace_project's replays).
THEOREM RefusedOnlyByOthers == Spec => []RefusedOnlyWhenBeaten
<1>1. FullInv => RefusedOnlyWhenBeaten
  <2> SUFFICES ASSUME FullInv, CasOnly, NEW w \in Writers, pc[w] = "refused"
               PROVE  tries[w] <= row.rev /\ w \notin row.val[FieldOf[w]]
    BY DEF RefusedOnlyWhenBeaten
  <2> QED
    BY CasOnlyIsLive DEF FullInv, CheckedInv, Counts, RowHolds
<1> QED
  BY <1>1, InitChecked, StepChecked, PTL DEF Spec

\* The action of RevCounts.
OneRevision ==
    CasOnly /\ row' # row =>
        /\ row'.rev = row.rev + 1
        /\ \E w \in Writers :
              /\ pc[w] # "done" /\ pc'[w] = "done"
              /\ row'.val = [row.val EXCEPT ![FieldOf[w]] = @ \cup {w}]

LEMMA StepCounts == FullInv /\ [Next]_vars => OneRevision
<1> SUFFICES ASSUME FullInv, Next, CasOnly, row' # row
             PROVE  /\ row'.rev = row.rev + 1
                    /\ \E w \in Writers :
                          /\ pc[w] # "done" /\ pc'[w] = "done"
                          /\ row'.val = [row.val EXCEPT ![FieldOf[w]] = @ \cup {w}]
  BY DEF OneRevision, vars
<1>1. StoreInv /\ Strong /\ TypeOK
  BY CasOnlyIsLive DEF FullInv, CheckedInv, Strong, StoreInv
<1>2. PICK w \in Writers : CasUpdate(w) \/ CasInsert(w)
  BY DEF Next, CasOnly, Checks, Read, Abandon, PersistWhole, PersistFields,
         CasProbe, Delete
<1>3. ~ CasInsert(w)
  BY <1>1 DEF CasInsert, End, Go, Strong, Counts
<1>4. Matches(w) /\ End(w, "read", "done") /\ Store(w)
  BY <1>2, <1>3 DEF CasUpdate
<1>5. pc[w] # "done" /\ pc'[w] = "done"
  BY <1>1, <1>4 DEF End, Go, TypeOK
<1> QED
  BY <1>1, <1>4, <1>5, MatchingWrite DEF Plus

\* Where every write is checked, each change of the payload is one more revision
\* and the change of one operation, no more and no less.
THEOREM RevisionsCount == Spec => RevCounts
<1> QED
  BY InitChecked, StepChecked, StepCounts, PTL DEF Spec, RevCounts, OneRevision

-----------------------------------------------------------------------------
(* GenerationJobs.                                                         *)

Directories == Runs \cup Regenerations

\* A job is submitted when its request ends.
Submitted == \A r \in Gen!Requests : Gen!Delivered(r) => gPc[r] = "done"

\* Between its look at the lock and its end, a request for a directory, and one
\* that edits the outline, have the event loop; from the lock on it is theirs.
Handled ==
    /\ \A r \in Directories :
          /\ gPc[r] \in {"checked", "locked", "stated"} => api = r
          /\ gPc[r] \in {"locked", "stated"} => gLock["directory"] = r
    /\ gPc[Gen!Editor] # "idle" =>
          api = Gen!Editor /\ gLock["directory"] = Gen!Nobody /\ gEdits < GenEdits

\* The worker has a job, and a directory job its lock until it has been saved.
Worked ==
    /\ gWpc \in {"taken", "work", "save", "end", "release"} => gJob \in Gen!Requests
    /\ gWpc \in {"taken", "work", "save"} /\ Gen!KindOf(gJob) = "directory" =>
          gLock["directory"] = gJob

GenInv == Gen!TypeOK /\ Submitted /\ Handled /\ Worked

\* What a job has read of the outline's regenerations is what they are.
Assembled ==
    /\ gWpc = "save" \/ (gWpc = "work" /\ Gen!KindOf(gJob) = "fill") =>
          gCopy.outline.gen = outline.gen
    /\ Gen!DocumentCurrent

LEMMA GenNames ==
  ASSUME Gen!GenerationConstants
  PROVE  /\ Gen!Poll \notin Gen!Requests /\ Gen!Editor \notin Gen!Requests
         /\ Gen!Nobody \notin Gen!Handlers /\ Gen!Poll # Gen!Editor
         /\ Gen!Requests = Directories \cup Fills
         /\ \A r \in Directories : Gen!KindOf(r) = "directory" /\ r \notin Fills
         /\ \A r \in Fills : Gen!KindOf(r) = "fill" /\ r \notin Directories
         /\ Gen!KindOf(Gen!Nobody) = "directory"
         /\ "directory" \in Gen!Kinds /\ "fill" \in Gen!Kinds
  BY DEF Gen!GenerationConstants, Gen!Poll, Gen!Editor, Gen!Nobody, Gen!Handlers,
         Gen!Requests, Directories, Gen!KindOf, Gen!Kinds

LEMMA InitGen == Gen!GenerationConstants /\ Gen!Init => GenInv /\ Assembled
<1> SUFFICES ASSUME Gen!GenerationConstants, Gen!Init PROVE GenInv /\ Assembled
  OBVIOUS
<1> USE GenNames
<1>1. Gen!TypeOK
  <2>1. /\ dir \in [status : Gen!Statuses, pct : {0, 2, 100} \cup Marks]
        /\ outline \in Gen!Outlines /\ doc \subseteq Nat
        /\ body \in [status : Gen!Statuses, fresh : BOOLEAN]
    <3>1. CASE dir = [status |-> "idle", pct |-> 0]
      <4>1. /\ outline = [gen |-> 0, ver |-> 0, confirmed |-> FALSE]
            /\ body = [status |-> "idle", fresh |-> TRUE] /\ doc = {}
        BY <3>1 DEF Gen!Init, Gen!NoOutline
      <4> QED
        BY <3>1, <4>1 DEF Gen!Outlines, Gen!Statuses
    <3>2. CASE dir = [status |-> "completed", pct |-> 100]
      <4>1. /\ outline = [gen |-> 0, ver |-> 1, confirmed |-> TRUE]
            /\ body = [status |-> "completed", fresh |-> TRUE] /\ doc = {0}
        BY <3>2 DEF Gen!Init, Gen!NoOutline
      <4> QED
        BY <3>2, <4>1 DEF Gen!Outlines, Gen!Statuses
    <3> QED
      BY <3>1, <3>2 DEF Gen!Init
  <2>2. gCopy \in [outline : Gen!Outlines,
                  fill : [status : Gen!Statuses, fresh : BOOLEAN]]
    BY DEF Gen!Init, Gen!Unread, Gen!NoOutline, Gen!Outlines, Gen!Statuses
  <2>3. /\ gLock \in [Gen!Kinds -> Gen!Requests \cup {Gen!Nobody}]
        /\ gQueue \in Seq(Gen!Requests)
        /\ api \in Gen!Handlers \cup {Gen!Nobody} /\ gPc \in [Gen!Handlers -> Gen!Pcs]
        /\ gWpc \in Gen!WorkPcs /\ gJob \in Gen!Requests \cup {Gen!Nobody}
        /\ gWpc = "idle" /\ gJob = Gen!Nobody /\ api = Gen!Nobody
        /\ gEdits \in 0..GenEdits /\ gFaults \subseteq GenFaults
    BY DEF Gen!Init, Gen!GenerationConstants, Gen!Pcs, Gen!WorkPcs
  <2> QED
    BY <2>1, <2>2, <2>3 DEF Gen!TypeOK
<1>2. Submitted /\ Handled /\ Worked
  BY DEF Gen!Init, Submitted, Handled, Worked, Gen!Delivered, Gen!Nobody,
         Gen!Handlers, Gen!Editor, Directories
<1>3. Assembled
  BY DEF Gen!Init, Assembled, Gen!DocumentCurrent, Gen!NoOutline
<1> QED
  BY <1>1, <1>2, <1>3 DEF GenInv

-----------------------------------------------------------------------------
(* Types.                                                                  *)

\* What a handler does to the event loop.
LEMMA LoopTyped ==
  ASSUME Gen!GenerationConstants, Gen!TypeOK, NEW h \in Gen!Handlers,
         NEW from, NEW to \in Gen!Pcs,
         \/ Gen!Enter(h, from, to) /\ to \notin {"idle", "done"}
         \/ Gen!Step(h, from, to) /\ to \notin {"idle", "done"}
         \/ Gen!Leave(h, from, to)
         \/ to = "done" /\ Gen!Answer(h)
  PROVE  /\ api' \in Gen!Handlers \cup {Gen!Nobody} /\ gPc' \in [Gen!Handlers -> Gen!Pcs]
         /\ api' # Gen!Nobody => gPc'[api'] \notin {"idle", "done"}
  BY GenNames DEF Gen!TypeOK, Gen!Enter, Gen!Step, Gen!Leave, Gen!Answer

LEMMA TypeOfHandlers ==
  ASSUME Gen!GenerationConstants, Gen!TypeOK, Handled,
         \/ \E r \in Gen!Requests :
               Gen!AskDirectory(r) \/ Gen!AskFill(r) \/ Gen!StartRaises(r)
         \/ Gen!AskStatus \/ Gen!AskEdit \/ Gen!Handling
  PROVE  Gen!TypeOK'
<1> USE GenNames
<1>0. /\ Gen!Requests \subseteq Gen!Handlers
      /\ Gen!Poll \in Gen!Handlers /\ Gen!Editor \in Gen!Handlers
      /\ {"idle", "stale", "forced", "checked", "locked", "stated", "done"} = Gen!Pcs
      /\ {"idle", "running", "completed", "failed"} = Gen!Statuses
      /\ Gen!Nobody \notin Gen!Requests
  BY DEF Gen!Handlers, Gen!Pcs, Gen!Statuses
<1>1. ASSUME NEW r \in Gen!Requests,
             Gen!AskDirectory(r) \/ Gen!AskFill(r) \/ Gen!StartFill(r)
             \/ Gen!StartDirectory(r)
      PROVE  Gen!TypeOK'
  <2>1. /\ api' \in Gen!Handlers \cup {Gen!Nobody} /\ gPc' \in [Gen!Handlers -> Gen!Pcs]
        /\ api' # Gen!Nobody => gPc'[api'] \notin {"idle", "done"}
    BY <1>0, <1>1, LoopTyped
    DEF Gen!AskDirectory, Gen!AskFill, Gen!StartFill, Gen!StartDirectory
  <2>2. /\ dir' \in [status : Gen!Statuses, pct : {0, 2, 100} \cup Marks]
        /\ body' \in [status : Gen!Statuses, fresh : BOOLEAN]
    <3>1. CASE Gen!AskDirectory(r) \/ Gen!AskFill(r)
      BY <3>1 DEF Gen!AskDirectory, Gen!AskFill, Gen!TypeOK, Gen!row
    <3>2. CASE Gen!StartFill(r)
      BY <1>0, <3>2 DEF Gen!StartFill, Gen!TypeOK
    <3>3. CASE Gen!StartDirectory(r)
      BY <1>0, <3>3 DEF Gen!StartDirectory, Gen!TypeOK
    <3> QED
      BY <1>1, <3>1, <3>2, <3>3
  <2> QED
    BY <1>1, <2>1, <2>2
    DEF Gen!AskDirectory, Gen!AskFill, Gen!StartFill, Gen!StartDirectory, Gen!TypeOK,
        Gen!row, Gen!redis, Gen!worker
<1>2. ASSUME NEW r \in Gen!Requests,
             Gen!AcquireDirectory(r) \/ Gen!StartRaises(r) \/ Gen!PushDirectory(r)
      PROVE  Gen!TypeOK'
  <2>1. /\ api' \in Gen!Handlers \cup {Gen!Nobody} /\ gPc' \in [Gen!Handlers -> Gen!Pcs]
        /\ api' # Gen!Nobody => gPc'[api'] \notin {"idle", "done"}
    BY <1>0, <1>2, LoopTyped
    DEF Gen!AcquireDirectory, Gen!StartRaises, Gen!PushDirectory
  <2>2. /\ gLock' \in [Gen!Kinds -> Gen!Requests \cup {Gen!Nobody}]
        /\ gQueue' \in Seq(Gen!Requests) /\ gFaults' \subseteq GenFaults
    <3>1. CASE Gen!AcquireDirectory(r)
      BY <3>1 DEF Gen!AcquireDirectory, Gen!TypeOK
    <3>2. CASE Gen!StartRaises(r)
      BY <3>2, <1>0 DEF Gen!StartRaises, Gen!TypeOK, Gen!Fault
    <3>3. CASE Gen!PushDirectory(r)
      BY <3>3 DEF Gen!PushDirectory, Gen!TypeOK
    <3> QED
      BY <1>2, <3>1, <3>2, <3>3
  <2> QED
    BY <1>0, <1>2, <2>1, <2>2
    DEF Gen!AcquireDirectory, Gen!StartRaises, Gen!PushDirectory, Gen!TypeOK,
        Gen!row, Gen!worker
<1>3. ASSUME NEW r \in Gen!Requests, Gen!AcquireFill(r) \/ Gen!PushFill(r)
      PROVE  Gen!TypeOK'
  <2>1. /\ api' \in Gen!Handlers \cup {Gen!Nobody} /\ gPc' \in [Gen!Handlers -> Gen!Pcs]
        /\ api' # Gen!Nobody => gPc'[api'] \notin {"idle", "done"}
    <3>1. CASE Gen!PushFill(r)
      BY <1>0, <3>1, LoopTyped DEF Gen!PushFill
    <3>2. CASE Gen!AcquireFill(r)
      BY <1>0, <3>2 DEF Gen!AcquireFill, Gen!Enter, Gen!TypeOK
    <3> QED
      BY <1>3, <3>1, <3>2
  <2>2. /\ gLock' \in [Gen!Kinds -> Gen!Requests \cup {Gen!Nobody}]
        /\ gQueue' \in Seq(Gen!Requests)
    <3>1. CASE Gen!PushFill(r)
      BY <3>1 DEF Gen!PushFill, Gen!TypeOK
    <3>2. CASE Gen!AcquireFill(r)
      BY <3>2 DEF Gen!AcquireFill, Gen!TypeOK
    <3> QED
      BY <1>3, <3>1, <3>2
  <2> QED
    BY <1>0, <1>3, <2>1, <2>2
    DEF Gen!AcquireFill, Gen!PushFill, Gen!TypeOK, Gen!row, Gen!worker
<1>4. ASSUME NEW h \in Fills \cup {Gen!Poll}, Gen!ForceRelease(h) \/ Gen!FailStale(h)
      PROVE  Gen!TypeOK'
  <2>0. h \in Gen!Handlers
    BY <1>0
  <2>1. /\ api' \in Gen!Handlers \cup {Gen!Nobody} /\ gPc' \in [Gen!Handlers -> Gen!Pcs]
        /\ api' # Gen!Nobody => gPc'[api'] \notin {"idle", "done"}
    BY <1>0, <1>4, <2>0, LoopTyped DEF Gen!ForceRelease, Gen!FailStale
  <2>2. gLock' \in [Gen!Kinds -> Gen!Requests \cup {Gen!Nobody}]
    BY <1>0, <1>4 DEF Gen!ForceRelease, Gen!FailStale, Gen!TypeOK, Gen!redis
  <2> QED
    BY <1>0, <1>4, <2>1, <2>2
    DEF Gen!ForceRelease, Gen!FailStale, Gen!TypeOK, Gen!row, Gen!redis, Gen!worker
<1>5. CASE Gen!AskStatus \/ Gen!AskEdit \/ Gen!SaveOutline \/ Gen!ConfirmOutline
  <2>1. /\ api' \in Gen!Handlers \cup {Gen!Nobody} /\ gPc' \in [Gen!Handlers -> Gen!Pcs]
        /\ api' # Gen!Nobody => gPc'[api'] \notin {"idle", "done"}
    BY <1>0, <1>5, LoopTyped
    DEF Gen!AskStatus, Gen!AskEdit, Gen!SaveOutline, Gen!ConfirmOutline
  <2>2. outline \in Gen!Outlines
    BY DEF Gen!TypeOK
  <2>3. outline' \in Gen!Outlines /\ gEdits' \in 0..GenEdits
    <3>1. CASE Gen!AskStatus \/ Gen!AskEdit
      BY <3>1 DEF Gen!AskStatus, Gen!AskEdit, Gen!TypeOK, Gen!row
    <3>2. CASE Gen!SaveOutline \/ Gen!ConfirmOutline
      <4>1. gEdits < GenEdits /\ gEdits' = gEdits + 1
        BY <3>2 DEF Gen!SaveOutline, Gen!ConfirmOutline, Gen!Leave, Handled
      <4>2. CASE Gen!SaveOutline
        <5>1. outline' = [gen |-> outline.gen, ver |-> outline.ver + 1,
                          confirmed |-> FALSE]
          BY <2>2, <4>2 DEF Gen!SaveOutline, Gen!Outlines
        <5> QED
          BY <2>2, <4>1, <5>1 DEF Gen!Outlines, Gen!TypeOK, Gen!GenerationConstants
      <4>3. CASE Gen!ConfirmOutline
        <5>1. outline' \in Gen!Outlines
          BY <2>2, <4>3 DEF Gen!ConfirmOutline, Gen!Outlines
        <5> QED
          BY <4>1, <5>1 DEF Gen!TypeOK, Gen!GenerationConstants
      <4> QED
        BY <3>2, <4>2, <4>3
    <3> QED
      BY <1>5, <3>1, <3>2
  <2> QED
    BY <1>5, <2>1, <2>3
    DEF Gen!AskStatus, Gen!AskEdit, Gen!SaveOutline, Gen!ConfirmOutline, Gen!TypeOK,
        Gen!row, Gen!redis, Gen!worker
<1> QED
  BY <1>1, <1>2, <1>3, <1>4, <1>5 DEF Gen!Handling, Gen!Submission

LEMMA TypeOfWorker ==
  ASSUME Gen!GenerationConstants, Gen!TypeOK, Worked, Gen!WorkerStep
  PROVE  Gen!TypeOK'
<1> USE GenNames
<1>0. /\ {"idle", "taken", "work", "save", "end", "release", "down"} = Gen!WorkPcs
      /\ {"idle", "running", "completed", "failed"} = Gen!Statuses
      /\ Gen!Nobody \notin Gen!Requests
  BY DEF Gen!WorkPcs, Gen!Statuses, Gen!Handlers
\* Steps that touch neither the row nor what was read.
<1>1. CASE Gen!Dequeue \/ Gen!Recover
  <2>1. gQueue' \in Seq(Gen!Requests)
    <3>1. CASE Gen!Dequeue
      BY <3>1 DEF Gen!Dequeue, Gen!TypeOK
    <3>2. CASE Gen!Recover
      BY <3>2 DEF Gen!Recover, Gen!TypeOK
    <3> QED
      BY <1>1, <3>1, <3>2
  <2>2. /\ gWpc' \in Gen!WorkPcs /\ gJob' \in Gen!Requests \cup {Gen!Nobody}
        /\ gWpc' = "idle" => gJob' = Gen!Nobody
    <3>1. CASE Gen!Dequeue
      <4>1. Head(gQueue) \in Gen!Requests
        BY <3>1 DEF Gen!Dequeue, Gen!TypeOK
      <4> QED
        BY <1>0, <3>1, <4>1 DEF Gen!Dequeue, Gen!Work
    <3>2. CASE Gen!Recover
      BY <1>0, <3>2 DEF Gen!Recover, Gen!Work
    <3> QED
      BY <1>1, <3>1, <3>2
  <2> QED
    BY <1>1, <2>1, <2>2
    DEF Gen!Dequeue, Gen!Recover, Gen!TypeOK, Gen!row
<1>2. CASE Gen!EndJob \/ Gen!BeginDirectory \/ Gen!Unsaved
  BY <1>0, <1>2
  DEF Gen!EndJob, Gen!BeginDirectory, Gen!Unsaved, Gen!Work, Gen!Fault, Gen!TypeOK,
      Gen!row, Gen!redis
<1>3. CASE Gen!Release
  <2>1. gLock' \in [Gen!Kinds -> Gen!Requests \cup {Gen!Nobody}]
    BY <1>3 DEF Gen!Release, Gen!TypeOK
  <2>2. gCopy' \in [outline : Gen!Outlines,
                   fill : [status : Gen!Statuses, fresh : BOOLEAN]]
    BY <1>0, <1>3 DEF Gen!Release, Gen!Unread, Gen!NoOutline, Gen!Outlines
  <2> QED
    BY <1>0, <1>3, <2>1, <2>2 DEF Gen!Release, Gen!Work, Gen!TypeOK, Gen!row
\* Steps that write the directory or the outline.
<1>4. CASE Gen!DirectoryFails \/ \E p \in Marks : Gen!DirectoryProgress(p)
  <2>1. dir' \in [status : Gen!Statuses, pct : {0, 2, 100} \cup Marks]
    <3>1. CASE Gen!DirectoryFails
      BY <1>0, <3>1 DEF Gen!DirectoryFails, Gen!TypeOK
    <3>2. ASSUME NEW p \in Marks, Gen!DirectoryProgress(p)
          PROVE  dir' \in [status : Gen!Statuses, pct : {0, 2, 100} \cup Marks]
      <4>1. Gen!Clamp(dir.pct, p) \in {0, 2, 100} \cup Marks
        BY DEF Gen!Clamp, Gen!TypeOK
      <4>2. dir' = [dir EXCEPT !.pct = Gen!Clamp(dir.pct, p)]
        BY <3>2 DEF Gen!DirectoryProgress
      <4> QED
        BY <4>1, <4>2 DEF Gen!TypeOK
    <3> QED
      BY <1>4, <3>1, <3>2
  <2> QED
    BY <1>0, <1>4, <2>1
    DEF Gen!DirectoryFails, Gen!DirectoryProgress, Gen!Work, Gen!Fault, Gen!TypeOK,
        Gen!redis
<1>5. CASE Gen!ReadProject \/ Gen!BeginFill
  <2>1. gCopy' \in [outline : Gen!Outlines,
                   fill : [status : Gen!Statuses, fresh : BOOLEAN]]
    <3>1. CASE Gen!ReadProject
      BY <3>1 DEF Gen!ReadProject, Gen!TypeOK
    <3>2. CASE Gen!BeginFill
      BY <3>2 DEF Gen!BeginFill, Gen!TypeOK
    <3> QED
      BY <1>5, <3>1, <3>2
  <2> QED
    BY <1>0, <1>5, <2>1
    DEF Gen!ReadProject, Gen!BeginFill, Gen!Work, Gen!TypeOK, Gen!row, Gen!redis
<1>6. CASE Gen!SaveDirectory
  <2>1. outline' \in Gen!Outlines
    <3>1. gCopy.outline \in Gen!Outlines
      BY DEF Gen!TypeOK
    <3> QED
      BY <1>6, <3>1 DEF Gen!SaveDirectory, Gen!Regenerated, Gen!Outlines
  <2>2. dir' \in [status : Gen!Statuses, pct : {0, 2, 100} \cup Marks]
    BY <1>0, <1>6 DEF Gen!SaveDirectory
  <2>3. body' \in [status : Gen!Statuses, fresh : BOOLEAN] /\ doc' \subseteq Nat
    <3>1. CASE gJob \in Regenerations
      <4>1. body' = [status |-> "idle", fresh |-> TRUE] /\ doc' = {}
        BY <1>6, <3>1 DEF Gen!SaveDirectory
      <4> QED
        BY <1>0, <4>1
    <3>2. CASE gJob \notin Regenerations
      BY <1>6, <3>2 DEF Gen!SaveDirectory, Gen!TypeOK
    <3> QED
      BY <3>1, <3>2
  <2> QED
    BY <1>0, <1>6, <2>1, <2>2, <2>3
    DEF Gen!SaveDirectory, Gen!Work, Gen!TypeOK, Gen!redis
\* Steps of a body.
<1>7. CASE \/ Gen!FillUnconfirmed \/ Gen!FillProgress \/ Gen!FillFails
           \/ Gen!SaveFill
  <2>1. body' \in [status : Gen!Statuses, fresh : BOOLEAN] /\ doc' \subseteq Nat
    <3>1. CASE Gen!FillUnconfirmed
      BY <1>0, <3>1 DEF Gen!FillUnconfirmed, Gen!TypeOK
    <3>2. CASE Gen!FillProgress
      BY <1>0, <3>2 DEF Gen!FillProgress, Gen!TypeOK
    <3>3. CASE Gen!FillFails
      BY <1>0, <3>3 DEF Gen!FillFails, Gen!TypeOK
    <3>4. CASE Gen!SaveFill
      <4>1. gCopy.outline.gen \in Nat
        BY DEF Gen!TypeOK, Gen!Outlines
      <4> QED
        BY <1>0, <3>4, <4>1 DEF Gen!SaveFill
    <3> QED
      BY <1>7, <3>1, <3>2, <3>3, <3>4
  <2> QED
    BY <1>0, <1>7, <2>1
    DEF Gen!FillUnconfirmed, Gen!FillProgress, Gen!FillFails, Gen!SaveFill, Gen!Work,
        Gen!Fault, Gen!TypeOK, Gen!redis
<1> QED
  BY <1>1, <1>2, <1>3, <1>4, <1>5, <1>6, <1>7 DEF Gen!WorkerStep

LEMMA TypeOfTime ==
  ASSUME Gen!GenerationConstants, Gen!TypeOK,
         \/ Gen!Crash \/ Gen!HourUnattended \/ Gen!HourSlow \/ Gen!ApiDies
         \/ \E k \in Gen!Kinds : Gen!ExpireLost(k) \/ Gen!ExpireWaiting(k)
  PROVE  Gen!TypeOK'
<1> USE GenNames
<1>1. CASE Gen!Crash
  <2>1. gCopy' \in [outline : Gen!Outlines,
                   fill : [status : Gen!Statuses, fresh : BOOLEAN]]
    BY <1>1
    DEF Gen!Crash, Gen!Unread, Gen!NoOutline, Gen!Outlines, Gen!Statuses
  <2> QED
    BY <1>1, <2>1
    DEF Gen!Crash, Gen!Fault, Gen!TypeOK, Gen!row, Gen!redis, Gen!WorkPcs
<1>2. CASE Gen!HourUnattended \/ Gen!HourSlow
  BY <1>2
  DEF Gen!HourUnattended, Gen!HourSlow, Gen!Fault, Gen!TypeOK, Gen!redis, Gen!worker
<1>3. CASE Gen!ApiDies
  BY <1>3
  DEF Gen!ApiDies, Gen!Fault, Gen!TypeOK, Gen!row, Gen!redis, Gen!worker, Gen!Pcs
<1>4. ASSUME NEW k \in Gen!Kinds, Gen!ExpireLost(k) \/ Gen!ExpireWaiting(k)
      PROVE  Gen!TypeOK'
  <2>1. gLock' \in [Gen!Kinds -> Gen!Requests \cup {Gen!Nobody}]
    BY <1>4 DEF Gen!ExpireLost, Gen!ExpireWaiting, Gen!TypeOK
  <2> QED
    BY <1>4, <2>1
    DEF Gen!ExpireLost, Gen!ExpireWaiting, Gen!Fault, Gen!TypeOK, Gen!row, Gen!worker
<1> QED
  BY <1>1, <1>2, <1>3, <1>4

-----------------------------------------------------------------------------
(* The gQueue.                                                              *)

\* Only a push adds a job; only its release, after its end, takes one away, and
\* a worker that finds its lock gone.
LEMMA PushDelivers ==
  ASSUME Gen!TypeOK, NEW r \in Gen!Requests, gQueue' = Append(gQueue, r),
         gJob' = gJob, NEW s \in Gen!Requests
  PROVE  Gen!Delivered(s)' <=> Gen!Delivered(s) \/ s = r
<1>1. /\ gQueue \in Seq(Gen!Requests) /\ Len(gQueue') = Len(gQueue) + 1
      /\ gQueue'[Len(gQueue) + 1] = r
      /\ \A k \in 1..Len(gQueue) : gQueue'[k] = gQueue[k]
  BY DEF Gen!TypeOK
<1>2. DOMAIN gQueue = 1..Len(gQueue) /\ DOMAIN gQueue' = 1..(Len(gQueue) + 1)
      /\ Len(gQueue) \in Nat
  BY <1>1, Append(gQueue, r) \in Seq(Gen!Requests)
<1> QED
  BY <1>1, <1>2 DEF Gen!Delivered

LEMMA DequeueDelivers ==
  ASSUME Gen!GenerationConstants, Gen!TypeOK, Gen!Dequeue, NEW s \in Gen!Requests
  PROVE  /\ Gen!Delivered(s)' => Gen!Delivered(s)
         /\ Gen!Delivered(s) /\ gLock[Gen!KindOf(s)] = s => Gen!Delivered(s)'
<1>1. /\ gQueue \in Seq(Gen!Requests) /\ gQueue # <<>> /\ gQueue' = Tail(gQueue)
      /\ gJob = Gen!Nobody
      /\ gJob' = IF gLock[Gen!KindOf(Head(gQueue))] = Head(gQueue)
                THEN Head(gQueue) ELSE Gen!Nobody
  BY DEF Gen!Dequeue, Gen!TypeOK, Gen!Work
<1>2. /\ Head(gQueue) = gQueue[1] /\ DOMAIN gQueue = 1..Len(gQueue)
      /\ Len(gQueue) \in Nat \ {0} /\ DOMAIN gQueue' = 1..(Len(gQueue) - 1)
      /\ \A k \in 1..(Len(gQueue) - 1) : gQueue'[k] = gQueue[k + 1]
  BY <1>1
<1>3. s # Gen!Nobody
  BY GenNames DEF Gen!Handlers
<1>4. Gen!Delivered(s)' => Gen!Delivered(s)
  BY <1>1, <1>2, <1>3 DEF Gen!Delivered
<1>5. ASSUME Gen!Delivered(s), gLock[Gen!KindOf(s)] = s PROVE Gen!Delivered(s)'
  <2>1. PICK k \in DOMAIN gQueue : gQueue[k] = s
    BY <1>1, <1>3, <1>5 DEF Gen!Delivered
  <2>2. CASE k = 1
    BY <1>1, <1>2, <1>5, <2>1, <2>2 DEF Gen!Delivered
  <2>3. CASE k # 1
    <3>1. k - 1 \in DOMAIN gQueue' /\ gQueue'[k - 1] = s
      BY <1>2, <2>1, <2>3
    <3> QED
      BY <3>1 DEF Gen!Delivered
  <2> QED
    BY <2>2, <2>3
<1> QED
  BY <1>4, <1>5

LEMMA RecoverDelivers ==
  ASSUME Gen!GenerationConstants, Gen!TypeOK, Gen!Recover, NEW s \in Gen!Requests
  PROVE  Gen!Delivered(s)' <=> Gen!Delivered(s)
<1>1. s # Gen!Nobody
  BY GenNames DEF Gen!Handlers
<1>2. CASE gJob = Gen!Nobody
  BY <1>1, <1>2 DEF Gen!Recover, Gen!Delivered
<1>3. CASE gJob # Gen!Nobody
  <2>1. gJob \in Gen!Requests /\ gQueue \in Seq(Gen!Requests)
        /\ gQueue' = <<gJob>> \o gQueue /\ gJob' = Gen!Nobody
    BY <1>3 DEF Gen!Recover, Gen!TypeOK
  <2>2. /\ DOMAIN gQueue = 1..Len(gQueue) /\ Len(gQueue) \in Nat
        /\ DOMAIN gQueue' = 1..(Len(gQueue) + 1)
        /\ gQueue'[1] = gJob
        /\ \A k \in 1..Len(gQueue) : gQueue'[k + 1] = gQueue[k]
    BY <2>1
  <2>3. ASSUME Gen!Delivered(s) PROVE Gen!Delivered(s)'
    <3>1. CASE gJob = s
      <4>1. 1 \in DOMAIN gQueue' /\ gQueue'[1] = s
        BY <2>2, <3>1
      <4> QED
        BY <4>1 DEF Gen!Delivered
    <3>2. ASSUME NEW k \in DOMAIN gQueue, gQueue[k] = s PROVE Gen!Delivered(s)'
      <4>1. k + 1 \in DOMAIN gQueue' /\ gQueue'[k + 1] = s
        BY <2>2, <3>2
      <4> QED
        BY <4>1 DEF Gen!Delivered
    <3> QED
      BY <2>3, <3>1, <3>2 DEF Gen!Delivered
  <2>4. ASSUME Gen!Delivered(s)' PROVE Gen!Delivered(s)
    <3>1. PICK k \in 1..(Len(gQueue) + 1) : gQueue'[k] = s
      BY <1>1, <2>1, <2>2, <2>4 DEF Gen!Delivered
    <3>2. CASE k = 1
      BY <2>2, <3>1, <3>2 DEF Gen!Delivered
    <3>3. CASE k # 1
      <4>1. k - 1 \in 1..Len(gQueue) /\ gQueue[k - 1] = s
        BY <2>2, <3>1, <3>3
      <4> QED
        BY <2>2, <4>1 DEF Gen!Delivered
    <3> QED
      BY <3>2, <3>3
  <2> QED
    BY <2>3, <2>4
<1> QED
  BY <1>2, <1>3

\* A request that is done stays done.
LEMMA DoneStays ==
  ASSUME Gen!GenerationConstants, Gen!TypeOK, [Gen!Next]_Gen!vars,
         NEW r \in Gen!Requests, gPc[r] = "done"
  PROVE  gPc'[r] = "done"
<1> USE GenNames
<1>0. /\ r \in Gen!Handlers /\ r # Gen!Poll /\ r # Gen!Editor
      /\ gPc \in [Gen!Handlers -> Gen!Pcs]
  BY DEF Gen!Handlers, Gen!TypeOK
<1>1. CASE UNCHANGED Gen!vars \/ Gen!WorkerStep
  BY <1>1
  DEF Gen!vars, Gen!WorkerStep, Gen!Dequeue, Gen!EndJob, Gen!Release, Gen!Recover,
      Gen!BeginDirectory, Gen!ReadProject, Gen!SaveDirectory, Gen!DirectoryFails,
      Gen!DirectoryProgress, Gen!BeginFill, Gen!FillUnconfirmed, Gen!FillProgress,
      Gen!SaveFill, Gen!FillFails, Gen!Unsaved
<1>2. CASE \/ Gen!Crash \/ Gen!HourUnattended \/ Gen!HourSlow \/ Gen!ApiDies
           \/ \E k \in Gen!Kinds : Gen!ExpireLost(k) \/ Gen!ExpireWaiting(k)
  BY <1>0, <1>2
  DEF Gen!Crash, Gen!HourUnattended, Gen!HourSlow, Gen!ApiDies, Gen!ExpireLost,
      Gen!ExpireWaiting
<1>3. ASSUME NEW s \in Gen!Requests,
             \/ Gen!AskDirectory(s) \/ Gen!AskFill(s) \/ Gen!StartRaises(s)
             \/ Gen!Submission(s)
      PROVE  gPc'[r] = "done"
  BY <1>0, <1>3
  DEF Gen!AskDirectory, Gen!AskFill, Gen!StartRaises, Gen!Submission,
      Gen!AcquireDirectory, Gen!StartDirectory, Gen!PushDirectory, Gen!StartFill,
      Gen!AcquireFill, Gen!PushFill, Gen!Enter, Gen!Step, Gen!Leave, Gen!Answer
<1>4. CASE \/ \E h \in Fills \cup {Gen!Poll} : Gen!ForceRelease(h) \/ Gen!FailStale(h)
           \/ Gen!AskStatus \/ Gen!AskEdit \/ Gen!SaveOutline \/ Gen!ConfirmOutline
  BY <1>0, <1>4
  DEF Gen!ForceRelease, Gen!FailStale, Gen!AskStatus, Gen!AskEdit, Gen!SaveOutline,
      Gen!ConfirmOutline, Gen!Enter, Gen!Step, Gen!Leave
<1> QED
  BY <1>1, <1>2, <1>3, <1>4 DEF Gen!Next, Gen!Handling

LEMMA SubmittedStep ==
  ASSUME Gen!GenerationConstants, GenInv, [Gen!Next]_Gen!vars
  PROVE  Submitted'
<1> SUFFICES ASSUME NEW r \in Gen!Requests, Gen!Delivered(r)' PROVE gPc'[r] = "done"
  BY DEF Submitted
<1>0. Gen!TypeOK /\ (Gen!Delivered(r) => gPc[r] = "done") /\ r # Gen!Nobody
      /\ r \in Gen!Handlers
  BY GenNames DEF GenInv, Submitted, Gen!Handlers
<1>1. CASE Gen!Delivered(r)
  BY <1>0, <1>1, DoneStays
<1>2. ASSUME NEW s \in Gen!Requests, Gen!PushDirectory(s) \/ Gen!PushFill(s)
      PROVE  gPc'[r] = "done"
  <2>1. CASE s = r
    BY <1>0, <1>2, <2>1 DEF Gen!PushDirectory, Gen!PushFill, Gen!Leave, Gen!TypeOK
  <2>2. CASE s # r
    BY <1>0, <1>1, <1>2, <2>2, PushDelivers
    DEF Gen!PushDirectory, Gen!PushFill, Gen!worker
  <2> QED
    BY <2>1, <2>2
<1>3. CASE Gen!Dequeue
  BY <1>0, <1>1, <1>3, DequeueDelivers
<1>4. CASE Gen!Recover
  BY <1>0, <1>1, <1>4, RecoverDelivers
<1>5. ASSUME gQueue' = gQueue, gJob' \in {gJob, Gen!Nobody} PROVE gPc'[r] = "done"
  BY <1>0, <1>1, <1>5 DEF Gen!Delivered
<1>6. CASE \/ UNCHANGED Gen!vars \/ Gen!Crash \/ Gen!HourUnattended \/ Gen!HourSlow
           \/ Gen!ApiDies \/ Gen!AskStatus \/ Gen!AskEdit
           \/ Gen!SaveOutline \/ Gen!ConfirmOutline
           \/ \E k \in Gen!Kinds : Gen!ExpireLost(k) \/ Gen!ExpireWaiting(k)
           \/ \E h \in Fills \cup {Gen!Poll} : Gen!ForceRelease(h) \/ Gen!FailStale(h)
  BY <1>5, <1>6
  DEF Gen!vars, Gen!Crash, Gen!HourUnattended, Gen!HourSlow, Gen!ApiDies,
      Gen!AskStatus, Gen!AskEdit, Gen!SaveOutline, Gen!ConfirmOutline, Gen!ExpireLost,
      Gen!ExpireWaiting, Gen!ForceRelease, Gen!FailStale, Gen!redis, Gen!worker
<1>7. CASE Gen!WorkerStep
  BY <1>3, <1>4, <1>5, <1>7
  DEF Gen!WorkerStep, Gen!EndJob, Gen!Release, Gen!BeginDirectory, Gen!ReadProject,
      Gen!SaveDirectory, Gen!DirectoryFails, Gen!DirectoryProgress, Gen!BeginFill,
      Gen!FillUnconfirmed, Gen!FillProgress, Gen!SaveFill, Gen!FillFails, Gen!Unsaved,
      Gen!redis
<1>8. ASSUME NEW s \in Gen!Requests,
             \/ Gen!AskDirectory(s) \/ Gen!AskFill(s) \/ Gen!StartRaises(s)
             \/ Gen!AcquireDirectory(s) \/ Gen!StartDirectory(s)
             \/ Gen!StartFill(s) \/ Gen!AcquireFill(s)
      PROVE  gPc'[r] = "done"
  BY <1>5, <1>8
  DEF Gen!AskDirectory, Gen!AskFill, Gen!StartRaises, Gen!AcquireDirectory,
      Gen!StartDirectory, Gen!StartFill, Gen!AcquireFill, Gen!redis, Gen!worker
<1> QED
  BY <1>2, <1>6, <1>7, <1>8 DEF Gen!Next, Gen!Handling, Gen!Submission

-----------------------------------------------------------------------------
(* The locks.                                                              *)

\* Requests for a body and its status go on only where nobody else is, and leave
\* the lock of the directory alone.
LEMMA FillHandled ==
  ASSUME Gen!GenerationConstants, GenInv,
         \/ \E r \in Gen!Requests : Gen!AskFill(r) \/ Gen!StartFill(r)
                                    \/ Gen!AcquireFill(r) \/ Gen!PushFill(r)
         \/ \E h \in Fills \cup {Gen!Poll} : Gen!ForceRelease(h) \/ Gen!FailStale(h)
         \/ Gen!AskStatus
  PROVE  Handled'
<1> USE GenNames DEF Gen!redis
<1>0. /\ gPc \in [Gen!Handlers -> Gen!Pcs] /\ gLock \in [Gen!Kinds -> Gen!Requests \cup {Gen!Nobody}]
      /\ Handled /\ Gen!Requests \subseteq Gen!Handlers
      /\ Gen!Poll \in Gen!Handlers /\ Gen!Editor \in Gen!Handlers
  BY DEF GenInv, Gen!TypeOK, Gen!Handlers
<1>1. \E h \in Fills \cup {Gen!Poll} :
         /\ \A k \in Gen!Handlers \ {h} : gPc'[k] = gPc[k]
         /\ \/ api' = api \/ api = Gen!Nobody \/ api = h
  <2>1. ASSUME NEW r \in Gen!Requests, \/ Gen!AskFill(r) \/ Gen!StartFill(r)
                                       \/ Gen!AcquireFill(r) \/ Gen!PushFill(r)
        PROVE  /\ r \in Fills
               /\ \A k \in Gen!Handlers \ {r} : gPc'[k] = gPc[k]
               /\ \/ api' = api \/ api = Gen!Nobody \/ api = r
    BY <1>0, <2>1
    DEF Gen!AskFill, Gen!StartFill, Gen!AcquireFill, Gen!PushFill, Gen!Enter,
        Gen!Leave, Gen!Answer
  <2>2. ASSUME NEW h \in Fills \cup {Gen!Poll},
               Gen!ForceRelease(h) \/ Gen!FailStale(h)
        PROVE  /\ \A k \in Gen!Handlers \ {h} : gPc'[k] = gPc[k]
               /\ \/ api' = api \/ api = Gen!Nobody \/ api = h
    BY <1>0, <2>2 DEF Gen!ForceRelease, Gen!FailStale, Gen!Step, Gen!Leave
  <2>3. CASE Gen!AskStatus
    BY <1>0, <2>3 DEF Gen!AskStatus, Gen!Enter
  <2> QED
    BY <2>1, <2>2, <2>3
<1>2. gLock'["directory"] = gLock["directory"] /\ gEdits' = gEdits
  BY <1>0
  DEF Gen!AskFill, Gen!StartFill, Gen!AcquireFill, Gen!PushFill, Gen!ForceRelease,
      Gen!FailStale, Gen!AskStatus
<1> QED
  BY <1>0, <1>1, <1>2 DEF Handled

LEMMA DirectoryHandled ==
  ASSUME Gen!GenerationConstants, GenInv, NEW r \in Gen!Requests,
         \/ Gen!AskDirectory(r) \/ Gen!AcquireDirectory(r) \/ Gen!StartDirectory(r)
         \/ Gen!StartRaises(r) \/ Gen!PushDirectory(r)
  PROVE  Handled'
<1> USE GenNames DEF Gen!redis
<1>0. /\ gPc \in [Gen!Handlers -> Gen!Pcs] /\ gLock \in [Gen!Kinds -> Gen!Requests \cup {Gen!Nobody}]
      /\ Handled /\ Gen!Requests \subseteq Gen!Handlers
      /\ Gen!Editor \in Gen!Handlers /\ Gen!Nobody \notin Gen!Requests
  BY DEF GenInv, Gen!TypeOK, Gen!Handlers
<1>1. CASE Gen!AskDirectory(r)
  BY <1>0, <1>1 DEF Gen!AskDirectory, Gen!Answer, Gen!Enter, Handled, Directories
<1>2. CASE Gen!AcquireDirectory(r)
  BY <1>0, <1>2 DEF Gen!AcquireDirectory, Gen!Step, Gen!Leave, Handled, Directories
<1>3. CASE Gen!StartDirectory(r)
  BY <1>0, <1>3 DEF Gen!StartDirectory, Gen!Step, Handled, Directories
<1>4. CASE Gen!StartRaises(r)
  BY <1>0, <1>4 DEF Gen!StartRaises, Gen!Leave, Handled, Directories
<1>5. CASE Gen!PushDirectory(r)
  BY <1>0, <1>5 DEF Gen!PushDirectory, Gen!Leave, Handled, Directories
<1> QED
  BY <1>1, <1>2, <1>3, <1>4, <1>5

LEMMA EditHandled ==
  ASSUME Gen!GenerationConstants, GenInv,
         Gen!AskEdit \/ Gen!SaveOutline \/ Gen!ConfirmOutline
  PROVE  Handled'
<1> USE GenNames DEF Gen!redis
<1>0. /\ gPc \in [Gen!Handlers -> Gen!Pcs]
      /\ Handled /\ Gen!Requests \subseteq Gen!Handlers
      /\ Gen!Editor \in Gen!Handlers /\ Gen!Nobody \notin Gen!Handlers
  BY DEF GenInv, Gen!TypeOK, Gen!Handlers
<1> QED
  BY <1>0
  DEF Gen!AskEdit, Gen!Editable, Gen!SaveOutline, Gen!ConfirmOutline, Gen!Enter,
      Gen!Leave, Handled

LEMMA HandledStep ==
  ASSUME Gen!GenerationConstants, GenInv, [Gen!Next]_Gen!vars
  PROVE  Handled'
<1> USE GenNames DEF Gen!redis
<1>0. /\ Gen!TypeOK /\ Handled /\ Worked /\ Submitted
      /\ Gen!Requests \subseteq Gen!Handlers
  BY DEF GenInv, Gen!Handlers
\* The lock is left alone.
<1>1. ASSUME UNCHANGED <<api, gPc, gLock, gEdits>> PROVE Handled'
  BY <1>0, <1>1 DEF Handled
<1>2. CASE \/ UNCHANGED Gen!vars \/ Gen!Crash \/ Gen!HourUnattended \/ Gen!HourSlow
  BY <1>1, <1>2
  DEF Gen!vars, Gen!Crash, Gen!HourUnattended, Gen!HourSlow
\* It is given up.
<1>3. ASSUME gLock["directory"] \in Gen!Requests => gPc[gLock["directory"]] = "done",
             \A k \in Gen!Kinds : gLock'[k] \in {gLock[k], Gen!Nobody},
             UNCHANGED <<api, gPc, gEdits>>
      PROVE  Handled'
  BY <1>0, <1>3 DEF Gen!TypeOK, Handled
<1>4. CASE Gen!Release
  <2>1. gJob \in Gen!Requests /\ gPc[gJob] = "done"
    BY <1>0, <1>4 DEF Gen!Release, Gen!Work, Worked, Submitted, Gen!Delivered
  <2>2. UNCHANGED <<api, gPc, gEdits>>
    BY <1>4 DEF Gen!Release
  <2>3. CASE gLock["directory"] = gJob
    <3>1. \A k \in Gen!Kinds : gLock'[k] \in {gLock[k], Gen!Nobody}
      BY <1>0, <1>4 DEF Gen!Release, Gen!TypeOK
    <3> QED
      BY <1>3, <2>1, <2>2, <2>3, <3>1
  <2>4. CASE gLock["directory"] # gJob
    <3>1. gLock'["directory"] = gLock["directory"]
      BY <1>0, <1>4, <2>4 DEF Gen!Release, Gen!TypeOK
    <3> QED
      BY <1>0, <2>2, <3>1 DEF Handled
  <2> QED
    BY <2>3, <2>4
<1>5. ASSUME NEW k \in Gen!Kinds, Gen!ExpireLost(k) \/ Gen!ExpireWaiting(k)
      PROVE  Handled'
  <2>1. gLock[k] \in Gen!Requests /\ gPc[gLock[k]] = "done"
    BY <1>0, <1>5 DEF Gen!ExpireLost, Gen!ExpireWaiting, Gen!TypeOK, Submitted
  <2>2. /\ UNCHANGED <<api, gPc, gEdits>> /\ gLock' = [gLock EXCEPT ![k] = Gen!Nobody]
    BY <1>5 DEF Gen!ExpireLost, Gen!ExpireWaiting
  <2>3. CASE k = "directory"
    BY <1>0, <1>3, <2>1, <2>2, <2>3 DEF Gen!TypeOK
  <2>4. CASE k # "directory"
    <3>1. gLock'["directory"] = gLock["directory"]
      BY <1>0, <2>2, <2>4 DEF Gen!TypeOK
    <3> QED
      BY <1>0, <2>2, <3>1 DEF Handled
  <2> QED
    BY <2>3, <2>4
<1>6. CASE Gen!ApiDies
  BY <1>6 DEF Gen!ApiDies, Handled, Gen!Handlers
<1>7. CASE Gen!WorkerStep
  BY <1>1, <1>4, <1>7
  DEF Gen!WorkerStep, Gen!Dequeue, Gen!EndJob, Gen!Recover, Gen!BeginDirectory,
      Gen!ReadProject, Gen!SaveDirectory, Gen!DirectoryFails, Gen!DirectoryProgress,
      Gen!BeginFill, Gen!FillUnconfirmed, Gen!FillProgress, Gen!SaveFill,
      Gen!FillFails, Gen!Unsaved
<1> QED
  BY <1>2, <1>5, <1>6, <1>7, FillHandled, DirectoryHandled, EditHandled
  DEF Gen!Next, Gen!Handling, Gen!Submission

LEMMA WorkedStep ==
  ASSUME Gen!GenerationConstants, GenInv, [Gen!Next]_Gen!vars
  PROVE  Worked'
<1> USE GenNames DEF Gen!redis, Gen!worker
<1>0. /\ Gen!TypeOK /\ Handled /\ Worked /\ Submitted
      /\ Gen!Requests \subseteq Gen!Handlers /\ Gen!Nobody \notin Gen!Requests
      /\ gLock \in [Gen!Kinds -> Gen!Requests \cup {Gen!Nobody}]
  BY DEF GenInv, Gen!TypeOK, Gen!Handlers
\* The job and, while it is a directory's, its lock are left alone.
<1>1. ASSUME UNCHANGED <<gWpc, gJob>>,
             gLock["directory"] = gJob => gLock'["directory"] = gJob
      PROVE  Worked'
  BY <1>1, <1>0 DEF Worked
<1>2. CASE \/ UNCHANGED Gen!vars \/ Gen!HourUnattended \/ Gen!HourSlow
           \/ Gen!ApiDies \/ Gen!AskStatus \/ Gen!AskEdit
           \/ Gen!SaveOutline \/ Gen!ConfirmOutline
           \/ \E h \in Fills \cup {Gen!Poll} : Gen!ForceRelease(h) \/ Gen!FailStale(h)
  BY <1>0, <1>1, <1>2
  DEF Gen!vars, Gen!HourUnattended, Gen!HourSlow, Gen!ApiDies, Gen!AskStatus,
      Gen!AskEdit, Gen!SaveOutline, Gen!ConfirmOutline, Gen!ForceRelease,
      Gen!FailStale
<1>3. ASSUME NEW r \in Gen!Requests,
             \/ Gen!AskDirectory(r) \/ Gen!StartDirectory(r) \/ Gen!PushDirectory(r)
             \/ Gen!AskFill(r) \/ Gen!StartFill(r) \/ Gen!AcquireFill(r)
             \/ Gen!PushFill(r)
      PROVE  Worked'
  BY <1>0, <1>1, <1>3
  DEF Gen!AskDirectory, Gen!StartDirectory, Gen!PushDirectory, Gen!AskFill,
      Gen!StartFill, Gen!AcquireFill, Gen!PushFill
\* A request takes the lock from nobody, and gives back only its own.
<1>4. ASSUME NEW r \in Gen!Requests, Gen!AcquireDirectory(r) PROVE Worked'
  <2>1. /\ UNCHANGED <<gWpc, gJob>>
        /\ gLock["directory"] = Gen!Nobody \/ gLock' = gLock
    BY <1>4 DEF Gen!AcquireDirectory
  <2> QED
    BY <1>0, <2>1 DEF Worked
<1>5. ASSUME NEW r \in Gen!Requests, Gen!StartRaises(r) PROVE Worked'
  <2>1. UNCHANGED <<gWpc, gJob>> /\ gPc[r] = "locked"
    BY <1>5 DEF Gen!StartRaises, Gen!Leave
  <2>2. gJob # r
    BY <1>0, <2>1 DEF Submitted, Gen!Delivered
  <2>3. gLock["directory"] = gJob => gLock'["directory"] = gJob
    BY <1>0, <1>5, <2>2 DEF Gen!StartRaises
  <2> QED
    BY <1>1, <2>1, <2>3
\* A lock does not run out while its job is at work.
<1>6. ASSUME NEW k \in Gen!Kinds, Gen!ExpireLost(k) \/ Gen!ExpireWaiting(k)
      PROVE  Worked'
  <2>1. /\ UNCHANGED <<gWpc, gJob>> /\ gLock' = [gLock EXCEPT ![k] = Gen!Nobody]
        /\ gLock[k] # gJob \/ gWpc = "down"
    BY <1>6 DEF Gen!ExpireLost, Gen!ExpireWaiting, Gen!Delivered
  <2> QED
    BY <1>0, <2>1 DEF Worked
\* The worker.
<1>7. CASE Gen!Dequeue
  <2>1. gQueue \in Seq(Gen!Requests) /\ gQueue # <<>>
    BY <1>7, <1>0 DEF Gen!Dequeue, Gen!TypeOK
  <2>2. Head(gQueue) \in Gen!Requests
    BY <2>1
  <2>3. CASE gLock[Gen!KindOf(Head(gQueue))] = Head(gQueue)
    <3>1. gWpc' = "taken" /\ gJob' = Head(gQueue) /\ gLock' = gLock
      BY <1>7, <2>3 DEF Gen!Dequeue, Gen!Work
    <3>2. Gen!KindOf(gJob)' = Gen!KindOf(Head(gQueue))
      BY <3>1 DEF Gen!KindOf
    <3> QED
      BY <2>2, <2>3, <3>1, <3>2 DEF Worked
  <2>4. CASE gLock[Gen!KindOf(Head(gQueue))] # Head(gQueue)
    BY <1>7, <2>4 DEF Gen!Dequeue, Gen!Work, Worked
  <2> QED
    BY <2>3, <2>4
<1>8. CASE Gen!Crash \/ Gen!Release \/ Gen!Recover
  BY <1>8 DEF Gen!Crash, Gen!Release, Gen!Recover, Gen!Work, Worked
<1>9. CASE Gen!WorkerStep /\ ~ (Gen!Dequeue \/ Gen!Release \/ Gen!Recover)
  <2>1. UNCHANGED <<gJob, gLock>>
    BY <1>9
    DEF Gen!WorkerStep, Gen!EndJob, Gen!BeginDirectory, Gen!ReadProject,
        Gen!SaveDirectory, Gen!DirectoryFails, Gen!DirectoryProgress, Gen!BeginFill,
        Gen!FillUnconfirmed, Gen!FillProgress, Gen!SaveFill, Gen!FillFails,
        Gen!Unsaved
  <2>2. \/ gWpc' \in {"end", "release"}
              /\ gWpc \in {"taken", "work", "save", "end"}
        \/ gWpc \in {"taken", "work"} /\ gWpc' \in {"work", "save"}
    BY <1>9
    DEF Gen!WorkerStep, Gen!EndJob, Gen!BeginDirectory, Gen!ReadProject,
        Gen!SaveDirectory, Gen!DirectoryFails, Gen!DirectoryProgress, Gen!BeginFill,
        Gen!FillUnconfirmed, Gen!FillProgress, Gen!SaveFill, Gen!FillFails,
        Gen!Unsaved, Gen!Work
  <2> QED
    BY <1>0, <2>1, <2>2 DEF Worked, Gen!KindOf
<1> QED
  BY <1>2, <1>3, <1>4, <1>5, <1>6, <1>7, <1>8, <1>9
  DEF Gen!Next, Gen!Handling, Gen!Submission

LEMMA GenStep ==
  ASSUME Gen!GenerationConstants, GenInv, [Gen!Next]_Gen!vars
  PROVE  GenInv'
<1>1. Gen!TypeOK /\ Handled /\ Worked
  BY DEF GenInv
<1>2. Gen!TypeOK'
  <2>1. CASE UNCHANGED Gen!vars
    BY <1>1, <2>1 DEF Gen!vars, Gen!row, Gen!redis, Gen!worker, Gen!TypeOK
  <2> QED
    BY <1>1, <2>1, TypeOfHandlers, TypeOfWorker, TypeOfTime DEF Gen!Next
<1> QED
  BY <1>2, SubmittedStep, HandledStep, WorkedStep DEF GenInv

-----------------------------------------------------------------------------
(* What the jobs write.                                                    *)

LEMMA AssembledStep ==
  ASSUME Gen!GenerationConstants, GenInv, Assembled, [Gen!Next]_Gen!vars
  PROVE  Assembled'
<1> USE GenNames DEF Gen!row, Gen!redis, Gen!worker
<1>0. Gen!TypeOK /\ outline \in Gen!Outlines /\ gCopy.outline \in Gen!Outlines
      /\ Gen!Nobody \notin Gen!Requests
  BY DEF GenInv, Gen!TypeOK, Gen!Handlers
\* Neither the regenerations, nor the document, nor the worker's place.
<1>1. ASSUME outline'.gen = outline.gen, doc' = doc,
             UNCHANGED <<gWpc, gJob, gCopy>> \/ gWpc' \notin {"work", "save"}
      PROVE  Assembled'
  <2>1. CASE gWpc' \notin {"work", "save"}
    BY <1>1, <2>1 DEF Assembled, Gen!DocumentCurrent
  <2>2. CASE UNCHANGED <<gWpc, gJob, gCopy>>
    BY <1>1, <2>2 DEF Assembled, Gen!DocumentCurrent, Gen!KindOf
  <2> QED
    BY <1>1, <2>1, <2>2
<1>2. CASE \/ UNCHANGED Gen!vars \/ Gen!HourUnattended \/ Gen!HourSlow
           \/ Gen!ApiDies \/ Gen!AskStatus \/ Gen!AskEdit
           \/ \E k \in Gen!Kinds : Gen!ExpireLost(k) \/ Gen!ExpireWaiting(k)
           \/ \E h \in Fills \cup {Gen!Poll} : Gen!ForceRelease(h) \/ Gen!FailStale(h)
  BY <1>1, <1>2
  DEF Gen!vars, Gen!HourUnattended, Gen!HourSlow, Gen!ApiDies, Gen!AskStatus,
      Gen!AskEdit, Gen!ExpireLost, Gen!ExpireWaiting, Gen!ForceRelease,
      Gen!FailStale
<1>3. ASSUME NEW r \in Gen!Requests,
             \/ Gen!AskDirectory(r) \/ Gen!AcquireDirectory(r)
             \/ Gen!StartDirectory(r) \/ Gen!PushDirectory(r) \/ Gen!StartRaises(r)
             \/ Gen!AskFill(r) \/ Gen!StartFill(r) \/ Gen!AcquireFill(r)
             \/ Gen!PushFill(r)
      PROVE  Assembled'
  BY <1>1, <1>3
  DEF Gen!AskDirectory, Gen!AcquireDirectory, Gen!StartDirectory, Gen!PushDirectory,
      Gen!StartRaises, Gen!AskFill, Gen!StartFill, Gen!AcquireFill, Gen!PushFill
\* An edit makes a new version of the same regeneration.
<1>4. CASE Gen!SaveOutline \/ Gen!ConfirmOutline
  <2>1. outline'.gen = outline.gen
    BY <1>0, <1>4 DEF Gen!SaveOutline, Gen!ConfirmOutline, Gen!Outlines
  <2> QED
    BY <1>1, <1>4, <2>1 DEF Gen!SaveOutline, Gen!ConfirmOutline
\* The worker, where it neither reads the outline nor writes what it has read.
<1>5. CASE \/ Gen!Dequeue \/ Gen!EndJob \/ Gen!Release \/ Gen!Recover \/ Gen!Crash
           \/ Gen!DirectoryFails \/ Gen!FillUnconfirmed \/ Gen!FillFails
           \/ Gen!Unsaved
  BY <1>1, <1>5
  DEF Gen!Dequeue, Gen!EndJob, Gen!Release, Gen!Recover, Gen!Crash,
      Gen!DirectoryFails, Gen!FillUnconfirmed, Gen!FillFails, Gen!Unsaved, Gen!Work
<1>6. CASE Gen!FillProgress \/ \E p \in Marks : Gen!DirectoryProgress(p)
  BY <1>1, <1>6 DEF Gen!FillProgress, Gen!DirectoryProgress, Gen!Work
<1>7. CASE Gen!BeginDirectory
  BY <1>7 DEF Gen!BeginDirectory, Gen!Work, Gen!KindOf, Assembled, Gen!DocumentCurrent
\* Where it does.
<1>8. CASE Gen!ReadProject \/ Gen!BeginFill
  <2>1. gCopy'.outline = outline
    BY <1>0, <1>8 DEF Gen!ReadProject, Gen!BeginFill, Gen!TypeOK
  <2> QED
    BY <1>8, <2>1
    DEF Gen!ReadProject, Gen!BeginFill, Assembled, Gen!DocumentCurrent
<1>9. CASE Gen!SaveFill
  BY <1>9 DEF Gen!SaveFill, Gen!Work, Assembled, Gen!DocumentCurrent
<1>10. CASE Gen!SaveDirectory
  <2>1. gWpc = "save" /\ gWpc' = "end"
    BY <1>10 DEF Gen!SaveDirectory, Gen!Work
  <2>2. CASE gJob \in Regenerations
    BY <1>10, <2>1, <2>2 DEF Gen!SaveDirectory, Assembled, Gen!DocumentCurrent
  <2>3. CASE gJob \notin Regenerations
    <3>1. doc' = doc /\ outline'.gen = gCopy.outline.gen
      BY <1>0, <1>10, <2>3 DEF Gen!SaveDirectory, Gen!Regenerated, Gen!Outlines
    <3> QED
      BY <2>1, <3>1 DEF Assembled, Gen!DocumentCurrent
  <2> QED
    BY <2>2, <2>3
<1> QED
  BY <1>2, <1>3, <1>4, <1>5, <1>6, <1>7, <1>8, <1>9, <1>10
  DEF Gen!Next, Gen!Handling, Gen!Submission, Gen!WorkerStep

-----------------------------------------------------------------------------
(* A running directory.                                                    *)

\* Who answers for a running directory: the request that has just marked it, or
\* its job, until it ends.
Answers(r) ==
    \/ api = r /\ gPc[r] = "stated"
    \/ /\ Gen!Delivered(r) /\ gLock["directory"] = r
       /\ gJob = r => gWpc \notin {"end", "release"}

Untroubled == gFaults \cap {"die", "expire", "store"} = {}

LEMMA AnswersStep ==
  ASSUME Gen!GenerationConstants, GenInv, Gen!DirectoryHasJob, [Gen!Next]_Gen!vars
  PROVE  Gen!DirectoryHasJob'
<1> USE GenNames DEF Gen!row, Gen!redis, Gen!worker
<1>0. /\ Gen!TypeOK /\ Handled /\ Worked /\ Submitted
      /\ Gen!Requests \subseteq Gen!Handlers /\ Gen!Nobody \notin Gen!Handlers
      /\ Directories \subseteq Gen!Requests
      /\ gPc \in [Gen!Handlers -> Gen!Pcs]
      /\ gLock \in [Gen!Kinds -> Gen!Requests \cup {Gen!Nobody}]
  BY DEF GenInv, Gen!TypeOK, Gen!Handlers
<1>1. /\ dir.status = "running" /\ Untroubled => \E r \in Directories : Answers(r)
      /\ (dir'.status = "running" /\ Untroubled'
             => \E r \in Directories : Answers(r)') => Gen!DirectoryHasJob'
  BY DEF Gen!DirectoryHasJob, Answers, Untroubled, Directories
<1>2. ASSUME NEW kind, Gen!Fault(kind), kind \in {"die", "expire", "store"}
      PROVE  ~ Untroubled'
  BY <1>2 DEF Gen!Fault, Untroubled
<1>3. gFaults \subseteq gFaults' => (Untroubled' => Untroubled)
  BY DEF Untroubled
\* Whoever answered goes on answering.
<1>4. ASSUME gFaults \subseteq gFaults',
             dir'.status = "running" => dir.status = "running",
             \A r \in Directories : Answers(r) => Answers(r)'
      PROVE  Gen!DirectoryHasJob'
  BY <1>1, <1>3, <1>4
\* Nobody answers for what is no longer running.
<1>5. ASSUME dir'.status # "running" PROVE Gen!DirectoryHasJob'
  BY <1>1, <1>5
<1>6. CASE UNCHANGED Gen!vars \/ Gen!HourUnattended \/ Gen!HourSlow
  BY <1>4, <1>6
  DEF Gen!vars, Gen!HourUnattended, Gen!HourSlow, Gen!Fault, Answers, Gen!Delivered
<1>7. ASSUME \/ Gen!ApiDies \/ Gen!Unsaved
             \/ \E r \in Gen!Requests : Gen!StartRaises(r)
             \/ \E k \in Gen!Kinds : Gen!ExpireWaiting(k)
      PROVE  Gen!DirectoryHasJob'
  BY <1>1, <1>2, <1>7
  DEF Gen!ApiDies, Gen!Unsaved, Gen!StartRaises, Gen!ExpireWaiting
\* Other requests wait for the event loop, and leave the directory's lock alone.
<1>8. ASSUME NEW h \in Gen!Handlers, h \notin Directories,
             api' = api \/ api = Gen!Nobody \/ api = h,
             gPc' = [gPc EXCEPT ![h] = gPc'[h]],
             gLock'["directory"] = gLock["directory"],
             \A r \in Directories : Gen!Delivered(r) => Gen!Delivered(r)',
             UNCHANGED <<dir, gJob, gWpc, gFaults>>
      PROVE  Gen!DirectoryHasJob'
  <2>1. \A r \in Directories : Answers(r) => Answers(r)'
    BY <1>0, <1>8 DEF Answers
  <2> QED
    BY <1>4, <1>8, <2>1
<1>9. ASSUME NEW r \in Gen!Requests,
             Gen!AskFill(r) \/ Gen!StartFill(r) \/ Gen!AcquireFill(r)
      PROVE  Gen!DirectoryHasJob'
  <2>1. /\ r \in Gen!Handlers /\ r \notin Directories
        /\ api' = api \/ api = Gen!Nobody \/ api = r
        /\ gPc' = [gPc EXCEPT ![r] = gPc'[r]]
        /\ UNCHANGED <<dir, gJob, gWpc, gFaults, gQueue>>
    BY <1>0, <1>9
    DEF Gen!AskFill, Gen!StartFill, Gen!AcquireFill, Gen!Enter, Gen!Leave, Gen!Answer
  <2>2. gLock'["directory"] = gLock["directory"]
    BY <1>0, <1>9 DEF Gen!AskFill, Gen!StartFill, Gen!AcquireFill
  <2> QED
    BY <1>8, <2>1, <2>2 DEF Gen!Delivered
<1>10. ASSUME NEW r \in Gen!Requests, Gen!PushFill(r) PROVE Gen!DirectoryHasJob'
  <2>1. /\ r \in Gen!Handlers /\ r \notin Directories
        /\ api = r /\ gPc' = [gPc EXCEPT ![r] = gPc'[r]]
        /\ UNCHANGED <<dir, gJob, gWpc, gFaults, gLock>>
    BY <1>0, <1>10 DEF Gen!PushFill, Gen!Leave
  <2>2. \A s \in Directories : Gen!Delivered(s) => Gen!Delivered(s)'
    BY <1>0, <1>10, PushDelivers DEF Gen!PushFill
  <2> QED
    BY <1>8, <2>1, <2>2
<1>11. ASSUME NEW h \in Fills \cup {Gen!Poll}, Gen!ForceRelease(h) \/ Gen!FailStale(h)
       PROVE  Gen!DirectoryHasJob'
  <2>1. /\ h \in Gen!Handlers /\ h \notin Directories
        /\ api = h /\ gPc' = [gPc EXCEPT ![h] = gPc'[h]]
        /\ UNCHANGED <<dir, gJob, gWpc, gFaults, gQueue>>
    BY <1>0, <1>11
    DEF Gen!ForceRelease, Gen!FailStale, Gen!Step, Gen!Leave, Gen!Handlers
  <2>2. gLock'["directory"] = gLock["directory"]
    BY <1>0, <1>11 DEF Gen!ForceRelease, Gen!FailStale
  <2> QED
    BY <1>8, <2>1, <2>2 DEF Gen!Delivered
<1>12. CASE Gen!AskStatus \/ Gen!AskEdit \/ Gen!SaveOutline \/ Gen!ConfirmOutline
  <2>1. PICK h \in {Gen!Poll, Gen!Editor} :
           /\ api = Gen!Nobody \/ api = h
           /\ gPc' = [gPc EXCEPT ![h] = gPc'[h]]
           /\ UNCHANGED <<dir, gJob, gWpc, gFaults, gQueue, gLock>>
    BY <1>0, <1>12
    DEF Gen!AskStatus, Gen!AskEdit, Gen!SaveOutline, Gen!ConfirmOutline, Gen!Enter,
        Gen!Leave, Gen!Handlers
  <2>2. h \in Gen!Handlers /\ h \notin Directories
    BY <1>0 DEF Gen!Handlers
  <2> QED
    BY <1>8, <2>1, <2>2 DEF Gen!Delivered
\* Requests for a directory.
<1>13. ASSUME NEW r \in Gen!Requests, Gen!AskDirectory(r) PROVE Gen!DirectoryHasJob'
  <2>1. \A s \in Directories : Answers(s) => Answers(s)'
    BY <1>0, <1>13
    DEF Gen!AskDirectory, Gen!Answer, Gen!Enter, Answers, Gen!Delivered
  <2> QED
    BY <1>4, <1>13, <2>1 DEF Gen!AskDirectory
<1>14. ASSUME NEW r \in Gen!Requests, Gen!AcquireDirectory(r)
       PROVE  Gen!DirectoryHasJob'
  <2>1. \A s \in Directories : Answers(s) => Answers(s)'
    BY <1>0, <1>14
    DEF Gen!AcquireDirectory, Gen!Step, Gen!Leave, Answers, Gen!Delivered
  <2> QED
    BY <1>4, <1>14, <2>1 DEF Gen!AcquireDirectory
<1>15. ASSUME NEW r \in Gen!Requests, Gen!StartDirectory(r) PROVE Gen!DirectoryHasJob'
  <2>1. r \in Directories /\ Answers(r)'
    BY <1>0, <1>15 DEF Gen!StartDirectory, Gen!Step, Answers, Directories
  <2> QED
    BY <1>1, <2>1
<1>16. ASSUME NEW r \in Gen!Requests, Gen!PushDirectory(r) PROVE Gen!DirectoryHasJob'
  <2>1. /\ r \in Directories /\ api = r /\ gPc[r] = "stated"
        /\ UNCHANGED <<dir, gLock, gJob, gWpc, gFaults>>
    BY <1>16 DEF Gen!PushDirectory, Gen!Leave, Directories
  <2>2. gLock["directory"] = r /\ gJob # r
    BY <1>0, <2>1 DEF Handled, Submitted, Gen!Delivered
  <2>3. Gen!Delivered(r)'
    BY <1>0, <1>16, PushDelivers DEF Gen!PushDirectory
  <2>4. Answers(r)'
    BY <2>1, <2>2, <2>3 DEF Answers
  <2> QED
    BY <1>1, <2>1, <2>4
\* A lock without a job.
<1>17. ASSUME NEW k \in Gen!Kinds, Gen!ExpireLost(k) PROVE Gen!DirectoryHasJob'
  <2>1. \A s \in Directories : Answers(s) => Answers(s)'
    <3>1. SUFFICES ASSUME NEW s \in Directories, Answers(s) PROVE Answers(s)'
      OBVIOUS
    <3>2. gLock[k] # s
      BY <1>0, <1>17, <3>1 DEF Gen!ExpireLost, Answers
    <3>3. gLock["directory"] = s => gLock'["directory"] = s
      BY <1>0, <1>17, <3>2 DEF Gen!ExpireLost
    <3> QED
      BY <1>0, <1>17, <3>1, <3>3 DEF Gen!ExpireLost, Answers, Gen!Delivered
  <2> QED
    BY <1>4, <1>17, <2>1 DEF Gen!ExpireLost
\* The worker.
<1>18. CASE Gen!Dequeue
  <2>1. \A s \in Directories : Answers(s) => Answers(s)'
    <3>1. SUFFICES ASSUME NEW s \in Directories, Answers(s) PROVE Answers(s)'
      OBVIOUS
    <3>2. CASE api = s /\ gPc[s] = "stated"
      BY <1>18, <3>2 DEF Gen!Dequeue, Answers
    <3>3. CASE Gen!Delivered(s) /\ gLock["directory"] = s
      <4>1. Gen!Delivered(s)' /\ gLock' = gLock
        BY <1>0, <1>18, <3>3, DequeueDelivers DEF Gen!Dequeue
      <4>2. gWpc' \notin {"end", "release"}
        BY <1>18 DEF Gen!Dequeue, Gen!Work
      <4> QED
        BY <3>3, <4>1, <4>2 DEF Answers
    <3> QED
      BY <3>1, <3>2, <3>3 DEF Answers
  <2> QED
    BY <1>4, <1>18, <2>1 DEF Gen!Dequeue
<1>19. CASE Gen!Recover
  <2>1. \A s \in Directories : Answers(s) => Answers(s)'
    <3>1. \A s \in Directories : Gen!Delivered(s)' <=> Gen!Delivered(s)
      BY <1>0, <1>19, RecoverDelivers
    <3> QED
      BY <1>19, <3>1 DEF Gen!Recover, Gen!Work, Answers
  <2> QED
    BY <1>4, <1>19, <2>1 DEF Gen!Recover
<1>20. CASE Gen!Crash
  <2>1. \A s \in Directories : Answers(s) => Answers(s)'
    BY <1>20 DEF Gen!Crash, Answers, Gen!Delivered
  <2> QED
    BY <1>4, <1>20, <2>1 DEF Gen!Crash, Gen!Fault
<1>21. CASE Gen!Release
  <2>1. gWpc = "release" /\ gJob \in Gen!Requests
    BY <1>0, <1>21 DEF Gen!Release, Gen!Work, Worked
  <2>2. \A s \in Directories : Answers(s) => Answers(s)'
    <3>1. SUFFICES ASSUME NEW s \in Directories, Answers(s) PROVE Answers(s)'
      OBVIOUS
    <3>2. CASE api = s /\ gPc[s] = "stated"
      BY <1>21, <3>2 DEF Gen!Release, Answers
    <3>3. CASE Gen!Delivered(s) /\ gLock["directory"] = s /\ gJob # s
      <4>1. gLock'["directory"] = s
        BY <1>0, <1>21, <3>3 DEF Gen!Release
      <4>2. Gen!Delivered(s)' /\ gWpc' = "idle"
        BY <1>21, <3>3 DEF Gen!Release, Gen!Work, Gen!Delivered
      <4> QED
        BY <4>1, <4>2 DEF Answers
    <3> QED
      BY <2>1, <3>1, <3>2, <3>3 DEF Answers
  <2> QED
    BY <1>4, <1>21, <2>2 DEF Gen!Release
<1>22. CASE Gen!EndJob
  <2>1. \A s \in Directories : Answers(s) => Answers(s)'
    BY <1>22 DEF Gen!EndJob, Gen!Work, Answers, Gen!Delivered
  <2> QED
    BY <1>4, <1>22, <2>1 DEF Gen!EndJob
\* The job at work: of the directory ...
<1>23. CASE Gen!BeginDirectory \/ Gen!ReadProject
            \/ \E p \in Marks : Gen!DirectoryProgress(p)
  <2>1. \A s \in Directories : Answers(s) => Answers(s)'
    BY <1>23
    DEF Gen!BeginDirectory, Gen!ReadProject, Gen!DirectoryProgress, Gen!Work, Answers,
        Gen!Delivered
  <2>2. dir'.status = dir.status /\ gFaults' = gFaults
    BY <1>0, <1>23
    DEF Gen!BeginDirectory, Gen!ReadProject, Gen!DirectoryProgress, Gen!TypeOK
  <2> QED
    BY <1>4, <2>1, <2>2
<1>24. CASE Gen!DirectoryFails \/ Gen!SaveDirectory
  <2>1. dir'.status # "running"
    BY <1>0, <1>24 DEF Gen!DirectoryFails, Gen!SaveDirectory, Gen!TypeOK
  <2> QED
    BY <1>5, <2>1
\* ... or of the body.
<1>25. CASE \/ Gen!BeginFill \/ Gen!FillUnconfirmed \/ Gen!FillProgress
            \/ Gen!SaveFill \/ Gen!FillFails
  <2>1. gJob \notin Directories
    BY <1>25
    DEF Gen!BeginFill, Gen!FillUnconfirmed, Gen!FillProgress, Gen!SaveFill,
        Gen!FillFails
  <2>2. UNCHANGED <<dir, gLock, gQueue, api, gPc, gJob>> /\ gFaults \subseteq gFaults'
    BY <1>25
    DEF Gen!BeginFill, Gen!FillUnconfirmed, Gen!FillProgress, Gen!SaveFill,
        Gen!FillFails, Gen!Fault
  <2>3. \A s \in Directories : Answers(s) => Answers(s)'
    BY <2>1, <2>2 DEF Answers, Gen!Delivered
  <2> QED
    BY <1>4, <2>2, <2>3
<1> QED
  BY <1>6, <1>7, <1>9, <1>10, <1>11, <1>12, <1>13, <1>14, <1>15, <1>16, <1>17, <1>18,
     <1>19, <1>20, <1>21, <1>22, <1>23, <1>24, <1>25
  DEF Gen!Next, Gen!Handling, Gen!Submission, Gen!WorkerStep

-----------------------------------------------------------------------------
(* Theorems.                                                               *)

\* The document on show was assembled from the directory as it is, however the two
\* jobs are submitted, repeated, killed, called stale or fail, and however often
\* the outline is edited meanwhile (save_generated_outline_state,
\* save_fill_generation_result_state).
THEOREM DocumentIsOfOutline ==
  ASSUME Gen!GenerationConstants
  PROVE  Gen!Spec => [](Gen!TypeOK /\ Gen!DocumentCurrent)
<1>1. GenInv /\ Assembled => Gen!TypeOK /\ Gen!DocumentCurrent
  BY DEF GenInv, Assembled
<1>2. GenInv /\ Assembled /\ [Gen!Next]_Gen!vars => (GenInv /\ Assembled)'
  BY GenStep, AssembledStep
<1> QED
  BY <1>1, <1>2, InitGen, PTL DEF Gen!Spec

\* Nobody else changes the outline that a directory job is going to replace: the
\* job keeps the lock that keeps the editor out (ensure_outline_editable), whatever
\* runs out, is given back or is run again.
THEOREM NobodyEditsUnderAJob ==
  ASSUME Gen!GenerationConstants
  PROVE  Gen!Spec => Gen!OutlineStill
<1>1. ASSUME GenInv, [Gen!Next]_Gen!vars, outline' # outline,
             gWpc \in {"taken", "work", "save"}, Gen!KindOf(gJob) = "directory"
      PROVE  gWpc = "save" /\ gWpc' = "end"
  <2> USE DEF Gen!row, Gen!redis, Gen!worker
  <2>1. ~ (Gen!SaveOutline \/ Gen!ConfirmOutline)
    <3>1. gLock["directory"] # Gen!Nobody
      BY <1>1, GenNames DEF GenInv, Worked, Gen!Handlers
    <3> QED
      BY <3>1, <1>1
      DEF Gen!SaveOutline, Gen!ConfirmOutline, Gen!Leave, GenInv, Handled
  <2>2. Gen!SaveDirectory
    BY <1>1, <2>1
    DEF Gen!vars, Gen!Next, Gen!Handling, Gen!Submission, Gen!WorkerStep,
        Gen!AskDirectory, Gen!AskFill, Gen!StartRaises, Gen!AskStatus, Gen!AskEdit,
        Gen!AcquireDirectory, Gen!StartDirectory, Gen!PushDirectory, Gen!StartFill,
        Gen!AcquireFill, Gen!PushFill, Gen!ForceRelease, Gen!FailStale, Gen!Dequeue,
        Gen!EndJob, Gen!Release, Gen!Recover, Gen!BeginDirectory, Gen!ReadProject,
        Gen!DirectoryFails, Gen!DirectoryProgress, Gen!BeginFill,
        Gen!FillUnconfirmed, Gen!FillProgress, Gen!SaveFill, Gen!FillFails,
        Gen!Unsaved, Gen!Crash, Gen!HourUnattended, Gen!HourSlow, Gen!ApiDies,
        Gen!ExpireLost, Gen!ExpireWaiting
  <2> QED
    BY <2>2 DEF Gen!SaveDirectory, Gen!Work
<1>2. GenInv /\ [Gen!Next]_Gen!vars =>
        [ /\ gJob # Gen!Nobody /\ Gen!KindOf(gJob) = "directory"
          /\ gWpc \in {"taken", "work", "save"} /\ outline' # outline
          => gWpc = "save" /\ gWpc' = "end" ]_Gen!vars
  BY <1>1
<1>3. Gen!GenerationConstants /\ Gen!Init => GenInv
  BY InitGen
<1> QED
  BY <1>2, <1>3, GenStep, PTL DEF Gen!Spec, Gen!OutlineStill

\* A directory that is shown as running has a job that will end it, or a request
\* about to submit one, as long as no API dies, no lock runs out and the database
\* answers: whatever fails, is slow, is killed or is run again (run_generation).
THEOREM RunningHasJob ==
  ASSUME Gen!GenerationConstants
  PROVE  Gen!Spec => []Gen!DirectoryHasJob
<1>1. Gen!GenerationConstants /\ Gen!Init => GenInv /\ Gen!DirectoryHasJob
  <2>1. Gen!Init => dir.status # "running"
    BY DEF Gen!Init
  <2> QED
    BY <2>1, InitGen DEF Gen!DirectoryHasJob
<1>2. GenInv /\ Gen!DirectoryHasJob /\ [Gen!Next]_Gen!vars =>
        (GenInv /\ Gen!DirectoryHasJob)'
  BY GenStep, AnswersStep
<1> QED
  BY <1>1, <1>2, PTL DEF Gen!Spec
-----------------------------------------------------------------------------
(* The scenes of MC_Background: in all of them GenerationJobs and          *)
(* ProjectStore do steps of their own or stand still.                      *)

LEMMA GenerationMoves == [AllNext]_allVars => [Gen!Next]_Gen!vars
<1>1. UNCHANGED genVars => UNCHANGED Gen!vars
  BY DEF genVars, Gen!vars, Gen!row, Gen!redis, Gen!worker
<1>2. UNCHANGED allVars => UNCHANGED genVars
  BY DEF allVars
<1> QED
  BY <1>1, <1>2
  DEF AllNext, CleaningStep, ChainStep, FillStep, GenerationStep, StoreStep

LEMMA GenerationRuns == AllInit /\ [][AllNext]_allVars => Gen!Spec
<1>1. AllInit => Gen!Init
  BY DEF AllInit
<1> QED
  BY <1>1, GenerationMoves, PTL DEF Gen!Spec

\* A directory that is shown as running has a job that will end it, or a request
\* about to submit one (run_generation).
THEOREM SceneDirectoryHasJob == FairSpec => []DirectoryHasJob
<1>1. Gen!Spec => []Gen!DirectoryHasJob
  BY BackgroundConstants, RunningHasJob
<1> QED
  BY <1>1, GenerationRuns, PTL DEF FairSpec, DirectoryHasJob

\* The document on show is the one of the directory as it is
\* (save_fill_generation_result_state).
THEOREM SceneDocumentOfOutline == FairSpec => []DocumentOfOutline
<1>1. Gen!Spec => [](Gen!TypeOK /\ Gen!DocumentCurrent)
  BY BackgroundConstants, DocumentIsOfOutline
<1> QED
  BY <1>1, GenerationRuns, PTL DEF FairSpec, DocumentOfOutline

\* Nobody edits the outline that a directory job is going to replace
\* (ensure_outline_editable).
THEOREM SceneOutlineStill == FairSpec => OutlineStill
<1>1. Gen!Spec => Gen!OutlineStill
  BY BackgroundConstants, NobodyEditsUnderAJob
<1> QED
  BY <1>1, GenerationRuns, PTL DEF FairSpec, OutlineStill

LEMMA StoreRuns == AllInit /\ [][AllNext]_allVars => Spec
<1>1. UNCHANGED allVars => UNCHANGED vars
  BY DEF allVars
<1>2. [AllNext]_allVars => [Next]_vars
  BY <1>1
  DEF AllNext, CleaningStep, ChainStep, FillStep, GenerationStep, StoreStep
<1>3. AllInit => Init
  BY DEF AllInit
<1> QED
  BY <1>2, <1>3, PTL DEF Spec

\* In the mixes of writes that the run admits, what was acknowledged stays in the
\* row until the project is deleted.
THEOREM SceneAcknowledged ==
  ASSUME Mixes = SafeMixes, FieldOf = Shared, Writers = {a, b, c, d}, f # g
  PROVE  FairSpec => []AckedKept
<1>1. ASSUME NEW m \in Mixes PROVE GuardedMix(m) \/ SeparateMix(m)
  <2>1. CASE \A w \in Writers : m[w] \in {"checked", "mutate", "delete"}
    BY <2>1 DEF GuardedMix
  <2>2. CASE \A w \in Writers : m[w] = IF w \in {b, d} THEN "delete" ELSE "fields"
    BY <2>2 DEF SeparateMix, Shared
  <2>3. CASE \A w \in Writers : m[w] = IF w = a THEN "whole" ELSE "delete"
    BY <2>3 DEF SeparateMix
  <2> QED
    BY <2>1, <2>2, <2>3 DEF SafeMixes
<1>2. Spec => []AckedKept
  BY <1>1, AcknowledgedStays
<1> QED
  BY <1>2, StoreRuns, PTL DEF FairSpec

\* A checked operation is refused only after as many others went through as it
\* made attempts, whatever else the background work does.
THEOREM SceneRefusals == FairSpec => []RefusedOnlyWhenBeaten
  BY RefusedOnlyByOthers, StoreRuns, PTL DEF FairSpec
=============================================================================
