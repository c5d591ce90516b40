---------------------------- MODULE ProjectStore ----------------------------
(***************************************************************************)
(* One row of the projects table: the whole project as one JSONB payload   *)
(* with a revision inside it, written by API requests and workers that     *)
(* read it, work on their copy and write it back in one of several ways.   *)
(*   services/bid_project_repository.py, services/store.py,                *)
(*   services/workspace_project_access.py                                  *)
(***************************************************************************)
EXTENDS Naturals

CONSTANTS
    Writers,     \* operations, each changing one field once
    Fields,      \* top-level fields of the payload
    FieldOf,     \* the field an operation changes
    Mixes,       \* the ways of writing back that may meet
    Retries      \* attempts of mutate_workspace_project

\* persist_project_state, ..._checked, mutate_workspace_project,
\* persist_project_fields and delete_project.
Modes == {"whole", "checked", "mutate", "fields", "delete"}

ASSUME StoreConstants ==
    /\ FieldOf \in [Writers -> Fields]
    /\ Mixes \subseteq [Writers -> Modes]
    /\ Retries \in Nat \ {0}

Pcs == {"idle", "read", "unmatched", "inserting",
        "done", "skipped", "refused", "missing"}

VARIABLES
    mode,     \* how each operation writes back
    exists,   \* the row exists
    row,      \* its payload: the revision, and whose changes each field holds
    snap,     \* an operation's copy, with its own change
    pc, tries

vars == <<mode, exists, row, snap, pc, tries>>

Payloads == [rev : Nat, val : [Fields -> SUBSET Writers]]
Empty    == [rev |-> 0, val |-> [f \in Fields |-> {}]]

Init ==
    /\ mode \in Mixes
    /\ exists = TRUE
    /\ row = Empty
    /\ snap = [w \in Writers |-> Empty]
    /\ pc = [w \in Writers |-> "idle"]
    /\ tries = [w \in Writers |-> 0]

Go(w, from, to) == pc[w] = from /\ pc' = [pc EXCEPT ![w] = to]

\* An operation ends: its copy is dropped.
End(w, from, to) ==
    /\ Go(w, from, to)
    /\ snap' = [snap EXCEPT ![w] = Empty]

Checks(w) == mode[w] \in {"checked", "mutate"}
-----------------------------------------------------------------------------

\* require_project_for_update, and the operation's change to the copy.
Read(w) ==
    /\ IF exists
       THEN /\ Go(w, "idle", "read")
            /\ snap' = [snap EXCEPT ![w] =
                   [row EXCEPT !.val[FieldOf[w]] = @ \cup {w}]]
       ELSE End(w, "idle", "missing")
    /\ UNCHANGED <<mode, exists, row, tries>>

\* persist_when says no, the change raises, or the process dies.
Abandon(w) ==
    /\ End(w, "read", "skipped")
    /\ UNCHANGED <<mode, exists, row, tries>>

NextRev(r) == r + 1

Store(w) ==
    /\ exists' = TRUE
    /\ row' = [snap[w] EXCEPT !.rev = NextRev(@)]

\* persist without expected_rev: INSERT ... ON CONFLICT DO UPDATE
PersistWhole(w) ==
    /\ mode[w] = "whole"
    /\ End(w, "read", "done")
    /\ Store(w)
    /\ UNCHANGED <<mode, tries>>

\* persist_fields: payload || patch, of nothing when the row is gone.
PersistFields(w) ==
    /\ mode[w] = "fields"
    /\ End(w, "read", "done")
    /\ row' = IF exists
              THEN [row EXCEPT !.val[FieldOf[w]] = snap[w].val[FieldOf[w]]]
              ELSE row
    /\ UNCHANGED <<mode, exists, tries>>

\* Slip: UPDATE ... WHERE id = %s
MatchesId(w) == exists

Matches(w) == exists /\ row.rev = snap[w].rev

\* persist with expected_rev: UPDATE ... WHERE id = %s AND _rev = %s
CasUpdate(w) ==
    /\ Checks(w)
    /\ \/ Matches(w) /\ End(w, "read", "done") /\ Store(w)
       \/ /\ ~ Matches(w)
          /\ Go(w, "read", "unmatched")
          /\ UNCHANGED <<exists, row, snap>>
    /\ UNCHANGED <<mode, tries>>

\* Slip: a replay on the old copy.
ConflictStale(w) ==
    /\ tries' = [tries EXCEPT ![w] = @ + 1]
    /\ \/ /\ mode[w] = "mutate" /\ tries[w] + 1 < Retries
          /\ Go(w, "unmatched", "read")
          /\ UNCHANGED snap
       \/ /\ ~ (mode[w] = "mutate" /\ tries[w] + 1 < Retries)
          /\ End(w, "unmatched", "refused")

MayRetry(w) == mode[w] = "mutate" /\ tries[w] + 1 < Retries

\* ProjectConcurrentUpdateError: mutate_workspace_project reads again.
Conflict(w) ==
    /\ tries' = [tries EXCEPT ![w] = @ + 1]
    /\ \/ MayRetry(w) /\ End(w, "unmatched", "idle")
       \/ ~ MayRetry(w) /\ End(w, "unmatched", "refused")

\* No row matched: SELECT 1 tells a newer revision from a missing row.
CasProbe(w) ==
    /\ pc[w] = "unmatched"
    /\ IF exists
       THEN Conflict(w)
       ELSE Go(w, "unmatched", "inserting") /\ UNCHANGED <<snap, tries>>
    /\ UNCHANGED <<mode, exists, row>>

\* ... which is inserted; a row inserted meanwhile is a unique violation.
CasInsert(w) ==
    /\ \/ exists /\ End(w, "inserting", "refused") /\ UNCHANGED <<exists, row>>
       \/ ~ exists /\ End(w, "inserting", "done") /\ Store(w)
    /\ UNCHANGED <<mode, tries>>

Delete(w) ==
    /\ mode[w] = "delete"
    /\ End(w, "read", "done")
    /\ exists' = FALSE
    /\ row' = Empty
    /\ UNCHANGED <<mode, tries>>
-----------------------------------------------------------------------------

Next ==
    \E w \in Writers :
        \/ Read(w) \/ Abandon(w) \/ PersistWhole(w) \/ PersistFields(w)
        \/ CasUpdate(w) \/ CasProbe(w) \/ CasInsert(w) \/ Delete(w)

Spec == Init /\ [][Next]_vars
-----------------------------------------------------------------------------
(* Properties.                                                             *)

TypeOK ==
    /\ mode \in Mixes
    /\ exists \in BOOLEAN
    /\ row \in Payloads
    /\ snap \in [Writers -> Payloads]
    /\ pc \in [Writers -> Pcs]
    /\ tries \in [Writers -> 0..Retries]

CasOnly == \A w \in Writers : Checks(w)

Deleted == \E w \in Writers : mode[w] = "delete" /\ pc[w] = "done"

\* Until the project is deleted, an operation that reported success is in the
\* row, in every mix a run admits: nobody writes back a copy older than it.
AckedKept ==
    ~ Deleted =>
        \A w \in Writers : pc[w] = "done" => exists /\ w \in row.val[FieldOf[w]]

\* A conflict is somebody else's success: an operation is refused only after as
\* many other operations went through as it made attempts.
RefusedOnlyWhenBeaten ==
    CasOnly =>
        \A w \in Writers :
            pc[w] = "refused" => tries[w] <= row.rev /\ w \notin row.val[FieldOf[w]]

\* Where every write is checked, a change of the payload is a new revision, by
\* one, and the revision counts the operations that succeeded.
RevCounts ==
    [][CasOnly /\ row' # row =>
          /\ row'.rev = row.rev + 1
          /\ \E w \in Writers :
                /\ pc[w] # "done" /\ pc'[w] = "done"
                /\ row'.val = [row.val EXCEPT ![FieldOf[w]] = @ \cup {w}]]_vars

\* "Operations that change different fields no longer concern each other": an
\* operation that wrote its own field alone finds it there afterwards.
FieldsIndependent ==
    \A w \in Writers :
        /\ pc[w] = "done" /\ mode[w] = "fields" /\ exists
        /\ \A v \in Writers \ {w} : FieldOf[v] # FieldOf[w] /\ mode[v] # "whole"
        => w \in row.val[FieldOf[w]]

\* "Written only while the database still has that revision": a checked write
\* changes the row only where its revision is the one that was read.
CheckedOnItsRevision ==
    [][\A w \in Writers :
          Checks(w) /\ pc[w] # "done" /\ pc'[w] = "done"
          => exists /\ row.rev + 1 = row'.rev]_vars
=============================================================================
