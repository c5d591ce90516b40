-------------------------- MODULE ArtifactCallback --------------------------
(***************************************************************************)
(* A filled Word document that users edit in OnlyOffice: the callbacks by  *)
(* which the editor hands back what was saved, late, twice or out of       *)
(* order, the document's file, and its entry in the project's row, which   *)
(* other requests and workers may supersede at any time.                   *)
(*   services/technical_gap_service.py (artifact_callback),                *)
(*   technical_gap_domain.py, onlyoffice_documents.py                      *)
(* A callback's work under its lock does not yield the event loop; changes *)
(* of the row come from threads and from other processes.                  *)
(***************************************************************************)
EXTENDS Naturals

CONSTANTS
    Callbacks,    \* the saves that are handed back; also their content
    MaxSessions,  \* editing sessions, which final saves end
    Faults,       \* kinds of faults that may happen
    MaxFaults

None     == <<>>          \* no file
Original == <<"filled">>  \* what the AI fill wrote

ASSUME CallbackConstants ==
    /\ MaxSessions \in Nat \ {0} /\ MaxFaults \in Nat
    /\ None \notin Callbacks /\ Original \notin Callbacks

Contents == Callbacks \cup {Original}
Pcs      == {"idle", "open", "checked", "downloaded", "rechecked", "moved",
             "swapped", "committed", "restore", "done"}

VARIABLES
    live, ver,        \* the row: not superseded, its ooDocVersion
    saved,            \* what the row's ooContentRevision stands for
    file, backup,     \* the document, and the backup file of each callback
    pc, session, final,    \* the callbacks; whether it is a final save
    faults

vars == <<live, ver, saved, file, backup, pc, session, final, faults>>

Init ==
    /\ live = TRUE /\ ver = 1 /\ saved = Original
    /\ file = Original
    /\ backup = [c \in Callbacks |-> None]
    /\ pc = [c \in Callbacks |-> "idle"]
    /\ session = [c \in Callbacks |-> 1]
    /\ final \in [Callbacks -> BOOLEAN]
    /\ faults = 0

Fault(kind) == kind \in Faults /\ faults < MaxFaults /\ faults' = faults + 1

Go(c, from, to) == pc[c] = from /\ pc' = [pc EXCEPT ![c] = to]

\* _validate_editable_gap_artifact
Valid(c) == live /\ session[c] = ver

\* The editor was opened on the version of that moment: its callback's URL has it.
Open(c) ==
    /\ Go(c, "idle", "open")
    /\ live
    /\ session' = [session EXCEPT ![c] = ver]
    /\ UNCHANGED <<live, ver, saved, file, backup, final, faults>>

Check(c) ==
    /\ Go(c, "open", IF Valid(c) /\ file # None THEN "checked" ELSE "done")
    /\ UNCHANGED <<live, ver, saved, file, backup, session, final, faults>>

\* Into a temporary file of its own, while everything else goes on.
Download(c) ==
    /\ Go(c, "checked", "downloaded")
    /\ UNCHANGED <<live, ver, saved, file, backup, session, final, faults>>

DownloadFails(c) ==
    /\ Fault("http")
    /\ Go(c, "checked", "done")
    /\ UNCHANGED <<live, ver, saved, file, backup, session, final>>

\* _artifact_callback_lock
Alone(c) ==
    \A d \in Callbacks \ {c} :
        pc[d] \notin {"rechecked", "moved", "swapped", "committed", "restore"}

\* Slip: what was checked before the download is not checked again.
RecheckNothing(c) ==
    /\ Alone(c)
    /\ Go(c, "downloaded", IF file # None THEN "rechecked" ELSE "done")
    /\ UNCHANGED <<live, ver, saved, file, backup, session, final, faults>>

Recheck(c) ==
    /\ Alone(c)
    /\ Go(c, "downloaded", IF Valid(c) /\ file # None THEN "rechecked" ELSE "done")
    /\ UNCHANGED <<live, ver, saved, file, backup, session, final, faults>>

\* Slip: the old file is replaced in place.
MoveOldAway(c) ==
    /\ Go(c, "rechecked", "moved")
    /\ file' = None
    /\ UNCHANGED <<live, ver, saved, backup, session, final, faults>>

MoveOld(c) ==
    /\ Go(c, "rechecked", "moved")
    /\ backup' = [backup EXCEPT ![c] = file]
    /\ file' = None
    /\ UNCHANGED <<live, ver, saved, session, final, faults>>

MoveNew(c) ==
    /\ Go(c, "moved", "swapped")
    /\ file' = c
    /\ UNCHANGED <<live, ver, saved, backup, session, final, faults>>

\* Slip: a temporary save ends the session as well.
NextVersionAlways(c) == ver + 1

NextVersion(c) == IF final[c] THEN ver + 1 ELSE ver

\* mutate: checked once more on the row that is written
Commit(c) ==
    /\ final[c] => ver < MaxSessions
    /\ IF Valid(c)
       THEN /\ Go(c, "swapped", "committed")
            /\ ver' = NextVersion(c)
            /\ saved' = c
       ELSE Go(c, "swapped", "restore") /\ UNCHANGED <<ver, saved>>
    /\ UNCHANGED <<live, file, backup, session, final, faults>>

\* The write gives up after its replays.
CommitRefused(c) ==
    /\ Fault("conflict")
    /\ Go(c, "swapped", "restore")
    /\ UNCHANGED <<live, ver, saved, file, backup, session, final>>

Restore(c) ==
    /\ Go(c, "restore", "done")
    /\ file' = backup[c]
    /\ backup' = [backup EXCEPT ![c] = None]
    /\ UNCHANGED <<live, ver, saved, session, final, faults>>

DropBackup(c) ==
    /\ Go(c, "committed", "done")
    /\ backup' = [backup EXCEPT ![c] = None]
    /\ UNCHANGED <<live, ver, saved, file, session, final, faults>>

\* A new fill or another choice of material takes the artefact's place.
Supersede ==
    /\ live
    /\ live' = FALSE
    /\ UNCHANGED <<ver, saved, file, backup, pc, session, final, faults>>

\* The API process is killed; the files stay as they are.
Crash ==
    /\ Fault("crash")
    /\ pc' = [c \in Callbacks |-> IF pc[c] \in {"idle", "open"} THEN pc[c] ELSE "done"]
    /\ UNCHANGED <<live, ver, saved, file, backup, session, final>>

Callback(c) ==
    \/ Open(c) \/ Check(c) \/ Download(c) \/ DownloadFails(c) \/ Recheck(c)
    \/ MoveOld(c) \/ MoveNew(c) \/ Commit(c) \/ CommitRefused(c)
    \/ Restore(c) \/ DropBackup(c)

Next == (\E c \in Callbacks : Callback(c)) \/ Supersede \/ Crash

Spec == Init /\ [][Next]_vars
-----------------------------------------------------------------------------
(* Properties.                                                             *)

TypeOK ==
    /\ live \in BOOLEAN /\ ver \in 1..MaxSessions
    /\ saved \in Contents
    /\ file \in Contents \cup {None}
    /\ backup \in [Callbacks -> Contents \cup {None}]
    /\ pc \in [Callbacks -> Pcs]
    /\ session \in [Callbacks -> 1..MaxSessions]
    /\ final \in [Callbacks -> BOOLEAN]
    /\ faults \in 0..MaxFaults

\* The document is being replaced, or the process died while it was.
Replacing(c) ==
    \/ pc[c] \in {"moved", "swapped", "restore"}
    \/ pc[c] = "done" /\ backup[c] # None

\* What the row counts as saved is never lost: it is the document, also after saves
\* that were superseded or refused while they were put in place, and while the
\* document is replaced, or when the process dies in between, at least a backup.
LastSaveKept ==
    \/ file = saved
    \/ \E c \in Callbacks : Replacing(c) /\ backup[c] = saved

\* A session that a final save has ended puts nothing in the document any more,
\* though its save was accepted before it was downloaded.
EndedSessionsSilent ==
    [][\A c \in Callbacks :
          pc[c] = "moved" /\ file' = c => session[c] = ver]_vars
=============================================================================
