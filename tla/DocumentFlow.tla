---------------------------- MODULE DocumentFlow ----------------------------
(***************************************************************************)
(* The assembled bid document: saves from the page, callbacks by which     *)
(* OnlyOffice hands back its saves, format changes, and other operations   *)
(* on the same project.  The project's row is written whole here, and a    *)
(* callback keeps the copy it read while it downloads.                     *)
(*   services/bid_document_flow.py, bid_document_state.py,                 *)
(*   technical_document_service.py, technical_document_state.py            *)
(***************************************************************************)
EXTENDS Naturals

CONSTANTS
    Callbacks, Saves, Formats, Others,    \* the requests
    Overlap,      \* requests may run between the steps of another
    Faults, MaxFaults

\* What is assumed of the constants.
DocumentConstants ==
    /\ Overlap \in BOOLEAN /\ MaxFaults \in Nat
    /\ Callbacks \cap Saves = {} /\ (Callbacks \cup Saves) \cap Formats = {}
    /\ (Callbacks \cup Saves \cup Formats) \cap Others = {}

Requests == Callbacks \cup Saves \cup Formats \cup Others
Original == <<"generated">>
Contents == Requests \cup {Original}
Pcs      == {"idle", "open", "read", "landed", "done"}
Row      == [ver : Nat, rest : SUBSET Others]

VARIABLES
    row,          \* the document's version, and what other operations wrote
    file, object, \* the document on disk and in MinIO
    missed,       \* the contents whose last upload failed or was not reached
    pc, copy,     \* the requests, and the row each has read
    session, final,     \* of a callback: the version its editor was opened on
    ended,        \* how many saves have raised the version
    acked,        \* the operations that were told they are done
    faults

vars == <<row, file, object, missed, pc, copy, session, final, ended, acked, faults>>

Init ==
    /\ row = [ver |-> 1, rest |-> {}]
    /\ file = Original /\ object = Original /\ missed = {}
    /\ pc = [r \in Requests |-> "idle"]
    /\ copy = [r \in Requests |-> [ver |-> 1, rest |-> {}]]
    /\ session = [c \in Callbacks |-> 1]
    /\ final \in [Callbacks -> BOOLEAN]
    /\ ended = 0 /\ acked = {} /\ faults = 0

Fault(kind) == kind \in Faults /\ faults < MaxFaults /\ faults' = faults + 1

Under == {r \in Requests : pc[r] \in {"read", "landed"}}

\* A request begins when it may: at any time, or between the others.
Go(r, from, to) ==
    /\ pc[r] = from
    /\ ~ Overlap => Under \subseteq {r}
    /\ pc' = [pc EXCEPT ![r] = to]

Read(r) == copy' = [copy EXCEPT ![r] = row]

\* Slip: the row is written with the document's part alone.
PersistDocument(r, ver) == row' = [ver |-> ver]

\* persist without a revision: the copy becomes the row.
Persist(r, ver) == row' = [copy[r] EXCEPT !.ver = ver]

\* sync_document_to_minio: what MinIO raises is swallowed, and the request goes on.
Sync(content) ==
    \/ /\ object' = content
       /\ missed' = missed \ {content}
       /\ UNCHANGED faults
    \/ /\ Fault("minio")
       /\ missed' = missed \cup {content}
       /\ UNCHANGED object
-----------------------------------------------------------------------------

\* An editor is opened; its callback's URL has the version of that moment.
OpenEditor(c) ==
    /\ Go(c, "idle", "open")
    /\ session' = [session EXCEPT ![c] = row.ver]
    /\ UNCHANGED <<row, file, object, missed, copy, final, ended, acked, faults>>

\* Slip: a callback is believed whatever its version.
StaleNever(c) == FALSE

Stale(c) == session[c] < row.ver

CallbackRead(c) ==
    /\ Go(c, "open", IF Stale(c) THEN "done" ELSE "read")
    /\ Read(c)
    /\ UNCHANGED <<row, file, object, missed, session, final, ended, acked, faults>>

\* Slip: only the local document is replaced.
CallbackLandLocally(c) ==
    /\ Go(c, "read", "landed")
    /\ file' = c
    /\ UNCHANGED <<row, object, missed, copy, session, final, ended, acked, faults>>

\* The download has ended: the document is replaced and uploaded.
CallbackLand(c) ==
    /\ Go(c, "read", "landed")
    /\ file' = c
    /\ Sync(c)
    /\ UNCHANGED <<row, copy, session, final, ended, acked>>

DownloadFails(c) ==
    /\ Fault("http")
    /\ Go(c, "read", "done")
    /\ UNCHANGED <<row, file, object, missed, copy, session, final, ended, acked>>

\* Slip: a temporary save raises the version too.
AdvanceAlways(c) == copy[c].ver + 1

\* force_save_document_state(advance_version = final)
Advance(c) == IF final[c] THEN copy[c].ver + 1 ELSE copy[c].ver

CallbackPersist(c) ==
    /\ Go(c, "landed", "done")
    /\ Persist(c, Advance(c))
    /\ ended' = IF final[c] THEN ended + 1 ELSE ended
    /\ UNCHANGED <<file, object, missed, copy, session, final, acked, faults>>

\* save_document: the row first, then the document and its upload.
SaveRead(s) ==
    /\ Go(s, "idle", "read")
    /\ Read(s)
    /\ UNCHANGED <<row, file, object, missed, session, final, ended, acked, faults>>

SavePersist(s) ==
    /\ Go(s, "read", "done")
    /\ Persist(s, copy[s].ver + 1)
    /\ file' = s
    /\ Sync(s)
    /\ ended' = ended + 1
    /\ UNCHANGED <<copy, session, final, acked>>

\* force_save_document: nothing new is written, a new session begins.
ForceSave(s) ==
    /\ Go(s, "read", "done")
    /\ Persist(s, copy[s].ver + 1)
    /\ Sync(file)
    /\ ended' = ended + 1
    /\ UNCHANGED <<file, copy, session, final, acked>>

\* apply_format: the document is rewritten in a thread, the row afterwards.
FormatFile(f) ==
    /\ Go(f, "idle", "landed")
    /\ file' = f
    /\ UNCHANGED <<row, object, missed, copy, session, final, ended, acked, faults>>

FormatPersist(f) ==
    /\ Go(f, "landed", "done")
    /\ row' = [row EXCEPT !.ver = @ + 1]
    /\ Sync(file)
    /\ ended' = ended + 1
    /\ UNCHANGED <<file, copy, session, final, acked>>

\* The row cannot be written, and the request is answered with an error: nothing
\* has happened yet, or the document is already replaced.  That of a callback has
\* been uploaded; that of a format is not.
PersistFails(r) ==
    /\ Fault("db")
    /\ r \notin Others
    /\ Go(r, IF r \in Saves THEN "read" ELSE "landed", "done")
    /\ missed' = IF r \in Formats THEN missed \cup {r} ELSE missed
    /\ UNCHANGED <<row, file, object, copy, session, final, ended, acked>>

\* Any other operation of the project, replayed on conflicts.
Other(o) ==
    /\ Go(o, "idle", "done")
    /\ row' = [row EXCEPT !.rest = @ \cup {o}]
    /\ acked' = acked \cup {o}
    /\ UNCHANGED <<file, object, missed, copy, session, final, ended, faults>>

Callback(c) ==
    \/ OpenEditor(c) \/ CallbackRead(c) \/ CallbackLand(c) \/ DownloadFails(c)
    \/ CallbackPersist(c)

Next ==
    \/ \E c \in Callbacks : Callback(c)
    \/ \E s \in Saves : SaveRead(s) \/ SavePersist(s) \/ ForceSave(s)
    \/ \E f \in Formats : FormatFile(f) \/ FormatPersist(f)
    \/ \E r \in Requests : PersistFails(r)
    \/ \E o \in Others : Other(o)

Spec == Init /\ [][Next]_vars
-----------------------------------------------------------------------------
(* Properties.                                                             *)

TypeOK ==
    /\ row \in Row
    /\ file \in Contents /\ object \in Contents /\ missed \subseteq Contents
    /\ pc \in [Requests -> Pcs]
    /\ copy \in [Requests -> Row]
    /\ session \in [Callbacks -> Nat] /\ final \in [Callbacks -> BOOLEAN]
    /\ ended \in Nat /\ acked \subseteq Others
    /\ faults \in 0..MaxFaults

\* When requests do not overlap, the object in MinIO, from which the document is
\* restored, is the document, whoever wrote it last, unless the upload of this very
\* document failed, which nobody is told, or a format failed before it: an error
\* leaves nothing else behind.  And the version counts the saves that end editing
\* sessions, so that of two editors opened around such a save the earlier one is
\* found out; and what other operations wrote stays.
DocumentCurrent ==
    Under = {} =>
        /\ object = file \/ file \in missed
        /\ row.ver = ended + 1
        /\ acked \subseteq row.rest

\* ... and what a page save or a format wrote is not replaced by an editor that
\* was opened on what it replaced.
NewestKept ==
    [][\A c \in Callbacks :
          file' = c /\ file # c /\ file \in Saves \cup Formats
          => session[c] = row.ver]_vars
=============================================================================
