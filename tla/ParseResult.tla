----------------------------- MODULE ParseResult -----------------------------
(***************************************************************************)
(* The parse result of a technical project: one field of its row, written  *)
(* back whole by everyone who changes a part of it.  The worker replaces   *)
(* it when a parse completes, a reader refreshes it from its file, users   *)
(* choose appendices and confirm OCR fields, and a participation request   *)
(* works for a while on its copy, to bring the project's folder in the     *)
(* material library in line with the chosen appendices.                    *)
(*   services/technical_parse_assets.py, bid_project_service.py (update),  *)
(*   bid_parse_service.py, workspace_artifacts.py, ocr_service.py          *)
(***************************************************************************)
EXTENDS FiniteSets, Naturals

CONSTANTS
    Appendices,    \* appendices of the tender document
    Candidates,    \* recognised OCR fields of the project
    Requests,      \* participation requests, each made once
    NoSync,        \* the result has no record of the material folder
    MaxParses, MaxChoices, MaxRemovals,
    Faults, MaxFaults

\* Calls that may raise or fail: moving the tracked files into the folder, the
\* index or a Word file that is read, the upload, the deletion of one file, the
\* commit of a confirmation; and a restart of the API process.
FaultKinds == {"move", "read", "upload", "delete", "commit", "restart"}

\* Files of the folder, and what the result knows of them.
Materials == Appendices \X Nat
Syncs     == [items : [Appendices -> Nat], pending : SUBSET Materials]

\* What is assumed of the constants.
ParseResultConstants ==
    /\ Faults \subseteq FaultKinds /\ NoSync \notin Syncs
    /\ {MaxParses, MaxChoices, MaxRemovals, MaxFaults} \subseteq Nat

VARIABLES
    result,    \* parse_result: its status, and what is kept in "structured"
    file,      \* the same part of the structured result file
    lib,       \* the file of each appendix in the material folder, 0 for none
    made,      \* ids given to the files of an appendix
    found,     \* status of the OCR candidates
    takesPart, \* reviewDecision = "participate"
    worker,    \* where the parse worker is with a completed parse
    held,      \* the result it goes on with
    pc, copy,  \* where a request is, and its copy of parse_result
    plan,      \* what it has found out about the folder
    met,       \* requests that met a fault
    told,      \* choices acknowledged while nobody held a copy
    calm,      \* no two holders of a copy overlapped, none was cut short,
               \* and no parse was repeated
    parses, choices, removals, faults

counters == <<parses, choices, removals>>
vars == <<result, file, lib, made, found, takesPart, worker, held,
          pc, copy, plan, met, told, calm, counters, faults>>

Choices   == {"unset", "yes", "no"}
Results   == [status : {"idle", "completed"}, chosen : [Appendices -> Choices],
              sync : Syncs \cup {NoSync}, fields : SUBSET Candidates]
Plans     == [upload : SUBSET Appendices, stale : SUBSET Materials,
              ids : [Appendices -> Nat]]

Opening == {"prepare", "index", "upload", "delete", "finish"}
Closed  == {"synced", "partial", "skipped", "failed", "refused", "lost"}

NoFiles  == [a \in Appendices |-> 0]
NoPlan   == [upload |-> {}, stale |-> {}, ids |-> NoFiles]
Cleared  == [items |-> NoFiles, pending |-> {}]

\* complete_parse_state and empty_parse_result.
Blank(status) == [status |-> status, chosen |-> [a \in Appendices |-> "unset"],
                  sync |-> NoSync, fields |-> {}]

Init ==
    /\ result = Blank("idle") /\ file = Blank("idle")
    /\ lib = NoFiles /\ made = NoFiles
    /\ found = [c \in Candidates |-> "recognised"]
    /\ takesPart = FALSE
    /\ worker = "idle" /\ held = Blank("idle")
    /\ pc = [r \in Requests |-> "idle"]
    /\ copy = [r \in Requests |-> Blank("idle")]
    /\ plan = [r \in Requests |-> NoPlan]
    /\ met = {} /\ calm = TRUE
    /\ told = [a \in Appendices |-> "unset"]
    /\ parses = 0 /\ choices = 0 /\ removals = 0 /\ faults = 0

Open     == {r \in Requests : pc[r] \in Opening}
SomeHold == Open # {} \/ worker # "idle"

Selected(c) == {a \in Appendices : c.chosen[a] = "yes"}
Items(c)    == IF c.sync = NoSync THEN NoFiles ELSE c.sync.items
Pending(c)  == IF c.sync = NoSync THEN {} ELSE c.sync.pending
ItemIds(c)  == {<<a, Items(c)[a]>> : a \in {x \in Appendices : Items(c)[x] # 0}}
Tracked(c)  == ItemIds(c) \cup Pending(c)
InFolder    == {<<a, lib[a]>> : a \in {x \in Appendices : lib[x] # 0}}

NoFault == UNCHANGED <<faults, met>>

Fault(kind, r) ==
    /\ kind \in Faults /\ faults < MaxFaults
    /\ faults' = faults + 1
    /\ met' = met \cup {r}
-----------------------------------------------------------------------------
(* The parse worker, and readers of the result.                            *)

\* complete_parse: the result of the parse replaces the field, its file is new.
Complete ==
    /\ worker = "idle" /\ parses < MaxParses
    /\ result' = Blank("completed") /\ file' = Blank("completed")
    /\ worker' = "completed"
    /\ told' = [a \in Appendices |-> "unset"]
    /\ calm' = (calm /\ Open = {} /\ parses = 0)
    /\ parses' = parses + 1
    /\ NoFault
    /\ UNCHANGED <<lib, made, found, takesPart, held, pc, copy, plan,
                   choices, removals>>

\* Slip: the file's appendices as they are.
RefreshedFromFile(c) ==
    [c EXCEPT !.chosen = [a \in Appendices |->
                              IF file.chosen[a] = "unset" THEN "yes" ELSE file.chosen[a]],
              !.sync = IF @ = NoSync THEN file.sync ELSE @,
              !.fields = file.fields]

\* _merge_technical_appendix_runtime_state: the file's content, with what the
\* field knows of the choice and of the folder.
Refreshed(c) ==
    [c EXCEPT !.chosen = [a \in Appendices |->
                              CASE @[a] # "unset" -> @[a]
                                [] @[a] = "unset" /\ file.chosen[a] # "unset" -> file.chosen[a]
                                [] OTHER -> "yes"],
              !.sync = IF @ = NoSync THEN file.sync ELSE @,
              !.fields = file.fields]

\* _refresh_technical_parse_result_from_structured_file, on reading the results.
Refresh ==
    /\ result.status = "completed"
    /\ result' = Refreshed(result)
    /\ NoFault
    /\ UNCHANGED <<file, lib, made, found, takesPart, worker, held,
                   pc, copy, plan, told, calm, counters>>

\* The same, by the worker after it has completed the parse; it goes on with
\* the payload that is returned.
WorkerRefresh ==
    /\ worker = "completed"
    /\ result' = IF result.status = "completed" THEN Refreshed(result) ELSE result
    /\ held' = result'
    /\ worker' = "refreshed"
    /\ NoFault
    /\ UNCHANGED <<file, lib, made, found, takesPart, pc, copy, plan,
                   told, calm, counters>>

\* _promote_completed_parse_if_participating: the result and its file move to
\* the project's workspace.
WorkerPromote ==
    /\ worker = "refreshed"
    /\ IF takesPart /\ held.status = "completed"
       THEN result' = held /\ file' = held
       ELSE UNCHANGED <<result, file>>
    /\ worker' = "idle" /\ held' = Blank("idle")
    /\ NoFault
    /\ UNCHANGED <<lib, made, found, takesPart, pc, copy, plan, told, calm, counters>>
-----------------------------------------------------------------------------
(* Users who change a part of the result.                                  *)

\* set_technical_appendix_asset_selected, set_all_technical_appendix_...
Choose(some, answer) ==
    /\ result.status = "completed" /\ choices < MaxChoices
    /\ result' = [result EXCEPT !.chosen =
           [a \in Appendices |-> IF a \in some THEN answer ELSE @[a]]]
    /\ told' = [a \in Appendices |->
           CASE a \in some /\ SomeHold -> "unset"
             [] a \in some /\ ~ SomeHold -> answer
             [] OTHER -> told[a]]
    /\ choices' = choices + 1
    /\ NoFault
    /\ UNCHANGED <<file, lib, made, found, takesPart, worker, held,
                   pc, copy, plan, calm, parses, removals>>

\* confirm_candidate: the field is in the project before the commit.
Confirm(c) ==
    /\ result' = [result EXCEPT !.fields = @ \cup {c}]
    /\ \/ found' = [found EXCEPT ![c] = "confirmed"] /\ NoFault
       \/ /\ "commit" \in Faults /\ faults < MaxFaults
          /\ faults' = faults + 1
          /\ UNCHANGED <<found, met>>
    /\ UNCHANGED <<file, lib, made, takesPart, worker, held,
                   pc, copy, plan, told, calm, counters>>

Ignore(c) ==
    /\ found' = [found EXCEPT ![c] = "ignored"]
    /\ NoFault
    /\ UNCHANGED <<result, file, lib, made, takesPart, worker, held,
                   pc, copy, plan, told, calm, counters>>

\* A user deletes a file of the folder.
Remove(a) ==
    /\ lib[a] # 0 /\ removals < MaxRemovals
    /\ lib' = [lib EXCEPT ![a] = 0]
    /\ removals' = removals + 1
    /\ NoFault
    /\ UNCHANGED <<result, file, made, found, takesPart, worker, held,
                   pc, copy, plan, told, calm, parses, choices>>
-----------------------------------------------------------------------------
(* A participation request: BidProjectService.update.                      *)

Go(r, from, to) == pc[r] = from /\ pc' = [pc EXCEPT ![r] = to]

\* The request is answered, or dies: its copy is gone.
Drop(r) ==
    /\ copy' = [copy EXCEPT ![r] = Blank("idle")]
    /\ plan' = [plan EXCEPT ![r] = NoPlan]

\* Slip: an error leaves the row alone.
FailUnsaved(r, from, c) ==
    /\ Go(r, from, "failed")
    /\ Drop(r)
    /\ UNCHANGED <<result, file, takesPart>>

\* "finally: persist_technical_parse_result", then the error is answered.
Fail(r, from, c) ==
    /\ Go(r, from, "failed")
    /\ Drop(r)
    /\ result' = c
    /\ UNCHANGED <<file, takesPart>>

\* The copy is written back, and update_review_decision_state promotes it.
Succeed(r, from, answer, c) ==
    /\ Go(r, from, answer)
    /\ Drop(r)
    /\ result' = c
    /\ file' = IF c.status = "completed" THEN c ELSE file
    /\ takesPart' = TRUE

\* ensure_project
Ask(r) ==
    /\ Go(r, "idle", "prepare")
    /\ copy' = [copy EXCEPT ![r] = result]
    /\ calm' = (calm /\ ~ SomeHold)
    /\ NoFault
    /\ UNCHANGED <<result, file, lib, made, found, takesPart, worker, held,
                   plan, told, counters>>

\* prepare_technical_project_material_folder: every tracked file is moved into
\* the folder; one that is missing is an error, before anything is written.
Prepare(r) ==
    /\ \/ ItemIds(copy[r]) \subseteq InFolder
          /\ Go(r, "prepare", "index") /\ NoFault /\ UNCHANGED <<copy, plan>>
       \/ ~ ItemIds(copy[r]) \subseteq InFolder
          /\ Go(r, "prepare", "refused") /\ NoFault /\ Drop(r)
       \/ Go(r, "prepare", "refused") /\ Fault("move", r) /\ Drop(r)
    /\ UNCHANGED <<result, file, lib, made, found, takesPart, worker, held,
                   told, calm, counters>>

\* Slip: what could not be deleted is forgotten.
StaleItems(c) == {m \in ItemIds(c) : m[1] \notin Selected(c)} \cap InFolder

Stale(c) ==
    ({m \in ItemIds(c) : m[1] \notin Selected(c)} \cup Pending(c)) \cap InFolder

\* Files that the folder still has are kept; the other chosen ones are uploaded.
PlanOf(c) ==
    LET kept == {a \in Selected(c) : Items(c)[a] # 0 /\ Items(c)[a] = lib[a]}
    IN  [upload |-> Selected(c) \ kept,
         stale  |-> Stale(c),
         ids    |-> [a \in Appendices |-> IF a \in kept THEN Items(c)[a] ELSE 0]]

\* The index is rebuilt when files are tracked, and Word files are read.
Index(r) ==
    LET c == copy[r]
        p == PlanOf(c)
    IN  /\ \/ /\ Tracked(c) # {} \/ p.upload # {}
              /\ Fault("read", r) /\ Fail(r, "index", c)
           \/ /\ Selected(c) = {} /\ p.stale = {}
              /\ NoFault
              /\ Succeed(r, "index", "skipped", [c EXCEPT !.sync = Cleared])
           \/ /\ Selected(c) # {} \/ p.stale # {}
              /\ NoFault /\ Go(r, "index", "upload")
              /\ plan' = [plan EXCEPT ![r] = p]
              /\ UNCHANGED <<result, file, takesPart, copy>>
        /\ UNCHANGED <<lib, made, found, worker, held, told, calm, counters>>

\* raw_upload with on_conflict "overwrite": all files or none; a file of the
\* same name keeps its id.
Upload(r) ==
    LET new == {a \in plan[r].upload : lib[a] = 0}
        is  == [a \in Appendices |-> IF a \in new THEN made[a] + 1 ELSE lib[a]]
    IN  /\ \/ /\ plan[r].upload # {}
              /\ Fault("upload", r) /\ Fail(r, "upload", copy[r])
              /\ UNCHANGED <<lib, made>>
           \/ /\ NoFault /\ Go(r, "upload", "delete")
              /\ lib' = is
              /\ made' = [a \in Appendices |-> IF a \in new THEN made[a] + 1 ELSE made[a]]
              /\ plan' = [plan EXCEPT ![r].ids = [a \in Appendices |->
                              IF a \in plan[r].upload THEN is[a] ELSE @[a]]]
              /\ UNCHANGED <<result, file, takesPart, copy>>
        /\ UNCHANGED <<found, worker, held, told, calm, counters>>

\* raw_batch_delete_files: each file by itself, a failure is only reported.
Delete(r) ==
    /\ Go(r, "delete", "finish")
    /\ \E failed \in SUBSET plan[r].stale :
          /\ plan[r].stale \ InFolder \subseteq failed
          /\ IF failed \subseteq plan[r].stale \ InFolder THEN NoFault ELSE Fault("delete", r)
          /\ lib' = [a \in Appendices |->
                 IF <<a, lib[a]>> \in plan[r].stale \ failed THEN 0 ELSE lib[a]]
          /\ copy' = [copy EXCEPT ![r].sync =
                 [items |-> [a \in Appendices |->
                                IF a \in Selected(copy[r]) THEN plan[r].ids[a] ELSE 0],
                  pending |-> failed]]
    /\ UNCHANGED <<result, file, made, found, takesPart, worker, held, plan,
                   told, calm, counters>>

\* The index is rebuilt and must have every chosen file.
Finish(r) ==
    LET c == copy[r]
    IN  /\ \/ /\ ItemIds(c) \subseteq InFolder /\ NoFault
              /\ Succeed(r, "finish", IF c.sync.pending = {} THEN "synced" ELSE "partial", c)
           \/ ~ ItemIds(c) \subseteq InFolder /\ NoFault /\ Fail(r, "finish", c)
           \/ Fault("read", r) /\ Fail(r, "finish", c)
        /\ UNCHANGED <<lib, made, found, worker, held, told, calm, counters>>

\* The API process dies with the requests it works on.
Restart ==
    /\ Open # {}
    /\ "restart" \in Faults /\ faults < MaxFaults
    /\ faults' = faults + 1
    /\ met' = met \cup Open
    /\ calm' = FALSE
    /\ pc' = [r \in Requests |-> IF r \in Open THEN "lost" ELSE pc[r]]
    /\ copy' = [r \in Requests |-> Blank("idle")]
    /\ plan' = [r \in Requests |-> NoPlan]
    /\ UNCHANGED <<result, file, lib, made, found, takesPart, worker, held,
                   told, counters>>
-----------------------------------------------------------------------------

Next ==
    \/ Complete \/ Refresh \/ WorkerRefresh \/ WorkerPromote
    \/ \E answer \in {"yes", "no"} :
          \/ \E a \in Appendices : Choose({a}, answer)
          \/ Choose(Appendices, answer)
    \/ \E c \in Candidates : Confirm(c) \/ Ignore(c)
    \/ \E a \in Appendices : Remove(a)
    \/ \E r \in Requests :
          \/ Ask(r) \/ Prepare(r) \/ Index(r) \/ Upload(r) \/ Delete(r) \/ Finish(r)
    \/ Restart

Spec == Init /\ [][Next]_vars
-----------------------------------------------------------------------------
(* Properties.                                                             *)

TypeOK ==
    /\ {result, file, held} \subseteq Results
    /\ copy \in [Requests -> Results]
    /\ plan \in [Requests -> Plans]
    /\ {lib, made} \subseteq [Appendices -> Nat]
    /\ found \in [Candidates -> {"recognised", "confirmed", "ignored"}]
    /\ worker \in {"idle", "completed", "refreshed"}
    /\ pc \in [Requests -> Opening \cup Closed \cup {"idle"}]
    /\ told \in [Appendices -> Choices]
    /\ met \subseteq Requests
    /\ {calm, takesPart} \subseteq BOOLEAN
    /\ {parses, choices, removals, faults} \subseteq Nat

\* "The runtime state must be kept on a refresh": a choice that was acknowledged
\* while nobody worked on a copy of the result stays as it was made, through
\* refreshes, promotions, confirmations and participation requests, however they
\* fail, until the project is parsed again or the user chooses anew.
ChoiceKept ==
    \A a \in Appendices : told[a] # "unset" => result.chosen[a] = told[a]

\* Between calm requests nothing is in the folder that the result does not know
\* of: whichever call of a request failed, the next one finds every file, to
\* keep it or to delete it.
FolderTracked ==
    calm /\ ~ SomeHold => InFolder \subseteq Tracked(result)

\* "The appendices in the material library agree with the last choice": a calm
\* request that answers "synced", or "skipped" because there is nothing to do,
\* leaves exactly the chosen appendices, whatever earlier requests left undone.
SyncedStep ==
    \A r \in Requests :
        calm /\ pc'[r] # pc[r] /\ pc'[r] \in {"synced", "skipped"} =>
            {a \in Appendices : lib[a] # 0} = Selected(copy[r])

SyncedIsChosen == [][SyncedStep]_vars

\* The same of every calm request that met no fault itself: it does answer that
\* the folder agrees with the choice.
ChoiceApplied ==
    calm => \A r \in Requests \ met : pc[r] \notin {"failed", "refused"}

\* A candidate that was confirmed, and is among the confirmed fields of the
\* result, stays among them until the project is parsed again.
ConfirmedShown ==
    [][parses' = parses =>
          \A c \in Candidates :
              found[c] = "confirmed" /\ c \in result.fields => c \in result'.fields]_vars
=============================================================================
