----------------------------- MODULE MC_Documents -----------------------------
(***************************************************************************)
(* The safety of what users edit while workers and OnlyOffice write it, at *)
(* small bounds: ArtifactCallback, DocumentFlow, BodyFill and ParseResult. *)
(* They share no state here, so their behaviours are checked one beside    *)
(* the other: the initial state says which of them moves, under which      *)
(* faults, and the others keep still.                                      *)
(***************************************************************************)
EXTENDS ArtifactCallback, Sequences, TLC

CONSTANTS
    Editors, Saves, Formats, Others, DocumentFaults,          \* DocumentFlow
    PlanItems, Tasks, Scopes, Submits, Singles, Pool, MaxEdits, FillFaults, \* BodyFill
    c1, c2, c3, s1, s2, a1, a2, q1, q2, q3, NoSync

VARIABLES
    scene,
    row, dFile, object, missed, dPc, dCopy, dSession, dFinal, ended, acked,
    dFaults,
    filled, edits, error, fill, sub, scope, asked, lock, queue,
    wpc, job, phase, ok, one, what, copy, slot, fFaults,
    result, pFile, lib, made, found, takesPart, worker, held, pPc, pCopy,
    plan, met, told, calm, parses, choices, removals, pFaults

documentVars == <<row, dFile, object, missed, dPc, dCopy, dSession, dFinal, ended, acked,
                  dFaults>>
fillVars     == <<filled, edits, error, fill, sub, scope, asked, lock, queue,
                  wpc, job, phase, ok, one, what, copy, slot, fFaults>>
resultVars   == <<result, pFile, lib, made, found, takesPart, worker, held, pPc,
                  pCopy, plan, met, told, calm, parses, choices, removals, pFaults>>
allVars      == <<scene, vars, documentVars, fillVars, resultVars>>

\* Two callbacks that only the scenes of the document know, and treat alike; c1 is
\* also a candidate of a parse result.
Symmetry == Permutations({c2, c3})

\* Requests begin at any time, but do not overlap.
Document == INSTANCE DocumentFlow WITH
    Callbacks <- Editors, Overlap <- FALSE, Faults <- DocumentFaults,
    file <- dFile, pc <- dPc, copy <- dCopy, session <- dSession, final <- dFinal,
    faults <- dFaults

\* An item with two tasks and one with a single task.
FillItems  == {"i1", "i2"}
FillTasks  == {<<"i1", 1>>, <<"i1", 2>>, <<"i2", 1>>}
FillScopes == {FillItems, {"i2"}}

Fill == INSTANCE BodyFill WITH
    Items <- PlanItems, Faults <- FillFaults, faults <- fFaults

ResultFaults == {"move", "read", "upload", "delete", "commit", "restart"}

\* Three participation requests about one appendix.
Folder == INSTANCE ParseResult_proofs WITH
    Appendices <- {a1}, Candidates <- {}, Requests <- {q1, q2, q3},
    MaxParses <- 1, MaxChoices <- 2, MaxRemovals <- 0,
    Faults <- ResultFaults, MaxFaults <- 1,
    file <- pFile, pc <- pPc, copy <- pCopy, faults <- pFaults

\* Two appendices, an OCR field, a second parse, and one request.
Result == INSTANCE ParseResult_proofs WITH
    Appendices <- {a1, a2}, Candidates <- {c1}, Requests <- {q1},
    MaxParses <- 2, MaxChoices <- 2, MaxRemovals <- 1,
    Faults <- ResultFaults, MaxFaults <- 1,
    file <- pFile, pc <- pPc, copy <- pCopy, faults <- pFaults

ASSUME DocumentsConstants ==
    /\ Document!DocumentConstants
    /\ Fill!BodyFillConstants
    /\ Folder!ParseResultConstants /\ Result!ParseResultConstants

AllInit ==
    /\ scene \in {"callback", "document", "merge", "batch", "folder", "result"}
    /\ Init
    /\ Document!Init
    /\ scene # "callback" => \A c \in Callbacks : final[c]
    /\ scene # "document" => \A e \in Editors : dFinal[e]
    /\ Fill!Init
    /\ IF scene = "result" THEN Result!Init ELSE Folder!Init

Scene(s, step, still) == scene = s /\ step /\ UNCHANGED <<scene, still>>

\* One submission among single requests and edits, with at most one fault that is not
\* a crash ...
Merge ==
    /\ Fill!Next
    /\ sub'[s2] = "idle" /\ fFaults' <= 1
    /\ wpc' # "down" /\ fill'.status # "failed"

\* ... and two submissions, with more faults and nothing else going on.
Batch == Fill!Next /\ UNCHANGED <<one, edits>>

AllNext ==
    \/ Scene("callback", Next, <<documentVars, fillVars, resultVars>>)
    \/ Scene("document", Document!Next, <<vars, fillVars, resultVars>>)
    \/ Scene("merge", Merge, <<vars, documentVars, resultVars>>)
    \/ Scene("batch", Batch, <<vars, documentVars, resultVars>>)
    \/ Scene("folder", Folder!Next, <<vars, documentVars, fillVars>>)
    \/ Scene("result", Result!Next, <<vars, documentVars, fillVars>>)

AllSpec == AllInit /\ [][AllNext]_allVars
-----------------------------------------------------------------------------
(* The properties of the components, each stated where it is defined.      *)

\* Document flow: between requests the object is the document, or is known to be late.
DocumentCurrent == Document!DocumentCurrent

\* Document flow: outdated editors replace nothing newer.
NewestKept == Document!NewestKept

\* Body fill: nothing that was filled or edited is taken back.
WorkKept == Fill!WorkKept

\* Body fill: a batch accounts for all its tasks.
BatchAccounted == Fill!BatchAccounted

\* Parse result: a choice of appendices stays until it is made anew.
ChoiceKept == IF scene = "result" THEN Result!ChoiceKept ELSE Folder!ChoiceKept

\* Parse result: the folder holds no file that the result does not know of.
FolderTracked == IF scene = "result" THEN Result!FolderTracked ELSE Folder!FolderTracked

\* Parse result: "synced" means that the folder holds the chosen appendices.
SyncedIsChosen ==
    [][IF scene = "result" THEN Result!SyncedStep ELSE Folder!SyncedStep]_resultVars
=============================================================================
