---------------------------- MODULE MC_Background ----------------------------
(***************************************************************************)
(* What the background work must do in the end, at small bounds:           *)
(* MaterialCleaning, WikiChain, BodyFill and GenerationJobs under the      *)
(* fairness of their FairSpec, and the ProjectStore they all write to.     *)
(* They share no state here: the initial state says which of them moves,   *)
(* under which faults, and the others keep still.                          *)
(***************************************************************************)
EXTENDS MC_ProjectStore, Sequences

CONSTANTS
    s1, s2,
    Runs, Regenerations, Fills, Marks, GenEdits, GenFaults, MaxGenFaults
                                                        \* GenerationJobs

VARIABLES
    scene, faults,
    version, status, cleaned, key, src, objs, warned, up, drop, cQueue, locks,
    cWpc, cJob, wkey, got, want, move,
    lib, wiki, wSnap, lost, req, rtok, pending, next, wQueue, wikiLock,
    wWpc, wJob, back, wtok, built, claims,
    filled, edits, error, fill, sub, scope, asked, lock, queue,
    wpc, job, phase, ok, one, what, copy, slot,
    dir, outline, body, doc, gLock, gQueue, api, gPc, gWpc, gJob, gCopy, gEdits, gFaults

cleanVars == <<version, status, cleaned, key, src, objs, warned, up, drop, cQueue,
               locks, cWpc, cJob, wkey, got, want, move>>
wikiVars  == <<lib, wiki, wSnap, lost, req, rtok, pending, next, wQueue, wikiLock,
               wWpc, wJob, back, wtok, built, claims>>
fillVars  == <<filled, edits, error, fill, sub, scope, asked, lock, queue,
               wpc, job, phase, ok, one, what, copy, slot>>
genVars   == <<dir, outline, body, doc, gLock, gQueue, api, gPc,
               gWpc, gJob, gCopy, gEdits, gFaults>>
allVars   == <<scene, faults, cleanVars, wikiVars, fillVars, genVars, vars>>

Versions == 1..3

Cleaning == INSTANCE MaterialCleaning WITH
    Files <- {"doc"}, MaxVersion <- 3, Movable <- {},
    Faults <- {"worker", "upload"}, MaxFaults <- 2,
    queue <- cQueue, wpc <- cWpc, job <- cJob

Chain == INSTANCE WikiChain WITH
    Words <- {"w1"}, Plains <- {"p1"}, Trees <- {"t1"}, Deep <- {},
    Faults <- {"crash"}, MaxFaults <- 1,
    snap <- wSnap, queue <- wQueue, wpc <- wWpc, job <- wJob

\* Deep parses are followed up as long as nothing fails.
Deep == INSTANCE WikiChain WITH
    Words <- {"w1"}, Plains <- {"p1"}, Trees <- {}, Deep <- {"w1", "p1"},
    Faults <- {}, MaxFaults <- 0,
    snap <- wSnap, queue <- wQueue, wpc <- wWpc, job <- wJob

Filling == INSTANCE BodyFill WITH
    Items <- {"i1", "i2"}, Tasks <- {<<"i1", 1>>, <<"i2", 1>>},
    Scopes <- {{"i1", "i2"}, {"i2"}}, Pool <- 1,
    Submits <- {s1, s2}, Singles <- {}, MaxEdits <- 0,
    Faults <- {"fill", "conflict", "record", "crash"}, MaxFaults <- 2

Gen == INSTANCE GenerationJobs WITH
    MaxEdits <- GenEdits, Faults <- GenFaults, MaxFaults <- MaxGenFaults,
    fill <- body, pc <- gPc, lock <- gLock, queue <- gQueue, wpc <- gWpc, job <- gJob,
    copy <- gCopy, edits <- gEdits, faults <- gFaults

ASSUME BackgroundConstants ==
    /\ Cleaning!CleaningConstants
    /\ Chain!ChainConstants /\ Deep!ChainConstants
    /\ Filling!BodyFillConstants
    /\ Gen!GenerationConstants

AllInit ==
    /\ scene \in {"cleaning", "chain", "deep", "filling", "generation", "store"}
    /\ Init
    /\ scene # "store" => mode = [w \in Writers |-> "checked"]
    /\ Cleaning!Init /\ Filling!Init /\ Gen!Init
    /\ scene # "generation" => doc = {}
    /\ IF scene = "deep" THEN Deep!Init ELSE Chain!Init

CleaningStep(step) ==
    /\ scene = "cleaning" /\ step
    /\ UNCHANGED <<scene, wikiVars, fillVars, genVars, vars>>

ChainStep(s, step) ==
    scene = s /\ step /\ UNCHANGED <<scene, cleanVars, fillVars, genVars, vars>>

FillStep(step) ==
    /\ scene = "filling" /\ step
    /\ UNCHANGED <<scene, cleanVars, wikiVars, genVars, vars>>

GenerationStep(step) ==
    /\ scene = "generation" /\ step
    /\ UNCHANGED <<scene, faults, cleanVars, wikiVars, fillVars, vars>>

StoreStep(step) ==
    /\ scene = "store" /\ step
    /\ UNCHANGED <<scene, faults, cleanVars, wikiVars, fillVars, genVars>>

AllNext ==
    \/ CleaningStep(Cleaning!Next)
    \/ ChainStep("chain", Chain!Next)
    \/ ChainStep("deep", Deep!Next)
    \/ FillStep(Filling!Next)
    \/ GenerationStep(Gen!Next)
    \/ StoreStep(Next)

Worker ==
    \/ CleaningStep(Cleaning!WorkerStep)
    \/ ChainStep("chain", Chain!WorkerStep) \/ ChainStep("deep", Deep!WorkerStep)
    \/ FillStep(Filling!WorkerStep)
    \/ GenerationStep(Gen!WorkerStep)

Time ==
    \/ ChainStep("chain", Chain!Expire) \/ ChainStep("deep", Deep!Expire)
    \/ FillStep(Filling!Expire)
    \/ GenerationStep(Gen!HourUnattended)

\* The requests of a scene, in some order; each is made again and again.
Asking(n) ==
    \/ CleaningStep(Cleaning!Upload("doc", n))
    \/ ChainStep("chain", Chain!Request(<<"w1", "p1", "t1">>[n]))
    \/ n < 3 /\ ChainStep("deep", Deep!Request(<<"w1", "p1">>[n]))
    \/ n < 3 /\ FillStep(Filling!Submit(<<s1, s2>>[n]))
    \/ n = 1 /\ GenerationStep(Gen!Handling)
    \/ n = 2 /\ GenerationStep(Gen!AskStatus)

\* The fairness of each component's FairSpec.  Only one scene moves, so that an
\* action of several scenes is fair where each of its parts is.
FairSpec ==
    /\ AllInit /\ [][AllNext]_allVars
    /\ WF_allVars(Worker) /\ WF_allVars(Time)
    /\ \A n \in Versions : WF_allVars(Asking(n))
-----------------------------------------------------------------------------
(* The properties of the components, each stated where it is defined.      *)

\* Material cleaning: the newest version of a file is cleaned or has failed.
CleaningSettles == Cleaning!CleaningSettles

\* Wiki chain: every change, and every deep parse, is shown by the wiki.
ChangeShown == Chain!ChangeShown

\* Body fill: a running state does not keep submissions out for ever.
SubmitAgain == Filling!SubmitAgain

\* Generation: a running directory has a job that will end it.
DirectoryHasJob == Gen!DirectoryHasJob

\* Generation: nothing is shown that was assembled from an older directory.
DocumentOfOutline == Gen!DocumentCurrent

\* Generation: nobody edits the outline that a job is going to replace.
OutlineStill == Gen!OutlineStill

\* Generation: a running body ends.
FillSettles == Gen!FillSettles
=============================================================================
