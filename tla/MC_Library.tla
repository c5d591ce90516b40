------------------------------ MODULE MC_Library ------------------------------
(***************************************************************************)
(* The safety of the material library's background work, at small bounds:  *)
(* FulltextExtract, MaterialCleaning and WikiChain.  The three share no    *)
(* state, so their behaviours are checked one beside the other: the        *)
(* initial state says which of them moves, under which faults, and the     *)
(* others keep still.                                                      *)
(***************************************************************************)
EXTENDS FulltextExtract, Sequences

VARIABLES
    scene,
    cVersion, cStatus, cleaned, cKey, cSrc, objs, warned, up, drop, cQueue, locks,
    cWpc, cJob, wkey, got, want, cMove,
    lib, wiki, snap, lost, req, rtok, pending, next, queue, wikiLock,
    wpc, job, back, wtok, built, claims

textVars  == <<row, files, texts, jobs, runners>>
cleanVars == <<cVersion, cStatus, cleaned, cKey, cSrc, objs, warned, up, drop,
               cQueue, locks, cWpc, cJob, wkey, got, want, cMove>>
wikiVars  == <<lib, wiki, snap, lost, req, rtok, pending, next, queue, wikiLock,
               wpc, job, back, wtok, built, claims>>
libraryVars == <<scene, textVars, cleanVars, wikiVars, faults>>

Refusals == {"upload", "db", "raise", "remove"}
Crashes  == {"upload", "queue", "api", "raise", "worker", "remove"}
Breaks   == {"crash", "build"}

\* The components come with their theorems, which FulltextExtract_proofs cites for
\* the scenes.
Refusing == INSTANCE MaterialCleaning_proofs WITH
    Files <- {"doc"}, MaxVersion <- 3, Movable <- {}, Faults <- Refusals,
    version <- cVersion, status <- cStatus, key <- cKey, src <- cSrc,
    queue <- cQueue, wpc <- cWpc, job <- cJob, move <- cMove

Crashing == INSTANCE MaterialCleaning_proofs WITH
    Files <- {"doc"}, MaxVersion <- 3, Movable <- {}, Faults <- Crashes,
    version <- cVersion, status <- cStatus, key <- cKey, src <- cSrc,
    queue <- cQueue, wpc <- cWpc, job <- cJob, move <- cMove

Moving == INSTANCE MaterialCleaning_proofs WITH
    Files <- {"doc"}, MaxVersion <- 2, Movable <- {"doc"}, Faults <- Crashes,
    version <- cVersion, status <- cStatus, key <- cKey, src <- cSrc,
    queue <- cQueue, wpc <- cWpc, job <- cJob, move <- cMove

Chain == INSTANCE WikiChain_proofs WITH
    Words <- {"w1", "w2"}, Plains <- {"p1"}, Trees <- {},
    Deep <- {}, Faults <- Breaks

Deep == INSTANCE WikiChain_proofs WITH
    Words <- {"w1", "w2"}, Plains <- {"p1"}, Trees <- {},
    Deep <- {"w1"}, Faults <- Breaks \cup {"raise", "parse", "index"}

ASSUME LibraryConstants ==
    /\ Refusing!CleaningConstants /\ Crashing!CleaningConstants
    /\ Moving!CleaningConstants
    /\ Chain!ChainConstants /\ Deep!ChainConstants

LibraryInit ==
    /\ scene \in {"text", "refusals", "crashes", "moves", "chain", "deep"}
    /\ Init
    /\ IF scene = "moves" THEN Moving!Init ELSE Crashing!Init
    /\ Chain!Init

Scene(s, step, still) == scene = s /\ step /\ UNCHANGED <<scene, still>>

LibraryNext ==
    \/ Scene("text", Next, <<cleanVars, wikiVars>>)
    \/ Scene("refusals", Refusing!Next, <<textVars, wikiVars>>)
    \/ Scene("crashes", Crashing!Next, <<textVars, wikiVars>>)
    \/ Scene("moves", Moving!Next, <<textVars, wikiVars>>)
    \/ Scene("chain", Chain!Next, <<textVars, cleanVars>>)
    \/ Scene("deep", Deep!Next, <<textVars, cleanVars>>)

LibrarySpec == LibraryInit /\ [][LibraryNext]_libraryVars
-----------------------------------------------------------------------------
(* The properties of the components, each stated where it is defined.      *)

\* Material cleaning: unless the database refuses a write, the object that a row
\* points to is kept, through crashes, overwrites and moves.
UsableArtifactKept ==
    scene # "refusals" => Crashing!UsableArtifactKept

\* Material cleaning: without crashes every object has an owner, or the log names it.
NoOrphan == scene = "refusals" => Refusing!NoOrphan

\* Wiki chain: a change the wiki lacks is not forgotten.
ChangeTracked == scene = "chain" => Chain!ChangeTracked

\* Wiki chain: with all its faults it implements LibraryMirror.
Mirror == INSTANCE LibraryMirror WITH Changes <- Deep!Changes

MirrorImplemented == Mirror!Spec
=============================================================================
