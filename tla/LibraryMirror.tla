---------------------------- MODULE LibraryMirror ----------------------------
(***************************************************************************)
(* What the wiki of the technical material library promises: it mirrors    *)
(* the library with a delay, never shows what the library does not have,   *)
(* and never falls behind what it has shown.                               *)
(*   services/material_wiki_auto.py (module docstring)                     *)
(***************************************************************************)
EXTENDS Naturals

CONSTANT Changes

VARIABLES lib, wiki

Init == lib = {} /\ wiki = {}

Change ==
    /\ \E c \in Changes : lib' = lib \cup {c}
    /\ UNCHANGED wiki

Refresh ==
    /\ wiki' \in SUBSET lib
    /\ wiki \subseteq wiki'
    /\ UNCHANGED lib

Next == Change \/ Refresh

Spec == Init /\ [][Next]_<<lib, wiki>>
=============================================================================
