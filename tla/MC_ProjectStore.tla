-------------------------- MODULE MC_ProjectStore --------------------------
(* Bounds for ProjectStore: see README.md. *)
EXTENDS ProjectStore, TLC

CONSTANTS a, b, c, d, f, g

\* All but c change the same field in one assignment; a is alone in the other.
Shared   == [w \in Writers |-> IF w = c THEN g ELSE f]
Apart    == [w \in Writers |-> IF w = a THEN f ELSE g]

\* Mixes in which nothing acknowledged may be lost: every write checked, field
\* writes that do not share a field, or one whole write.  Deletes may join.
SafeMixes ==
    {m \in [Writers -> Modes] :
        \/ \A w \in Writers : m[w] \in {"checked", "mutate", "delete"}
        \/ \A w \in Writers : m[w] = IF w \in {b, d} THEN "delete" ELSE "fields"
        \/ \A w \in Writers : m[w] = IF w = a THEN "whole" ELSE "delete"}

FieldMeetsCheck  == {a :> "fields" @@ b :> "mutate"}
DeleteMeetsCheck == {a :> "delete" @@ b :> "checked"}
=============================================================================
