---------------------------- MODULE MC_OcrLease ----------------------------
(* Bounds for OcrLease: see README.md. *)
EXTENDS OcrLease, TLC

Symmetry == Permutations(Workers)
=============================================================================
