----------------------------- MODULE MCPreview -----------------------------
(***************************************************************************)
(* Instances of Preview: renders and requests are interchangeable.         *)
(***************************************************************************)
EXTENDS Preview, TLC

Symmetry == Permutations(Jobs) \cup Permutations(Requests)
=============================================================================
