---------------------------- MODULE MCSpecReview ----------------------------
(***************************************************************************)
(* One spec with an edit that passes validation and one that does not,     *)
(* two requests at a time, a generator whose stage may be off, and a       *)
(* replay of the archive.                                                  *)
(***************************************************************************)
EXTENDS SpecReview
=============================================================================
