----------------------------- MODULE MCSettings -----------------------------
(***************************************************************************)
(* Instances of Settings: its constants are plain model values and numbers *)
(* in the configurations.                                                  *)
(***************************************************************************)
EXTENDS Settings
=============================================================================
