----------------------------- MODULE MCProfiles -----------------------------
(***************************************************************************)
(* The style tuner with one vertical, the targeting tuner with one, and    *)
(* two passes in the week; a proposal that adds a phrase, and one that     *)
(* swaps it for another.                                                   *)
(***************************************************************************)
EXTENDS Profiles

CONSTANTS style, targeting, g1, t1, x, y

MCOrder == (style :> <<g1>>) @@ (targeting :> <<t1>>)
MCProposals == {[add |-> {x}, remove |-> {}], [add |-> {y}, remove |-> {x}]}
MCSymmetry == Permutations(Requests)
=============================================================================
