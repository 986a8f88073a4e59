------------------------------ MODULE MCIntake ------------------------------
(***************************************************************************)
(* Two overlapping discover runs that may both store the one domain, and   *)
(* two audit containers whose clocks differ by a tick.                     *)
(***************************************************************************)
EXTENDS Intake, TLC

CONSTANTS c1, c2

MCSkew == [c \in Containers |-> IF c = c1 THEN 0 ELSE 1]

\* Allowed with a Crawl-delay below the floor, or disallowed.
MCRules == {[ok |-> TRUE, delay |-> 1], [ok |-> FALSE, delay |-> 0]}

MCSymmetry == Permutations(Runs) \cup Permutations(Ids)
=============================================================================
