----------------------------- MODULE MCDelivery -----------------------------
(***************************************************************************)
(* Instances of Delivery: every message of the instance carries the same   *)
(* event, the ones in Malformed do not decode.                             *)
(***************************************************************************)
EXTENDS Delivery, TLC

CONSTANT e1

MCEvents == {e1}
MCEventOf == [m \in Messages |-> e1]

\* Containers are interchangeable; so are well-formed deliveries of one event.
Symmetry ==
  Permutations(Workers) \cup Permutations(Messages \ Malformed)
=============================================================================
