----------------------------- MODULE MCOutreach -----------------------------
(***************************************************************************)
(* Every draft but d0 is of one (contact, website) pair, as a website that *)
(* is approved twice gives: approvals race for one mailbox.  d0 has lost   *)
(* its contact.                                                            *)
(***************************************************************************)
EXTENDS Outreach, TLC

CONSTANTS d0, j1, a1

MCJourneys == {j1}
MCJourneyOf == [d \in Drafts |-> IF d = d0 THEN None ELSE j1]
MCAddresses == {a1}
MCAddressOf == [j \in MCJourneys |-> a1]

Symmetry ==
  Permutations(Drafts \ {d0}) \cup Permutations(Requests) \cup Permutations(Senders)
=============================================================================
