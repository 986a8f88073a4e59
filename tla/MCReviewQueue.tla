--------------------------- MODULE MCReviewQueue ---------------------------
(***************************************************************************)
(* Businesses whose scores rise with their number; the first one's site is *)
(* good enough, and nobody has a profile for the trade of the last one.    *)
(***************************************************************************)
EXTENDS ReviewQueue, TLC

Site(score, performance, contact) ==
  [score |-> score, performance |-> performance, contact |-> contact,
   vertical |-> "accountants", confidence |-> 60]

\* The first has no PageSpeed result, the third hides its contact details.
Sites ==
  (1 :> Site(90, 0, TRUE)) @@ (2 :> Site(40, 60, TRUE)) @@ (3 :> Site(30, 50, FALSE))
    @@ (4 :> Site(20, 50, FALSE)) @@ (5 :> [Site(20, 20, TRUE) EXCEPT !.vertical = "bakers"])
MCSignals == [b \in Businesses |-> Sites[b]]

MCWeights == [auditScore |-> 40, verticalFit |-> 20, businessSize |-> 10,
              contactConfidence |-> 10, websiteAge |-> 20]

\* The one that is enabled and newest decides.
Profile(vertical, enabled, updated, weights) ==
  [vertical |-> vertical, enabled |-> enabled, updated |-> updated, weights |-> weights]
MCProfiles ==
  {Profile("accountants", TRUE, 2, MCWeights),
   Profile("accountants", TRUE, 1, [MCWeights EXCEPT !.auditScore = 0, !.websiteAge = 60]),
   Profile("accountants", FALSE, 3, [MCWeights EXCEPT !.auditScore = 0, !.businessSize = 50]),
   Profile("plumbers", TRUE, 4, MCWeights)}

\* The profiles of the trade lie behind the first page of the scan.
MCFirstPage == {p \in MCProfiles : p.vertical = "plumbers"}

Symmetry == Permutations(Qualifiers) \cup Permutations(Promoters)
=============================================================================
