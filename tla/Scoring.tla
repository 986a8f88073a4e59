------------------------------ MODULE Scoring ------------------------------
(***************************************************************************)
(* pkg/qualifier: the priority score of an audited business, and how it    *)
(* orders gsi1.  Signals and weights are in hundredths, a score is in      *)
(* ten-thousandths, which is what the sort key's %.4f keeps of it; the     *)
(* rounding of float64 below that is left out.                             *)
(***************************************************************************)
EXTENDS Integers

\* What an audit and the Business row say: Lighthouse and audit score of 100,
\* contact details found, trade, and the confidence of the source.
Signal == [score : Int, performance : Int, contact : BOOLEAN, vertical : STRING,
           confidence : Int]

Weights == [auditScore : Nat, verticalFit : Nat, businessSize : Nat,
            contactConfidence : Nat, websiteAge : Nat]
TargetingProfile == [vertical : STRING, enabled : BOOLEAN, updated : Nat, weights : Weights]

\* Profile.Validate: the weights sum to 1, give or take a hundredth.
Validate(p) ==
  LET w == p.weights IN
  w.auditScore + w.verticalFit + w.businessSize + w.contactConfidence + w.websiteAge
    \in 99..101

Clamp(v, top) == IF v < 0 THEN 0 ELSE IF v > top THEN top ELSE v

\* A Lighthouse performance of 0 says that PageSpeed did not run.
WebsiteAge(s) ==
  IF s.performance = 0 THEN 0
  ELSE Clamp(Clamp(100 - s.performance, 100) + (IF s.contact THEN 0 ELSE 10), 100)

VerticalFit(s, profile) == IF s.vertical = profile.vertical THEN 100 ELSE 50

\* Variant: a good site counts as a need for one.
PriorityScoreUninverted(s, profile) ==
  LET w == profile.weights IN
  Clamp(w.auditScore * Clamp(s.score, 100) + w.verticalFit * VerticalFit(s, profile)
          + w.businessSize * Clamp(s.confidence, 100) + w.websiteAge * WebsiteAge(s),
        10000)

\* The qualifier passes no contact, whose term is then 0.
PriorityScore(s, profile) ==
  LET w == profile.weights IN
  Clamp(w.auditScore * Clamp(100 - s.score, 100) + w.verticalFit * VerticalFit(s, profile)
          + w.businessSize * Clamp(s.confidence, 100) + w.websiteAge * WebsiteAge(s),
        10000)

Qualifies(score, threshold) == score >= 100 * threshold

\* queue.EncodeGSI1SK: fixed width, so the order of the keys is the order of
\* the scores, and of the ids where those are equal.
SortsBelow(score1, id1, score2, id2) ==
  score1 < score2 \/ (score1 = score2 /\ id1 < id2)

\* The site of s needs replacing more than the one of t, by every signal that
\* was measured.
Needier(s, t) ==
  /\ s.vertical = t.vertical /\ s.confidence = t.confidence
  /\ s.score < t.score
  /\ s.performance # 0 /\ s.performance <= t.performance
  /\ s.contact => t.contact
=============================================================================
