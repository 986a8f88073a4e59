------------------------- MODULE ReviewQueueProofs -------------------------
(***************************************************************************)
(* Proofs about ReviewQueue: how far concurrent qualifiers overshoot the   *)
(* cap, that nobody is announced from the backlog or missed by the funnel, *)
(* whom a freed slot goes to and what becomes of an audit, for any         *)
(* businesses, profiles, cap, containers and failures.                     *)
(***************************************************************************)
EXTENDS ReviewQueue, FiniteSetTheorems, TLAPS

QualRow == [pc : {"row", "update", "publish"}, b : Businesses, verdict : Verdicts]
PromoRow == [pc : {"clear", "publish"}, b : Businesses]

LEMMA Rows ==
  ASSUME TypeOK
  PROVE  /\ biz \in [Businesses -> States]
         /\ index \in [Businesses -> States]
         /\ announced \in [Businesses -> Nat]
         /\ qual \in [Qualifiers -> QualRow \cup {NoQual}]
         /\ \A q \in Qualifiers : qual[q].pc # "idle" => qual[q] \in QualRow
         /\ \A q \in Qualifiers : qual[q] # NoQual => qual[q].pc # "idle"
         /\ promo \in [Promoters -> PromoRow \cup {NoPromo}]
         /\ \A p \in Promoters : promo[p].pc # "idle" => promo[p] \in PromoRow
         /\ \A p \in Promoters : promo[p] # NoPromo => promo[p].pc # "idle"
<1>1. /\ qual \in [Qualifiers -> QualRow \cup {NoQual}]
      /\ promo \in [Promoters -> PromoRow \cup {NoPromo}]
  BY DEF TypeOK, QualRow, PromoRow
<1>2. NoQual.pc = "idle" /\ NoPromo.pc = "idle"
  BY DEF NoQual, NoPromo
<1>3. /\ \A row \in QualRow : row.pc # "idle"
      /\ \A row \in PromoRow : row.pc # "idle"
  BY DEF QualRow, PromoRow
<1>4. /\ \A q \in Qualifiers : qual[q] \in QualRow \/ qual[q] = NoQual
      /\ \A p \in Promoters : promo[p] \in PromoRow \/ promo[p] = NoPromo
  BY <1>1
<1>5. /\ \A q \in Qualifiers : qual[q].pc # "idle" => qual[q] \in QualRow
      /\ \A q \in Qualifiers : qual[q] # NoQual => qual[q].pc # "idle"
  BY <1>2, <1>3, <1>4
<1>6. /\ \A p \in Promoters : promo[p].pc # "idle" => promo[p] \in PromoRow
      /\ \A p \in Promoters : promo[p] # NoPromo => promo[p].pc # "idle"
  BY <1>2, <1>3, <1>4
<1> QED BY <1>1, <1>5, <1>6 DEF TypeOK

-----------------------------------------------------------------------------
(* Types                                                                   *)

LEMMA StoredIs == Stored = 13
BY DEF Stored, FunnelStatuses

LEMMA InitTyped == Init => TypeOK
BY StoredIs, ReviewQueueAssumption DEF Init, TypeOK, NoRollup, States, ReviewQueueAssumption

\* A row of gsi1 changes, and the rollup takes note of it.
LEMMA ShowTyped ==
  ASSUME TypeOK, NEW b \in Businesses, NEW s \in States, Show(b, s)
  PROVE  /\ index' \in [Businesses -> States]
         /\ rollup' \in [next : 0..Stored, total : Nat, drift : Int]
<1>1. index' \in [Businesses -> States]
  BY DEF TypeOK, Show
<1>2. rollup \in [next : 0..Stored, total : Nat, drift : Int]
  BY DEF TypeOK
<1>3. \A u : Read(u) \in Int
  BY DEF Read
<1>4. rollup' = [rollup EXCEPT !.drift = @ + Read(index[b]) - Read(s)]
  BY DEF Show
<1>5. rollup' \in [next : 0..Stored, total : Nat, drift : Int]
  BY <1>2, <1>3, <1>4
<1> QED BY <1>1, <1>5

LEMMA SetStateTyped ==
  ASSUME TypeOK, NEW b \in Businesses, NEW s \in States, SetState(b, s)
  PROVE  /\ lags' = lags
         /\ biz' \in [Businesses -> States]
         /\ index' \in [Businesses -> States]
         /\ rollup' \in [next : 0..Stored, total : Nat, drift : Int]
BY ShowTyped DEF TypeOK, SetState

\* The rows move, or stay.
LEMMA TableTyped ==
  ASSUME TypeOK,
         \/ UNCHANGED tableVars
         \/ \E b \in Businesses, s \in States : SetState(b, s)
  PROVE  /\ lags' \in BOOLEAN
         /\ biz' \in [Businesses -> States]
         /\ index' \in [Businesses -> States]
         /\ rollup' \in [next : 0..Stored, total : Nat, drift : Int]
BY SetStateTyped DEF TypeOK, tableVars

\* What a qualifier does: its row, the table, the announcements.
LEMMA QualifierMoves ==
  ASSUME TypeOK, NEW q \in Qualifiers, QualStep(q) \/ FailQual(q)
  PROVE  /\ UNCHANGED tableVars \/ \E b \in Businesses, s \in States : SetState(b, s)
         /\ UNCHANGED <<promoVars, replies>>
         /\ qual' \in [Qualifiers -> QualRow \cup {NoQual}]
         /\ \A r \in Qualifiers : r # q => qual'[r] = qual[r]
         /\ announced' \in [Businesses -> Nat]
         /\ audits' \subseteq audits /\ quals' \subseteq Businesses
         /\ crashed' \subseteq Businesses /\ faults' \in 0..MaxFaults
<1> USE ReviewQueueAssumption DEF ReviewQueueAssumption
<1>0. qual \in [Qualifiers -> QualRow \cup {NoQual}]
  BY Rows
<1>1. CASE Decide(q)
  <2>1. PICK b \in audits : \E v \in Verdicts :
          qual' = [qual EXCEPT ![q] = [pc |-> "row", b |-> b, verdict |-> v]]
    BY <1>1 DEF Decide
  <2>2. PICK v \in Verdicts : qual' = [qual EXCEPT ![q] = [pc |-> "row", b |-> b, verdict |-> v]]
    BY <2>1
  <2>3. [pc |-> "row", b |-> b, verdict |-> v] \in QualRow
    BY DEF QualRow, TypeOK
  <2> QED BY <1>0, <1>1, <2>2, <2>3 DEF Decide, TypeOK
<1>2. CASE SkipBusiness(q)
  BY <1>0, <1>2 DEF SkipBusiness, TypeOK
<1>3. CASE PutQualification(q)
  <2>1. qual[q] \in QualRow
    BY <1>3, Rows DEF PutQualification
  <2>2. qual[q].b \in Businesses /\ [qual[q] EXCEPT !.pc = "update"] \in QualRow
    BY <2>1 DEF QualRow
  <2> QED BY <1>0, <1>3, <2>2 DEF PutQualification, TypeOK
<1>4. CASE UpdateBusiness(q)
  <2>1. qual[q] \in QualRow
    BY <1>4, Rows DEF UpdateBusiness
  <2>2. /\ qual[q].b \in Businesses /\ qual[q].verdict \in States
        /\ [qual[q] EXCEPT !.pc = "publish"] \in QualRow
    BY <2>1 DEF QualRow, Verdicts, States
  <2>3. UNCHANGED tableVars \/ SetState(qual[q].b, qual[q].verdict)
    BY <1>4 DEF UpdateBusiness
  <2> QED BY <1>0, <1>4, <2>2, <2>3 DEF UpdateBusiness, TypeOK
<1>5. CASE PublishVerdict(q)
  <2>1. PICK b \in Businesses : announced' = announced \/ announced' = [announced EXCEPT ![b] = @ + 1]
    <3>1. qual[q].b \in Businesses
      BY <1>5, Rows DEF PublishVerdict, QualRow
    <3> QED BY <1>5, <3>1 DEF PublishVerdict
  <2>2. announced \in [Businesses -> Nat]
    BY Rows
  <2>3. announced' \in [Businesses -> Nat]
    BY <2>1, <2>2
  <2> QED BY <1>0, <1>5, <2>3 DEF PublishVerdict, TypeOK
<1>6. CASE FailQual(q)
  <2>1. PICK b \in Businesses : crashed' = crashed \cup {b}
    <3>1. qual[q].b \in Businesses
      BY <1>6, Rows DEF FailQual, QualRow
    <3> QED BY <1>6, <3>1 DEF FailQual
  <2>2. /\ crashed \subseteq Businesses /\ faults \in 0..MaxFaults
        /\ quals \subseteq Businesses /\ announced \in [Businesses -> Nat]
    BY DEF TypeOK
  <2>3. faults < MaxFaults /\ faults' = faults + 1
    BY <1>6 DEF FailQual
  <2>4. crashed' \subseteq Businesses /\ faults' \in 0..MaxFaults
    BY <2>1, <2>2, <2>3
  <2>5. /\ qual' = [qual EXCEPT ![q] = NoQual]
        /\ UNCHANGED <<tableVars, promoVars, audits, quals, announced, replies>>
    BY <1>6 DEF FailQual
  <2>6. /\ qual' \in [Qualifiers -> QualRow \cup {NoQual}]
        /\ \A r \in Qualifiers : r # q => qual'[r] = qual[r]
    BY <1>0, <2>5
  <2> QED BY <2>2, <2>4, <2>5, <2>6
<1> QED BY <1>1, <1>2, <1>3, <1>4, <1>5, <1>6 DEF QualStep

\* What a promoter does.
LEMMA PromoterMoves ==
  ASSUME TypeOK, NEW p \in Promoters, PromoStep(p) \/ FailPromo(p)
  PROVE  /\ UNCHANGED tableVars \/ \E b \in Businesses, s \in States : SetState(b, s)
         /\ UNCHANGED <<qualVars, replies>>
         /\ promo' \in [Promoters -> PromoRow \cup {NoPromo}]
         /\ \A r \in Promoters : r # p => promo'[r] = promo[r]
         /\ announced' \in [Businesses -> Nat]
         /\ freed' \in Nat /\ promotions' \in Nat /\ faults' \in 0..MaxFaults
<1> USE ReviewQueueAssumption DEF ReviewQueueAssumption
<1>0. promo \in [Promoters -> PromoRow \cup {NoPromo}]
  BY Rows
<1>1. CASE FindTop(p)
  <2>1. freed' \in Nat
    BY <1>1 DEF FindTop, TypeOK
  <2>2. \A b \in TopBacklog : [pc |-> "clear", b |-> b] \in PromoRow
    BY DEF TopBacklog, Partition, PromoRow
  <2>3. /\ promo' \in [Promoters -> PromoRow \cup {NoPromo}]
        /\ \A r \in Promoters : r # p => promo'[r] = promo[r]
    BY <1>0, <1>1, <2>2 DEF FindTop
  <2> QED BY <1>1, <2>1, <2>3 DEF FindTop, TypeOK
<1>2. CASE ClearFlag(p)
  <2>1. promo[p] \in PromoRow
    BY <1>2, Rows DEF ClearFlag
  <2>2. promo[p].b \in Businesses /\ [promo[p] EXCEPT !.pc = "publish"] \in PromoRow
    BY <2>1 DEF PromoRow
  <2>3. "qualified" \in States
    BY DEF States
  <2>4. UNCHANGED tableVars \/ SetState(promo[p].b, "qualified")
    BY <1>2 DEF ClearFlag
  <2>5. promotions' \in Nat
    BY <1>2 DEF ClearFlag, TypeOK
  <2> QED BY <1>0, <1>2, <2>2, <2>3, <2>4, <2>5 DEF ClearFlag, TypeOK
<1>3. CASE PublishPromoted(p)
  <2>1. PICK b \in Businesses : announced' = [announced EXCEPT ![b] = @ + 1]
    <3>1. promo[p].b \in Businesses
      BY <1>3, Rows DEF PublishPromoted, PromoRow
    <3> QED BY <1>3, <3>1 DEF PublishPromoted
  <2>2. announced \in [Businesses -> Nat]
    BY Rows
  <2>3. announced' \in [Businesses -> Nat]
    BY <2>1, <2>2
  <2> QED BY <1>0, <1>3, <2>3 DEF PublishPromoted, TypeOK
<1>4. CASE FailPromo(p)
  BY <1>0, <1>4 DEF FailPromo, TypeOK
<1> QED BY <1>1, <1>2, <1>3, <1>4 DEF PromoStep

\* What the rollup does.
LEMMA RollupMoves ==
  ASSUME TypeOK, StartRollup \/ CountStatus \/ EndRollup
  PROVE  /\ UNCHANGED <<lags, biz, index, qualVars, promoVars, announced, replies, faults>>
         /\ rollup' \in [next : 0..Stored, total : Nat, drift : Int]
<1>1. CASE StartRollup
  BY <1>1, StoredIs DEF StartRollup, otherVars, NoRollup
<1>2. CASE CountStatus
  <2>1. rollup \in [next : 0..Stored, total : Nat, drift : Int]
    BY DEF TypeOK
  <2>2. StatusBreakdown(rollup.next) \in Nat
    <3>1. {b \in Businesses : PartitionOf(index[b]) = FunnelStatuses[rollup.next]}
            \subseteq Businesses
      OBVIOUS
    <3> QED BY <3>1, FS_Subset, FS_CardinalityType, ReviewQueueAssumption
            DEF StatusBreakdown, ReviewQueueAssumption
  <2>3. PICK k \in Following(rollup.next) :
          rollup' = [rollup EXCEPT !.total = @ + StatusBreakdown(rollup.next), !.next = k]
    BY <1>2 DEF CountStatus
  <2>4. k \in 0..Stored
    BY <2>1, StoredIs DEF Following
  <2>5. rollup' = [next |-> k, total |-> rollup.total + StatusBreakdown(rollup.next),
                   drift |-> rollup.drift]
    BY <2>1, <2>3
  <2>6. rollup' \in [next : 0..Stored, total : Nat, drift : Int]
    BY <2>1, <2>2, <2>4, <2>5
  <2> QED BY <1>2, <2>6 DEF CountStatus, otherVars
<1>3. CASE EndRollup
  BY <1>3, StoredIs DEF EndRollup, otherVars, NoRollup
<1> QED BY <1>1, <1>2, <1>3

\* A business that was announced is sold or turned down, or a reply says so.
LEMMA SaleMoves ==
  ASSUME NEW b \in Businesses, LeaveQueue(b) \/ SetStatus(b)
  PROVE  /\ announced[b] > 0
         /\ \E s \in States \ {"new", "qualified", "backlogged"} : SetState(b, s)
         /\ UNCHANGED <<qualVars, promo, announced, promotions, faults>>
<1>1. {"responded", "rejected_after_review"} \cup Later
        \subseteq States \ {"new", "qualified", "backlogged"}
  BY ReviewQueueAssumption DEF States, ReviewQueueAssumption
<1>2. CASE LeaveQueue(b)
  BY <1>1, <1>2 DEF LeaveQueue
<1>3. CASE SetStatus(b)
  BY <1>1, <1>3 DEF SetStatus, promoVars
<1> QED BY <1>2, <1>3

LEMMA StepTyped == TypeOK /\ [Next]_vars => TypeOK'
<1> SUFFICES ASSUME TypeOK, [Next]_vars PROVE TypeOK'
  OBVIOUS
<1>1. ASSUME NEW b \in Businesses, Propagate(b) PROVE TypeOK'
  <2>1. biz[b] \in States
    BY DEF TypeOK
  <2> QED BY <1>1, <2>1, ShowTyped DEF Propagate, TypeOK, qualVars, promoVars
<1>2. ASSUME NEW b \in Businesses, LeaveQueue(b) PROVE TypeOK'
  <2>1. PICK s \in Later : SetState(b, s)
    BY <1>2 DEF LeaveQueue
  <2>2. s \in States
    BY DEF States
  <2> QED BY <1>2, <2>1, <2>2, SetStateTyped DEF LeaveQueue, TypeOK, qualVars
<1>2a. ASSUME NEW b \in Businesses, SetStatus(b) PROVE TypeOK'
  <2>1. PICK s \in {"responded", "rejected_after_review"} : SetState(b, s)
    BY <1>2a DEF SetStatus
  <2>2. s \in States
    BY DEF States
  <2>3. replies' \in 0..MaxReplies
    BY <1>2a, ReviewQueueAssumption DEF SetStatus, TypeOK, ReviewQueueAssumption
  <2> QED BY <1>2a, <2>1, <2>2, <2>3, SetStateTyped DEF SetStatus, TypeOK, qualVars, promoVars
<1>3. ASSUME NEW q \in Qualifiers, QualStep(q) \/ FailQual(q) PROVE TypeOK'
  <2>1. audits' \subseteq Businesses
    BY <1>3, QualifierMoves DEF TypeOK
  <2> QED BY <1>3, <2>1, QualifierMoves, TableTyped DEF TypeOK, QualRow, promoVars
<1>4. ASSUME NEW p \in Promoters, PromoStep(p) \/ FailPromo(p) PROVE TypeOK'
  BY <1>4, PromoterMoves, TableTyped DEF TypeOK, PromoRow, qualVars
<1>5. CASE StartRollup \/ CountStatus \/ EndRollup
  BY <1>5, RollupMoves DEF TypeOK, qualVars, promoVars
<1>6. CASE UNCHANGED vars
  BY <1>6 DEF vars, tableVars, qualVars, promoVars, TypeOK
<1> QED BY <1>1, <1>2, <1>2a, <1>3, <1>4, <1>5, <1>6 DEF Next

-----------------------------------------------------------------------------
(* Nobody is announced from the backlog                                    *)

\* The verdict on b is still to be written to its row.
Undecided(b) ==
  b \in audits \/ \E q \in Qualifiers : qual[q].pc \in {"row", "update"} /\ qual[q].b = b

Admission ==
  /\ \A b \in Businesses :
       Undecided(b) => biz[b] = "new" /\ index[b] = "new" /\ announced[b] = 0
  /\ \A q \in Qualifiers : qual[q].pc # "idle" => qual[q].b \notin audits
  /\ \A q, r \in Qualifiers :
       (qual[q].pc # "idle" /\ qual[r].pc # "idle" /\ qual[q].b = qual[r].b) => q = r
  /\ \A q \in Qualifiers : qual[q].pc \in {"update", "publish"} => qual[q].b \in quals
  /\ \A q \in Qualifiers :
       (qual[q].pc = "publish" /\ qual[q].verdict = "qualified") => biz[qual[q].b] # "backlogged"
  /\ \A p \in Promoters : promo[p].pc # "idle" => ~Undecided(promo[p].b)
  /\ \A p \in Promoters :
       promo[p].pc = "publish" => promo[p].b \in quals /\ biz[promo[p].b] # "backlogged"
  /\ AnnouncedIsAdmitted

LEMMA InitAdmission == Init => Admission
BY DEF Init, Admission, AnnouncedIsAdmitted, Undecided, NoQual, NoPromo

\* What a write of a row leaves alone.
LEMMA SetStateElsewhere ==
  ASSUME TypeOK, NEW b \in Businesses, NEW s \in States, SetState(b, s)
  PROVE  /\ biz'[b] = s
         /\ \A c \in Businesses : c # b => biz'[c] = biz[c]
         /\ \A c \in Businesses : c # b => index'[c] = index[c]
         /\ index'[b] \in {index[b], s}
<1>1. biz \in [Businesses -> States] /\ index \in [Businesses -> States]
  BY DEF TypeOK
<1> QED BY <1>1 DEF SetState, Show

\* A step that takes nobody new into the backlog, and announces nobody.
LEMMA AdmissionKept ==
  ASSUME TypeOK, Admission,
         UNCHANGED <<audits, quals, qual, announced>>,
         \A p \in Promoters : promo'[p].pc # "idle" => ~Undecided(promo'[p].b),
         \A p \in Promoters : promo'[p].pc = "publish" =>
           promo'[p].b \in quals /\ biz'[promo'[p].b] # "backlogged",
         \A b \in Businesses : Undecided(b) => biz'[b] = "new" /\ index'[b] = "new",
         \A b \in Businesses : biz'[b] = "backlogged" => biz[b] = "backlogged"
  PROVE  Admission'
<1>1. \A b \in Businesses : Undecided(b)' <=> Undecided(b)
  BY DEF Undecided
<1>2. \A q \in Qualifiers : qual[q].pc = "publish" => qual[q].b \in Businesses
  BY Rows DEF QualRow
<1>3. \A p \in Promoters : promo'[p].pc # "idle" => ~(Undecided(promo[p].b)')
  BY DEF Undecided
<1> QED BY <1>1, <1>2 DEF Admission, AnnouncedIsAdmitted, Undecided

LEMMA DecideAdmission ==
  ASSUME TypeOK, TypeOK', Admission, NEW q \in Qualifiers, Decide(q)
  PROVE  Admission'
<1>0. qual \in [Qualifiers -> QualRow \cup {NoQual}]
  BY Rows
<1>1. PICK b \in audits : \E v \in Verdicts :
        audits' = audits \ {b} /\ qual' = [qual EXCEPT ![q] = [pc |-> "row", b |-> b, verdict |-> v]]
  BY DEF Decide
<1>2. PICK v \in Verdicts :
        audits' = audits \ {b} /\ qual' = [qual EXCEPT ![q] = [pc |-> "row", b |-> b, verdict |-> v]]
  BY <1>1
<1>3. /\ qual'[q].pc = "row" /\ qual'[q].b = b
      /\ \A r \in Qualifiers : r # q => qual'[r] = qual[r]
      /\ qual[q].pc = "idle"
  BY <1>0, <1>2 DEF Decide, NoQual
<1>4. UNCHANGED <<biz, index, quals, promo, announced>> /\ b \in Businesses
  BY DEF Decide, tableVars, promoVars, TypeOK
<1>5. \A c : Undecided(c)' => Undecided(c)
  BY <1>2, <1>3 DEF Undecided
<1> QED BY <1>2, <1>3, <1>4, <1>5 DEF Admission, AnnouncedIsAdmitted

LEMMA QualAdmission ==
  ASSUME TypeOK, TypeOK', Admission, NEW q \in Qualifiers, QualStep(q) \/ FailQual(q)
  PROVE  Admission'
<1>0. /\ \A r \in Qualifiers : r # q => qual'[r] = qual[r]
      /\ qual \in [Qualifiers -> QualRow \cup {NoQual}] /\ UNCHANGED promo
      /\ NoQual.pc = "idle"
  BY QualifierMoves, Rows DEF promoVars, NoQual
<1>1. CASE SkipBusiness(q)
  <2>1. UNCHANGED <<biz, index, quals, qual, announced>> /\ audits' \subseteq audits
    BY <1>1 DEF SkipBusiness, tableVars
  <2>2. \A c : Undecided(c)' => Undecided(c)
    BY <2>1 DEF Undecided
  <2> QED BY <1>0, <2>1, <2>2 DEF Admission, AnnouncedIsAdmitted
<1>2. CASE PutQualification(q)
  <2>1. qual[q] \in QualRow /\ qual[q].pc = "row"
    BY <1>2, Rows DEF PutQualification
  <2>2. qual'[q] = [qual[q] EXCEPT !.pc = "update"]
    BY <1>0, <1>2 DEF PutQualification
  <2>3. qual'[q].pc = "update" /\ qual'[q].b = qual[q].b
    BY <2>1, <2>2 DEF QualRow
  <2>4. quals' = quals \cup {qual[q].b} /\ UNCHANGED <<biz, index, audits, announced>>
    BY <1>2 DEF PutQualification, tableVars
  <2>5. \A c : Undecided(c)' => Undecided(c)
    BY <1>0, <2>1, <2>3, <2>4 DEF Undecided
  <2> QED BY <1>0, <2>1, <2>3, <2>4, <2>5 DEF Admission, AnnouncedIsAdmitted
<1>3. CASE UpdateBusiness(q)
  <2>1. qual[q] \in QualRow /\ qual[q].pc = "update"
    BY <1>3, Rows DEF UpdateBusiness
  <2>2. qual'[q] = [qual[q] EXCEPT !.pc = "publish"]
    BY <1>0, <1>3 DEF UpdateBusiness
  <2>3. /\ qual'[q].pc = "publish" /\ qual'[q].b = qual[q].b /\ qual'[q].verdict = qual[q].verdict
        /\ qual[q].b \in Businesses /\ qual[q].verdict \in States
    BY <2>1, <2>2 DEF QualRow, Verdicts, States
  <2>4. UNCHANGED <<audits, quals, announced>>
    BY <1>3 DEF UpdateBusiness
  <2>5. UNCHANGED <<biz, index>> \/ SetState(qual[q].b, qual[q].verdict)
    BY <1>3 DEF UpdateBusiness, tableVars
  <2>6. /\ \A c \in Businesses : c # qual[q].b => biz'[c] = biz[c] /\ index'[c] = index[c]
        /\ biz'[qual[q].b] \in {biz[qual[q].b], qual[q].verdict}
    BY <2>3, <2>5, SetStateElsewhere
  <2>7. /\ Undecided(qual[q].b)
        /\ \A c : Undecided(c)' => Undecided(c) /\ c # qual[q].b
    BY <1>0, <2>1, <2>3, <2>4 DEF Undecided, Admission
  <2>8. biz[qual[q].b] = "new" /\ announced[qual[q].b] = 0
    BY <2>3, <2>7 DEF Admission
  <2>9. \A r \in Qualifiers : (r # q /\ qual[r].pc # "idle") => qual[r].b # qual[q].b
    BY <2>1 DEF Admission
  <2>10. \A p \in Promoters : promo[p].pc # "idle" => promo[p].b # qual[q].b
    BY <2>7 DEF Admission
  <2>11. /\ \A r \in Qualifiers : qual[r].pc # "idle" => qual[r].b \in Businesses
         /\ \A p \in Promoters : promo[p].pc # "idle" => promo[p].b \in Businesses
    BY Rows DEF QualRow, PromoRow
  <2>12. \A b \in Businesses :
           Undecided(b)' => biz'[b] = "new" /\ index'[b] = "new" /\ announced'[b] = 0
    BY <2>4, <2>6, <2>7 DEF Admission
  <2>13. /\ \A r \in Qualifiers : qual'[r].pc # "idle" => qual[r].pc # "idle"
         /\ \A r \in Qualifiers : qual'[r].b = qual[r].b /\ qual'[r].verdict = qual[r].verdict
         /\ \A r \in Qualifiers : qual'[r].pc \in {"update", "publish"} =>
              qual[r].pc \in {"update", "publish"}
    BY <1>0, <2>1, <2>3
  <2>14. \A r \in Qualifiers :
          (qual'[r].pc = "publish" /\ qual'[r].verdict = "qualified") => biz'[qual'[r].b] # "backlogged"
    BY <1>0, <2>3, <2>6, <2>8, <2>9, <2>11 DEF Admission
  <2>15. \A p \in Promoters :
           promo'[p].pc = "publish" => promo'[p].b \in quals' /\ biz'[promo'[p].b] # "backlogged"
    BY <1>0, <2>4, <2>6, <2>10, <2>11 DEF Admission
  <2>16. AnnouncedIsAdmitted'
    BY <2>4, <2>6, <2>8 DEF Admission, AnnouncedIsAdmitted
  <2> QED BY <1>0, <2>4, <2>7, <2>12, <2>13, <2>14, <2>15, <2>16 DEF Admission
<1>4. CASE PublishVerdict(q)
  <2>1. qual[q] \in QualRow /\ qual[q].pc = "publish"
    BY <1>4, Rows DEF PublishVerdict
  <2>2. qual'[q].pc = "idle" /\ UNCHANGED <<biz, index, audits, quals>>
    BY <1>0, <1>4 DEF PublishVerdict, tableVars
  <2>3. qual[q].b \in Businesses /\ qual[q].verdict \in Verdicts
    BY <2>1 DEF QualRow
  <2>4. /\ \A c : Undecided(c)' => Undecided(c)
        /\ ~Undecided(qual[q].b)
    BY <1>0, <2>1, <2>2 DEF Undecided, Admission
  <2>5. announced \in [Businesses -> Nat]
    BY Rows
  <2>6. /\ \A c \in Businesses : c # qual[q].b => announced'[c] = announced[c]
        /\ qual[q].verdict # "qualified" => announced' = announced
    BY <1>4, <2>5 DEF PublishVerdict
  <2>7. AnnouncedIsAdmitted'
    BY <2>1, <2>2, <2>3, <2>6 DEF Admission, AnnouncedIsAdmitted
  <2> QED BY <1>0, <2>2, <2>4, <2>6, <2>7 DEF Admission
<1>5. CASE FailQual(q)
  <2>1. qual'[q].pc = "idle" /\ UNCHANGED <<biz, index, audits, quals, announced>>
    BY <1>0, <1>5 DEF FailQual, tableVars
  <2>2. \A c : Undecided(c)' => Undecided(c)
    BY <1>0, <2>1 DEF Undecided
  <2> QED BY <1>0, <2>1, <2>2 DEF Admission, AnnouncedIsAdmitted
<1> QED BY <1>1, <1>2, <1>3, <1>4, <1>5, DecideAdmission DEF QualStep

\* A promoter picks a business the index shows as parked, so its verdict is
\* written; clearing the flag takes it out of the backlog.
LEMMA PromoAdmission ==
  ASSUME TypeOK, Admission, NEW p \in Promoters, PromoStep(p) \/ FailPromo(p)
  PROVE  Admission'
<1>0. /\ \A o \in Promoters : o # p => promo'[o] = promo[o]
      /\ promo \in [Promoters -> PromoRow \cup {NoPromo}]
      /\ UNCHANGED <<audits, quals, qual>>
      /\ NoPromo.pc = "idle"
  BY PromoterMoves, Rows DEF qualVars, NoPromo
<1>1. CASE FindTop(p)
  <2>1. UNCHANGED <<biz, index, announced>> /\ promo[p].pc = "idle"
    BY <1>0, <1>1 DEF FindTop, tableVars
  <2>2. promo'[p] = promo[p] \/ (promo'[p].pc = "clear" /\ promo'[p].b \in TopBacklog)
    BY <1>0, <1>1 DEF FindTop
  <2>3. \A b \in TopBacklog : index[b] = "backlogged" /\ b \in Businesses
    BY DEF TopBacklog, Partition
  <2>4. \A b \in TopBacklog : ~Undecided(b)
    BY <2>3 DEF Admission
  <2>5. \A o \in Promoters : promo'[o].pc # "idle" => ~Undecided(promo'[o].b)
    BY <1>0, <2>1, <2>2, <2>4 DEF Admission
  <2>6. \A o \in Promoters : promo'[o].pc = "publish" =>
          promo'[o].b \in quals /\ biz'[promo'[o].b] # "backlogged"
    BY <1>0, <2>1, <2>2 DEF Admission
  <2>7. \A b \in Businesses : Undecided(b) => biz'[b] = "new" /\ index'[b] = "new"
    BY <2>1 DEF Admission
  <2> QED BY <1>0, <2>1, <2>5, <2>6, <2>7, AdmissionKept
<1>2. CASE ClearFlag(p)
  <2> DEFINE b == promo[p].b
  <2>1. promo[p] \in PromoRow /\ promo[p].pc = "clear" /\ b \in Businesses /\ b \in quals
    BY <1>2, Rows DEF ClearFlag, PromoRow
  <2>2. promo'[p] = [promo[p] EXCEPT !.pc = "publish"]
    BY <1>0, <1>2 DEF ClearFlag
  <2>3. promo'[p].pc = "publish" /\ promo'[p].b = promo[p].b
    BY <2>1, <2>2 DEF PromoRow
  <2>4. announced' = announced
    BY <1>2 DEF ClearFlag
  <2>5. /\ \A c \in Businesses : c # b => biz'[c] = biz[c] /\ index'[c] = index[c]
        /\ biz'[b] # "backlogged"
    <3>1. CASE biz[b] = "backlogged"
      <4>1. SetState(b, "qualified") /\ "qualified" \in States
        BY <1>2, <3>1 DEF ClearFlag, States
      <4> HIDE DEF b
      <4> QED BY <2>1, <4>1, SetStateElsewhere
    <3>2. CASE biz[b] # "backlogged"
      BY <1>2, <3>2 DEF ClearFlag, tableVars
    <3> QED BY <3>1, <3>2
  <2>6. ~Undecided(b)
    BY <2>1 DEF Admission
  <2>7. \A o \in Promoters : promo'[o].pc # "idle" => ~Undecided(promo'[o].b)
    BY <1>0, <2>3, <2>6 DEF Admission
  <2>8. \A o \in Promoters : promo[o].pc # "idle" => promo[o].b \in Businesses
    BY Rows DEF PromoRow
  <2>9. \A o \in Promoters : promo'[o].pc = "publish" =>
          promo'[o].b \in quals /\ biz'[promo'[o].b] # "backlogged"
    BY <1>0, <2>1, <2>3, <2>5, <2>8 DEF Admission
  <2>10. \A c \in Businesses : Undecided(c) => biz'[c] = "new" /\ index'[c] = "new"
    BY <2>5, <2>6 DEF Admission
  <2>11. \A c \in Businesses : biz'[c] = "backlogged" => biz[c] = "backlogged"
    BY <2>5
  <2> HIDE DEF b
  <2> QED BY <1>0, <2>4, <2>7, <2>9, <2>10, <2>11, AdmissionKept
<1>3. CASE PublishPromoted(p)
  <2>1. promo[p] \in PromoRow /\ promo[p].pc = "publish" /\ promo[p].b \in Businesses
    BY <1>3, Rows DEF PublishPromoted, PromoRow
  <2>2. promo'[p].pc = "idle" /\ UNCHANGED <<biz, index>>
    BY <1>0, <1>3 DEF PublishPromoted, tableVars
  <2>3. announced \in [Businesses -> Nat]
    BY Rows
  <2>4. \A c \in Businesses : c # promo[p].b => announced'[c] = announced[c]
    BY <1>3, <2>3 DEF PublishPromoted
  <2>5. \A c : Undecided(c)' <=> Undecided(c)
    BY <1>0 DEF Undecided
  <2>6. ~Undecided(promo[p].b)
    BY <2>1 DEF Admission
  <2>7. AnnouncedIsAdmitted'
    BY <1>0, <2>1, <2>2, <2>4 DEF Admission, AnnouncedIsAdmitted
  <2>8. \A c \in Businesses :
          Undecided(c)' => biz'[c] = "new" /\ index'[c] = "new" /\ announced'[c] = 0
    BY <2>2, <2>4, <2>5, <2>6 DEF Admission
  <2>9. \A o \in Promoters : promo'[o].pc # "idle" => promo'[o] = promo[o] /\ ~(Undecided(promo[o].b)')
    BY <1>0, <2>2, <2>5 DEF Admission, Undecided
  <2> QED BY <1>0, <2>2, <2>7, <2>8, <2>9 DEF Admission, Undecided
<1>4. CASE FailPromo(p)
  <2>1. promo'[p].pc = "idle" /\ UNCHANGED <<biz, index, announced>>
    BY <1>0, <1>4 DEF FailPromo, tableVars
  <2>2. \A o \in Promoters : promo'[o].pc # "idle" => ~Undecided(promo'[o].b)
    BY <1>0, <2>1 DEF Admission
  <2>3. \A o \in Promoters : promo'[o].pc = "publish" =>
          promo'[o].b \in quals /\ biz'[promo'[o].b] # "backlogged"
    BY <1>0, <2>1 DEF Admission
  <2>4. \A b \in Businesses : Undecided(b) => biz'[b] = "new" /\ index'[b] = "new"
    BY <2>1 DEF Admission
  <2> QED BY <1>0, <2>1, <2>2, <2>3, <2>4, AdmissionKept
<1> QED BY <1>1, <1>2, <1>3, <1>4 DEF PromoStep

LEMMA StepAdmission == TypeOK /\ TypeOK' /\ Admission /\ [Next]_vars => Admission'
<1> SUFFICES ASSUME TypeOK, TypeOK', Admission, [Next]_vars PROVE Admission'
  OBVIOUS
<1>0. \A p \in Promoters : promo[p].pc # "idle" => promo[p].b \in Businesses
  BY Rows DEF PromoRow
<1>1. ASSUME NEW b \in Businesses, Propagate(b) \/ LeaveQueue(b) \/ SetStatus(b) PROVE Admission'
  <2>1. UNCHANGED <<audits, quals, qual, announced, promo>>
    BY <1>1, SaleMoves DEF Propagate, qualVars, promoVars
  <2>2. \A c \in Businesses : biz'[c] = "backlogged" => biz[c] = "backlogged"
    <3>1. CASE Propagate(b)
      BY <3>1 DEF Propagate
    <3>2. CASE LeaveQueue(b) \/ SetStatus(b)
      BY <3>2, SaleMoves, SetStateElsewhere
    <3> QED BY <1>1, <3>1, <3>2
  <2>3. \A c \in Businesses : Undecided(c) => biz'[c] = "new" /\ index'[c] = "new"
    <3>1. CASE Propagate(b)
      <4>1. index' = [index EXCEPT ![b] = biz[b]] /\ biz' = biz
        BY <3>1 DEF Propagate, Show
      <4>2. index \in [Businesses -> States]
        BY Rows
      <4> QED BY <4>1, <4>2 DEF Admission
    <3>2. CASE LeaveQueue(b) \/ SetStatus(b)
      <4>1. ~Undecided(b)
        BY <3>2, SaleMoves DEF Admission
      <4>2. \A c \in Businesses : c # b => biz'[c] = biz[c] /\ index'[c] = index[c]
        BY <3>2, SaleMoves, SetStateElsewhere
      <4> QED BY <4>1, <4>2 DEF Admission
    <3> QED BY <1>1, <3>1, <3>2
  <2>4. /\ \A p \in Promoters : promo'[p].pc # "idle" => ~Undecided(promo'[p].b)
        /\ \A p \in Promoters : promo'[p].pc = "publish" =>
             promo'[p].b \in quals /\ biz'[promo'[p].b] # "backlogged"
    BY <1>0, <2>1, <2>2 DEF Admission
  <2> QED BY <2>1, <2>2, <2>3, <2>4, AdmissionKept
<1>2. ASSUME NEW q \in Qualifiers, QualStep(q) \/ FailQual(q) PROVE Admission'
  BY <1>2, QualAdmission
<1>3. ASSUME NEW p \in Promoters, PromoStep(p) \/ FailPromo(p) PROVE Admission'
  BY <1>3, PromoAdmission
<1>4. CASE StartRollup \/ CountStatus \/ EndRollup \/ UNCHANGED vars
  <2>1. UNCHANGED <<biz, index, audits, quals, qual, promo, announced>>
    BY <1>4, RollupMoves DEF vars, tableVars, qualVars, promoVars
  <2> QED BY <2>1 DEF Admission, AnnouncedIsAdmitted, Undecided
<1> QED BY <1>1, <1>2, <1>3, <1>4 DEF Next

-----------------------------------------------------------------------------
(* How far the cap is overshot                                             *)

\* An index that does not trail shows the rows, and the bound is inductive.
Overshoot ==
  /\ ~lags => index = biz
  /\ OvershootBounded

LEMMA InitOvershoot == Init => Overshoot
<1> SUFFICES ASSUME Init PROVE Overshoot
  OBVIOUS
<1>1. Active(biz) = {} /\ Admitting = {}
  BY DEF Init, Active, Admitting, NoQual
<1>2. Cardinality({}) = 0 /\ Cardinality(Qualifiers) \in Nat
  BY FS_EmptySet, FS_CardinalityType, ReviewQueueAssumption DEF ReviewQueueAssumption
<1>3. Cardinality(Active(biz)) = 0 /\ Cardinality(Admitting) = 0
  BY <1>1, <1>2
<1>4. Cap \in Nat /\ promotions = 0 /\ index = biz
  BY ReviewQueueAssumption DEF Init, ReviewQueueAssumption
<1> QED BY <1>2, <1>3, <1>4 DEF Overshoot, OvershootBounded

\* Subsets of finite sets, and sets that win or lose one member.
LEMMA Gains ==
  ASSUME NEW S, NEW T, NEW x, IsFiniteSet(S), T \subseteq S \cup {x}
  PROVE  Cardinality(T) <= Cardinality(S) + 1
<1>0. Cardinality(S) \in Nat
  BY FS_CardinalityType
<1>1. CASE x \in S
  <2>1. IsFiniteSet(T) /\ Cardinality(T) <= Cardinality(S)
    BY <1>1, FS_Subset
  <2> QED BY <1>0, <2>1, FS_CardinalityType
<1>2. CASE x \notin S
  <2>1. IsFiniteSet(S \cup {x}) /\ Cardinality(S \cup {x}) = Cardinality(S) + 1
    BY <1>2, FS_AddElement
  <2> QED BY <2>1, FS_Subset
<1> QED BY <1>1, <1>2

LEMMA Loses ==
  ASSUME NEW S, NEW T, NEW x \in S, IsFiniteSet(S), T \subseteq S \ {x}
  PROVE  Cardinality(T) <= Cardinality(S) - 1
<1>1. IsFiniteSet(S \ {x}) /\ Cardinality(S \ {x}) = Cardinality(S) - 1
  BY FS_RemoveElement
<1> QED BY <1>1, FS_Subset

\* Both counts are of finite sets, now and after a step.
LEMMA Counts ==
  /\ \A view : IsFiniteSet(Active(view)) /\ Cardinality(Active(view)) \in Nat
  /\ IsFiniteSet(Admitting) /\ Cardinality(Admitting) \in Nat
  /\ Cardinality(Admitting) <= Cardinality(Qualifiers) /\ Cardinality(Qualifiers) \in Nat
  /\ IsFiniteSet(Admitting') /\ Cardinality(Admitting') \in Nat
  /\ Cardinality(Admitting') <= Cardinality(Qualifiers)
<1>1. IsFiniteSet(Businesses) /\ IsFiniteSet(Qualifiers)
  BY ReviewQueueAssumption DEF ReviewQueueAssumption
<1>2. \A view : Active(view) \subseteq Businesses
  BY DEF Active
<1>3. Admitting \subseteq Qualifiers /\ Admitting' \subseteq Qualifiers
  BY DEF Admitting
<1>4. \A view : IsFiniteSet(Active(view)) /\ Cardinality(Active(view)) \in Nat
  BY <1>1, <1>2, FS_Subset, FS_CardinalityType
<1> QED BY <1>1, <1>3, <1>4, FS_Subset, FS_CardinalityType

\* No more admitted businesses, and no more being admitted.
LEMMA OvershootKept ==
  ASSUME TypeOK, TypeOK', Overshoot, lags' = lags,
         ~lags => index' = biz',
         Active(biz') \subseteq Active(biz), Admitting' \subseteq Admitting,
         promotions' >= promotions
  PROVE  Overshoot'
<1>1. Cardinality(Active(biz')) <= Cardinality(Active(biz))
  BY Counts, FS_Subset
<1>2. Cardinality(Admitting') <= Cardinality(Admitting)
  BY Counts, FS_Subset
<1>3. Cardinality(Active(biz')) \in Nat /\ promotions \in Nat /\ promotions' \in Nat /\ Cap \in Nat
  BY Counts, ReviewQueueAssumption DEF TypeOK, ReviewQueueAssumption
<1> QED BY <1>1, <1>2, <1>3, Counts DEF Overshoot, OvershootBounded

LEMMA QualOvershoot ==
  ASSUME TypeOK, TypeOK', Overshoot, NEW q \in Qualifiers, QualStep(q) \/ FailQual(q)
  PROVE  Overshoot'
<1>0. /\ \A r \in Qualifiers : r # q => qual'[r] = qual[r]
      /\ qual \in [Qualifiers -> QualRow \cup {NoQual}]
      /\ promotions' = promotions /\ promotions \in Nat /\ Cap \in Nat
      /\ NoQual.pc = "idle"
  BY QualifierMoves, Rows, ReviewQueueAssumption
     DEF promoVars, NoQual, TypeOK, ReviewQueueAssumption
<1>1. CASE Decide(q)
  <2>1. PICK b \in audits : \E v \in Verdicts :
          /\ v = "rejected" <=> b \notin Fit
          /\ v = "backlogged" <=> b \in Fit /\ Cap > 0 /\ Cardinality(Active(index)) >= Cap
          /\ qual' = [qual EXCEPT ![q] = [pc |-> "row", b |-> b, verdict |-> v]]
    BY <1>1 DEF Decide
  <2>2. PICK v \in Verdicts :
          /\ v = "rejected" <=> b \notin Fit
          /\ v = "backlogged" <=> b \in Fit /\ Cap > 0 /\ Cardinality(Active(index)) >= Cap
          /\ qual' = [qual EXCEPT ![q] = [pc |-> "row", b |-> b, verdict |-> v]]
    BY <2>1
  <2>3. UNCHANGED <<lags, biz, index>>
    BY <1>1 DEF Decide, tableVars
  <2>4. qual'[q].verdict = v
    BY <1>0, <2>2
  <2>5. CASE v = "qualified"
    <3>1. Cap > 0 => ~(Cardinality(Active(index)) >= Cap)
      BY <2>2, <2>5
    <3>2. Cardinality(Active(index)) \in Nat
      BY Counts
    <3>3. Cap > 0 /\ ~lags => Cardinality(Active(biz)) <= Cap - 1
      BY <1>0, <3>1, <3>2 DEF Overshoot
    <3>4. Cardinality(Active(biz)) \in Nat
      BY Counts
    <3>5. /\ Cardinality(Admitting') <= Cardinality(Qualifiers)
          /\ Cardinality(Admitting') \in Nat /\ Cardinality(Qualifiers) \in Nat
      BY Counts
    <3>6. Cap > 0 /\ ~lags =>
            Cardinality(Active(biz)) + Cardinality(Admitting')
              <= Cap + Cardinality(Qualifiers) - 1 + promotions
      BY <1>0, <3>3, <3>4, <3>5
    <3> QED BY <1>0, <2>3, <3>6 DEF Overshoot, OvershootBounded
  <2>6. CASE v # "qualified"
    <3>1. Admitting' \subseteq Admitting
      BY <1>0, <2>4, <2>6 DEF Admitting
    <3> QED BY <1>0, <2>3, <3>1, OvershootKept DEF Overshoot
  <2> QED BY <2>5, <2>6
<1>2. CASE SkipBusiness(q)
  BY <1>0, <1>2, OvershootKept DEF SkipBusiness, tableVars, Overshoot, Admitting
<1>3. CASE PutQualification(q)
  <2>1. qual[q] \in QualRow /\ qual[q].pc = "row"
    BY <1>3, Rows DEF PutQualification
  <2>2. qual'[q] = [qual[q] EXCEPT !.pc = "update"]
    BY <1>0, <1>3 DEF PutQualification
  <2>3. qual'[q].verdict = qual[q].verdict
    BY <2>1, <2>2 DEF QualRow
  <2>4. Admitting' \subseteq Admitting
    BY <1>0, <2>1, <2>3 DEF Admitting
  <2> QED BY <1>0, <1>3, <2>4, OvershootKept DEF PutQualification, tableVars, Overshoot
<1>4. CASE UpdateBusiness(q)
  <2>1. qual[q] \in QualRow /\ qual[q].pc = "update"
    BY <1>4, Rows DEF UpdateBusiness
  <2>2. /\ qual[q].b \in Businesses /\ qual[q].verdict \in States
        /\ qual[q].verdict \in Verdicts
    BY <2>1 DEF QualRow, Verdicts, States
  <2>3. qual'[q].pc = "publish"
    BY <1>0, <1>4, <2>1 DEF UpdateBusiness, QualRow
  <2>4. Admitting' \subseteq Admitting \ {q}
    BY <1>0, <2>3 DEF Admitting
  <2>5. CASE UNCHANGED tableVars
    BY <1>0, <2>4, <2>5, OvershootKept DEF tableVars, Overshoot
  <2>6. CASE SetState(qual[q].b, qual[q].verdict)
    <3>1. /\ biz'[qual[q].b] = qual[q].verdict /\ lags' = lags
          /\ \A c \in Businesses : c # qual[q].b => biz'[c] = biz[c]
      BY <2>2, <2>6, SetStateElsewhere DEF SetState
    <3>2. ~lags => index' = biz'
      BY <2>6 DEF SetState, Show, Overshoot
    <3>3. CASE qual[q].verdict = "qualified"
      <4>1. q \in Admitting
        BY <2>1, <3>3 DEF Admitting
      <4>2. Active(biz') \subseteq Active(biz) \cup {qual[q].b}
        BY <3>1 DEF Active
      <4>3. /\ Cardinality(Active(biz')) <= Cardinality(Active(biz)) + 1
            /\ Cardinality(Admitting') <= Cardinality(Admitting) - 1
        BY <2>4, <4>1, <4>2, Counts, Gains, Loses
      <4>4. /\ Cardinality(Active(biz)) \in Nat /\ Cardinality(Active(biz')) \in Nat
            /\ Cardinality(Admitting) \in Nat /\ Cardinality(Admitting') \in Nat
            /\ Cardinality(Qualifiers) \in Nat
        BY Counts
      <4> QED BY <1>0, <3>1, <3>2, <4>3, <4>4 DEF Overshoot, OvershootBounded
    <3>4. CASE qual[q].verdict # "qualified"
      <4>1. Active(biz') \subseteq Active(biz)
        BY <3>1, <3>4 DEF Active
      <4> QED BY <1>0, <2>4, <3>1, <3>2, <4>1, OvershootKept
    <3> QED BY <3>3, <3>4
  <2> QED BY <1>4, <2>5, <2>6 DEF UpdateBusiness
<1>5. CASE PublishVerdict(q)
  <2>1. Admitting' \subseteq Admitting
    BY <1>0, <1>5 DEF PublishVerdict, Admitting
  <2> QED BY <1>0, <1>5, <2>1, OvershootKept DEF PublishVerdict, tableVars, Overshoot
<1>6. CASE FailQual(q)
  <2>1. Admitting' \subseteq Admitting
    BY <1>0, <1>6 DEF FailQual, Admitting
  <2> QED BY <1>0, <1>6, <2>1, OvershootKept DEF FailQual, tableVars, Overshoot
<1> QED BY <1>1, <1>2, <1>3, <1>4, <1>5, <1>6 DEF QualStep

LEMMA PromoOvershoot ==
  ASSUME TypeOK, TypeOK', Overshoot, NEW p \in Promoters, PromoStep(p) \/ FailPromo(p)
  PROVE  Overshoot'
<1>0. UNCHANGED qual /\ Admitting' = Admitting /\ promotions \in Nat /\ Cap \in Nat
  BY PromoterMoves, ReviewQueueAssumption DEF qualVars, Admitting, TypeOK, ReviewQueueAssumption
<1>1. CASE FindTop(p) \/ PublishPromoted(p) \/ FailPromo(p)
  <2>1. UNCHANGED <<lags, biz, index, promotions>>
    BY <1>1 DEF FindTop, PublishPromoted, FailPromo, tableVars
  <2> QED BY <1>0, <2>1, OvershootKept DEF Overshoot
<1>2. CASE ClearFlag(p)
  <2>1. promo[p].b \in Businesses
    BY <1>2, Rows DEF ClearFlag, PromoRow
  <2>2. CASE UNCHANGED <<tableVars, promotions>>
    BY <1>0, <2>2, OvershootKept DEF tableVars, Overshoot
  <2>3. CASE SetState(promo[p].b, "qualified") /\ promotions' = promotions + 1
    <3>1. lags' = lags /\ \A c \in Businesses : c # promo[p].b => biz'[c] = biz[c]
      BY <2>1, <2>3, SetStateElsewhere DEF SetState, States
    <3>2. ~lags => index' = biz'
      BY <2>3 DEF SetState, Show, Overshoot
    <3>3. Active(biz') \subseteq Active(biz) \cup {promo[p].b}
      BY <3>1 DEF Active
    <3>4. Cardinality(Active(biz')) <= Cardinality(Active(biz)) + 1
      BY <3>3, Counts, Gains
    <3>5. /\ Cardinality(Active(biz)) \in Nat /\ Cardinality(Active(biz')) \in Nat
          /\ Cardinality(Admitting) \in Nat /\ Cardinality(Qualifiers) \in Nat
      BY Counts
    <3> QED BY <1>0, <2>3, <3>1, <3>2, <3>4, <3>5 DEF Overshoot, OvershootBounded
  <2> QED BY <1>2, <2>2, <2>3 DEF ClearFlag
<1> QED BY <1>1, <1>2 DEF PromoStep

LEMMA StepOvershoot == TypeOK /\ TypeOK' /\ Overshoot /\ [Next]_vars => Overshoot'
<1> SUFFICES ASSUME TypeOK, TypeOK', Overshoot, [Next]_vars PROVE Overshoot'
  OBVIOUS
<1>0. promotions \in Nat
  BY DEF TypeOK
<1>1. ASSUME NEW b \in Businesses, Propagate(b) PROVE Overshoot'
  <2>1. lags /\ UNCHANGED <<lags, biz, qual, promotions>>
    BY <1>1 DEF Propagate, Overshoot, qualVars, promoVars
  <2> QED BY <2>1 DEF Overshoot, OvershootBounded
<1>2. ASSUME NEW b \in Businesses, LeaveQueue(b) \/ SetStatus(b) PROVE Overshoot'
  <2>1. PICK s \in States \ {"new", "qualified", "backlogged"} : SetState(b, s)
    BY <1>2, SaleMoves
  <2>2. /\ UNCHANGED <<qual, promotions>> /\ lags' = lags
        /\ biz'[b] # "qualified" /\ \A c \in Businesses : c # b => biz'[c] = biz[c]
        /\ ~lags => index' = biz'
    BY <1>2, <2>1, SaleMoves, SetStateElsewhere DEF SetState, Show, qualVars, Overshoot
  <2>3. Active(biz') \subseteq Active(biz) /\ Admitting' = Admitting
    BY <2>2 DEF Active, Admitting
  <2> QED BY <1>0, <2>2, <2>3, OvershootKept
<1>3. ASSUME NEW q \in Qualifiers, QualStep(q) \/ FailQual(q) PROVE Overshoot'
  BY <1>3, QualOvershoot
<1>4. ASSUME NEW p \in Promoters, PromoStep(p) \/ FailPromo(p) PROVE Overshoot'
  BY <1>4, PromoOvershoot
<1>5. CASE StartRollup \/ CountStatus \/ EndRollup \/ UNCHANGED vars
  <2>1. UNCHANGED <<lags, biz, index, qual, promotions>>
    BY <1>5, RollupMoves DEF vars, tableVars, qualVars, promoVars
  <2>2. Admitting' = Admitting
    BY <2>1 DEF Admitting
  <2> QED BY <1>0, <2>1, <2>2, OvershootKept DEF Overshoot
<1> QED BY <1>1, <1>2, <1>3, <1>4, <1>5 DEF Next

-----------------------------------------------------------------------------
(* The nightly funnel                                                      *)

LEMMA Ranks ==
  /\ \A s \in States : Rank(s) \in 1..12 /\ PartitionOf(s) \in States
  /\ \A k \in 1..12, s \in States : PartitionOf(s) = FunnelStatuses[k] <=> Rank(s) = k
<1>1. /\ DOMAIN FunnelStatuses = 1..12
      /\ FunnelStatuses[1] = "new" /\ FunnelStatuses[2] = "auditing"
      /\ FunnelStatuses[3] = "qualified" /\ FunnelStatuses[4] = "rejected"
      /\ FunnelStatuses[5] = "awaiting_review" /\ FunnelStatuses[6] = "approved"
      /\ FunnelStatuses[7] = "regenerate_requested"
      /\ FunnelStatuses[8] = "rejected_after_review"
      /\ FunnelStatuses[9] = "email_drafted" /\ FunnelStatuses[10] = "emailed"
      /\ FunnelStatuses[11] = "responded" /\ FunnelStatuses[12] = "converted"
  BY DEF FunnelStatuses
<1>2. \A j, k \in 1..12 : FunnelStatuses[j] = FunnelStatuses[k] => j = k
  <2>1. \A k \in 1..12 : k = 1 \/ k = 2 \/ k = 3 \/ k = 4 \/ k = 5 \/ k = 6 \/ k = 7
                           \/ k = 8 \/ k = 9 \/ k = 10 \/ k = 11 \/ k = 12
    OBVIOUS
  <2> QED BY <1>1, <2>1
<1>3. ASSUME NEW s \in States PROVE \E k \in 1..12 : FunnelStatuses[k] = PartitionOf(s)
  <2>1. PartitionOf(s) \in {"new", "qualified", "rejected", "responded",
          "rejected_after_review", "awaiting_review", "approved", "regenerate_requested",
          "email_drafted", "emailed", "converted"}
    BY ReviewQueueAssumption DEF PartitionOf, States, ReviewQueueAssumption
  <2> QED BY <1>1, <2>1
<1>4. \A s \in States : Rank(s) \in 1..12 /\ FunnelStatuses[Rank(s)] = PartitionOf(s)
  BY <1>1, <1>3 DEF Rank
<1>5. \A s \in States : PartitionOf(s) \in States
  BY DEF PartitionOf, States
<1> QED BY <1>2, <1>4, <1>5

\* The businesses whose status the rollup has left behind once it is at k.
Passed(k) == {b \in Businesses : Rank(index[b]) < k}

\* The rollup has counted all it has left behind, but for those who moved past it.
Funnel == rollup.total = Cardinality(Passed(rollup.next)) + rollup.drift

LEMMA PassedCounts ==
  \A k : /\ IsFiniteSet(Passed(k)) /\ Cardinality(Passed(k)) \in Nat
         /\ IsFiniteSet(Passed(k)') /\ Cardinality(Passed(k)') \in Nat
<1>1. IsFiniteSet(Businesses)
  BY ReviewQueueAssumption DEF ReviewQueueAssumption
<1>2. \A k : Passed(k) \subseteq Businesses /\ Passed(k)' \subseteq Businesses
  BY DEF Passed
<1> QED BY <1>1, <1>2, FS_Subset, FS_CardinalityType

\* Before the first status nobody is behind the rollup, after the last everybody.
LEMMA PassedEnds ==
  ASSUME TypeOK
  PROVE  Passed(0) = {} /\ Passed(1) = {} /\ Passed(Stored) = Businesses
<1>1. \A b \in Businesses : Rank(index[b]) \in 1..12
  BY Ranks DEF TypeOK
<1> QED BY <1>1, StoredIs DEF Passed

\* Without a rollup the funnel is empty.
LEMMA NoRollupFunnel == ASSUME TypeOK, rollup = NoRollup PROVE Funnel
<1>1. Cardinality(Passed(0)) = 0
  BY PassedEnds, FS_EmptySet
<1> QED BY <1>1 DEF Funnel, NoRollup

LEMMA InitFunnel == Init => Funnel
BY InitTyped, NoRollupFunnel DEF Init

\* A row of gsi1 changes: whoever moves past the rollup moves its drift.
LEMMA ShowFunnel ==
  ASSUME TypeOK, Funnel, NEW b \in Businesses, NEW s \in States, Show(b, s)
  PROVE  Funnel'
<1>1. /\ index'[b] = s /\ \A c \in Businesses : c # b => index'[c] = index[c]
      /\ rollup \in [next : 0..13, total : Nat, drift : Int]
  BY StoredIs DEF TypeOK, Show
<1>2. /\ Read(index[b]) \in 0..1 /\ Read(s) \in 0..1
      /\ Read(index[b]) = 1 <=> Rank(index[b]) < rollup.next
      /\ Read(s) = 1 <=> Rank(s) < rollup.next
  BY DEF Read
<1>3. /\ rollup'.next = rollup.next /\ rollup'.total = rollup.total
      /\ rollup'.drift = rollup.drift + Read(index[b]) - Read(s)
  BY <1>1 DEF Show
<1> DEFINE k == rollup.next
           Others == {c \in Businesses : c # b /\ Rank(index[c]) < k}
<1>4. IsFiniteSet(Others) /\ Cardinality(Others) \in Nat /\ b \notin Others
  <2>1. Others \subseteq Passed(k)
    BY DEF Passed
  <2> QED BY <2>1, PassedCounts, FS_Subset, FS_CardinalityType
<1>5. Cardinality(Others \cup {b}) = Cardinality(Others) + 1
  BY <1>4, FS_AddElement
<1>6. Cardinality(Passed(k)) = Cardinality(Others) + Read(index[b])
  <2>1. CASE Rank(index[b]) < k
    <3>1. Passed(k) = Others \cup {b}
      BY <2>1 DEF Passed
    <3> QED BY <1>2, <1>5, <2>1, <3>1
  <2>2. CASE ~(Rank(index[b]) < k)
    <3>1. Passed(k) = Others
      BY <2>2 DEF Passed
    <3> QED BY <1>2, <1>4, <2>2, <3>1
  <2> QED BY <2>1, <2>2
<1>7. Cardinality(Passed(k)') = Cardinality(Others) + Read(s)
  <2>1. Passed(k)' = {c \in Businesses : Rank(index'[c]) < k}
    BY <1>3 DEF Passed, Rank
  <2>2. CASE Rank(s) < k
    <3>1. Passed(k)' = Others \cup {b}
      BY <1>1, <2>1, <2>2
    <3> QED BY <1>2, <1>5, <2>2, <3>1
  <2>3. CASE ~(Rank(s) < k)
    <3>1. Passed(k)' = Others
      BY <1>1, <2>1, <2>3
    <3> QED BY <1>2, <1>4, <2>3, <3>1
  <2> QED BY <2>2, <2>3
<1>8. Cardinality(Passed(rollup.next)') = Cardinality(Others) + Read(s)
  BY <1>7
<1> HIDE DEF Others, k
<1>9. Cardinality(Passed(rollup.next)) = Cardinality(Others) + Read(index[b])
  BY <1>6 DEF k
<1> QED BY <1>1, <1>2, <1>3, <1>4, <1>8, <1>9 DEF Funnel

\* A row changes, and gsi1 with it or later.
LEMMA SetStateFunnel ==
  ASSUME TypeOK, Funnel, NEW b \in Businesses, NEW s \in States, SetState(b, s)
  PROVE  Funnel'
<1>1. CASE UNCHANGED <<index, rollup>>
  BY <1>1 DEF Funnel, Passed
<1>2. CASE Show(b, s)
  BY <1>2, ShowFunnel
<1> QED BY <1>1, <1>2 DEF SetState

\* The rollup counts the rows of one status and goes to the next in use.
LEMMA CountStatusFunnel == ASSUME TypeOK, Funnel, CountStatus PROVE Funnel'
<1>1. rollup \in [next : 0..13, total : Nat, drift : Int] /\ DOMAIN FunnelStatuses = 1..12
  BY StoredIs DEF TypeOK, FunnelStatuses
<1>2. rollup.next \in 1..12
  BY <1>1 DEF CountStatus
<1> PICK n \in 1..12 : n = rollup.next
  BY <1>2
<1>3. PICK k \in Following(n) :
        rollup' = [rollup EXCEPT !.total = @ + StatusBreakdown(n), !.next = k]
  BY DEF CountStatus
<1>4. /\ k \in (n + 1)..13
      /\ \A j \in (n + 1)..(k - 1) : FunnelStatuses[j] \notin States
  BY StoredIs DEF Following
<1> DEFINE S == {b \in Businesses : PartitionOf(index[b]) = FunnelStatuses[n]}
<1>5. IsFiniteSet(S) /\ Cardinality(S) \in Nat
  <2>1. S \subseteq Businesses /\ IsFiniteSet(Businesses)
    BY ReviewQueueAssumption DEF ReviewQueueAssumption
  <2> QED BY <2>1, FS_Subset, FS_CardinalityType
<1>6. /\ rollup'.next = k /\ rollup'.total = rollup.total + Cardinality(S)
      /\ rollup'.drift = rollup.drift /\ UNCHANGED index
  BY <1>1, <1>3 DEF CountStatus, StatusBreakdown, otherVars
<1>7. ASSUME NEW b \in Businesses
      PROVE  /\ Rank(index[b]) \in 1..12
             /\ b \in S <=> Rank(index[b]) = n
             /\ Rank(index[b]) \notin (n + 1)..(k - 1)
  <2>1. index[b] \in States
    BY DEF TypeOK
  <2>2. Rank(index[b]) \in 1..12 /\ PartitionOf(index[b]) = FunnelStatuses[Rank(index[b])]
        /\ PartitionOf(index[b]) \in States
    BY <2>1, Ranks
  <2>3. b \in S <=> Rank(index[b]) = n
    BY <2>1, Ranks
  <2> QED BY <1>4, <2>2, <2>3
<1>8. Passed(k)' = Passed(n) \cup S /\ Passed(n) \cap S = {}
  <2>1. \A b \in Businesses : Rank(index[b]) < k <=> Rank(index[b]) < n \/ Rank(index[b]) = n
    BY <1>4, <1>7
  <2>2. S = {b \in Businesses : Rank(index[b]) = n}
    BY <1>7
  <2>3. Passed(k)' = {b \in Businesses : Rank(index[b]) < k}
    BY <1>6 DEF Passed
  <2> HIDE DEF S
  <2>4. \A b \in Businesses : Rank(index[b]) \in 1..12
    BY <1>7
  <2> QED BY <2>1, <2>2, <2>3, <2>4 DEF Passed
<1> HIDE DEF S
<1>9. Cardinality(Passed(k)') = Cardinality(Passed(n)) + Cardinality(S)
  <2>1. IsFiniteSet(Passed(n)) /\ Cardinality(Passed(n)) \in Nat /\ Cardinality({}) = 0
    BY PassedCounts, FS_EmptySet
  <2>2. Cardinality(Passed(n) \cup S) = Cardinality(Passed(n)) + Cardinality(S) - 0
    BY <1>5, <1>8, <2>1, FS_Union
  <2>3. Cardinality(Passed(n)) + Cardinality(S) - 0 = Cardinality(Passed(n)) + Cardinality(S)
    BY <1>5, <2>1
  <2>4. Cardinality(Passed(k)') = Cardinality(Passed(n) \cup S)
    BY <1>8
  <2> QED BY <2>2, <2>3, <2>4
<1>10. Cardinality(Passed(n)) \in Nat /\ rollup.total = Cardinality(Passed(n)) + rollup.drift
  BY PassedCounts DEF Funnel
<1>11. Cardinality(Passed(rollup.next)') = Cardinality(Passed(k)')
  BY <1>6 DEF Passed
<1> QED BY <1>1, <1>5, <1>6, <1>9, <1>10, <1>11 DEF Funnel

LEMMA StepFunnel == TypeOK /\ TypeOK' /\ Funnel /\ [Next]_vars => Funnel'
<1> SUFFICES ASSUME TypeOK, TypeOK', Funnel, [Next]_vars PROVE Funnel'
  OBVIOUS
<1>1. ASSUME NEW b \in Businesses, Propagate(b) PROVE Funnel'
  <2>1. biz[b] \in States
    BY Rows
  <2> QED BY <1>1, <2>1, ShowFunnel DEF Propagate
<1>2. CASE \E b \in Businesses, s \in States : SetState(b, s)
  BY <1>2, SetStateFunnel
<1>3. CASE UNCHANGED tableVars
  BY <1>3 DEF tableVars, Funnel, Passed
<1>4. ASSUME NEW b \in Businesses, LeaveQueue(b) \/ SetStatus(b) PROVE Funnel'
  BY <1>2, <1>4 DEF LeaveQueue, SetStatus, States
<1>5. ASSUME NEW q \in Qualifiers, QualStep(q) \/ FailQual(q) PROVE Funnel'
  BY <1>2, <1>3, <1>5, QualifierMoves
<1>6. ASSUME NEW p \in Promoters, PromoStep(p) \/ FailPromo(p) PROVE Funnel'
  BY <1>2, <1>3, <1>6, PromoterMoves
<1>7. CASE StartRollup
  <2>1. /\ rollup'.next = 1 /\ rollup'.total = 0 /\ rollup'.drift = 0 /\ UNCHANGED index
    BY <1>7 DEF StartRollup, NoRollup, otherVars
  <2>2. Passed(rollup.next)' = {}
    BY PassedEnds, <2>1 DEF Passed
  <2>3. Cardinality(Passed(rollup.next)') = 0
    BY <2>2, FS_EmptySet
  <2> QED BY <2>1, <2>3 DEF Funnel
<1>8. CASE EndRollup
  <2>1. /\ rollup'.next = 0 /\ rollup'.total = 0 /\ rollup'.drift = 0 /\ UNCHANGED index
    BY <1>8 DEF EndRollup, NoRollup, otherVars
  <2>2. Passed(rollup.next)' = {}
    BY PassedEnds, <2>1 DEF Passed
  <2>3. Cardinality(Passed(rollup.next)') = 0
    BY <2>2, FS_EmptySet
  <2> QED BY <2>1, <2>3 DEF Funnel
<1>9. CASE UNCHANGED vars
  BY <1>3, <1>9 DEF vars
<1> QED BY <1>1, <1>4, <1>5, <1>6, <1>7, <1>8, <1>9, CountStatusFunnel DEF Next

-----------------------------------------------------------------------------
(* Whom a freed slot goes to                                               *)

\* Only businesses with a profile get a verdict, a row in gsi1 other than
\* "new" and a place in the backlog.
Scored ==
  /\ \A q \in Qualifiers : qual[q].pc # "idle" => qual[q].b \in Profiled
  /\ \A b \in Businesses : biz[b] # "new" \/ index[b] # "new" => b \in Profiled
  /\ quals \subseteq Profiled

LEMMA InitScored == Init => Scored
BY DEF Init, Scored, NoQual

LEMMA SetStateScored ==
  ASSUME TypeOK, Scored, NEW b \in Profiled, NEW s \in States, SetState(b, s)
  PROVE  \A c \in Businesses : biz'[c] # "new" \/ index'[c] # "new" => c \in Profiled
<1>1. b \in Businesses
  BY DEF Profiled
<1> QED BY <1>1, SetStateElsewhere DEF Scored

LEMMA StepScored == TypeOK /\ Admission /\ Scored /\ [Next]_vars => Scored'
<1> SUFFICES ASSUME TypeOK, Admission, Scored, [Next]_vars PROVE Scored'
  OBVIOUS
<1> DEFINE RowsScored ==
      \A c \in Businesses : biz[c] # "new" \/ index[c] # "new" => c \in Profiled
<1>1. ASSUME NEW b \in Businesses, Propagate(b) PROVE Scored'
  <2>1. UNCHANGED <<biz, quals, qual>> /\ biz[b] # index[b]
        /\ index' = [index EXCEPT ![b] = biz[b]] /\ index \in [Businesses -> States]
    BY <1>1, Rows DEF Propagate, Show, qualVars
  <2> QED BY <2>1 DEF Scored
<1>2. ASSUME NEW b \in Businesses, LeaveQueue(b) \/ SetStatus(b) PROVE Scored'
  <2>1. UNCHANGED <<quals, qual>> /\ b \in Profiled /\ \E s \in States : SetState(b, s)
    BY <1>2, SaleMoves DEF Scored, Admission, AnnouncedIsAdmitted, qualVars
  <2>2. RowsScored'
    BY <2>1, SetStateScored
  <2> QED BY <2>1, <2>2 DEF Scored
<1>3. ASSUME NEW q \in Qualifiers, QualStep(q) \/ FailQual(q) PROVE Scored'
  <2>0. /\ \A r \in Qualifiers : r # q => qual'[r] = qual[r]
        /\ qual \in [Qualifiers -> QualRow \cup {NoQual}] /\ NoQual.pc = "idle"
    BY <1>3, QualifierMoves, Rows DEF NoQual
  <2>1. CASE Decide(q)
    <3>1. PICK b \in Profiled : \E v \in Verdicts :
            qual' = [qual EXCEPT ![q] = [pc |-> "row", b |-> b, verdict |-> v]]
      BY <2>1 DEF Decide
    <3>2. qual'[q].b = b
      BY <2>0, <3>1
    <3>3. UNCHANGED <<biz, index, quals>>
      BY <2>1 DEF Decide, tableVars
    <3> QED BY <2>0, <3>2, <3>3 DEF Scored
  <2>2. CASE SkipBusiness(q)
    BY <2>2 DEF SkipBusiness, tableVars, Scored
  <2>3. CASE PutQualification(q)
    <3>1. qual[q] \in QualRow /\ qual' = [qual EXCEPT ![q].pc = "update"]
          /\ UNCHANGED <<biz, index>> /\ quals' = quals \cup {qual[q].b}
      BY <2>3, Rows DEF PutQualification, tableVars
    <3>2. qual'[q].b = qual[q].b /\ qual[q].pc # "idle"
      BY <2>0, <3>1 DEF QualRow
    <3> QED BY <2>0, <3>1, <3>2 DEF Scored
  <2>4. CASE UpdateBusiness(q)
    <3>1. qual[q] \in QualRow /\ qual' = [qual EXCEPT ![q].pc = "publish"] /\ UNCHANGED quals
      BY <2>4, Rows DEF UpdateBusiness, qualVars
    <3>2. /\ qual'[q].b = qual[q].b /\ qual[q].pc # "idle"
          /\ qual[q].b \in Profiled /\ qual[q].verdict \in States
      BY <2>0, <3>1 DEF QualRow, Scored, Verdicts, States
    <3>3. RowsScored'
      <4>1. CASE UNCHANGED tableVars
        BY <4>1 DEF tableVars, Scored
      <4>2. CASE SetState(qual[q].b, qual[q].verdict)
        BY <3>2, <4>2, SetStateScored
      <4> QED BY <2>4, <4>1, <4>2 DEF UpdateBusiness
    <3>4. quals' \subseteq Profiled
      BY <3>1 DEF Scored
    <3> QED BY <2>0, <3>2, <3>3, <3>4 DEF Scored
  <2>5. CASE PublishVerdict(q) \/ FailQual(q)
    <3>1. qual'[q] = NoQual /\ UNCHANGED <<biz, index, quals>>
      BY <2>0, <2>5 DEF PublishVerdict, FailQual, tableVars
    <3> QED BY <2>0, <3>1 DEF Scored
  <2> QED BY <1>3, <2>1, <2>2, <2>3, <2>4, <2>5 DEF QualStep
<1>4. ASSUME NEW p \in Promoters, PromoStep(p) \/ FailPromo(p) PROVE Scored'
  <2>1. UNCHANGED <<quals, qual>>
    BY <1>4, PromoterMoves DEF qualVars
  <2>2. RowsScored'
    <3>1. CASE UNCHANGED tableVars
      BY <3>1 DEF tableVars, Scored
    <3>2. CASE ClearFlag(p) /\ ~UNCHANGED tableVars
      <4>1. promo[p].b \in Businesses /\ biz[promo[p].b] = "backlogged"
            /\ SetState(promo[p].b, "qualified")
        BY <3>2, Rows DEF ClearFlag, PromoRow
      <4>2. promo[p].b \in Profiled /\ "qualified" \in States
        BY <4>1 DEF Scored, States
      <4> QED BY <4>1, <4>2, SetStateScored
    <3> QED BY <1>4, <3>1, <3>2 DEF PromoStep, FindTop, PublishPromoted, FailPromo
  <2> QED BY <2>1, <2>2 DEF Scored
<1>5. CASE StartRollup \/ CountStatus \/ EndRollup \/ UNCHANGED vars
  <2>1. UNCHANGED <<biz, index, quals, qual>>
    BY <1>5, RollupMoves DEF vars, tableVars, qualVars
  <2> QED BY <2>1 DEF Scored
<1> QED BY <1>1, <1>2, <1>3, <1>4, <1>5 DEF Next

\* Multiplication by a weight keeps the order.
LEMMA Scale ==
  \A w \in Nat : \A x, y \in 0..100 : x <= y =>
    /\ w * x \in Nat /\ w * y \in Nat
    /\ w * x <= w * y /\ w * y <= 100 * w
    /\ (w > 0 /\ x < y) => w * x < w * y
OBVIOUS

\* What is missing of 100 runs the other way.
LEMMA Missing ==
  \A x, y \in 0..100 : x < y =>
    /\ 100 - x \in 0..100 /\ 100 - y \in 0..100
    /\ 100 - y < 100 - x
OBVIOUS

\* Clamping keeps the order.
LEMMA Clamping ==
  \A x, y \in Int : x <= y =>
    /\ Clamp(x, 100) \in 0..100 /\ Clamp(y, 100) \in 0..100
    /\ Clamp(x, 100) <= Clamp(y, 100)
BY DEF Clamp

\* Of two sites of one trade, the one that needs replacing more by every signal
\* has at least the other's age, and the same fit and confidence.
LEMMA NeedierIsOlder ==
  ASSUME NEW s \in Signal, NEW t \in Signal, Needier(s, t)
  PROVE  WebsiteAge(t) <= WebsiteAge(s) /\ WebsiteAge(t) \in 0..100 /\ WebsiteAge(s) \in 0..100
<1>1. /\ s.performance \in Int /\ t.performance \in Int
      /\ s.performance # 0 /\ s.performance <= t.performance
      /\ s.contact \in BOOLEAN /\ t.contact \in BOOLEAN /\ (s.contact => t.contact)
  BY DEF Signal, Needier
<1> DEFINE bonus(x) == IF x.contact THEN 0 ELSE 10
           m(x) == Clamp(100 - x.performance, 100)
<1>2. bonus(s) \in {0, 10} /\ bonus(t) \in {0, 10} /\ bonus(t) <= bonus(s)
  BY <1>1
<1>3. m(s) \in 0..100 /\ m(t) \in 0..100 /\ m(t) <= m(s)
  <2>1. /\ 100 - t.performance \in Int /\ 100 - s.performance \in Int
        /\ 100 - t.performance <= 100 - s.performance
    BY <1>1
  <2> QED BY <2>1, Clamping
<1> HIDE DEF bonus, m
<1>4. /\ m(t) + bonus(t) \in Int /\ m(s) + bonus(s) \in Int
      /\ m(t) + bonus(t) <= m(s) + bonus(s)
  BY <1>2, <1>3
<1> DEFINE older == Clamp(m(s) + bonus(s), 100)
           newer == Clamp(m(t) + bonus(t), 100)
<1>5. newer <= older /\ newer \in 0..100 /\ older \in 0..100
  BY <1>4, Clamping
<1>6. WebsiteAge(s) = older
  BY <1>1 DEF WebsiteAge, m, bonus
<1>7. WebsiteAge(t) = newer \/ WebsiteAge(t) = 0
  BY DEF WebsiteAge, m, bonus
<1> HIDE DEF older, newer
<1> QED BY <1>5, <1>6, <1>7

\* A score is a number, whatever the signals.
LEMMA ScoreIsNumber ==
  ASSUME NEW s \in Signal, NEW p \in TargetingProfile
  PROVE  PriorityScore(s, p) \in Int
<1> DEFINE w == p.weights
           raw == w.auditScore * Clamp(100 - s.score, 100) + w.verticalFit * VerticalFit(s, p)
                    + w.businessSize * Clamp(s.confidence, 100) + w.websiteAge * WebsiteAge(s)
<1>1. /\ w.auditScore \in Int /\ w.verticalFit \in Int /\ w.businessSize \in Int
      /\ w.websiteAge \in Int
  BY DEF TargetingProfile, Weights
<1>2. /\ Clamp(100 - s.score, 100) \in Int /\ VerticalFit(s, p) \in Int
      /\ Clamp(s.confidence, 100) \in Int /\ WebsiteAge(s) \in Int
  BY DEF Signal, Clamp, VerticalFit, WebsiteAge
<1>3. raw \in Int
  BY <1>1, <1>2
<1>4. PriorityScore(s, p) = Clamp(raw, 10000)
  BY DEF PriorityScore
<1> HIDE DEF raw
<1> QED BY <1>3, <1>4 DEF Clamp

\* A profile that weighs the audit, and whose weights do not saturate the score.
Weighs(p) ==
  LET w == p.weights IN
  /\ w.auditScore > 0
  /\ w.auditScore + w.verticalFit + w.businessSize + w.websiteAge <= 100

\* Such a profile scores the needier site strictly higher (qualifier.Compute).
LEMMA NeedierScoresHigher ==
  ASSUME NEW s \in Signal, NEW t \in Signal, NEW p \in TargetingProfile, Needier(s, t),
         Weighs(p), s.score \in 0..100, t.score \in 0..100
  PROVE  PriorityScore(t, p) < PriorityScore(s, p)
<1> DEFINE w == p.weights
           a(x) == w.auditScore * Clamp(100 - x.score, 100)
           v(x) == w.verticalFit * VerticalFit(x, p)
           c(x) == w.businessSize * Clamp(x.confidence, 100)
           o(x) == w.websiteAge * WebsiteAge(x)
<1>1. /\ w.auditScore \in Nat /\ w.verticalFit \in Nat /\ w.businessSize \in Nat
      /\ w.websiteAge \in Nat
  BY DEF TargetingProfile, Weights
<1>2. /\ Clamp(100 - s.score, 100) \in 0..100 /\ Clamp(100 - t.score, 100) \in 0..100
      /\ Clamp(100 - t.score, 100) < Clamp(100 - s.score, 100)
  <2>1. s.score < t.score
    BY DEF Needier
  <2>2. /\ 100 - s.score \in 0..100 /\ 100 - t.score \in 0..100
        /\ 100 - t.score < 100 - s.score
    BY <2>1, Missing
  <2>3. Clamp(100 - s.score, 100) = 100 - s.score /\ Clamp(100 - t.score, 100) = 100 - t.score
    BY <2>2 DEF Clamp
  <2> QED BY <2>2, <2>3
<1>3. a(s) \in Nat /\ a(t) \in Nat /\ a(t) < a(s) /\ a(s) <= 100 * w.auditScore
  <2>1. w.auditScore > 0
    BY DEF Weighs
  <2>2. PICK x \in 0..100, y \in 0..100 :
          x = Clamp(100 - s.score, 100) /\ y = Clamp(100 - t.score, 100) /\ y < x
    BY <1>2
  <2>3. PICK m \in Nat : m = w.auditScore /\ m > 0
    BY <1>1, <2>1
  <2>4. /\ m * x \in Nat /\ m * y \in Nat /\ m * y < m * x /\ m * x <= 100 * m
    <3>1. y <= x
      BY <2>2
    <3> QED BY <2>2, <2>3, <3>1, Scale
  <2> QED BY <2>2, <2>3, <2>4
<1>4. v(s) = v(t) /\ v(s) \in Nat /\ v(s) <= 100 * w.verticalFit
  <2>1. VerticalFit(s, p) = VerticalFit(t, p) /\ VerticalFit(s, p) \in 0..100
    BY DEF VerticalFit, Needier
  <2>2. VerticalFit(s, p) <= VerticalFit(s, p)
    BY <2>1
  <2> QED BY <1>1, <2>1, <2>2, Scale
<1>5. c(s) = c(t) /\ c(s) \in Nat /\ c(s) <= 100 * w.businessSize
  <2>1. s.confidence = t.confidence /\ Clamp(s.confidence, 100) \in 0..100
    BY DEF Needier, Signal, Clamp
  <2>2. Clamp(s.confidence, 100) <= Clamp(s.confidence, 100)
    BY <2>1
  <2> QED BY <1>1, <2>1, <2>2, Scale
<1>6. o(s) \in Nat /\ o(t) \in Nat /\ o(t) <= o(s) /\ o(s) <= 100 * w.websiteAge
  BY <1>1, NeedierIsOlder, Scale
<1>7. /\ PriorityScore(s, p) = Clamp(a(s) + v(s) + c(s) + o(s), 10000)
      /\ PriorityScore(t, p) = Clamp(a(t) + v(t) + c(t) + o(t), 10000)
  BY DEF PriorityScore
<1>8. 100 * w.auditScore + 100 * w.verticalFit + 100 * w.businessSize + 100 * w.websiteAge <= 10000
  BY <1>1 DEF Weighs
<1> HIDE DEF a, v, c, o, w
<1> QED BY <1>1, <1>3, <1>4, <1>5, <1>6, <1>7, <1>8 DEF Clamp

-----------------------------------------------------------------------------
(* What becomes of an audit                                                *)

\* An audit that was taken up has its Qualification, or is about to, or was cut
\* short; and a Qualification has its status, or is about to, if nothing failed.
TakenUp ==
  /\ \A b \in Profiled \ audits :
       b \in quals \cup crashed \/ \E q \in Qualifiers : qual[q].pc = "row" /\ qual[q].b = b
  /\ faults = 0 => \A b \in quals :
       biz[b] # "new" \/ \E q \in Qualifiers : qual[q].pc = "update" /\ qual[q].b = b

LEMMA InitTakenUp == Init => TakenUp
BY DEF Init, TakenUp, Profiled

\* A row that has a verdict keeps one.
LEMMA StatusKept ==
  ASSUME TypeOK,
         \/ UNCHANGED tableVars
         \/ \E b \in Businesses, s \in States \ {"new"} : SetState(b, s)
  PROVE  \A b \in Businesses : biz[b] # "new" => biz'[b] # "new"
BY SetStateElsewhere DEF tableVars

LEMMA StepTakenUp == TypeOK /\ TypeOK' /\ TakenUp /\ [Next]_vars => TakenUp'
<1> SUFFICES ASSUME TypeOK, TypeOK', TakenUp, [Next]_vars PROVE TakenUp'
  OBVIOUS
<1>0. /\ faults \in Nat /\ quals \subseteq Businesses
      /\ Verdicts \subseteq States \ {"new"} /\ "qualified" \in States \ {"new"}
  BY ReviewQueueAssumption DEF TypeOK, States, Verdicts, ReviewQueueAssumption
<1>1. ASSUME NEW q \in Qualifiers, QualStep(q) \/ FailQual(q) PROVE TakenUp'
  <2>0. /\ \A r \in Qualifiers : r # q => qual'[r] = qual[r]
        /\ qual \in [Qualifiers -> QualRow \cup {NoQual}] /\ NoQual.pc = "idle"
    BY <1>1, QualifierMoves, Rows DEF NoQual
  <2>1. CASE Decide(q)
    <3>1. PICK b \in audits : \E v \in Verdicts :
            audits' = audits \ {b} /\ qual' = [qual EXCEPT ![q] = [pc |-> "row", b |-> b, verdict |-> v]]
      BY <2>1 DEF Decide
    <3>2. /\ audits' = audits \ {b} /\ qual'[q].pc = "row" /\ qual'[q].b = b
          /\ qual[q].pc = "idle"
      BY <2>0, <2>1, <3>1 DEF Decide
    <3>3. UNCHANGED <<biz, quals, crashed, faults>>
      BY <2>1 DEF Decide, tableVars
    <3> QED BY <2>0, <3>2, <3>3 DEF TakenUp
  <2>2. CASE SkipBusiness(q)
    BY <2>2 DEF SkipBusiness, tableVars, TakenUp
  <2>3. CASE PutQualification(q)
    <3>1. /\ qual[q] \in QualRow /\ qual[q].pc = "row"
          /\ qual' = [qual EXCEPT ![q].pc = "update"] /\ quals' = quals \cup {qual[q].b}
          /\ UNCHANGED <<biz, audits, crashed, faults>>
      BY <2>3, Rows DEF PutQualification, tableVars
    <3>2. qual'[q].b = qual[q].b /\ qual'[q].pc = "update"
      BY <2>0, <3>1 DEF QualRow
    <3> QED BY <2>0, <3>1, <3>2 DEF TakenUp
  <2>4. CASE UpdateBusiness(q)
    <3>1. /\ qual[q] \in QualRow /\ qual[q].pc = "update"
          /\ qual' = [qual EXCEPT ![q].pc = "publish"]
          /\ UNCHANGED <<audits, quals, crashed>>
      BY <2>4, Rows DEF UpdateBusiness
    <3>2. /\ qual'[q].pc = "publish" /\ qual[q].b \in Businesses
          /\ qual[q].verdict \in States \ {"new"}
      BY <1>0, <2>0, <3>1 DEF QualRow
    <3>3. CASE SetState(qual[q].b, qual[q].verdict) /\ UNCHANGED faults
      <4>1. /\ biz'[qual[q].b] # "new"
            /\ \A b \in Businesses : biz[b] # "new" => biz'[b] # "new"
        BY <3>2, <3>3, SetStateElsewhere, StatusKept
      <4> QED BY <1>0, <2>0, <3>1, <3>2, <3>3, <4>1 DEF TakenUp
    <3>4. CASE faults' = faults + 1 /\ UNCHANGED tableVars
      <4>1. faults' # 0
        BY <1>0, <3>4
      <4> QED BY <2>0, <3>1, <3>2, <4>1 DEF TakenUp
    <3> QED BY <2>4, <3>3, <3>4 DEF UpdateBusiness
  <2>5. CASE PublishVerdict(q)
    <3>1. qual[q].pc = "publish" /\ qual'[q] = NoQual /\ UNCHANGED <<biz, audits, quals, crashed, faults>>
      BY <2>0, <2>5 DEF PublishVerdict, tableVars
    <3> QED BY <2>0, <3>1 DEF TakenUp
  <2>6. CASE FailQual(q)
    <3>1. /\ qual'[q] = NoQual /\ crashed' = crashed \cup {qual[q].b} /\ faults' # 0
          /\ UNCHANGED <<audits, quals>>
      BY <1>0, <2>0, <2>6 DEF FailQual
    <3> QED BY <2>0, <3>1 DEF TakenUp
  <2> QED BY <1>1, <2>1, <2>2, <2>3, <2>4, <2>5, <2>6 DEF QualStep
<1>2. ASSUME UNCHANGED <<audits, quals, qual, crashed>>,
             UNCHANGED faults \/ faults' # 0,
             \A b \in Businesses : biz[b] # "new" => biz'[b] # "new"
      PROVE  TakenUp'
  BY <1>0, <1>2 DEF TakenUp
<1>3. ASSUME NEW b \in Businesses, Propagate(b) \/ LeaveQueue(b) \/ SetStatus(b) PROVE TakenUp'
  <2>1. UNCHANGED <<qualVars, faults>>
    BY <1>3, SaleMoves DEF Propagate, qualVars
  <2>2. UNCHANGED biz \/ \E s \in States \ {"new"} : SetState(b, s)
    BY <1>3, SaleMoves DEF Propagate
  <2>3. \A c \in Businesses : biz[c] # "new" => biz'[c] # "new"
    BY <2>2, SetStateElsewhere
  <2> QED BY <1>2, <2>1, <2>3 DEF qualVars
<1>4. ASSUME NEW p \in Promoters, PromoStep(p) \/ FailPromo(p) PROVE TakenUp'
  <2>1. UNCHANGED qualVars
    BY <1>4, PromoterMoves
  <2>2. UNCHANGED faults \/ faults' # 0
    BY <1>0, <1>4 DEF PromoStep, FindTop, ClearFlag, PublishPromoted, FailPromo
  <2>3. UNCHANGED tableVars \/ \E b \in Businesses : SetState(b, "qualified")
    <3>1. CASE ClearFlag(p)
      BY <3>1, Rows DEF ClearFlag, PromoRow
    <3> QED BY <1>4, <3>1 DEF PromoStep, FindTop, PublishPromoted, FailPromo
  <2>4. \A c \in Businesses : biz[c] # "new" => biz'[c] # "new"
    BY <1>0, <2>3, StatusKept
  <2> QED BY <1>2, <2>1, <2>2, <2>4 DEF qualVars
<1>5. CASE StartRollup \/ CountStatus \/ EndRollup \/ UNCHANGED vars
  <2>1. UNCHANGED <<biz, qualVars>>
    BY <1>5, RollupMoves DEF vars, tableVars
  <2>2. UNCHANGED faults \/ faults' # 0
    BY <1>0, <1>5 DEF StartRollup, CountStatus, EndRollup, otherVars, vars
  <2> QED BY <1>2, <2>1, <2>2 DEF qualVars
<1> QED BY <1>1, <1>3, <1>4, <1>5 DEF Next

\* Of finitely many profiles one was updated last: one whose set of later ones
\* has no such set strictly within it.
LEMMA LastUpdated ==
  ASSUME NEW S, IsFiniteSet(S), S # {}, \A p \in S : p.updated \in Nat
  PROVE  \E p \in S : \A o \in S : o.updated <= p.updated
<1> DEFINE After(p) == {o \in S : o.updated > p.updated}
           N == {After(p) : p \in S}
<1>1. IsWellFoundedOn(StrictSubsetOrdering(S), SUBSET S)
  BY FS_StrictSubsetOrderingWellFounded, FS_FiniteSubsetsOfFinite
<1>2. N \subseteq SUBSET S /\ N # {}
  OBVIOUS
<1> HIDE DEF N
<1>3. PICK X \in N : \A Y \in N : <<Y, X>> \notin StrictSubsetOrdering(S)
  BY <1>1, <1>2, WFMin
<1>4. PICK p \in S : X = After(p)
  BY DEF N
<1>5. SUFFICES ASSUME NEW o \in S, ~(o.updated <= p.updated) PROVE FALSE
  BY <1>4
<1>6. o.updated > p.updated /\ o.updated \in Nat /\ p.updated \in Nat
  BY <1>5
<1>7. After(o) \subseteq After(p) /\ After(o) # After(p)
  <2>1. \A r \in S : r.updated \in Nat
    OBVIOUS
  <2>2. o \in After(p) /\ o \notin After(o)
    BY <1>6
  <2> QED BY <1>6, <2>1, <2>2
<1>8. After(o) \in N /\ After(o) \in SUBSET S /\ After(p) \in SUBSET S
  BY DEF N
<1> HIDE DEF After
<1>9. <<After(o), After(p)>> \in StrictSubsetOrdering(S)
  BY <1>7, <1>8 DEF StrictSubsetOrdering
<1> QED BY <1>3, <1>4, <1>8, <1>9

-----------------------------------------------------------------------------
ReviewQueueInv == TypeOK /\ Admission /\ Overshoot /\ Funnel /\ Scored /\ TakenUp

(* The inductive invariant: a business whose verdict is not written yet is
   untouched, and the overshoot counts those being admitted with the admitted. *)
THEOREM ReviewQueueInvariant == Spec => []ReviewQueueInv
<1>1. Init => ReviewQueueInv
  BY InitTyped, InitAdmission, InitOvershoot, InitFunnel, InitScored, InitTakenUp DEF ReviewQueueInv
<1>2. ReviewQueueInv /\ [Next]_vars => ReviewQueueInv'
  BY StepTyped, StepAdmission, StepOvershoot, StepFunnel, StepScored, StepTakenUp
     DEF ReviewQueueInv
<1> QED BY <1>1, <1>2, PTL DEF Spec

(* Every variable keeps its type (qualifier, backlog-promoter, metrics-rollup). *)
THEOREM ReviewQueueTypeCorrect == Spec => []TypeOK
<1>1. ReviewQueueInv => TypeOK
  BY DEF ReviewQueueInv
<1> QED BY <1>1, ReviewQueueInvariant, PTL

(* Concurrent qualifiers exceed the cap by at most one business each, but one,
   and one for each promotion, while the index does not trail. *)
THEOREM OvershootTheorem == Spec => []OvershootBounded
<1>1. ReviewQueueInv => OvershootBounded
  BY DEF ReviewQueueInv, Overshoot
<1> QED BY <1>1, ReviewQueueInvariant, PTL

(* A business is announced only with its Qualification row written, and never
   while it waits in the backlog, whatever fails and however the index trails. *)
THEOREM AnnouncedTheorem == Spec => []AnnouncedIsAdmitted
<1>1. ReviewQueueInv => AnnouncedIsAdmitted
  BY DEF ReviewQueueInv, Admission
<1> QED BY <1>1, ReviewQueueInvariant, PTL

(* The nightly funnel counts every business once, but for those that changed
   their status past it: one that moved ahead is counted twice and one that
   moved back, as for a reply, not at all, for any number of businesses, whatever
   statuses the sale writes and any trailing of gsi1. *)
THEOREM FunnelTheorem == Spec => []FunnelMissesNobody
<1>1. ReviewQueueInv => FunnelMissesNobody
  <2> SUFFICES ASSUME ReviewQueueInv, rollup.next = Stored
               PROVE  rollup.total = Cardinality(Businesses) + rollup.drift
    BY DEF FunnelMissesNobody
  <2>1. Passed(rollup.next) = Businesses
    BY PassedEnds DEF ReviewQueueInv
  <2> QED BY <2>1 DEF ReviewQueueInv, Funnel
<1> QED BY <1>1, ReviewQueueInvariant, PTL

(* A freed slot goes to the neediest of the parked businesses that gsi1 shows,
   under profiles that weigh the audit score and whose weights sum to no more
   than 1; a profile that gives the audit no weight orders by id, and weights of
   1.01, which Validate allows, may saturate two scores. *)
THEOREM NeediestTheorem ==
  ASSUME \A b \in Businesses : Signals[b].score \in 0..100,
         \A b \in Businesses : \A p \in ProfileOf(b) : Weighs(p)
  PROVE  Spec => PromotesTheNeediest
<1> DEFINE Neediest ==
      \A p \in Promoters :
        (promo[p] = NoPromo /\ promo'[p] # NoPromo) =>
          \A c \in Businesses :
            index[c] = "backlogged" => ~Needier(Signals[c], Signals[promo'[p].b])
<1>1. ReviewQueueInv /\ [Next]_vars => [Neediest]_vars
  <2> SUFFICES ASSUME ReviewQueueInv, Next, NEW p \in Promoters,
                      promo[p] = NoPromo, promo'[p] # NoPromo,
                      NEW c \in Businesses, index[c] = "backlogged",
                      Needier(Signals[c], Signals[promo'[p].b])
               PROVE  FALSE
    OBVIOUS
  <2>0. TypeOK /\ Scored
    BY DEF ReviewQueueInv
  <2>1. FindTop(p)
    <3>1. ASSUME NEW r \in Promoters, PromoStep(r) \/ FailPromo(r) PROVE r = p
      BY <2>0, <3>1, PromoterMoves
    <3>2. NoPromo.pc = "idle" /\ promo \in [Promoters -> PromoRow \cup {NoPromo}]
      BY <2>0, Rows DEF NoPromo
    <3>3. ~ClearFlag(p) /\ ~PublishPromoted(p) /\ ~FailPromo(p)
      BY <3>2 DEF ClearFlag, PublishPromoted, FailPromo
    <3>4. \A q \in Qualifiers : ~(QualStep(q) \/ FailQual(q))
      BY <2>0, QualifierMoves DEF promoVars
    <3>5. \A b \in Businesses : ~(Propagate(b) \/ LeaveQueue(b) \/ SetStatus(b))
      BY SaleMoves DEF Propagate, promoVars
    <3>6. ~(StartRollup \/ CountStatus \/ EndRollup)
      BY <2>0, RollupMoves DEF promoVars
    <3> QED BY <3>1, <3>3, <3>4, <3>5, <3>6 DEF Next, PromoStep
  <2>2. PICK b \in TopBacklog : promo' = [promo EXCEPT ![p] = [pc |-> "clear", b |-> b]]
    BY <2>1 DEF FindTop
  <2>3. promo'[p].b = b
    BY <2>0, <2>2, Rows
  <2>4. b \in Businesses /\ index[b] = "backlogged" /\ b \in Profiled
    BY <2>0, <2>2 DEF TopBacklog, Partition, Scored
  <2>5. Needier(Signals[c], Signals[b]) /\ c # b
    <3>1. Signals[b].score \in Int
      BY <2>4
    <3> QED BY <2>3, <3>1 DEF Needier
  <2>6. SortsBelow(Score[c], c, Score[b], b)
    BY <2>2, <2>5 DEF TopBacklog, Partition
  <2>7. ProfileOf(c) = ProfileOf(b) /\ c \in Profiled
    <3>1. Matching(c) = Matching(b)
      BY <2>5 DEF Matching, Needier
    <3> QED BY <2>4, <3>1 DEF ProfileOf, Profiled
  <2> DEFINE o == CHOOSE o \in ProfileOf(b) : TRUE
  <2>8. o \in ProfileOf(b)
    BY <2>4 DEF Profiled
  <2>9. Score[c] = PriorityScore(Signals[c], o) /\ Score[b] = PriorityScore(Signals[b], o)
    BY <2>4, <2>7 DEF Score
  <2>10. o \in TargetingProfile /\ Weighs(o)
    BY <2>4, <2>8, ReviewQueueAssumption DEF ReviewQueueAssumption, ProfileOf, Matching
  <2>11. Signals[c] \in Signal /\ Signals[b] \in Signal
    BY <2>4, ReviewQueueAssumption DEF ReviewQueueAssumption
  <2> HIDE DEF o
  <2>12. Score[b] < Score[c]
    BY <2>4, <2>5, <2>9, <2>10, <2>11, NeedierScoresHigher
  <2>13. Score[b] \in Int /\ Score[c] \in Int
    BY <2>9, <2>10, <2>11, ScoreIsNumber
  <2> QED BY <2>6, <2>12, <2>13 DEF SortsBelow
<1> QED BY <1>1, ReviewQueueInvariant, PTL DEF Spec, PromotesTheNeediest

(* With one qualifier container the cap is what queue.go says it is, promotions
   aside: the overshoot is the other containers'. *)
THEOREM OneQualifierTheorem ==
  ASSUME Cardinality(Qualifiers) = 1
  PROVE  Spec => []CapRespected
<1>1. ReviewQueueInv => CapRespected
  <2> SUFFICES ASSUME ReviewQueueInv, Cap > 0, ~lags
               PROVE  Cardinality(Active(biz)) <= Cap + promotions
    BY DEF CapRespected
  <2>1. Cardinality(Active(biz)) + Cardinality(Admitting) <= Cap + 1 - 1 + promotions
    BY DEF ReviewQueueInv, Overshoot, OvershootBounded
  <2>2. Cap \in Nat /\ promotions \in Nat
    BY ReviewQueueAssumption DEF ReviewQueueInv, TypeOK, ReviewQueueAssumption
  <2> QED BY <2>1, <2>2, Counts
<1> QED BY <1>1, ReviewQueueInvariant, PTL

(* As long as all profiles fit on the first page of the table's scan, no
   business whose trade has an enabled profile is passed over
   (findProfileForBusiness, targeting.List). *)
THEOREM OnePageTheorem ==
  ASSUME Listed = Profiles
  PROVE  Spec => []NobodyPassedOver
<1>1. ReviewQueueInv => NobodyPassedOver
  <2> SUFFICES ASSUME ReviewQueueInv, NEW b \in Businesses, b \notin audits,
                      NEW p \in Profiles, p.enabled, p.vertical = Signals[b].vertical
               PROVE  b \in quals \cup crashed \/ \E q \in Qualifiers : qual[q].b = b
    BY DEF NobodyPassedOver
  <2>1. /\ IsFiniteSet(Matching(b)) /\ p \in Matching(b)
        /\ \A o \in Matching(b) : o.updated \in Nat
    <3>1. IsFiniteSet(Listed) /\ \A o \in Listed : o.updated \in Nat
      BY ReviewQueueAssumption DEF ReviewQueueAssumption, TargetingProfile
    <3>2. Matching(b) \subseteq Listed /\ p \in Matching(b)
      BY DEF Matching
    <3> QED BY <3>1, <3>2, FS_Subset
  <2>2. b \in Profiled
    <3>1. Matching(b) # {}
      BY <2>1
    <3>2. \E o \in Matching(b) : \A r \in Matching(b) : r.updated <= o.updated
      BY <2>1, <3>1, LastUpdated
    <3> QED BY <3>2 DEF Profiled, ProfileOf
  <2> QED BY <2>2 DEF ReviewQueueInv, TakenUp
<1> QED BY <1>1, ReviewQueueInvariant, PTL

(* Only a failure strands a business: until the first one, whoever has a
   positive Qualification and no qualifier at work has left "new"
   (updateBusinessStatus). *)
THEOREM StrandedTheorem == Spec => [](faults = 0 => NobodyStranded)
<1>1. ReviewQueueInv => (faults = 0 => NobodyStranded)
  BY DEF ReviewQueueInv, TakenUp, NobodyStranded
<1> QED BY <1>1, ReviewQueueInvariant, PTL
=============================================================================
