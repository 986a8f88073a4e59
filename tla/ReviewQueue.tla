---------------------------- MODULE ReviewQueue ----------------------------
(***************************************************************************)
(* The review-queue cap: qualifier Lambdas that admit an audited business  *)
(* or park it in the backlog, and backlog-promoter Lambdas that promote a  *)
(* parked one when a slot is freed.  Both look at the businesses through   *)
(* the gsi1 index, which may trail the table, and write them one by one.   *)
(*                                                                         *)
(* metrics-rollup counts the same index, one status after the other, while *)
(* the reply handlers write statuses of their own over those of the sale.  *)
(*                                                                         *)
(* Nothing under src/ frees slots yet, or records the steps of a sale:     *)
(* LeaveQueue is the external producer of queue.slot.freed that queue.go   *)
(* describes, and the writer of the statuses of the review and the sale.   *)
(***************************************************************************)
EXTENDS Scoring, FiniteSets, Sequences

CONSTANTS
  Businesses,  \* ids of audited businesses, each with one audit.completed event
  Signals,     \* Signals[b]: what its audit and its row say of it
  Profiles,    \* targeting profiles
  Listed,      \* those on the first page of the table's scan, all that List reads
  Threshold,   \* Thresholds.MinQualificationScore
  Cap,         \* Caps.MaxReviewQueueSize; 0 disables the gate
  Qualifiers,  \* qualifier containers
  Promoters,   \* backlog-promoter containers
  Later,       \* statuses that only code outside src/ writes
  RollupLags,  \* bound: whether gsi1 may trail when the rollup runs
  MaxReplies,  \* bound: statuses written for a reply
  MaxFaults,   \* bound: failures and crashes
  None

ASSUME ReviewQueueAssumption ==
  /\ Businesses \subseteq Nat /\ IsFiniteSet(Businesses)
  /\ IsFiniteSet(Qualifiers)
  /\ Signals \in [Businesses -> Signal]
  /\ Profiles \subseteq TargetingProfile /\ \A p \in Profiles : Validate(p)
  /\ Listed \subseteq Profiles /\ IsFiniteSet(Listed)
  /\ Threshold \in Int
  /\ Cap \in Nat
  /\ Later \subseteq {"awaiting_review", "approved", "regenerate_requested",
                     "email_drafted", "emailed", "converted"}
  /\ RollupLags \subseteq BOOLEAN
  /\ MaxReplies \in Nat
  /\ MaxFaults \in Nat
  /\ None \notin Businesses

VARIABLES
  lags,       \* whether gsi1 trails the table in this behaviour
  biz,        \* biz[b]: the Business row's status and awaitingPromotion
  index,      \* index[b]: what gsi1 shows of it
  audits,     \* businesses whose audit.completed is not taken up yet
  rollup,     \* the daily metrics-rollup and its funnel so far
  quals,      \* businesses with a Qualification row
  qual,       \* qual[q]: a qualification in progress
  freed,      \* queue.slot.freed events not taken up yet
  promo,      \* promo[p]: a promotion in progress
  announced,  \* announced[b]: website.qualified events for b
  replies,    \* statuses written for a reply so far
  promotions, \* history: flags cleared by promoters
  crashed,    \* history: businesses whose qualification was cut short
  faults      \* failures so far

tableVars == <<lags, biz, index, rollup>>
qualVars  == <<audits, quals, qual, crashed>>
promoVars == <<freed, promo, promotions>>
vars == <<tableVars, qualVars, promoVars, announced, replies, faults>>

\* metrics-rollup's FunnelStatuses.
FunnelStatuses ==
  <<"new", "auditing", "qualified", "rejected", "awaiting_review", "approved",
    "regenerate_requested", "rejected_after_review", "email_drafted", "emailed",
    "responded", "converted">>

\* "qualified" is status=qualified with awaitingPromotion false, "backlogged"
\* with it true; both are in one partition of gsi1.
States == {"new", "qualified", "backlogged", "rejected", "responded", "rejected_after_review"}
            \cup Later
Verdicts == {"qualified", "backlogged", "rejected"}
PartitionOf(s) == IF s = "backlogged" THEN "qualified" ELSE s
Rank(s) == CHOOSE k \in DOMAIN FunnelStatuses : FunnelStatuses[k] = PartitionOf(s)

Stored == Len(FunnelStatuses) + 1
NoRollup == [next |-> 0, total |-> 0, drift |-> 0]

NoQual  == [pc |-> "idle", b |-> None, verdict |-> "rejected"]
NoPromo == [pc |-> "idle", b |-> None]

TypeOK ==
  /\ lags \in BOOLEAN
  /\ biz \in [Businesses -> States]
  /\ index \in [Businesses -> States]
  /\ rollup \in [next : 0..Stored, total : Nat, drift : Int]
  /\ audits \subseteq Businesses
  /\ quals \subseteq Businesses
  /\ qual \in [Qualifiers ->
       [pc : {"row", "update", "publish"}, b : Businesses, verdict : Verdicts]
         \cup {NoQual}]
  /\ freed \in Nat
  /\ promo \in [Promoters ->
       [pc : {"clear", "publish"}, b : Businesses] \cup {NoPromo}]
  /\ announced \in [Businesses -> Nat]
  /\ replies \in 0..MaxReplies
  /\ promotions \in Nat
  /\ crashed \subseteq Businesses
  /\ faults \in 0..MaxFaults

Init ==
  /\ lags \in BOOLEAN
  /\ biz = [b \in Businesses |-> "new"]
  /\ index = biz
  /\ rollup = NoRollup
  /\ audits = Businesses
  /\ quals = {}
  /\ qual = [q \in Qualifiers |-> NoQual]
  /\ freed = 0
  /\ promo = [p \in Promoters |-> NoPromo]
  /\ announced = [b \in Businesses |-> 0]
  /\ replies = 0
  /\ promotions = 0
  /\ crashed = {}
  /\ faults = 0

\* One if the rollup has read the partition of s.
Read(s) == IF Rank(s) < rollup.next THEN 1 ELSE 0

\* gsi1 shows b as s; history: who moves past a rollup under way, ahead of it
\* less back behind it.
Show(b, s) ==
  /\ index' = [index EXCEPT ![b] = s]
  /\ rollup' = [rollup EXCEPT !.drift = @ + Read(index[b]) - Read(s)]

\* UpdateItem on the Business row.
SetState(b, s) ==
  /\ biz' = [biz EXCEPT ![b] = s]
  /\ UNCHANGED lags
  /\ IF lags THEN UNCHANGED <<index, rollup>> ELSE Show(b, s)

\* gsi1 catches up with one row.
Propagate(b) ==
  /\ index[b] # biz[b]
  /\ Show(b, biz[b])
  /\ UNCHANGED <<qualVars, promoVars, lags, biz, announced, replies, faults>>

-----------------------------------------------------------------------------
(* qualifier.runOne                                                        *)

\* findProfileForBusiness: the enabled profile of its vertical that was updated
\* last.
Matching(b) == {p \in Listed : p.enabled /\ p.vertical = Signals[b].vertical}
ProfileOf(b) == {p \in Matching(b) : \A o \in Matching(b) : o.updated <= p.updated}

Profiled == {b \in Businesses : ProfileOf(b) # {}}

Score == [b \in Profiled |-> PriorityScore(Signals[b], CHOOSE p \in ProfileOf(b) : TRUE)]
Fit == {b \in Profiled : Qualifies(Score[b], Threshold)}

\* CountActiveSlots over the index.
Active(view) == {b \in Businesses : view[b] = "qualified"}

\* Variant: the cap counts as reached one business too late.
DecideLate(q) ==
  /\ qual[q] = NoQual
  /\ \E b \in audits :
       /\ b \in Profiled
       /\ audits' = audits \ {b}
       /\ \E v \in Verdicts :
            /\ v = "rejected" <=> b \notin Fit
            /\ v = "backlogged" <=>
                 b \in Fit /\ Cap > 0 /\ Cardinality(Active(index)) > Cap
            /\ qual' = [qual EXCEPT ![q] = [pc |-> "row", b |-> b, verdict |-> v]]
  /\ UNCHANGED <<tableVars, promoVars, quals, announced, replies, faults, crashed>>

\* The score, and the backlog gate for a business that qualifies.
Decide(q) ==
  /\ qual[q] = NoQual
  /\ \E b \in audits :
       /\ b \in Profiled
       /\ audits' = audits \ {b}
       /\ \E v \in Verdicts :
            /\ v = "rejected" <=> b \notin Fit
            /\ v = "backlogged" <=>
                 b \in Fit /\ Cap > 0 /\ Cardinality(Active(index)) >= Cap
            /\ qual' = [qual EXCEPT ![q] = [pc |-> "row", b |-> b, verdict |-> v]]
  /\ UNCHANGED <<tableVars, promoVars, quals, announced, replies, faults, crashed>>

\* qualifier.profile.missing: the event is spent and nothing is written.
SkipBusiness(q) ==
  /\ qual[q] = NoQual
  /\ \E b \in audits :
       /\ b \notin Profiled
       /\ audits' = audits \ {b}
  /\ UNCHANGED <<tableVars, promoVars, quals, qual, announced, replies, faults, crashed>>

PutQualification(q) ==
  /\ qual[q].pc = "row"
  /\ quals' = quals \cup {qual[q].b}
  /\ qual' = [qual EXCEPT ![q].pc = "update"]
  /\ UNCHANGED <<tableVars, promoVars, audits, announced, replies, faults, crashed>>

\* updateBusinessStatus; its failure is logged and the handler carries on.
UpdateBusiness(q) ==
  /\ qual[q].pc = "update"
  /\ \/ /\ SetState(qual[q].b, qual[q].verdict)
        /\ UNCHANGED faults
     \/ /\ faults < MaxFaults
        /\ faults' = faults + 1
        /\ UNCHANGED tableVars
  /\ qual' = [qual EXCEPT ![q].pc = "publish"]
  /\ UNCHANGED <<promoVars, audits, quals, announced, replies, crashed>>

\* website.qualified when admitted, website.rejected when rejected, nothing
\* when parked.
PublishVerdict(q) ==
  /\ qual[q].pc = "publish"
  /\ announced' = IF qual[q].verdict = "qualified"
                  THEN [announced EXCEPT ![qual[q].b] = @ + 1]
                  ELSE announced
  /\ qual' = [qual EXCEPT ![q] = NoQual]
  /\ UNCHANGED <<tableVars, promoVars, audits, quals, replies, faults, crashed>>

\* A fatal error or the end of the container: the event is spent.
FailQual(q) ==
  /\ qual[q] # NoQual
  /\ faults < MaxFaults
  /\ faults' = faults + 1
  /\ crashed' = crashed \cup {qual[q].b}
  /\ qual' = [qual EXCEPT ![q] = NoQual]
  /\ UNCHANGED <<tableVars, promoVars, audits, quals, announced, replies>>

-----------------------------------------------------------------------------
(* backlog-promoter.runOne                                                 *)

\* The status=qualified partition of gsi1, parked businesses included.
Partition == {b \in Businesses : index[b] \in {"qualified", "backlogged"}}

\* The Query's Limit 1 applies before its filter: only the first business of
\* the partition is looked at.
TopBacklog ==
  {b \in Partition :
     /\ \A c \in Partition \ {b} : SortsBelow(Score[c], c, Score[b], b)
     /\ index[b] = "backlogged"}

FindTop(p) ==
  /\ promo[p] = NoPromo
  /\ freed > 0
  /\ freed' = freed - 1
  /\ \/ \E b \in TopBacklog :
          promo' = [promo EXCEPT ![p] = [pc |-> "clear", b |-> b]]
     \/ /\ TopBacklog = {}  \* nothing_to_promote
        /\ UNCHANGED promo
  /\ UNCHANGED <<tableVars, qualVars, announced, replies, promotions, faults>>

\* Variant: the flag is not cleared.
ClearFlagNever(p) ==
  /\ promo[p].pc = "clear"
  /\ promo[p].b \in quals
  /\ promo' = [promo EXCEPT ![p].pc = "publish"]
  /\ UNCHANGED <<tableVars, promotions, qualVars, freed, announced, replies, faults>>

\* The Qualification is read and found; the flag is cleared on condition that
\* it is set, and a failed condition counts as success.
ClearFlag(p) ==
  LET b == promo[p].b IN
  /\ promo[p].pc = "clear"
  /\ b \in quals
  /\ IF biz[b] = "backlogged"
     THEN SetState(b, "qualified") /\ promotions' = promotions + 1
     ELSE UNCHANGED <<tableVars, promotions>>
  /\ promo' = [promo EXCEPT ![p].pc = "publish"]
  /\ UNCHANGED <<qualVars, freed, announced, replies, faults>>

PublishPromoted(p) ==
  /\ promo[p].pc = "publish"
  /\ announced' = [announced EXCEPT ![promo[p].b] = @ + 1]
  /\ promo' = [promo EXCEPT ![p] = NoPromo]
  /\ UNCHANGED <<tableVars, qualVars, freed, replies, promotions, faults>>

FailPromo(p) ==
  /\ promo[p] # NoPromo
  /\ faults < MaxFaults
  /\ faults' = faults + 1
  /\ promo' = [promo EXCEPT ![p] = NoPromo]
  /\ UNCHANGED <<tableVars, qualVars, freed, announced, replies, promotions>>

-----------------------------------------------------------------------------
\* An announced business has been reviewed: it leaves the queue and
\* queue.slot.freed is published.
LeaveQueue(b) ==
  /\ biz[b] = "qualified"
  /\ announced[b] > 0
  /\ \E s \in Later : SetState(b, s)
  /\ freed' = freed + 1
  /\ UNCHANGED <<qualVars, promo, announced, replies, promotions, faults>>

\* reply-detector, reply-triage and api-replies set the status of a business
\* that was mailed, whatever it has become, unless it has converted.
SetStatus(b) ==
  /\ announced[b] > 0
  /\ biz[b] # "converted"
  /\ replies < MaxReplies
  /\ replies' = replies + 1
  /\ \E s \in {"responded", "rejected_after_review"} : SetState(b, s)
  /\ UNCHANGED <<qualVars, promoVars, announced, faults>>

-----------------------------------------------------------------------------
(* metrics-rollup                                                          *)

otherVars == <<lags, biz, index, qualVars, promoVars, announced, replies, faults>>

StartRollup ==
  /\ rollup = NoRollup
  /\ lags \in RollupLags
  /\ rollup' = [NoRollup EXCEPT !.next = 1]
  /\ UNCHANGED otherVars

\* The rows in a status's partition of gsi1.
StatusBreakdown(k) ==
  Cardinality({b \in Businesses : PartitionOf(index[b]) = FunnelStatuses[k]})

\* The next status anybody is ever in: the Queries between find no row.
Following(k) ==
  {n \in (k + 1)..Stored :
     /\ n = Stored \/ FunnelStatuses[n] \in States
     /\ \A j \in (k + 1)..(n - 1) : FunnelStatuses[j] \notin States}

\* Variant: the funnel is counted from its end.
CountStatusBackwards ==
  /\ rollup.next \in DOMAIN FunnelStatuses
  /\ \E k \in Following(rollup.next) :
       rollup' = [rollup EXCEPT !.total = @ + StatusBreakdown(Stored - rollup.next), !.next = k]
  /\ UNCHANGED otherVars

CountStatus ==
  /\ rollup.next \in DOMAIN FunnelStatuses
  /\ \E k \in Following(rollup.next) :
       rollup' = [rollup EXCEPT !.total = @ + StatusBreakdown(rollup.next), !.next = k]
  /\ UNCHANGED otherVars

\* The row of the day is put, or a Query or the PutItem fails and it stays as it
\* was.
EndRollup ==
  /\ rollup # NoRollup
  /\ rollup' = NoRollup
  /\ UNCHANGED otherVars

QualStep(q) ==
  Decide(q) \/ SkipBusiness(q) \/ PutQualification(q) \/ UpdateBusiness(q) \/ PublishVerdict(q)
PromoStep(p) == FindTop(p) \/ ClearFlag(p) \/ PublishPromoted(p)

Next ==
  \/ \E b \in Businesses : Propagate(b) \/ LeaveQueue(b) \/ SetStatus(b)
  \/ \E q \in Qualifiers : QualStep(q) \/ FailQual(q)
  \/ \E p \in Promoters : PromoStep(p) \/ FailPromo(p)
  \/ StartRollup \/ CountStatus \/ EndRollup

Spec == Init /\ [][Next]_vars

-----------------------------------------------------------------------------
(* Properties.                                                             *)

(* The cap is checked and then acted on without a lock.  What concurrent
   qualifiers may overshoot it by is bounded: one business for each of the
   other containers, and one for each promotion (the promoter trusts its
   event and does not count), as long as the index does not trail. *)
Admitting == {q \in Qualifiers :
                qual[q].pc \in {"row", "update"} /\ qual[q].verdict = "qualified"}

OvershootBounded ==
  Cap > 0 /\ ~lags =>
    Cardinality(Active(biz)) + Cardinality(Admitting)
      <= Cap + Cardinality(Qualifiers) - 1 + promotions

(* website.qualified always has its Qualification row behind it, and never
   goes out for a business that still waits in the backlog: nobody starts to
   work on a parked business. *)
AnnouncedIsAdmitted ==
  \A b \in Businesses :
    announced[b] > 0 => b \in quals /\ biz[b] # "backlogged"

(* A freed slot goes where it is worth most: no business parked in the index
   needs a new site more, by every signal of its audit, than the one a promoter
   picks (priority.go, through the sort key of gsi1). *)
PromotesTheNeediest ==
  [][\A p \in Promoters :
       (promo[p] = NoPromo /\ promo'[p] # NoPromo) =>
         \A c \in Businesses :
           index[c] = "backlogged" => ~Needier(Signals[c], Signals[promo'[p].b])]_vars

(* The funnel is read status by status while businesses change theirs.  It
   misses a business only if that replies back past it meanwhile, in the order of
   FunnelStatuses, as when a reply turns a yes into a no, and counts one twice
   only if it replies ahead past it (metrics-rollup). *)
FunnelMissesNobody ==
  rollup.next = Stored =>
    rollup.total = Cardinality(Businesses) + rollup.drift

(* queue.go: when the active count reaches the cap, new qualifying businesses
   are parked.  Then the cap is never exceeded, but by promotions. *)
CapRespected == Cap > 0 /\ ~lags => Cardinality(Active(biz)) <= Cap + promotions

(* backlog-promoter/main.go: a concurrently cleared flag is "Idempotent -
   treat as success".  Then a business is announced once. *)
AnnouncedOnce == \A b \in Businesses : announced[b] <= 1

(* findTopBacklog is said to query the rows where awaitingPromotion=true: a
   freed slot is not wasted while the index shows a parked business. *)
FreedSlotPromotes ==
  [][(freed' < freed /\ \E b \in Businesses : index[b] = "backlogged")
       => promo' # promo]_vars

(* findProfileForBusiness is said to "scan all enabled profiles".  Then a
   business whose trade has an enabled profile is not passed over. *)
NobodyPassedOver ==
  \A b \in Businesses :
    ((\E p \in Profiles : p.enabled /\ p.vertical = Signals[b].vertical) /\ b \notin audits)
      => b \in quals \cup crashed \/ \E q \in Qualifiers : qual[q].b = b

(* qualifier/main.go calls a failed status update not fatal.  Then a business
   with a positive Qualification is announced or waits in the backlog, once no
   qualifier works on it, unless its qualification was cut short. *)
NobodyStranded ==
  \A b \in (quals \cap Fit) \ crashed :
    (\A q \in Qualifiers : qual[q].b # b)
      => announced[b] > 0 \/ biz[b] # "new"
=============================================================================
