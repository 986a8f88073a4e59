------------------------------ MODULE Profiles ------------------------------
(***************************************************************************)
(* What the models are told: the style guides and tone profiles of each    *)
(* vertical, the deltas the weekly tuners propose for them from the        *)
(* operators' feedback, and the decisions on those deltas (api-tuners).    *)
(*                                                                         *)
(* A guide is a set of phrases with a version; spec-generator and          *)
(* email-draft cache what they make of it under that version.  Style       *)
(* guides and tone profiles are kept alike (pkg/style, pkg/tone).  Neither *)
(* they nor the deltas are read with ConsistentRead.                       *)
(***************************************************************************)
EXTENDS Integers, Sequences, FiniteSets, SequencesExt

CONSTANTS
  Tuners,       \* tuner Lambdas
  Order,        \* Order[t]: the profiles a tuner goes through, one per vertical
  Advisory,     \* profiles without a guide (kind "targeting")
  Phrases,
  Proposals,    \* what a model may propose: [add, remove : SUBSET Phrases]
  Requests,     \* concurrent api-tuners invocations
  None,
  MaxPasses,    \* bound: tuner passes in the week
  MaxVersion,   \* bound: versions of a guide
  MaxFaults     \* bound: failures

Profs == UNION {ToSet(Order[t]) : t \in Tuners}

ASSUME ProfilesAssumption ==
  /\ Order \in [Tuners -> Seq(Profs) \ {<<>>}]
  /\ IsFiniteSet(Requests)
  /\ Advisory \subseteq Profs
  /\ Proposals \subseteq [add : SUBSET Phrases, remove : SUBSET Phrases]
  /\ None \notin Profs \cup Proposals
  /\ None \notin [status : {"pending", "applied", "dismissed"}, proposal : Proposals]
  /\ MaxPasses \in Nat /\ MaxVersion \in Nat \ {0} /\ MaxFaults \in Nat

VARIABLES
  guide,      \* guide[p]: [version, items, etag]
  olderGuide, \* olderGuide[p]: the row before that, which a read may still return
  delta,      \* delta[p]: this week's TunerDelta of a profile, or None
  olderDelta, \* olderDelta[p]: what a read may still return of it
  tuner,      \* tuner[t]: a pass in progress
  passes,     \* passes begun
  req,        \* req[r]: an apply or dismiss in progress
  faults,
  \* history
  proposed,   \* proposed[p]: TunerDelta rows put
  decided,    \* decided[p]: Feedback rows of decisions
  merged,     \* merged[p]: proposals put into the guide
  written,    \* every [p, version, items] a guide has had
  clobbered,  \* clobbered[p]: puts over a guide other than the one etag-checked
  raced       \* profiles with a delta some decision has read as another proposal

tunerVars == <<tuner, passes, proposed>>
guideVars == <<guide, olderGuide, merged, written, clobbered>>
deltaVars == <<delta, olderDelta, raced>>
vars == <<tunerVars, guideVars, deltaVars, req, faults, decided>>

\* A guide or tone profile, by what tuners and readers of it tell apart.
Guide == [version : 1..MaxVersion, items : SUBSET Phrases, etag : Nat]

Delta == [status : {"pending", "applied", "dismissed"}, proposal : Proposals]

NoPass == [pc |-> "idle", i |-> 1, proposal |-> None]
NoRequest == [pc |-> "idle", op |-> "dismiss", prof |-> None, proposal |-> None,
              items |-> {}, version |-> 0, etag |-> 0]

TypeOK ==
  /\ guide \in [Profs -> Guide] /\ olderGuide \in [Profs -> Guide]
  /\ delta \in [Profs -> Delta \cup {None}] /\ olderDelta \in [Profs -> Delta \cup {None}]
  /\ tuner \in [Tuners -> [pc : {"idle", "fetch", "put"}, i : Nat, proposal : Proposals \cup {None}]]
  /\ \A t \in Tuners : tuner[t].pc # "idle" => tuner[t].i \in 1..Len(Order[t])
  /\ passes \in 0..MaxPasses
  /\ req \in [Requests ->
       [pc : {"load", "check", "put", "decide", "capture", "publish"},
        op : {"apply", "dismiss"}, prof : Profs, proposal : Proposals,
        items : SUBSET Phrases, version : 0..MaxVersion, etag : Nat] \cup {NoRequest}]
  /\ faults \in 0..MaxFaults
  /\ proposed \in [Profs -> Nat] /\ decided \in [Profs -> Nat]
  /\ merged \in [Profs -> SUBSET Proposals]
  /\ written \subseteq [prof : Profs, version : 1..MaxVersion, items : SUBSET Phrases]
  /\ clobbered \in [Profs -> Nat] /\ raced \subseteq Profs

\* Terraform seeds the guides at version 1.
Init ==
  /\ guide = [p \in Profs |-> [version |-> 1, items |-> {}, etag |-> 0]]
  /\ olderGuide = guide
  /\ delta = [p \in Profs |-> None] /\ olderDelta = delta
  /\ tuner = [t \in Tuners |-> NoPass]
  /\ passes = 0
  /\ req = [r \in Requests |-> NoRequest]
  /\ faults = 0
  /\ proposed = [p \in Profs |-> 0] /\ decided = [p \in Profs |-> 0]
  /\ merged = [p \in Profs |-> {}]
  /\ written = {[prof |-> p, version |-> 1, items |-> {}] : p \in Profs}
  /\ clobbered = [p \in Profs |-> 0] /\ raced = {}

Fault == faults < MaxFaults /\ faults' = faults + 1

-----------------------------------------------------------------------------
(* tunerlib.Run, one invocation of the weekly schedule or of its retries.  *)

Pass(t) ==
  /\ tuner[t].pc = "idle" /\ passes < MaxPasses
  /\ passes' = passes + 1
  /\ tuner' = [tuner EXCEPT ![t] = [NoPass EXCEPT !.pc = "fetch"]]
  /\ UNCHANGED <<guideVars, deltaVars, req, faults, proposed, decided>>

Current(t) == Order[t][tuner[t].i]

\* The next vertical, or the end of the pass.
Advance(t) ==
  tuner' = [tuner EXCEPT ![t] = IF @.i < Len(Order[t])
                                THEN [NoPass EXCEPT !.pc = "fetch", !.i = tuner[t].i + 1]
                                ELSE NoPass]

\* A vertical without feedback is skipped.
Skip(t) ==
  /\ tuner[t].pc = "fetch"
  /\ Advance(t)
  /\ UNCHANGED <<guideVars, deltaVars, req, faults, passes, proposed, decided>>

\* Feedback and profile are read and the model asked (module ModelCalls); a
\* tuner's answer is never cached, so each pass may propose something else.
Propose(t) ==
  /\ tuner[t].pc = "fetch"
  /\ \E x \in Proposals : tuner' = [tuner EXCEPT ![t].pc = "put", ![t].proposal = x]
  /\ UNCHANGED <<guideVars, deltaVars, req, faults, passes, proposed, decided>>

WriteDelta(p, row) ==
  /\ delta' = [delta EXCEPT ![p] = row]
  /\ olderDelta' = [olderDelta EXCEPT ![p] = delta[p]]

\* Requests that have read p's delta and not decided on it yet.
Deciding(p) == {r \in Requests : req[r].prof = p /\ req[r].pc \in {"load", "check", "put", "decide"}}

\* PutDelta, unconditional, under an id of week, kind and vertical: a pass
\* repeated in its week proposes again what may have been decided by now.
PutDelta(t) ==
  /\ tuner[t].pc = "put"
  /\ WriteDelta(Current(t), [status |-> "pending", proposal |-> tuner[t].proposal])
  /\ raced' = IF \E r \in Deciding(Current(t)) : req[r].proposal # tuner[t].proposal
              THEN raced \cup {Current(t)} ELSE raced \ {Current(t)}
  /\ proposed' = [proposed EXCEPT ![Current(t)] = @ + 1]
  /\ Advance(t)
  /\ UNCHANGED <<guideVars, req, faults, passes, decided>>

\* Any error ends the pass; the schedule's retry starts at the first vertical.
\* An exhausted budget ends it as well, without a retry.
FailPass(t) ==
  /\ tuner[t].pc # "idle"
  /\ Fault
  /\ tuner' = [tuner EXCEPT ![t] = NoPass]
  /\ UNCHANGED <<guideVars, deltaVars, req, passes, proposed, decided>>

-----------------------------------------------------------------------------
(* api-tuners                                                              *)

Close(r) == req' = [req EXCEPT ![r] = NoRequest]

\* What getDelta and Get may return.
DeltasRead(p) == {delta[p], olderDelta[p]} \ {None}
GuidesRead(p) == {guide[p], olderGuide[p]}

\* handleDecision: the delta is read and must be pending.
Open(r) ==
  /\ req[r] = NoRequest
  /\ \E p \in Profs, op \in {"apply", "dismiss"} : \E d \in DeltasRead(p) :
       /\ d.status = "pending"
       /\ req' = [req EXCEPT ![r] =
            [NoRequest EXCEPT !.pc = IF op = "apply" /\ p \notin Advisory THEN "load" ELSE "decide",
                              !.op = op, !.prof = p, !.proposal = d.proposal]]
       /\ raced' = IF d.proposal # delta[p].proposal THEN raced \cup {p} ELSE raced
  /\ UNCHANGED <<tunerVars, guideVars, delta, olderDelta, faults, decided>>

\* mergeList
Merge(items, proposal) == (items \cup proposal.add) \ proposal.remove

\* applyDelta: Get and the merge.
LoadGuide(r) ==
  /\ req[r].pc = "load"
  /\ \E g \in GuidesRead(req[r].prof) :
       req' = [req EXCEPT ![r].pc = "check", ![r].etag = g.etag, ![r].version = g.version,
                          ![r].items = Merge(g.items, req[r].proposal)]
  /\ UNCHANGED <<tunerVars, guideVars, deltaVars, faults, decided>>

\* Variant: Update leaves the version to its caller.
CheckEtagOnly(r) ==
  /\ req[r].pc = "check"
  /\ \E current \in GuidesRead(req[r].prof) :
       IF current.etag = req[r].etag
       THEN req' = [req EXCEPT ![r].pc = "put"]
       ELSE Close(r)
  /\ UNCHANGED <<tunerVars, guideVars, deltaVars, faults, decided>>

\* Update, first half: the row is read again, its etag compared and the
\* version raised above it.
CheckEtag(r) ==
  /\ req[r].pc = "check"
  /\ \E current \in GuidesRead(req[r].prof) :
       IF current.etag = req[r].etag
       THEN /\ current.version < MaxVersion
            /\ req' = [req EXCEPT ![r].pc = "put",
                 ![r].version = IF @ <= current.version THEN current.version + 1 ELSE @]
       ELSE Close(r)
  /\ UNCHANGED <<tunerVars, guideVars, deltaVars, faults, decided>>

\* Update, second half: putItem, unconditional, with a new etag.
PutGuide(r) ==
  LET p == req[r].prof IN
  /\ req[r].pc = "put"
  /\ guide' = [guide EXCEPT ![p] = [version |-> req[r].version, items |-> req[r].items,
                                    etag |-> @.etag + 1]]
  /\ olderGuide' = [olderGuide EXCEPT ![p] = guide[p]]
  /\ clobbered' = IF guide[p].etag = req[r].etag THEN clobbered
                  ELSE [clobbered EXCEPT ![p] = @ + 1]
  /\ written' = written \cup {[prof |-> p, version |-> req[r].version, items |-> req[r].items]}
  /\ merged' = [merged EXCEPT ![p] = @ \cup {req[r].proposal}]
  /\ req' = [req EXCEPT ![r].pc = "decide"]
  /\ UNCHANGED <<tunerVars, deltaVars, faults, decided>>

Decision(r) == IF req[r].op = "apply" THEN "applied" ELSE "dismissed"

\* Variant: the status is set whatever it is by now.
DecideAnyway(r) ==
  LET p == req[r].prof IN
  /\ req[r].pc = "decide"
  /\ WriteDelta(p, [delta[p] EXCEPT !.status = Decision(r)])
  /\ req' = [req EXCEPT ![r].pc = "capture"]
  /\ UNCHANGED <<tunerVars, guideVars, raced, faults, decided>>

\* setDeltaStatus, on the condition that the delta is pending; else 409.
Decide(r) ==
  LET p == req[r].prof IN
  /\ req[r].pc = "decide"
  /\ IF delta[p].status = "pending"
     THEN /\ WriteDelta(p, [delta[p] EXCEPT !.status = Decision(r)])
          /\ req' = [req EXCEPT ![r].pc = "capture"]
     ELSE Close(r) /\ UNCHANGED <<delta, olderDelta>>
  /\ UNCHANGED <<tunerVars, guideVars, raced, faults, decided>>

\* feedback.Capture: the audit row of the decision.
Capture(r) ==
  /\ req[r].pc = "capture"
  /\ decided' = [decided EXCEPT ![req[r].prof] = @ + 1]
  /\ IF req[r].op = "apply" THEN req' = [req EXCEPT ![r].pc = "publish"] ELSE Close(r)
  /\ UNCHANGED <<tunerVars, guideVars, deltaVars, faults>>

\* profile.updated
PublishUpdated(r) ==
  /\ req[r].pc = "publish"
  /\ Close(r)
  /\ UNCHANGED <<tunerVars, guideVars, deltaVars, faults, decided>>

\* Variant: a failed update of the guide is only logged.
FailApplyLogged(r) ==
  /\ req[r] # NoRequest
  /\ Fault
  /\ IF req[r].pc = "put" THEN req' = [req EXCEPT ![r].pc = "decide"] ELSE Close(r)
  /\ UNCHANGED <<tunerVars, guideVars, deltaVars, decided>>

\* Any step fails (500), and what was written before it stays.
FailApply(r) ==
  /\ req[r] # NoRequest
  /\ Fault
  /\ Close(r)
  /\ UNCHANGED <<tunerVars, guideVars, deltaVars, decided>>

-----------------------------------------------------------------------------
TunerStep(t) == Pass(t) \/ Skip(t) \/ Propose(t) \/ PutDelta(t) \/ FailPass(t)

RequestStep(r) ==
  \/ Open(r) \/ LoadGuide(r) \/ CheckEtag(r) \/ PutGuide(r) \/ Decide(r)
  \/ Capture(r) \/ PublishUpdated(r) \/ FailApply(r)

Next ==
  \/ \E t \in Tuners : TunerStep(t)
  \/ \E r \in Requests : RequestStep(r)

Spec == Init /\ [][Next]_vars

-----------------------------------------------------------------------------
(* Properties                                                              *)

\* Each proposal is decided once: clicks that race, and decisions on a row the
\* tuner puts again, leave no more audit rows than proposals (setDeltaStatus).
DecidedOncePerProposal == \A p \in Profs : decided[p] <= proposed[p]

\* The proposal on a delta that says applied has been merged into its guide,
\* whatever failed in between and however often the tuner has put the row,
\* unless a decision was under way that had read another proposal than the
\* row's (handleDecision, setDeltaStatus).
AppliedWasMerged ==
  \A p \in Profs \ Advisory :
    (delta[p] # None /\ delta[p].status = "applied")
      => delta[p].proposal \in merged[p] \/ p \in raced

\* The contents a guide has had under a version.
Contents(p, version) == {x.items : x \in {y \in written : y.prof = p /\ y.version = version}}

\* A version names one content of a guide, and one more for every put that
\* went over a guide other than the one whose etag was compared: applies that
\* overlap, or that follow each other within the lag of a read, and nothing
\* else (style.Update, tone.Update).
VersionNamesContent ==
  \A p \in Profs, v \in 1..MaxVersion : Cardinality(Contents(p, v)) <= 1 + clobbered[p]

\* style.go:230: "two writes must never share a version".
VersionsAreUnique == \A p \in Profs, v \in 1..MaxVersion : Cardinality(Contents(p, v)) <= 1

\* api-tuners/main.go:6: apply is to "mutate the live profile from the
\* proposal": the one on the row that then says applied.
AppliedIsTheProposal ==
  \A p \in Profs \ Advisory :
    (delta[p] # None /\ delta[p].status = "applied") => delta[p].proposal \in merged[p]
=============================================================================
