---------------------------- MODULE ProfilesProofs ----------------------------
(***************************************************************************)
(* Proofs about Profiles: racing decisions and repeated proposals leave no *)
(* more decisions than proposals, an applied proposal has been merged      *)
(* unless a decision crossed it, and a guide's version names as many       *)
(* contents as puts have gone over a guide they had not been checked for.  *)
(***************************************************************************)
EXTENDS Profiles, FiniteSetTheorems, TLAPS

RequestRow ==
  [pc : {"load", "check", "put", "decide", "capture", "publish"},
   op : {"apply", "dismiss"}, prof : Profs, proposal : Proposals,
   items : SUBSET Phrases, version : 0..MaxVersion, etag : Nat]

\* What a request is filled in from.
BlankRow ==
  [pc : {"idle"}, op : {"apply", "dismiss"}, prof : {None}, proposal : {None},
   items : SUBSET Phrases, version : 0..MaxVersion, etag : Nat]

PassRow == [pc : {"idle", "fetch", "put"}, i : Nat, proposal : Proposals \cup {None}]

\* A pass that puts has its proposal, a request its delta, and a guide that is
\* about to be put a version.
Typed ==
  /\ TypeOK
  /\ \A t \in Tuners : tuner[t].pc = "put" => tuner[t].proposal \in Proposals
  /\ \A p \in Profs : olderDelta[p] \in Delta => delta[p] \in Delta
  /\ \A r \in Requests :
       /\ req[r].pc # "idle" => delta[req[r].prof] \in Delta
       /\ req[r].pc = "put" => req[r].version # 0

LEMMA Shapes ==
  ASSUME TypeOK
  PROVE  /\ guide \in [Profs -> Guide] /\ olderGuide \in [Profs -> Guide]
         /\ delta \in [Profs -> Delta \cup {None}] /\ olderDelta \in [Profs -> Delta \cup {None}]
         /\ req \in [Requests -> RequestRow \cup {NoRequest}]
         /\ NoRequest.pc = "idle"
         /\ \A r \in Requests : req[r].pc # "idle" => req[r] \in RequestRow
         /\ \A r \in Requests : req[r] # NoRequest => req[r] \in RequestRow
         /\ tuner \in [Tuners -> PassRow]
         /\ \A t \in Tuners : tuner[t].pc # "idle" => Current(t) \in Profs
<1>1. req \in [Requests -> RequestRow \cup {NoRequest}] /\ NoRequest.pc = "idle"
  BY DEF TypeOK, RequestRow, NoRequest
<1>2. ASSUME NEW t \in Tuners, tuner[t].pc # "idle" PROVE Current(t) \in Profs
  <2>1. tuner[t].i \in 1..Len(Order[t]) /\ Order[t] \in Seq(Profs)
    BY <1>2, ProfilesAssumption DEF TypeOK, ProfilesAssumption
  <2> QED BY <2>1 DEF Current
<1> QED BY <1>1, <1>2 DEF TypeOK, PassRow

LEMMA NoneIsNoDelta == None \notin Delta
BY ProfilesAssumption DEF ProfilesAssumption, Delta

-----------------------------------------------------------------------------
(* Types                                                                   *)

\* Deltas that keep their type, and are never taken away.
DeltaKept ==
  /\ delta' \in [Profs -> Delta \cup {None}] /\ olderDelta' \in [Profs -> Delta \cup {None}]
  /\ raced' \subseteq Profs
  /\ \A p \in Profs : delta[p] \in Delta \/ olderDelta'[p] \in Delta => delta'[p] \in Delta

LEMMA DeltaSame ==
  ASSUME Typed, UNCHANGED <<delta, olderDelta>>, raced' \subseteq Profs
  PROVE  DeltaKept
BY DEF Typed, TypeOK, DeltaKept

LEMMA DeltaPut ==
  ASSUME Typed, NEW p \in Profs, NEW row \in Delta, WriteDelta(p, row), raced' \subseteq Profs
  PROVE  DeltaKept /\ delta'[p] = row /\ \A q \in Profs \ {p} : delta'[q] = delta[q]
<1>1. delta \in [Profs -> Delta \cup {None}] /\ olderDelta \in [Profs -> Delta \cup {None}]
  BY DEF Typed, TypeOK
<1>2. /\ delta' = [delta EXCEPT ![p] = row]
      /\ olderDelta' = [olderDelta EXCEPT ![p] = delta[p]]
  BY DEF WriteDelta
<1>3. /\ delta'[p] = row /\ \A q \in Profs \ {p} : delta'[q] = delta[q]
      /\ \A q \in Profs \ {p} : olderDelta'[q] = olderDelta[q]
  BY <1>1, <1>2
<1>4. delta' \in [Profs -> Delta \cup {None}] /\ olderDelta' \in [Profs -> Delta \cup {None}]
  BY <1>1, <1>2
<1>5. \A q \in Profs : delta[q] \in Delta \/ olderDelta'[q] \in Delta => delta'[q] \in Delta
  BY <1>3 DEF Typed
<1> QED BY <1>3, <1>4, <1>5 DEF DeltaKept

LEMMA InitTyped == Init => Typed
<1> SUFFICES ASSUME Init PROVE Typed
  OBVIOUS
<1> USE ProfilesAssumption DEF ProfilesAssumption
<1>1. tuner = [t \in Tuners |-> NoPass] /\ NoPass \in PassRow /\ NoPass.pc = "idle"
  BY DEF Init, NoPass, PassRow
<1>2. req = [r \in Requests |-> NoRequest] /\ NoRequest.pc = "idle"
  BY DEF Init, NoRequest
<1>3. /\ tuner \in [Tuners -> PassRow] /\ \A t \in Tuners : tuner[t].pc = "idle"
      /\ \A r \in Requests : req[r].pc = "idle"
  BY <1>1, <1>2
<1>4. guide \in [Profs -> Guide]
  BY DEF Init, Guide
<1>5. written \subseteq [prof : Profs, version : 1..MaxVersion, items : SUBSET Phrases]
  BY DEF Init
<1>6. merged \in [Profs -> SUBSET Proposals] /\ olderGuide \in [Profs -> Guide]
  BY <1>4 DEF Init
<1>7. /\ req \in [Requests -> RequestRow \cup {NoRequest}]
      /\ delta \in [Profs -> Delta \cup {None}] /\ olderDelta \in [Profs -> Delta \cup {None}]
  BY <1>2 DEF Init
<1>8. /\ passes = 0 /\ faults = 0 /\ raced = {}
      /\ proposed \in [Profs -> Nat] /\ decided \in [Profs -> Nat] /\ clobbered \in [Profs -> Nat]
  BY DEF Init
<1>10. passes \in 0..MaxPasses /\ faults \in 0..MaxFaults
  BY <1>8
<1>11. raced \subseteq Profs /\ \A p \in Profs : olderDelta[p] \in Delta => delta[p] \in Delta
  BY <1>8 DEF Init
<1>12. \A t \in Tuners : tuner[t].pc # "idle" => tuner[t].i \in 1..Len(Order[t])
  BY <1>3
<1> HIDE DEF ProfilesAssumption
<1>9. TypeOK
  BY <1>3, <1>4, <1>5, <1>6, <1>7, <1>8, <1>10, <1>11, <1>12 DEF TypeOK, PassRow, RequestRow
<1> QED BY <1>3, <1>9, <1>11 DEF Typed

LEMMA TunerTyped ==
  ASSUME Typed, NEW t \in Tuners, TunerStep(t)
  PROVE  Typed'
<1> USE ProfilesAssumption DEF ProfilesAssumption
<1>0. /\ TypeOK /\ tuner[t] \in PassRow /\ NoPass \in PassRow /\ NoPass.pc = "idle"
      /\ tuner \in [Tuners -> PassRow]
      /\ Order[t] \in Seq(Profs) /\ Len(Order[t]) >= 1
  BY Shapes DEF Typed, NoPass, PassRow
<1>t. /\ faults \in 0..MaxFaults /\ passes \in 0..MaxPasses
      /\ proposed \in [Profs -> Nat] /\ delta \in [Profs -> Delta \cup {None}]
  BY <1>0 DEF TypeOK
\* A pass that changes, and perhaps one delta.
<1>a. ASSUME \A x \in Tuners \ {t} : tuner'[x] = tuner[x],
             tuner' \in [Tuners -> PassRow],
             tuner'[t].pc # "idle" => tuner'[t].i \in 1..Len(Order[t]),
             tuner'[t].pc = "put" => tuner'[t].proposal \in Proposals,
             UNCHANGED <<guideVars, req, decided>>,
             faults' \in 0..MaxFaults, passes' \in 0..MaxPasses,
             proposed' \in [Profs -> Nat], DeltaKept
      PROVE  Typed'
  <2>1. \A x \in Tuners : tuner'[x].pc # "idle" => tuner'[x].i \in 1..Len(Order[x])
    BY <1>0, <1>a DEF TypeOK
  <2>2. TypeOK'
    BY <1>0, <1>a, <2>1 DEF guideVars, TypeOK, PassRow, DeltaKept
  <2>3. \A x \in Tuners : tuner'[x].pc = "put" => tuner'[x].proposal \in Proposals
    BY <1>a DEF Typed
  <2>4. \A r \in Requests :
          /\ req'[r].pc # "idle" => delta'[req'[r].prof] \in Delta
          /\ req'[r].pc = "put" => req'[r].version # 0
    <3>1. \A r \in Requests : req[r].pc # "idle" => req[r].prof \in Profs
      BY <1>0, Shapes DEF RequestRow
    <3> QED BY <1>a, <3>1 DEF Typed, DeltaKept
  <2> QED BY <1>a, <2>2, <2>3, <2>4 DEF Typed, DeltaKept
<1>s. UNCHANGED deltaVars => DeltaKept
  BY <1>0, DeltaSame DEF deltaVars, TypeOK
<1>b. ASSUME tuner[t].pc # "idle", Advance(t)
      PROVE  /\ \A x \in Tuners \ {t} : tuner'[x] = tuner[x]
             /\ tuner' \in [Tuners -> PassRow]
             /\ tuner'[t].pc # "idle" => tuner'[t].i \in 1..Len(Order[t])
             /\ tuner'[t].pc # "put"
  <2>1. PICK row \in PassRow : /\ tuner' = [tuner EXCEPT ![t] = row]
                               /\ row.pc # "idle" => row.i \in 1..Len(Order[t])
                               /\ row.pc # "put"
    <3>1. CASE tuner[t].i < Len(Order[t])
      <4> DEFINE row == [NoPass EXCEPT !.pc = "fetch", !.i = tuner[t].i + 1]
      <4>1. tuner[t].i + 1 \in 1..Len(Order[t]) /\ tuner[t].i + 1 \in Nat
        BY <1>0, <1>b, <3>1 DEF TypeOK
      <4>2. row \in PassRow /\ row.pc = "fetch" /\ row.i = tuner[t].i + 1
        BY <1>0, <4>1 DEF PassRow
      <4>3. tuner' = [tuner EXCEPT ![t] = row]
        BY <1>b, <3>1 DEF Advance
      <4> HIDE DEF row
      <4> QED BY <4>1, <4>2, <4>3
    <3>2. CASE ~(tuner[t].i < Len(Order[t]))
      BY <1>0, <1>b, <3>2 DEF Advance
    <3> QED BY <3>1, <3>2
  <2> QED BY <1>0, <2>1
<1>1. CASE Pass(t)
  <2> DEFINE row == [NoPass EXCEPT !.pc = "fetch"]
  <2>1. row \in PassRow /\ row.pc = "fetch" /\ row.i = 1
    BY <1>0 DEF PassRow, NoPass
  <2>2. tuner' = [tuner EXCEPT ![t] = row]
    BY <1>1 DEF Pass
  <2>3. passes' \in 0..MaxPasses
    BY <1>t, <1>1 DEF Pass
  <2> HIDE DEF row
  <2>4. /\ tuner' \in [Tuners -> PassRow] /\ tuner'[t] = row
        /\ \A x \in Tuners \ {t} : tuner'[x] = tuner[x]
    BY <1>0, <2>1, <2>2
  <2>5. tuner'[t].i \in 1..Len(Order[t]) /\ tuner'[t].pc # "put"
    BY <1>0, <2>1, <2>4
  <2>6. UNCHANGED <<guideVars, deltaVars, req, faults, proposed, decided>>
    BY <1>1 DEF Pass
  <2> QED BY <1>t, <1>a, <1>s, <2>3, <2>4, <2>5, <2>6
<1>2. CASE Skip(t)
  <2>1. tuner[t].pc # "idle" /\ Advance(t)
    BY <1>2 DEF Skip
  <2> QED BY <1>0, <1>2, <1>a, <1>b, <1>s, <2>1 DEF Skip, TypeOK
<1>3. CASE Propose(t)
  <2>1. PICK x \in Proposals : tuner' = [tuner EXCEPT ![t].pc = "put", ![t].proposal = x]
    BY <1>3 DEF Propose
  <2> DEFINE row == [tuner[t] EXCEPT !.pc = "put", !.proposal = x]
  <2>2. row \in PassRow /\ row.i = tuner[t].i /\ row.proposal = x
    BY <1>0 DEF PassRow
  <2>3. tuner' = [tuner EXCEPT ![t] = row]
    BY <1>0, <2>1
  <2>4. tuner[t].i \in 1..Len(Order[t])
    BY <1>0, <1>3 DEF Propose, TypeOK
  <2> HIDE DEF row
  <2> QED BY <1>0, <1>3, <1>a, <1>s, <2>2, <2>3, <2>4 DEF Propose, TypeOK
<1>4. CASE PutDelta(t)
  <2>1. tuner[t].pc # "idle" /\ Advance(t) /\ tuner[t].proposal \in Proposals
    BY <1>4 DEF PutDelta, Typed
  <2>2. Current(t) \in Profs
    BY <1>0, <2>1, Shapes
  <2>3. [status |-> "pending", proposal |-> tuner[t].proposal] \in Delta
    BY <2>1 DEF Delta
  <2>4. DeltaKept
    <3>1. raced' \subseteq Profs
      BY <1>0, <1>4, <2>2 DEF PutDelta, TypeOK
    <3>2. WriteDelta(Current(t), [status |-> "pending", proposal |-> tuner[t].proposal])
      BY <1>4 DEF PutDelta
    <3> QED BY <2>2, <2>3, <3>1, <3>2, DeltaPut
  <2>5. proposed' \in [Profs -> Nat]
    BY <1>t, <1>4, <2>2 DEF PutDelta
  <2> QED BY <1>0, <1>4, <1>a, <1>b, <2>1, <2>4, <2>5 DEF PutDelta, TypeOK
<1>5. CASE FailPass(t)
  <2>1. tuner' = [tuner EXCEPT ![t] = NoPass] /\ faults' \in 0..MaxFaults
    BY <1>0, <1>5 DEF FailPass, Fault, TypeOK
  <2> QED BY <1>0, <1>5, <1>a, <1>s, <2>1 DEF FailPass, TypeOK
<1> QED BY <1>1, <1>2, <1>3, <1>4, <1>5 DEF TunerStep

\* A request that changes to a row of its type, over deltas that stay.
LEMMA RequestRowTyped ==
  ASSUME Typed, NEW r \in Requests, NEW row \in RequestRow \cup {NoRequest},
         req' = [req EXCEPT ![r] = row],
         row.pc # "idle" => delta[row.prof] \in Delta,
         row.pc = "put" => row.version # 0,
         UNCHANGED delta
  PROVE  /\ req' \in [Requests -> RequestRow \cup {NoRequest}]
         /\ \A x \in Requests :
              /\ req'[x].pc # "idle" => delta'[req'[x].prof] \in Delta
              /\ req'[x].pc = "put" => req'[x].version # 0
<1>1. req \in [Requests -> RequestRow \cup {NoRequest}]
  BY Shapes DEF Typed
<1> QED BY <1>1 DEF Typed

LEMMA GuideTyped ==
  ASSUME Typed, NEW r \in Requests, LoadGuide(r) \/ CheckEtag(r) \/ PutGuide(r)
  PROVE  Typed'
<1> USE ProfilesAssumption DEF ProfilesAssumption
<1>0. /\ TypeOK /\ req[r] \in RequestRow /\ guide[req[r].prof] \in Guide
      /\ req \in [Requests -> RequestRow \cup {NoRequest}]
      /\ delta[req[r].prof] \in Delta
  <2>1. req[r].pc # "idle"
    BY DEF LoadGuide, CheckEtag, PutGuide
  <2> QED BY <2>1, Shapes DEF Typed, RequestRow
<1>1. UNCHANGED <<tunerVars, deltaVars, delta, faults, decided>>
  BY DEF LoadGuide, CheckEtag, PutGuide, deltaVars
<1>2. /\ req[r].prof \in Profs /\ req[r].proposal \in Proposals /\ req[r].items \subseteq Phrases
      /\ req[r].version \in 0..MaxVersion
      /\ guide[req[r].prof].etag \in Nat /\ guide[req[r].prof].version \in 1..MaxVersion
      /\ guide[req[r].prof].items \subseteq Phrases
  BY <1>0 DEF RequestRow, Guide
<1>g. ASSUME NEW g \in GuidesRead(req[r].prof)
      PROVE  g.etag \in Nat /\ g.version \in 1..MaxVersion /\ g.items \subseteq Phrases
  <2>1. g \in Guide
    BY <1>0, <1>2, <1>g DEF GuidesRead, TypeOK
  <2> QED BY <2>1 DEF Guide
<1>a. ASSUME req' \in [Requests -> RequestRow \cup {NoRequest}],
             \A x \in Requests :
               /\ req'[x].pc # "idle" => delta'[req'[x].prof] \in Delta
               /\ req'[x].pc = "put" => req'[x].version # 0,
             guide' \in [Profs -> Guide], olderGuide' \in [Profs -> Guide],
             merged' \in [Profs -> SUBSET Proposals],
             written' \subseteq [prof : Profs, version : 1..MaxVersion, items : SUBSET Phrases],
             clobbered' \in [Profs -> Nat]
      PROVE  Typed'
  BY <1>0, <1>1, <1>a DEF Typed, TypeOK, RequestRow, tunerVars, deltaVars, Current
<1>3. CASE LoadGuide(r)
  <2>0. PICK g \in GuidesRead(req[r].prof) :
          req' = [req EXCEPT ![r].pc = "check", ![r].etag = g.etag, ![r].version = g.version,
                             ![r].items = Merge(g.items, req[r].proposal)]
    BY <1>3 DEF LoadGuide
  <2> DEFINE items == Merge(g.items, req[r].proposal)
             row == [req[r] EXCEPT !.pc = "check", !.etag = g.etag,
                       !.version = g.version, !.items = items]
  <2>1. items \in SUBSET Phrases
    <3>1. req[r].proposal.add \subseteq Phrases
      BY <1>2
    <3> QED BY <1>g, <3>1 DEF Merge
  <2>6. req' = [req EXCEPT ![r].pc = "check", ![r].etag = g.etag,
                           ![r].version = g.version, ![r].items = items]
    BY <2>0
  <2> HIDE DEF items
  <2>7. g.version \in 0..MaxVersion /\ g.etag \in Nat
    BY <1>g
  <2>2. row \in RequestRow /\ row.pc = "check" /\ row.prof = req[r].prof
    BY <1>0, <1>2, <2>1, <2>7 DEF RequestRow
  <2>3. req' = [req EXCEPT ![r] = row]
    BY <1>0, <2>6
  <2> HIDE DEF row
  <2>4. /\ req' \in [Requests -> RequestRow \cup {NoRequest}]
        /\ \A x \in Requests :
             /\ req'[x].pc # "idle" => delta'[req'[x].prof] \in Delta
             /\ req'[x].pc = "put" => req'[x].version # 0
    BY <1>0, <1>1, <2>2, <2>3, RequestRowTyped
  <2>5. UNCHANGED guideVars
    BY <1>3 DEF LoadGuide
  <2> QED BY <1>0, <1>a, <2>4, <2>5 DEF TypeOK, guideVars
<1>4. CASE CheckEtag(r)
  <2>1. PICK row \in RequestRow \cup {NoRequest} :
          /\ req' = [req EXCEPT ![r] = row]
          /\ row.pc # "idle" => row.prof = req[r].prof
          /\ row.pc = "put" => row.version # 0
    <3>0. PICK g \in GuidesRead(req[r].prof) :
            IF g.etag = req[r].etag
            THEN /\ g.version < MaxVersion
                 /\ req' = [req EXCEPT ![r].pc = "put",
                      ![r].version = IF @ <= g.version THEN g.version + 1 ELSE @]
            ELSE Close(r)
      BY <1>4 DEF CheckEtag
    <3>1. CASE g.etag = req[r].etag
      <4> DEFINE v == IF req[r].version <= g.version THEN g.version + 1 ELSE req[r].version
                 row == [req[r] EXCEPT !.pc = "put", !.version = v]
      <4>1. v \in 1..MaxVersion
        BY <1>2, <1>g, <3>0, <3>1
      <4>4. v \in 0..MaxVersion /\ v # 0
        BY <4>1
      <4>3. req' = [req EXCEPT ![r] = row]
        BY <1>0, <3>0, <3>1
      <4> HIDE DEF v
      <4>2. row \in RequestRow /\ row.prof = req[r].prof /\ row.version = v
        BY <1>0, <4>4 DEF RequestRow
      <4> HIDE DEF row
      <4> QED BY <4>2, <4>3, <4>4
    <3>2. CASE ~(g.etag = req[r].etag)
      <4>1. req' = [req EXCEPT ![r] = NoRequest]
        BY <3>0, <3>2 DEF Close
      <4>2. NoRequest.pc = "idle"
        BY DEF NoRequest
      <4> QED BY <4>1, <4>2
    <3> QED BY <3>1, <3>2
  <2>2. /\ req' \in [Requests -> RequestRow \cup {NoRequest}]
        /\ \A x \in Requests :
             /\ req'[x].pc # "idle" => delta'[req'[x].prof] \in Delta
             /\ req'[x].pc = "put" => req'[x].version # 0
    BY <1>0, <1>1, <2>1, RequestRowTyped
  <2>3. UNCHANGED guideVars
    BY <1>4 DEF CheckEtag
  <2> QED BY <1>0, <1>a, <2>2, <2>3 DEF TypeOK, guideVars
<1>5. CASE PutGuide(r)
  <2> DEFINE row == [req[r] EXCEPT !.pc = "decide"]
             p == req[r].prof
             made == [version |-> req[r].version, items |-> req[r].items, etag |-> guide[p].etag + 1]
  <2>1. row \in RequestRow /\ row.prof = req[r].prof /\ row.pc = "decide"
    BY <1>0 DEF RequestRow
  <2>2. req' = [req EXCEPT ![r] = row]
    BY <1>0, <1>5 DEF PutGuide
  <2>3. req[r].version \in 1..MaxVersion
    BY <1>2, <1>5 DEF PutGuide, Typed
  <2>4. made \in Guide
    BY <1>2, <2>3 DEF Guide
  <2>5. guide' = [guide EXCEPT ![p] = made]
    BY <1>5 DEF PutGuide
  <2> HIDE DEF row, made
  <2>6. guide' \in [Profs -> Guide] /\ olderGuide' \in [Profs -> Guide]
    <3>1. olderGuide' = [olderGuide EXCEPT ![p] = guide[p]] /\ guide[p] \in Guide
      BY <1>0, <1>5 DEF PutGuide
    <3> HIDE DEF p
    <3> QED BY <1>0, <2>4, <2>5, <3>1 DEF TypeOK
  <2>7. written' \subseteq [prof : Profs, version : 1..MaxVersion, items : SUBSET Phrases]
    BY <1>0, <1>2, <1>5, <2>3 DEF PutGuide, TypeOK
  <2>8. merged' \in [Profs -> SUBSET Proposals] /\ clobbered' \in [Profs -> Nat]
    BY <1>0, <1>2, <1>5 DEF PutGuide, TypeOK
  <2>9. /\ req' \in [Requests -> RequestRow \cup {NoRequest}]
        /\ \A x \in Requests :
             /\ req'[x].pc # "idle" => delta'[req'[x].prof] \in Delta
             /\ req'[x].pc = "put" => req'[x].version # 0
    BY <1>0, <1>1, <2>1, <2>2, RequestRowTyped
  <2> QED BY <1>0, <1>a, <2>6, <2>7, <2>8, <2>9 DEF TypeOK
<1> QED BY <1>3, <1>4, <1>5

LEMMA DecisionTyped ==
  ASSUME Typed, NEW r \in Requests,
         Open(r) \/ Decide(r) \/ Capture(r) \/ PublishUpdated(r) \/ FailApply(r)
  PROVE  Typed'
<1> USE ProfilesAssumption DEF ProfilesAssumption
<1>0. TypeOK /\ req \in [Requests -> RequestRow \cup {NoRequest}] /\ NoRequest.pc = "idle"
  BY Shapes DEF Typed
<1>1. UNCHANGED <<tunerVars, guideVars>>
  BY DEF Open, Decide, Capture, PublishUpdated, FailApply
<1>a. ASSUME req' \in [Requests -> RequestRow \cup {NoRequest}],
             \A x \in Requests :
               /\ req'[x].pc # "idle" => delta'[req'[x].prof] \in Delta
               /\ req'[x].pc = "put" => req'[x].version # 0,
             DeltaKept,
             decided' \in [Profs -> Nat], faults' \in 0..MaxFaults
      PROVE  Typed'
  BY <1>0, <1>1, <1>a DEF Typed, TypeOK, RequestRow, tunerVars, guideVars, DeltaKept
<1>b. ASSUME NEW row \in RequestRow \cup {NoRequest}, req' = [req EXCEPT ![r] = row],
             row.pc # "idle" => delta[row.prof] \in Delta, row.pc # "put",
             UNCHANGED <<delta, olderDelta>>, raced' \subseteq Profs,
             decided' \in [Profs -> Nat], faults' \in 0..MaxFaults
      PROVE  Typed'
  <2>1. /\ req' \in [Requests -> RequestRow \cup {NoRequest}]
        /\ \A x \in Requests :
             /\ req'[x].pc # "idle" => delta'[req'[x].prof] \in Delta
             /\ req'[x].pc = "put" => req'[x].version # 0
    BY <1>b, RequestRowTyped
  <2> QED BY <1>0, <1>a, <1>b, <2>1, DeltaSame DEF TypeOK
<1>2. CASE Open(r)
  <2>1. PICK p \in Profs, op \in {"apply", "dismiss"} : \E d \in DeltasRead(p) :
          /\ req' = [req EXCEPT ![r] =
               [NoRequest EXCEPT !.pc = IF op = "apply" /\ p \notin Advisory THEN "load" ELSE "decide",
                                 !.op = op, !.prof = p, !.proposal = d.proposal]]
          /\ raced' = IF d.proposal # delta[p].proposal THEN raced \cup {p} ELSE raced
    BY <1>2 DEF Open
  <2>2. PICK d \in DeltasRead(p) :
          /\ req' = [req EXCEPT ![r] =
               [NoRequest EXCEPT !.pc = IF op = "apply" /\ p \notin Advisory THEN "load" ELSE "decide",
                                 !.op = op, !.prof = p, !.proposal = d.proposal]]
          /\ raced' = IF d.proposal # delta[p].proposal THEN raced \cup {p} ELSE raced
    BY <2>1
  <2>3. p \in Profs /\ delta[p] \in Delta /\ d.proposal \in Proposals /\ raced' \subseteq Profs
    <3>1. d \in Delta /\ delta[p] \in Delta
      BY <1>0 DEF DeltasRead, Typed, TypeOK
    <3> QED BY <1>0, <2>2, <3>1 DEF Delta, TypeOK
  <2> DEFINE pc == IF op = "apply" /\ p \notin Advisory THEN "load" ELSE "decide"
             row == [NoRequest EXCEPT !.pc = pc, !.op = op, !.prof = p, !.proposal = d.proposal]
  <2>4. pc \in {"load", "decide"}
    OBVIOUS
  <2>5. req' = [req EXCEPT ![r] = row]
    BY <2>2
  <2> HIDE DEF pc
  <2>6. NoRequest \in BlankRow
    BY DEF NoRequest, BlankRow
  <2>7. row \in RequestRow /\ row.prof = p /\ row.pc = pc
    BY <2>3, <2>4, <2>6 DEF RequestRow, BlankRow
  <2> HIDE DEF row
  <2> QED BY <1>0, <1>2, <1>b, <2>3, <2>4, <2>5, <2>7 DEF Open, TypeOK
<1>3. CASE Decide(r)
  <2>1. /\ req[r] \in RequestRow /\ req[r].prof \in Profs /\ delta[req[r].prof] \in Delta
        /\ req[r].pc = "decide"
    <3>1. req[r].pc = "decide"
      BY <1>3 DEF Decide
    <3>2. req[r].pc # "idle"
      BY <3>1
    <3>3. req[r] \in RequestRow
      BY <1>0, <3>2, Shapes
    <3> QED BY <3>1, <3>2, <3>3 DEF Typed, RequestRow
  <2>2. CASE delta[req[r].prof].status = "pending"
    <3> DEFINE p == req[r].prof
               row == [req[r] EXCEPT !.pc = "capture"]
               ruled == [delta[p] EXCEPT !.status = Decision(r)]
    <3>1. row \in RequestRow /\ row.prof = p /\ row.pc = "capture"
      BY <2>1 DEF RequestRow
    <3>2. ruled \in Delta
      BY <2>1 DEF Delta, Decision
    <3>3. req' = [req EXCEPT ![r] = row] /\ WriteDelta(p, ruled) /\ raced' \subseteq Profs
      BY <1>0, <1>3, <2>1, <2>2 DEF Decide, TypeOK
    <3> HIDE DEF row, ruled
    <3>4. DeltaKept
      BY <2>1, <3>2, <3>3, DeltaPut
    <3>5. \A x \in Requests : req[x].pc # "idle" => req[x].prof \in Profs /\ delta[req[x].prof] \in Delta
      BY <1>0, Shapes DEF Typed, RequestRow
    <3>6. req' \in [Requests -> RequestRow \cup {NoRequest}]
      BY <1>0, <3>1, <3>3
    <3>7. \A x \in Requests :
             /\ req'[x].pc # "idle" => delta'[req'[x].prof] \in Delta
             /\ req'[x].pc = "put" => req'[x].version # 0
      BY <1>0, <2>1, <3>1, <3>3, <3>4, <3>5 DEF Typed, DeltaKept
    <3> QED BY <1>0, <1>3, <1>a, <3>4, <3>6, <3>7 DEF Decide, TypeOK
  <2>3. CASE ~(delta[req[r].prof].status = "pending")
    <3>1. req' = [req EXCEPT ![r] = NoRequest]
          /\ UNCHANGED <<delta, olderDelta, raced, decided, faults>>
      BY <1>3, <2>3 DEF Decide, Close
    <3> QED BY <1>0, <1>b, <3>1 DEF TypeOK
  <2> QED BY <2>2, <2>3
<1>4. CASE Capture(r)
  <2>1. req[r] \in RequestRow /\ delta[req[r].prof] \in Delta
    <3>1. req[r].pc # "idle"
      BY <1>4 DEF Capture
    <3> QED BY <1>0, <3>1, Shapes DEF Typed
  <2>2. decided' \in [Profs -> Nat]
    BY <1>0, <1>4 DEF Capture, TypeOK
  <2>3. CASE req[r].op = "apply"
    <3> DEFINE row == [req[r] EXCEPT !.pc = "publish"]
    <3>1. row \in RequestRow /\ row.prof = req[r].prof /\ row.pc = "publish"
      BY <2>1 DEF RequestRow
    <3>2. req' = [req EXCEPT ![r] = row]
      BY <1>0, <1>4, <2>3 DEF Capture
    <3> HIDE DEF row
    <3> QED BY <1>0, <1>4, <1>b, <2>1, <2>2, <3>1, <3>2 DEF Capture, TypeOK, deltaVars
  <2>4. CASE req[r].op # "apply"
    <3>1. req' = [req EXCEPT ![r] = NoRequest]
      BY <1>4, <2>4 DEF Capture, Close
    <3> QED BY <1>0, <1>4, <1>b, <2>2, <3>1 DEF Capture, TypeOK, deltaVars
  <2> QED BY <2>3, <2>4
<1>5. CASE PublishUpdated(r) \/ FailApply(r)
  <2>1. /\ req' = [req EXCEPT ![r] = NoRequest] /\ UNCHANGED <<delta, olderDelta, raced, decided>>
        /\ faults' \in 0..MaxFaults
    BY <1>0, <1>5 DEF PublishUpdated, FailApply, Fault, Close, TypeOK, deltaVars
  <2> QED BY <1>0, <1>b, <2>1 DEF TypeOK
<1> QED BY <1>2, <1>3, <1>4, <1>5

LEMMA StepTyped == Typed /\ [Next]_vars => Typed'
<1> SUFFICES ASSUME Typed, [Next]_vars PROVE Typed'
  OBVIOUS
<1> USE ProfilesAssumption DEF ProfilesAssumption
<1>1. CASE UNCHANGED vars
  BY <1>1 DEF vars, tunerVars, guideVars, deltaVars, Typed, TypeOK
<1> QED BY <1>1, TunerTyped, GuideTyped, DecisionTyped DEF Next, RequestStep

-----------------------------------------------------------------------------
(* What a step touches                                                     *)

LEMMA TunerFrame ==
  ASSUME NEW t \in Tuners, TunerStep(t)
  PROVE  /\ UNCHANGED <<guideVars, req, decided>>
         /\ PutDelta(t) \/ UNCHANGED <<deltaVars, proposed>>
BY DEF TunerStep, Pass, Skip, Propose, PutDelta, FailPass

LEMMA RequestFrame ==
  ASSUME TypeOK, NEW r \in Requests, RequestStep(r)
  PROVE  /\ UNCHANGED tunerVars
         /\ \A x \in Requests \ {r} : req'[x] = req[x]
         /\ PutGuide(r) \/ UNCHANGED guideVars
         /\ Decide(r) \/ UNCHANGED <<delta, olderDelta>>
         /\ Open(r) \/ UNCHANGED raced
         /\ Capture(r) \/ UNCHANGED decided
<1>1. req \in [Requests -> RequestRow \cup {NoRequest}]
  BY Shapes
<1> QED BY <1>1 DEF RequestStep, Open, LoadGuide, CheckEtag, PutGuide, Decide, Capture,
                    PublishUpdated, FailApply, Close, guideVars, deltaVars

\* A request that is over, or has moved on.
LEMMA RequestGoes ==
  ASSUME TypeOK, NEW r \in Requests, RequestStep(r), ~Open(r)
  PROVE  /\ req[r].pc # "idle" /\ req[r] \in RequestRow
         /\ req'[r].pc # "idle" => /\ req'[r].op = req[r].op /\ req'[r].prof = req[r].prof
                                   /\ req'[r].proposal = req[r].proposal
         /\ req'[r].pc # "load"
         /\ req'[r].pc = "check" => LoadGuide(r)
         /\ req'[r].pc = "put" => CheckEtag(r)
         /\ req'[r].pc = "decide" => PutGuide(r)
         /\ req'[r].pc = "capture" => Decide(r) /\ delta[req[r].prof].status = "pending"
<1>1. req \in [Requests -> RequestRow \cup {NoRequest}] /\ NoRequest.pc = "idle"
  BY Shapes
<1>2. req[r] # NoRequest
  BY <1>1 DEF RequestStep, LoadGuide, CheckEtag, PutGuide, Decide, Capture, PublishUpdated, FailApply
<1>3. req[r] \in RequestRow
  BY <1>1, <1>2
<1>4. req[r].pc # "idle"
  BY <1>3 DEF RequestRow
<1>a. ASSUME Close(r)
      PROVE  req'[r].pc = "idle"
  BY <1>1, <1>a DEF Close
<1>5. CASE LoadGuide(r)
  <2>1. PICK v, i, e : req' = [req EXCEPT ![r].pc = "check", ![r].etag = e, ![r].version = v,
                                          ![r].items = i]
    BY <1>5 DEF LoadGuide
  <2>2. /\ req'[r].pc = "check" /\ req'[r].op = req[r].op /\ req'[r].prof = req[r].prof
        /\ req'[r].proposal = req[r].proposal
    BY <1>1, <1>3, <2>1 DEF RequestRow
  <2> QED BY <1>3, <1>4, <1>5, <2>2
<1>6. CASE CheckEtag(r)
  <2>1. Close(r) \/ \E v : req' = [req EXCEPT ![r].pc = "put", ![r].version = v]
    <3>1. PICK g \in GuidesRead(req[r].prof) :
            \/ Close(r)
            \/ req' = [req EXCEPT ![r].pc = "put",
                 ![r].version = IF @ <= g.version THEN g.version + 1 ELSE @]
      BY <1>6 DEF CheckEtag
    <3> DEFINE v == IF req[r].version <= g.version THEN g.version + 1 ELSE req[r].version
    <3>2. Close(r) \/ req' = [req EXCEPT ![r].pc = "put", ![r].version = v]
      BY <1>1, <3>1
    <3> HIDE DEF v
    <3> QED BY <3>2
  <2>2. ASSUME NEW v, req' = [req EXCEPT ![r].pc = "put", ![r].version = v]
        PROVE  /\ req'[r].pc = "put" /\ req'[r].op = req[r].op /\ req'[r].prof = req[r].prof
               /\ req'[r].proposal = req[r].proposal
    BY <1>1, <1>3, <2>2 DEF RequestRow
  <2> QED BY <1>3, <1>4, <1>6, <1>a, <2>1, <2>2
<1>7. CASE PutGuide(r)
  <2>1. /\ req'[r].pc = "decide" /\ req'[r].op = req[r].op /\ req'[r].prof = req[r].prof
        /\ req'[r].proposal = req[r].proposal
    BY <1>1, <1>3, <1>7 DEF PutGuide, RequestRow
  <2> QED BY <1>3, <1>4, <1>7, <2>1
<1>8. CASE Decide(r)
  <2>1. CASE delta[req[r].prof].status = "pending"
    <3>1. /\ req'[r].pc = "capture" /\ req'[r].op = req[r].op /\ req'[r].prof = req[r].prof
          /\ req'[r].proposal = req[r].proposal
      BY <1>1, <1>3, <1>8, <2>1 DEF Decide, RequestRow
    <3> QED BY <1>3, <1>4, <1>8, <2>1, <3>1
  <2>2. CASE ~(delta[req[r].prof].status = "pending")
    BY <1>3, <1>4, <1>8, <1>a, <2>2 DEF Decide
  <2> QED BY <2>1, <2>2
<1>9. CASE Capture(r)
  <2>1. Close(r) \/ req' = [req EXCEPT ![r].pc = "publish"]
    BY <1>9 DEF Capture
  <2>2. ASSUME req' = [req EXCEPT ![r].pc = "publish"]
        PROVE  /\ req'[r].pc = "publish" /\ req'[r].op = req[r].op /\ req'[r].prof = req[r].prof
               /\ req'[r].proposal = req[r].proposal
    BY <1>1, <1>3, <2>2 DEF RequestRow
  <2> QED BY <1>3, <1>4, <1>a, <2>1, <2>2
<1>10. CASE PublishUpdated(r) \/ FailApply(r)
  <2>1. Close(r)
    BY <1>10 DEF PublishUpdated, FailApply
  <2> QED BY <1>3, <1>4, <1>a, <2>1
<1> QED BY <1>5, <1>6, <1>7, <1>8, <1>9, <1>10 DEF RequestStep

\* A request that begins.
LEMMA RequestOpens ==
  ASSUME TypeOK, NEW r \in Requests, Open(r)
  PROVE  /\ req'[r].pc \in {"load", "decide"} /\ UNCHANGED <<guideVars, delta, decided>>
         /\ req'[r].pc = "decide" => (req'[r].op # "apply" \/ req'[r].prof \in Advisory)
         /\ req[r].pc = "idle"
         /\ req'[r].prof \in Profs /\ raced \subseteq raced'
         /\ \/ req'[r].proposal = delta[req'[r].prof].proposal
            \/ req'[r].prof \in raced'
<1>1. PICK p \in Profs, op \in {"apply", "dismiss"} : \E d \in DeltasRead(p) :
        /\ req' = [req EXCEPT ![r] =
             [NoRequest EXCEPT !.pc = IF op = "apply" /\ p \notin Advisory THEN "load" ELSE "decide",
                               !.op = op, !.prof = p, !.proposal = d.proposal]]
        /\ raced' = IF d.proposal # delta[p].proposal THEN raced \cup {p} ELSE raced
  BY DEF Open
<1>2. PICK d \in DeltasRead(p) :
        /\ req' = [req EXCEPT ![r] =
             [NoRequest EXCEPT !.pc = IF op = "apply" /\ p \notin Advisory THEN "load" ELSE "decide",
                               !.op = op, !.prof = p, !.proposal = d.proposal]]
        /\ raced' = IF d.proposal # delta[p].proposal THEN raced \cup {p} ELSE raced
  BY <1>1
<1> DEFINE pc == IF op = "apply" /\ p \notin Advisory THEN "load" ELSE "decide"
           row == [NoRequest EXCEPT !.pc = pc, !.op = op, !.prof = p, !.proposal = d.proposal]
<1>3. pc \in {"load", "decide"} /\ (pc = "decide" => (op # "apply" \/ p \in Advisory))
  OBVIOUS
<1>4. req'[r] = row
  BY <1>2, Shapes
<1> HIDE DEF pc
<1>5. NoRequest \in BlankRow
  BY ProfilesAssumption DEF NoRequest, BlankRow, ProfilesAssumption
<1>6. row.pc = pc /\ row.op = op /\ row.prof = p /\ row.proposal = d.proposal
  BY <1>5 DEF BlankRow
<1> HIDE DEF row
<1>7. req[r].pc = "idle"
  BY Shapes DEF Open
<1> QED BY <1>2, <1>3, <1>4, <1>6, <1>7 DEF Open

-----------------------------------------------------------------------------
(* Applied means merged                                                    *)

\* An apply about to be decided has merged its proposal, which is the row's
\* unless the profile counts as raced.
Merging ==
  \A r \in Requests :
    (req[r].pc = "decide" /\ req[r].op = "apply" /\ req[r].prof \notin Advisory)
      => req[r].proposal \in merged[req[r].prof]

Uncrossed ==
  \A p \in Profs \ raced : \A r \in Deciding(p) : req[r].proposal = delta[p].proposal

MergedFirst == Merging /\ Uncrossed /\ AppliedWasMerged

LEMMA InitMerged == Init => MergedFirst
<1> SUFFICES ASSUME Init PROVE MergedFirst
  OBVIOUS
<1>1. \A r \in Requests : req[r].pc = "idle"
  BY DEF Init, NoRequest
<1>2. \A p \in Profs : delta[p] = None
  BY DEF Init
<1> QED BY <1>1, <1>2 DEF MergedFirst, Merging, Uncrossed, AppliedWasMerged, Deciding

LEMMA PutDeltaMerged ==
  ASSUME Typed, MergedFirst, NEW t \in Tuners, PutDelta(t)
  PROVE  MergedFirst'
<1> DEFINE c == Current(t)
           row == [status |-> "pending", proposal |-> tuner[t].proposal]
<1>1. UNCHANGED <<req, guideVars>>
  BY DEF PutDelta
<1>2. c \in Profs /\ tuner[t].proposal \in Proposals
  BY Shapes DEF PutDelta, Typed
<1>3. row \in Delta /\ WriteDelta(c, row) /\ raced' \subseteq Profs
  BY <1>2 DEF PutDelta, Delta, Typed, TypeOK
<1>4. delta'[c] = row /\ \A p \in Profs \ {c} : delta'[p] = delta[p]
  BY <1>2, <1>3, DeltaPut
<1>5. row.status = "pending" /\ row.proposal = tuner[t].proposal
  OBVIOUS
<1>6. raced' = IF \E r \in Deciding(c) : req[r].proposal # tuner[t].proposal
               THEN raced \cup {c} ELSE raced \ {c}
  BY DEF PutDelta
<1> HIDE DEF c, row
<1>7. Merging'
  BY <1>1 DEF MergedFirst, Merging, guideVars
<1>8. Uncrossed'
  <2> SUFFICES ASSUME NEW p \in Profs, p \notin raced', NEW r \in Deciding(p)
               PROVE  req[r].proposal = delta'[p].proposal
    BY <1>1 DEF Uncrossed, Deciding
  <2>1. CASE p = c
    BY <1>4, <1>5, <1>6, <2>1
  <2>2. CASE p # c
    BY <1>4, <1>6, <2>2 DEF MergedFirst, Uncrossed
  <2> QED BY <2>1, <2>2
<1>9. AppliedWasMerged'
  <2> SUFFICES ASSUME NEW p \in Profs \ Advisory, delta'[p] # None, delta'[p].status = "applied"
               PROVE  delta'[p].proposal \in merged'[p] \/ p \in raced'
    BY DEF AppliedWasMerged
  <2>1. p # c /\ delta'[p] = delta[p]
    BY <1>4, <1>5
  <2> QED BY <1>1, <1>6, <2>1 DEF MergedFirst, AppliedWasMerged, guideVars
<1> QED BY <1>7, <1>8, <1>9 DEF MergedFirst

LEMMA OpenMerged ==
  ASSUME Typed, MergedFirst, NEW r \in Requests, Open(r)
  PROVE  MergedFirst'
<1>0. TypeOK /\ RequestStep(r)
  BY DEF Typed, RequestStep
<1>1. UNCHANGED <<merged, delta>> /\ \A x \in Requests \ {r} : req'[x] = req[x]
  BY <1>0, RequestOpens, RequestFrame DEF guideVars
<1>2. /\ req'[r].pc = "decide" => (req'[r].op # "apply" \/ req'[r].prof \in Advisory)
      /\ raced \subseteq raced'
      /\ req'[r].proposal = delta[req'[r].prof].proposal \/ req'[r].prof \in raced'
  BY <1>0, RequestOpens
<1>3. Merging'
  BY <1>1, <1>2 DEF MergedFirst, Merging
<1>4. Uncrossed'
  <2> SUFFICES ASSUME NEW p \in Profs, p \notin raced', NEW x \in Deciding(p)'
               PROVE  req'[x].proposal = delta[p].proposal
    BY <1>1 DEF Uncrossed
  <2>1. CASE x = r
    BY <1>2, <2>1 DEF Deciding
  <2>2. CASE x # r
    BY <1>1, <1>2, <2>2 DEF MergedFirst, Uncrossed, Deciding
  <2> QED BY <2>1, <2>2
<1>5. AppliedWasMerged'
  BY <1>1, <1>2 DEF MergedFirst, AppliedWasMerged
<1> QED BY <1>3, <1>4, <1>5 DEF MergedFirst

\* A decision keeps the proposals, and makes a row say applied only for an
\* apply that has merged what it read.
LEMMA DeltasRuled ==
  ASSUME Typed, MergedFirst, NEW r \in Requests, RequestStep(r), ~Open(r), NEW p \in Profs
  PROVE  /\ delta'[p] \in Delta => delta[p] \in Delta /\ delta'[p].proposal = delta[p].proposal
         /\ delta[p] \in Delta => delta'[p] \in Delta /\ delta'[p].proposal = delta[p].proposal
         /\ delta[p] = None => delta'[p] = None
         /\ delta'[p] \in Delta /\ delta'[p].status = "applied" /\ p \notin Advisory /\ p \notin raced
              => delta[p].proposal \in merged[p]
<1>0. TypeOK /\ delta \in [Profs -> Delta \cup {None}]
  BY DEF Typed, TypeOK
<1>1. CASE UNCHANGED delta
  <2>1. delta[p] \in Delta /\ delta[p].status = "applied" /\ p \notin Advisory /\ p \notin raced
          => delta[p].proposal \in merged[p]
    BY NoneIsNoDelta DEF MergedFirst, AppliedWasMerged
  <2> QED BY <1>1, <2>1
<1>2. CASE ~(UNCHANGED delta)
  <2> DEFINE q == req[r].prof
             ruled == [delta[q] EXCEPT !.status = Decision(r)]
  <2>1. Decide(r)
    BY <1>0, <1>2, RequestFrame
  <2>2. /\ req[r].pc = "decide" /\ WriteDelta(q, ruled)
    BY <1>2, <2>1 DEF Decide
  <2>3. q \in Profs /\ delta[q] \in Delta
    BY <1>0, <2>2, Shapes DEF Typed, RequestRow
  <2>4. /\ ruled \in Delta /\ ruled.status = Decision(r) /\ ruled.proposal = delta[q].proposal
    BY <2>3 DEF Delta, Decision
  <2>5. delta'[q] = ruled /\ \A x \in Profs \ {q} : delta'[x] = delta[x]
    BY <1>0, <2>2, <2>3 DEF WriteDelta
  <2>6. ASSUME ruled.status = "applied", q \notin Advisory, q \notin raced
        PROVE  delta[q].proposal \in merged[q]
    <3>1. req[r].op = "apply" /\ req[r].proposal \in merged[q]
      BY <2>2, <2>4, <2>6 DEF Decision, MergedFirst, Merging
    <3>2. r \in Deciding(q)
      BY <2>2 DEF Deciding
    <3> QED BY <2>3, <2>6, <3>1, <3>2 DEF MergedFirst, Uncrossed
  <2> HIDE DEF q, ruled
  <2>7. CASE p = q
    BY <2>3, <2>4, <2>5, <2>6, <2>7, NoneIsNoDelta
  <2>8. CASE p # q
    BY <2>5, <2>8, NoneIsNoDelta DEF MergedFirst, AppliedWasMerged
  <2> QED BY <2>7, <2>8
<1> QED BY <1>1, <1>2

LEMMA RequestMerged ==
  ASSUME Typed, MergedFirst, NEW r \in Requests, RequestStep(r), ~Open(r)
  PROVE  MergedFirst'
<1>0. /\ TypeOK /\ merged \in [Profs -> SUBSET Proposals] /\ delta \in [Profs -> Delta \cup {None}]
      /\ delta' \in [Profs -> Delta \cup {None}]
  <2>1. Typed'
    BY GuideTyped, DecisionTyped DEF RequestStep
  <2> QED BY <2>1 DEF Typed, TypeOK
<1>1. /\ req[r] \in RequestRow /\ req[r].prof \in Profs /\ UNCHANGED raced
      /\ \A x \in Requests \ {r} : req'[x] = req[x]
  BY <1>0, RequestGoes, RequestFrame DEF RequestRow
<1>2. \A p \in Profs : merged[p] \subseteq merged'[p]
  <2>1. CASE PutGuide(r)
    BY <1>0, <2>1 DEF PutGuide
  <2>2. CASE UNCHANGED guideVars
    BY <2>2 DEF guideVars
  <2> QED BY <1>0, <2>1, <2>2, RequestFrame
<1>3. req'[r].pc = "decide" => req'[r].proposal \in merged'[req'[r].prof]
  <2> SUFFICES ASSUME req'[r].pc = "decide" PROVE req'[r].proposal \in merged'[req'[r].prof]
    OBVIOUS
  <2>1. PutGuide(r) /\ req'[r].prof = req[r].prof /\ req'[r].proposal = req[r].proposal
    BY <1>0, RequestGoes
  <2>2. merged' = [merged EXCEPT ![req[r].prof] = @ \cup {req[r].proposal}]
    BY <2>1 DEF PutGuide
  <2> QED BY <1>0, <1>1, <2>1, <2>2
<1>4. Merging'
  <2>1. \A x \in Requests : req[x].pc # "idle" => req[x].prof \in Profs
    BY <1>0, Shapes DEF RequestRow
  <2> QED BY <1>1, <1>2, <1>3, <2>1 DEF MergedFirst, Merging
<1>5. Uncrossed'
  <2> SUFFICES ASSUME NEW p \in Profs, p \notin raced, NEW x \in Deciding(p)'
               PROVE  req'[x].proposal = delta'[p].proposal
    BY <1>1 DEF Uncrossed
  <2>1. x \in Deciding(p) /\ req'[x].proposal = req[x].proposal
    <3>1. CASE x = r
      <4>1. req'[r].prof = p /\ req'[r].pc \in {"load", "check", "put", "decide"}
        BY <3>1 DEF Deciding
      <4>2. /\ req'[r].prof = req[r].prof /\ req'[r].proposal = req[r].proposal
            /\ LoadGuide(r) \/ CheckEtag(r) \/ PutGuide(r)
        BY <1>0, <4>1, RequestGoes
      <4>3. req[r].pc \in {"load", "check", "put"}
        BY <4>2 DEF LoadGuide, CheckEtag, PutGuide
      <4> QED BY <3>1, <4>1, <4>2, <4>3 DEF Deciding
    <3>2. CASE x # r
      BY <1>1, <3>2 DEF Deciding
    <3> QED BY <3>1, <3>2
  <2>2. req[x].proposal = delta[p].proposal /\ delta[p] \in Delta
    BY <2>1 DEF MergedFirst, Uncrossed, Deciding, Typed
  <2> QED BY <2>1, <2>2, DeltasRuled
<1>6. AppliedWasMerged'
  <2> SUFFICES ASSUME NEW p \in Profs \ Advisory, delta'[p] # None, delta'[p].status = "applied",
                      p \notin raced
               PROVE  delta'[p].proposal \in merged'[p]
    BY <1>1 DEF AppliedWasMerged
  <2>1. delta'[p] \in Delta
    BY <1>0
  <2> QED BY <1>2, <2>1, DeltasRuled
<1> QED BY <1>4, <1>5, <1>6 DEF MergedFirst

LEMMA StepMerged ==
  ASSUME Typed, MergedFirst, [Next]_vars
  PROVE  MergedFirst'
<1>1. CASE UNCHANGED <<req, guideVars, deltaVars>>
  BY <1>1 DEF MergedFirst, Merging, Uncrossed, AppliedWasMerged, Deciding, guideVars, deltaVars
<1>2. ASSUME NEW t \in Tuners, TunerStep(t) PROVE MergedFirst'
  BY <1>1, <1>2, TunerFrame, PutDeltaMerged
<1> QED BY <1>1, <1>2, OpenMerged, RequestMerged DEF Next, vars

-----------------------------------------------------------------------------
(* One decision for a proposal                                             *)

\* A proposal is open, being decided (its audit row is not written yet), or
\* decided.
Awaits(p) == IF delta[p] \in Delta /\ delta[p].status = "pending" THEN 1 ELSE 0

Capturing(p) == {r \in Requests : req[r].pc = "capture" /\ req[r].prof = p}

Accounted(p) == decided[p] + Cardinality(Capturing(p)) + Awaits(p) <= proposed[p]

Account == \A p \in Profs : Accounted(p)

LEMMA CaptureFinite ==
  ASSUME NEW p \in Profs
  PROVE  IsFiniteSet(Capturing(p)) /\ Cardinality(Capturing(p)) \in Nat
<1>1. IsFiniteSet(Requests) /\ Capturing(p) \subseteq Requests
  BY ProfilesAssumption DEF ProfilesAssumption, Capturing
<1> QED BY <1>1, FS_Subset, FS_CardinalityType

LEMMA InitAccount == Init => Account
<1> SUFFICES ASSUME Init, NEW p \in Profs PROVE Accounted(p)
  BY DEF Account
<1>1. Capturing(p) = {} /\ decided[p] = 0 /\ proposed[p] = 0
  BY DEF Init, Capturing, NoRequest
<1>2. Awaits(p) = 0
  <2>1. delta[p] = None
    BY DEF Init
  <2> QED BY <2>1, NoneIsNoDelta DEF Awaits
<1> QED BY <1>1, <1>2, FS_EmptySet DEF Accounted

LEMMA TunerAccount ==
  ASSUME Typed, Account, NEW t \in Tuners, TunerStep(t), NEW p \in Profs
  PROVE  Accounted(p)'
<1>0. /\ Accounted(p) /\ decided \in [Profs -> Nat] /\ proposed \in [Profs -> Nat] /\ TypeOK
  BY DEF Account, Typed, TypeOK
<1>1. UNCHANGED <<req, decided>> /\ Capturing(p)' = Capturing(p)
  BY TunerFrame DEF Capturing
<1>2. CASE PutDelta(t)
  <2>1. Current(t) \in Profs
    BY <1>0, <1>2, Shapes DEF PutDelta
  <2>2. CASE Current(t) = p
    <3>1. proposed'[p] = proposed[p] + 1
      BY <1>0, <1>2, <2>1, <2>2 DEF PutDelta
    <3>2. Awaits(p)' <= Awaits(p) + 1 /\ Awaits(p) \in {0, 1} /\ Awaits(p)' \in {0, 1}
      BY DEF Awaits
    <3> QED BY <1>0, <1>1, <3>1, <3>2, CaptureFinite DEF Accounted
  <2>3. CASE Current(t) # p
    <3>1. proposed'[p] = proposed[p] /\ delta'[p] = delta[p]
      BY <1>0, <1>2, <2>1, <2>3 DEF PutDelta, WriteDelta, TypeOK
    <3> QED BY <1>0, <1>1, <3>1 DEF Accounted, Awaits
  <2> QED BY <2>2, <2>3
<1>3. CASE UNCHANGED <<deltaVars, proposed>>
  BY <1>0, <1>1, <1>3 DEF Accounted, Awaits, deltaVars
<1> QED BY <1>2, <1>3, TunerFrame

LEMMA RequestAccount ==
  ASSUME Typed, Account, NEW r \in Requests, RequestStep(r), NEW p \in Profs
  PROVE  Accounted(p)'
<1>0. /\ Accounted(p) /\ decided \in [Profs -> Nat] /\ proposed \in [Profs -> Nat] /\ TypeOK
      /\ delta \in [Profs -> Delta \cup {None}] /\ UNCHANGED proposed
      /\ \A x \in Requests \ {r} : req'[x] = req[x]
      /\ Awaits(p) \in {0, 1}
  BY RequestFrame DEF Account, Typed, TypeOK, tunerVars, Awaits
<1>1. CASE req'[r].pc = "capture" /\ ~Open(r)
  <2>1. /\ Decide(r) /\ delta[req[r].prof].status = "pending"
        /\ req[r] \in RequestRow /\ req'[r].prof = req[r].prof /\ req[r].pc # "idle"
    BY <1>0, <1>1, RequestGoes
  <2>2. delta[req[r].prof] \in Delta /\ req[r].prof \in Profs
    BY <2>1 DEF Typed, RequestRow
  <2>3. /\ decided' = decided
        /\ delta' = [delta EXCEPT ![req[r].prof] = [delta[req[r].prof] EXCEPT !.status = Decision(r)]]
    BY <2>1 DEF Decide, WriteDelta
  <2>4. CASE req[r].prof = p
    <3>1. Awaits(p) = 1
      BY <2>1, <2>2, <2>4 DEF Awaits
    <3>2. delta'[p].status # "pending"
      BY <1>0, <2>2, <2>3, <2>4 DEF Delta, Decision
    <3>3. Awaits(p)' = 0
      BY <3>2 DEF Awaits
    <3>4. r \notin Capturing(p) /\ Capturing(p)' = Capturing(p) \cup {r}
      BY <1>0, <1>1, <2>1, <2>4 DEF Capturing, Decide
    <3>5. Cardinality(Capturing(p)') = Cardinality(Capturing(p)) + 1
      BY <3>4, CaptureFinite, FS_AddElement
    <3> QED BY <1>0, <2>3, <3>1, <3>3, <3>5, CaptureFinite DEF Accounted
  <2>5. CASE req[r].prof # p
    <3>1. delta'[p] = delta[p] /\ Capturing(p)' = Capturing(p)
      BY <1>0, <2>1, <2>2, <2>3, <2>5 DEF Capturing
    <3> QED BY <1>0, <2>3, <3>1 DEF Accounted, Awaits
  <2> QED BY <2>4, <2>5
<1>2. CASE Capture(r)
  <2>1. req[r].pc = "capture" /\ req[r].prof \in Profs /\ req'[r].pc # "capture"
    <3>1. req[r].pc = "capture" /\ req[r].pc # "decide"
      BY <1>2 DEF Capture
    <3>2. ~Open(r)
      BY <1>0, <3>1, RequestOpens
    <3>3. req[r] \in RequestRow
      BY <1>0, <3>2, RequestGoes
    <3>4. req'[r].pc = "capture" => Decide(r)
      BY <1>0, <3>2, RequestGoes
    <3>5. ~Decide(r)
      BY <3>1 DEF Decide
    <3> QED BY <3>1, <3>3, <3>4, <3>5 DEF RequestRow
  <2>2. delta' = delta /\ decided' = [decided EXCEPT ![req[r].prof] = @ + 1]
    BY <1>2 DEF Capture, deltaVars
  <2>3. CASE req[r].prof = p
    <3>1. r \in Capturing(p) /\ Capturing(p)' = Capturing(p) \ {r}
      BY <1>0, <2>1, <2>3 DEF Capturing
    <3>2. Cardinality(Capturing(p)') = Cardinality(Capturing(p)) - 1
      BY <3>1, CaptureFinite, FS_RemoveElement
    <3>3. decided'[p] = decided[p] + 1 /\ Awaits(p)' = Awaits(p)
      BY <1>0, <2>2, <2>3 DEF Awaits
    <3> QED BY <1>0, <3>2, <3>3, CaptureFinite DEF Accounted
  <2>4. CASE req[r].prof # p
    <3>1. Capturing(p)' = Capturing(p)
      BY <1>0, <2>1, <2>4 DEF Capturing
    <3> QED BY <1>0, <2>2, <2>4, <3>1 DEF Accounted, Awaits
  <2> QED BY <2>3, <2>4
<1>3. CASE (req'[r].pc # "capture" \/ Open(r)) /\ ~Capture(r)
  <2>1. decided' = decided
    BY <1>0, <1>3, RequestFrame
  <2>2. req'[r].pc # "capture"
    BY <1>0, <1>3, RequestOpens
  <2>3. Capturing(p)' \subseteq Capturing(p)
    BY <1>0, <2>2 DEF Capturing
  <2>4. Cardinality(Capturing(p)') <= Cardinality(Capturing(p)) /\ Cardinality(Capturing(p)') \in Nat
    BY <2>3, CaptureFinite, FS_Subset, FS_CardinalityType
  <2>5. Awaits(p)' <= Awaits(p)
    <3>1. CASE UNCHANGED delta
      BY <3>1 DEF Awaits
    <3>2. CASE Decide(r)
      <4>1. /\ req[r] \in RequestRow /\ req[r].prof \in Profs /\ delta[req[r].prof] \in Delta
        <5>1. req[r].pc = "decide" /\ req[r].pc # "idle"
          BY <3>2 DEF Decide
        <5> QED BY <1>0, <5>1, Shapes DEF Typed, RequestRow
      <4>2. \/ UNCHANGED delta
            \/ delta' = [delta EXCEPT ![req[r].prof] = [delta[req[r].prof] EXCEPT !.status = Decision(r)]]
        BY <3>2 DEF Decide, WriteDelta
      <4>3. ASSUME delta' = [delta EXCEPT ![req[r].prof] =
                              [delta[req[r].prof] EXCEPT !.status = Decision(r)]],
                   delta'[p] \in Delta, delta'[p].status = "pending"
            PROVE  delta[p] \in Delta /\ delta[p].status = "pending"
        BY <1>0, <4>1, <4>3 DEF Decision, Delta
      <4> QED BY <3>1, <4>2, <4>3 DEF Awaits
    <3> QED BY <1>0, <3>1, <3>2, RequestFrame
  <2>6. Awaits(p)' \in {0, 1}
    BY DEF Awaits
  <2> QED BY <1>0, <2>1, <2>4, <2>5, <2>6, CaptureFinite DEF Accounted
<1> QED BY <1>1, <1>2, <1>3

LEMMA StepAccount ==
  ASSUME Typed, Account, [Next]_vars
  PROVE  Account'
<1>1. CASE UNCHANGED <<decided, req, delta, proposed>>
  BY <1>1 DEF Account, Accounted, Awaits, Capturing
<1>2. UNCHANGED vars => UNCHANGED <<decided, req, delta, proposed>>
  BY DEF vars, tunerVars, deltaVars
<1> QED BY <1>1, <1>2, TunerAccount, RequestAccount DEF Next, Account

-----------------------------------------------------------------------------
(* Versions                                                                *)

\* What a read of a guide returns is the guide or an earlier one, by its etag.
ReadsInOrder(p) ==
  /\ olderGuide[p].etag <= guide[p].etag
  /\ olderGuide[p].etag = guide[p].etag => olderGuide[p].version = guide[p].version

\* An apply that has checked the guide there is will put a later version.
PutsInOrder(p) ==
  \A r \in Requests :
    req[r].prof = p /\ req[r].pc \in {"check", "put"} =>
      /\ req[r].etag <= guide[p].etag
      /\ req[r].pc = "put" /\ req[r].etag = guide[p].etag => guide[p].version < req[r].version

\* A version later than the guide's has come from puts that went over one.
Spread(p) ==
  \A v \in 1..MaxVersion :
    /\ IsFiniteSet(Contents(p, v))
    /\ Cardinality(Contents(p, v)) <= clobbered[p] + (IF v <= guide[p].version THEN 1 ELSE 0)

InOrder(p) == ReadsInOrder(p) /\ PutsInOrder(p) /\ Spread(p)

Versioned == \A p \in Profs : InOrder(p)

LEMMA InitVersioned == Init => Versioned
<1> SUFFICES ASSUME Init, NEW p \in Profs PROVE InOrder(p)
  BY DEF Versioned
<1>1. /\ guide[p].version = 1 /\ guide[p].etag = 0 /\ olderGuide[p] = guide[p]
      /\ written = {[prof |-> q, version |-> 1, items |-> {}] : q \in Profs}
      /\ clobbered[p] = 0
  BY DEF Init
<1>2. \A r \in Requests : req[r].pc = "idle"
  BY DEF Init, NoRequest
<1>3. ASSUME NEW v \in 1..MaxVersion
      PROVE  /\ IsFiniteSet(Contents(p, v))
             /\ Cardinality(Contents(p, v)) <= clobbered[p] + (IF v <= guide[p].version THEN 1 ELSE 0)
  <2>1. CASE v = 1
    <3>1. \A x \in written : x.items = {}
      BY <1>1
    <3>2. Contents(p, v) \subseteq {{}}
      BY <3>1 DEF Contents
    <3>3. IsFiniteSet({{}}) /\ Cardinality({{}}) = 1
      BY FS_Singleton
    <3>4. IsFiniteSet(Contents(p, v)) /\ Cardinality(Contents(p, v)) <= 1
      BY <3>2, <3>3, FS_Subset
    <3> QED BY <1>1, <2>1, <3>4
  <2>2. CASE v # 1
    <3>1. \A x \in written : x.version = 1
      BY <1>1
    <3>2. Contents(p, v) = {}
      BY <2>2, <3>1 DEF Contents
    <3>3. v > 1
      BY <2>2, ProfilesAssumption DEF ProfilesAssumption
    <3> QED BY <1>1, <3>2, <3>3, FS_EmptySet
  <2> QED BY <2>1, <2>2
<1> QED BY <1>1, <1>2, <1>3 DEF InOrder, ReadsInOrder, PutsInOrder, Spread

\* The types a comparison of versions needs.
LEMMA Numbers ==
  ASSUME Typed
  PROVE  /\ \A p \in Profs : /\ guide[p].etag \in Nat /\ guide[p].version \in 1..MaxVersion
                             /\ olderGuide[p].etag \in Nat /\ olderGuide[p].version \in 1..MaxVersion
                             /\ clobbered[p] \in Nat
         /\ \A r \in Requests : req[r].pc # "idle" =>
              /\ req[r].prof \in Profs /\ req[r].version \in 0..MaxVersion /\ req[r].etag \in Nat
         /\ MaxVersion \in Nat
<1>1. /\ guide \in [Profs -> Guide] /\ olderGuide \in [Profs -> Guide] /\ clobbered \in [Profs -> Nat]
      /\ \A r \in Requests : req[r].pc # "idle" => req[r] \in RequestRow
  BY Shapes DEF Typed, TypeOK
<1> QED BY <1>1, ProfilesAssumption DEF Guide, RequestRow, ProfilesAssumption

\* A step that leaves the guides alone, and moves no apply on to a put.
LEMMA KeepVersioned ==
  ASSUME Versioned, UNCHANGED guideVars,
         \A r \in Requests : req'[r].pc \in {"check", "put"} => req'[r] = req[r]
  PROVE  Versioned'
BY DEF Versioned, InOrder, ReadsInOrder, PutsInOrder, Spread, Contents, guideVars

\* An apply that moves on with an etag it has read, and a version later than
\* that etag's.
LEMMA MoveVersioned ==
  ASSUME Typed, Versioned, NEW r \in Requests, NEW g \in GuidesRead(req[r].prof),
         UNCHANGED guideVars, \A x \in Requests \ {r} : req'[x] = req[x],
         req[r].pc # "idle", req'[r].prof = req[r].prof, req'[r].etag = g.etag,
         req'[r].version \in Nat,
         req'[r].pc = "put" => g.version < req'[r].version
  PROVE  Versioned'
<1> SUFFICES ASSUME NEW p \in Profs PROVE InOrder(p)'
  BY DEF Versioned
<1>1. InOrder(p)
  BY DEF Versioned
<1>2. ReadsInOrder(p)' /\ Spread(p)'
  BY <1>1 DEF InOrder, ReadsInOrder, Spread, Contents, guideVars
<1>3. PutsInOrder(p)'
  <2> SUFFICES ASSUME NEW x \in Requests, req'[x].prof = p, req'[x].pc \in {"check", "put"}
               PROVE  /\ req'[x].etag <= guide[p].etag
                      /\ req'[x].pc = "put" /\ req'[x].etag = guide[p].etag
                           => guide[p].version < req'[x].version
    BY DEF PutsInOrder, guideVars
  <2>1. CASE x = r
    <3>1. g = guide[p] \/ g = olderGuide[p]
      BY <2>1 DEF GuidesRead
    <3> QED BY <1>1, <2>1, <3>1, Numbers DEF InOrder, ReadsInOrder
  <2>2. CASE x # r
    BY <1>1, <2>2 DEF InOrder, PutsInOrder
  <2> QED BY <2>1, <2>2
<1> QED BY <1>2, <1>3 DEF InOrder

LEMMA LoadVersioned ==
  ASSUME Typed, Versioned, NEW r \in Requests, LoadGuide(r)
  PROVE  Versioned'
<1>1. req[r].pc # "idle" /\ req[r] \in RequestRow /\ UNCHANGED guideVars
  BY Shapes DEF LoadGuide, Typed
<1>2. PICK g \in GuidesRead(req[r].prof) :
        req' = [req EXCEPT ![r].pc = "check", ![r].etag = g.etag, ![r].version = g.version,
                           ![r].items = Merge(g.items, req[r].proposal)]
  BY DEF LoadGuide
<1> DEFINE items == Merge(g.items, req[r].proposal)
<1>3. req' = [req EXCEPT ![r].pc = "check", ![r].etag = g.etag, ![r].version = g.version,
                         ![r].items = items]
  BY <1>2
<1> HIDE DEF items
<1>4. /\ \A x \in Requests \ {r} : req'[x] = req[x]
      /\ req'[r].pc = "check" /\ req'[r].prof = req[r].prof /\ req'[r].etag = g.etag
      /\ req'[r].version = g.version
  BY <1>1, <1>3, Shapes DEF Typed, RequestRow
<1>5. g.version \in Nat
  BY <1>1, Numbers DEF GuidesRead
<1> QED BY <1>1, <1>4, <1>5, MoveVersioned

LEMMA CheckVersioned ==
  ASSUME Typed, Versioned, NEW r \in Requests, CheckEtag(r)
  PROVE  Versioned'
<1>1. /\ req[r].pc # "idle" /\ req[r] \in RequestRow /\ UNCHANGED guideVars
      /\ req \in [Requests -> RequestRow \cup {NoRequest}] /\ NoRequest.pc = "idle"
  BY Shapes DEF CheckEtag, Typed
<1>2. PICK g \in GuidesRead(req[r].prof) :
        IF g.etag = req[r].etag
        THEN /\ g.version < MaxVersion
             /\ req' = [req EXCEPT ![r].pc = "put",
                  ![r].version = IF @ <= g.version THEN g.version + 1 ELSE @]
        ELSE Close(r)
  BY DEF CheckEtag
<1>3. CASE g.etag = req[r].etag
  <2> DEFINE v == IF req[r].version <= g.version THEN g.version + 1 ELSE req[r].version
  <2>1. g.version < v /\ v \in Nat
    BY <1>1, Numbers DEF GuidesRead
  <2>2. req' = [req EXCEPT ![r].pc = "put", ![r].version = v]
    BY <1>1, <1>2, <1>3
  <2> HIDE DEF v
  <2>3. /\ \A x \in Requests \ {r} : req'[x] = req[x]
        /\ req'[r].prof = req[r].prof /\ req'[r].etag = g.etag /\ req'[r].version = v
    BY <1>1, <1>3, <2>2 DEF RequestRow
  <2> QED BY <1>1, <2>1, <2>3, MoveVersioned
<1>4. CASE ~(g.etag = req[r].etag)
  <2>1. Close(r)
    BY <1>2, <1>4
  <2>2. req'[r].pc = "idle" /\ \A x \in Requests \ {r} : req'[x] = req[x]
    BY <1>1, <2>1 DEF Close
  <2> QED BY <1>1, <2>2, KeepVersioned
<1> QED BY <1>3, <1>4

LEMMA OneMore ==
  ASSUME NEW S, IsFiniteSet(S), NEW x
  PROVE  /\ IsFiniteSet(S \cup {x}) /\ Cardinality(S \cup {x}) \in Nat
         /\ Cardinality(S \cup {x}) <= Cardinality(S) + 1
<1>1. Cardinality(S) \in Nat
  BY FS_CardinalityType
<1>2. CASE x \in S
  <2> DEFINE T == S \cup {x}
  <2>1. T = S
    BY <1>2
  <2> HIDE DEF T
  <2>2. IsFiniteSet(T) /\ Cardinality(T) \in Nat /\ Cardinality(T) <= Cardinality(S) + 1
    BY <1>1, <2>1
  <2> QED BY <2>2 DEF T
<1>3. CASE x \notin S
  BY <1>1, <1>3, FS_AddElement
<1> QED BY <1>2, <1>3

\* A put over the guide it has checked gives a version nothing had; any other
\* put is one the bound counts.
LEMMA PutVersioned ==
  ASSUME Typed, Versioned, NEW r \in Requests, PutGuide(r)
  PROVE  Versioned'
<1> DEFINE p == req[r].prof
           made == [version |-> req[r].version, items |-> req[r].items, etag |-> guide[p].etag + 1]
           entry == [prof |-> p, version |-> req[r].version, items |-> req[r].items]
<1>0. /\ req[r].pc = "put" /\ req[r].pc # "idle" /\ req[r] \in RequestRow
      /\ req \in [Requests -> RequestRow \cup {NoRequest}] /\ TypeOK
      /\ guide \in [Profs -> Guide] /\ olderGuide \in [Profs -> Guide] /\ clobbered \in [Profs -> Nat]
  BY Shapes DEF PutGuide, Typed, TypeOK
<1>1. /\ guide' = [guide EXCEPT ![p] = made] /\ written' = written \cup {entry}
      /\ olderGuide' = [olderGuide EXCEPT ![p] = guide[p]]
      /\ clobbered' = IF guide[p].etag = req[r].etag THEN clobbered
                      ELSE [clobbered EXCEPT ![p] = @ + 1]
      /\ p \in Profs /\ req[r].version \in 1..MaxVersion
  <2>1. req[r].version # 0 /\ req[r].version \in 0..MaxVersion /\ p \in Profs
    BY <1>0, Numbers DEF Typed
  <2> QED BY <2>1, Numbers DEF PutGuide
<1>2. /\ made.version = req[r].version /\ made.etag = guide[p].etag + 1
      /\ entry.prof = p /\ entry.version = req[r].version /\ entry.items = req[r].items
  OBVIOUS
<1>3. req'[r].pc = "decide" /\ \A x \in Requests \ {r} : req'[x] = req[x]
  BY <1>0 DEF PutGuide, RequestRow
<1> HIDE DEF made, entry, p
<1>4. ASSUME NEW q \in Profs, q # p PROVE InOrder(q)'
  <2>1. InOrder(q)
    BY DEF Versioned
  <2>2. /\ guide'[q] = guide[q] /\ olderGuide'[q] = olderGuide[q] /\ clobbered'[q] = clobbered[q]
    BY <1>0, <1>1, <1>4
  <2>3. \A v : Contents(q, v)' = Contents(q, v)
    BY <1>1, <1>2, <1>4 DEF Contents
  <2>4. PutsInOrder(q)'
    BY <1>3, <2>1, <2>2 DEF InOrder, PutsInOrder
  <2> QED BY <2>1, <2>2, <2>3, <2>4 DEF InOrder, ReadsInOrder, Spread
<1>5. ASSUME NEW q \in Profs, q = p PROVE InOrder(q)'
  <2>0. InOrder(q)
    BY DEF Versioned
  <2>1. /\ guide'[q] = made /\ olderGuide'[q] = guide[q]
        /\ clobbered'[q] = IF guide[q].etag = req[r].etag THEN clobbered[q] ELSE clobbered[q] + 1
    BY <1>0, <1>1, <1>5
  <2>2. /\ guide[q].etag \in Nat /\ guide[q].version \in 1..MaxVersion /\ clobbered[q] \in Nat
        /\ req[r].etag \in Nat /\ MaxVersion \in Nat
    BY <1>0, Numbers
  <2>3. ReadsInOrder(q)'
    BY <1>2, <1>5, <2>1, <2>2 DEF ReadsInOrder
  <2>4. PutsInOrder(q)'
    <3> SUFFICES ASSUME NEW x \in Requests, req'[x].prof = q, req'[x].pc \in {"check", "put"}
                 PROVE  /\ req'[x].etag <= guide'[q].etag
                        /\ req'[x].etag # guide'[q].etag
      BY DEF PutsInOrder
    <3>1. x # r /\ req'[x] = req[x]
      BY <1>3
    <3>2. req[x].etag <= guide[q].etag /\ req[x].etag \in Nat
      BY <2>0, <3>1, Numbers DEF InOrder, PutsInOrder
    <3> QED BY <1>2, <1>5, <2>1, <2>2, <3>1, <3>2
  <2>5. Spread(q)'
    <3> SUFFICES ASSUME NEW v \in 1..MaxVersion
                 PROVE  /\ IsFiniteSet(Contents(q, v)')
                        /\ Cardinality(Contents(q, v)')
                             <= clobbered'[q] + (IF v <= guide'[q].version THEN 1 ELSE 0)
      BY DEF Spread
    <3>1. /\ IsFiniteSet(Contents(q, v)) /\ Cardinality(Contents(q, v)) \in Nat
          /\ Cardinality(Contents(q, v)) <= clobbered[q] + (IF v <= guide[q].version THEN 1 ELSE 0)
      BY <2>0, FS_CardinalityType DEF InOrder, Spread
    <3>2. guide[q].etag = req[r].etag => guide[q].version < req[r].version
      BY <1>0, <1>5, <2>0 DEF InOrder, PutsInOrder, p
    <3>3. CASE v = req[r].version
      <4>1. Contents(q, v)' = Contents(q, v) \cup {req[r].items}
        BY <1>1, <1>2, <1>5, <3>3 DEF Contents
      <4>2. /\ IsFiniteSet(Contents(q, v)') /\ Cardinality(Contents(q, v)') \in Nat
            /\ Cardinality(Contents(q, v)') <= Cardinality(Contents(q, v)) + 1
        BY <3>1, <4>1, OneMore
      <4> QED BY <1>1, <1>2, <2>1, <2>2, <3>1, <3>2, <3>3, <4>2
    <3>4. CASE v # req[r].version
      <4>1. Contents(q, v)' = Contents(q, v)
        BY <1>1, <1>2, <3>4 DEF Contents
      <4> QED BY <1>1, <1>2, <2>1, <2>2, <3>1, <3>2, <4>1
    <3> QED BY <3>3, <3>4
  <2> QED BY <2>3, <2>4, <2>5 DEF InOrder
<1> QED BY <1>4, <1>5 DEF Versioned

LEMMA StepVersioned ==
  ASSUME Typed, Versioned, [Next]_vars
  PROVE  Versioned'
<1>0. TypeOK
  BY DEF Typed
<1>1. CASE UNCHANGED <<req, guideVars>>
  BY <1>1, KeepVersioned
<1>2. ASSUME NEW r \in Requests, RequestStep(r) PROVE Versioned'
  <2>1. CASE LoadGuide(r)
    BY <2>1, LoadVersioned
  <2>2. CASE CheckEtag(r)
    BY <2>2, CheckVersioned
  <2>3. CASE PutGuide(r)
    BY <2>3, PutVersioned
  <2>4. CASE ~LoadGuide(r) /\ ~CheckEtag(r) /\ ~PutGuide(r)
    <3>1. UNCHANGED guideVars /\ \A x \in Requests \ {r} : req'[x] = req[x]
      BY <1>0, <1>2, <2>4, RequestFrame
    <3>2. req'[r].pc \notin {"check", "put"}
      BY <1>0, <1>2, <2>4, RequestOpens, RequestGoes
    <3> QED BY <3>1, <3>2, KeepVersioned
  <2> QED BY <2>1, <2>2, <2>3, <2>4
<1>3. (\E t \in Tuners : TunerStep(t)) \/ UNCHANGED vars => UNCHANGED <<req, guideVars>>
  BY TunerFrame DEF vars
<1> QED BY <1>1, <1>2, <1>3 DEF Next

-----------------------------------------------------------------------------
(* The specification                                                       *)

ProfilesInv == Typed /\ MergedFirst /\ Account /\ Versioned

THEOREM ProfilesInvariant == Spec => []ProfilesInv
<1>1. Init => ProfilesInv
  BY InitTyped, InitMerged, InitAccount, InitVersioned DEF ProfilesInv
<1>2. ProfilesInv /\ [Next]_vars => ProfilesInv'
  BY StepTyped, StepMerged, StepAccount, StepVersioned DEF ProfilesInv
<1> QED BY <1>1, <1>2, PTL DEF Spec

\* Guides, deltas, passes, and requests keep their types.
THEOREM ProfilesTypeCorrect == Spec => []TypeOK
<1>1. ProfilesInv => TypeOK
  BY DEF ProfilesInv, Typed
<1> QED BY <1>1, ProfilesInvariant, PTL

\* For any number of operators, tuners and passes, a profile has no more
\* decisions on record than proposals were put to it.
THEOREM DecidedTheorem == Spec => []DecidedOncePerProposal
<1>1. ASSUME ProfilesInv, NEW p \in Profs PROVE decided[p] <= proposed[p]
  <2>1. Accounted(p) /\ decided[p] \in Nat /\ proposed[p] \in Nat /\ Awaits(p) \in {0, 1}
    BY <1>1 DEF ProfilesInv, Account, Typed, TypeOK, Awaits
  <2> QED BY <2>1, CaptureFinite DEF Accounted
<1>2. ProfilesInv => DecidedOncePerProposal
  BY <1>1 DEF DecidedOncePerProposal
<1> QED BY <1>2, ProfilesInvariant, PTL

\* An applied proposal has been merged into its guide, or a decision was under
\* way that had read another.
THEOREM AppliedTheorem == Spec => []AppliedWasMerged
<1>1. ProfilesInv => AppliedWasMerged
  BY DEF ProfilesInv, MergedFirst
<1> QED BY <1>1, ProfilesInvariant, PTL

\* Each further content under a version of a guide is a put that went over a
\* guide other than the one it had been checked against.
THEOREM VersionsTheorem == Spec => []VersionNamesContent
<1>1. ASSUME ProfilesInv, NEW p \in Profs, NEW v \in 1..MaxVersion
      PROVE  Cardinality(Contents(p, v)) <= 1 + clobbered[p]
  <2>1. /\ IsFiniteSet(Contents(p, v)) /\ Cardinality(Contents(p, v)) \in Nat
        /\ Cardinality(Contents(p, v)) <= clobbered[p] + (IF v <= guide[p].version THEN 1 ELSE 0)
    BY <1>1, FS_CardinalityType DEF ProfilesInv, Versioned, InOrder, Spread
  <2> QED BY <1>1, <2>1, Numbers DEF ProfilesInv
<1>2. ProfilesInv => VersionNamesContent
  BY <1>1 DEF VersionNamesContent
<1> QED BY <1>2, ProfilesInvariant, PTL

=============================================================================
