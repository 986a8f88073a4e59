--------------------------- MODULE PreviewProofs ---------------------------
(***************************************************************************)
(* Proofs about Preview: whatever copies of the Website item the renders,  *)
(* the operators' requests, the stamp and the sweep put over each other,   *)
(* a stored cleartext has a deadline, the code an item names has been      *)
(* valid at the Worker, and a code that was replaced stays replaced; for   *)
(* any number of renders, requests and failures.                           *)
(***************************************************************************)
EXTENDS Preview, TLAPS

JobState == [pc : JobSteps, code : Codes]
RequestState ==
  [pc : {"idle", "event", "kv", "put", "tell"}, op : Ops, copy : Row, code : Codes]

\* A cleartext is of the code of the hash beside it, and has a deadline.
Dated(copy) == copy.cipher # 0 => copy.cipher = copy.hash /\ copy.until # 0

\* So it is in the item and in every copy of it that may be put back.
CopiesDated == Dated(row) /\ \A r \in Requests : Dated(req[r].copy)

\* A code that is or was the one in KV.
Reached(code) == code # 0 => code \in retired \cup {kv}

\* Every code that is in the item, or that a writer is about to put there.
CodesReached ==
  /\ Reached(row.hash)
  /\ \A r \in Requests :
       /\ Reached(req[r].copy.hash)
       /\ req[r].pc = "put" /\ req[r].op = "passcode" => Reached(req[r].code)
       /\ req[r].pc = "event" => req[r].op # "passcode"
  /\ \A i \in Jobs : job[i].pc = "row" => Reached(job[i].code)

\* A code that was generated and has not reached KV.
Unused(code) == code \in 1..lastCode /\ code \notin retired \cup {kv}

\* Every code on its way to KV is new, and on its way once only.
CodesFresh ==
  /\ kv <= lastCode
  /\ \A c \in retired : c <= lastCode
  /\ \A i \in Jobs : job[i].pc = "kv" => Unused(job[i].code)
  /\ \A r \in Requests : req[r].pc = "kv" => Unused(req[r].code) /\ req[r].op = "passcode"
  /\ \A i, j \in Jobs :
       (job[i].pc = "kv" /\ job[j].pc = "kv" /\ job[i].code = job[j].code) => i = j
  /\ \A r, q \in Requests :
       (req[r].pc = "kv" /\ req[q].pc = "kv" /\ req[r].code = req[q].code) => r = q
  /\ \A i \in Jobs, r \in Requests :
       job[i].pc = "kv" /\ req[r].pc = "kv" => job[i].code # req[r].code

PreviewInv == TypeOK /\ CopiesDated /\ CodesReached /\ CodesFresh

-----------------------------------------------------------------------------
(* Types                                                                   *)

LEMMA AbsentTyped == Absent \in Row
BY PreviewAssumption DEF Absent, Row, Statuses, Codes, Times, PreviewAssumption

LEMMA NoRequestTyped == NoRequest \in RequestState
BY AbsentTyped, PreviewAssumption DEF NoRequest, RequestState, Ops, Codes, PreviewAssumption

\* The times the program writes are within the bounds.
LEMMA TimesTyped ==
  ASSUME TypeOK
  PROVE  now + Window \in Times \ {0} /\ now + Delay \in Times
BY PreviewAssumption DEF TypeOK, Times, PreviewAssumption

\* A copy of an item with a fresh code is an item.
LEMMA WithCodeIs ==
  ASSUME TypeOK, NEW copy \in Row, NEW code \in Codes
  PROVE  /\ WithCode(copy, code) \in Row
         /\ WithCode(copy, code).hash = code
         /\ WithCode(copy, code).cipher = code
         /\ WithCode(copy, code).until # 0
<1>1. 0 \in Times /\ now + Window \in Times \ {0}
  BY TimesTyped, PreviewAssumption DEF Times, PreviewAssumption
<1> QED BY <1>1 DEF WithCode, Unstamped, Row

\* What a request puts is an item: the copy it read with another status, or
\* with a fresh code.
LEMMA NewRowIs ==
  ASSUME TypeOK, NEW r \in Requests
  PROVE  /\ NewRow(r) \in Row
         /\ \/ /\ NewRow(r).hash = req[r].copy.hash
               /\ NewRow(r).cipher = req[r].copy.cipher
               /\ NewRow(r).until = req[r].copy.until
            \/ /\ req[r].op = "passcode"
               /\ NewRow(r).hash = req[r].code
               /\ NewRow(r).cipher = req[r].code
               /\ NewRow(r).until # 0
<1>1. req[r].copy \in Row /\ req[r].code \in Codes /\ req[r].op \in Ops
  BY DEF TypeOK
<1>2. 0 \in Times
  BY PreviewAssumption DEF Times, PreviewAssumption
<1>3. CASE req[r].op = "passcode"
  BY <1>1, <1>3, WithCodeIs DEF NewRow
<1>4. CASE req[r].op = "approve"
  BY <1>1, <1>2, <1>4 DEF NewRow, Unstamped, Row, Statuses
<1>5. CASE req[r].op = "reject"
  BY <1>1, <1>2, <1>5 DEF NewRow, Unstamped, Row, Statuses
<1>6. CASE req[r].op = "site"
  BY <1>1, <1>2, <1>6 DEF NewRow, Unstamped, Row, Statuses
<1> QED BY <1>1, <1>3, <1>4, <1>5, <1>6 DEF Ops

LEMMA InitTyped == Init => TypeOK
<1> SUFFICES ASSUME Init PROVE TypeOK
  OBVIOUS
<1>1. 0 \in Codes /\ 0 \in 0..MaxTime /\ 0 \in 0..MaxFaults
  BY PreviewAssumption DEF Codes, PreviewAssumption
<1>2. job \in [Jobs -> JobState]
  BY <1>1 DEF Init, JobState, JobSteps
<1>3. req \in [Requests -> RequestState]
  BY NoRequestTyped DEF Init
<1> QED BY <1>1, <1>2, <1>3, AbsentTyped DEF Init, TypeOK, JobState, RequestState

\* A step of a render keeps the types.
LEMMA JobTyped ==
  ASSUME TypeOK, NEW i \in Jobs, JobStep(i) \/ FailJob(i)
  PROVE  TypeOK'
<1>0. job \in [Jobs -> JobState] /\ job[i] \in JobState
  BY DEF TypeOK, JobState
<1>1. job' \in [Jobs -> JobState]
  <2>1. ASSUME NEW pc \in JobSteps, Advance(i, pc) PROVE job' \in [Jobs -> JobState]
    BY <1>0, <2>1 DEF Advance, JobState
  <2>2. CASE Fetch(i)
    <3>1. CASE Advance(i, "done")
      BY <2>1, <3>1 DEF JobSteps
    <3>2. CASE lastCode < MaxCodes /\ job' = [job EXCEPT ![i] = [pc |-> "kv", code |-> lastCode + 1]]
      <4>1. lastCode + 1 \in Codes
        BY <3>2, PreviewAssumption DEF TypeOK, Codes, PreviewAssumption
      <4>2. [pc |-> "kv", code |-> lastCode + 1] \in JobState
        BY <4>1 DEF JobState, JobSteps
      <4> QED BY <1>0, <3>2, <4>2
    <3> QED BY <2>2, <3>1, <3>2 DEF Fetch
  <2> QED BY <2>1, <2>2
       DEF JobStep, Render, SkipRender, Announce, IssueKV, UpdateRow, FailJob, JobSteps
<1>2. row' \in Row
  <2>1. CASE Render(i)
    BY <2>1, AbsentTyped DEF Render, Row, Statuses
  <2>2. CASE UpdateRow(i)
    <3>1. [Absent EXCEPT !.status = "published"] \in Row
      BY AbsentTyped DEF Row, Statuses
    <3> QED BY <1>0, <2>2, <3>1, WithCodeIs DEF UpdateRow, JobState
  <2> QED BY <2>1, <2>2 DEF JobStep, SkipRender, Announce, Fetch, IssueKV, FailJob, TypeOK
<1>3. lastCode' \in Codes
  BY PreviewAssumption
     DEF JobStep, Render, SkipRender, Announce, Fetch, IssueKV, UpdateRow, FailJob, TypeOK, Codes,
         PreviewAssumption
<1>4. kv' \in Codes /\ retired' \subseteq Codes
  BY <1>0
     DEF JobStep, Render, SkipRender, Announce, Fetch, IssueKV, UpdateRow, FailJob, TypeOK,
         JobState, PutKV
<1>5. /\ faults' \in 0..MaxFaults
      /\ UNCHANGED <<req, mail, sweep, now>>
  BY PreviewAssumption
     DEF JobStep, Render, SkipRender, Announce, Fetch, IssueKV, UpdateRow, FailJob, TypeOK,
         PreviewAssumption
<1> QED BY <1>1, <1>2, <1>3, <1>4, <1>5 DEF TypeOK, JobState

\* A step of an operator's request keeps the types.
LEMMA RequestTyped ==
  ASSUME TypeOK, NEW r \in Requests, ReadSite(r) \/ RequestStep(r) \/ FailRequest(r)
  PROVE  TypeOK'
<1>0. req \in [Requests -> RequestState] /\ req[r] \in RequestState /\ row \in Row
  BY DEF TypeOK, RequestState
<1>1. req' \in [Requests -> RequestState]
  <2>1. ASSUME NEW pc \in {"put", "tell"}, req' = [req EXCEPT ![r].pc = pc]
        PROVE  req' \in [Requests -> RequestState]
    BY <1>0, <2>1 DEF RequestState
  <2>2. CASE Finish(r)
    BY <1>0, <2>2, NoRequestTyped DEF Finish
  <2>3. CASE ReadSite(r)
    <3>1. PICK pc \in {"event", "put", "kv"}, op \in Ops, code \in {0, lastCode + 1} :
            /\ req' = [req EXCEPT ![r] = [pc |-> pc, op |-> op, copy |-> row, code |-> code]]
            /\ code = 0 \/ lastCode < MaxCodes
      BY <2>3 DEF ReadSite
    <3>2. code \in Codes
      BY <3>1, PreviewAssumption DEF TypeOK, Codes, PreviewAssumption
    <3>3. [pc |-> pc, op |-> op, copy |-> row, code |-> code] \in RequestState
      BY <1>0, <3>2 DEF RequestState
    <3> QED BY <1>0, <3>1, <3>3
  <2> QED BY <2>1, <2>2, <2>3
       DEF RequestStep, RequestRender, RotateKV, PutSite, PublishApproved, FailRequest
<1>2. row' \in Row
  BY <1>0, NewRowIs
     DEF ReadSite, RequestStep, RequestRender, RotateKV, PutSite, PublishApproved, FailRequest
<1>3. job' \in [Jobs -> JobState]
  BY DEF ReadSite, RequestStep, RequestRender, RotateKV, PutSite, PublishApproved, FailRequest,
         Advance, TypeOK, JobState, JobSteps
<1>4. lastCode' \in Codes
  BY PreviewAssumption
     DEF ReadSite, RequestStep, RequestRender, RotateKV, PutSite, PublishApproved, FailRequest,
         TypeOK, Codes, PreviewAssumption
<1>5. kv' \in Codes /\ retired' \subseteq Codes
  BY <1>0
     DEF ReadSite, RequestStep, RequestRender, RotateKV, PutSite, PublishApproved, FailRequest,
         TypeOK, RequestState, PutKV
<1>6. /\ faults' \in 0..MaxFaults
      /\ mail' \in {"none", "asked", "drafted", "sent"}
      /\ UNCHANGED <<sweep, now>>
  BY PreviewAssumption
     DEF ReadSite, RequestStep, RequestRender, RotateKV, PutSite, PublishApproved, FailRequest,
         TypeOK, PreviewAssumption
<1> QED BY <1>1, <1>2, <1>3, <1>4, <1>5, <1>6 DEF TypeOK, JobState, RequestState

\* The mail, its stamp, the sweep and the clock.
Elsewhere == DraftMail \/ Stamp \/ Scan \/ Wipe \/ FailSweep \/ Tick

LEMMA ElsewhereTyped ==
  ASSUME TypeOK, Elsewhere
  PROVE  TypeOK'
<1>1. row' \in Row
  <2>1. now + Delay \in Times /\ 0 \in Times /\ 0 \in Codes
    BY TimesTyped, PreviewAssumption DEF Times, Codes, PreviewAssumption
  <2>2. row \in Row
    BY DEF TypeOK
  <2> QED BY <2>1, <2>2 DEF Elsewhere, DraftMail, Stamp, Scan, Wipe, FailSweep, Tick, Row
<1>2. now' \in 0..MaxTime /\ faults' \in 0..MaxFaults
  BY PreviewAssumption
     DEF Elsewhere, DraftMail, Stamp, Scan, Wipe, FailSweep, Tick, TypeOK, PreviewAssumption
<1>3. /\ mail' \in {"none", "asked", "drafted", "sent"} /\ sweep' \in {"idle", "wipe"}
      /\ UNCHANGED <<kv, lastCode, job, req, retired>>
  BY DEF Elsewhere, DraftMail, Stamp, Scan, Wipe, FailSweep, Tick, TypeOK
<1> QED BY <1>1, <1>2, <1>3 DEF TypeOK

LEMMA NextByActor ==
  ASSUME Next
  PROVE  \/ \E i \in Jobs : JobStep(i) \/ FailJob(i)
         \/ \E r \in Requests : ReadSite(r) \/ RequestStep(r) \/ FailRequest(r)
         \/ Elsewhere
BY DEF Next, Elsewhere

LEMMA StepTyped == TypeOK /\ [Next]_vars => TypeOK'
<1> SUFFICES ASSUME TypeOK, [Next]_vars PROVE TypeOK'
  OBVIOUS
<1>1. CASE Next
  BY <1>1, NextByActor, JobTyped, RequestTyped, ElsewhereTyped
<1>2. CASE UNCHANGED vars
  BY <1>2 DEF vars, TypeOK
<1> QED BY <1>1, <1>2
-----------------------------------------------------------------------------
(* Which steps touch what                                                  *)

\* Only renders, puts of requests, the stamp and the sweep write the item.
LEMMA RowKept ==
  ASSUME [Next]_vars,
         ~\E i \in Jobs : Render(i) \/ UpdateRow(i),
         ~\E r \in Requests : PutSite(r),
         ~Stamp, ~Wipe
  PROVE  row' = row
BY DEF Next, JobStep, SkipRender, Announce, Fetch, IssueKV, FailJob, ReadSite, RequestStep,
       RequestRender, RotateKV, PublishApproved, FailRequest, DraftMail, Scan, FailSweep, Tick, vars

\* A request only moves at a step of its own.
LEMMA RequestsKept ==
  ASSUME TypeOK, [Next]_vars, NEW r \in Requests,
         ~(ReadSite(r) \/ RequestStep(r) \/ FailRequest(r))
  PROVE  req'[r] = req[r]
BY DEF Next, JobStep, Render, SkipRender, Announce, Fetch, IssueKV, UpdateRow, FailJob, ReadSite,
       RequestStep, RequestRender, RotateKV, PutSite, PublishApproved, FailRequest, Finish,
       DraftMail, Stamp, Scan, Wipe, FailSweep, Tick, vars, TypeOK

\* The copy a request holds is the item as it was read.
LEMMA CopyIs ==
  ASSUME TypeOK, [Next]_vars, NEW r \in Requests
  PROVE  req'[r].copy \in {req[r].copy, row, Absent}
<1>1. CASE ReadSite(r)
  BY <1>1 DEF ReadSite, TypeOK
<1>2. CASE RequestStep(r) \/ FailRequest(r)
  BY <1>2 DEF RequestStep, RequestRender, RotateKV, PutSite, PublishApproved, FailRequest, Finish,
              NoRequest, TypeOK
<1>3. CASE ~(ReadSite(r) \/ RequestStep(r) \/ FailRequest(r))
  BY <1>3, RequestsKept
<1> QED BY <1>1, <1>2, <1>3

-----------------------------------------------------------------------------
(* Deadlines                                                               *)

LEMMA DatedStep ==
  ASSUME TypeOK, CopiesDated, [Next]_vars
  PROVE  CopiesDated'
<1>1. Dated(Absent)
  BY DEF Dated, Absent
<1>2. ASSUME NEW r \in Requests PROVE Dated(req'[r].copy)
  BY <1>1, CopyIs DEF CopiesDated
<1>3. Dated(row')
  <2>1. ASSUME NEW i \in Jobs, Render(i) PROVE Dated(row')
    BY <2>1 DEF Render, Dated, Absent
  <2>2. ASSUME NEW i \in Jobs, UpdateRow(i) PROVE Dated(row')
    <3>1. [Absent EXCEPT !.status = "published"] \in Row
      BY AbsentTyped DEF Row, Statuses
    <3>2. job[i].code \in Codes
      BY DEF TypeOK
    <3> QED BY <2>2, <3>1, <3>2, WithCodeIs DEF UpdateRow, Dated
  <2>3. ASSUME NEW r \in Requests, PutSite(r) PROVE Dated(row')
    BY <2>3, NewRowIs DEF PutSite, CopiesDated, Dated
  <2>4. CASE Stamp
    <3>1. /\ row'.cipher = row.cipher /\ row'.hash = row.hash /\ row'.until = row.until
      BY <2>4 DEF Stamp, TypeOK, Row
    <3> QED BY <3>1 DEF CopiesDated, Dated
  <2>5. CASE Wipe
    <3>1. row'.cipher = 0
      BY <2>5 DEF Wipe, TypeOK, Row
    <3> QED BY <3>1 DEF Dated
  <2> QED BY <2>1, <2>2, <2>3, <2>4, <2>5, RowKept DEF CopiesDated
<1> QED BY <1>2, <1>3 DEF CopiesDated, Dated

-----------------------------------------------------------------------------
(* KV before the item                                                      *)

\* What has been in KV stays known.
LEMMA ReachedStays ==
  ASSUME [Next]_vars, NEW code, Reached(code)
  PROVE  code # 0 => code \in retired' \cup {kv'}
<1>1. ASSUME NEW c, PutKV(c) PROVE code # 0 => code \in retired' \cup {kv'}
  BY <1>1 DEF PutKV, Reached
<1>2. CASE UNCHANGED <<kv, retired>>
  BY <1>2 DEF Reached
<1> QED BY <1>1, <1>2
     DEF Next, JobStep, Render, SkipRender, Announce, Fetch, IssueKV, UpdateRow, FailJob, ReadSite,
         RequestStep, RequestRender, RotateKV, PutSite, PublishApproved, FailRequest,
         DraftMail, Stamp, Scan, Wipe, FailSweep, Tick, vars

LEMMA ReachedStep ==
  ASSUME TypeOK, CodesReached, [Next]_vars
  PROVE  CodesReached'
<1> DEFINE Known(c) == c # 0 => c \in retired' \cup {kv'}
<1>0. \A c : Reached(c) => Known(c)
  BY ReachedStays
<1>a. Known(Absent.hash)
  BY DEF Absent
<1>1. Known(row'.hash)
  <2>1. ASSUME NEW i \in Jobs, Render(i) PROVE Known(row'.hash)
    BY <2>1 DEF Render, Absent
  <2>2. ASSUME NEW i \in Jobs, UpdateRow(i) PROVE Known(row'.hash)
    <3>1. [Absent EXCEPT !.status = "published"] \in Row
      BY AbsentTyped DEF Row, Statuses
    <3>2. job[i].code \in Codes
      BY DEF TypeOK
    <3>3. row'.hash = job[i].code /\ Reached(job[i].code)
      BY <2>2, <3>1, <3>2, WithCodeIs DEF UpdateRow, CodesReached
    <3> QED BY <1>0, <3>3
  <2>3. ASSUME NEW r \in Requests, PutSite(r) PROVE Known(row'.hash)
    <3>1. Reached(row'.hash)
      BY <2>3, NewRowIs DEF PutSite, CodesReached
    <3> QED BY <1>0, <3>1
  <2>4. CASE Stamp \/ Wipe
    <3>1. row'.hash = row.hash
      BY <2>4 DEF Stamp, Wipe, TypeOK, Row
    <3> QED BY <1>0, <3>1 DEF CodesReached
  <2>5. CASE row' = row
    BY <1>0, <2>5 DEF CodesReached
  <2> QED BY <2>1, <2>2, <2>3, <2>4, <2>5, RowKept
<1>2. ASSUME NEW r \in Requests PROVE Known(req'[r].copy.hash)
  <2>1. Reached(row.hash) /\ Reached(req[r].copy.hash)
    BY DEF CodesReached
  <2> QED BY <1>0, <1>a, <2>1, CopyIs
<1>3. ASSUME NEW r \in Requests, req'[r].pc = "put", req'[r].op = "passcode"
      PROVE  Known(req'[r].code)
  <2>1. CASE ReadSite(r)
    BY <1>3, <2>1 DEF ReadSite, TypeOK
  <2>2. CASE RequestRender(r)
    <3>1. req'[r].op = req[r].op /\ req'[r].code = req[r].code /\ req[r].pc = "event"
      BY <2>2 DEF RequestRender, TypeOK
    <3> QED BY <1>3, <2>2, <3>1 DEF RequestRender, CodesReached
  <2>3. CASE RotateKV(r)
    <3>1. req'[r].code = req[r].code /\ kv' = req[r].code
      BY <2>3 DEF RotateKV, PutKV, TypeOK
    <3> QED BY <3>1
  <2>4. CASE PutSite(r) \/ PublishApproved(r) \/ FailRequest(r)
    BY <1>3, <2>4 DEF PutSite, PublishApproved, FailRequest, Finish, NoRequest, TypeOK
  <2>5. CASE req'[r] = req[r]
    BY <1>0, <1>3, <2>5 DEF CodesReached
  <2> QED BY <2>1, <2>2, <2>3, <2>4, <2>5, RequestsKept DEF RequestStep
<1>4. ASSUME NEW i \in Jobs, job'[i].pc = "row" PROVE Known(job'[i].code)
  <2>1. CASE IssueKV(i)
    <3>1. job'[i].code = job[i].code /\ kv' = job[i].code
      BY <2>1 DEF IssueKV, Advance, PutKV, TypeOK
    <3> QED BY <3>1
  <2>2. CASE ~IssueKV(i)
    <3>1. job'[i] = job[i]
      BY <1>4, <2>2
         DEF Next, JobStep, Render, SkipRender, Announce, Fetch, IssueKV, UpdateRow, FailJob, Advance,
             ReadSite, RequestStep, RequestRender, RotateKV, PutSite, PublishApproved, FailRequest,
             DraftMail, Stamp, Scan, Wipe, FailSweep, Tick, vars, TypeOK
    <3> QED BY <1>0, <1>4, <3>1 DEF CodesReached
  <2> QED BY <2>1, <2>2
<1>5. ASSUME NEW r \in Requests, req'[r].pc = "event" PROVE req'[r].op # "passcode"
  <2>1. CASE ReadSite(r)
    BY <1>5, <2>1 DEF ReadSite, TypeOK
  <2>2. CASE RequestStep(r) \/ FailRequest(r)
    BY <1>5, <2>2 DEF RequestStep, RequestRender, RotateKV, PutSite, PublishApproved, FailRequest,
                      Finish, NoRequest, TypeOK
  <2>3. CASE req'[r] = req[r]
    BY <1>5, <2>3 DEF CodesReached
  <2> QED BY <2>1, <2>2, <2>3, RequestsKept
<1> QED BY <1>1, <1>2, <1>3, <1>4, <1>5 DEF CodesReached, Reached
-----------------------------------------------------------------------------
(* Each generated code reaches KV once                                     *)

\* Who moves a code: a render or a request generates it and puts it in KV.
Generates(i) == Fetch(i) /\ row.status = "generated"

\* A render on its way to KV was there already, or has just made its code.
LEMMA JobsWithCode ==
  ASSUME TypeOK, [Next]_vars, NEW i \in Jobs, job'[i].pc = "kv"
  PROVE  \/ job'[i] = job[i] /\ ~IssueKV(i)
         \/ /\ Generates(i) /\ job'[i].code = lastCode + 1 /\ lastCode' = lastCode + 1
            /\ UNCHANGED <<req, kv, retired>>
            /\ \A j \in Jobs : j # i => job'[j] = job[j]
<1>1. CASE Fetch(i)
  BY <1>1 DEF Fetch, Generates, Advance, TypeOK
<1>2. CASE ~Fetch(i)
  <2>1. ASSUME NEW j \in Jobs, j # i, JobStep(j) \/ FailJob(j) PROVE job'[i] = job[i]
    BY <2>1 DEF JobStep, Render, SkipRender, Announce, Fetch, IssueKV, UpdateRow, FailJob, Advance,
                TypeOK
  <2>2. ASSUME JobStep(i) \/ FailJob(i) PROVE FALSE
    BY <1>2, <2>2 DEF JobStep, Render, SkipRender, Announce, IssueKV, UpdateRow, FailJob, Advance,
                      TypeOK
  <2>3. ASSUME NEW r \in Requests, ReadSite(r) \/ RequestStep(r) \/ FailRequest(r)
        PROVE  job'[i] = job[i]
    BY <2>3
       DEF ReadSite, RequestStep, RequestRender, RotateKV, PutSite, PublishApproved, FailRequest,
           Advance, TypeOK
  <2>4. ASSUME Elsewhere \/ UNCHANGED vars PROVE job'[i] = job[i]
    BY <2>4 DEF Elsewhere, DraftMail, Stamp, Scan, Wipe, FailSweep, Tick, vars
  <2>5. ~IssueKV(i)
    BY <2>2 DEF JobStep
  <2> QED BY <2>1, <2>2, <2>3, <2>4, <2>5, NextByActor
<1> QED BY <1>1, <1>2

\* So was a request.
LEMMA RequestsWithCode ==
  ASSUME TypeOK, [Next]_vars, NEW r \in Requests, req'[r].pc = "kv"
  PROVE  \/ req'[r] = req[r] /\ ~RotateKV(r)
         \/ /\ req'[r].code = lastCode + 1 /\ lastCode' = lastCode + 1
            /\ req'[r].op = "passcode"
            /\ UNCHANGED <<job, kv, retired>>
            /\ \A q \in Requests : q # r => req'[q] = req[q]
<1>1. CASE ReadSite(r)
  BY <1>1 DEF ReadSite, TypeOK
<1>2. ASSUME RequestStep(r) \/ FailRequest(r) PROVE FALSE
  BY <1>2 DEF RequestStep, RequestRender, RotateKV, PutSite, PublishApproved, FailRequest, Finish,
              NoRequest, TypeOK
<1>3. ~RotateKV(r)
  BY <1>2 DEF RequestStep
<1> QED BY <1>1, <1>2, <1>3, RequestsKept

\* KV changes only for the code of a render or of a request.
LEMMA KVChanges ==
  ASSUME [Next]_vars
  PROVE  \/ UNCHANGED <<kv, retired>>
         \/ \E i \in Jobs : IssueKV(i)
         \/ \E r \in Requests : RotateKV(r)
BY DEF Next, JobStep, Render, SkipRender, Announce, Fetch, UpdateRow, FailJob, ReadSite,
       RequestStep, RequestRender, PutSite, PublishApproved, FailRequest,
       DraftMail, Stamp, Scan, Wipe, FailSweep, Tick, vars

LEMMA CodesGrow == ASSUME TypeOK, [Next]_vars PROVE lastCode' \in {lastCode, lastCode + 1}
BY DEF Next, JobStep, Render, SkipRender, Announce, Fetch, IssueKV, UpdateRow, FailJob, ReadSite,
       RequestStep, RequestRender, RotateKV, PutSite, PublishApproved, FailRequest,
       DraftMail, Stamp, Scan, Wipe, FailSweep, Tick, vars

\* A code that is not the one being put stays unused.
LEMMA UnusedStays ==
  ASSUME TypeOK, CodesFresh, [Next]_vars, NEW code, Unused(code),
         \A i \in Jobs : IssueKV(i) => job[i].code # code,
         \A r \in Requests : RotateKV(r) => req[r].code # code
  PROVE  code \in 1..lastCode' /\ code \notin retired' \cup {kv'}
<1>1. lastCode \in Nat /\ lastCode' \in {lastCode, lastCode + 1}
  BY CodesGrow, PreviewAssumption DEF TypeOK, Codes, PreviewAssumption
<1>2. code \in 1..lastCode'
  BY <1>1 DEF Unused
<1>3. code \notin retired' \cup {kv'}
  BY KVChanges DEF IssueKV, RotateKV, PutKV, Unused
<1> QED BY <1>2, <1>3

LEMMA FreshStep ==
  ASSUME TypeOK, CodesFresh, [Next]_vars
  PROVE  CodesFresh'
<1>0. /\ lastCode \in Nat /\ lastCode' \in Nat /\ lastCode <= lastCode'
      /\ kv \in Nat /\ retired \subseteq Nat
  BY CodesGrow, PreviewAssumption DEF TypeOK, Codes, PreviewAssumption
<1>1. /\ kv' <= lastCode'
      /\ \A c \in retired' : c <= lastCode'
  <2>1. CASE UNCHANGED <<kv, retired>>
    BY <1>0, <2>1 DEF CodesFresh
  <2>2. ASSUME NEW code, Unused(code), PutKV(code) PROVE kv' <= lastCode' /\ \A c \in retired' : c <= lastCode'
    BY <1>0, <2>2 DEF Unused, PutKV, CodesFresh
  <2> QED BY <2>1, <2>2, KVChanges DEF IssueKV, RotateKV, CodesFresh
<1>2. ASSUME NEW i \in Jobs, job'[i].pc = "kv"
      PROVE  job'[i].code \in 1..lastCode' /\ job'[i].code \notin retired' \cup {kv'}
  <2>1. CASE job'[i] = job[i] /\ ~IssueKV(i)
    <3>1. /\ Unused(job[i].code)
          /\ \A j \in Jobs : IssueKV(j) => job[j].code # job[i].code
          /\ \A r \in Requests : RotateKV(r) => req[r].code # job[i].code
      BY <1>2, <2>1 DEF IssueKV, RotateKV, CodesFresh
    <3> QED BY <2>1, <3>1, UnusedStays
  <2>2. CASE job'[i].code = lastCode + 1 /\ lastCode' = lastCode + 1 /\ UNCHANGED <<kv, retired>>
    BY <1>0, <2>2 DEF CodesFresh
  <2> QED BY <1>2, <2>1, <2>2, JobsWithCode
<1>3. ASSUME NEW r \in Requests, req'[r].pc = "kv"
      PROVE  /\ req'[r].code \in 1..lastCode' /\ req'[r].code \notin retired' \cup {kv'}
             /\ req'[r].op = "passcode"
  <2>1. CASE req'[r] = req[r] /\ ~RotateKV(r)
    <3>1. /\ Unused(req[r].code) /\ req[r].op = "passcode"
          /\ \A j \in Jobs : IssueKV(j) => job[j].code # req[r].code
          /\ \A q \in Requests : RotateKV(q) => req[q].code # req[r].code
      BY <1>3, <2>1 DEF IssueKV, RotateKV, CodesFresh
    <3> QED BY <2>1, <3>1, UnusedStays
  <2>2. CASE req'[r].code = lastCode + 1 /\ lastCode' = lastCode + 1 /\ UNCHANGED <<kv, retired>>
             /\ req'[r].op = "passcode"
    BY <1>0, <2>2 DEF CodesFresh
  <2> QED BY <1>3, <2>1, <2>2, RequestsWithCode
<1>4. ASSUME NEW i \in Jobs, NEW j \in Jobs, job'[i].pc = "kv", job'[j].pc = "kv",
             job'[i].code = job'[j].code
      PROVE  i = j
  <2>1. \A k \in Jobs : job[k].pc = "kv" => job[k].code # lastCode + 1
    BY <1>0 DEF CodesFresh, Unused
  <2>2. CASE job'[i] = job[i] /\ job'[j] = job[j]
    BY <1>4, <2>2 DEF CodesFresh
  <2> QED BY <1>4, <2>1, <2>2, JobsWithCode
<1>5. ASSUME NEW r \in Requests, NEW q \in Requests, req'[r].pc = "kv", req'[q].pc = "kv",
             req'[r].code = req'[q].code
      PROVE  r = q
  <2>1. \A k \in Requests : req[k].pc = "kv" => req[k].code # lastCode + 1
    BY <1>0 DEF CodesFresh, Unused
  <2>2. CASE req'[r] = req[r] /\ req'[q] = req[q]
    BY <1>5, <2>2 DEF CodesFresh
  <2> QED BY <1>5, <2>1, <2>2, RequestsWithCode
<1>6. ASSUME NEW i \in Jobs, NEW r \in Requests, job'[i].pc = "kv", req'[r].pc = "kv"
      PROVE  job'[i].code # req'[r].code
  <2>1. /\ job[i].pc = "kv" => job[i].code # lastCode + 1
        /\ req[r].pc = "kv" => req[r].code # lastCode + 1
    BY <1>0 DEF CodesFresh, Unused
  <2>2. CASE job'[i] = job[i] /\ req'[r] = req[r]
    BY <1>6, <2>2 DEF CodesFresh
  <2>3. CASE job'[i] = job[i] /\ req'[r].code = lastCode + 1 /\ UNCHANGED job
    BY <1>6, <2>1, <2>3
  <2>4. CASE req'[r] = req[r] /\ job'[i].code = lastCode + 1 /\ UNCHANGED req
    BY <1>6, <2>1, <2>4
  <2> QED BY <1>6, <2>2, <2>3, <2>4, JobsWithCode, RequestsWithCode
<1> QED BY <1>1, <1>2, <1>3, <1>4, <1>5, <1>6 DEF CodesFresh, Unused

-----------------------------------------------------------------------------
LEMMA InitPreview == Init => PreviewInv
<1> SUFFICES ASSUME Init PROVE PreviewInv
  OBVIOUS
<1>1. CopiesDated
  BY DEF Init, CopiesDated, Dated, Absent, NoRequest
<1>2. CodesReached
  BY DEF Init, CodesReached, Reached, Absent, NoRequest
<1>3. CodesFresh
  BY DEF Init, CodesFresh, NoRequest
<1> QED BY <1>1, <1>2, <1>3, InitTyped DEF PreviewInv

LEMMA StepPreview == PreviewInv /\ [Next]_vars => PreviewInv'
BY StepTyped, DatedStep, ReachedStep, FreshStep DEF PreviewInv

\* The inductive invariant: every copy of the item that may still be put back
\* is dated and names a code KV has had, and every code on its way to KV is new
\* there and on its way once.
THEOREM PreviewInvariant == Spec => []PreviewInv
BY InitPreview, StepPreview, PTL DEF Spec

\* Every variable keeps its type.
THEOREM PreviewTypeCorrect == Spec => []TypeOK
<1>1. PreviewInv => TypeOK
  BY DEF PreviewInv
<1> QED BY <1>1, PreviewInvariant, PTL

\* A cleartext in the item is the code of the hash beside it and has a
\* deadline, whichever copies the writers put over each other, so
\* passcode-cleanup's backstop comes to every one (putWebsite, updateWebsite).
THEOREM CleartextHasDeadlineTheorem == Spec => []CleartextHasDeadline
<1>1. PreviewInv => CleartextHasDeadline
  BY DEF PreviewInv, CopiesDated, Dated, CleartextHasDeadline
<1> QED BY <1>1, PreviewInvariant, PTL

\* The code an item names is or was the one in KV: publisher and
\* handleRegeneratePasscode put KV first, and no crash or late copy undoes it.
THEOREM RowCodeReachedKVTheorem == Spec => []RowCodeReachedKV
<1>1. PreviewInv => RowCodeReachedKV
  BY DEF PreviewInv, CodesReached, Reached, RowCodeReachedKV
<1> QED BY <1>1, PreviewInvariant, PTL

\* A code that was replaced in KV never opens the preview again, for any number
\* of renders and requests that cross (handleRegeneratePasscode, publisher).
THEOREM RetiredTheorem == Spec => RetiredStaysRetired
<1>1. PreviewInv /\ [Next]_vars => [kv' # kv => kv' \notin retired]_vars
  <2> SUFFICES ASSUME PreviewInv, Next, kv' # kv PROVE kv' \notin retired
    BY DEF vars
  <2>1. CodesFresh
    BY DEF PreviewInv
  <2> QED BY <2>1, KVChanges DEF IssueKV, RotateKV, PutKV, CodesFresh, Unused
<1> QED BY <1>1, PreviewInvariant, PTL DEF Spec, RetiredStaysRetired
=============================================================================
