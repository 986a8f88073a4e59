------------------------------ MODULE Preview ------------------------------
(***************************************************************************)
(* One preview website and its passcode: the render pipeline (generator,   *)
(* then publisher), the operator's concurrent requests (api-website), the  *)
(* passcode-cleanup sweep, the sender's cleanup stamp, and the two places  *)
(* a passcode lives in: the Website item and the Workers KV entry that     *)
(* opens the preview.                                                      *)
(*                                                                         *)
(* Lambdas read the Website item, compute, and put the whole item back;    *)
(* each read and each write is a step of its own.  A passcode is a number; *)
(* its hash and its cipher are written with it, 0 stands for none.         *)
(***************************************************************************)
EXTENDS Naturals

CONSTANTS
  Jobs,       \* renders: the spec.approved one and those of regenerate-site
  Requests,   \* concurrent api-website invocations
  Window,     \* PasscodeRevealableWindow, in ticks (7 days)
  Delay,      \* cleanup delay after a send, in ticks (24 hours)
  SpecStays,  \* TRUE: the Spec stays approved
  MaxCodes,   \* bound: passcodes generated
  MaxTime,    \* bound: the clock
  MaxFaults   \* bound: failures and crashes

ASSUME PreviewAssumption ==
  /\ Window \in Nat \ {0}
  /\ Delay \in Nat \ {0}
  /\ SpecStays \in BOOLEAN
  /\ MaxCodes \in Nat
  /\ MaxTime \in Nat
  /\ MaxFaults \in Nat

VARIABLES
  row,       \* the Website item
  kv,        \* the code whose hash is at passcode:<websiteId> in Workers KV
  lastCode,  \* codes generated so far
  job,       \* job[i]: a render and where it is
  req,       \* req[r]: an api-website request in progress
  mail,      \* outreach for the approved site
  sweep,     \* passcode-cleanup: "idle" or "wipe" after a scan found the row
  now,       \* the clock
  faults,    \* failures so far
  retired    \* history: codes that were replaced in KV

vars == <<row, kv, lastCode, job, req, mail, sweep, now, faults, retired>>

Codes == 0..MaxCodes
Times == 0..(MaxTime + Window + Delay)
Statuses == {"absent", "generated", "published", "approved", "rejected",
             "regenerated"}

Row == [status : Statuses, hash : Codes, cipher : Codes, until : Times, due : Times]
Absent == [status |-> "absent", hash |-> 0, cipher |-> 0, until |-> 0, due |-> 0]

JobSteps == {"idle", "render", "announce", "publish", "kv", "row", "done"}
Ops == {"approve", "reject", "site", "passcode"}
NoRequest == [pc |-> "idle", op |-> "site", copy |-> Absent, code |-> 0]

TypeOK ==
  /\ row \in Row
  /\ kv \in Codes
  /\ lastCode \in Codes
  /\ job \in [Jobs -> [pc : JobSteps, code : Codes]]
  /\ req \in [Requests ->
                [pc : {"idle", "event", "kv", "put", "tell"}, op : Ops, copy : Row, code : Codes]]
  /\ mail \in {"none", "asked", "drafted", "sent"}
  /\ sweep \in {"idle", "wipe"}
  /\ now \in 0..MaxTime
  /\ faults \in 0..MaxFaults
  /\ retired \subseteq Codes

\* The spec of the business has been approved: one render is under way.
Init ==
  /\ row = Absent
  /\ kv = 0
  /\ lastCode = 0
  /\ \E first \in Jobs :
       job = [i \in Jobs |-> [pc |-> IF i = first THEN "render" ELSE "idle", code |-> 0]]
  /\ req = [r \in Requests |-> NoRequest]
  /\ mail = "none"
  /\ sweep = "idle"
  /\ now = 0
  /\ faults = 0
  /\ retired = {}

\* A code replaces the one in KV.
PutKV(code) ==
  /\ kv' = code
  /\ retired' = retired \cup ({kv} \ {0})

\* Variant: the row type does not have passcodeRevealableUntil either.
UnstampedUndated(copy) == [copy EXCEPT !.due = 0, !.until = 0]

\* What a stamped item becomes when it passes through a row type that has no
\* passcodeCleanupDueAt.
Unstamped(copy) == [copy EXCEPT !.due = 0]

\* A fresh code on a copy of the item, revealable for Window.
WithCode(copy, code) ==
  [Unstamped(copy) EXCEPT !.hash = code, !.cipher = code, !.until = now + Window]

-----------------------------------------------------------------------------
(* generator.runOne and publisher.runOne, each under the marker of its     *)
(* event.                                                                  *)

Advance(i, pc) == job' = [job EXCEPT ![i].pc = pc]

\* The item is put anew, without any passcode field.
Render(i) ==
  /\ job[i].pc = "render"
  /\ row' = [Absent EXCEPT !.status = "generated"]
  /\ Advance(i, "announce")
  /\ UNCHANGED <<kv, lastCode, req, mail, sweep, now, faults, retired>>

\* The Spec is no longer approved.
SkipRender(i) ==
  /\ ~SpecStays
  /\ job[i].pc = "render"
  /\ Advance(i, "done")
  /\ UNCHANGED <<row, kv, lastCode, req, mail, sweep, now, faults, retired>>

\* website.generated reaches the publisher's queue.
Announce(i) ==
  /\ job[i].pc = "announce"
  /\ Advance(i, "publish")
  /\ UNCHANGED <<row, kv, lastCode, req, mail, sweep, now, faults, retired>>

\* Variant: the item is updated before KV.
FetchRowFirst(i) ==
  /\ job[i].pc = "publish"
  /\ \/ /\ row.status = "generated"
        /\ lastCode < MaxCodes
        /\ lastCode' = lastCode + 1
        /\ job' = [job EXCEPT ![i] = [pc |-> "row", code |-> lastCode + 1]]
     \/ /\ row.status # "generated"
        /\ Advance(i, "done")
        /\ UNCHANGED lastCode
  /\ UNCHANGED <<row, kv, req, mail, sweep, now, faults, retired>>

\* The publisher reads the item; only a generated one is published, with a
\* fresh code.
Fetch(i) ==
  /\ job[i].pc = "publish"
  /\ \/ /\ row.status = "generated"
        /\ lastCode < MaxCodes
        /\ lastCode' = lastCode + 1
        /\ job' = [job EXCEPT ![i] = [pc |-> "kv", code |-> lastCode + 1]]
     \/ /\ row.status # "generated"
        /\ Advance(i, "done")
        /\ UNCHANGED lastCode
  /\ UNCHANGED <<row, kv, req, mail, sweep, now, faults, retired>>

IssueKV(i) ==
  /\ job[i].pc = "kv"
  /\ PutKV(job[i].code)
  /\ Advance(i, "row")
  /\ UNCHANGED <<row, lastCode, req, mail, sweep, now, faults>>

\* The item that was read, published with the code; website.published follows.
UpdateRow(i) ==
  /\ job[i].pc = "row"
  /\ row' = WithCode([Absent EXCEPT !.status = "published"], job[i].code)
  /\ Advance(i, "done")
  /\ UNCHANGED <<kv, lastCode, req, mail, sweep, now, faults, retired>>

\* A step fails or the container dies; the event's marker stays.
FailJob(i) ==
  /\ job[i].pc \notin {"idle", "done"}
  /\ faults < MaxFaults
  /\ faults' = faults + 1
  /\ Advance(i, "done")
  /\ UNCHANGED <<row, kv, lastCode, req, mail, sweep, now, retired>>

-----------------------------------------------------------------------------
(* api-website: every request reads the item first and puts its copy back. *)

\* Only a published preview can be decided on; the two regenerate requests
\* accept any status.
ReadSite(r) ==
  /\ req[r].pc = "idle"
  /\ row.status # "absent"
  /\ \E op \in Ops :
       /\ op \in {"approve", "reject"} => row.status = "published"
       /\ IF op = "passcode"
          THEN /\ lastCode < MaxCodes
               /\ lastCode' = lastCode + 1
               /\ req' = [req EXCEPT ![r] =
                    [pc |-> "kv", op |-> op, copy |-> row, code |-> lastCode + 1]]
          ELSE /\ UNCHANGED lastCode
               /\ req' = [req EXCEPT ![r] =
                    [pc |-> IF op = "site" THEN "event" ELSE "put",
                     op |-> op, copy |-> row, code |-> 0]]
  /\ UNCHANGED <<row, kv, job, mail, sweep, now, faults, retired>>

Finish(r) == req' = [req EXCEPT ![r] = NoRequest]

\* handleRegenerateSite publishes website.regenerate.requested first.
RequestRender(r) ==
  /\ req[r].pc = "event"
  /\ \E i \in Jobs :
       /\ job[i].pc = "idle"
       /\ Advance(i, "render")
  /\ req' = [req EXCEPT ![r].pc = "put"]
  /\ UNCHANGED <<row, kv, lastCode, mail, sweep, now, faults, retired>>

\* handleRegeneratePasscode writes KV first.
RotateKV(r) ==
  /\ req[r].pc = "kv"
  /\ PutKV(req[r].code)
  /\ req' = [req EXCEPT ![r].pc = "put"]
  /\ UNCHANGED <<row, lastCode, job, mail, sweep, now, faults>>

\* putWebsite: the copy that was read, decided, parked or with its new code.
NewRow(r) ==
  LET copy == req[r].copy IN
  CASE req[r].op = "approve"  -> [Unstamped(copy) EXCEPT !.status = "approved"]
    [] req[r].op = "reject"   -> [Unstamped(copy) EXCEPT !.status = "rejected"]
    [] req[r].op = "site"     -> [Unstamped(copy) EXCEPT !.status = "regenerated"]
    [] req[r].op = "passcode" -> WithCode(copy, req[r].code)

\* Variant: every put refreshes the KV entry from the copy it puts.
PutSiteRefreshing(r) ==
  /\ req[r].pc = "put"
  /\ row' = NewRow(r)
  /\ PutKV(NewRow(r).hash)
  /\ IF req[r].op = "approve"
     THEN req' = [req EXCEPT ![r].pc = "tell"]
     ELSE Finish(r)
  /\ UNCHANGED <<lastCode, job, mail, sweep, now, faults>>

PutSite(r) ==
  /\ req[r].pc = "put"
  /\ row' = NewRow(r)
  /\ IF req[r].op = "approve"
     THEN req' = [req EXCEPT ![r].pc = "tell"]
     ELSE Finish(r)
  /\ UNCHANGED <<kv, lastCode, job, mail, sweep, now, faults, retired>>

\* website.approved reaches email-draft's queue.
PublishApproved(r) ==
  /\ req[r].pc = "tell"
  /\ mail' = IF mail = "none" THEN "asked" ELSE mail
  /\ Finish(r)
  /\ UNCHANGED <<row, kv, lastCode, job, sweep, now, faults, retired>>

\* A 500 or 502 answer, or the Lambda dies.
FailRequest(r) ==
  /\ req[r].pc # "idle"
  /\ faults < MaxFaults
  /\ faults' = faults + 1
  /\ Finish(r)
  /\ UNCHANGED <<row, kv, lastCode, job, mail, sweep, now, retired>>

\* handleRevealPasscode answers with the code in the item, or 409.
Revealable == row.cipher # 0 /\ (row.until > 0 => now <= row.until)

-----------------------------------------------------------------------------
(* email-draft, sender.setCleanupDue, passcode-cleanup, and time.          *)

\* email-draft on website.approved: no draft without a cleartext.
DraftMail ==
  /\ mail = "asked"
  /\ mail' = IF row.cipher = 0 THEN "none" ELSE "drafted"
  /\ UNCHANGED <<row, kv, lastCode, job, req, sweep, now, faults, retired>>

\* Variant: the due time is stamped in milliseconds.
StampInMillis ==
  /\ mail = "drafted"
  /\ mail' = "sent"
  /\ row' = [row EXCEPT !.due = (now + Delay) * 1000]
  /\ UNCHANGED <<kv, lastCode, job, req, sweep, now, faults, retired>>

\* The mail has gone out, whatever has become of the item since.
Stamp ==
  /\ mail = "drafted"
  /\ mail' = "sent"
  /\ row' = [row EXCEPT !.due = now + Delay]
  /\ UNCHANGED <<kv, lastCode, job, req, sweep, now, faults, retired>>

\* Variant: without the backstop.
DueStamped == row.cipher # 0 /\ row.due # 0 /\ row.due <= now

Due == /\ row.cipher # 0
       /\ \/ row.due # 0 /\ row.due <= now
          \/ row.until # 0 /\ row.until <= now

Scan ==
  /\ sweep = "idle"
  /\ Due
  /\ sweep' = "wipe"
  /\ UNCHANGED <<row, kv, lastCode, job, req, mail, now, faults, retired>>

\* The condition is only that a cipher is there.
Wipe ==
  /\ sweep = "wipe"
  /\ sweep' = "idle"
  /\ row' = IF row.cipher # 0 THEN [row EXCEPT !.cipher = 0, !.due = 0] ELSE row
  /\ UNCHANGED <<kv, lastCode, job, req, mail, now, faults, retired>>

\* The UpdateItem fails, or the sweep dies: the next run scans again.
FailSweep ==
  /\ sweep = "wipe"
  /\ faults < MaxFaults
  /\ faults' = faults + 1
  /\ sweep' = "idle"
  /\ UNCHANGED <<row, kv, lastCode, job, req, mail, now, retired>>

Tick ==
  /\ now < MaxTime
  /\ now' = now + 1
  /\ UNCHANGED <<row, kv, lastCode, job, req, mail, sweep, faults, retired>>

-----------------------------------------------------------------------------
JobStep(i) ==
  Render(i) \/ SkipRender(i) \/ Announce(i) \/ Fetch(i) \/ IssueKV(i) \/ UpdateRow(i)

RequestStep(r) ==
  RequestRender(r) \/ RotateKV(r) \/ PutSite(r) \/ PublishApproved(r)

Next ==
  \/ \E i \in Jobs : JobStep(i) \/ FailJob(i)
  \/ \E r \in Requests : ReadSite(r) \/ RequestStep(r) \/ FailRequest(r)
  \/ DraftMail \/ Stamp \/ Scan \/ Wipe \/ FailSweep \/ Tick

Spec == Init /\ [][Next]_vars

\* Queues are drained, requests run to their end, the sweep is scheduled every
\* hour.  Operators owe nothing.
Fairness ==
  /\ \A i \in Jobs : WF_vars(JobStep(i))
  /\ \A r \in Requests : WF_vars(RequestStep(r))
  /\ WF_vars(Scan)
  /\ WF_vars(Wipe)

FairSpec == Spec /\ Fairness

-----------------------------------------------------------------------------
(* Properties.                                                             *)

(* The passcode fields of the item hang together although five writers put
   copies of it: a stored cleartext is the code of the stored hash, and it
   has a deadline, so no cleartext escapes the sweep's backstop. *)
CleartextHasDeadline ==
  row.cipher # 0 => row.cipher = row.hash /\ row.until # 0

(* KV is written before the item: the code the item names has been valid at
   the Worker, so a code that can be revealed or mailed once opened the site. *)
RowCodeReachedKV == row.hash # 0 => row.hash \in retired \cup {kv}

(* A code that was replaced never opens the preview again, whatever late
   writers come (handleRegeneratePasscode: "the old cleartext is instantly
   invalid"). *)
RetiredStaysRetired == [][kv' # kv => kv' \notin retired]_vars

(* The retention guarantee of passcode-cleanup: once the window of a stored
   cleartext has passed, it is wiped or replaced by one with a new window,
   even though requests may put old copies of the item back. *)
CleartextExpires ==
  (row.cipher # 0 /\ row.until <= now) ~> (row.cipher = 0 \/ row.until > now)

AtRest ==
  /\ \A i \in Jobs : job[i].pc \in {"idle", "done"}
  /\ \A r \in Requests : req[r].pc = "idle"

(* api-website/main.go: reveal answers 409 for a wiped or expired cipher,
   "never a stale value": with nothing under way, a code that is revealed
   opens the preview. *)
RevealIsCurrent == AtRest /\ Revealable => row.cipher = kv

(* 02-data-model.md: the cleartext is erased after the sweep's 24 hours or
   once passcodeRevealableUntil has passed.  Then a wipe never takes a
   cleartext neither of whose times has passed. *)
OnlyDueIsWiped ==
  [][(row.cipher # 0 /\ row'.cipher = 0 /\ row'.status = row.status) => Due]_vars

(* api-website/main.go on regenerate-site: the status is parked at
   "regenerated" until the publisher flips it back to "published". *)
ParkedIsRepublished ==
  (row.status = "regenerated") ~> (row.status # "regenerated")
=============================================================================
