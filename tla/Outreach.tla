------------------------------ MODULE Outreach ------------------------------
(***************************************************************************)
(* From a drafted email to the prospect's mailbox: the EmailDraft rows     *)
(* email-draft writes, the operator's concurrent review requests           *)
(* (api-email), the email.approved events they publish, the sender Lambda  *)
(* with its send-once marker, and the suppression list that bounces,       *)
(* complaints and unsubscribes feed.                                       *)
(*                                                                         *)
(* Every store access of a request or of a send is a step of its own, so   *)
(* requests and sends interleave between any two of them.                  *)
(***************************************************************************)
EXTENDS Naturals, FiniteSets

CONSTANTS
  Drafts,        \* EmailDraft ids
  Journeys,      \* (contact, website) pairs: the send-once key
  JourneyOf,     \* JourneyOf[d]; None when the draft has no contact
  Addresses,     \* mailbox addresses
  AddressOf,     \* AddressOf[j]; None when the contact has no email
  Requests,      \* concurrent api-email invocations
  Senders,       \* sender containers
  StaleReads,    \* TRUE: GetItem without ConsistentRead may lag one write
  MaxBody,       \* bound: bodies an operator's edits may produce
  MaxApprovals,  \* bound: email.approved events per draft
  MaxFaults,     \* bound: failures and crashes
  None

ASSUME OutreachAssumption ==
  /\ JourneyOf \in [Drafts -> Journeys \cup {None}]
  /\ AddressOf \in [Journeys -> Addresses \cup {None}]
  /\ None \notin Journeys \cup Addresses \cup Drafts
  /\ StaleReads \in BOOLEAN
  /\ MaxBody \in Nat
  /\ MaxApprovals \in Nat
  /\ MaxFaults \in Nat

VARIABLES
  rows,        \* rows[d]: the EmailDraft item
  replica,     \* replica[d]: what an eventually consistent read may return
  nextBody,    \* the last body an edit produced
  req,         \* req[r]: an api-email invocation in progress
  approvals,   \* approvals[d]: email.approved events published for d
  inbox,       \* email.approved events the sender may begin
  snd,         \* snd[s]: a send in progress
  sentOnce,    \* journeys with an EMAIL_SENT# marker
  suppressed,  \* SES suppression list
  records,     \* records[d]: the EmailEvent, SESMSG# and REPLYREF# items
  faults,      \* failures so far
  \* history, for the properties only
  mailed,      \* mails SES accepted, as [draft, body]
  sends,       \* sends[j]: how many
  approved,    \* approved[d]: bodies an operator approved
  skipped      \* drafts with a contact, an event of which came with the stage off

reviewVars == <<rows, replica, nextBody, req, approvals, approved>>
inboxVars  == <<inbox, skipped>>
sendVars   == <<snd, sentOnce, records, mailed, sends>>
vars == <<reviewVars, inboxVars, sendVars, suppressed, faults>>

Statuses == {"absent", "draft", "approved", "rejected", "sent"}
Row == [status : Statuses, body : 0..MaxBody]
Absent == [status |-> "absent", body |-> 0]

\* An email.approved event, with its own eventId.
Event == [draft : Drafts, n : 1..MaxApprovals]

Ops == {"edit", "approve", "reject"}
NoRequest == [pc |-> "idle", op |-> "edit", draft |-> None, body |-> 0]
NoSend == [pc |-> "idle", event |-> None, body |-> 0]

SendSteps == {"load", "check", "mark", "send", "event", "msgindex", "replyref",
              "flip", "publish"}
Records == {"event", "msgindex", "replyref"}

TypeOK ==
  /\ rows \in [Drafts -> Row]
  /\ replica \in [Drafts -> Row]
  /\ nextBody \in 0..MaxBody
  /\ req \in [Requests ->
                [pc : {"read", "publish"}, op : Ops, draft : Drafts, body : 0..MaxBody]
                  \cup {NoRequest}]
  /\ approvals \in [Drafts -> 0..MaxApprovals]
  /\ inbox \subseteq Event
  /\ snd \in [Senders ->
                [pc : SendSteps, event : Event, body : 0..MaxBody] \cup {NoSend}]
  /\ sentOnce \subseteq Journeys
  /\ suppressed \subseteq Addresses
  /\ records \in [Drafts -> SUBSET Records]
  /\ faults \in 0..MaxFaults
  /\ mailed \subseteq [draft : Drafts, body : 0..MaxBody]
  /\ sends \in [Journeys -> Nat]
  /\ approved \in [Drafts -> SUBSET (0..MaxBody)]
  /\ skipped \subseteq Drafts

Init ==
  /\ rows = [d \in Drafts |-> Absent]
  /\ replica = rows
  /\ nextBody = 0
  /\ req = [r \in Requests |-> NoRequest]
  /\ approvals = [d \in Drafts |-> 0]
  /\ inbox = {}
  /\ snd = [s \in Senders |-> NoSend]
  /\ sentOnce = {}
  /\ suppressed = {}
  /\ records = [d \in Drafts |-> {}]
  /\ faults = 0
  /\ mailed = {}
  /\ sends = [j \in Journeys |-> 0]
  /\ approved = [d \in Drafts |-> {}]
  /\ skipped = {}

\* What GetItem returns for d.
Reads(d) == IF StaleReads THEN {rows[d], replica[d]} ELSE {rows[d]}

\* DynamoDB's replicas catch up.
Replicate(d) ==
  /\ replica[d] # rows[d]
  /\ replica' = [replica EXCEPT ![d] = rows[d]]
  /\ UNCHANGED <<rows, nextBody, req, approvals, approved, inboxVars, sendVars,
                 suppressed, faults>>

\* PutItem or UpdateItem of the row of d; the replica may lag by this write.
Write(d, row) ==
  /\ rows' = [rows EXCEPT ![d] = row]
  /\ replica' = [replica EXCEPT ![d] = IF StaleReads THEN rows[d] ELSE row]

-----------------------------------------------------------------------------
(* email-draft: a new draft for an approved website.                       *)

Draft(d) ==
  /\ rows[d] = Absent
  /\ Write(d, [status |-> "draft", body |-> 0])
  /\ UNCHANGED <<nextBody, req, approvals, approved, inboxVars, sendVars,
                 suppressed, faults>>

-----------------------------------------------------------------------------
(* api-email: edit, approve and reject each read the row, check that it is *)
(* a draft, and put the whole row back.                                    *)

Read(r) ==
  /\ req[r] = NoRequest
  /\ \E d \in Drafts, op \in Ops : \E row \in Reads(d) :
       /\ row.status = "draft"
       /\ req' = [req EXCEPT ![r] =
                    [pc |-> "read", op |-> op, draft |-> d, body |-> row.body]]
  /\ UNCHANGED <<rows, replica, nextBody, approvals, approved, inboxVars, sendVars,
                 suppressed, faults>>

\* Variant: the edit updates the text and leaves the status as it is by now.
PutEditTextOnly(r) ==
  /\ req[r].pc = "read" /\ req[r].op = "edit"
  /\ nextBody < MaxBody
  /\ nextBody' = nextBody + 1
  /\ Write(req[r].draft, [rows[req[r].draft] EXCEPT !.body = nextBody + 1])
  /\ req' = [req EXCEPT ![r] = NoRequest]
  /\ UNCHANGED <<approvals, approved, inboxVars, sendVars, suppressed, faults>>

\* handleEditEmail: the operator's new text over the copy that was read.
PutEdit(r) ==
  /\ req[r].pc = "read" /\ req[r].op = "edit"
  /\ nextBody < MaxBody
  /\ nextBody' = nextBody + 1
  /\ Write(req[r].draft, [status |-> "draft", body |-> nextBody + 1])
  /\ req' = [req EXCEPT ![r] = NoRequest]
  /\ UNCHANGED <<approvals, approved, inboxVars, sendVars, suppressed, faults>>

\* Variant: the decision updates the status and leaves the text as it is by now.
PutDecisionStatusOnly(r) ==
  LET d == req[r].draft IN
  /\ req[r].pc = "read"
  /\ \/ /\ req[r].op = "approve"
        /\ Write(d, [rows[d] EXCEPT !.status = "approved"])
        /\ approved' = [approved EXCEPT ![d] = @ \cup {req[r].body}]
     \/ /\ req[r].op = "reject"
        /\ Write(d, [rows[d] EXCEPT !.status = "rejected"])
        /\ UNCHANGED approved
  /\ req' = [req EXCEPT ![r].pc = "publish"]
  /\ UNCHANGED <<nextBody, approvals, inboxVars, sendVars, suppressed, faults>>

\* handleDecision, first half: the copy that was read, with the new status.
PutDecision(r) ==
  LET d == req[r].draft IN
  /\ req[r].pc = "read"
  /\ \/ /\ req[r].op = "approve"
        /\ Write(d, [status |-> "approved", body |-> req[r].body])
        /\ approved' = [approved EXCEPT ![d] = @ \cup {req[r].body}]
     \/ /\ req[r].op = "reject"
        /\ Write(d, [status |-> "rejected", body |-> req[r].body])
        /\ UNCHANGED approved
  /\ req' = [req EXCEPT ![r].pc = "publish"]
  /\ UNCHANGED <<nextBody, approvals, inboxVars, sendVars, suppressed, faults>>

\* handleDecision, second half: email.approved reaches the sender's queue,
\* email.rejected has no part in sending.
PublishDecision(r) ==
  LET d == req[r].draft IN
  /\ req[r].pc = "publish"
  /\ \/ /\ req[r].op = "approve"
        /\ approvals[d] < MaxApprovals
        /\ approvals' = [approvals EXCEPT ![d] = @ + 1]
        /\ inbox' = inbox \cup {[draft |-> d, n |-> approvals[d] + 1]}
     \/ /\ req[r].op = "reject"
        /\ UNCHANGED <<approvals, inbox>>
  /\ req' = [req EXCEPT ![r] = NoRequest]
  /\ UNCHANGED <<rows, replica, nextBody, approved, skipped, sendVars, suppressed, faults>>

\* A put or publish fails (500, 502) or the Lambda dies.
FailRequest(r) ==
  /\ req[r] # NoRequest
  /\ faults < MaxFaults
  /\ faults' = faults + 1
  /\ req' = [req EXCEPT ![r] = NoRequest]
  /\ UNCHANGED <<rows, replica, nextBody, approvals, approved, inboxVars, sendVars,
                 suppressed>>

-----------------------------------------------------------------------------
(* sender.runOne, under the idempotency marker of its event.               *)

Goto(s, pc) == snd' = [snd EXCEPT ![s].pc = pc]

Done(s) == snd' = [snd EXCEPT ![s] = NoSend]

Journey(s) == JourneyOf[snd[s].event.draft]

\* The stage is on and the marker is claimed: nobody else begins this event.
Begin(s, e) ==
  /\ snd[s] = NoSend
  /\ e \in inbox
  /\ inbox' = inbox \ {e}
  /\ \/ /\ JourneyOf[e.draft] = None  \* sender.detail.incomplete
        /\ UNCHANGED snd
     \/ /\ JourneyOf[e.draft] # None
        /\ snd' = [snd EXCEPT ![s] = [pc |-> "load", event |-> e, body |-> 0]]
  /\ UNCHANGED <<reviewVars, skipped, sentOnce, records, mailed, sends, suppressed, faults>>

\* WithKillSwitch: the container's view of StageOutreach says off, so the event
\* is acknowledged unmarked and without any work.  Operators switch the stage
\* as they like.
Skip(s, e) ==
  /\ snd[s] = NoSend
  /\ e \in inbox
  /\ inbox' = inbox \ {e}
  /\ skipped' = skipped \cup {d \in {e.draft} : JourneyOf[d] # None}
  /\ UNCHANGED <<reviewVars, sendVars, suppressed, faults>>

\* The event's marker has expired and an archive replay delivers it again.
Redeliver(e) ==
  /\ e \notin inbox
  /\ e.n <= approvals[e.draft]
  /\ \A s \in Senders : snd[s].event # e
  /\ inbox' = inbox \cup {e}
  /\ UNCHANGED <<reviewVars, skipped, sendVars, suppressed, faults>>

Load(s) ==
  /\ snd[s].pc = "load"
  /\ \E row \in Reads(snd[s].event.draft) :
       IF row.status = "approved"
       THEN snd' = [snd EXCEPT ![s].pc = "check", ![s].body = row.body]
       ELSE Done(s)
  /\ UNCHANGED <<reviewVars, inboxVars, sentOnce, records, mailed, sends,
                 suppressed, faults>>

\* Variant: an error of the suppression list counts as "not suppressed".
CheckFailingOpen(s) ==
  /\ snd[s].pc = "check"
  /\ \/ /\ IF AddressOf[Journey(s)] \in suppressed \cup {None}
             THEN Done(s)
             ELSE Goto(s, "mark")
        /\ UNCHANGED faults
     \/ /\ faults < MaxFaults
        /\ faults' = faults + 1
        /\ Goto(s, "mark")
  /\ UNCHANGED <<reviewVars, inboxVars, sentOnce, records, mailed, sends, suppressed>>

\* No address, or a suppressed one: skip.
Check(s) ==
  /\ snd[s].pc = "check"
  /\ IF AddressOf[Journey(s)] \in suppressed \cup {None}
     THEN Done(s)
     ELSE Goto(s, "mark")
  /\ UNCHANGED <<reviewVars, inboxVars, sentOnce, records, mailed, sends,
                 suppressed, faults>>

\* Variant: the marker is looked up after it was put.
MarkThenLook(s) ==
  /\ snd[s].pc = "mark"
  /\ sentOnce' = sentOnce \cup {Journey(s)}
  /\ IF Journey(s) \in sentOnce' THEN Done(s) ELSE Goto(s, "send")
  /\ UNCHANGED <<reviewVars, inboxVars, records, mailed, sends, suppressed, faults>>

\* Variant: the marker is put without the condition that there is none.
MarkAgain(s) ==
  /\ snd[s].pc = "mark"
  /\ Goto(s, "send")
  /\ sentOnce' = sentOnce \cup {Journey(s)}
  /\ UNCHANGED <<reviewVars, inboxVars, records, mailed, sends, suppressed, faults>>

\* markSentOnce: a conditional put, permanent, before the send.
Mark(s) ==
  /\ snd[s].pc = "mark"
  /\ IF Journey(s) \in sentOnce
     THEN Done(s) /\ UNCHANGED sentOnce
     ELSE Goto(s, "send") /\ sentOnce' = sentOnce \cup {Journey(s)}
  /\ UNCHANGED <<reviewVars, inboxVars, records, mailed, sends, suppressed, faults>>

\* SES accepts the mail.
Send(s) ==
  /\ snd[s].pc = "send"
  /\ mailed' = mailed \cup {[draft |-> snd[s].event.draft, body |-> snd[s].body]}
  /\ sends' = [sends EXCEPT ![Journey(s)] = @ + 1]
  /\ Goto(s, "event")
  /\ UNCHANGED <<reviewVars, inboxVars, sentOnce, records, suppressed, faults>>

\* Variant: no REPLYREF# item.
NextRecordNoReply == [event |-> "msgindex", msgindex |-> "flip", replyref |-> "flip"]

\* PutEvent, then PutMsgIndex twice.
NextRecord == [event |-> "msgindex", msgindex |-> "replyref", replyref |-> "flip"]

Record(s) ==
  /\ snd[s].pc \in Records
  /\ records' = [records EXCEPT ![snd[s].event.draft] = @ \cup {snd[s].pc}]
  /\ Goto(s, NextRecord[snd[s].pc])
  /\ UNCHANGED <<reviewVars, inboxVars, sentOnce, mailed, sends, suppressed, faults>>

\* setDraftSent: only the status, whatever it was.
SetDraftSent(s) ==
  LET d == snd[s].event.draft IN
  /\ snd[s].pc = "flip"
  /\ Write(d, [rows[d] EXCEPT !.status = "sent"])
  /\ Goto(s, "publish")
  /\ UNCHANGED <<nextBody, req, approvals, approved, inboxVars, sentOnce, records,
                 mailed, sends, suppressed, faults>>

\* email.sent, and the best-effort cleanup stamp before it.
PublishSent(s) ==
  /\ snd[s].pc = "publish"
  /\ Done(s)
  /\ UNCHANGED <<reviewVars, inboxVars, sentOnce, records, mailed, sends,
                 suppressed, faults>>

\* Variant: a failed send gives its send-once marker back.
FailSendReleasing(s) ==
  /\ snd[s] # NoSend
  /\ faults < MaxFaults
  /\ faults' = faults + 1
  /\ Done(s)
  /\ sentOnce' = sentOnce \ {Journey(s)}
  /\ UNCHANGED <<reviewVars, inboxVars, records, mailed, sends, suppressed>>

\* A store, SES, budget or publish error, or the container dies: the event's
\* marker stays, so the send is not tried again.
FailSend(s) ==
  /\ snd[s] # NoSend
  /\ faults < MaxFaults
  /\ faults' = faults + 1
  /\ Done(s)
  /\ UNCHANGED <<reviewVars, inboxVars, sentOnce, records, mailed, sends, suppressed>>

-----------------------------------------------------------------------------
(* ses-feedback and reply-triage: a mailed address bounces for good,       *)
(* complains or unsubscribes.                                              *)

Suppress(a) ==
  /\ a \notin suppressed
  /\ \E m \in mailed : AddressOf[JourneyOf[m.draft]] = a
  /\ suppressed' = suppressed \cup {a}
  /\ UNCHANGED <<reviewVars, inboxVars, sendVars, faults>>

-----------------------------------------------------------------------------
SendStep(s) ==
  \/ \E e \in Event : Begin(s, e) \/ Skip(s, e)
  \/ Load(s) \/ Check(s) \/ Mark(s) \/ Send(s) \/ Record(s)
  \/ SetDraftSent(s) \/ PublishSent(s)

Next ==
  \/ \E d \in Drafts : Draft(d) \/ Replicate(d)
  \/ \E r \in Requests :
       Read(r) \/ PutEdit(r) \/ PutDecision(r) \/ PublishDecision(r) \/ FailRequest(r)
  \/ \E e \in Event : Redeliver(e)
  \/ \E s \in Senders : SendStep(s) \/ FailSend(s)
  \/ \E a \in Addresses : Suppress(a)

Spec == Init /\ [][Next]_vars

\* Lambda keeps running what it started, and SQS leaves no message waiting for
\* ever while containers come free; operators, prospects and replays owe
\* nothing.
Fairness ==
  /\ \A r \in Requests : WF_vars(PutDecision(r) \/ PublishDecision(r))
  /\ \A s \in Senders : WF_vars(SendStep(s))
  /\ \A e \in Event : SF_vars(\E s \in Senders : Begin(s, e) \/ Skip(s, e))

FairSpec == Spec /\ Fairness

-----------------------------------------------------------------------------
(* Properties.                                                             *)

(* A (contact, website) pair never gets two mails, whatever approvals,
   drafts, replays and crashes there are (the send-once guard of
   sender.runOne). *)
AtMostOneSend == \A j \in Journeys : sends[j] <= 1

(* What goes out is a text an operator approved as it stands: no edit slips
   between approval and send, even though edits, decisions and sends work on
   copies of the row. *)
SentWasApproved == \A m \in mailed : m.body \in approved[m.draft]

(* The inductive invariants behind the two.  A mail is sent only by the one
   sender that put the marker of its pair, so a sender about to send is alone
   with its pair and nobody has sent for it; a text past the load is one that
   some decision put with the status approved. *)
SenderHasJourney == \A s \in Senders : snd[s] # NoSend => Journey(s) \in Journeys

MarkerHolder ==
  /\ \A s \in Senders :
       snd[s].pc = "send" => Journey(s) \in sentOnce /\ sends[Journey(s)] = 0
  /\ \A s, t \in Senders :
       (snd[s].pc = "send" /\ snd[t].pc = "send" /\ Journey(s) = Journey(t)) => s = t
  /\ \A j \in Journeys : sends[j] > 0 => j \in sentOnce

ApprovedTexts ==
  /\ \A d \in Drafts :
       /\ rows[d].status = "approved" => rows[d].body \in approved[d]
       /\ replica[d].status = "approved" => replica[d].body \in approved[d]
  /\ \A s \in Senders :
       snd[s].pc \in {"check", "mark", "send"} =>
         snd[s].body \in approved[snd[s].event.draft]

SendInv ==
  /\ TypeOK
  /\ SenderHasJourney
  /\ MarkerHolder
  /\ AtMostOneSend
  /\ ApprovedTexts
  /\ SentWasApproved

\* What has become of the one chance to mail pair j.
Chance(j) ==
  IF j \notin sentOnce THEN "open"
  ELSE IF \E s \in Senders : snd[s].pc = "send" /\ Journey(s) = j THEN "taken"
  ELSE IF sends[j] > 0 THEN "mailed" ELSE "lost"

Promise == INSTANCE Mailbox WITH
  Bodies <- 0..MaxBody, chance <- [j \in Journeys |-> Chance(j)]

(* The send path implements Mailbox: the marker is taken once per pair, then
   one approved text goes out or, when the sender fails in between, nothing
   ever does (markSentOnce before SES in sender.runOne). *)
ImplementsMailbox == Promise!Spec

(* A row that says "sent" can be attributed: the EmailEvent and both reverse
   indexes that bounces, complaints and replies look up exist. *)
SentIsAttributable ==
  \A d \in Drafts : rows[d].status = "sent" => records[d] = Records

(* Without failures and stale reads an approval is never lost: the mail goes
   out unless the row stops being approved, the contact cannot be mailed or the
   event comes while the stage is off (sender.handle and runOne, and SQS behind
   them). *)
ApprovalLeadsToMail ==
  \A d \in Drafts :
    (approvals[d] > 0 /\ rows[d].status = "approved") ~>
      \/ rows[d].status # "approved"
      \/ faults > 0
      \/ d \in skipped
      \/ JourneyOf[d] = None
      \/ JourneyOf[d] # None /\ (sends[JourneyOf[d]] > 0 \/
                                  AddressOf[JourneyOf[d]] \in suppressed \cup {None})

(* sender/main.go:154: "A race-y approve->reject must not still go out."  A
   mail never leaves for a draft whose row says rejected. *)
RejectedNeverSent ==
  [][\A m \in mailed' \ mailed : rows[m.draft].status # "rejected"]_vars

(* 02-data-model.md:432: every put is conditional on the etag that was read,
   so a decision is taken on the text that is stored. *)
DecisionOnStoredText ==
  [][\A d \in Drafts :
       (rows[d].status = "draft" /\ rows'[d].status = "approved")
         => rows'[d].body = rows[d].body]_vars

(* api-email/main.go:6: approve is "status->approved; publish email.approved".
   Once no request is under way, an approved draft has been announced. *)
ApprovedIsAnnounced ==
  \A d \in Drafts :
    (rows[d].status = "approved" /\ \A r \in Requests : req[r].draft # d)
      => approvals[d] > 0
=============================================================================
