------------------------------ MODULE Replies ------------------------------
(***************************************************************************)
(* What comes back from the prospects: mails to the inbound bucket, which  *)
(* reply-detector attributes and announces and reply-triage classifies and *)
(* acts on, SES notifications, which ses-feedback turns into suppressions, *)
(* and the operator's inbox of triaged replies (api-replies).  All of it   *)
(* runs while the approvals and sends of module Outreach go on.            *)
(*                                                                         *)
(* Each handler works under the idempotency marker of its mail or          *)
(* notification (module Delivery), so it makes one attempt and what fails  *)
(* is not tried again.                                                     *)
(***************************************************************************)
EXTENDS Outreach

CONSTANTS
  Mails,       \* inbound mails (keys of the bucket)
  Notices,     \* SES notifications
  Operators,   \* concurrent api-replies invocations
  Businesses,
  BusinessOf   \* BusinessOf[d]: the business a draft is for

ASSUME RepliesAssumption ==
  /\ BusinessOf \in [Drafts -> Businesses]
  /\ None \notin Mails \cup Businesses

VARIABLES
  mail,       \* mail[k]: what arrived
  det,        \* det[k]: how far reply-detector is with it
  tri,        \* tri[k]: how far reply-triage is with it
  triage,     \* triage[k]: the ReplyTriage row, or None
  op,         \* op[o]: a reclassify whose status is not written yet, or None
  note,       \* note[n]: how far ses-feedback is with it
  projected,  \* addresses with a SUPPRESSION# row
  status,     \* status[b]: the Business row
  events      \* EmailEvent rows: mails and notices recorded for a business

replyVars == <<mail, det, tri, triage, op, note, projected, status, events>>
allVars == <<vars, replyVars>>

Categories == {"unsubscribe", "positive_interest", "unknown"}
Texts == {"plain", "empty", "malformed"}

\* A reply on file, attributed (ref) or in the inbox of orphans.
TriageRow == [state : {"operator_inbox", "auto_actioned", "reviewed"},
              category : Categories, ref : BOOLEAN]

NoMail == [draft |-> None, from |-> None, text |-> "plain"]
NoTriage == [pc |-> "none", label |-> "unknown", ref |-> FALSE]
NoNote == [pc |-> "none", draft |-> None]

RepliesTypeOK ==
  /\ mail \in [Mails -> [draft : Drafts \cup {None}, from : Addresses \cup {None}, text : Texts]]
  /\ det \in [Mails -> {"none", "received", "lookup", "mark", "event", "end"}]
  /\ tri \in [Mails -> [pc : {"none", "queued", "classify", "suppress", "project",
                              "status", "row", "end"},
                        label : Categories, ref : BOOLEAN]]
  /\ triage \in [Mails -> TriageRow \cup {None}]
  /\ op \in [Operators -> [mail : Mails, category : Categories \ {"unknown"}] \cup {None}]
  /\ note \in [Notices -> [pc : {"none", "suppress", "project", "event", "end"},
                           draft : Drafts \cup {None}]]
  /\ projected \subseteq Addresses
  /\ status \in [Businesses -> {"open", "responded", "rejected_after_review", "converted"}]
  /\ events \subseteq Mails \cup Notices
  /\ \A k \in Mails : tri[k].pc # "none" => det[k] \notin {"none", "received"}

RepliesInit ==
  /\ Init
  /\ mail = [k \in Mails |-> NoMail]
  /\ det = [k \in Mails |-> "none"]
  /\ tri = [k \in Mails |-> NoTriage]
  /\ triage = [k \in Mails |-> None]
  /\ op = [o \in Operators |-> None]
  /\ note = [n \in Notices |-> NoNote]
  /\ projected = {}
  /\ status = [b \in Businesses |-> "open"]
  /\ events = {}

outreachKept == <<reviewVars, inboxVars, sendVars>>

Fault == faults < MaxFaults /\ faults' = faults + 1

\* markResponded and the two setStatus: a conversion is never undone.
SetStatus(b, s) ==
  status' = [status EXCEPT ![b] = IF @ = "converted" THEN @ ELSE s]

\* The operator wins the customer; no code of the repository writes it.
Convert(b) ==
  /\ status[b] = "responded"
  /\ status' = [status EXCEPT ![b] = "converted"]
  /\ UNCHANGED <<vars, mail, det, tri, triage, op, note, projected, events>>

\* The REPLYREF# item of the draft a mail is addressed to.
Attributed(k) == mail[k].draft # None /\ "replyref" \in records[mail[k].draft]

Business(k) == BusinessOf[mail[k].draft]

-----------------------------------------------------------------------------
(* reply-detector                                                          *)

\* Anyone may write to the inbox; the token of a draft is known to those who
\* were mailed.
Arrive(k) ==
  /\ det[k] = "none"
  /\ \E d \in {m.draft : m \in mailed} \cup {None}, a \in Addresses \cup {None}, t \in Texts :
       mail' = [mail EXCEPT ![k] = [draft |-> d, from |-> a, text |-> t]]
  /\ det' = [det EXCEPT ![k] = "received"]
  /\ UNCHANGED <<vars, tri, triage, op, note, projected, status, events>>

\* Variant: the reply is handed on once it is attributed.
AnnounceAttributed(k) ==
  /\ det[k] = "received"
  /\ IF mail[k].text = "malformed" \/ ~Attributed(k)
     THEN det' = [det EXCEPT ![k] = "end"] /\ UNCHANGED tri
     ELSE /\ tri' = [tri EXCEPT ![k].pc = "queued"]
          /\ det' = [det EXCEPT ![k] = "lookup"]
  /\ UNCHANGED <<vars, mail, triage, op, note, projected, status, events>>

\* reply.received, whether the reply can be attributed or not.
Announce(k) ==
  /\ det[k] = "received"
  /\ IF mail[k].text = "malformed"
     THEN det' = [det EXCEPT ![k] = "end"] /\ UNCHANGED tri
     ELSE /\ tri' = [tri EXCEPT ![k].pc = "queued"]
          /\ det' = [det EXCEPT ![k] = IF mail[k].draft = None THEN "end" ELSE "lookup"]
  /\ UNCHANGED <<vars, mail, triage, op, note, projected, status, events>>

LookupRef(k) ==
  /\ det[k] = "lookup"
  /\ det' = [det EXCEPT ![k] = IF Attributed(k) THEN "mark" ELSE "end"]
  /\ UNCHANGED <<vars, mail, tri, triage, op, note, projected, status, events>>

MarkResponded(k) ==
  /\ det[k] = "mark"
  /\ SetStatus(Business(k), "responded")
  /\ det' = [det EXCEPT ![k] = "event"]
  /\ UNCHANGED <<vars, mail, tri, triage, op, note, projected, events>>

\* PutEvent, and email.replied, which no handler consumes.
PutReplied(k) ==
  /\ det[k] = "event"
  /\ events' = events \cup {k}
  /\ det' = [det EXCEPT ![k] = "end"]
  /\ UNCHANGED <<vars, mail, tri, triage, op, note, projected, status>>

FailDetect(k) ==
  /\ det[k] \notin {"none", "end"}
  /\ Fault
  /\ det' = [det EXCEPT ![k] = "end"]
  /\ UNCHANGED <<outreachKept, suppressed, mail, tri, triage, op, note, projected, status, events>>

-----------------------------------------------------------------------------
(* reply-triage                                                            *)

\* An empty body is dropped.  An error of the lookup is not told from a
\* missing reference.
Take(k) ==
  /\ tri[k].pc = "queued"
  /\ \/ /\ mail[k].text = "empty"
        /\ tri' = [tri EXCEPT ![k].pc = "end"]
        /\ UNCHANGED faults
     \/ /\ mail[k].text # "empty"
        /\ tri' = [tri EXCEPT ![k].pc = "classify", ![k].ref = Attributed(k)]
        /\ UNCHANGED faults
     \/ /\ mail[k].text # "empty"
        /\ tri' = [tri EXCEPT ![k].pc = "classify"]
        /\ Fault
  /\ UNCHANGED <<outreachKept, suppressed, mail, det, triage, op, note, projected, status, events>>

AfterSuppression(k) == IF tri[k].ref THEN "status" ELSE "row"

\* The model's label and confidence (module ModelCalls): "unknown" stands for
\* whatever is left to the operator, a low confidence and an exhausted budget
\* included.
Classify(k) ==
  /\ tri[k].pc = "classify"
  /\ \E label \in Categories :
       tri' = [tri EXCEPT ![k].label = label,
                          ![k].pc = CASE label = "unknown" -> "row"
                                      [] label = "unsubscribe" /\ mail[k].from # None -> "suppress"
                                      [] OTHER -> AfterSuppression(k)]
  /\ UNCHANGED <<vars, mail, det, triage, op, note, projected, status, events>>

\* Suppress: the account list of SES, which the sender asks.
SuppressSender(k) ==
  /\ tri[k].pc = "suppress"
  /\ suppressed' = suppressed \cup {mail[k].from}
  /\ tri' = [tri EXCEPT ![k].pc = "project"]
  /\ UNCHANGED <<outreachKept, faults, mail, det, triage, op, note, projected, status, events>>

PutSuppression(k) ==
  /\ tri[k].pc = "project"
  /\ projected' = projected \cup {mail[k].from}
  /\ tri' = [tri EXCEPT ![k].pc = AfterSuppression(k)]
  /\ UNCHANGED <<vars, mail, det, triage, op, note, status, events>>

StatusOf(category) ==
  IF category = "unsubscribe" THEN "rejected_after_review" ELSE "responded"

ApplyStatus(k) ==
  /\ tri[k].pc = "status"
  /\ SetStatus(Business(k), StatusOf(tri[k].label))
  /\ tri' = [tri EXCEPT ![k].pc = "row"]
  /\ UNCHANGED <<vars, mail, det, triage, op, note, projected, events>>

\* PutTriage, and reply.triaged, which no handler consumes.
PutTriage(k) ==
  /\ tri[k].pc = "row"
  /\ triage' = [triage EXCEPT ![k] =
       [state |-> IF tri[k].label = "unknown" THEN "operator_inbox" ELSE "auto_actioned",
        category |-> tri[k].label, ref |-> tri[k].ref]]
  /\ tri' = [tri EXCEPT ![k].pc = "end"]
  /\ UNCHANGED <<vars, mail, det, op, note, projected, status, events>>

\* Variant: a suppression that fails is logged and the triage goes on.
FailTriageLogged(k) ==
  /\ tri[k].pc \notin {"none", "end"}
  /\ Fault
  /\ tri' = [tri EXCEPT ![k].pc = IF @ = "suppress" THEN "project" ELSE "end"]
  /\ UNCHANGED <<outreachKept, suppressed, mail, det, triage, op, note, projected, status, events>>

FailTriage(k) ==
  /\ tri[k].pc \notin {"none", "end"}
  /\ Fault
  /\ tri' = [tri EXCEPT ![k].pc = "end"]
  /\ UNCHANGED <<outreachKept, suppressed, mail, det, triage, op, note, projected, status, events>>

-----------------------------------------------------------------------------
(* api-replies                                                             *)

\* handleList pages through every state, so the operator may pick any row.
Listed == {k \in Mails : triage[k] # None}

\* reclassify: any row, whatever its state; for an attributed reply the status
\* follows in a write of its own.
Reclassify(o) ==
  /\ op[o] = None
  /\ \E k \in Listed, category \in Categories :
       /\ triage' = [triage EXCEPT ![k].state = "reviewed", ![k].category = category]
       /\ op' = [op EXCEPT ![o] = IF triage[k].ref /\ category # "unknown"
                                  THEN [mail |-> k, category |-> category] ELSE None]
  /\ UNCHANGED <<vars, mail, det, tri, note, projected, status, events>>

Reapply(o) ==
  /\ op[o] # None
  /\ SetStatus(Business(op[o].mail), StatusOf(op[o].category))
  /\ op' = [op EXCEPT ![o] = None]
  /\ UNCHANGED <<vars, mail, det, tri, triage, note, projected, events>>

\* "reclassified but status update failed"
FailReapply(o) ==
  /\ op[o] # None
  /\ Fault
  /\ op' = [op EXCEPT ![o] = None]
  /\ UNCHANGED <<outreachKept, suppressed, mail, det, tri, triage, note, projected, status, events>>

-----------------------------------------------------------------------------
(* ses-feedback                                                            *)

Recipient(n) == AddressOf[JourneyOf[note[n].draft]]

\* A permanent bounce or a complaint suppresses; a transient bounce and a
\* delivery are only recorded.
Notify(n) ==
  /\ note[n].pc = "none"
  /\ \E m \in mailed, pc \in {"suppress", "event"} :
       note' = [note EXCEPT ![n] = [pc |-> pc, draft |-> m.draft]]
  /\ UNCHANGED <<vars, mail, det, tri, triage, op, projected, status, events>>

SuppressRecipient(n) ==
  /\ note[n].pc = "suppress"
  /\ suppressed' = suppressed \cup {Recipient(n)}
  /\ note' = [note EXCEPT ![n].pc = "project"]
  /\ UNCHANGED <<outreachKept, faults, mail, det, tri, triage, op, projected, status, events>>

PutNotified(n) ==
  /\ note[n].pc = "project"
  /\ projected' = projected \cup {Recipient(n)}
  /\ note' = [note EXCEPT ![n].pc = "event"]
  /\ UNCHANGED <<vars, mail, det, tri, triage, op, status, events>>

\* attribute: without the SESMSG# item, or when its lookup fails, the event is
\* not recorded.
RecordNote(n) ==
  /\ note[n].pc = "event"
  /\ \/ /\ events' = IF "msgindex" \in records[note[n].draft] THEN events \cup {n} ELSE events
        /\ UNCHANGED faults
     \/ UNCHANGED events /\ Fault
  /\ note' = [note EXCEPT ![n].pc = "end"]
  /\ UNCHANGED <<outreachKept, suppressed, mail, det, tri, triage, op, projected, status>>

FailNote(n) ==
  /\ note[n].pc \in {"suppress", "project", "event"}
  /\ Fault
  /\ note' = [note EXCEPT ![n].pc = "end"]
  /\ UNCHANGED <<outreachKept, suppressed, mail, det, tri, triage, op, projected, status, events>>

-----------------------------------------------------------------------------
DetectStep(k) == Announce(k) \/ LookupRef(k) \/ MarkResponded(k) \/ PutReplied(k)

TriageStep(k) ==
  Take(k) \/ Classify(k) \/ SuppressSender(k) \/ PutSuppression(k) \/ ApplyStatus(k) \/ PutTriage(k)

NoteStep(n) == SuppressRecipient(n) \/ PutNotified(n) \/ RecordNote(n)

\* Outreach goes on; its own Suppress stands for the steps spelled out here.
OutreachStep == Next /\ UNCHANGED <<suppressed, replyVars>>

RepliesNext ==
  \/ OutreachStep
  \/ \E b \in Businesses : Convert(b)
  \/ \E k \in Mails :
       Arrive(k) \/ DetectStep(k) \/ FailDetect(k) \/ TriageStep(k) \/ FailTriage(k)
  \/ \E o \in Operators : Reclassify(o) \/ Reapply(o) \/ FailReapply(o)
  \/ \E n \in Notices : Notify(n) \/ NoteStep(n) \/ FailNote(n)

RepliesSpec == RepliesInit /\ [][RepliesNext]_allVars

\* S3 and SQS deliver, and Lambda keeps running what it started; prospects and
\* operators owe nothing.
RepliesFairness ==
  /\ Fairness
  /\ \A k \in Mails : WF_allVars(DetectStep(k)) /\ WF_allVars(TriageStep(k))

RepliesFairSpec == RepliesSpec /\ RepliesFairness

-----------------------------------------------------------------------------
(* Properties                                                              *)

\* What a record says was done is done: a SUPPRESSION# row only of an address
\* the sender will find suppressed, and a reply filed as a handled unsubscribe
\* only after both (the order of writes in runOne and handleAdverse).
ActedBeforeRecorded ==
  /\ projected \subseteq suppressed
  /\ \A k \in Mails :
       (triage[k] # None /\ triage[k].state = "auto_actioned"
          /\ triage[k].category = "unsubscribe" /\ mail[k].from # None)
         => mail[k].from \in projected

\* Once an address is suppressed, a send that has not passed its check by then
\* never mails it, whatever is approved later (sender.runOne, fail closed).
SuppressedStaysQuiet ==
  \A s \in Senders, a \in Addresses :
    [](a \in suppressed /\ snd[s].pc \in {"idle", "load", "check"}
         => [](snd[s].pc = "send" => AddressOf[Journey(s)] # a))

Answered(k) == mail[k].draft # None /\ status[Business(k)] # "open"

\* Without failures every readable reply ends up on the operator's page, and a
\* reply to a mail whose records are complete shows in the business's status.
ReplyIsSeen ==
  \A k \in Mails :
    /\ (det[k] = "received" /\ mail[k].text = "plain") ~> (triage[k] # None \/ faults > 0)
    /\ (det[k] = "received" /\ mail[k].text # "malformed" /\ Attributed(k))
         ~> (Answered(k) \/ faults > 0)

\* reply-triage/main.go:10: an unsubscribe sets "Business.status=
\* 'rejected_after_review'".  When both handlers are done with the only reply,
\* the status is that.
UnsubscribeWins ==
  \A k \in Mails :
    (det[k] = "end" /\ triage[k] # None /\ triage[k].ref
       /\ triage[k].state = "auto_actioned" /\ triage[k].category = "unsubscribe")
      => status[Business(k)] # "responded"

\* api-replies/main.go:255: "the auto path already suppressed at >=0.8".  What
\* the operator files as an unsubscribe is suppressed.
ReclassifiedIsSuppressed ==
  \A k \in Mails :
    (triage[k] # None /\ triage[k].category = "unsubscribe" /\ mail[k].from # None)
      => mail[k].from \in suppressed
=============================================================================
