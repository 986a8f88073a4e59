----------------------------- MODULE SpecReview -----------------------------
(***************************************************************************)
(* From a spec to a page: spec-generator stores drafts, operators edit and *)
(* decide on them through api-specs, and the generator renders what was    *)
(* approved.  An HTTP request reads the Spec row, works on its copy and    *)
(* puts the whole row back without a condition; requests of several        *)
(* operators, and the generator, run between those steps.                  *)
(***************************************************************************)
EXTENDS Integers, FiniteSets

CONSTANTS
  MaxSpecs,     \* bound: Spec rows; an id is random, so ids have no order in time
  Generated,    \* contents the model may answer with
  Edits,        \* contents an operator may send
  Valid,        \* contents ValidateSpecV1Structural accepts
  MaxSites,     \* bound: websites minted
  Requests,     \* api-specs and api-website requests in progress together
  Workers,      \* generator containers
  None,
  MaxRequests,  \* bound: requests
  MaxReplays,   \* bound: archived events replayed
  MaxFaults     \* bound: failed writes, failed publishes, lost containers

SpecIds == 1..MaxSpecs
Sites == 1..MaxSites
Contents == Generated \cup Edits

ASSUME SpecReviewAssumption ==
  /\ MaxSpecs \in Nat
  /\ Generated \subseteq Valid      \* SpecV1's PostValidate
  /\ MaxSites \in Nat
  /\ IsFiniteSet(Requests) /\ IsFiniteSet(Workers)
  /\ None \notin Contents \cup Sites
  /\ None \notin [spec : SpecIds, content : Contents]
  /\ MaxRequests \in Nat
  /\ MaxReplays \in Nat
  /\ MaxFaults \in Nat

VARIABLES
  spec,      \* spec[i]: the Spec row, or None
  replica,   \* replica[i]: what an eventually consistent GetItem may return
  req,       \* req[r]: an operator's request
  queue,     \* events the generator has not taken
  worker,    \* worker[w]: the generator's local state
  site,      \* site[n]: the Website item and its HTML, or None
  feedback,  \* Feedback rows
  archive,   \* the bus archive: every such event, taken or not
  requests, faults, replayed,
  lags,      \* TRUE: GetItem may return the row before the last put
  \* history, for the properties only
  newest,    \* the id spec-generator stored last
  approvals, \* approvals[i]: decisions stored as approved
  vetted,    \* <<i, content>> stored as approved, by a decision or over one
  reverted,  \* ids whose row a put took back from approved
  published, \* <<i, action, content>> of the decisions that were published
  replays,   \* replays[i]: spec.approved events of i delivered again
  skipped    \* ids an event of which was acknowledged with the stage off

vars == <<spec, replica, req, queue, archive, worker, site, feedback, requests, faults,
          replayed, lags, newest, approvals, vetted, reverted, published, replays, skipped>>

Statuses == {"draft", "approved", "rejected"}
Row == [status : Statuses, content : Contents, version : Nat]
Actions == {"edit", "approve", "reject"}

\* spec.approved carries no website, website.regenerate.requested does.
Event == [spec : SpecIds, site : Sites \cup {None}, n : 1..MaxRequests]

NoRequest == [pc |-> "idle", op |-> None, spec |-> None, copy |-> None, content |-> None,
              n |-> 0]
NoWork == [pc |-> "idle", event |-> None, content |-> None]

TypeOK ==
  /\ spec \in [SpecIds -> Row \cup {None}]
  /\ replica \in [SpecIds -> Row \cup {None}]
  /\ req \in [Requests ->
                [pc : {"put", "publish", "feedback"}, op : Actions, spec : SpecIds,
                 copy : Row, content : Contents, n : 1..MaxRequests] \cup {NoRequest}]
  /\ queue \subseteq archive /\ archive \subseteq Event
  /\ worker \in [Workers ->
                   [pc : {"load", "store"}, event : Event, content : Contents \cup {None}]
                   \cup {NoWork}]
  /\ site \in [Sites -> [spec : SpecIds, content : Contents] \cup {None}]
  /\ feedback \subseteq SpecIds \X Actions \X Contents
  /\ requests \in 0..MaxRequests /\ faults \in 0..MaxFaults
  /\ replayed \in 0..MaxReplays /\ lags \in BOOLEAN
  /\ newest \in SpecIds \cup {None}
  /\ approvals \in [SpecIds -> Nat]
  /\ vetted \subseteq SpecIds \X Contents
  /\ reverted \subseteq SpecIds
  /\ published \subseteq SpecIds \X Actions \X Contents
  /\ replays \in [SpecIds -> Nat]
  /\ skipped \subseteq SpecIds

Init ==
  /\ spec = [i \in SpecIds |-> None]
  /\ replica = spec
  /\ req = [r \in Requests |-> NoRequest]
  /\ queue = {} /\ archive = {}
  /\ worker = [w \in Workers |-> NoWork]
  /\ site = [n \in Sites |-> None]
  /\ feedback = {}
  /\ requests = 0 /\ faults = 0 /\ replayed = 0
  /\ lags \in BOOLEAN
  /\ newest = None
  /\ approvals = [i \in SpecIds |-> 0]
  /\ vetted = {} /\ reverted = {} /\ published = {}
  /\ replays = [i \in SpecIds |-> 0] /\ skipped = {}

\* getSpec, without ConsistentRead.  Bound: a read is at most one put behind.
Reads(i) == (IF lags THEN {spec[i], replica[i]} ELSE {spec[i]}) \ {None}

\* putSpec: the whole row, no condition on the etag.
Put(i, row) ==
  /\ spec' = [spec EXCEPT ![i] = row]
  /\ replica' = [replica EXCEPT ![i] = IF lags THEN spec[i] ELSE row]

Fault == faults < MaxFaults /\ faults' = faults + 1

rows == <<spec, replica, newest, approvals, vetted, reverted>>
bus == <<queue, archive, replayed, replays, skipped>>
bounds == <<requests, faults, lags>>

\* An event reaches the generator's queue, and the archive.
Send(e) ==
  /\ queue' = queue \cup {e}
  /\ archive' = archive \cup {e}
  /\ UNCHANGED <<replayed, replays, skipped>>

-----------------------------------------------------------------------------
(* spec-generator                                                          *)

\* runOne: a fresh draft.  The event it publishes only tells the operator's
\* page; a failure before the put leaves nothing, one after it no event.
Generate ==
  /\ \E i \in SpecIds, c \in Generated :
       /\ spec[i] = None
       /\ Put(i, [status |-> "draft", content |-> c, version |-> 1])
       /\ newest' = i
  /\ UNCHANGED <<req, bus, worker, site, feedback, bounds, approvals, vetted,
                 reverted, published>>

-----------------------------------------------------------------------------
(* api-specs                                                               *)

\* The handler's reads and its answers 400, 404 and 409: an edit needs valid
\* content, a decision a draft.  An edit looks at no status.
Begin(r) ==
  /\ req[r] = NoRequest /\ requests < MaxRequests
  /\ requests' = requests + 1
  /\ \E i \in SpecIds : \E copy \in Reads(i) :
       \/ \E c \in Edits \cap Valid :
            req' = [req EXCEPT ![r] = [pc |-> "put", op |-> "edit", spec |-> i,
                                       copy |-> copy, content |-> c, n |-> requests']]
       \/ /\ copy.status = "draft"
          /\ \E op \in {"approve", "reject"} :
               req' = [req EXCEPT ![r] = [pc |-> "put", op |-> op, spec |-> i,
                                          copy |-> copy, content |-> copy.content,
                                         n |-> requests']]
  /\ UNCHANGED <<rows, bus, worker, site, feedback, faults, lags, published>>

\* What a put of this row means for the history.
Note(i, row, by) ==
  /\ vetted' = IF row.status = "approved" THEN vetted \cup {<<i, row.content>>} ELSE vetted
  /\ reverted' = IF spec[i].status = "approved" /\ row.status # "approved"
                 THEN reverted \cup {i} ELSE reverted
  /\ approvals' = IF by = "approve" THEN [approvals EXCEPT ![i] = @ + 1] ELSE approvals

\* handlePatchSpec: the copy with new content and the next version.
PutEdit(r) ==
  LET q == req[r]
      row == [q.copy EXCEPT !.content = q.content, !.version = @ + 1]
  IN
  /\ q.pc = "put" /\ q.op = "edit"
  /\ Put(q.spec, row)
  /\ Note(q.spec, row, "edit")
  /\ req' = [req EXCEPT ![r].pc = "feedback"]
  /\ UNCHANGED <<newest, bus, worker, site, feedback, bounds, published>>

\* handleDecision: the copy with its status decided.
PutDecision(r) ==
  LET q == req[r]
      row == [q.copy EXCEPT !.status = IF q.op = "approve" THEN "approved" ELSE "rejected"]
  IN
  /\ q.pc = "put" /\ q.op # "edit"
  /\ Put(q.spec, row)
  /\ Note(q.spec, row, q.op)
  /\ req' = [req EXCEPT ![r].pc = "publish"]
  /\ UNCHANGED <<newest, bus, worker, site, feedback, bounds, published>>

\* publishSpecDecision; only spec.approved has a consumer.
Publish(r) ==
  LET q == req[r] IN
  /\ q.pc = "publish"
  /\ IF q.op = "approve"
     THEN Send([spec |-> q.spec, site |-> None, n |-> q.n]) ELSE UNCHANGED bus
  /\ published' = published \cup {<<q.spec, q.op, q.content>>}
  /\ req' = [req EXCEPT ![r].pc = "feedback"]
  /\ UNCHANGED <<rows, worker, site, feedback, bounds>>

\* Variant: the audit row is written whether or not the event went out.
FailPublishAndCapture(r) ==
  /\ req[r].pc = "publish"
  /\ Fault
  /\ req' = [req EXCEPT ![r].pc = "feedback"]
  /\ UNCHANGED <<rows, bus, worker, site, feedback, requests, lags, published>>

\* The 502: the decision is stored, its event is not sent, and the decision
\* cannot be taken again.
FailPublish(r) ==
  /\ req[r].pc = "publish"
  /\ Fault
  /\ req' = [req EXCEPT ![r] = NoRequest]
  /\ UNCHANGED <<rows, bus, worker, site, feedback, requests, lags, published>>

\* The 500 of putSpec, or a feedback row that could not be written.
FailRequest(r) ==
  /\ req[r].pc \in {"put", "feedback"}
  /\ Fault
  /\ req' = [req EXCEPT ![r] = NoRequest]
  /\ UNCHANGED <<rows, bus, worker, site, feedback, requests, lags, published>>

\* feedback.Capture.
CaptureFeedback(r) ==
  LET q == req[r] IN
  /\ q.pc = "feedback"
  /\ feedback' = feedback \cup {<<q.spec, q.op, q.content>>}
  /\ req' = [req EXCEPT ![r] = NoRequest]
  /\ UNCHANGED <<rows, bus, worker, site, bounds, published>>

\* handleRegenerateSite of api-website: the event names the site and its spec.
RequestRegenerate ==
  /\ requests < MaxRequests
  /\ requests' = requests + 1
  /\ \E n \in Sites :
       /\ site[n] # None
       /\ Send([spec |-> site[n].spec, site |-> n, n |-> requests'])
  /\ UNCHANGED <<rows, req, worker, site, feedback, faults, lags, published>>

-----------------------------------------------------------------------------
(* generator.  A delivered event is worked on once (module Delivery) until *)
(* its marker expires, a day later.                                        *)

\* WithKillSwitch and WithIdempotency let the event pass.
Take(w) ==
  /\ worker[w] = NoWork
  /\ \E e \in queue :
       /\ queue' = queue \ {e}
       /\ worker' = [worker EXCEPT ![w] = [pc |-> "load", event |-> e, content |-> None]]
  /\ UNCHANGED <<rows, req, archive, site, feedback, bounds, replayed, replays, skipped,
                 published>>

\* The container's view of StagePreview says off: the event is acknowledged
\* unmarked and without any work.  Operators switch the stage as they like.
Skip(w) ==
  /\ worker[w] = NoWork
  /\ \E e \in queue :
       /\ queue' = queue \ {e}
       /\ skipped' = skipped \cup {e.spec}
  /\ UNCHANGED <<rows, req, archive, worker, site, feedback, bounds, replayed, replays,
                 published>>

\* The event's marker is gone and a replay of the archive delivers it again.
\* A day is longer than any container works on it.
Replay ==
  /\ replayed < MaxReplays
  /\ replayed' = replayed + 1
  /\ \E e \in archive \ queue :
       /\ \A w \in Workers : worker[w].event # e
       /\ queue' = queue \cup {e}
       /\ replays' = IF e.site = None THEN [replays EXCEPT ![e.spec] = @ + 1] ELSE replays
  /\ UNCHANGED <<rows, req, archive, worker, site, feedback, bounds, skipped, published>>

\* Variant: the spec is rendered whatever its status.
LoadAnyStatus(w) ==
  /\ worker[w].pc = "load"
  /\ \E copy \in Reads(worker[w].event.spec) :
       worker' = [worker EXCEPT ![w].pc = "store", ![w].content = copy.content]
  /\ UNCHANGED <<rows, req, bus, site, feedback, bounds, published>>

\* Variant: an approved row that was edited since is taken for a stale event.
LoadUnedited(w) ==
  /\ worker[w].pc = "load"
  /\ \E copy \in Reads(worker[w].event.spec) :
       worker' = IF copy.status = "approved" /\ copy.version = 1
                 THEN [worker EXCEPT ![w].pc = "store", ![w].content = copy.content]
                 ELSE [worker EXCEPT ![w] = NoWork]
  /\ UNCHANGED <<rows, req, bus, site, feedback, bounds, published>>

\* runOne's reads and its guard: a spec that is not approved is dropped.
Load(w) ==
  /\ worker[w].pc = "load"
  /\ \/ \E copy \in Reads(worker[w].event.spec) :
          worker' = IF copy.status = "approved"
                    THEN [worker EXCEPT ![w].pc = "store", ![w].content = copy.content]
                    ELSE [worker EXCEPT ![w] = NoWork]
     \/ /\ lags /\ replica[worker[w].event.spec] = None     \* generator.spec.missing
        /\ worker' = [worker EXCEPT ![w] = NoWork]
  /\ UNCHANGED <<rows, req, bus, site, feedback, bounds, published>>

\* NewWebsiteID, numbered in the order of use.
Fresh == {n \in Sites : site[n] = None /\ \A m \in Sites : m < n => site[m] # None}

\* The id a render goes to: the carried one, or a new one.
Target(e) == IF e.site = None THEN Fresh ELSE {e.site}

\* Variant: every render mints an id.
StoreAnew(w) ==
  LET e == worker[w].event IN
  /\ worker[w].pc = "store"
  /\ \E n \in Fresh :
       site' = [site EXCEPT ![n] = [spec |-> e.spec, content |-> worker[w].content]]
  /\ worker' = [worker EXCEPT ![w] = NoWork]
  /\ UNCHANGED <<rows, req, bus, feedback, bounds, published>>

\* sitebundle.Render, putHTML and putWebsite, on the carried id or a new one.
Store(w) ==
  LET e == worker[w].event IN
  /\ worker[w].pc = "store"
  /\ \E n \in Target(e) :
       site' = [site EXCEPT ![n] = [spec |-> e.spec, content |-> worker[w].content]]
  /\ worker' = [worker EXCEPT ![w] = NoWork]
  /\ UNCHANGED <<rows, req, bus, feedback, bounds, published>>

\* A read or a write fails; the marker keeps the retry from trying again.
FailWork(w) ==
  /\ worker[w] # NoWork
  /\ Fault
  /\ worker' = [worker EXCEPT ![w] = NoWork]
  /\ UNCHANGED <<rows, req, bus, site, feedback, requests, lags, published>>

Replicate(i) ==
  /\ replica[i] # spec[i]
  /\ replica' = [replica EXCEPT ![i] = spec[i]]
  /\ UNCHANGED <<spec, req, bus, worker, site, feedback, bounds, newest, approvals,
                 vetted, reverted, published>>

HandleRequest(r) ==
  \/ PutEdit(r) \/ PutDecision(r) \/ Publish(r) \/ FailPublish(r) \/ FailRequest(r)
  \/ CaptureFeedback(r)

Work(w) == Take(w) \/ Skip(w) \/ Load(w) \/ Store(w) \/ FailWork(w)

Next ==
  \/ Generate
  \/ RequestRegenerate \/ Replay
  \/ \E r \in Requests : Begin(r) \/ HandleRequest(r)
  \/ \E w \in Workers : Work(w)
  \/ \E i \in SpecIds : Replicate(i)

\* Lambda runs a request and an event it has started to an end, and SQS
\* delivers; nobody has to send a request or start a replay.
Fairness ==
  /\ \A r \in Requests : WF_vars(HandleRequest(r))
  /\ \A w \in Workers : WF_vars(Work(w))

Spec == Init /\ [][Next]_vars /\ Fairness

-----------------------------------------------------------------------------
(* Properties                                                              *)

\* generator: a "race-y approve->reject" must not render a spec that is no
\* longer approved.  What holds is that a page shows content its spec had
\* while approved, never a draft a late edit put back (runOne's guard).
RenderedWasVetted ==
  \A n \in Sites : site[n] # None => <<site[n].spec, site[n].content>> \in vetted

\* A re-render lands on its site.  Sites are minted by approvals, one for each
\* decision that read a draft, and by replays of them once their marker is
\* gone, and by nothing else (generator runOne, websiteId).
SitesBounded ==
  \A i \in SpecIds : Cardinality({n \in Sites : site[n] # None /\ site[n].spec = i})
                       <= approvals[i] + replays[i]

\* The tuners learn from decisions the pipeline heard of, with the content they
\* were about: a decision's Feedback row follows its event (handleDecision).
FeedbackAfterEvent ==
  \A f \in feedback : f[2] = "edit" \/ f \in published

\* With up-to-date reads and no failure, an approved spec is rendered, unless a
\* put of an older copy takes its approval back or its event comes while the
\* stage is off.
ApprovalLeadsToRender ==
  \A i \in SpecIds :
    (~lags /\ spec[i] # None /\ spec[i].status = "approved")
      ~> (faults > 0 \/ i \in reverted \/ i \in skipped
            \/ \E n \in Sites : site[n] # None /\ site[n].spec = i)

\* api-specs, PATCH: "edit spec.content (status stays draft, version bumps)".
EditsOnlyDrafts ==
  [][\A i \in SpecIds :
       (spec[i] # None /\ spec[i].status # "draft") => UNCHANGED spec[i].content]_vars

\* api-specs: "listSpecs returns newest first"; the sort key is a random id.
Latest == CHOOSE i \in SpecIds : spec[i] # None /\ \A j \in SpecIds : spec[j] # None => j <= i
LatestIsNewest == newest # None => Latest = newest
=============================================================================
