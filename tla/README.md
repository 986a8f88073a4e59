# Project Pluto: TLA+ models and proofs

Project Pluto finds small businesses, audits and qualifies their websites,
generates a preview of a better one behind a passcode, and mails the owner once
an operator has approved it.  It is a pipeline of AWS Lambdas joined by
EventBridge and SQS, over one DynamoDB table, with an admin UI and a Cloudflare
Worker that guards the previews.  This directory holds TLA+ models of its parts,
the TLC configurations that check them and proofs for the TLA+ proof system.

## 1. The system

| Part | State it keeps | Operations | Talks to |
|---|---|---|---|
| Consumer skeleton (`pkg/events`, `pkg/idempotency`, `pkg/killswitch/wrap.go`) | `IDEMP#consumer#eventId` items with a 24 h TTL; the SQS queue and its DLQ | gate, decode, claim, run, report failures | every consumer |
| Outreach (`email-draft`, `api-email`, `sender`) | EmailDraft rows, `SENDONCE` markers, EmailEvents, `SESMSG#` and `REPLYREF#` indexes | draft, edit, approve, reject, send | SES; `email.approved`, `email.sent` |
| Suppression (`ses-feedback`, `reply-triage`) | SES suppression list, Suppression rows | bounce, complaint, unsubscribe | read by `sender` |
| Preview (`generator`, `publisher`, `api-website`, `passcode-cleanup`) | the Website item with its passcode fields; `passcode:<id>` in Workers KV; R2 | render, publish, decide, regenerate, reveal, wipe | Worker, `email-draft`, `sender` (cleanup stamp) |
| Review queue (`qualifier`, `backlog-promoter`, `pkg/queue`) | Business status and `awaitingPromotion`, the `gsi1` index, Qualification rows | qualify, park, promote | `website.qualified`, `queue.slot.freed` |
| Settings (`api-settings`, `cost-rollover`, `pkg/killswitch`) | the settings row; a 60 s cache in each container | GET, PATCH, nightly rollover, gate | every consumer |
| Spec review (`spec-generator`, `api-specs`) | Spec rows | generate, edit, decide | `spec.approved` |
| Cost and model calls (`pkg/cost`, `pkg/bedrock`) | Cost rows per day and stage, response cache | assert, call, record | every paid call |
| Tuners (`tuner-*`, `api-tuners`, `api-feedback`, `pkg/tunerlib`) | feedback, suggestions, versioned profiles | capture, suggest, activate | generators |
| Discovery, audit (`discover`, `api-targeting`, `audit`, `screenshotter`, `pkg/politefetch`) | Business rows, audits, per-host pacing | discover, fetch, audit | `audit.completed` |
| Replies (`reply-detector`, `reply-triage`, `api-replies`) | Reply and Triage rows | detect, triage | suppression |
| Views (`api-queue`, `api-metrics`, `metrics-rollup`) | daily rollups | read | UI |
| Worker (`worker/src`) | KV entry (read), rate limit, cookie | check passcode | visitors |
| Admin UI, infrastructure | none the pipeline reads | | |

What makes the parts hard, and what they must guarantee:

* *At-least-once delivery.*  SQS redelivers and duplicates, EventBridge replays,
  containers die anywhere.  Work must not be repeated (no second mail) and
  messages must neither vanish without a reason nor circulate for ever.
* *Read, compute, put back.*  Handlers read a row, take a while, and put the
  whole row, without a condition and mostly with eventually consistent reads.
  Several writers share the EmailDraft, Website and settings rows.
* *Two stores.*  A passcode lives in the item and in KV, a mail in SES and in
  the table, a decision in the row and in an event.  A failure between the two
  leaves them apart.
* *Check, then act.*  The review-queue cap, budgets, the mail's status check, the
  etag of a guide, the duplicate-domain check.
* *Stale views.*  The settings cache, `gsi1` and `gsi3`, the row copy of a sender,
  a cached robots.txt, clocks that differ.
* *Several steps, one of which fails.*  A decision is put, announced and recorded;
  an unsubscribe is suppressed, projected and filed; nothing rolls back.

The list "hazards" of `PROJECT.json` has them line by line.

## 2. Modules

| Module | What it is | Proofs |
|---|---|---|
| `OnceOnly` | what the idempotency wrapper promises, without queue, markers and Lambdas | |
| `Delivery` | one consumer: queue, DLQ, invocations, kill-switch gate, marker; implements `OnceOnly` | `DeliveryProofs` |
| `Mailbox` | what the send path promises: one chance of one approved mail for a (contact, website) pair | |
| `Outreach` | EmailDraft rows, operators' requests, senders, send-once markers, suppression; implements `Mailbox` | `OutreachProofs` |
| `Replies` | extends `Outreach`: inbound mail, triage, the operator's inbox, SES notifications | `OutreachProofs` |
| `Preview` | one website: renders, operators' requests, the sweep, the item and KV | `PreviewProofs` |
| `SpecReview` | Spec rows: drafts, edits, decisions, the generator's kill switch and guard, replays, the sites it mints | `SpecReviewProofs` |
| `Scoring` | the priority score as operators | |
| `ReviewQueue` | extends `Scoring`: qualifiers, promoters, the cap, the index, the nightly funnel count, replies | `ReviewQueueProofs` |
| `Settings` | the settings row, its writers and the containers' caches | `DeliveryProofs` |
| `ModelCalls` | paid calls: cache and its expiry, budget, ledger | `ModelCallsProofs` |
| `PoliteFetch` | one host: robots.txt and its caches, throttle slots, retries, skewed clocks | `IntakeProofs` |
| `Intake` | extends `PoliteFetch`: discover's dedup and audit's order of writes | `IntakeProofs` |
| `Profiles` | tuner proposals, the operator's decisions, versioned guides, all read late | `ProfilesProofs` |
| `MC*` | instances for TLC: constants and symmetry | |

Composition.  `Delivery` is the skeleton that every other consumer runs.  The
other modules take what it guarantees as the shape of their actions: a consumer
works on an event in one container (`Begin`, `Render`, `Decide`, `FindTop`,
`Take`, `StartAudit` take the event out of the inbox), and a failure
ends that work without a retry (`FailSend`, `FailJob`, `FailQual`, `FailWork`,
`FailTriage`, `FailAudit`), because the marker of a failed attempt stays.
The skeleton leaves two ways besides.  An archive replay after the marker's
TTL works on an event again: `Outreach!Redeliver` and `SpecReview!Replay`, where
a second run could mail twice or mints a second site.  A stage that is
off acknowledges the event unmarked: `Outreach!Skip` and `SpecReview!Skip`, where
an approval is owed an outcome.  Elsewhere only safety is claimed of a stage's
events, for which one acknowledged with its stage off is one that is never
taken up; or the handler has no kill switch, as its comments say it must not
(`reply-detector`, `reply-triage`, `ses-feedback`).  `Replies` runs every action of `Outreach` beside its
own and replaces its abstract `Suppress` by the handlers that do it; `Intake`
runs every step of `PoliteFetch` inside an audit; `ReviewQueue` decides and sorts
by `Scoring`.

An operator whose comment starts with *Variant* is not part of the model: it is a
plausible mistake in the definition that follows it (a dropped guard, a swapped
order).  `PROJECT.json` pairs each property with one: TLC finds the property
violated when the variant takes the definition's place, so the property does
depend on the code it is about.

### How state and actions correspond to the code

`PROJECT.json` "map" has the lines of every definition; this is the idea.

**Delivery.**  `marker` is the conditional item of `WithIdempotency`; `Claim`,
`AlreadyProcessed` and `ClaimError` are the three results of its PutItem (an
error may hide a write that landed); `StartWork` and `EndWork` are `fn`, which is
opaque.  `todo`, `failures` and `Respond` are the loop of `Consume`; records are
taken in any order, since the code's properties do not depend on it.
`GateOpen`, `GateSkip` and `GateError` are `WithKillSwitch` over the cached flag.
External: `Send`, `Duplicate`, `Receive`, `Settle`, `MoveToDLQ`, `Crash`,
`ExpireMarker`.  `ExpireMarker` waits until no delivery of the event is being
handled or retried: `DefaultTTL` (24 h) against a visibility timeout of minutes
and at most three receives.

**Outreach.**  `rows[d]` is status and text of a draft (a text is a number), and
`replica[d]` what an eventually consistent GetItem may still return.  A request
is `Read` and then `PutEdit` or `PutDecision` of the copy, then
`PublishDecision`; nothing ties the two, as the code has no condition on the
put.  A sender is one step per call of `runOne`, in its order: load and status
check, contact and suppression, marker, send, EmailEvent, two indexes, status,
event.  `snd[s].body` is the copy that is mailed.  `Skip` is the gate of
`handle` with the outreach stage off: `skipped` remembers the drafts whose
approval was acknowledged so.  The best-effort cleanup stamp
is in `Preview`.

**Replies.**  A mail has the draft its token names (or none), a sender address
(or none) and a text.  `det[k]` is how far `reply-detector` is: it announces
first (`Announce`) and attributes after (`LookupRef`, `MarkResponded`,
`PutReplied`).  `tri[k]` is `reply-triage`: `Classify` draws the model's label,
`SuppressSender` and `PutSuppression` are the SES list and the projected row,
`ApplyStatus` the business's status, `PutTriage` the row on the operator's page.
`Reclassify` and `Reapply` are the two writes of `api-replies`.  `note[n]` is a
bounce or complaint in `ses-feedback`.  The attribution indexes are
`Outreach!records`, so a send that failed half-way shows here as an orphan reply.
`Convert` is external: nothing under `src/` writes `converted`, and the handlers
are careful not to undo it.

**Preview.**  A passcode is a number and its hash and cipher are that number, 0
for none.  `Unstamped` is what happens to `passcodeCleanupDueAt` when an item
passes through a Go struct that has no such field.  `Render` puts a new item;
`Fetch`, `IssueKV`, `UpdateRow` are the publisher; `ReadSite` and then
`RequestRender`/`RotateKV`, `PutSite`, `PublishApproved` the operator; `Scan`,
`Wipe` the hourly sweep; `Stamp` the sender's UpdateItem.

**SpecReview.**  `spec[i]` is status, content and version, `replica[i]` what a
trailing read returns.  `Generate` is a new draft of `spec-generator`.  A request
reads in `Begin`, where the answers 400, 404 and 409 are its guards, and goes on with
`PutEdit` or `PutDecision` (the copy, unconditional), `Publish` and
`CaptureFeedback`; each may fail and leaves what was written.  A worker is the
generator: `Load` re-reads and drops what is not approved, `Store` renders to the
site the event carries, or to a new one.  `Skip` is the gate with the preview
stage off, `Replay` a replay of `archive`, the bus archive, once a day has taken
the marker away.  `vetted`, `approvals`, `reverted`, `published`, `replays` and
`skipped` are history.

**ReviewQueue.**  `biz[b]` is status and `awaitingPromotion` in one, `index[b]`
what `gsi1` shows, `lags` whether it may trail.  `Decide` picks the targeting
profile (enabled, of the trade, the newest), scores and counts;
`PutQualification`, `UpdateBusiness` (which may fail and be ignored),
`PublishVerdict` follow.  `TopBacklog` has DynamoDB's rule that Limit applies
before the filter.  `StartRollup`, `CountStatus` and `EndRollup` are the nightly
`metrics-rollup`, one query per status in the order of `FunnelStatuses`, which is
the source's; a query of a status that nobody is ever in finds nothing and is
passed over (`Following`).  `SetStatus` is what `reply-detector`, `reply-triage`
and `api-replies` do to the status of a business that was mailed.  `LeaveQueue` is
external: nothing under `src/` publishes `queue.slot.freed` yet, or writes the
statuses `Later`.  `Scoring` counts in hundredths, so a score
is in ten-thousandths, the precision of the sort key.

**Settings.**  `row` has the flags and the stages paused for their budget.
`Fetch` and `Store` are `killswitch.Get`, with the view dated at `Store`;
`ReadFresh`, `WriteRow`, `SetSettings` a PATCH; `RollRead`, `RollWrite` the
rollover.  `Pause` is external: `settings.go` says `pkg/cost` pauses stages, and
no code does yet.

**ModelCalls.**  `ledger[s]` is today's `spentUsd` of a stage and `replica[s]` what
a trailing read returns.  A call is `Lookup` (`getCached`), `AssertCap`, `Invoke`,
`Record` (an ADD), `Cache`; a caller without a cache key starts at `AssertCap`, as
`WithCostCap` does.  `Refuse` is an error after the provider has charged and before
`Record`.  `RecordTwice` is the SDK's repeat of an ADD whose answer was lost.
`PostValidate` comes after all of it, for a paid answer and a cached one, and
changes nothing.  `Expire` is the TTL of a cached answer; `Midnight` starts new ledger rows between any two steps.

**PoliteFetch and Intake.**  `memo[c]` is the container's robots memo, `robots` the
row the fleet shares, `older` the one a read may still return, `bucket` the
throttle item.  `Now(c)` is the container's own clock, up to `MaxSkew` ahead of real
time, in ticks of which a second has several; what is stored is cut to whole
seconds (`Unix`), as `now.Unix()` and `now.Add(-floor).Unix()` are, and the expiry of
a robots row.  `Gate` is the condition of `tryAcquire`;
`Retry` keeps its slot.  A fetch relies on the rule it was told even if the wait
for the slot is long; what bounds the wait is Lambda's timeout (`Tick`, `TimeOut`).
`CheckDomain` and `PutBusiness` are the two steps of `persistOne`: the put's
condition is on a fresh random id.  An audit takes an event, fetches, stores the
snapshot (a failure only empties its key), the row, and announces it.

**Profiles.**  A guide is a set of phrases with version and etag.  `Propose` and
`PutDelta` are `tunerlib.Run` for one vertical after the other; a repeated pass
puts the same row again.  `Open` ... `PublishUpdated` is `handleDecision`: for an
apply, `LoadGuide` and the merge, `CheckEtag` and `PutGuide` (the two halves of
`Update`), then the conditional status (`Decide`), the audit row and the event.
`style.Get`, `tone.Get` and `getDelta` are read without ConsistentRead, so `Open`,
`LoadGuide` and `CheckEtag` may see the row before the last write (`DeltasRead`,
`GuidesRead`).  `clobbered` counts the puts over a guide other than the one compared,
`raced` holds the profiles with a decision under way that read another proposal
than the row's.

## 3. Runs

Every run is `tlc -config <name>.cfg <module>`; MC modules give the constants.

| Run | Checks | Bounds and why they suffice |
|---|---|---|
| `MCDelivery` | `Inv` (with the type invariant), `AtMostOnce`, refinement of `OnceOnly` | one event, two deliveries of it, two containers, batch of 2, 3 receives as deployed: both concurrent duplicates and replays after an expiry occur |
| `MCDeliveryPoison` | `NoSilentAck`, `EveryMessageSettles` (fair) | a good and an undecodable message, 2 receives |
| `MCOutreach` | `AtMostOneSend`, `SentWasApproved`, `SentIsAttributable`, refinement of `Mailbox` | one draft, two operators, two senders, two approvals and their replays, one edit, one fault, stale reads, the stage off or on at each event.  The proofs cover any number |
| `MCReplies` | `ActedBeforeRecorded`, `SuppressedStaysQuiet`, `ReplyIsSeen`, `ApprovalLeadsToMail` (fair) | the whole loop from a draft to its reply: one draft, operator, sender, mail, notification and triage operator, one fault anywhere, the outreach stage off or on.  A mail may be attributed, orphaned, empty or malformed |
| `MCPreview` | `TypeOK`, `CleartextHasDeadline`, `RowCodeReachedKV`, `RetiredStaysRetired`, `CleartextExpires` (fair) | two renders, one request at a time (any number in sequence), three codes, clock to 2 with window and delay 1: codes expire, are wiped, restored and wiped again; one fault |
| `MCSpecReview` | `RenderedWasVetted`, `SitesBounded`, `FeedbackAfterEvent`, `ApprovalLeadsToRender` (fair) | one spec, a valid and an invalid edit, three requests of which two run at once (so a copy may be put back over two other writes), four sites, one replay, one fault, trailing reads or not, the stage off or on at each event |
| `MCReviewQueue` | `OvershootBounded`, `FunnelMissesNobody`, `AnnouncedIsAdmitted`, `PromotesTheNeediest` | four businesses with four profiles, one of them without a profile of its trade, cap 1, two qualifiers, two promoters, one fault, trailing index or not.  A rollup (when the index does not trail; the proof covers both) counts twelve statuses, of which six occur, while two replies move businesses ahead and back |
| `MCSettings` | `SettingsTypeOK`, `KillSwitchLatency`, `BudgetPauseEnds` (fair) | one stage and the master switch, an API container and a consumer, TTL 2, calls of 1 tick, clock to 4, two PATCHes, one budget pause |
| `MCModelCalls` | `SpendBounded`, `KeyBoughtBounded` | two containers, one stage with a cache key and one without, cap 3, estimate 1, costs to 2, four calls, one midnight, one expiry of the cached answer, one fault, trailing reads or not: the cap is overshot, and an answer is bought twice before and after its expiry |
| `MCIntake` | `PermissionFresh`, `SlotsApart`, `DuplicatesBounded`, `AuditsBacked` | two containers whose clocks differ by a tick, two ticks to the second, a floor of two seconds, robots TTL 1, timeout 1, clock to 4: memos, rows and slots expire, and slots come closer than the floor; two discover runs that may both store the one domain; one fault |
| `MCProfiles` | `DecidedOncePerProposal`, `AppliedWasMerged`, `VersionNamesContent` | a guide and an advisory profile, two passes in the week, two decisions at a time, reads one write behind, three versions, one fault |
| `MCDeliveryFailed` | `FailedWorkIsKept`: expected to be violated | one message, two receives of it: the first fails at its work, the second deletes it |

Deadlock is checked in the Delivery runs.  The others say `CHECK_DEADLOCK FALSE`:
with operators that may stop and bounded counters, having nothing left to do is
a normal end.

Properties worth a word:

* `OvershootBounded` is what the code gives in place of the cap that `queue.go`
  promises: with an index that does not trail, one business over the cap for each other
  qualifier and one for each promotion.  `SpendBounded` is its like for the budgets:
  one call for each container, one for a trailing read, one for each repeated ADD.
* `KillSwitchLatency`: the view is dated when the answer has been processed, so
  a stage that was switched off may run from a cache for TTL plus the length of
  one call (`CallTime`), no longer.  `PermissionFresh` is its like for robots.txt:
  a rule outlives its TTL by two invocations and the difference of two clocks.
* `CleartextExpires`: although stale copies restore wiped ciphers, each restored
  cleartext still carries a deadline, so the sweep comes back to it.
* `SentWasApproved` holds only because every writer puts text and status together
  (an edit of the text alone breaks it), `RenderedWasVetted` only because the
  generator reads the row again and looks at its status.
* `SentIsAttributable`: a draft that says "sent" has every record that bounces and
  replies are looked up by, whatever fails after the send.  `ReplyIsSeen` relies on it.
* `SuppressedStaysQuiet` is about a sender that has not passed its check when the
  suppression lands; the one that has may still send, and the code cannot recall it.
* `FunnelMissesNobody`: the statuses are counted in the order in which businesses
  mostly move through them, so one that moves on meanwhile may be counted twice.
  Replies also move a business back: "responded" comes after
  "rejected_after_review" in that order, and a reply read as a no, or filed as one,
  takes the status back past the count.  Such a business is in no bar of the day's
  funnel.  The property says by exactly how much the total is off.
* `VersionNamesContent`: two applies can share a version number, and caches are
  keyed by it: when they overlap, and also when the second follows within the lag
  of its reads, since all of them are eventually consistent.  Each such put goes
  over a guide other than the one whose etag was compared, and nothing else makes
  a version ambiguous.  `AppliedWasMerged` is alike: a delta that says applied may
  name a proposal that was never merged, but only if a decision had read another
  one than the row's, because the tuner put the row meanwhile or the read was stale.
* `SitesBounded`: an archive replay of `spec.approved` a day later mints another site
  for the same approval; sites come from approvals and such replays only.
* `ApprovalLeadsToMail` and `ApprovalLeadsToRender` name every way in which an
  announced approval ends; a stage that was off when the event came is one, and
  `OutreachEnabled` is false by default.  Nothing tells the operator, and a second
  approve answers 409.
* `SentIsAttributable` is about rows that reached the status "sent".  A mail whose
  recording failed earlier is out, and its replies are orphans in the inbox.
* `SlotsApart`: slots may be closer than the floor by the difference of two clocks
  and by less than a second, since the stored time and the gate are whole seconds.
* `PromotesTheNeediest` and `AnnouncedIsAdmitted` say what a promotion and an
  announcement are, not that they happen: `FreedSlotPromotes` and `NobodyStranded`,
  which say that, are refuted below.

### Statements that the code does not keep

`MCDeliveryFailed` is the listed one: "kept on the queue for retry / DLQ"
(`pkg/events/consumer.go:43-44`), but the retry finds the marker of the failed
attempt and is acknowledged: one message, received twice, is deleted with its work
never done.

The configurations named `*Docs.cfg` hold statements of comments and documents
that the models refute as well.  They are run by hand; TLC stops at the first one,
so take it out of the list to see the next.

| Configuration | Statement | Why it fails |
|---|---|---|
| `MCOutreachDocs` | `RejectedNeverSent` ("a race-y approve->reject must not still go out", `sender/main.go:154-155`) | the status is checked early, on a copy |
| | `ApprovedIsAnnounced` (`api-email/main.go:6`) | the put succeeds, the publish fails, a second approve gets 409 |
| | `DecisionOnStoredText` (`.ralph/specs/02-data-model.md:432`) | no put is conditional on the etag: approve overwrites an edit it did not see |
| `MCRepliesDocs` | `UnsubscribeWins` (`reply-triage/main.go:10`) | the detector's "responded" may land after triage's status |
| | `ReclassifiedIsSuppressed` (`api-replies/main.go:255`) | what the model was unsure of was never suppressed |
| `MCPreviewDocs` | `RevealIsCurrent` ("never a stale value", `api-website/main.go:414-415`) | item and KV can end with different codes |
| | `OnlyDueIsWiped` (`02-data-model.md:291`) | the wipe's condition does not repeat the due time |
| `MCPreviewParked` | `ParkedIsRepublished` (`api-website/main.go:263-264`) | the status is parked after the event, over what a fast render has put |
| `MCSpecReviewDocs` | `EditsOnlyDrafts` ("status stays draft", `api-specs`) | PATCH looks at no status |
| | `LatestIsNewest` ("newest first", `listSpecs`) | the sort key is a random id |
| `MCReviewQueueDocs` | `CapRespected` (`pkg/queue/queue.go:6-9`) | count, then act |
| | `AnnouncedOnce` (`backlog-promoter/main.go:286-287`) | the promoter that lost the race publishes too |
| | `NobodyStranded` (`qualifier/main.go:245-247`) | a failed status update loses the flag that the promoter looks for |
| | `FreedSlotPromotes` (`backlog-promoter/main.go:192-195`) | Limit 1 before the filter: an admitted business hides the backlog |
| `MCReviewQueuePage` | `NobodyPassedOver` ("scan all enabled profiles", `pkg/targeting`) | one page of the scan is read |
| `MCSettingsDocs` | `PatchLeavesOthersAlone` (`api-settings/main.go:15-16, 163-164`) | whole-row puts without a condition |
| | `RolloverSparesOperator` (`cost-rollover/main.go:10-11`) | a PATCH leaves the pause reason, and a rollover puts a copy |
| `MCModelCallsDocs` | `SpendWithinCap` ("today's spend never exceeds", `pkg/cost/cost.go`) | assert, pay, record in several containers |
| | `SharedBudget` ("shared across audit + spec", `spec-generator`) | one cap, but a ledger row for each stage |
| `MCIntakeDocs` | `OneRowPerDomain` ("ONE business.found", `discover`; "already idempotent", `api-metrics`) | the check and the put are two steps, and the index trails |
| | `EveryRequestHasASlot` ("floor between successive fetches", `pkg/politefetch`) | a retry waits for its backoff only |
| `MCProfilesDocs` | `VersionsAreUnique` ("two writes must never share a version", `style.go:230`) | the etag is compared with an eventually consistent read, the put has no condition |
| | `AppliedIsTheProposal` (`api-tuners/main.go:6`) | a repeated pass puts another proposal while the first is applied, or the delta was read late |

`MCOutreachLive` is a larger instance of `ApprovalLeadsToMail` (two drafts of which
one lost its contact), also run by hand.

### Fairness

* Delivery: `WF` of `Receive` and of an invocation's own steps (Lambda polls its
  queue and runs what it started) and of `MoveToDLQ` (the redrive policy).
  Nothing is assumed of crashes, sends, duplicates, operators or TTL.
* Outreach: `WF` of what requests and senders have begun; `SF` of taking up each
  event or acknowledging it with the stage off, since containers come free again and again and SQS does not leave a
  message for ever.  Operators owe nothing.
* Replies: that of Outreach, and `WF` of detector and triage for each mail.
  Prospects, operators and SES notifications owe nothing.
* Preview: `WF` of renders, of begun requests and of the sweep, which terraform
  schedules hourly.  The clock is not fair: no property needs time to pass.
* SpecReview: `WF` of a begun request's steps and of each generator container,
  which works on an event or skips it.  Nobody has to start a replay.
* Settings: `WF` of the rollover's read (a daily schedule) and `SF` of its write
  (not every put fails).
* ReviewQueue, ModelCalls, Intake, Profiles: none, only safety is claimed.

## 4. Proofs

`tlapm <module>.tla` proves each of the eight `*Proofs` modules from nothing.
Every theorem holds for all values of the constants that the module's named
assumption allows; where the runs set a bound, the proof has none.

**Delivery** (`DeliveryAssumption`: each message carries an event, bounds
are positive).  `AtMostOnce` is not inductive: two containers could both be past
the claim of one event.  They cannot because (`OneWorkerPerEvent`) a working
container's event has its marker (`MarkedWhileWorking`), so nobody else claims it,
and the marker cannot expire while the container holds the message
(`InvocationOK` and `Quiet`).  `RunsBounded` counts: an event without a marker
has been run at most as often as its marker expired.  `NoSilentAck` needs
`SuccessesAccounted`: a record that is neither pending nor a failure was claimed.
The conjunction is `Inv`; each action has a lemma, `Invariance` joins them.
`RefinesOnceOnly` maps an open window to an absent marker and runners to the
working containers: `Claim` begins, `EndWork` and `Crash` end, `ClaimError` that
landed forfeits, `ExpireMarker` reopens, the rest stutters.

**Outreach** (`OutreachAssumption`).  `AtMostOneSend` follows from
`MarkerHolder`: a sender about to send holds the marker of its pair, is alone
with the pair, and nobody has sent for it; a pair with a send has its marker, and
markers are never removed.  `SentWasApproved` follows from `ApprovedTexts`: the
stored text of an approved row, and of an approved replica, was put by a
decision that recorded it, and a sender past the load carries such a text.
`SentIsAttributable` follows from `Traceable`: how far a sender is says which
records of its draft exist.  All of it holds for stale reads or not.

`RefinesMailbox` maps a pair's chance to its marker: a pair that nobody has
claimed is open, a sender at the send holds the chance, a send uses it and a crash
or an error after the claim forfeits it; what may be mailed are the texts that
decisions approved.  The invariant is what makes each send a step of `Mailbox`.

**Replies** (`RepliesAssumption`: every draft has a business).  `SendsStaySafe`
carries `AtMostOneSend`, `SentWasApproved` and the invariant behind them to the
composition, and `RepliesRefineMailbox` the refinement: a step of a new handler
leaves what they speak of alone (`BesideSends`), a step of `Outreach` is one of its
own.  `ActedBeforeRecorded` needs `Stages`: how far triage is says what it has
suppressed and projected.  `SuppressedStaysQuiet` speaks of two moments, but a
sender gets past its check only from before it and never with a suppressed
address, so it follows from an action property.

**Preview** (`PreviewAssumption`).  Nobody locks the item, so copies of it are
everywhere.  `CleartextHasDeadline` is not inductive, `CopiesDated` is: every copy
that a render, a request or the sweep may still put back is dated as well.
`RowCodeReachedKV` needs the same of the codes: each copy names a code that KV has had
(`CodesReached`).  `RetiredStaysRetired`, an action property, needs that a code on
its way to KV is new there and on its way once.

**Settings** (a positive TTL, the master switch is no stage; no bound on
containers, PATCHes, pauses).  `KillSwitchLatency` needs `FlagsDated`: whatever a
container has read of the row, put there, or keeps as its view is dated within one
call of the last time the row allowed the stage.  `Put` dates a stage that the row
allows before or after it, so the copies that PATCH and rollover put back do not
matter.  The proofs are in `DeliveryProofs`, whose gate asks the switch.

**SpecReview** (contents a model may answer with are valid, requests and workers
are finitely many, `None` is no row).  `RenderedWasVetted` needs `Vetted` of the
row, of its replica and of what a worker carries.  `SitesBounded` needs `Spent`, a
conservation law: an approval, and a replay of its event, is at any time at one place
(a request, an event, a worker, a site), so those together are no more than the
approvals and the replays.

**ReviewQueue** (finitely many businesses and qualifiers, valid profiles).
`Admission` says that a business whose verdict is not written yet is still
new and has one verdict in progress; `Overshoot` counts the admitted with
those about to be, for an index that does not trail.  `FunnelMissesNobody` needs
`Funnel`: what the rollup has counted is those whom gsi1 shows in a status it has
read, and those who have moved past it on their way ahead less those on their way back.
`NeediestTheorem` (`PromotesTheNeediest`) has hypotheses: audit scores lie in
0..100, as the audit's schema says, and the profiles that decide weigh the audit
score and have weights that sum to no more than 1.  `Validate` allows a weight
of zero, which leaves the order to the ids, and a sum of 1.01, which saturates scores;
the property fails there.  `OneQualifierTheorem`, `OnePageTheorem` and
`StrandedTheorem` say when three statements of section 3 that the code does not keep
in general are true: one qualifier container, one page of profiles, no failure.
`OnePageTheorem` needs that of finitely many profiles one was updated last
(`LastUpdated`), from the well-foundedness of inclusion.

**ModelCalls** (finitely many containers; budgets and prices are natural).
`CommittedBounded` adds to the ledger the most that calls past `AssertCap` may
still record, and `ReplicaClose` bounds how far a read is behind.
`KeyBoughtBounded` needs `BoughtByMisses`: as long as a key is not cached, whoever
paid for it since it last expired holds the answer or has failed, and those that may
still pay came before the answer was stored.  `LoneCallerTheorem` says when the
sentence of `cost.go` is true: one container, no call dearer than its estimate,
up-to-date reads, no failure.

**Intake and PoliteFetch** (a positive robots TTL; finitely many runs and ids; no
assumption on skew but its bound).  `PermissionFresh` needs `Kept` (a stored
rule expires within `Life` of its reading) and `Progress`; `SlotsApart` needs
`BucketAhead` (the bucket is dated by a clock that is never behind real time, less
than a second of which is cut off) and is proved as an action property.  `AuditsBacked` needs `StoredFirst` and
`SnapshotFirst`; `DuplicatesBounded` needs `Indexed`, and counts rows with those
about to be stored; with one run at a time a domain has one row (`OneRunTheorem`).

**Profiles** (requests finitely many, each tuner has a vertical).
`DecidedOncePerProposal` needs `Account`: proposals pay for audit rows, for
those still to be written and for a pending row.  `AppliedWasMerged` needs
`Merging` (an apply about to be decided has merged what it read) and `Uncrossed`
(outside `raced`, what it read is the row's).  `VersionNamesContent` needs
`Versioned`: an apply that compared the guide there is will put a later version, so
a further content under a version comes from a put over another guide.

**Only model-checked** are the liveness properties (`EveryMessageSettles`,
`ApprovalLeadsToMail`, `ReplyIsSeen`, `ApprovalLeadsToRender`, `CleartextExpires`,
`BudgetPauseEnds`), as liveness under fairness is out of the prover's reach.  Every
invariant and action property of a passing run is the statement of a theorem,
`PromotesTheNeediest` under the hypotheses named above.

## 5. What is left out

* `Preview` reads the item as it is stored; `Outreach`, `SpecReview`,
  `ReviewQueue`, `ModelCalls`, `Intake` and `Profiles` are where trailing reads are
  modelled, each at most one write behind.
* Edits of a targeting profile (`api-targeting`): one conditional put decides, so no
  order of steps matters.  The delete is unconditional.
* The rejection of a model's answer by its prompt's own check: it comes after the
  cache write, for cached answers again, and changes no state.  Answers that are
  charged and refused before the ledger is written (`Refuse`) are in no bound of
  `KeyBoughtBounded` or `SpendBounded`, as nothing counts them.
* Who writes the statuses of the review and the sale: `LeaveQueue` stands for it.
* Stored HTML, R2 objects, KMS and hashing, prompts, templates, logging.
* Feedback capture outside `SpecReview` and `Profiles`: it follows a decision and
  its failure is only logged.
* Reads that no decision depends on: the listings of `api-queue`, `api-feedback`,
  `api-replies`, `api-metrics`.
* `screenshotter`: one headless browser per call; it writes an object and a key.
* The HTTP clients of the discovery sources: a result is a domain, or no result.
* The Cloudflare Worker: a separate TypeScript program; the KV entry, which it only
  reads, is in `Preview`.
* `pkg/schemas`, `pkg/sitebundle`, `pkg/spec`, `pkg/components` and the like: pure
  functions over text; what a state depends on (accepted or not) is a choice.
* The admin UI and the infrastructure; the latter's queue parameters and schedules
  are where bounds and fairness come from.

## 6. Plan

What remains, in this order:

1. `Worker`: rate limit and cookie against the KV entry of `Preview`.
2. `SpecReview` and `Preview` composed over the website id.
3. Larger instances by hand: two drafts in `Replies`, two verticals in `Profiles`.
