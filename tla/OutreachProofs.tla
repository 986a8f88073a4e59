--------------------------- MODULE OutreachProofs ---------------------------
(***************************************************************************)
(* Proofs about Outreach and about Replies, which runs it.  Outreach is    *)
(* type correct, sends at most one mail for a (contact, website) pair and  *)
(* sends only approved texts, for any sets of drafts, pairs, requests and  *)
(* senders, with stale reads and with any number of failures.  The same    *)
(* holds beside the handlers of what comes back, whose records say what    *)
(* was done and whose suppressions the sender obeys.                       *)
(***************************************************************************)
EXTENDS Replies, TLAPS

\* A request in progress works on a draft, with a body that exists.
LEMMA RequestTyped ==
  ASSUME TypeOK, NEW r \in Requests, req[r].pc # "idle"
  PROVE  req[r] \in [pc : {"read", "publish"}, op : Ops, draft : Drafts, body : 0..MaxBody]
  BY DEF TypeOK, NoRequest

\* A send in progress works on an event of a draft.
LEMMA SendTyped ==
  ASSUME TypeOK, NEW s \in Senders, snd[s].pc # "idle"
  PROVE  snd[s] \in [pc : SendSteps, event : Event, body : 0..MaxBody]
  BY DEF TypeOK, NoSend

\* Whatever GetItem returns is a row.
LEMMA ReadsTyped ==
  ASSUME TypeOK, NEW d \in Drafts, NEW row \in Reads(d)
  PROVE  row \in Row
  BY DEF TypeOK, Reads

\* A write keeps both copies of the rows well typed.
LEMMA WriteTyped ==
  ASSUME TypeOK, NEW d \in Drafts, NEW row \in Row, Write(d, row)
  PROVE  rows' \in [Drafts -> Row] /\ replica' \in [Drafts -> Row]
  BY DEF TypeOK, Write

\* The initial state is well typed.
LEMMA InitTyped == Init => TypeOK
  BY OutreachAssumption DEF Init, TypeOK, Absent, Row, Statuses

\* A step of a review request keeps the state well typed.
LEMMA RequestStepTyped ==
  ASSUME TypeOK, NEW r \in Requests,
         Read(r) \/ PutEdit(r) \/ PutDecision(r) \/ PublishDecision(r) \/ FailRequest(r)
  PROVE  TypeOK'
<1> USE OutreachAssumption
<1>1. CASE Read(r)
  <2>1. PICK d \in Drafts, verb \in Ops :
          \E row \in Reads(d) :
            req' = [req EXCEPT ![r] =
                      [pc |-> "read", op |-> verb, draft |-> d, body |-> row.body]]
    BY <1>1 DEF Read
  <2>2. PICK row \in Reads(d) :
          req' = [req EXCEPT ![r] =
                    [pc |-> "read", op |-> verb, draft |-> d, body |-> row.body]]
    BY <2>1
  <2>3. row.body \in 0..MaxBody
    BY <2>2, ReadsTyped DEF Row
  <2> QED BY <1>1, <2>2, <2>3 DEF Read, TypeOK, sendVars, inboxVars
<1>2. CASE PutEdit(r)
  <2>1. req[r].draft \in Drafts
    BY <1>2, RequestTyped DEF PutEdit
  <2>2. nextBody + 1 \in 0..MaxBody
    BY <1>2 DEF PutEdit, TypeOK
  <2>3. [status |-> "draft", body |-> nextBody + 1] \in Row
    BY <2>2 DEF Row, Statuses
  <2>4. rows' \in [Drafts -> Row] /\ replica' \in [Drafts -> Row]
    BY <1>2, <2>1, <2>3, WriteTyped DEF PutEdit
  <2> QED BY <1>2, <2>2, <2>4 DEF PutEdit, TypeOK, sendVars, inboxVars
<1>3. CASE PutDecision(r)
  <2>1. req[r] \in [pc : {"read", "publish"}, op : Ops, draft : Drafts, body : 0..MaxBody]
    BY <1>3, RequestTyped DEF PutDecision
  <2>2. /\ [status |-> "approved", body |-> req[r].body] \in Row
        /\ [status |-> "rejected", body |-> req[r].body] \in Row
    BY <2>1 DEF Row, Statuses
  <2>3. rows' \in [Drafts -> Row] /\ replica' \in [Drafts -> Row]
    BY <1>3, <2>1, <2>2, WriteTyped DEF PutDecision
  <2>4. approved' \in [Drafts -> SUBSET (0..MaxBody)]
    BY <1>3, <2>1 DEF PutDecision, TypeOK
  <2>5. req' \in [Requests ->
                   [pc : {"read", "publish"}, op : Ops, draft : Drafts, body : 0..MaxBody]
                     \cup {NoRequest}]
    BY <1>3, <2>1 DEF PutDecision, TypeOK
  <2> QED BY <1>3, <2>3, <2>4, <2>5 DEF PutDecision, TypeOK, sendVars, inboxVars
<1>4. CASE PublishDecision(r)
  <2>1. req[r].draft \in Drafts
    BY <1>4, RequestTyped DEF PublishDecision
  <2>2. CASE UNCHANGED <<approvals, inbox>>
    BY <1>4, <2>2 DEF PublishDecision, TypeOK, sendVars, inboxVars
  <2>3. CASE /\ approvals[req[r].draft] < MaxApprovals
             /\ approvals' = [approvals EXCEPT ![req[r].draft] = @ + 1]
             /\ inbox' = inbox \cup
                  {[draft |-> req[r].draft, n |-> approvals[req[r].draft] + 1]}
    <3>1. approvals[req[r].draft] + 1 \in 1..MaxApprovals
      BY <2>1, <2>3 DEF TypeOK
    <3>2. approvals' \in [Drafts -> 0..MaxApprovals] /\ inbox' \subseteq Event
      BY <2>1, <2>3, <3>1 DEF TypeOK, Event
    <3> QED BY <1>4, <3>2 DEF PublishDecision, TypeOK, sendVars, inboxVars
  <2> QED BY <1>4, <2>2, <2>3 DEF PublishDecision
<1>5. CASE FailRequest(r)
  BY <1>5 DEF FailRequest, TypeOK, sendVars, inboxVars
<1> QED BY <1>1, <1>2, <1>3, <1>4, <1>5

\* A step of a sender keeps the state well typed.
LEMMA SenderStepTyped ==
  ASSUME SendInv, NEW s \in Senders, SendStep(s) \/ FailSend(s)
  PROVE  TypeOK'
<1> USE OutreachAssumption DEF reviewVars, inboxVars
<1>0. TypeOK /\ SenderHasJourney
  BY DEF SendInv
<1>a. NoSend.pc = "idle"
  BY DEF NoSend
<1>1. ASSUME NEW e \in Event, Begin(s, e) \/ Skip(s, e) PROVE TypeOK'
  <2>1. CASE Begin(s, e)
    BY <1>0, <2>1 DEF Begin, TypeOK, SendSteps
  <2>2. CASE Skip(s, e)
    BY <1>0, <2>2 DEF Skip, sendVars, TypeOK, Event
  <2> QED BY <1>1, <2>1, <2>2
<1>2. CASE Load(s)
  <2>1. snd[s] \in [pc : SendSteps, event : Event, body : 0..MaxBody]
    BY <1>0, <1>2, SendTyped DEF Load
  <2>2. snd[s].event.draft \in Drafts
    BY <2>1 DEF Event
  <2>3. PICK row \in Reads(snd[s].event.draft) :
          \/ snd' = [snd EXCEPT ![s].pc = "check", ![s].body = row.body]
          \/ Done(s)
    BY <1>2 DEF Load
  <2>4. row.body \in 0..MaxBody
    BY <1>0, <2>2, ReadsTyped DEF Row
  <2>5. snd' \in [Senders ->
                   [pc : SendSteps, event : Event, body : 0..MaxBody] \cup {NoSend}]
    BY <1>0, <2>1, <2>3, <2>4 DEF TypeOK, Done, SendSteps
  <2> QED BY <1>0, <1>2, <2>5 DEF Load, TypeOK
<1>3. CASE Check(s)
  <2>1. snd[s] \in [pc : SendSteps, event : Event, body : 0..MaxBody]
    BY <1>0, <1>3, SendTyped DEF Check
  <2> QED BY <1>0, <1>3, <2>1 DEF Check, TypeOK, Done, Goto, SendSteps
<1>4. CASE Mark(s)
  <2>1. snd[s] \in [pc : SendSteps, event : Event, body : 0..MaxBody]
    BY <1>0, <1>4, SendTyped DEF Mark
  <2>2. Journey(s) \in Journeys
    BY <1>0, <1>4, <1>a DEF Mark, SenderHasJourney
  <2>3. snd' \in [Senders ->
                   [pc : SendSteps, event : Event, body : 0..MaxBody] \cup {NoSend}]
    BY <1>0, <1>4, <2>1 DEF Mark, TypeOK, Done, Goto, SendSteps
  <2> QED BY <1>0, <1>4, <2>2, <2>3 DEF Mark, TypeOK
<1>5. CASE Send(s)
  <2>1. snd[s] \in [pc : SendSteps, event : Event, body : 0..MaxBody]
    BY <1>0, <1>5, SendTyped DEF Send
  <2>2. Journey(s) \in Journeys
    BY <1>0, <1>5, <1>a DEF Send, SenderHasJourney
  <2>3. snd' \in [Senders ->
                   [pc : SendSteps, event : Event, body : 0..MaxBody] \cup {NoSend}]
    BY <1>0, <1>5, <2>1 DEF Send, TypeOK, Goto, SendSteps
  <2>4. sends' \in [Journeys -> Nat]
    BY <1>0, <1>5, <2>2 DEF Send, TypeOK
  <2>5. mailed' \subseteq [draft : Drafts, body : 0..MaxBody]
    BY <1>0, <1>5, <2>1 DEF Send, TypeOK, Event
  <2> QED BY <1>0, <1>5, <2>3, <2>4, <2>5 DEF Send, TypeOK
<1>6. CASE Record(s)
  <2>1. snd[s] \in [pc : SendSteps, event : Event, body : 0..MaxBody]
    BY <1>0, <1>6, SendTyped DEF Record, Records
  <2>2. NextRecord[snd[s].pc] \in SendSteps
    BY <1>6 DEF Record, Records, NextRecord, SendSteps
  <2>3. snd' \in [Senders ->
                   [pc : SendSteps, event : Event, body : 0..MaxBody] \cup {NoSend}]
    BY <1>0, <1>6, <2>1, <2>2 DEF Record, TypeOK, Goto
  <2>4. records' \in [Drafts -> SUBSET Records]
    BY <1>0, <1>6, <2>1 DEF Record, TypeOK, Event
  <2> QED BY <1>0, <1>6, <2>3, <2>4 DEF Record, TypeOK
<1>7. CASE SetDraftSent(s)
  <2>1. snd[s] \in [pc : SendSteps, event : Event, body : 0..MaxBody]
    BY <1>0, <1>7, SendTyped DEF SetDraftSent
  <2>2. snd[s].event.draft \in Drafts
    BY <2>1 DEF Event
  <2>3. [rows[snd[s].event.draft] EXCEPT !.status = "sent"] \in Row
    <3>1. rows[snd[s].event.draft] \in Row
      BY <1>0, <2>2 DEF TypeOK
    <3> QED BY <3>1 DEF Row, Statuses
  <2>4. rows' \in [Drafts -> Row] /\ replica' \in [Drafts -> Row]
    BY <1>0, <1>7, <2>2, <2>3, WriteTyped DEF SetDraftSent
  <2>5. snd' \in [Senders ->
                   [pc : SendSteps, event : Event, body : 0..MaxBody] \cup {NoSend}]
    BY <1>0, <1>7, <2>1 DEF SetDraftSent, TypeOK, Goto, SendSteps
  <2> QED BY <1>0, <1>7, <2>4, <2>5 DEF SetDraftSent, TypeOK
<1>8. CASE PublishSent(s)
  BY <1>0, <1>8 DEF PublishSent, TypeOK, Done
<1>9. CASE FailSend(s)
  BY <1>0, <1>9 DEF FailSend, TypeOK, Done
<1> QED BY <1>1, <1>2, <1>3, <1>4, <1>5, <1>6, <1>7, <1>8, <1>9 DEF SendStep

\* The steps that are neither a request's nor a sender's.
Elsewhere ==
  \/ \E d \in Drafts : Draft(d) \/ Replicate(d)
  \/ \E e \in Event : Redeliver(e)
  \/ \E a \in Addresses : Suppress(a)

\* They keep the state well typed.
LEMMA ElsewhereTyped == TypeOK /\ Elsewhere => TypeOK'
<1> SUFFICES ASSUME TypeOK, Elsewhere PROVE TypeOK'
  OBVIOUS
<1> USE OutreachAssumption DEF reviewVars, sendVars, inboxVars
<1>1. ASSUME NEW d \in Drafts, Draft(d) PROVE TypeOK'
  <2>1. [status |-> "draft", body |-> 0] \in Row
    BY DEF Row, Statuses
  <2>2. rows' \in [Drafts -> Row] /\ replica' \in [Drafts -> Row]
    BY <1>1, <2>1, WriteTyped DEF Draft
  <2> QED BY <1>1, <2>2 DEF Draft, TypeOK
<1>2. ASSUME NEW d \in Drafts, Replicate(d) PROVE TypeOK'
  BY <1>2 DEF Replicate, TypeOK
<1>3. ASSUME NEW e \in Event, Redeliver(e) PROVE TypeOK'
  BY <1>3 DEF Redeliver, TypeOK
<1>4. ASSUME NEW a \in Addresses, Suppress(a) PROVE TypeOK'
  BY <1>4 DEF Suppress, TypeOK
<1> QED BY <1>1, <1>2, <1>3, <1>4 DEF Elsewhere

\* Next, grouped by who takes the step.
LEMMA NextByActor ==
  ASSUME Next
  PROVE  \/ Elsewhere
         \/ \E r \in Requests :
              Read(r) \/ PutEdit(r) \/ PutDecision(r) \/ PublishDecision(r) \/ FailRequest(r)
         \/ \E s \in Senders : SendStep(s) \/ FailSend(s)
  BY DEF Next, Elsewhere

\* Every step keeps the state well typed.
LEMMA StepTyped == SendInv /\ [Next]_vars => TypeOK'
<1> SUFFICES ASSUME SendInv, [Next]_vars PROVE TypeOK'
  OBVIOUS
<1>0. TypeOK
  BY DEF SendInv
<1>1. CASE Next
  BY <1>0, <1>1, NextByActor, ElsewhereTyped, RequestStepTyped, SenderStepTyped
<1>2. CASE UNCHANGED vars
  BY <1>0, <1>2 DEF vars, reviewVars, sendVars, inboxVars, TypeOK
<1> QED BY <1>1, <1>2

\* Requests, operators, prospects and replays touch nothing of a sender's.
LEMMA OthersLeaveSends ==
  ASSUME \/ Elsewhere
         \/ \E r \in Requests :
              Read(r) \/ PutEdit(r) \/ PutDecision(r) \/ PublishDecision(r) \/ FailRequest(r)
         \/ UNCHANGED vars
  PROVE  UNCHANGED sendVars
  BY DEF Elsewhere, Draft, Replicate, Redeliver, Suppress, Read, PutEdit, PutDecision,
         PublishDecision, FailRequest, vars

\* A sender's step moves no other sender.
LEMMA OtherSendersStay ==
  ASSUME SendInv, NEW s \in Senders, SendStep(s) \/ FailSend(s), NEW t \in Senders \ {s}
  PROVE  snd'[t] = snd[t]
<1>0. TypeOK
  BY DEF SendInv
<1>1. ASSUME NEW e \in Event, Begin(s, e) \/ Skip(s, e) PROVE snd'[t] = snd[t]
  BY <1>0, <1>1 DEF Begin, Skip, sendVars, TypeOK, NoSend
<1>2. CASE Load(s)
  BY <1>0, <1>2 DEF Load, Done, TypeOK
<1>3. CASE Check(s) \/ Mark(s) \/ Send(s)
  BY <1>0, <1>3 DEF Check, Mark, Send, Done, Goto, TypeOK
<1>4. CASE Record(s) \/ SetDraftSent(s) \/ PublishSent(s) \/ FailSend(s)
  BY <1>0, <1>4 DEF Record, SetDraftSent, PublishSent, FailSend, Done, Goto, TypeOK
<1> QED BY <1>1, <1>2, <1>3, <1>4 DEF SendStep

\* Only Mark leads a sender to its send; only Mark and Send touch the marker
\* and the mails.
LEMMA QuietSender ==
  ASSUME SendInv, NEW s \in Senders, SendStep(s) \/ FailSend(s), ~Mark(s), ~Send(s)
  PROVE  UNCHANGED <<sentOnce, sends, mailed>> /\ snd'[s].pc # "send"
<1>0. TypeOK
  BY DEF SendInv
<1>a. NoSend.pc = "idle"
  BY DEF NoSend
<1>1. ASSUME NEW e \in Event, Begin(s, e) \/ Skip(s, e)
      PROVE  UNCHANGED <<sentOnce, sends, mailed>> /\ snd'[s].pc # "send"
  BY <1>0, <1>a, <1>1 DEF Begin, Skip, sendVars, TypeOK, NoSend
<1>2. CASE Load(s)
  <2>1. PICK row \in Reads(snd[s].event.draft) :
          \/ snd' = [snd EXCEPT ![s].pc = "check", ![s].body = row.body]
          \/ Done(s)
    BY <1>2 DEF Load
  <2>2. snd[s] \in [pc : SendSteps, event : Event, body : 0..MaxBody]
    BY <1>0, <1>2, SendTyped DEF Load
  <2>3. snd'[s].pc # "send"
    BY <1>0, <1>a, <2>1, <2>2 DEF TypeOK, Done
  <2> QED BY <1>2, <2>3 DEF Load
<1>3. CASE Check(s)
  <2>2. snd[s] \in [pc : SendSteps, event : Event, body : 0..MaxBody]
    BY <1>0, <1>3, SendTyped DEF Check
  <2> QED BY <1>0, <1>a, <1>3, <2>2 DEF Check, TypeOK, Done, Goto
<1>4. CASE Record(s)
  <2>1. snd[s] \in [pc : SendSteps, event : Event, body : 0..MaxBody]
    BY <1>0, <1>4, SendTyped DEF Record, Records
  <2>2. NextRecord[snd[s].pc] # "send"
    BY <1>4 DEF Record, Records, NextRecord
  <2> QED BY <1>0, <1>4, <2>1, <2>2 DEF Record, TypeOK, Goto
<1>5. CASE SetDraftSent(s)
  <2>2. snd[s] \in [pc : SendSteps, event : Event, body : 0..MaxBody]
    BY <1>0, <1>5, SendTyped DEF SetDraftSent
  <2> QED BY <1>0, <1>5, <2>2 DEF SetDraftSent, TypeOK, Goto
<1>6. CASE PublishSent(s) \/ FailSend(s)
  BY <1>0, <1>a, <1>6 DEF PublishSent, FailSend, TypeOK, Done
<1> QED BY <1>1, <1>2, <1>3, <1>4, <1>5, <1>6 DEF SendStep

\* A sender keeps working on the event it began, which has a journey.
LEMMA SenderHasJourneyStep == SendInv /\ [Next]_vars => SenderHasJourney'
<1> SUFFICES ASSUME SendInv, [Next]_vars PROVE SenderHasJourney'
  OBVIOUS
<1>0. TypeOK /\ SenderHasJourney
  BY DEF SendInv
<1>1. CASE UNCHANGED snd
  BY <1>0, <1>1 DEF SenderHasJourney, Journey
<1>2. ASSUME NEW s \in Senders, SendStep(s) \/ FailSend(s) PROVE SenderHasJourney'
  <2>1. \/ snd'[s] = NoSend
        \/ snd[s] # NoSend /\ snd'[s].event = snd[s].event
        \/ JourneyOf[snd'[s].event.draft] \in Journeys
    <3>1. ASSUME NEW e \in Event, Begin(s, e) \/ Skip(s, e)
          PROVE  snd'[s] = NoSend \/ JourneyOf[snd'[s].event.draft] \in Journeys
      <4>1. e.draft \in Drafts
        BY DEF Event
      <4>2. JourneyOf[e.draft] \in Journeys \cup {None}
        BY <4>1, OutreachAssumption DEF OutreachAssumption
      <4> QED BY <1>0, <3>1, <4>2 DEF Begin, Skip, sendVars, TypeOK, NoSend
    <3>2. ASSUME Load(s) \/ Check(s) \/ Mark(s) \/ Send(s) \/ Record(s) \/ SetDraftSent(s)
                   \/ PublishSent(s) \/ FailSend(s)
          PROVE  snd'[s] = NoSend \/ (snd[s] # NoSend /\ snd'[s].event = snd[s].event)
      <4>0. snd[s].pc # "idle" /\ snd[s] # NoSend
        BY <1>0, <3>2 DEF Load, Check, Mark, Send, Record, SetDraftSent, PublishSent,
                          FailSend, Records, NoSend, TypeOK, SendSteps
      <4>1. snd[s] \in [pc : SendSteps, event : Event, body : 0..MaxBody]
        BY <1>0, <4>0, SendTyped
      <4>2. CASE Load(s)
        BY <1>0, <4>0, <4>1, <4>2 DEF Load, Done, TypeOK
      <4>3. CASE Check(s) \/ Mark(s) \/ Send(s)
        BY <1>0, <4>0, <4>1, <4>3 DEF Check, Mark, Send, Done, Goto, TypeOK
      <4>4. CASE Record(s) \/ SetDraftSent(s) \/ PublishSent(s) \/ FailSend(s)
        BY <1>0, <4>0, <4>1, <4>4
           DEF Record, SetDraftSent, PublishSent, FailSend, Done, Goto, TypeOK
      <4> QED BY <3>2, <4>2, <4>3, <4>4
    <3> QED BY <1>2, <3>1, <3>2 DEF SendStep
  <2> QED BY <1>0, <1>2, <2>1, OtherSendersStay DEF SenderHasJourney, Journey
<1> QED BY <1>1, <1>2, NextByActor, OthersLeaveSends DEF sendVars

\* The marker of a pair goes to one sender, which sends once at most.
LEMMA MarkerHolderStep ==
  SendInv /\ [Next]_vars => MarkerHolder' /\ AtMostOneSend'
<1> SUFFICES ASSUME SendInv, [Next]_vars PROVE MarkerHolder' /\ AtMostOneSend'
  OBVIOUS
<1>0. TypeOK /\ SenderHasJourney /\ MarkerHolder /\ AtMostOneSend
  BY DEF SendInv
<1>1. CASE UNCHANGED sendVars
  BY <1>0, <1>1 DEF sendVars, MarkerHolder, AtMostOneSend, Journey
<1>2. ASSUME NEW s \in Senders, SendStep(s) \/ FailSend(s)
      PROVE  MarkerHolder' /\ AtMostOneSend'
  <2>0. \A t \in Senders \ {s} : snd'[t] = snd[t] /\ Journey(t)' = Journey(t)
    BY <1>2, OtherSendersStay DEF Journey
  <2>1. CASE ~Mark(s) /\ ~Send(s)
    <3>1. UNCHANGED <<sentOnce, sends>> /\ snd'[s].pc # "send"
      BY <1>2, <2>1, QuietSender
    <3> QED BY <1>0, <2>0, <3>1 DEF MarkerHolder, AtMostOneSend
  <2>2. CASE Mark(s)
    <3>1. snd[s] \in [pc : SendSteps, event : Event, body : 0..MaxBody]
      BY <1>0, <2>2, SendTyped DEF Mark
    <3>2. CASE Journey(s) \in sentOnce
      <4>1. UNCHANGED <<sentOnce, sends>> /\ snd'[s].pc # "send"
        BY <1>0, <2>2, <3>2 DEF Mark, Done, TypeOK, NoSend
      <4> QED BY <1>0, <2>0, <4>1 DEF MarkerHolder, AtMostOneSend
    <3>3. CASE Journey(s) \notin sentOnce
      <4>1. /\ sentOnce' = sentOnce \cup {Journey(s)}
            /\ UNCHANGED sends
            /\ Journey(s)' = Journey(s)
        BY <1>0, <2>2, <3>1, <3>3 DEF Mark, Goto, TypeOK, Journey
      <4>2. Journey(s) \in Journeys
        BY <1>0, <2>2 DEF Mark, SenderHasJourney, NoSend
      <4>3. sends[Journey(s)] = 0
        BY <1>0, <3>3, <4>2 DEF MarkerHolder, TypeOK
      <4>4. \A t \in Senders \ {s} :
              snd'[t].pc = "send" => Journey(t)' \in sentOnce /\ sends[Journey(t)'] = 0
        BY <1>0, <2>0 DEF MarkerHolder
      <4>5. \A t \in Senders \ {s} : snd'[t].pc = "send" => Journey(t)' # Journey(s)'
        BY <3>3, <4>1, <4>4
      <4>6. \A t, u \in Senders \ {s} :
              (snd'[t].pc = "send" /\ snd'[u].pc = "send" /\ Journey(t)' = Journey(u)')
                => t = u
        BY <1>0, <2>0 DEF MarkerHolder
      <4> QED BY <1>0, <4>1, <4>3, <4>4, <4>5, <4>6 DEF MarkerHolder, AtMostOneSend
    <3> QED BY <3>2, <3>3
  <2>3. CASE Send(s)
    <3>1. snd[s] \in [pc : SendSteps, event : Event, body : 0..MaxBody]
      BY <1>0, <2>3, SendTyped DEF Send
    <3>2. snd'[s].pc # "send" /\ UNCHANGED sentOnce
      BY <1>0, <2>3, <3>1 DEF Send, Goto, TypeOK
    <3>3. Journey(s) \in sentOnce /\ sends[Journey(s)] = 0
      BY <1>0, <2>3 DEF Send, MarkerHolder
    <3>4. Journey(s) \in Journeys
      BY <1>0, <3>3 DEF TypeOK
    <3>5. /\ sends'[Journey(s)] = 1
          /\ \A j \in Journeys \ {Journey(s)} : sends'[j] = sends[j]
      BY <1>0, <2>3, <3>3, <3>4 DEF Send, TypeOK
    <3>6. \A t \in Senders \ {s} :
            snd'[t].pc = "send" =>
              /\ Journey(t)' \in sentOnce
              /\ sends[Journey(t)'] = 0
              /\ Journey(t)' \in Journeys \ {Journey(s)}
      BY <1>0, <2>0, <2>3 DEF MarkerHolder, Send, TypeOK
    <3>7. \A t, u \in Senders \ {s} :
            (snd'[t].pc = "send" /\ snd'[u].pc = "send" /\ Journey(t)' = Journey(u)')
              => t = u
      BY <1>0, <2>0 DEF MarkerHolder
    <3> QED BY <1>0, <3>2, <3>3, <3>5, <3>6, <3>7 DEF MarkerHolder, AtMostOneSend
  <2> QED BY <2>1, <2>2, <2>3
<1> QED BY <1>1, <1>2, NextByActor, OthersLeaveSends

\* What an approved row holds was approved, in the table and in the replica.
RowsApproved ==
  \A d \in Drafts :
    /\ rows[d].status = "approved" => rows[d].body \in approved[d]
    /\ replica[d].status = "approved" => replica[d].body \in approved[d]

\* A write of an unapproved row, or of an approved text, keeps it so.
LEMMA WriteApproved ==
  ASSUME TypeOK, RowsApproved, NEW d \in Drafts, NEW row \in Row, Write(d, row),
         \A c \in Drafts : approved[c] \subseteq approved'[c],
         row.status = "approved" => row.body \in approved'[d]
  PROVE  RowsApproved'
  BY DEF TypeOK, RowsApproved, Write

\* No step takes an approved text out of the approved ones.
LEMMA ApprovedGrows ==
  ASSUME TypeOK, [Next]_vars, NEW d \in Drafts
  PROVE  approved[d] \subseteq approved'[d]
<1>1. ASSUME NEW r \in Requests, PutDecision(r) PROVE approved[d] \subseteq approved'[d]
  BY <1>1 DEF PutDecision, TypeOK
<1>2. CASE UNCHANGED approved
  BY <1>2
<1>3. ASSUME NEW s \in Senders, SendStep(s) \/ FailSend(s) PROVE UNCHANGED approved
  BY <1>3 DEF SendStep, FailSend, Begin, Skip, Load, Check, Mark, Send, Record, SetDraftSent,
              PublishSent, reviewVars
<1>4. ASSUME Elsewhere \/ UNCHANGED vars PROVE UNCHANGED approved
  BY <1>4 DEF Elsewhere, Draft, Replicate, Redeliver, Suppress, vars, reviewVars
<1>5. ASSUME NEW r \in Requests,
             Read(r) \/ PutEdit(r) \/ PublishDecision(r) \/ FailRequest(r)
      PROVE  UNCHANGED approved
  BY <1>5 DEF Read, PutEdit, PublishDecision, FailRequest
<1> QED BY <1>1, <1>2, <1>3, <1>4, <1>5, NextByActor

\* Rows that say approved hold an approved text after every step: drafts and
\* edits are not approved, and a decision approves the very copy it puts.
LEMMA RowsApprovedStep ==
  TypeOK /\ RowsApproved /\ [Next]_vars => RowsApproved'
<1> SUFFICES ASSUME TypeOK, RowsApproved, [Next]_vars PROVE RowsApproved'
  OBVIOUS
<1>0. \A d \in Drafts : approved[d] \subseteq approved'[d]
  BY ApprovedGrows
<1>1. CASE UNCHANGED <<rows, replica>>
  BY <1>0, <1>1 DEF RowsApproved
<1>2. ASSUME NEW d \in Drafts, Draft(d) PROVE RowsApproved'
  <2>1. [status |-> "draft", body |-> 0] \in Row
    BY OutreachAssumption DEF OutreachAssumption, Row, Statuses
  <2> QED BY <1>0, <1>2, <2>1, WriteApproved DEF Draft
<1>3. ASSUME NEW d \in Drafts, Replicate(d) PROVE RowsApproved'
  BY <1>3 DEF Replicate, RowsApproved, TypeOK
<1>4. ASSUME NEW r \in Requests, PutEdit(r) PROVE RowsApproved'
  <2>1. req[r].draft \in Drafts
    BY <1>4, RequestTyped DEF PutEdit
  <2>2. [status |-> "draft", body |-> nextBody + 1] \in Row
    BY <1>4, OutreachAssumption DEF OutreachAssumption, PutEdit, TypeOK, Row, Statuses
  <2> QED BY <1>0, <1>4, <2>1, <2>2, WriteApproved DEF PutEdit
<1>5. ASSUME NEW r \in Requests, PutDecision(r) PROVE RowsApproved'
  <2>1. req[r].draft \in Drafts /\ req[r].body \in 0..MaxBody
    BY <1>5, RequestTyped DEF PutDecision
  <2>2. /\ [status |-> "approved", body |-> req[r].body] \in Row
        /\ [status |-> "rejected", body |-> req[r].body] \in Row
    BY <2>1 DEF Row, Statuses
  <2>3. CASE /\ Write(req[r].draft, [status |-> "approved", body |-> req[r].body])
             /\ approved' = [approved EXCEPT ![req[r].draft] = @ \cup {req[r].body}]
    <3>1. req[r].body \in approved'[req[r].draft]
      BY <2>1, <2>3 DEF TypeOK
    <3> QED BY <1>0, <2>1, <2>2, <2>3, <3>1, WriteApproved
  <2>4. CASE Write(req[r].draft, [status |-> "rejected", body |-> req[r].body])
    BY <1>0, <2>1, <2>2, <2>4, WriteApproved
  <2> QED BY <1>5, <2>3, <2>4 DEF PutDecision
<1>6. ASSUME NEW s \in Senders, SetDraftSent(s) PROVE RowsApproved'
  <2>1. snd[s].event.draft \in Drafts
    BY <1>6, SendTyped DEF SetDraftSent, Event
  <2>2. rows[snd[s].event.draft] \in Row
    BY <2>1 DEF TypeOK
  <2>3. /\ [rows[snd[s].event.draft] EXCEPT !.status = "sent"] \in Row
        /\ [rows[snd[s].event.draft] EXCEPT !.status = "sent"].status # "approved"
    BY <2>2 DEF Row, Statuses
  <2> QED BY <1>0, <1>6, <2>1, <2>3, WriteApproved DEF SetDraftSent
<1>7. ASSUME NEW s \in Senders, SendStep(s) \/ FailSend(s), ~SetDraftSent(s)
      PROVE  UNCHANGED <<rows, replica>>
  BY <1>7 DEF SendStep, FailSend, Begin, Skip, Load, Check, Mark, Send, Record, PublishSent,
              reviewVars
<1>8. ASSUME NEW r \in Requests, Read(r) \/ PublishDecision(r) \/ FailRequest(r)
      PROVE  UNCHANGED <<rows, replica>>
  BY <1>8 DEF Read, PublishDecision, FailRequest
<1>9. ASSUME Elsewhere PROVE RowsApproved'
  <2>1. ASSUME (\E e \in Event : Redeliver(e)) \/ (\E a \in Addresses : Suppress(a))
        PROVE  UNCHANGED <<rows, replica>>
    BY <2>1 DEF Redeliver, Suppress, reviewVars
  <2> QED BY <1>1, <1>2, <1>3, <1>9, <2>1 DEF Elsewhere
<1> QED BY <1>1, <1>4, <1>5, <1>6, <1>7, <1>8, <1>9, NextByActor DEF vars, reviewVars

\* What a sender that passed its load holds was approved.
TextsApproved ==
  \A s \in Senders :
    snd[s].pc \in {"check", "mark", "send"} =>
      snd[s].body \in approved[snd[s].event.draft]

\* Every step keeps it so: a load takes the text of an approved row.
LEMMA TextsApprovedStep == SendInv /\ [Next]_vars => TextsApproved'
<1> SUFFICES ASSUME SendInv, [Next]_vars PROVE TextsApproved'
  OBVIOUS
<1>0. TypeOK /\ RowsApproved /\ TextsApproved
  BY DEF SendInv, ApprovedTexts, RowsApproved, TextsApproved
<1>a. \A d \in Drafts : approved[d] \subseteq approved'[d]
  BY <1>0, ApprovedGrows
<1>b. \A t \in Senders : snd[t].pc \in {"check", "mark", "send"} =>
        snd[t].event.draft \in Drafts
  BY <1>0, SendTyped DEF Event
<1>1. CASE UNCHANGED sendVars
  BY <1>0, <1>a, <1>b, <1>1 DEF sendVars, TextsApproved
<1>2. ASSUME NEW s \in Senders, SendStep(s) \/ FailSend(s) PROVE TextsApproved'
  <2>1. snd'[s].pc \in {"check", "mark", "send"} =>
          snd'[s].body \in approved'[snd'[s].event.draft]
    <3>1. ASSUME NEW e \in Event, Begin(s, e) \/ Skip(s, e)
          PROVE  snd'[s].pc \notin {"check", "mark", "send"}
      BY <1>0, <3>1 DEF Begin, Skip, sendVars, TypeOK, NoSend
    <3>2. CASE Load(s)
      <4>1. snd[s] \in [pc : SendSteps, event : Event, body : 0..MaxBody]
        BY <1>0, <3>2, SendTyped DEF Load
      <4>2. PICK row \in Reads(snd[s].event.draft) :
              IF row.status = "approved"
              THEN snd' = [snd EXCEPT ![s].pc = "check", ![s].body = row.body]
              ELSE Done(s)
        BY <3>2 DEF Load
      <4>3. snd[s].event.draft \in Drafts
        BY <4>1 DEF Event
      <4>4. CASE row.status = "approved"
        <5>1. row.body \in approved[snd[s].event.draft]
          BY <1>0, <4>3, <4>4 DEF RowsApproved, Reads
        <5>2. snd'[s].body = row.body /\ snd'[s].event = snd[s].event
          BY <1>0, <4>1, <4>2, <4>4 DEF TypeOK
        <5> QED BY <1>a, <4>3, <5>1, <5>2
      <4>5. CASE row.status # "approved"
        BY <1>0, <4>2, <4>5 DEF Done, TypeOK, NoSend
      <4> QED BY <4>4, <4>5
    <3>3. CASE Check(s) \/ Mark(s)
      <4>1. snd[s] \in [pc : SendSteps, event : Event, body : 0..MaxBody]
        BY <1>0, <3>3, SendTyped DEF Check, Mark
      <4>2. snd[s].body \in approved[snd[s].event.draft] /\ snd[s].event.draft \in Drafts
        BY <1>0, <1>b, <3>3 DEF TextsApproved, Check, Mark
      <4>3. \/ snd'[s].pc = "idle"
            \/ snd'[s].body = snd[s].body /\ snd'[s].event = snd[s].event
        BY <1>0, <3>3, <4>1 DEF Check, Mark, Done, Goto, TypeOK, NoSend
      <4> QED BY <1>a, <4>2, <4>3
    <3>4. CASE Send(s) \/ Record(s) \/ SetDraftSent(s)
      <4>1. snd[s] \in [pc : SendSteps, event : Event, body : 0..MaxBody]
        BY <1>0, <3>4, SendTyped DEF Send, Record, Records, SetDraftSent
      <4>2. Record(s) => NextRecord[snd[s].pc] \notin {"check", "mark", "send"}
        BY DEF Record, Records, NextRecord
      <4> QED BY <1>0, <3>4, <4>1, <4>2 DEF Send, Record, SetDraftSent, Goto, TypeOK
    <3>5. CASE PublishSent(s) \/ FailSend(s)
      BY <1>0, <3>5 DEF PublishSent, FailSend, Done, TypeOK, NoSend
    <3> QED BY <1>2, <3>1, <3>2, <3>3, <3>4, <3>5 DEF SendStep
  <2> QED BY <1>0, <1>a, <1>b, <1>2, <2>1, OtherSendersStay DEF TextsApproved
<1> QED BY <1>1, <1>2, NextByActor, OthersLeaveSends

\* A mail carries the text its sender holds.
LEMMA SentWasApprovedStep == SendInv /\ [Next]_vars => SentWasApproved'
<1> SUFFICES ASSUME SendInv, [Next]_vars PROVE SentWasApproved'
  OBVIOUS
<1>0. TypeOK /\ TextsApproved /\ SentWasApproved
  BY DEF SendInv, ApprovedTexts, TextsApproved
<1>a. \A d \in Drafts : approved[d] \subseteq approved'[d]
  BY <1>0, ApprovedGrows
<1>1. CASE UNCHANGED mailed
  BY <1>0, <1>a, <1>1 DEF SentWasApproved, TypeOK
<1>2. ASSUME NEW s \in Senders, Send(s) PROVE SentWasApproved'
  <2>1. snd[s].event.draft \in Drafts
    BY <1>0, <1>2, SendTyped DEF Send, Event
  <2>2. snd[s].body \in approved[snd[s].event.draft]
    BY <1>0, <1>2 DEF Send, TextsApproved
  <2> QED BY <1>0, <1>a, <1>2, <2>1, <2>2 DEF Send, SentWasApproved, TypeOK
<1>3. ASSUME NEW s \in Senders, SendStep(s) \/ FailSend(s), ~Send(s) PROVE UNCHANGED mailed
  <2>1. CASE Mark(s)
    BY <2>1 DEF Mark
  <2> QED BY <1>3, <2>1, QuietSender
<1> QED BY <1>1, <1>2, <1>3, NextByActor, OthersLeaveSends DEF sendVars

\* The invariant holds at the start.
LEMMA InitSendInv == Init => SendInv
<1> SUFFICES ASSUME Init PROVE SendInv
  OBVIOUS
<1>1. TypeOK
  BY InitTyped
<1>2. SenderHasJourney /\ MarkerHolder /\ AtMostOneSend
  BY DEF Init, SenderHasJourney, MarkerHolder, AtMostOneSend, NoSend
<1>3. ApprovedTexts /\ SentWasApproved
  BY DEF Init, ApprovedTexts, SentWasApproved, Absent, NoSend
<1> QED BY <1>1, <1>2, <1>3 DEF SendInv

\* Every step keeps the invariant.
LEMMA StepSendInv == SendInv /\ [Next]_vars => SendInv'
<1> SUFFICES ASSUME SendInv, [Next]_vars PROVE SendInv'
  OBVIOUS
<1>1. RowsApproved'
  BY RowsApprovedStep DEF SendInv, ApprovedTexts, RowsApproved
<1>2. ApprovedTexts'
  BY <1>1, TextsApprovedStep DEF ApprovedTexts, RowsApproved, TextsApproved
<1> QED BY <1>2, StepTyped, SenderHasJourneyStep, MarkerHolderStep, SentWasApprovedStep
        DEF SendInv

-----------------------------------------------------------------------------
\* How far a sender is says which records of its draft exist, and a row says
\* "sent" only when all do.
Traceable ==
  /\ \A s \in Senders :
       LET kept == records[snd[s].event.draft] IN
       /\ snd[s].pc = "msgindex" => "event" \in kept
       /\ snd[s].pc = "replyref" => {"event", "msgindex"} \subseteq kept
       /\ snd[s].pc = "flip" => kept = Records
  /\ SentIsAttributable

LEMMA InitTraceable == Init => Traceable
  BY DEF Init, Traceable, SentIsAttributable, Absent, NoSend

\* Only the sender makes a row "sent".
LEMMA ElseSent ==
  ASSUME TypeOK, [Next]_vars, ~\E s \in Senders : SetDraftSent(s)
  PROVE  \A d \in Drafts : rows'[d].status = "sent" => rows[d].status = "sent"
<1>1. ASSUME NEW d \in Drafts, NEW row, row.status # "sent", Write(d, row)
      PROVE  \A c \in Drafts : rows'[c].status = "sent" => rows[c].status = "sent"
  BY <1>1 DEF Write, TypeOK
<1>2. ASSUME NEW d \in Drafts, Draft(d)
      PROVE  \A c \in Drafts : rows'[c].status = "sent" => rows[c].status = "sent"
  BY <1>1, <1>2 DEF Draft
<1>3. ASSUME NEW r \in Requests, PutEdit(r) \/ PutDecision(r)
      PROVE  \A c \in Drafts : rows'[c].status = "sent" => rows[c].status = "sent"
  <2>1. req[r].draft \in Drafts
    BY <1>3, RequestTyped DEF PutEdit, PutDecision
  <2> QED BY <1>1, <1>3, <2>1 DEF PutEdit, PutDecision
<1>4. CASE UNCHANGED rows
  BY <1>4
<1>5. ASSUME NEW s \in Senders, SendStep(s) \/ FailSend(s), ~SetDraftSent(s)
      PROVE  UNCHANGED rows
  BY <1>5 DEF SendStep, Begin, Skip, Load, Check, Mark, Send, Record, PublishSent, FailSend, reviewVars
<1>6. UNCHANGED vars => UNCHANGED rows
  BY DEF vars, reviewVars
<1> QED BY <1>2, <1>3, <1>4, <1>5, <1>6
     DEF Next, Replicate, Read, PublishDecision, FailRequest, Redeliver, Suppress, reviewVars

LEMMA StepTraceable == SendInv /\ Traceable /\ [Next]_vars => Traceable'
<1> SUFFICES ASSUME SendInv, Traceable, [Next]_vars PROVE Traceable'
  OBVIOUS
<1>0. TypeOK
  BY DEF SendInv
<1>a. NoSend.pc = "idle"
  BY DEF NoSend
<1>1. ASSUME NEW s \in Senders, SendStep(s) \/ FailSend(s)
      PROVE  Traceable'
  <2> DEFINE d == snd[s].event.draft
  <2>0. \A t \in Senders : t # s => snd'[t] = snd[t]
    BY <1>0, <1>1, OtherSendersStay
  <2>1. CASE Record(s)
    <3>1. snd[s] \in [pc : SendSteps, event : Event, body : 0..MaxBody]
      BY <1>0, <2>1, SendTyped DEF Record, Records
    <3>2. d \in Drafts
      BY <3>1 DEF Event
    <3>3. /\ snd'[s].event = snd[s].event /\ snd'[s].pc = NextRecord[snd[s].pc]
          /\ snd[s].pc \in Records
      BY <1>0, <2>1, <3>1 DEF Record, Goto, TypeOK
    <3>4. /\ records'[d] = records[d] \cup {snd[s].pc}
          /\ \A c \in Drafts : c # d => records'[c] = records[c]
          /\ records \in [Drafts -> SUBSET Records]
      BY <1>0, <2>1, <3>2 DEF Record, TypeOK
    <3>5. /\ \A c \in Drafts : records[c] \subseteq records'[c] /\ records'[c] \subseteq Records
          /\ UNCHANGED rows
      BY <2>1, <3>3, <3>4 DEF Record, reviewVars
    <3>6. /\ snd'[s].pc = "msgindex" => "event" \in records'[d]
          /\ snd'[s].pc = "replyref" => {"event", "msgindex"} \subseteq records'[d]
          /\ snd'[s].pc = "flip" => records'[d] = Records
      <4>1. CASE snd[s].pc = "event"
        BY <3>3, <3>4, <4>1 DEF NextRecord
      <4>2. CASE snd[s].pc = "msgindex"
        <5>1. "event" \in records[d]
          BY <4>2 DEF Traceable
        <5> QED BY <3>3, <3>4, <4>2, <5>1 DEF NextRecord
      <4>3. CASE snd[s].pc = "replyref"
        <5>1. "event" \in records[d] /\ "msgindex" \in records[d]
          BY <4>3 DEF Traceable
        <5>2. Records \subseteq records'[d]
          BY <3>4, <4>3, <5>1 DEF Records
        <5>3. records'[d] = Records
          BY <3>2, <3>5, <5>2
        <5> QED BY <3>3, <4>3, <5>3 DEF NextRecord
      <4> QED BY <3>3, <4>1, <4>2, <4>3 DEF Records
    <3>7. \A t \in Senders : snd[t].pc # "idle" => snd[t].event.draft \in Drafts
      BY <1>0, SendTyped DEF Event
    <3>8. SentIsAttributable'
      <4>1. ASSUME NEW c \in Drafts, rows'[c].status = "sent" PROVE records'[c] = Records
        <5>1. records[c] = Records
          BY <3>5, <4>1 DEF Traceable, SentIsAttributable
        <5>2. Records \subseteq records'[c] /\ records'[c] \subseteq Records
          BY <3>5, <5>1
        <5> QED BY <5>2
      <4> QED BY <4>1 DEF SentIsAttributable
    <3>9. ASSUME NEW t \in Senders
          PROVE  LET kept == records'[snd'[t].event.draft] IN
                 /\ snd'[t].pc = "msgindex" => "event" \in kept
                 /\ snd'[t].pc = "replyref" => {"event", "msgindex"} \subseteq kept
                 /\ snd'[t].pc = "flip" => kept = Records
      <4>1. CASE t = s
        BY <3>3, <3>6, <4>1
      <4>2. CASE t # s /\ snd[t].pc # "idle"
        <5>1. snd'[t] = snd[t] /\ snd[t].event.draft \in Drafts
          BY <2>0, <3>7, <4>2
        <5> DEFINE c == snd[t].event.draft
        <5>2. /\ records[c] \subseteq records'[c] /\ records'[c] \subseteq Records
              /\ snd'[t].pc = snd[t].pc /\ snd'[t].event.draft = c
          BY <3>5, <5>1
        <5>3. /\ snd[t].pc = "msgindex" => "event" \in records[c]
              /\ snd[t].pc = "replyref" => {"event", "msgindex"} \subseteq records[c]
              /\ snd[t].pc = "flip" => records[c] = Records
          BY DEF Traceable
        <5> HIDE DEF c
        <5>4. /\ snd[t].pc = "msgindex" => "event" \in records'[c]
              /\ snd[t].pc = "replyref" => {"event", "msgindex"} \subseteq records'[c]
              /\ snd[t].pc = "flip" => records'[c] = Records
          BY <5>2, <5>3
        <5> QED BY <5>2, <5>4
      <4>3. CASE t # s /\ snd[t].pc = "idle"
        BY <2>0, <4>3
      <4> QED BY <4>1, <4>2, <4>3
    <3> QED BY <3>8, <3>9 DEF Traceable
  <2>2. CASE SetDraftSent(s)
    <3>1. snd[s] \in [pc : SendSteps, event : Event, body : 0..MaxBody]
      BY <1>0, <2>2, SendTyped DEF SetDraftSent
    <3>2. d \in Drafts /\ records[d] = Records
      BY <2>2, <3>1 DEF Event, SetDraftSent, Traceable
    <3>3. snd'[s].pc = "publish" /\ UNCHANGED records
      BY <1>0, <2>2, <3>1 DEF SetDraftSent, Goto, TypeOK
    <3>4. \A c \in Drafts : c # d => rows'[c] = rows[c]
      BY <1>0, <2>2 DEF SetDraftSent, Write, TypeOK
    <3>5. SentIsAttributable'
      BY <3>2, <3>3, <3>4 DEF Traceable, SentIsAttributable
    <3> QED BY <2>0, <3>3, <3>5 DEF Traceable
  <2>3. CASE ~Record(s) /\ ~SetDraftSent(s)
    <3>1. UNCHANGED <<records, rows>>
      BY <1>1, <2>3 DEF SendStep, Begin, Skip, Load, Check, Mark, Send, PublishSent, FailSend,
                            reviewVars, sendVars
    <3>2. snd'[s].pc \notin {"msgindex", "replyref", "flip"}
      <4>1. ASSUME NEW e \in Event, Begin(s, e) \/ Skip(s, e)
            PROVE  snd'[s].pc \notin {"msgindex", "replyref", "flip"}
        BY <1>0, <1>a, <4>1 DEF Begin, Skip, sendVars, TypeOK, NoSend
      <4>2. CASE Load(s)
        <5>1. snd[s] \in [pc : SendSteps, event : Event, body : 0..MaxBody]
          BY <1>0, <4>2, SendTyped DEF Load
        <5> QED BY <1>0, <1>a, <4>2, <5>1 DEF Load, Done, TypeOK
      <4>3. CASE Check(s) \/ Mark(s) \/ Send(s)
        <5>1. snd[s] \in [pc : SendSteps, event : Event, body : 0..MaxBody]
          BY <1>0, <4>3, SendTyped DEF Check, Mark, Send
        <5> QED BY <1>0, <1>a, <4>3, <5>1 DEF Check, Mark, Send, Done, Goto, TypeOK
      <4>4. CASE PublishSent(s) \/ FailSend(s)
        BY <1>0, <1>a, <4>4 DEF PublishSent, FailSend, Done, TypeOK
      <4> QED BY <1>1, <2>3, <4>1, <4>2, <4>3, <4>4 DEF SendStep
    <3>3. SentIsAttributable'
      BY <3>1 DEF Traceable, SentIsAttributable
    <3> QED BY <2>0, <3>1, <3>2, <3>3 DEF Traceable
  <2> QED BY <2>1, <2>2, <2>3
<1>2. CASE UNCHANGED sendVars
  <2>1. ~\E s \in Senders : SetDraftSent(s)
    <3>1. ASSUME NEW s \in Senders, SetDraftSent(s) PROVE FALSE
      <4>1. snd[s] \in [pc : SendSteps, event : Event, body : 0..MaxBody]
        BY <1>0, <3>1, SendTyped DEF SetDraftSent
      <4> QED BY <1>0, <1>2, <3>1, <4>1 DEF SetDraftSent, Goto, TypeOK, sendVars, inboxVars
    <3> QED BY <3>1
  <2>2. UNCHANGED <<snd, records>>
    BY <1>2 DEF sendVars
  <2> QED BY <1>0, <2>1, <2>2, ElseSent DEF Traceable, SentIsAttributable
<1> QED BY <1>1, <1>2, NextByActor, OthersLeaveSends

-----------------------------------------------------------------------------
\* The send-once invariant holds throughout: a sender about to call SES holds
\* the permanent EMAIL_SENT# marker alone and carries an approved text.
THEOREM SendInvariance == Spec => []SendInv
  BY InitSendInv, StepSendInv, PTL DEF Spec

\* Every variable keeps its type.
THEOREM OutreachTypeCorrect == Spec => []TypeOK
<1>1. SendInv => TypeOK
  BY DEF SendInv
<1> QED BY <1>1, SendInvariance, PTL

\* sender.runOne never sends a (contact, website) pair two mails, however many
\* approvals, drafts, replays, failures and crashes there are, and even if
\* GetItem answers with a stale row.
THEOREM AtMostOneSendTheorem == Spec => []AtMostOneSend
<1>1. SendInv => AtMostOneSend
  BY DEF SendInv
<1> QED BY <1>1, SendInvariance, PTL

\* The sender mails only texts an operator approved as they stand, whatever
\* edits and decisions interleave on copies of the row.
THEOREM SentWasApprovedTheorem == Spec => []SentWasApproved
<1>1. SendInv => SentWasApproved
  BY DEF SendInv
<1> QED BY <1>1, SendInvariance, PTL

\* A row that says "sent" has all the records that bounces, complaints and
\* replies are looked up by, whatever fails between the send and the flip.
THEOREM SentIsAttributableTheorem == Spec => []SentIsAttributable
<1>1. Traceable => SentIsAttributable
  BY DEF Traceable
<1>2. Spec => []Traceable
  BY SendInvariance, InitTraceable, StepTraceable, PTL DEF Spec
<1> QED BY <1>1, <1>2, PTL
-----------------------------------------------------------------------------
(* The send path implements Mailbox.                                       *)

\* A chance depends on the markers, the mails and who is about to send.
LEMMA ChanceStays ==
  ASSUME UNCHANGED <<sentOnce, sends>>, NEW j,
         \A t \in Senders : (snd'[t].pc = "send" /\ Journey(t)' = j)
                            <=> (snd[t].pc = "send" /\ Journey(t) = j)
  PROVE  Chance(j)' = Chance(j)
BY DEF Chance

\* A step that leaves the abstract variables alone, or only approves.
LEMMA NoChance ==
  ASSUME UNCHANGED mailed, \A j \in Journeys : Chance(j)' = Chance(j),
         \/ UNCHANGED approved
         \/ \E d \in Drafts, b \in 0..MaxBody :
               approved' = [approved EXCEPT ![d] = @ \cup {b}]
  PROVE  [Promise!Next]_Promise!vars
<1>1. [j \in Journeys |-> Chance(j)]' = [j \in Journeys |-> Chance(j)]
  OBVIOUS
<1>2. CASE UNCHANGED approved
  BY <1>1, <1>2 DEF Promise!vars
<1>3. ASSUME NEW d \in Drafts, NEW b \in 0..MaxBody,
             approved' = [approved EXCEPT ![d] = @ \cup {b}]
      PROVE  [Promise!Next]_Promise!vars
  BY <1>1, <1>3 DEF Promise!Next, Promise!Approve
<1> QED BY <1>2, <1>3

\* What is approved is the draft of the request that decides.
LEMMA OnlyDecisionsApprove ==
  ASSUME TypeOK, [Next]_vars
  PROVE  \/ UNCHANGED approved
         \/ \E d \in Drafts, b \in 0..MaxBody :
               approved' = [approved EXCEPT ![d] = @ \cup {b}]
<1>1. ASSUME NEW r \in Requests, PutDecision(r)
      PROVE  \/ UNCHANGED approved
             \/ \E d \in Drafts, b \in 0..MaxBody :
                   approved' = [approved EXCEPT ![d] = @ \cup {b}]
  <2>1. req[r].draft \in Drafts /\ req[r].body \in 0..MaxBody
    BY <1>1, RequestTyped DEF PutDecision
  <2> QED BY <1>1, <2>1 DEF PutDecision
<1>2. ASSUME NEW s \in Senders, SendStep(s) \/ FailSend(s) PROVE UNCHANGED approved
  BY <1>2 DEF SendStep, Begin, Skip, Load, Check, Mark, Send, Record, SetDraftSent, PublishSent,
              FailSend, reviewVars
<1> QED BY <1>1, <1>2
     DEF Next, Draft, Replicate, Read, PutEdit, PublishDecision, FailRequest, Redeliver, Suppress,
         vars, reviewVars

LEMMA MailboxStep == SendInv /\ [Next]_vars => [Promise!Next]_Promise!vars
<1> SUFFICES ASSUME SendInv, [Next]_vars PROVE [Promise!Next]_Promise!vars
  OBVIOUS
<1>0. TypeOK /\ SenderHasJourney /\ MarkerHolder /\ AtMostOneSend /\ ApprovedTexts
  BY DEF SendInv
<1>a. NoSend.pc = "idle"
  BY DEF NoSend
<1>b. \/ UNCHANGED approved
      \/ \E d \in Drafts, b \in 0..MaxBody : approved' = [approved EXCEPT ![d] = @ \cup {b}]
  BY <1>0, OnlyDecisionsApprove
<1>1. CASE UNCHANGED sendVars
  <2>1. \A j \in Journeys : Chance(j)' = Chance(j)
    BY <1>1 DEF Chance, Journey, sendVars
  <2> QED BY <1>1, <1>b, <2>1, NoChance DEF sendVars
<1>2. ASSUME NEW s \in Senders, SendStep(s) \/ FailSend(s)
      PROVE  [Promise!Next]_Promise!vars
  <2>k. PICK k : k = Journey(s)
    OBVIOUS
  <2>0. \A t \in Senders : t # s => snd'[t] = snd[t] /\ Journey(t)' = Journey(t)
    BY <1>2, OtherSendersStay DEF Journey
  <2>1. CASE snd[s].pc # "send" /\ snd'[s].pc # "send" /\ UNCHANGED <<sentOnce, sends, mailed>>
    <3>1. \A j \in Journeys : Chance(j)' = Chance(j)
      BY <2>0, <2>1, ChanceStays
    <3> QED BY <1>b, <2>1, <3>1, NoChance
  <2>2. CASE Mark(s)
    <3>1. snd[s] \in [pc : SendSteps, event : Event, body : 0..MaxBody]
      BY <1>0, <2>2, SendTyped DEF Mark
    <3>2. CASE k \in sentOnce
      <4>1. UNCHANGED <<sentOnce, sends, mailed>> /\ snd'[s].pc # "send" /\ snd[s].pc # "send"
        BY <1>0, <1>a, <2>k, <2>2, <3>2 DEF Mark, Done, TypeOK
      <4> QED BY <2>1, <4>1
    <3>3. CASE k \notin sentOnce
      <4>1. /\ sentOnce' = sentOnce \cup {k} /\ UNCHANGED <<sends, mailed, approved>>
            /\ snd'[s].pc = "send" /\ snd[s].pc = "mark" /\ Journey(s)' = k
        BY <1>0, <2>k, <2>2, <3>1, <3>3 DEF Mark, Goto, TypeOK, Journey, reviewVars
      <4>2. k \in Journeys
        BY <1>0, <1>a, <2>k, <4>1 DEF SenderHasJourney
      <4>3. Chance(k) = "open" /\ Chance(k)' = "taken"
        BY <2>k, <3>3, <4>1 DEF Chance
      <4>4. \A j \in Journeys : j # k => Chance(j)' = Chance(j)
        BY <2>0, <2>k, <4>1 DEF Chance
      <4>5. Promise!Take(k)
        BY <4>1, <4>2, <4>3, <4>4 DEF Promise!Take
      <4> QED BY <4>2, <4>5 DEF Promise!Next
    <3> QED BY <3>2, <3>3
  <2>3. ASSUME snd[s].pc = "send"
        PROVE  /\ k \in Journeys /\ Chance(k) = "taken" /\ k \in sentOnce /\ sends[k] = 0
               /\ \A t \in Senders : t # s /\ snd[t].pc = "send" => Journey(t) # k
    <3>1. k \in Journeys
      BY <1>0, <1>a, <2>k, <2>3 DEF SenderHasJourney
    <3> QED BY <1>0, <2>k, <2>3, <3>1 DEF MarkerHolder, Chance
  <2>4. CASE Send(s)
    <3>b. PICK d, b : d = snd[s].event.draft /\ b = snd[s].body
      OBVIOUS
    <3>1. snd[s] \in [pc : SendSteps, event : Event, body : 0..MaxBody]
      BY <1>0, <2>4, SendTyped DEF Send
    <3>2. d \in Drafts /\ b \in 0..MaxBody /\ JourneyOf[d] = k
      BY <2>k, <3>b, <3>1 DEF Event, Journey
    <3>3. b \in approved[d]
      BY <1>0, <2>4, <3>b DEF Send, ApprovedTexts
    <3>4. /\ k \in Journeys /\ Chance(k) = "taken" /\ k \in sentOnce /\ sends[k] = 0
          /\ \A t \in Senders : t # s /\ snd[t].pc = "send" => Journey(t) # k
      BY <2>3, <2>4 DEF Send
    <3>5. /\ sends' = [sends EXCEPT ![k] = @ + 1] /\ UNCHANGED <<sentOnce, approved>>
          /\ snd'[s].pc = "event" /\ snd[s].pc = "send"
          /\ mailed' = mailed \cup {[draft |-> d, body |-> b]}
      BY <1>0, <2>k, <2>4, <3>b, <3>1 DEF Send, Goto, TypeOK, reviewVars
    <3>6. sends'[k] = 1 /\ \A j \in Journeys : j # k => sends'[j] = sends[j]
      BY <1>0, <3>4, <3>5 DEF TypeOK
    <3>7. Chance(k)' = "mailed"
      BY <2>0, <3>4, <3>5, <3>6 DEF Chance
    <3>8. \A j \in Journeys : j # k => Chance(j)' = Chance(j)
      BY <2>0, <2>k, <3>5, <3>6 DEF Chance
    <3>9. Promise!Mail(d, b)
      BY <3>2, <3>3, <3>4, <3>5, <3>7, <3>8 DEF Promise!Mail
    <3> QED BY <3>2, <3>9 DEF Promise!Next
  <2>5. CASE FailSend(s) /\ snd[s].pc = "send"
    <3>1. /\ UNCHANGED <<sentOnce, sends, mailed, approved>> /\ snd'[s].pc = "idle"
      BY <1>0, <1>a, <2>5 DEF FailSend, Done, TypeOK, reviewVars
    <3>2. /\ k \in Journeys /\ Chance(k) = "taken" /\ k \in sentOnce /\ sends[k] = 0
          /\ \A t \in Senders : t # s /\ snd[t].pc = "send" => Journey(t) # k
      BY <2>3, <2>5
    <3>3. Chance(k)' = "lost"
      BY <2>0, <3>1, <3>2 DEF Chance
    <3>4. \A j \in Journeys : j # k => Chance(j)' = Chance(j)
      BY <2>0, <2>k, <2>5, <3>1 DEF Chance
    <3>5. Promise!Lose(k)
      BY <3>1, <3>2, <3>3, <3>4 DEF Promise!Lose
    <3> QED BY <3>2, <3>5 DEF Promise!Next
  <2>6. CASE ~Mark(s) /\ ~Send(s) /\ ~(FailSend(s) /\ snd[s].pc = "send")
    <3>1. UNCHANGED <<sentOnce, sends, mailed>> /\ snd'[s].pc # "send"
      BY <1>2, <2>6, QuietSender
    <3>2. snd[s].pc # "send"
      BY <1>2, <1>a, <2>6
         DEF SendStep, Begin, Skip, Load, Check, Record, Records, SetDraftSent, PublishSent
    <3> QED BY <2>1, <3>1, <3>2
  <2> QED BY <2>2, <2>4, <2>5, <2>6
<1> QED BY <1>1, <1>2, NextByActor, OthersLeaveSends

\* No marker yet: every chance is open.
LEMMA MailboxInit == Init => Promise!Init
BY DEF Init, Promise!Init, Chance

\* The sender, with its markers, replays, stale reads and crashes, implements
\* one chance of an approved mail per (contact, website) pair.
THEOREM RefinesMailbox == Spec => ImplementsMailbox
  BY MailboxInit, MailboxStep, SendInvariance, PTL DEF Spec, ImplementsMailbox, Promise!Spec

-----------------------------------------------------------------------------
(***************************************************************************)
(* Replies: what a row says was done is done, and the safety of sending    *)
(* survives the handlers that write the suppression list beside it.        *)
(***************************************************************************)

MailRow == [draft : Drafts \cup {None}, from : Addresses \cup {None}, text : Texts]
TriRow == [pc : {"none", "queued", "classify", "suppress", "project", "status", "row", "end"},
           label : Categories, ref : BOOLEAN]
OpRow == [mail : Mails, category : Categories \ {"unknown"}]
NoteRow == [pc : {"none", "suppress", "project", "event", "end"}, draft : Drafts \cup {None}]

\* Nobody is mailed who has no address.
MailedReachable ==
  /\ \A m \in mailed : AddressOf[JourneyOf[m.draft]] \in Addresses
  /\ \A s \in Senders : snd[s].pc \in {"mark", "send"} => AddressOf[Journey(s)] \in Addresses

\* A notification is about a mail that was sent.
NotesReachable ==
  /\ \A n \in Notices : note[n].pc # "none" => Recipient(n) \in Addresses
  /\ \A n \in Notices : note[n].pc = "project" => Recipient(n) \in suppressed

\* How far a triage is says what it has done.
Stages ==
  /\ \A k \in Mails : tri[k].pc \in {"suppress", "project"} => mail[k].from # None
  /\ \A k \in Mails : tri[k].pc = "project" => mail[k].from \in suppressed
  /\ \A k \in Mails :
       (tri[k].pc \in {"status", "row"} /\ tri[k].label = "unsubscribe" /\ mail[k].from # None)
         => mail[k].from \in projected
  /\ \A k \in Mails : triage[k] # None => tri[k].pc = "end"

RepliesInv ==
  /\ SendInv
  /\ RepliesTypeOK
  /\ MailedReachable
  /\ NotesReachable
  /\ Stages
  /\ ActedBeforeRecorded

-----------------------------------------------------------------------------
LEMMA Rows ==
  ASSUME RepliesTypeOK
  PROVE  /\ mail \in [Mails -> MailRow]
         /\ tri \in [Mails -> TriRow]
         /\ op \in [Operators -> OpRow \cup {None}]
         /\ note \in [Notices -> NoteRow]
BY DEF RepliesTypeOK, MailRow, TriRow, OpRow, NoteRow

\* The types of Replies, from those of its rows.
LEMMA FromRows ==
  ASSUME mail \in [Mails -> MailRow],
         det \in [Mails -> {"none", "received", "lookup", "mark", "event", "end"}],
         tri \in [Mails -> TriRow],
         triage \in [Mails -> TriageRow \cup {None}],
         op \in [Operators -> OpRow \cup {None}],
         note \in [Notices -> NoteRow],
         projected \subseteq Addresses,
         status \in [Businesses -> {"open", "responded", "rejected_after_review", "converted"}],
         events \subseteq Mails \cup Notices,
         \A k \in Mails : tri[k].pc # "none" => det[k] \notin {"none", "received"}
  PROVE  RepliesTypeOK
BY DEF RepliesTypeOK, MailRow, TriRow, OpRow, NoteRow

\* A status write keeps the statuses.
LEMMA StatusTyped ==
  ASSUME RepliesTypeOK, NEW b, NEW s \in {"responded", "rejected_after_review"}, SetStatus(b, s)
  PROVE  status' \in [Businesses -> {"open", "responded", "rejected_after_review", "converted"}]
<1> DEFINE T == {"open", "responded", "rejected_after_review", "converted"}
<1>1. status \in [Businesses -> T]
  BY DEF RepliesTypeOK
<1>2. CASE b \in Businesses
  BY <1>1, <1>2 DEF SetStatus
<1>3. CASE b \notin Businesses
  BY <1>1, <1>3 DEF SetStatus
<1> QED BY <1>2, <1>3

LEMMA StatusOfTyped ==
  ASSUME NEW c
  PROVE  StatusOf(c) \in {"responded", "rejected_after_review"}
BY DEF StatusOf

-----------------------------------------------------------------------------
(* Sending, beside the handlers of what comes back                         *)

\* A handler of replies leaves a sender's invariant as it is: it only adds
\* addresses to the suppression list and counts its failures.
LEMMA BesideSends ==
  ASSUME RepliesInv, outreachKept' = outreachKept,
         suppressed' \subseteq Addresses, faults' \in 0..MaxFaults
  PROVE  SendInv' /\ MailedReachable'
<1>0. SendInv /\ TypeOK /\ MailedReachable
  BY DEF RepliesInv, SendInv
<1>1. /\ UNCHANGED <<rows, replica, nextBody, req, approvals, approved>>
      /\ UNCHANGED <<inbox, skipped>>
      /\ UNCHANGED <<snd, sentOnce, records, mailed, sends>>
  BY DEF outreachKept, reviewVars, sendVars, inboxVars
<1>2. TypeOK'
  BY <1>0, <1>1 DEF TypeOK
<1>3. SenderHasJourney' /\ MarkerHolder' /\ AtMostOneSend' /\ ApprovedTexts' /\ SentWasApproved'
  BY <1>0, <1>1
     DEF SendInv, SenderHasJourney, MarkerHolder, AtMostOneSend, ApprovedTexts, SentWasApproved,
         Journey
<1>4. MailedReachable'
  BY <1>0, <1>1 DEF MailedReachable, Journey
<1> QED BY <1>2, <1>3, <1>4 DEF SendInv

\* A sender passes its check only with an address.
LEMMA ReachableStep ==
  ASSUME SendInv, MailedReachable, Next
  PROVE  MailedReachable'
<1> USE OutreachAssumption DEF OutreachAssumption
<1>0. TypeOK /\ SenderHasJourney
  BY DEF SendInv
<1>a. \A s \in Senders : snd[s].pc # "idle" => snd[s] \in [pc : SendSteps, event : Event, body : 0..MaxBody]
  BY <1>0, SendTyped
<1>1. ASSUME NEW s \in Senders, SendStep(s) \/ FailSend(s)
      PROVE  MailedReachable'
  <2>0. \A t \in Senders : t # s => snd'[t] = snd[t]
    BY <1>0, <1>1, OtherSendersStay
  <2>1. ASSUME NEW e \in Event, Begin(s, e) \/ Skip(s, e) PROVE MailedReachable'
    BY <1>0, <2>0, <2>1 DEF Begin, Skip, sendVars, MailedReachable, Journey, TypeOK, NoSend
  <2>2. CASE Load(s)
    BY <1>0, <2>0, <2>2 DEF Load, Done, MailedReachable, Journey, TypeOK, NoSend
  <2>3. CASE Check(s)
    <3>1. Journey(s) \in Journeys
      BY <1>0, <2>3 DEF SenderHasJourney, Check, NoSend
    <3>2. AddressOf[Journey(s)] \in Addresses \cup {None}
      BY <3>1
    <3>3. CASE Done(s) /\ mailed' = mailed
      BY <1>0, <2>0, <3>3 DEF Done, MailedReachable, Journey, TypeOK, NoSend
    <3>4. CASE AddressOf[Journey(s)] \in Addresses /\ Goto(s, "mark") /\ mailed' = mailed
      BY <1>0, <2>0, <3>4 DEF Goto, MailedReachable, Journey, TypeOK
    <3> QED BY <2>3, <3>2, <3>3, <3>4 DEF Check
  <2>4. CASE Mark(s)
    BY <1>0, <2>0, <2>4 DEF Mark, Goto, Done, MailedReachable, Journey, TypeOK, NoSend
  <2>5. CASE Send(s)
    <3>1. AddressOf[JourneyOf[snd[s].event.draft]] \in Addresses
      BY <2>5 DEF Send, MailedReachable, Journey
    <3>2. \A m \in mailed' : AddressOf[JourneyOf[m.draft]] \in Addresses
      BY <2>5, <3>1 DEF Send, MailedReachable
    <3>3. snd'[s].pc = "event"
      BY <1>0, <2>5 DEF Send, Goto, TypeOK
    <3> QED BY <2>0, <3>2, <3>3 DEF MailedReachable, Journey
  <2>6. CASE Record(s)
    <3>1. snd'[s].pc \in {"msgindex", "replyref", "flip"}
      BY <1>0, <2>6 DEF Record, Goto, TypeOK, NextRecord, Records
    <3> QED BY <2>0, <2>6, <3>1 DEF Record, MailedReachable, Journey
  <2>7. CASE SetDraftSent(s)
    <3>1. snd'[s].pc = "publish"
      BY <1>0, <2>7 DEF SetDraftSent, Goto, TypeOK
    <3> QED BY <2>0, <2>7, <3>1 DEF SetDraftSent, MailedReachable, Journey
  <2>8. CASE PublishSent(s)
    BY <1>0, <2>0, <2>8 DEF PublishSent, Done, MailedReachable, Journey, TypeOK, NoSend
  <2>9. CASE FailSend(s)
    BY <1>0, <2>0, <2>9 DEF FailSend, Done, MailedReachable, Journey, TypeOK, NoSend
  <2> QED BY <1>1, <2>1, <2>2, <2>3, <2>4, <2>5, <2>6, <2>7, <2>8, <2>9 DEF SendStep
<1>2. ASSUME UNCHANGED <<snd, mailed>> PROVE MailedReachable'
  BY <1>2 DEF MailedReachable, Journey
<1> QED BY <1>1, <1>2
     DEF Next, Draft, Replicate, Read, PutEdit, PutDecision, PublishDecision, FailRequest,
         Redeliver, Suppress, sendVars

-----------------------------------------------------------------------------
(* The steps of Replies                                                    *)

\* What Outreach does on its own says nothing of replies.
LEMMA OutreachTyped ==
  ASSUME RepliesInv, OutreachStep
  PROVE  RepliesInv'
<1>1. SendInv' /\ MailedReachable'
  BY StepSendInv, ReachableStep DEF RepliesInv, OutreachStep
<1>2. UNCHANGED <<mail, det, tri, triage, op, note, projected, status, events, suppressed>>
  BY DEF OutreachStep, replyVars
<1> QED BY <1>1, <1>2
     DEF RepliesInv, RepliesTypeOK, NotesReachable, Recipient, Stages, ActedBeforeRecorded

\* A handler of replies that suppresses nobody new.
LEMMA Quiet ==
  ASSUME RepliesInv, UNCHANGED vars \/ (UNCHANGED <<outreachKept, suppressed>> /\ Fault)
  PROVE  SendInv' /\ MailedReachable' /\ suppressed' = suppressed
<1>1. outreachKept' = outreachKept /\ suppressed' = suppressed
  BY DEF vars, outreachKept
<1>2. suppressed \subseteq Addresses /\ faults \in 0..MaxFaults
  BY DEF RepliesInv, SendInv, TypeOK
<1>3. faults' \in 0..MaxFaults
  BY <1>2, OutreachAssumption DEF vars, Fault, OutreachAssumption
<1> QED BY <1>1, <1>2, <1>3, BesideSends

\* reply-detector: a mail arrives, is announced and attributed.
LEMMA DetectStepKeeps ==
  ASSUME RepliesInv, NEW k \in Mails, Arrive(k) \/ DetectStep(k) \/ FailDetect(k)
  PROVE  RepliesInv'
<1>0. /\ RepliesTypeOK /\ NotesReachable /\ Stages /\ ActedBeforeRecorded
      /\ SendInv /\ TypeOK
  BY DEF RepliesInv, SendInv
<1>1. SendInv' /\ MailedReachable' /\ suppressed' = suppressed
  BY Quiet DEF Arrive, DetectStep, Announce, LookupRef, MarkResponded, PutReplied, FailDetect
<1>2. UNCHANGED <<triage, op, note, projected>>
  BY DEF Arrive, DetectStep, Announce, LookupRef, MarkResponded, PutReplied, FailDetect
<1>3. NotesReachable'
  BY <1>0, <1>1, <1>2 DEF NotesReachable, Recipient
<1>4. CASE Arrive(k)
  <2>1. PICK d \in {m.draft : m \in mailed} \cup {None}, a \in Addresses \cup {None}, t \in Texts :
          mail' = [mail EXCEPT ![k] = [draft |-> d, from |-> a, text |-> t]]
    BY <1>4 DEF Arrive
  <2>2. d \in Drafts \cup {None}
    BY <1>0 DEF TypeOK
  <2>3. mail' \in [Mails -> MailRow]
    BY <1>0, <2>1, <2>2, Rows DEF MailRow
  <2>4. tri[k].pc = "none" /\ triage[k] = None
    BY <1>0, <1>4 DEF Arrive, RepliesTypeOK, Stages
  <2>5. \A j \in Mails : j # k => mail'[j] = mail[j]
    BY <1>0, <2>1 DEF RepliesTypeOK
  <2>6. RepliesTypeOK'
    <3>1. det' \in [Mails -> {"none", "received", "lookup", "mark", "event", "end"}]
      BY <1>0, <1>4 DEF Arrive, RepliesTypeOK
    <3>2. \A j \in Mails : tri'[j].pc # "none" => det'[j] \notin {"none", "received"}
      BY <1>0, <1>4, <2>4 DEF Arrive, RepliesTypeOK
    <3> QED BY <1>0, <1>4, <2>3, <3>1, <3>2 DEF Arrive, RepliesTypeOK, MailRow
  <2>7. Stages'
    BY <1>0, <1>1, <1>2, <1>4, <2>4, <2>5 DEF Arrive, Stages
  <2>8. ActedBeforeRecorded'
    BY <1>0, <1>1, <1>2, <2>4, <2>5 DEF ActedBeforeRecorded
  <2> QED BY <1>1, <1>3, <2>6, <2>7, <2>8 DEF RepliesInv
<1>5. CASE Announce(k)
  <2>0. tri[k].pc = "none" /\ triage[k] = None
    BY <1>0, <1>5 DEF Announce, RepliesTypeOK, Stages
  <2>1. tri' \in [Mails -> TriRow]
    BY <1>0, <1>5, Rows DEF Announce, TriRow
  <2>2. det' \in [Mails -> {"none", "received", "lookup", "mark", "event", "end"}]
    BY <1>0, <1>5 DEF Announce, RepliesTypeOK
  <2>3. \A j \in Mails : j # k => tri'[j] = tri[j] /\ det'[j] = det[j]
    BY <1>0, <1>5 DEF Announce, RepliesTypeOK
  <2>4. tri'[k].pc \in {"none", "queued"} /\ (tri'[k].pc # "none" => det'[k] \in {"end", "lookup"})
    BY <1>0, <1>5, <2>0, Rows DEF Announce, RepliesTypeOK, TriRow
  <2>5. RepliesTypeOK'
    BY <1>0, <1>2, <1>5, <2>1, <2>2, <2>3, <2>4 DEF Announce, RepliesTypeOK, TriRow
  <2>6. Stages'
    BY <1>0, <1>1, <1>2, <1>5, <2>0, <2>3, <2>4 DEF Announce, Stages
  <2>7. ActedBeforeRecorded'
    BY <1>0, <1>1, <1>2, <1>5 DEF Announce, ActedBeforeRecorded
  <2> QED BY <1>1, <1>3, <2>5, <2>6, <2>7 DEF RepliesInv
<1>6. CASE LookupRef(k) \/ MarkResponded(k) \/ PutReplied(k) \/ FailDetect(k)
  <2>1. UNCHANGED <<mail, tri>>
    BY <1>6 DEF LookupRef, MarkResponded, PutReplied, FailDetect
  <2>2. /\ det' \in [Mails -> {"none", "received", "lookup", "mark", "event", "end"}]
        /\ \A j \in Mails : det[j] \notin {"none", "received"} => det'[j] \notin {"none", "received"}
    BY <1>0, <1>6 DEF LookupRef, MarkResponded, PutReplied, FailDetect, RepliesTypeOK
  <2>3. status' \in [Businesses -> {"open", "responded", "rejected_after_review", "converted"}]
    BY <1>0, <1>6, StatusTyped DEF LookupRef, MarkResponded, PutReplied, FailDetect, RepliesTypeOK
  <2>4. events' \subseteq Mails \cup Notices
    BY <1>0, <1>6 DEF LookupRef, MarkResponded, PutReplied, FailDetect, RepliesTypeOK
  <2>5. RepliesTypeOK'
    BY <1>0, <1>2, <2>1, <2>2, <2>3, <2>4 DEF RepliesTypeOK
  <2>6. Stages' /\ ActedBeforeRecorded'
    BY <1>0, <1>1, <1>2, <2>1 DEF Stages, ActedBeforeRecorded
  <2> QED BY <1>1, <1>3, <2>5, <2>6 DEF RepliesInv
<1> QED BY <1>4, <1>5, <1>6 DEF DetectStep

\* A triage that goes on with one mail, without a new suppression.
LEMMA TriageMoves ==
  ASSUME RepliesInv, NEW k \in Mails, NEW row \in TriRow,
         tri[k].pc # "none", row.pc \notin {"none", "project"},
         tri[k].pc # "end",
         tri' = [tri EXCEPT ![k] = row],
         row.pc = "suppress" => mail[k].from # None,
         (row.pc \in {"status", "row"} /\ row.label = "unsubscribe" /\ mail[k].from # None)
           => mail[k].from \in projected',
         UNCHANGED vars \/ (UNCHANGED <<outreachKept, suppressed>> /\ Fault),
         status' \in [Businesses -> {"open", "responded", "rejected_after_review", "converted"}],
         projected' \subseteq Addresses, projected \subseteq projected',
         projected' \subseteq suppressed,
         UNCHANGED <<mail, det, triage, op, note, events>>
  PROVE  RepliesInv'
<1>0. RepliesTypeOK /\ NotesReachable /\ Stages /\ ActedBeforeRecorded
  BY DEF RepliesInv
<1>1. SendInv' /\ MailedReachable' /\ suppressed' = suppressed
  BY Quiet
<1>2. tri \in [Mails -> TriRow] /\ tri' \in [Mails -> TriRow]
  BY <1>0, Rows
<1>3. tri'[k] = row /\ \A j \in Mails : j # k => tri'[j] = tri[j]
  BY <1>2
<1>4. RepliesTypeOK'
  BY <1>0, <1>2, <1>3 DEF RepliesTypeOK, TriRow
<1>5. NotesReachable'
  BY <1>0, <1>1 DEF NotesReachable, Recipient
<1>6. Stages'
  BY <1>0, <1>1, <1>3 DEF Stages
<1>7. ActedBeforeRecorded'
  BY <1>0, <1>1 DEF ActedBeforeRecorded
<1> QED BY <1>1, <1>4, <1>5, <1>6, <1>7 DEF RepliesInv

LEMMA TriageStepKeeps ==
  ASSUME RepliesInv, NEW k \in Mails, TriageStep(k) \/ FailTriage(k)
  PROVE  RepliesInv'
<1>0. RepliesTypeOK /\ NotesReachable /\ Stages /\ ActedBeforeRecorded /\ SendInv /\ TypeOK
  BY DEF RepliesInv, SendInv
<1>1. tri \in [Mails -> TriRow] /\ tri[k] \in TriRow
  BY <1>0, Rows
<1>2. /\ projected \subseteq Addresses /\ projected \subseteq suppressed
      /\ status \in [Businesses -> {"open", "responded", "rejected_after_review", "converted"}]
      /\ mail[k].from \in Addresses \cup {None}
  BY <1>0, Rows DEF RepliesTypeOK, ActedBeforeRecorded, MailRow
<1>3. CASE Take(k)
  <2>1. tri[k].pc = "queued"
    BY <1>3 DEF Take
  <2>2. PICK row \in TriRow :
          tri' = [tri EXCEPT ![k] = row] /\ row.pc \in {"end", "classify"}
    <3> DEFINE dropped == [tri[k] EXCEPT !.pc = "end"]
               taken == [tri[k] EXCEPT !.pc = "classify", !.ref = Attributed(k)]
               unread == [tri[k] EXCEPT !.pc = "classify"]
    <3>1. dropped \in TriRow /\ dropped.pc = "end" /\ unread \in TriRow /\ unread.pc = "classify"
      BY <1>1 DEF TriRow
    <3>2. taken \in TriRow /\ taken.pc = "classify"
      BY <1>1 DEF TriRow, Attributed
    <3>3. \/ tri' = [tri EXCEPT ![k] = dropped]
          \/ tri' = [tri EXCEPT ![k] = taken]
          \/ tri' = [tri EXCEPT ![k] = unread]
      BY <1>3 DEF Take
    <3> HIDE DEF dropped, taken, unread
    <3> QED BY <3>1, <3>2, <3>3
  <2>3. UNCHANGED vars \/ (UNCHANGED <<outreachKept, suppressed>> /\ Fault)
    BY <1>3 DEF Take, vars, outreachKept
  <2>4. UNCHANGED <<mail, det, triage, op, note, projected, status, events>>
    BY <1>3 DEF Take
  <2> QED BY <1>2, <2>1, <2>2, <2>3, <2>4, TriageMoves
<1>4. CASE Classify(k)
  <2>1. PICK label \in Categories :
          tri' = [tri EXCEPT ![k].label = label,
                             ![k].pc = CASE label = "unknown" -> "row"
                                         [] label = "unsubscribe" /\ mail[k].from # None -> "suppress"
                                         [] OTHER -> AfterSuppression(k)]
    BY <1>4 DEF Classify
  <2> DEFINE next == CASE label = "unknown" -> "row"
                       [] label = "unsubscribe" /\ mail[k].from # None -> "suppress"
                       [] OTHER -> AfterSuppression(k)
             row == [tri[k] EXCEPT !.label = label, !.pc = next]
  <2>2. next \in {"row", "suppress", "status"}
    BY DEF AfterSuppression
  <2>3. /\ next = "suppress" => mail[k].from # None
        /\ (label = "unsubscribe" /\ mail[k].from # None) => next = "suppress"
    BY DEF AfterSuppression, Categories
  <2> HIDE DEF next
  <2>4. row \in TriRow /\ row.pc = next /\ row.label = label
    BY <1>1, <2>2 DEF TriRow
  <2>5. tri' = [tri EXCEPT ![k] = row]
    BY <2>1 DEF next
  <2> HIDE DEF row
  <2>6. tri[k].pc = "classify" /\ UNCHANGED <<vars, mail, det, triage, op, note, projected, status, events>>
    BY <1>4 DEF Classify
  <2> QED BY <1>2, <2>2, <2>3, <2>4, <2>5, <2>6, TriageMoves
<1>5. CASE SuppressSender(k)
  <2>1. tri[k].pc = "suppress" /\ mail[k].from \in Addresses
    BY <1>0, <1>2, <1>5 DEF SuppressSender, Stages
  <2>2. /\ suppressed' = suppressed \cup {mail[k].from}
        /\ UNCHANGED <<outreachKept, faults, mail, det, triage, op, note, projected, status, events>>
    BY <1>5 DEF SuppressSender
  <2>3. SendInv' /\ MailedReachable'
    BY <1>0, <2>1, <2>2, BesideSends DEF TypeOK
  <2>4. tri' \in [Mails -> TriRow]
    BY <1>1, <1>5 DEF SuppressSender, TriRow
  <2>5. tri'[k].pc = "project" /\ \A j \in Mails : j # k => tri'[j] = tri[j]
    BY <1>1, <1>5 DEF SuppressSender, TriRow
  <2>6. RepliesTypeOK'
    BY <1>0, <2>1, <2>2, <2>4, <2>5 DEF RepliesTypeOK, TriRow
  <2>7. NotesReachable'
    BY <1>0, <2>2 DEF NotesReachable, Recipient
  <2>8. Stages'
    BY <1>0, <2>1, <2>2, <2>5 DEF Stages
  <2>9. ActedBeforeRecorded'
    BY <1>0, <2>2 DEF ActedBeforeRecorded
  <2> QED BY <2>3, <2>6, <2>7, <2>8, <2>9 DEF RepliesInv
<1>6. CASE PutSuppression(k)
  <2>1. tri[k].pc = "project" /\ mail[k].from \in suppressed /\ mail[k].from \in Addresses
    BY <1>0, <1>2, <1>6 DEF PutSuppression, Stages
  <2> DEFINE row == [tri[k] EXCEPT !.pc = AfterSuppression(k)]
  <2>2. row \in TriRow /\ row.pc \in {"status", "row"}
    BY <1>1 DEF TriRow, AfterSuppression
  <2>3. tri' = [tri EXCEPT ![k] = row] /\ projected' = projected \cup {mail[k].from}
    BY <1>6 DEF PutSuppression
  <2> HIDE DEF row
  <2>4. UNCHANGED <<vars, mail, det, triage, op, note, status, events>>
    BY <1>6 DEF PutSuppression
  <2> QED BY <1>2, <2>1, <2>2, <2>3, <2>4, TriageMoves
<1>7. CASE ApplyStatus(k)
  <2>1. tri[k].pc = "status"
    BY <1>7 DEF ApplyStatus
  <2> DEFINE row == [tri[k] EXCEPT !.pc = "row"]
  <2>2. row \in TriRow /\ row.pc = "row" /\ row.label = tri[k].label
    BY <1>1 DEF TriRow
  <2>3. tri' = [tri EXCEPT ![k] = row]
    BY <1>7 DEF ApplyStatus
  <2> HIDE DEF row
  <2>4. status' \in [Businesses -> {"open", "responded", "rejected_after_review", "converted"}]
    BY <1>0, <1>7, StatusTyped, StatusOfTyped DEF ApplyStatus
  <2>5. UNCHANGED <<vars, mail, det, triage, op, note, projected, events>>
    BY <1>7 DEF ApplyStatus
  <2>6. (row.label = "unsubscribe" /\ mail[k].from # None) => mail[k].from \in projected
    BY <1>0, <2>1, <2>2 DEF Stages
  <2> QED BY <1>2, <2>1, <2>2, <2>3, <2>4, <2>5, <2>6, TriageMoves
<1>8. CASE PutTriage(k)
  <2> DEFINE filed == [state |-> IF tri[k].label = "unknown" THEN "operator_inbox" ELSE "auto_actioned",
                       category |-> tri[k].label, ref |-> tri[k].ref]
  <2>1. tri[k].pc = "row"
    BY <1>8 DEF PutTriage
  <2>2. filed \in TriageRow /\ filed.category = tri[k].label
    BY <1>1 DEF TriageRow, TriRow
  <2>3. triage' = [triage EXCEPT ![k] = filed]
    BY <1>8 DEF PutTriage
  <2> HIDE DEF filed
  <2>4. UNCHANGED <<vars, mail, det, op, note, projected, status, events>>
    BY <1>8 DEF PutTriage
  <2>5. SendInv' /\ MailedReachable' /\ suppressed' = suppressed
    BY <2>4, Quiet
  <2>6. tri' \in [Mails -> TriRow]
    BY <1>1, <1>8 DEF PutTriage, TriRow
  <2>7. tri'[k].pc = "end" /\ \A j \in Mails : j # k => tri'[j] = tri[j]
    BY <1>1, <1>8 DEF PutTriage, TriRow
  <2>8. /\ triage' \in [Mails -> TriageRow \cup {None}]
        /\ triage'[k] = filed /\ \A j \in Mails : j # k => triage'[j] = triage[j]
    BY <1>0, <2>2, <2>3 DEF RepliesTypeOK
  <2>9. RepliesTypeOK'
    BY <1>0, <2>1, <2>4, <2>6, <2>7, <2>8 DEF RepliesTypeOK, TriRow
  <2>10. NotesReachable'
    BY <1>0, <2>4, <2>5 DEF NotesReachable, Recipient
  <2>11. Stages'
    BY <1>0, <2>4, <2>5, <2>7, <2>8 DEF Stages
  <2>12. ActedBeforeRecorded'
    BY <1>0, <2>1, <2>2, <2>4, <2>5, <2>8 DEF ActedBeforeRecorded, Stages
  <2> QED BY <2>5, <2>9, <2>10, <2>11, <2>12 DEF RepliesInv
<1>9. CASE FailTriage(k)
  <2> DEFINE row == [tri[k] EXCEPT !.pc = "end"]
  <2>1. row \in TriRow /\ row.pc = "end"
    BY <1>1 DEF TriRow
  <2>2. tri' = [tri EXCEPT ![k] = row] /\ tri[k].pc \notin {"none", "end"}
    BY <1>9 DEF FailTriage
  <2> HIDE DEF row
  <2>3. /\ UNCHANGED <<outreachKept, suppressed>> /\ Fault
        /\ UNCHANGED <<mail, det, triage, op, note, projected, status, events>>
    BY <1>9 DEF FailTriage
  <2> QED BY <1>2, <2>1, <2>2, <2>3, TriageMoves
<1> QED BY <1>3, <1>4, <1>5, <1>6, <1>7, <1>8, <1>9 DEF TriageStep

\* api-replies: what an operator files is not filed as done by the triage.
LEMMA OperatorKeeps ==
  ASSUME RepliesInv, NEW o \in Operators, Reclassify(o) \/ Reapply(o) \/ FailReapply(o)
  PROVE  RepliesInv'
<1>0. RepliesTypeOK /\ NotesReachable /\ Stages /\ ActedBeforeRecorded
  BY DEF RepliesInv
<1>1. SendInv' /\ MailedReachable' /\ suppressed' = suppressed
  BY Quiet DEF Reclassify, Reapply, FailReapply
<1>2. UNCHANGED <<mail, det, tri, note, projected, events>>
  BY DEF Reclassify, Reapply, FailReapply
<1>3. NotesReachable'
  BY <1>0, <1>1, <1>2 DEF NotesReachable, Recipient
<1>4. op \in [Operators -> OpRow \cup {None}]
  BY <1>0, Rows
<1>5. CASE Reclassify(o)
  <2>1. PICK k \in Listed, category \in Categories :
          /\ triage' = [triage EXCEPT ![k].state = "reviewed", ![k].category = category]
          /\ op' = [op EXCEPT ![o] = IF triage[k].ref /\ category # "unknown"
                                     THEN [mail |-> k, category |-> category] ELSE None]
    BY <1>5 DEF Reclassify
  <2> DEFINE filed == [triage[k] EXCEPT !.state = "reviewed", !.category = category]
  <2>2. k \in Mails /\ triage[k] # None /\ triage[k] \in TriageRow
    BY <1>0, <2>1 DEF Listed, RepliesTypeOK
  <2>3. filed \in TriageRow /\ filed.state = "reviewed"
    BY <2>2 DEF TriageRow
  <2>4. triage' = [triage EXCEPT ![k] = filed]
    BY <2>1
  <2> HIDE DEF filed
  <2>5. /\ triage' \in [Mails -> TriageRow \cup {None}]
        /\ triage'[k] = filed /\ \A j \in Mails : j # k => triage'[j] = triage[j]
    BY <1>0, <2>2, <2>3, <2>4 DEF RepliesTypeOK
  <2>6. op' \in [Operators -> OpRow \cup {None}]
    <3>1. category # "unknown" => [mail |-> k, category |-> category] \in OpRow
      BY <2>1, <2>2 DEF OpRow
    <3> QED BY <1>4, <2>1, <3>1
  <2>7. status' = status
    BY <1>5 DEF Reclassify
  <2>8. RepliesTypeOK'
    BY <1>0, <1>2, <2>5, <2>6, <2>7 DEF RepliesTypeOK, OpRow
  <2>9. Stages'
    BY <1>0, <1>1, <1>2, <2>2, <2>5 DEF Stages
  <2>10. ActedBeforeRecorded'
    BY <1>0, <1>1, <1>2, <2>3, <2>5 DEF ActedBeforeRecorded
  <2> QED BY <1>1, <1>3, <2>8, <2>9, <2>10 DEF RepliesInv
<1>6. CASE Reapply(o) \/ FailReapply(o)
  <2>1. op' \in [Operators -> OpRow \cup {None}] /\ triage' = triage
    BY <1>4, <1>6 DEF Reapply, FailReapply
  <2>2. status' \in [Businesses -> {"open", "responded", "rejected_after_review", "converted"}]
    BY <1>0, <1>6, StatusTyped, StatusOfTyped DEF Reapply, FailReapply, RepliesTypeOK
  <2>3. RepliesTypeOK'
    BY <1>0, <1>2, <2>1, <2>2 DEF RepliesTypeOK, OpRow
  <2>4. Stages' /\ ActedBeforeRecorded'
    BY <1>0, <1>1, <1>2, <2>1 DEF Stages, ActedBeforeRecorded
  <2> QED BY <1>1, <1>3, <2>3, <2>4 DEF RepliesInv
<1> QED BY <1>5, <1>6

\* ses-feedback: the address of a notification is the one that was mailed.
LEMMA NoticeKeeps ==
  ASSUME RepliesInv, NEW n \in Notices, Notify(n) \/ NoteStep(n) \/ FailNote(n)
  PROVE  RepliesInv'
<1>0. RepliesTypeOK /\ NotesReachable /\ Stages /\ ActedBeforeRecorded /\ SendInv /\ TypeOK
      /\ MailedReachable
  BY DEF RepliesInv, SendInv
<1>1. note \in [Notices -> NoteRow] /\ note[n] \in NoteRow
  BY <1>0, Rows
<1>2. UNCHANGED <<mail, det, tri, triage, op, status>>
  BY DEF Notify, NoteStep, SuppressRecipient, PutNotified, RecordNote, FailNote
<1>3. PICK row \in NoteRow :
        /\ note' = [note EXCEPT ![n] = row]
        /\ row.pc # "none"
        /\ AddressOf[JourneyOf[row.draft]] \in Addresses
        /\ row.pc = "project" => AddressOf[JourneyOf[row.draft]] \in suppressed'
  <2>1. CASE Notify(n)
    <3>1. PICK m \in mailed, pc \in {"suppress", "event"} :
            note' = [note EXCEPT ![n] = [pc |-> pc, draft |-> m.draft]]
      BY <2>1 DEF Notify
    <3>2. [pc |-> pc, draft |-> m.draft] \in NoteRow
      BY <1>0, <3>1 DEF TypeOK, NoteRow
    <3>3. AddressOf[JourneyOf[m.draft]] \in Addresses
      BY <1>0, <3>1 DEF MailedReachable
    <3> QED BY <3>1, <3>2, <3>3
  <2>2. ASSUME NEW pc \in {"project", "event", "end"},
               note' = [note EXCEPT ![n].pc = pc], note[n].pc # "none",
               pc = "project" => Recipient(n) \in suppressed'
        PROVE  \E row \in NoteRow :
                 /\ note' = [note EXCEPT ![n] = row]
                 /\ row.pc # "none"
                 /\ AddressOf[JourneyOf[row.draft]] \in Addresses
                 /\ row.pc = "project" => AddressOf[JourneyOf[row.draft]] \in suppressed'
    <3> DEFINE row == [note[n] EXCEPT !.pc = pc]
    <3>1. row \in NoteRow /\ row.pc = pc /\ row.draft = note[n].draft
      BY <1>1 DEF NoteRow
    <3>2. note' = [note EXCEPT ![n] = row]
      BY <2>2
    <3> HIDE DEF row
    <3>3. AddressOf[JourneyOf[row.draft]] = Recipient(n) /\ Recipient(n) \in Addresses
      BY <1>0, <2>2, <3>1 DEF Recipient, NotesReachable
    <3> QED BY <2>2, <3>1, <3>2, <3>3
  <2>3. CASE SuppressRecipient(n)
    BY <2>2, <2>3 DEF SuppressRecipient
  <2>4. CASE PutNotified(n)
    BY <2>2, <2>4 DEF PutNotified
  <2>5. CASE RecordNote(n)
    BY <2>2, <2>5 DEF RecordNote
  <2>6. CASE FailNote(n)
    BY <2>2, <2>6 DEF FailNote
  <2> QED BY <2>1, <2>3, <2>4, <2>5, <2>6 DEF NoteStep
<1>4. /\ note' \in [Notices -> NoteRow] /\ note'[n] = row
      /\ \A o \in Notices : o # n => note'[o] = note[o]
  BY <1>1, <1>3
<1>5. /\ SendInv' /\ MailedReachable'
      /\ suppressed \subseteq suppressed'
  <2>1. CASE SuppressRecipient(n)
    <3>1. Recipient(n) \in Addresses
      BY <1>0, <2>1 DEF SuppressRecipient, NotesReachable
    <3> QED BY <1>0, <2>1, <3>1, BesideSends DEF SuppressRecipient, TypeOK
  <2>2. CASE Notify(n) \/ PutNotified(n) \/ RecordNote(n) \/ FailNote(n)
    <3>1. UNCHANGED vars \/ (UNCHANGED <<outreachKept, suppressed>> /\ Fault)
      BY <2>2 DEF Notify, PutNotified, RecordNote, FailNote, vars, outreachKept
    <3> QED BY <3>1, Quiet
  <2> QED BY <2>1, <2>2 DEF NoteStep
<1>6. /\ projected' \subseteq Addresses /\ projected' \subseteq suppressed'
      /\ projected \subseteq projected'
  <2>1. CASE PutNotified(n)
    BY <1>0, <1>5, <2>1 DEF PutNotified, RepliesTypeOK, NotesReachable, ActedBeforeRecorded
  <2>2. CASE ~PutNotified(n)
    <3>1. projected' = projected
      BY <2>2 DEF Notify, NoteStep, SuppressRecipient, RecordNote, FailNote
    <3> QED BY <1>0, <1>5, <3>1 DEF RepliesTypeOK, ActedBeforeRecorded
  <2> QED BY <2>1, <2>2
<1>7. events' \subseteq Mails \cup Notices
  BY <1>0 DEF Notify, NoteStep, SuppressRecipient, PutNotified, RecordNote, FailNote, RepliesTypeOK
<1>8. RepliesTypeOK'
  BY <1>0, <1>2, <1>4, <1>6, <1>7 DEF RepliesTypeOK, NoteRow
<1>9. NotesReachable'
  BY <1>0, <1>3, <1>4, <1>5 DEF NotesReachable, Recipient
<1>10. Stages' /\ ActedBeforeRecorded'
  BY <1>0, <1>2, <1>5, <1>6 DEF Stages, ActedBeforeRecorded
<1> QED BY <1>5, <1>8, <1>9, <1>10 DEF RepliesInv

\* An operator's conversion is a status.
LEMMA ConvertKeeps ==
  ASSUME RepliesInv, NEW b \in Businesses, Convert(b)
  PROVE  RepliesInv'
<1>1. SendInv' /\ MailedReachable' /\ suppressed' = suppressed
  BY Quiet DEF Convert
<1>2. UNCHANGED <<mail, det, tri, triage, op, note, projected, events>>
  BY DEF Convert
<1>3. status' \in [Businesses -> {"open", "responded", "rejected_after_review", "converted"}]
  BY DEF Convert, RepliesInv, RepliesTypeOK
<1> QED BY <1>1, <1>2, <1>3
     DEF RepliesInv, RepliesTypeOK, NotesReachable, Recipient, Stages, ActedBeforeRecorded

LEMMA InitReplies == RepliesInit => RepliesInv
<1> SUFFICES ASSUME RepliesInit PROVE RepliesInv
  OBVIOUS
<1>1. SendInv
  BY InitSendInv DEF RepliesInit
<1>2. RepliesTypeOK
  BY DEF RepliesInit, RepliesTypeOK, NoMail, NoTriage, NoNote, Categories, Texts
<1>3. MailedReachable
  BY DEF RepliesInit, Init, MailedReachable, NoSend
<1>4. NotesReachable /\ Stages /\ ActedBeforeRecorded
  BY DEF RepliesInit, NotesReachable, Stages, ActedBeforeRecorded, NoNote, NoTriage
<1> QED BY <1>1, <1>2, <1>3, <1>4 DEF RepliesInv

LEMMA StepReplies == RepliesInv /\ [RepliesNext]_allVars => RepliesInv'
<1> SUFFICES ASSUME RepliesInv, [RepliesNext]_allVars PROVE RepliesInv'
  OBVIOUS
<1>1. CASE RepliesNext
  BY <1>1, OutreachTyped, ConvertKeeps, DetectStepKeeps, TriageStepKeeps, OperatorKeeps, NoticeKeeps
     DEF RepliesNext
<1>2. CASE UNCHANGED allVars
  <2>1. UNCHANGED vars /\ UNCHANGED <<mail, det, tri, triage, op, note, projected, status, events>>
    BY <1>2 DEF allVars, replyVars
  <2>2. SendInv' /\ MailedReachable' /\ suppressed' = suppressed
    BY <2>1, Quiet
  <2> QED BY <2>1, <2>2
       DEF RepliesInv, RepliesTypeOK, NotesReachable, Recipient, Stages, ActedBeforeRecorded
<1> QED BY <1>1, <1>2

-----------------------------------------------------------------------------
(* The inductive invariant: sending is as in Outreach, a triage has done what
   its stage says, and a notification is about an address that was mailed. *)
THEOREM RepliesInvariant == RepliesSpec => []RepliesInv
<1>1. QED BY InitReplies, StepReplies, PTL DEF RepliesSpec

(* Every variable keeps its type while replies, notifications and the operator
   work beside the sender (reply-detector, reply-triage, api-replies). *)
THEOREM RepliesTypeCorrect == RepliesSpec => [](TypeOK /\ RepliesTypeOK)
<1>1. RepliesInv => TypeOK /\ RepliesTypeOK
  BY DEF RepliesInv, SendInv
<1> QED BY <1>1, RepliesInvariant, PTL

(* A SUPPRESSION# row names an address the sender will find suppressed, and a
   reply filed as a handled unsubscribe has such a row (reply-triage.runOne,
   ses-feedback.handleAdverse). *)
THEOREM ActedTheorem == RepliesSpec => []ActedBeforeRecorded
<1>1. RepliesInv => ActedBeforeRecorded
  BY DEF RepliesInv
<1> QED BY <1>1, RepliesInvariant, PTL

(* The send-once guard and the approved text hold while the handlers of
   replies write the suppression list the sender reads. *)
THEOREM SendsStaySafe == RepliesSpec => [](AtMostOneSend /\ SentWasApproved)
<1>1. RepliesInv => AtMostOneSend /\ SentWasApproved
  BY DEF RepliesInv, SendInv
<1> QED BY <1>1, RepliesInvariant, PTL
-----------------------------------------------------------------------------
(* Suppression and the sends in flight                                     *)

\* Address a is suppressed and sender s has not passed its check for it.
Quieted(s, a) ==
  /\ a \in suppressed
  /\ snd[s].pc \in {"mark", "send"} => AddressOf[Journey(s)] # a

\* No suppression is ever lifted.
LEMMA SuppressedStays ==
  ASSUME RepliesInv, [RepliesNext]_allVars
  PROVE  suppressed \subseteq suppressed'
BY DEF RepliesNext, OutreachStep, Convert, Arrive, DetectStep, Announce, LookupRef, MarkResponded,
       PutReplied, FailDetect, TriageStep, Take, Classify, SuppressSender, PutSuppression,
       ApplyStatus, PutTriage, FailTriage, Reclassify, Reapply, FailReapply, Notify, NoteStep,
       SuppressRecipient, PutNotified, RecordNote, FailNote, allVars, vars

\* Only the steps of Outreach move a sender.
LEMMA RepliesLeaveSends ==
  ASSUME [RepliesNext]_allVars, ~OutreachStep
  PROVE  UNCHANGED sendVars /\ UNCHANGED reviewVars
BY DEF RepliesNext, Convert, Arrive, DetectStep, Announce, LookupRef, MarkResponded,
       PutReplied, FailDetect, TriageStep, Take, Classify, SuppressSender, PutSuppression,
       ApplyStatus, PutTriage, FailTriage, Reclassify, Reapply, FailReapply, Notify, NoteStep,
       SuppressRecipient, PutNotified, RecordNote, FailNote, allVars, vars, outreachKept

\* A sender reaches its mark only through the check, which asks the list.
LEMMA QuietedStep ==
  ASSUME RepliesInv, [RepliesNext]_allVars, NEW s \in Senders, NEW a \in Addresses, Quieted(s, a)
  PROVE  Quieted(s, a)'
<1>0. SendInv /\ TypeOK
  BY DEF RepliesInv, SendInv
<1>1. a \in suppressed'
  BY SuppressedStays DEF Quieted
<1>2. CASE UNCHANGED snd
  BY <1>1, <1>2 DEF Quieted, Journey
<1>3. ASSUME NEW t \in Senders, SendStep(t) \/ FailSend(t) PROVE Quieted(s, a)'
  <2>1. CASE t # s
    <3>1. snd'[s] = snd[s]
      BY <1>0, <1>3, <2>1, OtherSendersStay
    <3> QED BY <1>1, <3>1 DEF Quieted, Journey
  <2>2. CASE t = s
    <3>1. ASSUME NEW e \in Event, Begin(s, e) \/ Skip(s, e) PROVE snd'[s].pc \notin {"mark", "send"}
      BY <1>0, <3>1 DEF Begin, Skip, sendVars, TypeOK, NoSend
    <3>2. CASE Load(s)
      <4>1. snd[s] \in [pc : SendSteps, event : Event, body : 0..MaxBody]
        BY <1>0, <3>2, SendTyped DEF Load
      <4>2. snd'[s].pc \notin {"mark", "send"}
        BY <1>0, <3>2, <4>1 DEF Load, Done, TypeOK, NoSend
      <4> QED BY <1>1, <4>2 DEF Quieted
    <3>3. CASE Check(s) \/ Mark(s)
      <4>1. snd[s] \in [pc : SendSteps, event : Event, body : 0..MaxBody]
        BY <1>0, <3>3, SendTyped DEF Check, Mark
      <4>2. \/ snd'[s].pc = "idle"
            \/ Journey(s)' = Journey(s) /\ AddressOf[Journey(s)] # a
        BY <1>0, <3>3, <4>1 DEF Check, Mark, Done, Goto, Quieted, Journey, TypeOK, NoSend
      <4> QED BY <1>1, <4>2 DEF Quieted
    <3>4. CASE Send(s) \/ Record(s) \/ SetDraftSent(s)
      <4>1. snd[s] \in [pc : SendSteps, event : Event, body : 0..MaxBody]
        BY <1>0, <3>4, SendTyped DEF Send, Record, Records, SetDraftSent
      <4>2. Record(s) => NextRecord[snd[s].pc] \notin {"mark", "send"}
        BY DEF Record, Records, NextRecord
      <4>3. snd'[s].pc \notin {"mark", "send"}
        BY <1>0, <3>4, <4>1, <4>2 DEF Send, Record, SetDraftSent, Goto, TypeOK
      <4> QED BY <1>1, <4>3 DEF Quieted
    <3>5. CASE PublishSent(s) \/ FailSend(s)
      <4>1. snd'[s].pc \notin {"mark", "send"}
        BY <1>0, <3>5 DEF PublishSent, FailSend, Done, TypeOK, NoSend
      <4> QED BY <1>1, <4>1 DEF Quieted
    <3> QED BY <1>1, <1>3, <2>2, <3>1, <3>2, <3>3, <3>4, <3>5 DEF SendStep, Quieted
  <2> QED BY <2>1, <2>2
<1> QED BY <1>2, <1>3, RepliesLeaveSends, NextByActor, OthersLeaveSends DEF OutreachStep, sendVars

\* Once an address is on the suppression list, a send that has not passed its
\* check by then never mails it, whatever is approved, edited or replayed
\* afterwards (sender.runOne asks the list before it puts its marker).
THEOREM SuppressedStaysQuietTheorem == RepliesSpec => SuppressedStaysQuiet
<1>1. ASSUME NEW s \in Senders, NEW a \in Addresses
      PROVE  RepliesSpec =>
               [](a \in suppressed /\ snd[s].pc \in {"idle", "load", "check"}
                    => [](snd[s].pc = "send" => AddressOf[Journey(s)] # a))
  <2>1. (a \in suppressed /\ snd[s].pc \in {"idle", "load", "check"}) => Quieted(s, a)
    BY DEF Quieted
  <2>2. RepliesInv /\ [RepliesNext]_allVars /\ Quieted(s, a) => Quieted(s, a)'
    BY QuietedStep
  <2>3. Quieted(s, a) => (snd[s].pc = "send" => AddressOf[Journey(s)] # a)
    BY DEF Quieted
  <2> QED BY <2>1, <2>2, <2>3, RepliesInvariant, PTL DEF RepliesSpec
<1> QED BY <1>1 DEF SuppressedStaysQuiet

\* The handlers of what comes back neither mail nor approve.
LEMMA RepliesMailboxStep ==
  RepliesInv /\ [RepliesNext]_allVars => [Promise!Next]_Promise!vars
<1> SUFFICES ASSUME RepliesInv, [RepliesNext]_allVars PROVE [Promise!Next]_Promise!vars
  OBVIOUS
<1>1. CASE OutreachStep
  BY <1>1, MailboxStep DEF OutreachStep, RepliesInv
<1>2. CASE ~OutreachStep
  <2>1. UNCHANGED <<snd, sentOnce, sends, mailed, approved>>
    BY <1>2, RepliesLeaveSends DEF sendVars, reviewVars
  <2>2. \A j \in Journeys : Chance(j)' = Chance(j)
    BY <2>1 DEF Chance, Journey
  <2> QED BY <2>1, <2>2, NoChance
<1> QED BY <1>1, <1>2

\* One chance of an approved mail per pair, with bounces, complaints, replies
\* and the operator's inbox at work beside the sender.
THEOREM RepliesRefineMailbox == RepliesSpec => ImplementsMailbox
<1>1. RepliesInit => Promise!Init
  BY MailboxInit DEF RepliesInit
<1> QED
  BY <1>1, RepliesMailboxStep, RepliesInvariant, PTL
     DEF RepliesSpec, ImplementsMailbox, Promise!Spec
=============================================================================
