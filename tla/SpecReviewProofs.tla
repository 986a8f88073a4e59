--------------------------- MODULE SpecReviewProofs ---------------------------
(***************************************************************************)
(* Proofs about SpecReview: a page shows what its spec said while it was   *)
(* approved, a decision's feedback follows its event, and a spec has no    *)
(* more pages than decisions approved it and replays of them, whatever     *)
(* operators, generator and trailing reads do to the row.                  *)
(***************************************************************************)
EXTENDS SpecReview, FiniteSetTheorems, TLAPS

RequestRow ==
  [pc : {"put", "publish", "feedback"}, op : Actions, spec : SpecIds,
   copy : Row, content : Contents, n : 1..MaxRequests]

WorkRow == [pc : {"load", "store"}, event : Event, content : Contents \cup {None}]

SiteRow == [spec : SpecIds, content : Contents]

\* A worker that stores has its content, and a queue is finite.
Typed ==
  /\ TypeOK
  /\ \A w \in Workers : worker[w].pc = "store" => worker[w].content \in Contents
  /\ IsFiniteSet(queue)

LEMMA Shapes ==
  ASSUME TypeOK
  PROVE  /\ spec \in [SpecIds -> Row \cup {None}]
         /\ replica \in [SpecIds -> Row \cup {None}]
         /\ req \in [Requests -> RequestRow \cup {NoRequest}]
         /\ \A r \in Requests : req[r].pc # "idle" => req[r] \in RequestRow
         /\ worker \in [Workers -> WorkRow \cup {NoWork}]
         /\ \A w \in Workers : worker[w].pc # "idle" => worker[w] \in WorkRow
         /\ site \in [Sites -> SiteRow \cup {None}]
<1>1. /\ req \in [Requests -> RequestRow \cup {NoRequest}]
      /\ worker \in [Workers -> WorkRow \cup {NoWork}]
  BY DEF TypeOK, RequestRow, WorkRow
<1>2. NoRequest.pc = "idle" /\ NoWork.pc = "idle"
  BY DEF NoRequest, NoWork
<1>3. \A r \in Requests : req[r].pc # "idle" => req[r] \in RequestRow
  BY <1>1, <1>2
<1>4. \A w \in Workers : worker[w].pc # "idle" => worker[w] \in WorkRow
  BY <1>1, <1>2
<1> QED BY <1>1, <1>3, <1>4 DEF TypeOK, SiteRow

LEMMA ReadsRow ==
  ASSUME TypeOK, NEW i \in SpecIds, NEW copy \in Reads(i)
  PROVE  copy \in Row /\ copy \in {spec[i], replica[i]} /\ copy # None
BY Shapes DEF Reads

\* A whole-row put keeps the types of the row and its replica.
LEMMA PutTyped ==
  ASSUME TypeOK, NEW i \in SpecIds, NEW row \in Row, Put(i, row)
  PROVE  spec' \in [SpecIds -> Row \cup {None}] /\ replica' \in [SpecIds -> Row \cup {None}]
BY Shapes DEF Put

-----------------------------------------------------------------------------
(* Types                                                                   *)

LEMMA InitTyped == Init => Typed
<1> SUFFICES ASSUME Init PROVE Typed
  OBVIOUS
<1>1. IsFiniteSet(queue)
  BY FS_EmptySet DEF Init
<1>2. \A w \in Workers : worker[w].pc # "store"
  BY DEF Init, NoWork
<1>3. TypeOK
  BY SpecReviewAssumption DEF Init, TypeOK, SpecReviewAssumption
<1> QED BY <1>1, <1>2, <1>3 DEF Typed

LEMMA GenerateTyped ==
  ASSUME Typed, Generate
  PROVE  Typed'
<1> USE SpecReviewAssumption DEF SpecReviewAssumption
<1>1. PICK i \in SpecIds : \E c \in Generated :
        /\ Put(i, [status |-> "draft", content |-> c, version |-> 1])
        /\ newest' = i
  BY DEF Generate
<1>2. PICK c \in Generated : Put(i, [status |-> "draft", content |-> c, version |-> 1])
  BY <1>1
<1>3. [status |-> "draft", content |-> c, version |-> 1] \in Row
  BY DEF Row, Statuses, Contents
<1>4. spec' \in [SpecIds -> Row \cup {None}] /\ replica' \in [SpecIds -> Row \cup {None}]
  BY <1>2, <1>3, PutTyped DEF Typed
<1> QED BY <1>1, <1>4 DEF Generate, Typed, TypeOK, bounds, bus

LEMMA BeginTyped ==
  ASSUME Typed, NEW r \in Requests, Begin(r)
  PROVE  Typed'
<1> USE SpecReviewAssumption DEF SpecReviewAssumption
<1>1. requests' = requests + 1 /\ requests \in Nat /\ requests < MaxRequests
  BY DEF Begin, Typed, TypeOK
<1>2. PICK row \in RequestRow : req' = [req EXCEPT ![r] = row]
  <2>1. PICK i \in SpecIds : \E copy \in Reads(i) :
       \/ \E c \in Edits \cap Valid :
            req' = [req EXCEPT ![r] = [pc |-> "put", op |-> "edit", spec |-> i,
                                       copy |-> copy, content |-> c, n |-> requests']]
       \/ \E op \in {"approve", "reject"} :
            req' = [req EXCEPT ![r] = [pc |-> "put", op |-> op, spec |-> i,
                                       copy |-> copy, content |-> copy.content,
                                       n |-> requests']]
    BY DEF Begin
  <2>2. PICK copy \in Reads(i) :
       \/ \E c \in Edits \cap Valid :
            req' = [req EXCEPT ![r] = [pc |-> "put", op |-> "edit", spec |-> i,
                                       copy |-> copy, content |-> c, n |-> requests']]
       \/ \E op \in {"approve", "reject"} :
            req' = [req EXCEPT ![r] = [pc |-> "put", op |-> op, spec |-> i,
                                       copy |-> copy, content |-> copy.content,
                                       n |-> requests']]
    BY <2>1
  <2>3. copy \in Row /\ copy.content \in Contents
    BY ReadsRow DEF Typed, Row
  <2>4. requests' \in 1..MaxRequests
    BY <1>1
  <2>5. \A c \in Contents, op \in Actions :
          [pc |-> "put", op |-> op, spec |-> i, copy |-> copy, content |-> c, n |-> requests']
            \in RequestRow
    BY <2>3, <2>4 DEF RequestRow
  <2> QED BY <2>2, <2>3, <2>5 DEF Actions, Contents
<1>3. req' \in [Requests -> RequestRow \cup {NoRequest}]
  BY <1>2, Shapes DEF Typed
<1>4. requests' \in 0..MaxRequests
  BY <1>1
<1> QED BY <1>3, <1>4 DEF Begin, Typed, TypeOK, RequestRow, rows, bus

\* A request that goes on, or is over.
LEMMA RequestTyped ==
  ASSUME TypeOK, NEW r \in Requests, req[r].pc # "idle",
         \/ req' = [req EXCEPT ![r] = NoRequest]
         \/ \E pc \in {"publish", "feedback"} : req' = [req EXCEPT ![r].pc = pc]
  PROVE  req' \in [Requests -> RequestRow \cup {NoRequest}]
<1>1. req \in [Requests -> RequestRow \cup {NoRequest}] /\ req[r] \in RequestRow
  BY Shapes
<1>2. CASE req' = [req EXCEPT ![r] = NoRequest]
  BY <1>1, <1>2
<1>3. ASSUME NEW pc \in {"publish", "feedback"}, req' = [req EXCEPT ![r].pc = pc]
      PROVE  req' \in [Requests -> RequestRow \cup {NoRequest}]
  <2>1. [req[r] EXCEPT !.pc = pc] \in RequestRow
    BY <1>1 DEF RequestRow
  <2> QED BY <1>1, <1>3, <2>1
<1> QED BY <1>2, <1>3

LEMMA SendTyped ==
  ASSUME Typed, NEW e \in Event, Send(e)
  PROVE  /\ queue' \subseteq archive' /\ archive' \subseteq Event /\ IsFiniteSet(queue')
         /\ UNCHANGED <<replayed, replays, skipped>>
BY FS_AddElement DEF Send, Typed, TypeOK

\* The row an operator puts back is a row, and is noted as one.
LEMMA PutBackTyped ==
  ASSUME Typed, NEW i \in SpecIds, NEW row \in Row, NEW by \in Actions,
         Put(i, row), Note(i, row, by), req' \in [Requests -> RequestRow \cup {NoRequest}],
         UNCHANGED <<newest, bus, worker, site, feedback, bounds, published>>
  PROVE  Typed'
<1>1. spec' \in [SpecIds -> Row \cup {None}] /\ replica' \in [SpecIds -> Row \cup {None}]
  BY PutTyped DEF Typed
<1>2. row.content \in Contents
  BY DEF Row
<1>3. vetted' \subseteq SpecIds \X Contents /\ reverted' \subseteq SpecIds
  BY <1>2 DEF Note, Typed, TypeOK
<1>4. approvals' \in [SpecIds -> Nat]
  BY DEF Note, Typed, TypeOK
<1> QED BY <1>1, <1>3, <1>4 DEF Typed, TypeOK, RequestRow, bounds, bus

LEMMA HandleTyped ==
  ASSUME Typed, NEW r \in Requests, HandleRequest(r)
  PROVE  Typed'
<1> USE SpecReviewAssumption DEF SpecReviewAssumption
<1>0. TypeOK
  BY DEF Typed
<1>1. req[r].pc # "idle" /\ req[r] \in RequestRow
  <2>1. req[r].pc \in {"put", "publish", "feedback"}
    BY DEF HandleRequest, PutEdit, PutDecision, Publish, FailPublish, FailRequest, CaptureFeedback
  <2> QED BY <1>0, <2>1, Shapes
<1>2. /\ req[r].spec \in SpecIds /\ req[r].content \in Contents /\ req[r].op \in Actions
      /\ req[r].copy \in Row /\ req[r].n \in 1..MaxRequests
  BY <1>1 DEF RequestRow
<1>3. req' \in [Requests -> RequestRow \cup {NoRequest}]
  BY <1>0, <1>1, RequestTyped
     DEF HandleRequest, PutEdit, PutDecision, Publish, FailPublish, FailRequest, CaptureFeedback
<1>4. CASE PutEdit(r)
  <2> DEFINE row == [req[r].copy EXCEPT !.content = req[r].content, !.version = @ + 1]
  <2>4. req[r].copy.version + 1 \in Nat
    BY <1>2 DEF Row
  <2>1. row \in Row
    BY <1>2, <2>4 DEF Row
  <2>2. Put(req[r].spec, row) /\ Note(req[r].spec, row, "edit")
    BY <1>4 DEF PutEdit
  <2> HIDE DEF row
  <2>3. UNCHANGED <<newest, bus, worker, site, feedback, bounds, published>>
    BY <1>4 DEF PutEdit
  <2> QED BY <1>2, <1>3, <2>1, <2>2, <2>3, PutBackTyped DEF Actions
<1>5. CASE PutDecision(r)
  <2> DEFINE row == [req[r].copy EXCEPT
                       !.status = IF req[r].op = "approve" THEN "approved" ELSE "rejected"]
  <2>1. row \in Row
    BY <1>2 DEF Row, Statuses
  <2>2. Put(req[r].spec, row) /\ Note(req[r].spec, row, req[r].op)
    BY <1>5 DEF PutDecision
  <2> HIDE DEF row
  <2>3. UNCHANGED <<newest, bus, worker, site, feedback, bounds, published>>
    BY <1>5 DEF PutDecision
  <2> QED BY <1>2, <1>3, <2>1, <2>2, <2>3, PutBackTyped
<1>6. CASE Publish(r)
  <2>1. [spec |-> req[r].spec, site |-> None, n |-> req[r].n] \in Event
    BY <1>2 DEF Event
  <2>2. /\ queue' \subseteq archive' /\ archive' \subseteq Event /\ IsFiniteSet(queue')
        /\ UNCHANGED <<replayed, replays, skipped>>
    <3>1. CASE req[r].op = "approve"
      BY <1>6, <2>1, <3>1, SendTyped DEF Publish
    <3>2. CASE req[r].op # "approve"
      BY <1>6, <3>2 DEF Publish, bus, Typed, TypeOK
    <3> QED BY <3>1, <3>2
  <2>4. published' \subseteq SpecIds \X Actions \X Contents
    BY <1>2, <1>6 DEF Publish, Typed, TypeOK
  <2> QED BY <1>3, <1>6, <2>2, <2>4 DEF Publish, Typed, TypeOK, RequestRow, rows, bounds, bus
<1>7. CASE FailPublish(r) \/ FailRequest(r)
  BY <1>3, <1>7 DEF FailPublish, FailRequest, Fault, Typed, TypeOK, RequestRow, rows, bus
<1>8. CASE CaptureFeedback(r)
  <2>1. feedback' \subseteq SpecIds \X Actions \X Contents
    BY <1>2, <1>8 DEF CaptureFeedback, Typed, TypeOK
  <2> QED BY <1>3, <1>8, <2>1 DEF CaptureFeedback, Typed, TypeOK, RequestRow, rows, bounds, bus
<1> QED BY <1>4, <1>5, <1>6, <1>7, <1>8 DEF HandleRequest

LEMMA RegenerateTyped ==
  ASSUME Typed, RequestRegenerate
  PROVE  Typed'
<1> USE SpecReviewAssumption DEF SpecReviewAssumption
<1>1. PICK n \in Sites :
        /\ site[n] # None
        /\ Send([spec |-> site[n].spec, site |-> n, n |-> requests'])
  BY DEF RequestRegenerate
<1>2. site[n].spec \in SpecIds
  BY <1>1, Shapes DEF Typed, SiteRow
<1>3. requests' \in 1..MaxRequests
  BY DEF RequestRegenerate, Typed, TypeOK
<1>4. [spec |-> site[n].spec, site |-> n, n |-> requests'] \in Event
  BY <1>2, <1>3 DEF Event
<1>5. /\ queue' \subseteq archive' /\ archive' \subseteq Event /\ IsFiniteSet(queue')
      /\ UNCHANGED <<replayed, replays, skipped>>
  BY <1>1, <1>4, SendTyped
<1> QED BY <1>3, <1>5 DEF RequestRegenerate, Typed, TypeOK, rows, bus

LEMMA ReplayTyped ==
  ASSUME Typed, Replay
  PROVE  Typed'
<1> USE SpecReviewAssumption DEF SpecReviewAssumption
<1>1. PICK e \in archive \ queue :
        /\ queue' = queue \cup {e}
        /\ replays' = IF e.site = None THEN [replays EXCEPT ![e.spec] = @ + 1] ELSE replays
  BY DEF Replay
<1>2. queue' \subseteq archive /\ IsFiniteSet(queue')
  BY <1>1, FS_AddElement DEF Typed, TypeOK
<1>3. replays' \in [SpecIds -> Nat]
  BY <1>1 DEF Typed, TypeOK, Event
<1>4. replayed' \in 0..MaxReplays
  BY DEF Replay, Typed, TypeOK
<1> QED BY <1>2, <1>3, <1>4 DEF Replay, Typed, TypeOK, rows, bounds

LEMMA WorkTyped ==
  ASSUME Typed, NEW w \in Workers, Work(w)
  PROVE  Typed'
<1> USE SpecReviewAssumption DEF SpecReviewAssumption
<1>0. TypeOK /\ worker \in [Workers -> WorkRow \cup {NoWork}]
  BY Shapes DEF Typed
<1>1. NoWork.pc = "idle"
  BY DEF NoWork
<1>a. ASSUME NEW row \in WorkRow \cup {NoWork}, worker' = [worker EXCEPT ![w] = row],
             row.pc = "store" => row.content \in Contents
      PROVE  /\ worker' \in [Workers -> WorkRow \cup {NoWork}]
             /\ \A x \in Workers : worker'[x].pc = "store" => worker'[x].content \in Contents
  BY <1>0, <1>a DEF Typed
<1>2. CASE Take(w)
  <2>1. PICK e \in queue :
          /\ queue' = queue \ {e}
          /\ worker' = [worker EXCEPT ![w] = [pc |-> "load", event |-> e, content |-> None]]
    BY <1>2 DEF Take
  <2>2. [pc |-> "load", event |-> e, content |-> None] \in WorkRow
    BY <1>0 DEF TypeOK, WorkRow
  <2>3. /\ worker' \in [Workers -> WorkRow \cup {NoWork}]
        /\ \A x \in Workers : worker'[x].pc = "store" => worker'[x].content \in Contents
    BY <1>a, <2>1, <2>2
  <2>4. IsFiniteSet(queue') /\ queue' \subseteq archive
    BY <1>0, <2>1, FS_RemoveElement DEF Typed, TypeOK
  <2> QED BY <1>2, <2>3, <2>4 DEF Take, Typed, TypeOK, WorkRow, rows, bounds, bus
<1>3. CASE Load(w)
  <2>1. worker[w] \in WorkRow /\ worker[w].event.spec \in SpecIds
    BY <1>0, <1>3, Shapes DEF Load, WorkRow, Event
  <2>2. CASE worker' = [worker EXCEPT ![w] = NoWork]
    <3>1. /\ worker' \in [Workers -> WorkRow \cup {NoWork}]
          /\ \A x \in Workers : worker'[x].pc = "store" => worker'[x].content \in Contents
      BY <1>1, <1>a, <2>2
    <3> QED BY <1>3, <3>1 DEF Load, Typed, TypeOK, WorkRow, rows, bounds, bus
  <2>3. CASE \E copy \in Reads(worker[w].event.spec) :
               worker' = [worker EXCEPT ![w].pc = "store", ![w].content = copy.content]
    <3>1. PICK copy \in Reads(worker[w].event.spec) :
               worker' = [worker EXCEPT ![w].pc = "store", ![w].content = copy.content]
      BY <2>3
    <3>2. copy.content \in Contents
      BY <1>0, <2>1, ReadsRow DEF Row
    <3> DEFINE row == [worker[w] EXCEPT !.pc = "store", !.content = copy.content]
    <3>3. row \in WorkRow /\ row.content \in Contents
      BY <2>1, <3>2 DEF WorkRow
    <3>4. worker' = [worker EXCEPT ![w] = row]
      BY <1>0, <3>1
    <3>5. /\ worker' \in [Workers -> WorkRow \cup {NoWork}]
          /\ \A x \in Workers : worker'[x].pc = "store" => worker'[x].content \in Contents
      BY <1>a, <3>3, <3>4
    <3> QED BY <1>3, <3>5 DEF Load, Typed, TypeOK, WorkRow, rows, bounds, bus
  <2> QED BY <1>3, <2>2, <2>3 DEF Load
<1>4. CASE Store(w)
  <2>1. /\ worker[w] \in WorkRow /\ worker[w].event.spec \in SpecIds
        /\ worker[w].content \in Contents
    BY <1>0, <1>4, Shapes DEF Store, WorkRow, Event, Typed
  <2>4. PICK n : site' = [site EXCEPT ![n] = [spec |-> worker[w].event.spec,
                                              content |-> worker[w].content]]
    BY <1>4 DEF Store
  <2>5. [spec |-> worker[w].event.spec, content |-> worker[w].content] \in SiteRow
    BY <2>1 DEF SiteRow
  <2>2. site' \in [Sites -> SiteRow \cup {None}]
    BY <1>0, <2>4, <2>5, Shapes
  <2>3. /\ worker' \in [Workers -> WorkRow \cup {NoWork}]
        /\ \A x \in Workers : worker'[x].pc = "store" => worker'[x].content \in Contents
    BY <1>1, <1>4, <1>a DEF Store
  <2> QED BY <1>4, <2>2, <2>3 DEF Store, Typed, TypeOK, WorkRow, SiteRow, rows, bounds, bus
<1>5. CASE FailWork(w)
  <2>1. /\ worker' \in [Workers -> WorkRow \cup {NoWork}]
        /\ \A x \in Workers : worker'[x].pc = "store" => worker'[x].content \in Contents
    BY <1>1, <1>5, <1>a DEF FailWork
  <2> QED BY <1>5, <2>1 DEF FailWork, Fault, Typed, TypeOK, WorkRow, rows, bus
<1>6. CASE Skip(w)
  <2>1. PICK e \in queue : queue' = queue \ {e} /\ skipped' = skipped \cup {e.spec}
    BY <1>6 DEF Skip
  <2>2. IsFiniteSet(queue') /\ queue' \subseteq archive /\ skipped' \subseteq SpecIds
    BY <1>0, <2>1, FS_RemoveElement DEF Typed, TypeOK, Event
  <2> QED BY <1>6, <2>2 DEF Skip, Typed, TypeOK, WorkRow, rows, bounds
<1> QED BY <1>2, <1>3, <1>4, <1>5, <1>6 DEF Work

LEMMA StepTyped == Typed /\ [Next]_vars => Typed'
<1> SUFFICES ASSUME Typed, [Next]_vars PROVE Typed'
  OBVIOUS
<1>1. ASSUME NEW i \in SpecIds, Replicate(i) PROVE Typed'
  BY <1>1, Shapes DEF Replicate, Typed, TypeOK, bounds, bus
<1>2. CASE UNCHANGED vars
  BY <1>2 DEF vars, Typed, TypeOK
<1> QED BY <1>1, <1>2, GenerateTyped, RegenerateTyped, ReplayTyped, BeginTyped, HandleTyped,
           WorkTyped DEF Next

-----------------------------------------------------------------------------
(* What is rendered, and what feedback is kept                             *)

\* A row that says approved, and the copy a reader may get of it, was vetted;
\* what a worker is about to store was read from such a copy.
Vetted ==
  /\ \A i \in SpecIds : \A row \in {spec[i], replica[i]} :
       row # None /\ row.status = "approved" => <<i, row.content>> \in vetted
  /\ \A w \in Workers :
       worker[w].pc = "store" => <<worker[w].event.spec, worker[w].content>> \in vetted
  /\ RenderedWasVetted

\* A decision waits for its feedback row only after its event.
Published ==
  /\ \A r \in Requests :
       req[r].pc = "feedback" /\ req[r].op # "edit"
         => <<req[r].spec, req[r].op, req[r].content>> \in published
  /\ FeedbackAfterEvent

LEMMA InitVetted == Init => Vetted /\ Published
BY DEF Init, Vetted, RenderedWasVetted, Published, FeedbackAfterEvent, NoWork, NoRequest

LEMMA PutVetted ==
  ASSUME Typed, Vetted, NEW i \in SpecIds, NEW row \in Row, NEW by \in Actions,
         Put(i, row), Note(i, row, by), UNCHANGED <<worker, site>>
  PROVE  Vetted'
<1>1. vetted \subseteq vetted' /\ (row.status = "approved" => <<i, row.content>> \in vetted')
  BY DEF Note
<1>2. spec'[i] = row /\ replica'[i] \in {spec[i], row}
  BY Shapes DEF Put, Typed
<1>3. \A x \in SpecIds \ {i} : spec'[x] = spec[x] /\ replica'[x] = replica[x]
  BY Shapes DEF Put, Typed
<1>4. ASSUME NEW x \in SpecIds, NEW copy \in {spec'[x], replica'[x]},
             copy # None, copy.status = "approved"
      PROVE  <<x, copy.content>> \in vetted'
  BY <1>1, <1>2, <1>3, <1>4 DEF Vetted
<1> QED BY <1>1, <1>4 DEF Vetted, RenderedWasVetted

LEMMA StepVetted ==
  ASSUME Typed, Vetted, [Next]_vars
  PROVE  Vetted'
<1>0. TypeOK
  BY DEF Typed
<1>1. CASE UNCHANGED <<spec, replica, worker, site, vetted>>
  BY <1>1 DEF Vetted, RenderedWasVetted
<1>2. CASE Generate
  <2>1. PICK i \in SpecIds : \E c \in Generated :
          Put(i, [status |-> "draft", content |-> c, version |-> 1])
    BY <1>2 DEF Generate
  <2>2. PICK c \in Generated : Put(i, [status |-> "draft", content |-> c, version |-> 1])
    BY <2>1
  <2> DEFINE row == [status |-> "draft", content |-> c, version |-> 1]
  <2>3. spec'[i] = row /\ replica'[i] \in {spec[i], row} /\ row.status # "approved"
    BY <1>0, <2>2, Shapes DEF Put
  <2>4. \A x \in SpecIds \ {i} : spec'[x] = spec[x] /\ replica'[x] = replica[x]
    BY <1>0, <2>2, Shapes DEF Put
  <2>5. UNCHANGED <<vetted, worker, site>>
    BY <1>2 DEF Generate
  <2> HIDE DEF row
  <2> QED BY <2>3, <2>4, <2>5 DEF Vetted, RenderedWasVetted
<1>3. ASSUME NEW r \in Requests, PutEdit(r) \/ PutDecision(r) PROVE Vetted'
  <2>1. req[r] \in RequestRow
    <3>1. req[r].pc # "idle"
      BY <1>3 DEF PutEdit, PutDecision
    <3> QED BY <1>0, <3>1, Shapes
  <2>2. /\ req[r].spec \in SpecIds /\ req[r].content \in Contents /\ req[r].op \in Actions
        /\ req[r].copy \in Row /\ req[r].copy.version + 1 \in Nat
    BY <2>1 DEF RequestRow, Row
  <2>3. PICK row \in Row, by \in Actions : Put(req[r].spec, row) /\ Note(req[r].spec, row, by)
    <3>1. CASE PutEdit(r)
      <4> DEFINE row == [req[r].copy EXCEPT !.content = req[r].content, !.version = @ + 1]
      <4>1. row \in Row
        BY <2>2 DEF Row
      <4>2. Put(req[r].spec, row) /\ Note(req[r].spec, row, "edit")
        BY <3>1 DEF PutEdit
      <4> HIDE DEF row
      <4> QED BY <4>1, <4>2 DEF Actions
    <3>2. CASE PutDecision(r)
      <4> DEFINE row == [req[r].copy EXCEPT
                           !.status = IF req[r].op = "approve" THEN "approved" ELSE "rejected"]
      <4>1. row \in Row
        BY <2>2 DEF Row, Statuses
      <4>2. Put(req[r].spec, row) /\ Note(req[r].spec, row, req[r].op)
        BY <3>2 DEF PutDecision
      <4> HIDE DEF row
      <4> QED BY <2>2, <4>1, <4>2
    <3> QED BY <1>3, <3>1, <3>2
  <2>4. UNCHANGED <<worker, site>>
    BY <1>3 DEF PutEdit, PutDecision
  <2> QED BY <2>2, <2>3, <2>4, PutVetted
<1>4. ASSUME NEW w \in Workers, Work(w) PROVE Vetted'
  <2>0. worker \in [Workers -> WorkRow \cup {NoWork}] /\ NoWork.pc = "idle"
    BY <1>0, Shapes DEF NoWork
  <2>1. UNCHANGED rows
    BY <1>4 DEF Work, Take, Skip, Load, Store, FailWork
  <2>2. \A x \in Workers \ {w} : worker'[x] = worker[x]
    BY <1>4, <2>0 DEF Work, Take, Skip, Load, Store, FailWork
  <2>3. worker'[w].pc = "store" => <<worker'[w].event.spec, worker'[w].content>> \in vetted
    <3>1. CASE Load(w)
      <4>1. worker[w] \in WorkRow /\ worker[w].event.spec \in SpecIds
        BY <1>0, <3>1, Shapes DEF Load, WorkRow, Event
      <4>2. CASE worker' = [worker EXCEPT ![w] = NoWork]
        BY <2>0, <4>2
      <4>3. ASSUME NEW copy \in Reads(worker[w].event.spec), copy.status = "approved",
                   worker' = [worker EXCEPT ![w].pc = "store", ![w].content = copy.content]
            PROVE  <<worker'[w].event.spec, worker'[w].content>> \in vetted
        <5>1. copy \in {spec[worker[w].event.spec], replica[worker[w].event.spec]} /\ copy # None
          BY <1>0, <4>1, ReadsRow
        <5>2. <<worker[w].event.spec, copy.content>> \in vetted
          BY <4>1, <4>3, <5>1 DEF Vetted
        <5>3. worker'[w].event = worker[w].event /\ worker'[w].content = copy.content
          BY <2>0, <4>1, <4>3 DEF WorkRow
        <5> QED BY <5>2, <5>3
      <4> QED BY <3>1, <4>2, <4>3 DEF Load
    <3>2. CASE ~Load(w)
      BY <1>4, <2>0, <3>2 DEF Work, Take, Skip, Store, FailWork
    <3> QED BY <3>1, <3>2
  <2>4. RenderedWasVetted'
    <3>1. CASE Store(w)
      <4>1. PICK n : site' = [site EXCEPT ![n] = [spec |-> worker[w].event.spec,
                                                  content |-> worker[w].content]]
        BY <3>1 DEF Store
      <4>2. <<worker[w].event.spec, worker[w].content>> \in vetted
        BY <3>1 DEF Store, Vetted
      <4> QED BY <1>0, <2>1, <4>1, <4>2, Shapes DEF rows, Vetted, RenderedWasVetted
    <3>2. CASE ~Store(w)
      <4>1. UNCHANGED site
        BY <1>4, <3>2 DEF Work, Take, Skip, Load, FailWork
      <4> QED BY <2>1, <4>1 DEF rows, Vetted, RenderedWasVetted
    <3> QED BY <3>1, <3>2
  <2> QED BY <2>1, <2>2, <2>3, <2>4 DEF rows, Vetted
<1>5. ASSUME NEW i \in SpecIds, Replicate(i) PROVE Vetted'
  BY <1>0, <1>5, Shapes DEF Replicate, Vetted, RenderedWasVetted
<1>6. ASSUME NEW r \in Requests,
             Begin(r) \/ Publish(r) \/ FailPublish(r) \/ FailRequest(r) \/ CaptureFeedback(r)
      PROVE  UNCHANGED <<spec, replica, worker, site, vetted>>
  BY <1>6 DEF Begin, Publish, FailPublish, FailRequest, CaptureFeedback, rows
<1>7. RequestRegenerate \/ Replay \/ UNCHANGED vars
        => UNCHANGED <<spec, replica, worker, site, vetted>>
  BY DEF RequestRegenerate, Replay, rows, vars
<1> QED BY <1>1, <1>2, <1>3, <1>4, <1>5, <1>6, <1>7 DEF Next, HandleRequest

LEMMA StepPublished ==
  ASSUME Typed, Published, [Next]_vars
  PROVE  Published'
<1>0. req \in [Requests -> RequestRow \cup {NoRequest}] /\ NoRequest.pc = "idle"
  BY Shapes DEF Typed, NoRequest
<1>1. CASE UNCHANGED <<req, feedback, published>>
  BY <1>1 DEF Published, FeedbackAfterEvent
<1>2. ASSUME NEW r \in Requests, Begin(r) PROVE Published'
  <2>1. /\ \A x \in Requests \ {r} : req'[x] = req[x]
        /\ req'[r].pc = "put"
        /\ UNCHANGED <<feedback, published>>
    BY <1>0, <1>2 DEF Begin
  <2> QED BY <2>1 DEF Published, FeedbackAfterEvent
<1>3. ASSUME NEW r \in Requests, HandleRequest(r) PROVE Published'
  <2>1. req[r] \in RequestRow
    <3>1. req[r].pc # "idle"
      BY <1>3 DEF HandleRequest, PutEdit, PutDecision, Publish, FailPublish, FailRequest,
                  CaptureFeedback
    <3> QED BY <3>1, Shapes DEF Typed
  <2>2. \A x \in Requests \ {r} : req'[x] = req[x]
    BY <1>0, <1>3 DEF HandleRequest, PutEdit, PutDecision, Publish, FailPublish, FailRequest,
                      CaptureFeedback
  <2>3. published \subseteq published'
    BY <1>3 DEF HandleRequest, PutEdit, PutDecision, Publish, FailPublish, FailRequest,
                CaptureFeedback
  <2>4. CASE PutEdit(r)
    <3>1. req'[r].op = "edit" /\ UNCHANGED <<feedback, published>>
      BY <1>0, <2>1, <2>4 DEF PutEdit, RequestRow
    <3> QED BY <2>2, <3>1 DEF Published, FeedbackAfterEvent
  <2>5. CASE PutDecision(r)
    <3>1. req'[r].pc = "publish" /\ UNCHANGED <<feedback, published>>
      BY <1>0, <2>1, <2>5 DEF PutDecision, RequestRow
    <3> QED BY <2>2, <3>1 DEF Published, FeedbackAfterEvent
  <2>6. CASE Publish(r)
    <3>1. /\ req'[r].op = req[r].op /\ req'[r].spec = req[r].spec
          /\ req'[r].content = req[r].content
      BY <1>0, <2>1, <2>6 DEF Publish, RequestRow
    <3>2. <<req[r].spec, req[r].op, req[r].content>> \in published' /\ UNCHANGED feedback
      BY <2>6 DEF Publish
    <3> QED BY <2>2, <2>3, <3>1, <3>2 DEF Published, FeedbackAfterEvent
  <2>7. CASE FailPublish(r) \/ FailRequest(r)
    <3>1. req'[r].pc = "idle" /\ UNCHANGED <<feedback, published>>
      BY <1>0, <2>7 DEF FailPublish, FailRequest
    <3> QED BY <2>2, <3>1 DEF Published, FeedbackAfterEvent
  <2>8. CASE CaptureFeedback(r)
    <3>1. req'[r].pc = "idle" /\ UNCHANGED published
      BY <1>0, <2>8 DEF CaptureFeedback
    <3>2. feedback' = feedback \cup {<<req[r].spec, req[r].op, req[r].content>>}
          /\ req[r].pc = "feedback"
      BY <2>8 DEF CaptureFeedback
    <3> QED BY <2>2, <3>1, <3>2 DEF Published, FeedbackAfterEvent
  <2> QED BY <1>3, <2>4, <2>5, <2>6, <2>7, <2>8 DEF HandleRequest
<1>4. ASSUME NEW w \in Workers, Work(w) PROVE UNCHANGED <<req, feedback, published>>
  BY <1>4 DEF Work, Take, Skip, Load, Store, FailWork
<1>5. ASSUME NEW i \in SpecIds, Replicate(i) PROVE UNCHANGED <<req, feedback, published>>
  BY <1>5 DEF Replicate
<1>6. Generate \/ RequestRegenerate \/ Replay \/ UNCHANGED vars
        => UNCHANGED <<req, feedback, published>>
  BY DEF Generate, RequestRegenerate, Replay, vars
<1> QED BY <1>1, <1>2, <1>3, <1>4, <1>5, <1>6 DEF Next

-----------------------------------------------------------------------------
(* Sites, approvals and replays                                            *)

\* Where an approval of spec i, or a replay of one, that has no site yet may be,
\* and its sites.
Deciding(i) == {r \in Requests : req[r].pc = "publish" /\ req[r].op = "approve" /\ req[r].spec = i}
Queued(i) == {e \in queue : e.site = None /\ e.spec = i}
Busy(i) == {w \in Workers : worker[w].pc # "idle"
                              /\ worker[w].event.site = None /\ worker[w].event.spec = i}
Minted(i) == {n \in Sites : site[n] # None /\ site[n].spec = i}

Unspent(i) == Cardinality(Deciding(i)) + Cardinality(Queued(i)) + Cardinality(Busy(i))

\* What may still mint a site of spec i, and the sites of it: no more than its
\* approvals and the replays of them.
Bound(i) == Unspent(i) + Cardinality(Minted(i)) <= approvals[i] + replays[i]

\* Each approval and replay is in one place, and an event that carries a site,
\* archived or on its way, is of the spec of that site.
Spent ==
  /\ \A i \in SpecIds : Bound(i)
  /\ \A e \in archive : e.site # None => e.site \in Minted(e.spec)
  /\ \A w \in Workers :
       worker[w].pc # "idle" /\ worker[w].event.site # None
         => worker[w].event.site \in Minted(worker[w].event.spec)

LEMMA Finite ==
  ASSUME Typed, NEW i \in SpecIds
  PROVE  /\ IsFiniteSet(Deciding(i)) /\ IsFiniteSet(Queued(i))
         /\ IsFiniteSet(Busy(i)) /\ IsFiniteSet(Minted(i))
         /\ Cardinality(Deciding(i)) \in Nat /\ Cardinality(Queued(i)) \in Nat
         /\ Cardinality(Busy(i)) \in Nat /\ Cardinality(Minted(i)) \in Nat
<1>1. IsFiniteSet(Requests) /\ IsFiniteSet(Workers) /\ IsFiniteSet(Sites) /\ IsFiniteSet(queue)
  BY SpecReviewAssumption, FS_Interval DEF SpecReviewAssumption, Sites, Typed
<1>2. /\ Deciding(i) \subseteq Requests /\ Queued(i) \subseteq queue
      /\ Busy(i) \subseteq Workers /\ Minted(i) \subseteq Sites
  BY DEF Deciding, Queued, Busy, Minted
<1>3. /\ IsFiniteSet(Deciding(i)) /\ IsFiniteSet(Queued(i))
      /\ IsFiniteSet(Busy(i)) /\ IsFiniteSet(Minted(i))
  BY <1>1, <1>2, FS_Subset
<1> QED BY <1>3, FS_CardinalityType

\* What a set may gain or lose in one step.
LEMMA Gains ==
  ASSUME NEW S, NEW T, NEW x, IsFiniteSet(S), T \subseteq S \cup {x}
  PROVE  Cardinality(T) <= Cardinality(S) + 1
<1>0. Cardinality(S) \in Nat
  BY FS_CardinalityType
<1>1. CASE x \in S
  <2>1. T \subseteq S
    BY <1>1
  <2>2. IsFiniteSet(T) /\ Cardinality(T) <= Cardinality(S)
    BY <2>1, FS_Subset
  <2>3. Cardinality(T) \in Nat
    BY <2>2, FS_CardinalityType
  <2> QED BY <1>0, <2>2, <2>3
<1>2. CASE x \notin S
  <2>1. IsFiniteSet(S \cup {x}) /\ Cardinality(S \cup {x}) = Cardinality(S) + 1
    BY <1>2, FS_AddElement
  <2> QED BY <2>1, FS_Subset
<1> QED BY <1>1, <1>2

LEMMA Loses ==
  ASSUME NEW S, NEW T, NEW x \in S, IsFiniteSet(S), T \subseteq S \ {x}
  PROVE  Cardinality(T) <= Cardinality(S) - 1
<1>1. IsFiniteSet(S \ {x}) /\ Cardinality(S \ {x}) = Cardinality(S) - 1
  BY FS_RemoveElement
<1> QED BY <1>1, FS_Subset

\* The sets of one spec after a step, by what the step did to it.
Same(i) ==
  /\ Deciding(i)' \subseteq Deciding(i) /\ Queued(i)' \subseteq Queued(i)
  /\ Busy(i)' \subseteq Busy(i) /\ Minted(i)' \subseteq Minted(i)

LEMMA SameBound ==
  ASSUME Typed, Typed', NEW i \in SpecIds, Bound(i), Same(i), approvals'[i] >= approvals[i],
         replays'[i] = replays[i]
  PROVE  Bound(i)'
<1>1. /\ Cardinality(Deciding(i)') <= Cardinality(Deciding(i))
      /\ Cardinality(Queued(i)') <= Cardinality(Queued(i))
      /\ Cardinality(Busy(i)') <= Cardinality(Busy(i))
      /\ Cardinality(Minted(i)') <= Cardinality(Minted(i))
  BY Finite, FS_Subset DEF Same
<1>2. /\ Cardinality(Deciding(i)') \in Nat /\ Cardinality(Queued(i)') \in Nat
      /\ Cardinality(Busy(i)') \in Nat /\ Cardinality(Minted(i)') \in Nat
  <2>1. /\ IsFiniteSet(Deciding(i)') /\ IsFiniteSet(Queued(i)')
        /\ IsFiniteSet(Busy(i)') /\ IsFiniteSet(Minted(i)')
    BY Finite, FS_Subset DEF Same
  <2> QED BY <2>1, FS_CardinalityType
<1>3. approvals[i] \in Nat /\ approvals'[i] \in Nat /\ replays[i] \in Nat
  BY DEF Typed, TypeOK
<1> QED BY <1>1, <1>2, <1>3, Finite DEF Bound, Unspent

LEMMA InitSpent == Init => Spent
<1> SUFFICES ASSUME Init PROVE Spent
  OBVIOUS
<1>1. ASSUME NEW i \in SpecIds PROVE Bound(i)
  <2>1. Deciding(i) = {} /\ Queued(i) = {} /\ Busy(i) = {} /\ Minted(i) = {}
    BY DEF Init, Deciding, Queued, Busy, Minted, NoRequest, NoWork
  <2>2. approvals[i] = 0 /\ replays[i] = 0
    BY DEF Init
  <2> QED BY <2>1, <2>2, FS_EmptySet DEF Bound, Unspent
<1> QED BY <1>1 DEF Init, Spent, NoWork

\* A decision stored as approved may mint one site.
LEMMA PutSpent ==
  ASSUME Typed, Typed', Spent, NEW r \in Requests, PutEdit(r) \/ PutDecision(r)
  PROVE  Spent'
<1>0. /\ req \in [Requests -> RequestRow \cup {NoRequest}] /\ req[r] \in RequestRow
      /\ approvals \in [SpecIds -> Nat] /\ replays \in [SpecIds -> Nat]
  <2>1. req[r].pc # "idle"
    BY DEF PutEdit, PutDecision
  <2> QED BY <2>1, Shapes DEF Typed, TypeOK
<1>1. UNCHANGED <<queue, archive, replays, worker, site>> /\ req[r].pc = "put"
  BY DEF PutEdit, PutDecision, bus
<1>2. ASSUME NEW i \in SpecIds PROVE Bound(i)'
  <2>1. /\ Bound(i) /\ replays[i] \in Nat /\ replays'[i] = replays[i]
        /\ Queued(i)' = Queued(i) /\ Busy(i)' = Busy(i) /\ Minted(i)' = Minted(i)
    BY <1>0, <1>1 DEF Spent, Queued, Busy, Minted
  <2>2. CASE PutDecision(r) /\ req[r].op = "approve" /\ req[r].spec = i
    <3>1. approvals'[i] = approvals[i] + 1
      BY <1>0, <2>2 DEF PutDecision, Note
    <3>2. Deciding(i)' \subseteq Deciding(i) \cup {r}
      BY <1>0, <2>2 DEF PutDecision, Deciding
    <3>3. Cardinality(Deciding(i)') <= Cardinality(Deciding(i)) + 1
      BY <3>2, Gains, Finite
    <3>4. Cardinality(Deciding(i)') \in Nat
      <4>1. IsFiniteSet(Deciding(i) \cup {r})
        BY Finite, FS_AddElement
      <4> QED BY <3>2, <4>1, FS_Subset, FS_CardinalityType
    <3> QED BY <1>0, <2>1, <3>1, <3>3, <3>4, Finite DEF Bound, Unspent
  <2>3. CASE ~(PutDecision(r) /\ req[r].op = "approve" /\ req[r].spec = i)
    <3>1. approvals'[i] >= approvals[i]
      BY <1>0 DEF PutEdit, PutDecision, Note
    <3>2. Deciding(i)' \subseteq Deciding(i)
      BY <1>0, <2>3 DEF PutEdit, PutDecision, Deciding, RequestRow
    <3> QED BY <2>1, <3>1, <3>2, SameBound DEF Same
  <2> QED BY <2>2, <2>3
<1> QED BY <1>1, <1>2 DEF Spent, Minted

LEMMA PublishSpent ==
  ASSUME Typed, Typed', Spent, NEW r \in Requests, Publish(r)
  PROVE  Spent'
<1>0. /\ req \in [Requests -> RequestRow \cup {NoRequest}] /\ req[r] \in RequestRow
      /\ approvals \in [SpecIds -> Nat] /\ approvals' = approvals
      /\ replays \in [SpecIds -> Nat] /\ replays' = replays
  <2>1. req[r].pc # "idle"
    BY DEF Publish
  <2>2. UNCHANGED <<approvals, replays>>
    BY DEF Publish, Send, bus, rows
  <2> QED BY <2>1, <2>2, Shapes DEF Typed, TypeOK
<1> DEFINE e == [spec |-> req[r].spec, site |-> None, n |-> req[r].n]
<1>1. /\ UNCHANGED <<worker, site>> /\ req[r].pc = "publish"
      /\ queue' = IF req[r].op = "approve" THEN queue \cup {e} ELSE queue
      /\ archive' = IF req[r].op = "approve" THEN archive \cup {e} ELSE archive
      /\ req'[r].pc = "feedback" /\ \A x \in Requests \ {r} : req'[x] = req[x]
  BY <1>0 DEF Publish, Send, bus
<1>2. e.site = None /\ e.spec = req[r].spec
  OBVIOUS
<1> HIDE DEF e
<1>3. ASSUME NEW i \in SpecIds PROVE Bound(i)'
  <2>1. Bound(i) /\ Busy(i)' = Busy(i) /\ Minted(i)' = Minted(i)
    BY <1>1 DEF Spent, Busy, Minted
  <2>2. CASE req[r].op = "approve" /\ req[r].spec = i
    <3>1. r \in Deciding(i) /\ Deciding(i)' \subseteq Deciding(i) \ {r}
      BY <1>1, <2>2 DEF Deciding
    <3>2. Queued(i)' \subseteq Queued(i) \cup {e}
      BY <1>1, <2>2 DEF Queued
    <3>3. /\ Cardinality(Deciding(i)') <= Cardinality(Deciding(i)) - 1
          /\ Cardinality(Queued(i)') <= Cardinality(Queued(i)) + 1
      BY <3>1, <3>2, Gains, Loses, Finite
    <3>4. Cardinality(Deciding(i)') \in Nat /\ Cardinality(Queued(i)') \in Nat
      <4>1. IsFiniteSet(Deciding(i) \ {r}) /\ IsFiniteSet(Queued(i) \cup {e})
        BY Finite, FS_AddElement, FS_RemoveElement
      <4> QED BY <3>1, <3>2, <4>1, FS_Subset, FS_CardinalityType
    <3> QED BY <1>0, <2>1, <3>3, <3>4, Finite DEF Bound, Unspent
  <2>3. CASE ~(req[r].op = "approve" /\ req[r].spec = i)
    <3>1. Deciding(i)' \subseteq Deciding(i) /\ Queued(i)' \subseteq Queued(i)
      BY <1>1, <1>2, <2>3 DEF Deciding, Queued
    <3> QED BY <1>0, <2>1, <3>1, SameBound DEF Same
  <2> QED BY <2>2, <2>3
<1>4. \A i : Minted(i)' = Minted(i)
  BY <1>1 DEF Minted
<1>5. \A x \in archive' : x.site # None => x.site \in Minted(x.spec)'
  BY <1>1, <1>2, <1>4 DEF Spent
<1> QED BY <1>1, <1>3, <1>4, <1>5 DEF Spent

LEMMA TakeSpent ==
  ASSUME Typed, Typed', Spent, NEW w \in Workers, Take(w)
  PROVE  Spent'
<1>0. /\ worker \in [Workers -> WorkRow \cup {NoWork}] /\ NoWork.pc = "idle"
      /\ approvals \in [SpecIds -> Nat] /\ approvals' = approvals
      /\ replays \in [SpecIds -> Nat] /\ replays' = replays
  BY Shapes DEF Take, Typed, TypeOK, NoWork, rows, bus
<1>1. PICK e \in queue :
        /\ queue' = queue \ {e}
        /\ worker' = [worker EXCEPT ![w] = [pc |-> "load", event |-> e, content |-> None]]
  BY DEF Take
<1>2. /\ UNCHANGED <<req, archive, site>> /\ worker[w].pc = "idle"
      /\ worker'[w].event = e /\ \A x \in Workers \ {w} : worker'[x] = worker[x]
  BY <1>0, <1>1 DEF Take
<1>3. ASSUME NEW i \in SpecIds PROVE Bound(i)'
  <2>1. Bound(i) /\ Deciding(i)' = Deciding(i) /\ Minted(i)' = Minted(i)
    BY <1>2 DEF Spent, Deciding, Minted
  <2>2. CASE e.site = None /\ e.spec = i
    <3>1. e \in Queued(i) /\ Queued(i)' \subseteq Queued(i) \ {e}
      BY <1>1, <2>2 DEF Queued
    <3>2. Busy(i)' \subseteq Busy(i) \cup {w}
      BY <1>2 DEF Busy
    <3>3. /\ Cardinality(Queued(i)') <= Cardinality(Queued(i)) - 1
          /\ Cardinality(Busy(i)') <= Cardinality(Busy(i)) + 1
      BY <3>1, <3>2, Gains, Loses, Finite
    <3>4. Cardinality(Queued(i)') \in Nat /\ Cardinality(Busy(i)') \in Nat
      <4>1. IsFiniteSet(Queued(i) \ {e}) /\ IsFiniteSet(Busy(i) \cup {w})
        BY Finite, FS_AddElement, FS_RemoveElement
      <4> QED BY <3>1, <3>2, <4>1, FS_Subset, FS_CardinalityType
    <3> QED BY <1>0, <2>1, <3>3, <3>4, Finite DEF Bound, Unspent
  <2>3. CASE ~(e.site = None /\ e.spec = i)
    <3>1. Queued(i)' \subseteq Queued(i) /\ Busy(i)' \subseteq Busy(i)
      BY <1>1, <1>2, <2>3 DEF Queued, Busy
    <3> QED BY <1>0, <2>1, <3>1, SameBound DEF Same
  <2> QED BY <2>2, <2>3
<1>4. \A i : Minted(i)' = Minted(i)
  BY <1>2 DEF Minted
<1>5. (\A x \in Workers :
         worker[x].pc # "idle" /\ worker[x].event.site # None
           => worker[x].event.site \in Minted(worker[x].event.spec))'
  BY <1>1, <1>2, <1>4 DEF Spent, Minted, Typed, TypeOK
<1> QED BY <1>2, <1>3, <1>4, <1>5 DEF Spent

\* A replay of an approval's event may mint one site more; one of another event
\* none.
LEMMA ReplaySpent ==
  ASSUME Typed, Typed', Spent, Replay
  PROVE  Spent'
<1>0. /\ approvals \in [SpecIds -> Nat] /\ approvals' = approvals
      /\ replays \in [SpecIds -> Nat]
  BY DEF Replay, Typed, TypeOK, rows
<1>1. PICK e \in archive \ queue :
        /\ queue' = queue \cup {e}
        /\ replays' = IF e.site = None THEN [replays EXCEPT ![e.spec] = @ + 1] ELSE replays
  BY DEF Replay
<1>2. UNCHANGED <<req, archive, worker, site>> /\ e.spec \in SpecIds
  BY DEF Replay, Typed, TypeOK, Event
<1>3. ASSUME NEW i \in SpecIds PROVE Bound(i)'
  <2>1. Bound(i) /\ Deciding(i)' = Deciding(i) /\ Busy(i)' = Busy(i) /\ Minted(i)' = Minted(i)
    BY <1>2 DEF Spent, Deciding, Busy, Minted
  <2>2. CASE e.site = None /\ e.spec = i
    <3>1. replays'[i] = replays[i] + 1
      BY <1>0, <1>1, <2>2
    <3>2. Queued(i)' \subseteq Queued(i) \cup {e}
      BY <1>1 DEF Queued
    <3>3. Cardinality(Queued(i)') <= Cardinality(Queued(i)) + 1
      BY <3>2, Gains, Finite
    <3>4. Cardinality(Queued(i)') \in Nat
      <4>1. IsFiniteSet(Queued(i) \cup {e})
        BY Finite, FS_AddElement
      <4> QED BY <3>2, <4>1, FS_Subset, FS_CardinalityType
    <3> QED BY <1>0, <2>1, <3>1, <3>3, <3>4, Finite DEF Bound, Unspent
  <2>3. CASE ~(e.site = None /\ e.spec = i)
    <3>1. Queued(i)' \subseteq Queued(i)
      BY <1>1, <2>3 DEF Queued
    <3>2. replays'[i] = replays[i]
      BY <1>0, <1>1, <1>2, <2>3
    <3> QED BY <1>0, <2>1, <3>1, <3>2, SameBound DEF Same
  <2> QED BY <2>2, <2>3
<1> QED BY <1>2, <1>3 DEF Spent, Minted

\* A render without a site spends its approval on one, another keeps its own.
LEMMA StoreSpent ==
  ASSUME Typed, Typed', Spent, NEW w \in Workers, Store(w)
  PROVE  Spent'
<1> USE SpecReviewAssumption DEF SpecReviewAssumption
<1> DEFINE e == worker[w].event
<1>0. /\ worker \in [Workers -> WorkRow \cup {NoWork}] /\ NoWork.pc = "idle"
      /\ approvals \in [SpecIds -> Nat] /\ approvals' = approvals
      /\ replays \in [SpecIds -> Nat] /\ replays' = replays
      /\ site \in [Sites -> SiteRow \cup {None}]
      /\ e.spec \in SpecIds /\ e.site \in Sites \cup {None} /\ worker[w].content \in Contents
  <2>1. worker[w].pc # "idle"
    BY DEF Store
  <2>2. worker[w] \in WorkRow
    BY <2>1, Shapes DEF Typed
  <2> QED BY <2>2, Shapes DEF Store, Typed, TypeOK, NoWork, rows, bus, WorkRow, Event
<1>1. PICK n \in Target(e) :
        site' = [site EXCEPT ![n] = [spec |-> e.spec, content |-> worker[w].content]]
  BY DEF Store
<1>2. /\ UNCHANGED <<req, queue, archive>> /\ worker[w].pc = "store"
      /\ worker'[w].pc = "idle" /\ \A x \in Workers \ {w} : worker'[x] = worker[x]
  BY <1>0 DEF Store, bus
<1>3. n \in Sites /\ (e.site = None => site[n] = None) /\ (e.site # None => n = e.site)
  BY <1>0, <1>1 DEF Target, Fresh
<1>4. /\ site'[n] # None /\ site'[n].spec = e.spec
      /\ \A x \in Sites \ {n} : site'[x] = site[x]
  <2>1. [spec |-> e.spec, content |-> worker[w].content] # None
    BY <1>0
  <2> QED BY <1>0, <1>1, <1>3, <2>1
<1>5. e.site # None => n \in Minted(e.spec)
  BY <1>2, <1>3 DEF Spent
<1> HIDE DEF e
<1>6. \A i : Minted(i) \subseteq Minted(i)'
  BY <1>3, <1>4, <1>5 DEF Minted
<1>7. ASSUME NEW i \in SpecIds PROVE Bound(i)'
  <2>1. Bound(i) /\ Deciding(i)' = Deciding(i) /\ Queued(i)' = Queued(i)
    BY <1>2 DEF Spent, Deciding, Queued
  <2>2. CASE e.site = None /\ e.spec = i
    <3>1. w \in Busy(i) /\ Busy(i)' \subseteq Busy(i) \ {w}
      BY <1>2, <2>2 DEF Busy, e
    <3>2. Minted(i)' \subseteq Minted(i) \cup {n}
      BY <1>4 DEF Minted
    <3>3. /\ Cardinality(Busy(i)') <= Cardinality(Busy(i)) - 1
          /\ Cardinality(Minted(i)') <= Cardinality(Minted(i)) + 1
      BY <3>1, <3>2, Gains, Loses, Finite
    <3>4. Cardinality(Busy(i)') \in Nat /\ Cardinality(Minted(i)') \in Nat
      <4>1. IsFiniteSet(Busy(i) \ {w}) /\ IsFiniteSet(Minted(i) \cup {n})
        BY Finite, FS_AddElement, FS_RemoveElement
      <4> QED BY <3>1, <3>2, <4>1, FS_Subset, FS_CardinalityType
    <3> QED BY <1>0, <2>1, <3>3, <3>4, Finite DEF Bound, Unspent
  <2>3. CASE ~(e.site = None /\ e.spec = i)
    <3>1. Busy(i)' \subseteq Busy(i)
      BY <1>2 DEF Busy
    <3>2. Minted(i)' \subseteq Minted(i)
      BY <1>4, <1>5, <2>3 DEF Minted
    <3> QED BY <1>0, <2>1, <3>1, <3>2, SameBound DEF Same
  <2> QED BY <2>2, <2>3
<1> QED BY <1>2, <1>6, <1>7 DEF Spent

\* The other steps spend nothing.
LEMMA OtherSpent ==
  ASSUME Typed, Typed', Spent, queue' \subseteq queue,
         UNCHANGED <<archive, replays, site, approvals>>,
         \A x \in Requests : req'[x].pc = "publish" => req'[x] = req[x],
         \A x \in Workers : worker'[x].pc # "idle" =>
            worker[x].pc # "idle" /\ worker'[x].event = worker[x].event
  PROVE  Spent'
<1>1. \A i : Minted(i)' = Minted(i)
  BY DEF Minted
<1>2. ASSUME NEW i \in SpecIds PROVE Bound(i)'
  <2>1. Same(i)
    BY DEF Same, Deciding, Queued, Busy, Minted
  <2>2. Bound(i) /\ approvals'[i] >= approvals[i]
    BY DEF Spent, bus, Typed, TypeOK
  <2> QED BY <2>1, <2>2, SameBound
<1> QED BY <1>1, <1>2 DEF Spent

LEMMA RegenerateSpent ==
  ASSUME Typed, Typed', Spent, RequestRegenerate
  PROVE  Spent'
<1>1. PICK n \in Sites :
        /\ site[n] # None
        /\ Send([spec |-> site[n].spec, site |-> n, n |-> requests'])
  BY DEF RequestRegenerate
<1> DEFINE e == [spec |-> site[n].spec, site |-> n, n |-> requests']
<1>2. /\ e.site = n /\ e.spec = site[n].spec /\ n # None
      /\ queue' = queue \cup {e} /\ archive' = archive \cup {e} /\ replays' = replays
  BY <1>1, SpecReviewAssumption DEF SpecReviewAssumption, Send
<1> HIDE DEF e
<1>3. UNCHANGED <<req, worker, site, approvals>>
  BY DEF RequestRegenerate, rows
<1>4. \A i : Minted(i)' = Minted(i)
  BY <1>3 DEF Minted
<1>5. ASSUME NEW i \in SpecIds PROVE Bound(i)'
  <2>1. Same(i)
    BY <1>2, <1>3 DEF Same, Deciding, Queued, Busy, Minted
  <2>2. Bound(i) /\ approvals'[i] >= approvals[i] /\ replays'[i] = replays[i]
    BY <1>2, <1>3 DEF Spent, bus, Typed, TypeOK
  <2> QED BY <2>1, <2>2, SameBound
<1>6. e.site \in Minted(e.spec)
  BY <1>1, <1>2 DEF Minted
<1> QED BY <1>2, <1>3, <1>4, <1>5, <1>6 DEF Spent

LEMMA StepSpent ==
  ASSUME Typed, Typed', Spent, [Next]_vars
  PROVE  Spent'
<1>0. /\ req \in [Requests -> RequestRow \cup {NoRequest}] /\ NoRequest.pc = "idle"
      /\ worker \in [Workers -> WorkRow \cup {NoWork}] /\ NoWork.pc = "idle"
      /\ \A w \in Workers : worker[w].pc # "idle" => worker[w] \in WorkRow
  BY Shapes DEF Typed, NoRequest, NoWork
<1>1. ASSUME NEW r \in Requests, Begin(r) PROVE Spent'
  <2>1. /\ \A x \in Requests \ {r} : req'[x] = req[x]
        /\ req'[r].pc = "put"
        /\ UNCHANGED <<bus, site, approvals, worker>>
    BY <1>0, <1>1 DEF Begin, rows
  <2> QED BY <2>1, OtherSpent DEF bus
<1>2. ASSUME NEW r \in Requests, FailPublish(r) \/ FailRequest(r) \/ CaptureFeedback(r)
      PROVE  Spent'
  <2>1. /\ \A x \in Requests \ {r} : req'[x] = req[x]
        /\ req'[r].pc = "idle"
        /\ UNCHANGED <<bus, site, approvals, worker>>
    BY <1>0, <1>2 DEF FailPublish, FailRequest, CaptureFeedback, rows
  <2> QED BY <2>1, OtherSpent DEF bus
<1>3. ASSUME NEW w \in Workers, Load(w) \/ FailWork(w) PROVE Spent'
  <2>1. UNCHANGED <<bus, site, approvals, req>> /\ \A x \in Workers \ {w} : worker'[x] = worker[x]
    BY <1>0, <1>3 DEF Load, FailWork, rows
  <2>2. worker'[w].pc # "idle" => worker[w].pc # "idle" /\ worker'[w].event = worker[w].event
    <3>1. CASE worker' = [worker EXCEPT ![w] = NoWork]
      BY <1>0, <3>1
    <3>2. ASSUME NEW c, worker[w].pc = "load",
                 worker' = [worker EXCEPT ![w].pc = "store", ![w].content = c]
          PROVE  worker[w].pc # "idle" /\ worker'[w].event = worker[w].event
      BY <1>0, <3>2 DEF WorkRow
    <3> QED BY <1>3, <3>1, <3>2 DEF Load, FailWork
  <2> QED BY <2>1, <2>2, OtherSpent DEF bus
<1>4. CASE Generate
  <2>1. UNCHANGED <<bus, site, approvals, req, worker>>
    BY <1>4 DEF Generate
  <2> QED BY <2>1, OtherSpent DEF bus
<1>5. ASSUME NEW i \in SpecIds, Replicate(i) PROVE Spent'
  <2>1. UNCHANGED <<bus, site, approvals, req, worker>>
    BY <1>5 DEF Replicate
  <2> QED BY <2>1, OtherSpent DEF bus
<1>6. CASE UNCHANGED vars
  <2>1. UNCHANGED <<bus, site, approvals, req, worker>>
    BY <1>6 DEF vars, bus
  <2> QED BY <2>1, OtherSpent DEF bus
<1>7. ASSUME NEW w \in Workers, Skip(w) PROVE Spent'
  <2>1. queue' \subseteq queue /\ UNCHANGED <<archive, replays, site, approvals, req, worker>>
    BY <1>7 DEF Skip, rows
  <2> QED BY <2>1, OtherSpent
<1> QED BY <1>1, <1>2, <1>3, <1>4, <1>5, <1>6, <1>7,
           PutSpent, PublishSpent, TakeSpent, StoreSpent, RegenerateSpent, ReplaySpent
        DEF Next, HandleRequest, Work

-----------------------------------------------------------------------------
(* The specification                                                       *)

SpecReviewInv == Typed /\ Vetted /\ Published /\ Spent

THEOREM SpecReviewInvariant == Spec => []SpecReviewInv
<1>1. Init => SpecReviewInv
  BY InitTyped, InitVetted, InitSpent DEF SpecReviewInv
<1>2. SpecReviewInv /\ [Next]_vars => SpecReviewInv'
  BY StepTyped, StepVetted, StepPublished, StepSpent DEF SpecReviewInv
<1> QED BY <1>1, <1>2, PTL DEF Spec

\* Rows, copies, requests, workers and events keep their types.
THEOREM SpecReviewTypeCorrect == Spec => []TypeOK
<1>1. SpecReviewInv => TypeOK
  BY DEF SpecReviewInv, Typed
<1> QED BY <1>1, SpecReviewInvariant, PTL

\* A page shows content its spec had while it was approved, for any number of
\* operators, generators and trailing reads.
THEOREM RenderedTheorem == Spec => []RenderedWasVetted
<1>1. SpecReviewInv => RenderedWasVetted
  BY DEF SpecReviewInv, Vetted
<1> QED BY <1>1, SpecReviewInvariant, PTL

\* The feedback row of a decision follows its event.
THEOREM FeedbackTheorem == Spec => []FeedbackAfterEvent
<1>1. SpecReviewInv => FeedbackAfterEvent
  BY DEF SpecReviewInv, Published
<1> QED BY <1>1, SpecReviewInvariant, PTL

\* A spec has no more sites than decisions approved it and replays of these
\* decisions' events were delivered.
THEOREM SitesTheorem == Spec => []SitesBounded
<1>1. ASSUME SpecReviewInv, NEW i \in SpecIds
      PROVE  Cardinality({n \in Sites : site[n] # None /\ site[n].spec = i})
               <= approvals[i] + replays[i]
  <2>1. /\ Unspent(i) + Cardinality(Minted(i)) <= approvals[i] + replays[i]
        /\ approvals[i] \in Nat /\ replays[i] \in Nat
    BY <1>1 DEF SpecReviewInv, Spent, Bound, Typed, TypeOK
  <2>2. Cardinality(Minted(i)) <= approvals[i] + replays[i]
    BY <1>1, <2>1, Finite DEF SpecReviewInv, Unspent
  <2> QED BY <2>2 DEF Minted
<1>2. SpecReviewInv => SitesBounded
  BY <1>1 DEF SitesBounded
<1> QED BY <1>2, SpecReviewInvariant, PTL

=============================================================================
