------------------------------ MODULE Delivery ------------------------------
(***************************************************************************)
(* One consumer Lambda of the pipeline: its SQS queue, the shared handler  *)
(* skeleton every consumer runs (kill switch, then events.Consume, then    *)
(* idempotency.WithIdempotency around the stage's own work) and the        *)
(* dead-letter queue behind it.  The stage's work is opaque here: it runs, *)
(* and it succeeds or fails.                                               *)
(*                                                                         *)
(* A message is one delivery of an event to the queue; EventBridge retries *)
(* and archive replays put several messages of one event there.            *)
(***************************************************************************)
EXTENDS Naturals, FiniteSets

CONSTANTS
  Events,      \* events, identified by eventId
  Messages,    \* the SQS messages that may ever be sent
  EventOf,     \* EventOf[m]: the event the message carries
  Malformed,   \* messages whose body FromSQS cannot decode or validate
  Workers,     \* Lambda containers of this consumer
  BatchSize,   \* event source mapping batch_size
  MaxReceive,  \* the queue's maxReceiveCount
  NoMessage    \* no record is being worked on

ASSUME DeliveryAssumption ==
  /\ EventOf \in [Messages -> Events]
  /\ Malformed \subseteq Messages
  /\ BatchSize \in Nat \ {0}
  /\ MaxReceive \in Nat \ {0}
  /\ NoMessage \notin Messages

VARIABLES
  \* SQS
  sent,        \* messages that have entered the queue
  visible,     \* messages a container may receive now
  receives,    \* receives[m]: ApproximateReceiveCount
  deleted,     \* messages acknowledged and gone
  dlq,         \* messages in the dead-letter queue
  \* kill switch
  enabled,     \* the stage's flag (and master switch) in the settings row
  cache,       \* cache[w]: the container's cached view of it
  \* Lambda invocations
  pc,          \* pc[w]: where the container's invocation is
  batch,       \* batch[w]: the records of the invocation
  todo,        \* todo[w]: records Consume has not reached
  failures,    \* failures[w]: BatchItemFailures collected so far
  cur,         \* cur[w]: the record being worked on
  \* DynamoDB
  marker,      \* marker[e]: IDEMP#<consumer>#<eventId> exists
  \* history, for the properties only
  runs,        \* runs[e]: times the work of e was entered
  expiries,    \* expiries[e]: times the marker of e expired
  done,        \* events whose work returned nil
  failed,      \* events whose work returned an error
  dropped      \* messages acknowledged because the stage was off

sqsVars     == <<sent, visible, receives, deleted, dlq>>
invVars     == <<pc, batch, todo, failures, cur>>
historyVars == <<runs, expiries, done, failed, dropped>>
vars == <<sqsVars, enabled, cache, invVars, marker, historyVars>>

TypeOK ==
  /\ sent \subseteq Messages
  /\ visible \subseteq sent
  /\ receives \in [Messages -> 0..MaxReceive]
  /\ deleted \subseteq sent
  /\ dlq \subseteq sent
  /\ enabled \in BOOLEAN
  /\ cache \in [Workers -> {"none", "on", "off"}]
  /\ pc \in [Workers -> {"idle", "gate", "records", "claimed", "running"}]
  /\ batch \in [Workers -> SUBSET sent]
  /\ todo \in [Workers -> SUBSET Messages]
  /\ failures \in [Workers -> SUBSET Messages]
  /\ cur \in [Workers -> Messages \cup {NoMessage}]
  /\ marker \in [Events -> BOOLEAN]
  /\ runs \in [Events -> Nat]
  /\ expiries \in [Events -> Nat]
  /\ done \subseteq Events
  /\ failed \subseteq Events
  /\ dropped \subseteq Messages

Init ==
  /\ sent = {}
  /\ visible = {}
  /\ receives = [m \in Messages |-> 0]
  /\ deleted = {}
  /\ dlq = {}
  /\ enabled \in BOOLEAN
  /\ cache = [w \in Workers |-> "none"]
  /\ pc = [w \in Workers |-> "idle"]
  /\ batch = [w \in Workers |-> {}]
  /\ todo = [w \in Workers |-> {}]
  /\ failures = [w \in Workers |-> {}]
  /\ cur = [w \in Workers |-> NoMessage]
  /\ marker = [e \in Events |-> FALSE]
  /\ runs = [e \in Events |-> 0]
  /\ expiries = [e \in Events |-> 0]
  /\ done = {}
  /\ failed = {}
  /\ dropped = {}

-----------------------------------------------------------------------------
(* The queue.                                                              *)

\* EventBridge delivers the event (once more) to the consumer's queue.
Send(m) ==
  /\ m \notin sent
  /\ sent' = sent \cup {m}
  /\ visible' = visible \cup {m}
  /\ UNCHANGED <<receives, deleted, dlq, enabled, cache, invVars, marker,
                 historyVars>>

\* A standard queue delivers at least once: a message that is being handled
\* may be handed out again.
Duplicate(m) ==
  /\ \E w \in Workers : m \in batch[w]
  /\ m \notin visible \cup deleted \cup dlq
  /\ visible' = visible \cup {m}
  /\ UNCHANGED <<sent, receives, deleted, dlq, enabled, cache, invVars, marker,
                 historyVars>>

\* Variant: a redrive policy that compares with the wrong side of the limit.
MoveToDLQLate(m) ==
  /\ m \in visible
  /\ receives[m] > MaxReceive
  /\ visible' = visible \ {m}
  /\ dlq' = dlq \cup {m}
  /\ UNCHANGED <<sent, receives, deleted, enabled, cache, invVars, marker,
                 historyVars>>

MoveToDLQ(m) ==
  /\ m \in visible
  /\ receives[m] = MaxReceive
  /\ visible' = visible \ {m}
  /\ dlq' = dlq \cup {m}
  /\ UNCHANGED <<sent, receives, deleted, enabled, cache, invVars, marker,
                 historyVars>>

Receive(w) ==
  /\ pc[w] = "idle"
  /\ \E ms \in SUBSET {m \in visible : receives[m] < MaxReceive} :
       /\ ms # {}
       /\ Cardinality(ms) <= BatchSize
       /\ visible' = visible \ ms
       /\ receives' = [m \in Messages |->
                         IF m \in ms THEN receives[m] + 1 ELSE receives[m]]
       /\ batch' = [batch EXCEPT ![w] = ms]
       /\ todo' = [todo EXCEPT ![w] = ms]
  /\ pc' = [pc EXCEPT ![w] = "gate"]
  /\ UNCHANGED <<sent, deleted, dlq, enabled, cache, failures, cur, marker,
                 historyVars>>

\* The invocation of w ends: the event source mapping deletes acked and leaves
\* the others to become visible again.
Settle(w, acked) ==
  LET back == batch[w] \ acked IN
  /\ visible' = (visible \ acked) \cup (back \ (deleted \cup dlq))
  /\ deleted' = deleted \cup (acked \ dlq)
  /\ pc' = [pc EXCEPT ![w] = "idle"]
  /\ batch' = [batch EXCEPT ![w] = {}]
  /\ todo' = [todo EXCEPT ![w] = {}]
  /\ failures' = [failures EXCEPT ![w] = {}]
  /\ cur' = [cur EXCEPT ![w] = NoMessage]
  /\ UNCHANGED <<sent, receives, dlq>>

-----------------------------------------------------------------------------
(* WithKillSwitch at handler entry, once per batch.                        *)

\* Allowed through killswitch.Get: the cached flag, or a fresh read.
Flag(w) ==
  IF cache[w] # "none" THEN cache[w] ELSE IF enabled THEN "on" ELSE "off"

GateOpen(w) ==
  /\ pc[w] = "gate"
  /\ Flag(w) = "on"
  /\ cache' = [cache EXCEPT ![w] = "on"]
  /\ pc' = [pc EXCEPT ![w] = "records"]
  /\ UNCHANGED <<sqsVars, enabled, batch, todo, failures, cur, marker,
                 historyVars>>

\* Stage off: the handler returns nil with no failures, the batch is deleted.
GateSkip(w) ==
  /\ pc[w] = "gate"
  /\ Flag(w) = "off"
  /\ cache' = [cache EXCEPT ![w] = "off"]
  /\ dropped' = dropped \cup batch[w]
  /\ Settle(w, batch[w])
  /\ UNCHANGED <<enabled, marker, runs, expiries, done, failed>>

\* The settings read or buildDeps fails: the invocation fails as a whole.
GateError(w) ==
  /\ pc[w] = "gate"
  /\ Settle(w, {})
  /\ UNCHANGED <<enabled, cache, marker, historyVars>>

-----------------------------------------------------------------------------
(* events.Consume over the records, each handled under WithIdempotency.    *)

\* Go on to the next record after m, which failed or not.
Handled(w, m, ok) ==
  /\ todo' = [todo EXCEPT ![w] = @ \ {m}]
  /\ failures' = [failures EXCEPT ![w] = IF ok THEN @ ELSE @ \cup {m}]

DecodeError(w) ==
  /\ pc[w] = "records"
  /\ \E m \in todo[w] \cap Malformed : Handled(w, m, FALSE)
  /\ UNCHANGED <<sqsVars, enabled, cache, pc, batch, cur, marker, historyVars>>

\* Variant: PutItem without attribute_not_exists.
ClaimAlways(w) ==
  /\ pc[w] = "records"
  /\ \E m \in todo[w] \ Malformed :
       /\ marker' = [marker EXCEPT ![EventOf[m]] = TRUE]
       /\ cur' = [cur EXCEPT ![w] = m]
  /\ pc' = [pc EXCEPT ![w] = "claimed"]
  /\ UNCHANGED <<sqsVars, enabled, cache, batch, todo, failures, runs,
                 expiries, done, failed, dropped>>

\* The conditional PutItem wins: this container may run the work.
Claim(w) ==
  /\ pc[w] = "records"
  /\ \E m \in todo[w] \ Malformed :
       /\ ~marker[EventOf[m]]
       /\ marker' = [marker EXCEPT ![EventOf[m]] = TRUE]
       /\ cur' = [cur EXCEPT ![w] = m]
  /\ pc' = [pc EXCEPT ![w] = "claimed"]
  /\ UNCHANGED <<sqsVars, enabled, cache, batch, todo, failures, runs,
                 expiries, done, failed, dropped>>

\* ErrAlreadyProcessed: the handler reports success.
AlreadyProcessed(w) ==
  /\ pc[w] = "records"
  /\ \E m \in todo[w] \ Malformed :
       /\ marker[EventOf[m]]
       /\ Handled(w, m, TRUE)
  /\ UNCHANGED <<sqsVars, enabled, cache, pc, batch, cur, marker, historyVars>>

\* PutItem fails for another reason; the write may have landed all the same.
ClaimError(w) ==
  /\ pc[w] = "records"
  /\ \E m \in todo[w] \ Malformed :
       /\ \/ UNCHANGED marker
          \/ marker' = [marker EXCEPT ![EventOf[m]] = TRUE]
       /\ Handled(w, m, FALSE)
  /\ UNCHANGED <<sqsVars, enabled, cache, pc, batch, cur, historyVars>>

\* fn(ctx): the stage's own work begins, and its effects with it.
StartWork(w) ==
  /\ pc[w] = "claimed"
  /\ pc' = [pc EXCEPT ![w] = "running"]
  /\ runs' = [runs EXCEPT ![EventOf[cur[w]]] = @ + 1]
  /\ UNCHANGED <<sqsVars, enabled, cache, batch, todo, failures, cur, marker,
                 expiries, done, failed, dropped>>

\* Variant: the marker is released when fn fails, for the sake of the retry.
EndWorkReleasing(w) ==
  /\ pc[w] = "running"
  /\ LET e == EventOf[cur[w]] IN
       \/ /\ Handled(w, cur[w], TRUE)
          /\ done' = done \cup {e}
          /\ UNCHANGED <<failed, marker>>
       \/ /\ Handled(w, cur[w], FALSE)
          /\ failed' = failed \cup {e}
          /\ marker' = [marker EXCEPT ![e] = FALSE]
          /\ UNCHANGED done
  /\ pc' = [pc EXCEPT ![w] = "records"]
  /\ cur' = [cur EXCEPT ![w] = NoMessage]
  /\ UNCHANGED <<sqsVars, enabled, cache, batch, runs, expiries, dropped>>

\* fn returns; the marker stays whether it returned nil or an error.
EndWork(w) ==
  /\ pc[w] = "running"
  /\ LET e == EventOf[cur[w]] IN
       \/ /\ Handled(w, cur[w], TRUE)
          /\ done' = done \cup {e}
          /\ UNCHANGED failed
       \/ /\ Handled(w, cur[w], FALSE)
          /\ failed' = failed \cup {e}
          /\ UNCHANGED done
  /\ pc' = [pc EXCEPT ![w] = "records"]
  /\ cur' = [cur EXCEPT ![w] = NoMessage]
  /\ UNCHANGED <<sqsVars, enabled, cache, batch, marker, runs, expiries,
                 dropped>>

\* Variant: the failures are not reported back.
RespondAllDone(w) ==
  /\ pc[w] = "records"
  /\ todo[w] = {}
  /\ Settle(w, batch[w])
  /\ UNCHANGED <<enabled, cache, marker, historyVars>>

\* SQSEventResponse: what is not among the failures is deleted.
Respond(w) ==
  /\ pc[w] = "records"
  /\ todo[w] = {}
  /\ Settle(w, batch[w] \ failures[w])
  /\ UNCHANGED <<enabled, cache, marker, historyVars>>

-----------------------------------------------------------------------------
(* Failures and the environment.                                           *)

\* The container is killed or times out in the middle of an invocation.
Crash(w) ==
  /\ pc[w] # "idle"
  /\ Settle(w, {})
  /\ cache' = [cache EXCEPT ![w] = "none"]
  /\ UNCHANGED <<enabled, marker, historyVars>>

\* No delivery of e is being handled or waits for a retry.
Quiet(e) ==
  \A m \in Messages :
    EventOf[m] = e =>
      /\ \A w \in Workers : m \notin batch[w]
      /\ m \in visible => receives[m] = 0

\* Variant: a TTL shorter than an invocation may take.
ExpireMarkerEarly(e) ==
  /\ marker[e]
  /\ marker' = [marker EXCEPT ![e] = FALSE]
  /\ expiries' = [expiries EXCEPT ![e] = @ + 1]
  /\ UNCHANGED <<sqsVars, enabled, cache, invVars, runs, done, failed, dropped>>

\* DynamoDB TTL removes the marker after 24 hours, longer than SQS's retries
\* of one message take.
ExpireMarker(e) ==
  /\ marker[e]
  /\ Quiet(e)
  /\ marker' = [marker EXCEPT ![e] = FALSE]
  /\ expiries' = [expiries EXCEPT ![e] = @ + 1]
  /\ UNCHANGED <<sqsVars, enabled, cache, invVars, runs, done, failed, dropped>>

\* The operator flips the stage's kill switch.
Toggle ==
  /\ enabled' = ~enabled
  /\ UNCHANGED <<sqsVars, cache, invVars, marker, historyVars>>

\* The cached settings are 60 seconds old.
CacheExpire(w) ==
  /\ cache[w] # "none"
  /\ cache' = [cache EXCEPT ![w] = "none"]
  /\ UNCHANGED <<sqsVars, enabled, invVars, marker, historyVars>>

-----------------------------------------------------------------------------
\* What a running invocation does by itself.
Step(w) ==
  \/ GateOpen(w) \/ GateSkip(w) \/ GateError(w)
  \/ DecodeError(w) \/ Claim(w) \/ AlreadyProcessed(w) \/ ClaimError(w)
  \/ StartWork(w) \/ EndWork(w) \/ Respond(w)

Next ==
  \/ \E m \in Messages : Send(m) \/ Duplicate(m) \/ MoveToDLQ(m)
  \/ \E w \in Workers : Receive(w) \/ Step(w) \/ Crash(w) \/ CacheExpire(w)
  \/ \E e \in Events : ExpireMarker(e)
  \/ Toggle

Spec == Init /\ [][Next]_vars

\* Lambda polls its queue and an invocation runs on; crashes, duplicates,
\* sends, operators and expiries are owed nothing.
Fairness ==
  /\ \A w \in Workers : WF_vars(Receive(w)) /\ WF_vars(Step(w))
  /\ \A m \in Messages : WF_vars(MoveToDLQ(m))

FairSpec == Spec /\ Fairness

-----------------------------------------------------------------------------
(* Properties.                                                             *)

Working(w) == pc[w] \in {"claimed", "running"}
WorkersOn(e) == {w \in Workers : Working(w) /\ EventOf[cur[w]] = e}

(* However often SQS delivers an event, and whichever containers crash, its
   work is entered at most once per life of its marker (the promise of
   WithIdempotency's doc comment). *)
AtMostOnce == \A e \in Events : runs[e] <= expiries[e] + 1

(* A message leaves the queue for good only for a reason: the stage was off,
   or some container had claimed its event.  In particular a message that
   does not decode is deleted only by the kill switch. *)
NoSilentAck ==
  \A m \in deleted \ dropped :
    /\ m \notin Malformed
    /\ marker[EventOf[m]] \/ expiries[EventOf[m]] > 0

(* The skeleton implements the abstract at-most-once specification: the
   window of an event is open while its marker is absent. *)
Once == INSTANCE OnceOnly WITH
  open <- [e \in Events |-> ~marker[e]],
  runners <- [e \in Events |-> WorkersOn(e)]

ImplementsOnceOnly == Once!Spec

(* No poison message circulates for ever: every message that is sent is
   acknowledged or reaches the dead-letter queue. *)
EveryMessageSettles ==
  \A m \in Messages : m \in sent ~> m \in deleted \cup dlq

(* The inductive invariant behind AtMostOnce, NoSilentAck and the refinement.
   Its core is a mutual exclusion that no lock provides: two containers are
   never inside the work of one event, because a working container's event
   has its marker, and the marker cannot expire while the container holds
   the message. *)
InvocationOK ==
  \A w \in Workers :
    /\ pc[w] = "idle" => batch[w] = {}
    /\ todo[w] \subseteq batch[w]
    /\ Working(w) => cur[w] \in batch[w] \ Malformed

OneWorkerPerEvent ==
  \A v, w \in Workers :
    (Working(v) /\ Working(w) /\ EventOf[cur[v]] = EventOf[cur[w]]) => v = w

MarkedWhileWorking == \A w \in Workers : Working(w) => marker[EventOf[cur[w]]]

RunsBounded ==
  /\ \A e \in Events : ~marker[e] => runs[e] <= expiries[e]
  /\ \A w \in Workers :
       pc[w] = "claimed" => runs[EventOf[cur[w]]] <= expiries[EventOf[cur[w]]]

\* A record of m was handled and may be acknowledged.
Accounted(m) ==
  /\ m \notin Malformed
  /\ marker[EventOf[m]] \/ expiries[EventOf[m]] > 0

SuccessesAccounted ==
  \A w \in Workers : \A m \in batch[w] \ (todo[w] \cup failures[w]) : Accounted(m)

Inv ==
  /\ TypeOK
  /\ InvocationOK
  /\ OneWorkerPerEvent
  /\ MarkedWhileWorking
  /\ RunsBounded
  /\ AtMostOnce
  /\ SuccessesAccounted
  /\ NoSilentAck

(* What consumer.go says of a handler's error: the record is kept on the
   queue for retry or for the DLQ.  Then a message of an event whose work
   failed and never succeeded is not deleted. *)
FailedWorkIsKept ==
  \A m \in deleted \ dropped :
    EventOf[m] \in failed => EventOf[m] \in done
=============================================================================
