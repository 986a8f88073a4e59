--------------------------- MODULE DeliveryProofs ---------------------------
(***************************************************************************)
(* The consumer skeleton of Delivery, for every set of events, messages    *)
(* and containers, every batch size and every maxReceiveCount; and the     *)
(* kill switch its gate asks, which is the row and the caches of Settings. *)
(***************************************************************************)
EXTENDS Delivery, Settings, TLAPS

(* The invariant holds of an empty queue with no markers. *)
LEMMA InitInv == Init => Inv
  <1> SUFFICES ASSUME Init PROVE Inv
    OBVIOUS
  <1> USE DeliveryAssumption DEF Init
  <1>1. TypeOK
    BY DEF TypeOK
  <1>2. InvocationOK /\ OneWorkerPerEvent /\ MarkedWhileWorking
    BY DEF InvocationOK, OneWorkerPerEvent, MarkedWhileWorking, Working
  <1>3. RunsBounded /\ AtMostOnce
    BY DEF RunsBounded, AtMostOnce
  <1>4. SuccessesAccounted /\ NoSilentAck
    BY DEF SuccessesAccounted, NoSilentAck
  <1>5. QED
    BY <1>1, <1>2, <1>3, <1>4 DEF Inv

(* The queue's own steps touch no invocation and no marker. *)
LEMMA QueueStep ==
  ASSUME Inv, NEW m \in Messages, Send(m) \/ Duplicate(m) \/ MoveToDLQ(m)
  PROVE  Inv'
  <1> USE DeliveryAssumption
  <1>1. TypeOK'
    BY DEF Inv, TypeOK, Send, Duplicate, MoveToDLQ, invVars, historyVars
  <1>2. UNCHANGED <<invVars, marker, historyVars, deleted>>
    BY DEF Send, Duplicate, MoveToDLQ
  <1>3. QED
    BY <1>1, <1>2 DEF Inv, InvocationOK, OneWorkerPerEvent, MarkedWhileWorking,
       Working, RunsBounded, AtMostOnce, SuccessesAccounted, NoSilentAck,
       Accounted, invVars, historyVars

(* A container receives: a fresh batch, nothing handled yet. *)
LEMMA ReceiveStep ==
  ASSUME Inv, NEW w \in Workers, Receive(w)
  PROVE  Inv'
  <1> USE DeliveryAssumption
  <1>1. TypeOK'
    BY DEF Inv, TypeOK, Receive, historyVars
  <1>2. UNCHANGED <<deleted, failures, cur, marker, historyVars>>
    BY DEF Receive
  <1>3. /\ pc[w] = "idle" /\ pc' = [pc EXCEPT ![w] = "gate"]
        /\ \E ms : batch' = [batch EXCEPT ![w] = ms] /\ todo' = [todo EXCEPT ![w] = ms]
    BY DEF Receive
  <1>4. InvocationOK'
    BY <1>2, <1>3 DEF Inv, TypeOK, InvocationOK, Working
  <1>5. OneWorkerPerEvent' /\ MarkedWhileWorking' /\ RunsBounded' /\ AtMostOnce'
    BY <1>2, <1>3 DEF Inv, TypeOK, OneWorkerPerEvent, MarkedWhileWorking, RunsBounded,
       AtMostOnce, Working, historyVars
  <1>6. SuccessesAccounted' /\ NoSilentAck'
    BY <1>2, <1>3 DEF Inv, TypeOK, SuccessesAccounted, NoSilentAck, Accounted, historyVars
  <1>7. QED
    BY <1>1, <1>4, <1>5, <1>6 DEF Inv

(* An invocation that ends, well or badly, keeps the invariant as long as it
   acknowledges only records it accounted for or dropped. *)
LEMMA SettleStep ==
  ASSUME Inv, NEW w \in Workers, NEW acked, Settle(w, acked),
         acked \subseteq batch[w],
         cache' \in [Workers -> {"none", "on", "off"}],
         UNCHANGED <<enabled, marker, runs, expiries, done, failed>>,
         dropped' \in SUBSET Messages, dropped \subseteq dropped',
         \A m \in acked \ dropped' : Accounted(m)
  PROVE  Inv'
  <1> USE DeliveryAssumption
  <1>1. TypeOK'
    BY DEF Inv, TypeOK, Settle
  <1>2. /\ pc' = [pc EXCEPT ![w] = "idle"]
        /\ batch' = [batch EXCEPT ![w] = {}]
        /\ todo' = [todo EXCEPT ![w] = {}]
        /\ failures' = [failures EXCEPT ![w] = {}]
        /\ cur' = [cur EXCEPT ![w] = NoMessage]
        /\ deleted' = deleted \cup (acked \ dlq)
    BY DEF Settle
  <1>3. InvocationOK' /\ OneWorkerPerEvent' /\ MarkedWhileWorking'
    BY <1>2 DEF Inv, TypeOK, InvocationOK, OneWorkerPerEvent, MarkedWhileWorking, Working
  <1>4. RunsBounded' /\ AtMostOnce'
    BY <1>2 DEF Inv, TypeOK, RunsBounded, AtMostOnce
  <1>5. SuccessesAccounted' /\ NoSilentAck'
    BY <1>2 DEF Inv, TypeOK, SuccessesAccounted, NoSilentAck, Accounted
  <1>6. QED
    BY <1>1, <1>3, <1>4, <1>5 DEF Inv

\* The four ways an invocation ends: the kill switch, an error, a response, a
\* crash.
LEMMA EndOfInvocation ==
  ASSUME Inv, NEW w \in Workers,
         GateSkip(w) \/ GateError(w) \/ Respond(w) \/ Crash(w)
  PROVE  Inv'
  <1>1. batch[w] \subseteq Messages
    BY DEF Inv, TypeOK
  <1>2. CASE GateSkip(w)
    <2>1. \A m \in batch[w] \ dropped' : Accounted(m)
      BY <1>2 DEF GateSkip
    <2>2. QED
      BY <1>1, <1>2, <2>1, SettleStep DEF Inv, TypeOK, GateSkip
  <1>3. CASE GateError(w) \/ Crash(w)
    BY <1>3, SettleStep DEF Inv, TypeOK, GateError, Crash, historyVars
  <1>4. CASE Respond(w)
    <2>1. \A m \in batch[w] \ failures[w] : Accounted(m)
      BY <1>4 DEF Respond, Inv, SuccessesAccounted
    <2>2. QED
      BY <1>4, <2>1, SettleStep DEF Inv, TypeOK, Respond, historyVars
  <1>5. QED
    BY <1>2, <1>3, <1>4

(* The gate opens: the batch is as it was received. *)
LEMMA GateOpenStep ==
  ASSUME Inv, NEW w \in Workers, GateOpen(w)
  PROVE  Inv'
  <1> USE DeliveryAssumption
  <1>1. TypeOK'
    BY DEF Inv, TypeOK, GateOpen, sqsVars, historyVars
  <1>2. /\ pc' = [pc EXCEPT ![w] = "records"]
        /\ UNCHANGED <<deleted, batch, todo, failures, cur, marker, historyVars>>
    BY DEF GateOpen, sqsVars
  <1>3. QED
    BY <1>1, <1>2 DEF Inv, TypeOK, InvocationOK, OneWorkerPerEvent, MarkedWhileWorking,
       Working, RunsBounded, AtMostOnce, SuccessesAccounted, NoSilentAck, Accounted,
       historyVars

(* Going on to the next record leaves every success accounted for: a record
   reported as handled decoded, and its event has its marker. *)
LEMMA HandledAccounted ==
  ASSUME Inv, NEW w \in Workers, NEW m \in Messages, NEW ok \in BOOLEAN,
         Handled(w, m, ok),
         ok => m \notin Malformed /\ marker[EventOf[m]],
         \A e \in Events : marker[e] => marker'[e],
         UNCHANGED <<batch, expiries>>
  PROVE  SuccessesAccounted'
  <1> USE DeliveryAssumption
  <1> SUFFICES ASSUME NEW v \in Workers,
                      NEW n \in batch[v] \ (todo'[v] \cup failures'[v])
               PROVE  Accounted(n)'
    BY DEF SuccessesAccounted
  <1>1. n \in Messages /\ EventOf[n] \in Events /\ EventOf[m] \in Events
    BY DEF Inv, TypeOK
  <1>2. CASE n \notin todo[v] \cup failures[v]
    BY <1>1, <1>2 DEF Inv, SuccessesAccounted, Accounted
  <1>3. CASE v = w /\ n = m /\ ok
    BY <1>1, <1>3 DEF Accounted
  <1>4. QED
    BY <1>1, <1>2, <1>3 DEF Inv, TypeOK, Handled

(* Consume passes a record without entering its work. *)
LEMMA RecordStep ==
  ASSUME Inv, NEW w \in Workers, DecodeError(w) \/ AlreadyProcessed(w) \/ ClaimError(w)
  PROVE  Inv'
  <1> USE DeliveryAssumption
  <1>1. PICK m \in todo[w], ok \in BOOLEAN :
          /\ Handled(w, m, ok)
          /\ ok => m \notin Malformed /\ marker[EventOf[m]]
    BY DEF DecodeError, AlreadyProcessed, ClaimError
  <1>2. /\ m \in Messages
        /\ UNCHANGED <<sqsVars, enabled, cache, pc, batch, cur, historyVars>>
        /\ pc[w] = "records"
        /\ marker' \in [Events -> BOOLEAN]
        /\ \A e \in Events : marker[e] => marker'[e]
    BY DEF Inv, TypeOK, DecodeError, AlreadyProcessed, ClaimError
  <1>3. TypeOK'
    BY <1>1, <1>2 DEF Inv, TypeOK, Handled, sqsVars, historyVars
  <1>4. InvocationOK'
    BY <1>1, <1>2 DEF Inv, TypeOK, InvocationOK, Working, Handled
  <1>5. OneWorkerPerEvent' /\ MarkedWhileWorking'
    BY <1>2 DEF Inv, TypeOK, OneWorkerPerEvent, MarkedWhileWorking, InvocationOK, Working
  <1>6. RunsBounded' /\ AtMostOnce'
    BY <1>2 DEF Inv, TypeOK, RunsBounded, AtMostOnce, historyVars
  <1>7. SuccessesAccounted'
    BY <1>1, <1>2, HandledAccounted DEF historyVars
  <1>8. NoSilentAck'
    BY <1>2 DEF Inv, TypeOK, NoSilentAck, sqsVars, historyVars
  <1>9. QED
    BY <1>3, <1>4, <1>5, <1>6, <1>7, <1>8 DEF Inv

(* The conditional write: no other container works on the event, for its
   marker was absent. *)
LEMMA ClaimStep ==
  ASSUME Inv, NEW w \in Workers, Claim(w)
  PROVE  Inv'
  <1> USE DeliveryAssumption
  <1>1. PICK m \in todo[w] \ Malformed :
          /\ ~marker[EventOf[m]]
          /\ marker' = [marker EXCEPT ![EventOf[m]] = TRUE]
          /\ cur' = [cur EXCEPT ![w] = m]
    BY DEF Claim
  <1>2. m \in Messages /\ EventOf[m] \in Events
    BY DEF Inv, TypeOK
  <1>3. /\ pc[w] = "records"
        /\ pc' = [pc EXCEPT ![w] = "claimed"]
        /\ UNCHANGED <<deleted, batch, todo, failures, historyVars>>
    BY DEF Claim, sqsVars, historyVars
  <1>4. TypeOK'
    BY <1>1, <1>2 DEF Inv, TypeOK, Claim, sqsVars
  <1>5. \A v \in Workers : Working(v) => EventOf[cur[v]] # EventOf[m]
    BY <1>1 DEF Inv, MarkedWhileWorking
  <1>6. \A v \in Workers : v # w => (Working(v)' <=> Working(v)) /\ cur'[v] = cur[v]
    BY <1>1, <1>3 DEF Inv, TypeOK, Working
  <1>7. Working(w)' /\ cur'[w] = m /\ m \in batch[w]
    BY <1>1, <1>3 DEF Inv, TypeOK, InvocationOK, Working
  <1>8. InvocationOK'
    BY <1>1, <1>3, <1>6, <1>7 DEF Inv, TypeOK, InvocationOK, Working
  <1>9. OneWorkerPerEvent' /\ MarkedWhileWorking'
    BY <1>1, <1>2, <1>5, <1>6, <1>7
       DEF Inv, TypeOK, OneWorkerPerEvent, MarkedWhileWorking, InvocationOK
  <1>10. RunsBounded' /\ AtMostOnce'
    BY <1>1, <1>2, <1>3, <1>6, <1>7
       DEF Inv, TypeOK, RunsBounded, AtMostOnce, InvocationOK, Working, historyVars
  <1>11. SuccessesAccounted' /\ NoSilentAck'
    BY <1>1, <1>2, <1>3 DEF Inv, TypeOK, SuccessesAccounted, NoSilentAck, Accounted,
       historyVars
  <1>12. QED
    BY <1>4, <1>8, <1>9, <1>10, <1>11 DEF Inv

(* The work is entered by the one container that claimed the event. *)
LEMMA StartWorkStep ==
  ASSUME Inv, NEW w \in Workers, StartWork(w)
  PROVE  Inv'
  <1> USE DeliveryAssumption
  <1> DEFINE e == EventOf[cur[w]]
  <1>1. /\ pc[w] = "claimed" /\ pc' = [pc EXCEPT ![w] = "running"]
        /\ runs' = [runs EXCEPT ![e] = @ + 1]
        /\ UNCHANGED <<deleted, batch, todo, failures, cur, marker, expiries, dropped>>
    BY DEF StartWork, sqsVars
  <1>2. e \in Events /\ marker[e] /\ runs[e] <= expiries[e]
    BY <1>1 DEF Inv, TypeOK, InvocationOK, MarkedWhileWorking, RunsBounded, Working
  <1>3. TypeOK'
    BY <1>1, <1>2 DEF Inv, TypeOK, StartWork, sqsVars
  <1>4. \A v \in Workers : Working(v)' <=> Working(v)
    BY <1>1 DEF Inv, TypeOK, Working
  <1>5. InvocationOK' /\ OneWorkerPerEvent' /\ MarkedWhileWorking'
    BY <1>1, <1>4 DEF Inv, TypeOK, InvocationOK, OneWorkerPerEvent, MarkedWhileWorking
  <1>6. RunsBounded'
    <2>1. \A v \in Workers : pc'[v] = "claimed" => pc[v] = "claimed" /\ EventOf[cur[v]] # e
      BY <1>1 DEF Inv, TypeOK, OneWorkerPerEvent, Working
    <2>2. QED
      BY <1>1, <1>2, <2>1 DEF Inv, TypeOK, RunsBounded, InvocationOK, Working
  <1>7. AtMostOnce'
    BY <1>1, <1>2 DEF Inv, TypeOK, AtMostOnce
  <1>8. SuccessesAccounted' /\ NoSilentAck'
    BY <1>1 DEF Inv, TypeOK, SuccessesAccounted, NoSilentAck, Accounted
  <1>9. QED
    BY <1>3, <1>5, <1>6, <1>7, <1>8 DEF Inv

(* The work returns; its record counts as handled only when it succeeded. *)
LEMMA EndWorkStep ==
  ASSUME Inv, NEW w \in Workers, EndWork(w)
  PROVE  Inv'
  <1> USE DeliveryAssumption
  <1>1. /\ pc[w] = "running" /\ pc' = [pc EXCEPT ![w] = "records"]
        /\ cur' = [cur EXCEPT ![w] = NoMessage]
        /\ UNCHANGED <<deleted, batch, marker, runs, expiries, dropped>>
        /\ \E ok \in BOOLEAN : Handled(w, cur[w], ok)
    BY DEF EndWork, sqsVars
  <1>2. cur[w] \in Messages \ Malformed /\ marker[EventOf[cur[w]]]
    BY <1>1 DEF Inv, TypeOK, InvocationOK, MarkedWhileWorking, Working
  <1>3. TypeOK'
    BY <1>1, <1>2 DEF Inv, TypeOK, EndWork, Handled, sqsVars
  <1>4. InvocationOK' /\ OneWorkerPerEvent' /\ MarkedWhileWorking'
    BY <1>1 DEF Inv, TypeOK, InvocationOK, OneWorkerPerEvent, MarkedWhileWorking,
       Working, Handled
  <1>5. RunsBounded' /\ AtMostOnce'
    BY <1>1 DEF Inv, TypeOK, RunsBounded, AtMostOnce
  <1>6. SuccessesAccounted'
    BY <1>1, <1>2, HandledAccounted
  <1>7. NoSilentAck'
    BY <1>1 DEF Inv, NoSilentAck, Accounted
  <1>8. QED
    BY <1>3, <1>4, <1>5, <1>6, <1>7 DEF Inv

(* A marker expires only while nobody works on its event. *)
LEMMA ExpireMarkerStep ==
  ASSUME Inv, NEW e \in Events, ExpireMarker(e)
  PROVE  Inv'
  <1> USE DeliveryAssumption
  <1>1. /\ marker' = [marker EXCEPT ![e] = FALSE]
        /\ expiries' = [expiries EXCEPT ![e] = @ + 1]
        /\ UNCHANGED <<deleted, invVars, runs, dropped>>
    BY DEF ExpireMarker, sqsVars
  <1>2. TypeOK'
    BY <1>1 DEF Inv, TypeOK, ExpireMarker, sqsVars, invVars
  <1>3. \A w \in Workers : Working(w) => EventOf[cur[w]] # e
    BY DEF Inv, TypeOK, InvocationOK, ExpireMarker, Quiet
  <1>4. InvocationOK' /\ OneWorkerPerEvent'
    BY <1>1 DEF Inv, TypeOK, InvocationOK, OneWorkerPerEvent, Working, invVars
  <1>5. MarkedWhileWorking'
    BY <1>1, <1>3 DEF Inv, TypeOK, MarkedWhileWorking, Working, invVars
  <1>6. RunsBounded' /\ AtMostOnce'
    BY <1>1, <1>3 DEF Inv, TypeOK, RunsBounded, AtMostOnce, Working, invVars
  <1>7. SuccessesAccounted' /\ NoSilentAck'
    BY <1>1 DEF Inv, TypeOK, SuccessesAccounted, NoSilentAck, Accounted, invVars
  <1>8. QED
    BY <1>2, <1>4, <1>5, <1>6, <1>7 DEF Inv

(* The operator and the clock of the settings cache. *)
LEMMA SettingsStep ==
  ASSUME Inv, Toggle \/ \E w \in Workers : CacheExpire(w)
  PROVE  Inv'
  <1> USE DeliveryAssumption
  <1>1. TypeOK'
    BY DEF Inv, TypeOK, Toggle, CacheExpire, sqsVars, invVars, historyVars
  <1>2. UNCHANGED <<deleted, invVars, marker, historyVars>>
    BY DEF Toggle, CacheExpire, sqsVars
  <1>3. QED
    BY <1>1, <1>2 DEF Inv, InvocationOK, OneWorkerPerEvent, MarkedWhileWorking,
       Working, RunsBounded, AtMostOnce, SuccessesAccounted, NoSilentAck,
       Accounted, invVars, historyVars

(* Every step of the consumer, its queue and its environment keeps Inv. *)
LEMMA InvStep == Inv /\ [Next]_vars => Inv'
  <1> SUFFICES ASSUME Inv, [Next]_vars PROVE Inv'
    OBVIOUS
  <1>1. CASE \E m \in Messages : Send(m) \/ Duplicate(m) \/ MoveToDLQ(m)
    BY <1>1, QueueStep
  <1>2. CASE \E w \in Workers : Receive(w)
    BY <1>2, ReceiveStep
  <1>3. CASE \E w \in Workers : Step(w)
    BY <1>3, EndOfInvocation, GateOpenStep, RecordStep, ClaimStep, StartWorkStep,
       EndWorkStep DEF Step
  <1>4. CASE \E w \in Workers : Crash(w)
    BY <1>4, EndOfInvocation
  <1>5. CASE \E e \in Events : ExpireMarker(e)
    BY <1>5, ExpireMarkerStep
  <1>6. CASE Toggle \/ \E w \in Workers : CacheExpire(w)
    BY <1>6, SettingsStep
  <1>7. CASE UNCHANGED vars
    BY <1>7 DEF Inv, TypeOK, InvocationOK, OneWorkerPerEvent, MarkedWhileWorking,
       Working, RunsBounded, AtMostOnce, SuccessesAccounted, NoSilentAck,
       Accounted, vars, sqsVars, invVars, historyVars
  <1>8. QED
    BY <1>1, <1>2, <1>3, <1>4, <1>5, <1>6, <1>7 DEF Next

(* The inductive invariant holds throughout: in particular two containers
   are never inside the work of one event. *)
THEOREM Invariance == Spec => []Inv
  <1>1. QED
    BY InitInv, InvStep, PTL DEF Spec

(* Type correctness of the consumer skeleton. *)
THEOREM TypeCorrect == Spec => []TypeOK
  <1>1. Inv => TypeOK
    BY DEF Inv
  <1>2. QED
    BY Invariance, <1>1, PTL

(* WithIdempotency runs the work of an event at most once per life of its
   marker, under any redelivery, duplication and crash. *)
THEOREM AtMostOnceTheorem == Spec => []AtMostOnce
  <1>1. Inv => AtMostOnce
    BY DEF Inv
  <1>2. QED
    BY Invariance, <1>1, PTL

(* No message is acknowledged without a reason. *)
THEOREM NoSilentAckTheorem == Spec => []NoSilentAck
  <1>1. Inv => NoSilentAck
    BY DEF Inv
  <1>2. QED
    BY Invariance, <1>1, PTL

-----------------------------------------------------------------------------
(* The refinement.  Only four steps move the abstract state: Claim begins the
   work, EndWork and Crash end it, ClaimError may forfeit it, and
   ExpireMarker reopens the window. *)

\* A step that moves no marker and no working container is a stutter.
LEMMA AbsStutter ==
  ASSUME UNCHANGED marker,
         \A w \in Workers : Working(w)' <=> Working(w),
         \A w \in Workers : Working(w) => cur'[w] = cur[w]
  PROVE  UNCHANGED Once!vars
  <1>1. \A e \in Events : WorkersOn(e)' = WorkersOn(e)
    BY DEF WorkersOn
  <1>2. QED
    BY <1>1 DEF Once!vars

\* A container that stops working ends the abstract work it was in.
LEMMA AbsEnd ==
  ASSUME Inv, NEW w \in Workers,
         UNCHANGED marker,
         ~Working(w)',
         \A v \in Workers \ {w} : (Working(v)' <=> Working(v)) /\ cur'[v] = cur[v]
  PROVE  [Once!Next]_Once!vars
  <1> USE DeliveryAssumption
  <1>1. CASE ~Working(w)
    <2>1. \A v \in Workers : (Working(v)' <=> Working(v)) /\ (Working(v) => cur'[v] = cur[v])
      BY <1>1
    <2>2. QED
      BY <2>1, AbsStutter
  <1>2. CASE Working(w)
    <2>1. PICK e \in Events : e = EventOf[cur[w]]
      BY <1>2 DEF Inv, TypeOK, InvocationOK
    <2>2. w \in WorkersOn(e) /\ WorkersOn(e)' = WorkersOn(e) \ {w}
      BY <1>2, <2>1 DEF WorkersOn
    <2>3. \A f \in Events \ {e} : WorkersOn(f)' = WorkersOn(f)
      BY <1>2, <2>1 DEF WorkersOn
    <2>4. Once!End(e, w)
      BY <2>1, <2>2, <2>3 DEF Once!End
    <2>5. QED
      BY <2>1, <2>4 DEF Once!Next
  <1>3. QED
    BY <1>1, <1>2

\* The conditional write that wins is the abstract Begin.
LEMMA AbsClaim ==
  ASSUME Inv, NEW w \in Workers, Claim(w)
  PROVE  Once!Next
  <1> USE DeliveryAssumption
  <1>1. PICK m \in todo[w] \ Malformed :
          /\ ~marker[EventOf[m]]
          /\ marker' = [marker EXCEPT ![EventOf[m]] = TRUE]
          /\ cur' = [cur EXCEPT ![w] = m]
    BY DEF Claim
  <1> DEFINE e == EventOf[m]
  <1>2. m \in Messages /\ e \in Events
    BY DEF Inv, TypeOK
  <1>3. pc[w] = "records" /\ pc' = [pc EXCEPT ![w] = "claimed"]
    BY DEF Claim
  <1>4. WorkersOn(e) = {}
    BY <1>1 DEF Inv, MarkedWhileWorking, WorkersOn
  <1>5. WorkersOn(e)' = {w}
    BY <1>1, <1>3, <1>4 DEF Inv, TypeOK, WorkersOn, Working
  <1>6. \A f \in Events \ {e} : WorkersOn(f)' = WorkersOn(f)
    BY <1>1, <1>3 DEF Inv, TypeOK, WorkersOn, Working
  <1>7. Once!Begin(e, w)
    BY <1>1, <1>2, <1>4, <1>5, <1>6 DEF Inv, TypeOK, Once!Begin
  <1>8. QED
    BY <1>2, <1>7 DEF Once!Next

\* The ambiguous write: the marker may be there although nobody works.
LEMMA AbsClaimError ==
  ASSUME Inv, NEW w \in Workers, ClaimError(w)
  PROVE  [Once!Next]_Once!vars
  <1> USE DeliveryAssumption
  <1>1. PICK m \in todo[w] \ Malformed :
          \/ UNCHANGED marker
          \/ marker' = [marker EXCEPT ![EventOf[m]] = TRUE]
    BY DEF ClaimError
  <1> DEFINE e == EventOf[m]
  <1>2. e \in Events
    BY DEF Inv, TypeOK
  <1>3. UNCHANGED <<pc, cur>>
    BY DEF ClaimError
  <1>4. \A f \in Events : WorkersOn(f)' = WorkersOn(f)
    BY <1>3 DEF WorkersOn, Working
  <1>5. CASE UNCHANGED marker \/ marker[e]
    <2>1. marker \in [Events -> BOOLEAN]
      BY DEF Inv, TypeOK
    <2>2. marker[e] => [marker EXCEPT ![e] = TRUE] = marker
      BY <1>2, <2>1
    <2>3. UNCHANGED marker
      BY <1>1, <1>5, <2>2
    <2>4. QED
      BY <2>3, <1>4 DEF Once!vars
  <1>6. CASE ~marker[e] /\ marker' = [marker EXCEPT ![e] = TRUE]
    <2>1. Once!Forfeit(e)
      BY <1>2, <1>4, <1>6 DEF Inv, TypeOK, Once!Forfeit
    <2>2. QED
      BY <1>2, <2>1 DEF Once!Next
  <1>7. QED
    BY <1>1, <1>5, <1>6

\* The expiry of a marker reopens the window.
LEMMA AbsExpire ==
  ASSUME Inv, NEW e \in Events, ExpireMarker(e)
  PROVE  Once!Next
  <1> USE DeliveryAssumption
  <1>1. /\ marker[e] /\ marker' = [marker EXCEPT ![e] = FALSE]
        /\ UNCHANGED <<pc, cur>>
    BY DEF ExpireMarker, invVars
  <1>2. WorkersOn(e) = {}
    BY DEF Inv, TypeOK, InvocationOK, ExpireMarker, Quiet, WorkersOn
  <1>3. \A f \in Events : WorkersOn(f)' = WorkersOn(f)
    BY <1>1 DEF WorkersOn, Working
  <1>4. Once!Reopen(e)
    BY <1>1, <1>2, <1>3 DEF Inv, TypeOK, Once!Reopen
  <1>5. QED
    BY <1>4 DEF Once!Next

\* Every step of the consumer is an abstract step or a stutter.
LEMMA AbsStep == Inv /\ [Next]_vars => [Once!Next]_Once!vars
  <1> SUFFICES ASSUME Inv, [Next]_vars PROVE [Once!Next]_Once!vars
    OBVIOUS
  <1>1. CASE \E m \in Messages : Send(m) \/ Duplicate(m) \/ MoveToDLQ(m)
    BY <1>1, AbsStutter DEF Send, Duplicate, MoveToDLQ, invVars, Working
  <1>2. ASSUME NEW w \in Workers, Receive(w)
        PROVE  [Once!Next]_Once!vars
    BY <1>2, AbsStutter DEF Receive, Inv, TypeOK, Working
  <1>3. ASSUME NEW w \in Workers,
               GateOpen(w) \/ DecodeError(w) \/ AlreadyProcessed(w) \/ StartWork(w)
        PROVE  [Once!Next]_Once!vars
    BY <1>3, AbsStutter
       DEF GateOpen, DecodeError, AlreadyProcessed, StartWork, Inv, TypeOK, Working
  <1>4. ASSUME NEW w \in Workers,
               GateSkip(w) \/ GateError(w) \/ Respond(w) \/ Crash(w) \/ EndWork(w)
        PROVE  [Once!Next]_Once!vars
    BY <1>4, AbsEnd
       DEF GateSkip, GateError, Respond, Crash, EndWork, Settle, Inv, TypeOK, Working
  <1>5. ASSUME NEW w \in Workers, Step(w) PROVE [Once!Next]_Once!vars
    BY <1>3, <1>4, <1>5, AbsClaim, AbsClaimError DEF Step
  <1>6. CASE Toggle \/ \E w \in Workers : CacheExpire(w)
    BY <1>6, AbsStutter DEF Toggle, CacheExpire, invVars, Working
  <1>7. CASE UNCHANGED vars
    BY <1>7, AbsStutter DEF vars, invVars, Working
  <1>8. QED
    BY <1>1, <1>2, <1>4, <1>5, <1>6, <1>7, AbsExpire DEF Next

\* With no markers, every window is open.
LEMMA AbsInit == Init => Once!Init
  BY DEF Init, Once!Init, WorkersOn, Working

(* The consumer skeleton, with its queue, its retries, its duplicates and its
   crashes, implements "at most one container works on an event, once per
   window". *)
THEOREM RefinesOnceOnly == Spec => ImplementsOnceOnly
  <1>1. QED
    BY AbsInit, AbsStep, Invariance, PTL DEF Spec, ImplementsOnceOnly, Once!Spec

-----------------------------------------------------------------------------
(***************************************************************************)
(* The switch the gate asks (module Settings): how long a container may go *)
(* on after the row stopped allowing its stage.                            *)
(***************************************************************************)

Fetched == [pc : {"idle", "store"}, on : SUBSET Keys, since : Times]
Patch == [pc : {"idle", "put", "cache"}, copy : Row, key : Keys, value : BOOLEAN, since : Times]
View == [on : SUBSET Keys, at : Times \cup {-TTL}]

\* While the row allows a stage it is seen to, and what was read of the row is
\* at most one call old when it becomes a container's view.
FlagsDated ==
  /\ \A s \in Stages : seen[s] <= now /\ (Allows(row.on, s) => seen[s] = now)
  /\ \A c \in Containers : fetched[c].pc = "store" =>
       /\ fetched[c].since <= now /\ now <= fetched[c].since + CallTime
       /\ \A s \in Stages : Allows(fetched[c].on, s) => fetched[c].since <= seen[s]
  /\ \A a \in Apis : req[a].pc = "cache" =>
       /\ req[a].since <= now /\ now <= req[a].since + CallTime
       /\ \A s \in Stages : Allows(req[a].copy.on, s) => req[a].since <= seen[s]
  /\ \A c \in Containers, s \in Stages :
       Allows(view[c].on, s) => view[c].at <= seen[s] + CallTime

SettingsInv == SettingsTypeOK /\ FlagsDated

LEMMA TimesAreNumbers ==
  /\ Times \subseteq Nat /\ 0 \in Times /\ CallTime \in Nat /\ TTL \in Nat /\ MaxTime \in Nat
  /\ Apis \subseteq Containers /\ Stages \subseteq Keys /\ Pipeline \in Keys
BY SettingsAssumption DEF Times, SettingsAssumption, Containers, Keys

\* What the invariant compares are numbers.
LEMMA Numbers ==
  ASSUME SettingsTypeOK
  PROVE  /\ now \in Nat
         /\ \A s \in Stages : seen[s] \in Nat
         /\ \A c \in Containers : fetched[c].since \in Nat
         /\ \A a \in Apis : req[a].since \in Nat
         /\ \A c \in Containers : view[c].at \in Int
<1>1. /\ now \in Times
      /\ \A s \in Stages : seen[s] \in Times
      /\ \A c \in Containers : fetched[c].since \in Times
      /\ \A a \in Apis : req[a].since \in Times
      /\ \A c \in Containers : view[c].at \in Times \cup {-TTL}
  BY DEF SettingsTypeOK
<1>2. \A t \in Times : t \in Nat
  BY TimesAreNumbers
<1>3. -TTL \in Int
  BY TimesAreNumbers
<1>4. \A t \in Times \cup {-TTL} : t \in Int
  BY <1>2, <1>3
<1> QED BY <1>1, <1>2, <1>4

\* A put leaves a row, and dates the stages it or the row before it allows.
LEMMA PutTyped ==
  ASSUME SettingsTypeOK, NEW new \in Row, Put(new)
  PROVE  row' \in Row /\ seen' \in [Stages -> Times]
BY DEF Put, SettingsTypeOK

LEMMA PutDates ==
  ASSUME SettingsInv, NEW new \in Row, Put(new), now' = now
  PROVE  \A s \in Stages :
           /\ seen[s] <= seen'[s] /\ seen'[s] <= now'
           /\ Allows(row'.on, s) => seen'[s] = now'
BY TimesAreNumbers DEF SettingsInv, SettingsTypeOK, FlagsDated, Put

\* What a PATCH puts is a row.
LEMMA MergedTyped ==
  ASSUME SettingsTypeOK, NEW a \in Apis
  PROVE  Merged(a) \in Row
BY DEF SettingsTypeOK, Merged, Row

LEMMA RolledTyped ==
  ASSUME SettingsTypeOK
  PROVE  [on |-> roll.copy.on \cup Due(roll.copy), budget |-> roll.copy.budget \ Due(roll.copy)]
           \in Row
BY TimesAreNumbers DEF SettingsTypeOK, Due, Row

LEMMA PausedTyped ==
  ASSUME SettingsTypeOK, NEW s \in Stages
  PROVE  [on |-> row.on \ {s}, budget |-> row.budget \cup {s}] \in Row
BY DEF SettingsTypeOK, Row

LEMMA InitSettings == SettingsInit => SettingsInv
<1> SUFFICES ASSUME SettingsInit PROVE SettingsInv
  OBVIOUS
<1>1. SettingsTypeOK
  BY TimesAreNumbers, SettingsAssumption
     DEF SettingsInit, SettingsTypeOK, Row, NoPatch, NoRoll, NoCache, NoFetch, SettingsAssumption
<1>2. FlagsDated
  BY TimesAreNumbers DEF SettingsInit, FlagsDated, NoPatch, NoCache, NoFetch, Allows
<1> QED BY <1>1, <1>2 DEF SettingsInv

-----------------------------------------------------------------------------
\* Reading the row, caching it, and the PATCH after its put.
LEMMA FetchKeeps ==
  ASSUME SettingsInv, NEW c \in Containers, Fetch(c)
  PROVE  SettingsInv'
<1>0. SettingsTypeOK /\ FlagsDated
  BY DEF SettingsInv
<1>1. [pc |-> "store", on |-> row.on, since |-> now] \in Fetched
  BY <1>0 DEF SettingsTypeOK, Row, Fetched
<1>2. /\ fetched' = [fetched EXCEPT ![c] = [pc |-> "store", on |-> row.on, since |-> now]]
      /\ fetched' \in [Containers -> Fetched]
  BY <1>0, <1>1 DEF Fetch, SettingsTypeOK, Fetched
<1>3. SettingsTypeOK'
  BY <1>0, <1>2 DEF Fetch, SettingsTypeOK, Fetched
<1>4. FlagsDated'
  <2>1. \A d \in Containers : d # c => fetched'[d] = fetched[d]
    BY <1>2 DEF Fetched
  <2>2. /\ fetched'[c].since = now /\ fetched'[c].on = row.on /\ now <= now + CallTime
        /\ now <= now
    BY <1>0, <1>2, TimesAreNumbers DEF SettingsTypeOK
  <2>3. UNCHANGED <<row, req, view, now, seen>>
    BY DEF Fetch
  <2>4. \A s \in Stages : Allows(row.on, s) => seen[s] = now
    BY <1>0 DEF FlagsDated
  <2> QED BY <1>0, <2>1, <2>2, <2>3, <2>4 DEF FlagsDated
<1> QED BY <1>3, <1>4 DEF SettingsInv

\* A view taken from what was read at most a call ago.
LEMMA ViewKeeps ==
  ASSUME SettingsInv, NEW c \in Containers, NEW on \in SUBSET Keys,
         view' = [view EXCEPT ![c] = [on |-> on, at |-> now]],
         \A s \in Stages : Allows(on, s) => now <= seen[s] + CallTime,
         UNCHANGED <<now, seen>>
  PROVE  /\ view' \in [Containers -> View]
         /\ \A d \in Containers, s \in Stages :
              Allows(view'[d].on, s) => view'[d].at <= seen'[s] + CallTime
<1>1. view \in [Containers -> View] /\ now \in Times
  BY DEF SettingsInv, SettingsTypeOK, View
<1>2. [on |-> on, at |-> now] \in View
  BY <1>1 DEF View
<1>3. \A d \in Containers : d # c => view'[d] = view[d]
  BY <1>1
<1>4. view'[c] = [on |-> on, at |-> now]
  BY <1>1
<1> QED BY <1>1, <1>2, <1>3, <1>4 DEF SettingsInv, FlagsDated

LEMMA StoreKeeps ==
  ASSUME SettingsInv, NEW c \in Containers, Store(c)
  PROVE  SettingsInv'
<1>0. SettingsTypeOK /\ FlagsDated
  BY DEF SettingsInv
<1>1. fetched \in [Containers -> Fetched] /\ fetched[c] \in Fetched
  BY <1>0 DEF SettingsTypeOK, Fetched
<1>2. \A s \in Stages : Allows(fetched[c].on, s) => now <= seen[s] + CallTime
  <2>1. /\ now <= fetched[c].since + CallTime
        /\ \A s \in Stages : Allows(fetched[c].on, s) => fetched[c].since <= seen[s]
    BY <1>0 DEF Store, FlagsDated
  <2> QED BY <1>0, <2>1, Numbers, TimesAreNumbers
<1>3. fetched' = [fetched EXCEPT ![c] = NoFetch] /\ NoFetch \in Fetched
  BY TimesAreNumbers DEF Store, NoFetch, Fetched
<1>4. /\ view' \in [Containers -> View]
      /\ \A d \in Containers, s \in Stages :
           Allows(view'[d].on, s) => view'[d].at <= seen'[s] + CallTime
  BY <1>1, <1>2, ViewKeeps DEF Store, Fetched
<1>5. SettingsTypeOK'
  BY <1>0, <1>1, <1>3, <1>4 DEF Store, SettingsTypeOK, Fetched, View
<1>6. FlagsDated'
  <2>1. \A d \in Containers : fetched'[d].pc = "store" => fetched'[d] = fetched[d]
    BY <1>1, <1>3 DEF NoFetch
  <2>2. UNCHANGED <<row, req, now, seen>>
    BY DEF Store
  <2> QED BY <1>0, <1>4, <2>1, <2>2 DEF FlagsDated
<1> QED BY <1>5, <1>6 DEF SettingsInv

LEMMA SetSettingsKeeps ==
  ASSUME SettingsInv, NEW a \in Apis, SetSettings(a)
  PROVE  SettingsInv'
<1>0. SettingsTypeOK /\ FlagsDated
  BY DEF SettingsInv
<1>1. req \in [Apis -> Patch] /\ req[a] \in Patch
  BY <1>0 DEF SettingsTypeOK, Patch
<1>2. \A s \in Stages : Allows(req[a].copy.on, s) => now <= seen[s] + CallTime
  <2>1. /\ now <= req[a].since + CallTime
        /\ \A s \in Stages : Allows(req[a].copy.on, s) => req[a].since <= seen[s]
    BY <1>0 DEF SetSettings, FlagsDated
  <2> QED BY <1>0, <2>1, Numbers, TimesAreNumbers
<1>3. req' = [req EXCEPT ![a] = NoPatch] /\ NoPatch \in Patch
  BY TimesAreNumbers DEF SetSettings, NoPatch, Patch, Row
<1>4. /\ view' \in [Containers -> View]
      /\ \A d \in Containers, s \in Stages :
           Allows(view'[d].on, s) => view'[d].at <= seen'[s] + CallTime
  BY <1>1, <1>2, ViewKeeps, TimesAreNumbers DEF SetSettings, Patch, Row
<1>5. SettingsTypeOK'
  BY <1>0, <1>1, <1>3, <1>4 DEF SetSettings, SettingsTypeOK, Patch, View
<1>6. FlagsDated'
  <2>1. \A b \in Apis : req'[b].pc = "cache" => req'[b] = req[b]
    BY <1>1, <1>3 DEF NoPatch
  <2>2. UNCHANGED <<row, fetched, now, seen>>
    BY DEF SetSettings
  <2> QED BY <1>0, <1>4, <2>1, <2>2 DEF FlagsDated
<1> QED BY <1>5, <1>6 DEF SettingsInv

\* A PATCH that reads, or whose put fails.
LEMMA PatchKeeps ==
  ASSUME SettingsInv, NEW a \in Apis, ReadFresh(a) \/ FailPatch(a)
  PROVE  SettingsInv'
<1>0. SettingsTypeOK /\ FlagsDated
  BY DEF SettingsInv
<1>1. req \in [Apis -> Patch]
  BY <1>0 DEF SettingsTypeOK, Patch
<1>2. PICK p \in Patch : req' = [req EXCEPT ![a] = p] /\ p.pc # "cache"
  <2>1. CASE ReadFresh(a)
    <3>1. PICK k \in Keys, v \in BOOLEAN :
            req' = [req EXCEPT ![a] =
                      [pc |-> "put", copy |-> row, key |-> k, value |-> v, since |-> now]]
      BY <2>1 DEF ReadFresh
    <3>2. [pc |-> "put", copy |-> row, key |-> k, value |-> v, since |-> now] \in Patch
      BY <1>0 DEF SettingsTypeOK, Patch
    <3> QED BY <3>1, <3>2
  <2>2. CASE FailPatch(a)
    <3>1. NoPatch \in Patch /\ NoPatch.pc # "cache"
      BY TimesAreNumbers DEF NoPatch, Patch, Row
    <3> QED BY <2>2, <3>1 DEF FailPatch
  <2> QED BY <2>1, <2>2
<1>3. SettingsTypeOK'
  BY <1>0, <1>1, <1>2, SettingsAssumption
     DEF ReadFresh, FailPatch, SettingsTypeOK, Patch, SettingsAssumption
<1>4. FlagsDated'
  <2>1. \A b \in Apis : req'[b].pc = "cache" => req'[b] = req[b]
    BY <1>1, <1>2
  <2>2. UNCHANGED <<row, view, fetched, now, seen>>
    BY DEF ReadFresh, FailPatch
  <2> QED BY <1>0, <2>1, <2>2 DEF FlagsDated
<1> QED BY <1>3, <1>4 DEF SettingsInv

-----------------------------------------------------------------------------
\* A put of the row, whoever makes it: what was read before stays dated.
LEMMA PutKeepsDates ==
  ASSUME SettingsInv, NEW new \in Row, Put(new), UNCHANGED <<view, fetched, now>>,
         \A b \in Apis : req'[b].pc = "cache" =>
           \/ req'[b] = req[b]
           \/ req'[b].since = now /\ req'[b].copy = new
  PROVE  FlagsDated'
<1>0. SettingsTypeOK /\ FlagsDated
  BY DEF SettingsInv
<1>1. \A s \in Stages : /\ seen[s] <= seen'[s] /\ seen'[s] <= now'
                        /\ Allows(row'.on, s) => seen'[s] = now'
  BY PutDates
<1>2. /\ \A s \in Stages : seen[s] \in Nat /\ seen'[s] \in Nat
      /\ now \in Nat /\ now' = now /\ CallTime \in Nat
  <2>1. seen' \in [Stages -> Times]
    BY <1>0, PutTyped
  <2> QED BY <1>0, <2>1, Numbers, TimesAreNumbers
<1>3. /\ \A c \in Containers : fetched[c].since \in Nat
      /\ \A c \in Containers : view[c].at \in Int
  BY <1>0, Numbers
<1>4. ASSUME NEW c \in Containers, fetched'[c].pc = "store"
      PROVE  /\ fetched'[c].since <= now' /\ now' <= fetched'[c].since + CallTime
             /\ \A s \in Stages : Allows(fetched'[c].on, s) => fetched'[c].since <= seen'[s]
  BY <1>0, <1>1, <1>2, <1>3, <1>4 DEF FlagsDated, Allows
<1>5. ASSUME NEW b \in Apis, req'[b].pc = "cache"
      PROVE  /\ req'[b].since <= now' /\ now' <= req'[b].since + CallTime
             /\ \A s \in Stages : Allows(req'[b].copy.on, s) => req'[b].since <= seen'[s]
  <2>1. CASE req'[b] = req[b]
    <3>1. req[b].since \in Nat
      BY <1>0, Numbers
    <3> QED BY <1>0, <1>1, <1>2, <1>5, <2>1, <3>1 DEF FlagsDated, Allows
  <2>2. CASE req'[b].since = now /\ req'[b].copy = new
    <3>1. row' = new
      BY DEF Put
    <3> QED BY <1>1, <1>2, <2>2, <3>1 DEF Allows
  <2> QED BY <1>5, <2>1, <2>2
<1>6. ASSUME NEW c \in Containers, NEW s \in Stages, Allows(view'[c].on, s)
      PROVE  view'[c].at <= seen'[s] + CallTime
  BY <1>0, <1>1, <1>2, <1>3, <1>6 DEF FlagsDated, Allows
<1> QED BY <1>1, <1>4, <1>5, <1>6 DEF FlagsDated, Allows

LEMMA WriteRowKeeps ==
  ASSUME SettingsInv, NEW a \in Apis, WriteRow(a)
  PROVE  SettingsInv'
<1>0. SettingsTypeOK
  BY DEF SettingsInv
<1>1. req \in [Apis -> Patch] /\ Merged(a) \in Row /\ now \in Times
  BY <1>0, MergedTyped DEF SettingsTypeOK, Patch
<1> DEFINE p == [req[a] EXCEPT !.pc = "cache", !.copy = Merged(a), !.since = now]
<1>2. p \in Patch /\ p.since = now /\ p.copy = Merged(a)
  BY <1>1 DEF Patch
<1>3. req' = [req EXCEPT ![a] = p]
  BY DEF WriteRow
<1> HIDE DEF p
<1>4. req' \in [Apis -> Patch] /\ req'[a] = p /\ \A b \in Apis : b # a => req'[b] = req[b]
  BY <1>1, <1>2, <1>3
<1>5. SettingsTypeOK'
  <2>1. row' \in Row /\ seen' \in [Stages -> Times]
    BY <1>0, <1>1, PutTyped DEF WriteRow
  <2>2. manual' \subseteq Stages
    BY <1>0 DEF WriteRow, SettingsTypeOK
  <2> QED BY <1>0, <1>4, <2>1, <2>2 DEF WriteRow, SettingsTypeOK, Patch
<1>6. FlagsDated'
  BY <1>1, <1>2, <1>4, PutKeepsDates DEF WriteRow
<1> QED BY <1>5, <1>6 DEF SettingsInv

\* The rollover and the budget pauses.
LEMMA RollKeeps ==
  ASSUME SettingsInv, RollRead \/ RollWrite \/ FailRoll \/ \E s \in Stages : Pause(s)
  PROVE  SettingsInv'
<1>0. SettingsTypeOK /\ FlagsDated
  BY DEF SettingsInv
<1>1. CASE RollRead \/ FailRoll
  <2>1. SettingsTypeOK'
    BY <1>0, <1>1 DEF RollRead, FailRoll, NoRoll, SettingsTypeOK, Row
  <2>2. FlagsDated'
    BY <1>0, <1>1 DEF RollRead, FailRoll, FlagsDated
  <2> QED BY <2>1, <2>2 DEF SettingsInv
<1>2. CASE RollWrite
  <2>1. PICK new \in Row : Put(new)
    BY <1>0, <1>2, RolledTyped DEF RollWrite
  <2>2. SettingsTypeOK'
    <3>1. row' \in Row /\ seen' \in [Stages -> Times]
      BY <1>0, <2>1, PutTyped
    <3> QED BY <1>0, <1>2, <3>1 DEF RollWrite, NoRoll, SettingsTypeOK, Row
  <2>3. FlagsDated'
    BY <1>2, <2>1, PutKeepsDates DEF RollWrite
  <2> QED BY <2>2, <2>3 DEF SettingsInv
<1>3. ASSUME NEW s \in Stages, Pause(s) PROVE SettingsInv'
  <2>1. PICK new \in Row : Put(new)
    BY <1>0, <1>3, PausedTyped DEF Pause
  <2>2. SettingsTypeOK'
    <3>1. row' \in Row /\ seen' \in [Stages -> Times]
      BY <1>0, <2>1, PutTyped
    <3>2. pauses' \in 0..MaxPauses
      BY <1>0, <1>3, SettingsAssumption DEF Pause, SettingsTypeOK, SettingsAssumption
    <3> QED BY <1>0, <1>3, <3>1, <3>2 DEF Pause, SettingsTypeOK
  <2>3. FlagsDated'
    BY <1>3, <2>1, PutKeepsDates DEF Pause
  <2> QED BY <2>2, <2>3 DEF SettingsInv
<1> QED BY <1>1, <1>2, <1>3

\* Time passes for the row as for what was read of it.
LEMMA TickKeeps ==
  ASSUME SettingsInv, Tick
  PROVE  SettingsInv'
<1>0. SettingsTypeOK /\ FlagsDated
  BY DEF SettingsInv
<1>1. /\ now' = now + 1 /\ now \in Nat /\ now' \in Times /\ CallTime \in Nat
      /\ UNCHANGED <<row, req, view, fetched>>
  BY <1>0, TimesAreNumbers DEF Tick, SettingsTypeOK, Times
<1>2. \A s \in Stages : seen'[s] = IF Allows(row.on, s) THEN now + 1 ELSE seen[s]
  BY DEF Tick
<1>3. \A s \in Stages : seen[s] \in Nat /\ seen'[s] \in Times /\ seen[s] <= seen'[s]
  <2>1. \A s \in Stages : seen'[s] = now + 1 \/ seen'[s] = seen[s]
    BY <1>2
  <2>2. \A s \in Stages : seen[s] <= now /\ seen[s] \in Times
    BY <1>0 DEF SettingsTypeOK, FlagsDated
  <2> QED BY <1>0, <1>1, <2>1, <2>2, Numbers
<1>4. SettingsTypeOK'
  BY <1>0, <1>1, <1>3 DEF Tick, SettingsTypeOK
<1>5. \A s \in Stages : seen'[s] <= now' /\ (Allows(row'.on, s) => seen'[s] = now')
  BY <1>0, <1>1, <1>2, <1>3 DEF FlagsDated
<1>6. ASSUME NEW c \in Containers, fetched'[c].pc = "store"
      PROVE  /\ fetched'[c].since <= now' /\ now' <= fetched'[c].since + CallTime
             /\ \A s \in Stages : Allows(fetched'[c].on, s) => fetched'[c].since <= seen'[s]
  <2>1. now < fetched[c].since + CallTime /\ fetched[c].since \in Nat
    BY <1>0, <1>1, <1>6, TimesAreNumbers DEF Tick, SettingsTypeOK
  <2>2. \A s \in Stages : seen'[s] \in Nat
    BY <1>3, TimesAreNumbers
  <2> QED BY <1>0, <1>1, <1>3, <1>6, <2>1, <2>2 DEF FlagsDated
<1>7. ASSUME NEW a \in Apis, req'[a].pc = "cache"
      PROVE  /\ req'[a].since <= now' /\ now' <= req'[a].since + CallTime
             /\ \A s \in Stages : Allows(req'[a].copy.on, s) => req'[a].since <= seen'[s]
  <2>1. now < req[a].since + CallTime /\ req[a].since \in Nat
    BY <1>0, <1>1, <1>7, TimesAreNumbers DEF Tick, SettingsTypeOK
  <2>2. \A s \in Stages : seen'[s] \in Nat
    BY <1>3, TimesAreNumbers
  <2> QED BY <1>0, <1>1, <1>3, <1>7, <2>1, <2>2 DEF FlagsDated
<1>8. ASSUME NEW c \in Containers, NEW s \in Stages, Allows(view'[c].on, s)
      PROVE  view'[c].at <= seen'[s] + CallTime
  <2>1. view[c].at \in Int /\ view[c].at <= seen[s] + CallTime
    BY <1>0, <1>1, <1>8, Numbers DEF FlagsDated
  <2>2. seen[s] \in Nat /\ seen'[s] \in Nat /\ seen[s] <= seen'[s]
    BY <1>3, TimesAreNumbers
  <2> QED BY <1>1, <2>1, <2>2
<1>9. FlagsDated'
  BY <1>5, <1>6, <1>7, <1>8 DEF FlagsDated
<1> QED BY <1>4, <1>9 DEF SettingsInv

LEMMA StepSettings == SettingsInv /\ [SettingsNext]_settingsVars => SettingsInv'
<1> SUFFICES ASSUME SettingsInv, [SettingsNext]_settingsVars PROVE SettingsInv'
  OBVIOUS
<1>1. CASE SettingsNext
  BY <1>1, FetchKeeps, StoreKeeps, PatchKeeps, WriteRowKeeps, SetSettingsKeeps, RollKeeps, TickKeeps
     DEF SettingsNext
<1>2. CASE UNCHANGED settingsVars
  BY <1>2 DEF settingsVars, SettingsInv, SettingsTypeOK, FlagsDated
<1> QED BY <1>1, <1>2

\* The inductive invariant: what a container has read of the settings row, or
\* put there, is dated within one call of the last time the row allowed the
\* stage.
THEOREM SettingsInvariant == SettingsSpec => []SettingsInv
BY InitSettings, StepSettings, PTL DEF SettingsSpec

\* Every variable of the settings keeps its type.
THEOREM SettingsTypeCorrect == SettingsSpec => []SettingsTypeOK
<1>1. SettingsInv => SettingsTypeOK
  BY DEF SettingsInv
<1> QED BY <1>1, SettingsInvariant, PTL

\* The kill switch kills within the cache's TTL and one call (killswitch.Get,
\* Allowed), for any stages, containers, PATCHes, rollovers and pauses.
THEOREM KillSwitchLatencyTheorem == SettingsSpec => []KillSwitchLatency
<1>1. SettingsInv => KillSwitchLatency
  <2> SUFFICES ASSUME SettingsInv, NEW c \in Containers, NEW s \in Stages,
                      Usable(c), Allows(view[c].on, s)
               PROVE  now < seen[s] + TTL + CallTime
    BY DEF KillSwitchLatency
  <2>1. view[c].at \in Int /\ seen[s] \in Nat /\ now \in Nat /\ CallTime \in Nat /\ TTL \in Nat
    BY Numbers, TimesAreNumbers DEF SettingsInv
  <2>2. view[c].at <= seen[s] + CallTime
    BY DEF SettingsInv, FlagsDated
  <2> QED BY <2>1, <2>2 DEF Usable
<1> QED BY <1>1, SettingsInvariant, PTL
=============================================================================
