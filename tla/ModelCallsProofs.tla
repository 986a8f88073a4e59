-------------------------- MODULE ModelCallsProofs --------------------------
(***************************************************************************)
(* Proofs about ModelCalls, for any containers, stages, budgets, prices    *)
(* and numbers of calls, days and failures: the day's spend of a stage,    *)
(* and the number of times one answer is paid for, are bounded.            *)
(***************************************************************************)
EXTENDS ModelCalls, FiniteSetTheorems, TLAPS

Steps == {"lookup", "assert", "invoke", "record", "cache"}
Calling == [pc : Steps, stage : Stages, key : Keys \cup {NoKey}, usd : 0..MaxCost]

\* A call in progress has a stage and a key.
LEMMA CallTyped ==
  ASSUME TypeOK, NEW c \in Containers, call[c].pc # "idle"
  PROVE  call[c] \in Calling
  BY DEF TypeOK, Idle, Calling, Steps

LEMMA InitTyped == Init => TypeOK
  BY ModelCallsAssumption DEF ModelCallsAssumption, Init, TypeOK, Idle

\* The actions of one container.
CallStep(c) ==
  \/ Begin(c) \/ Lookup(c) \/ AssertCap(c) \/ Invoke(c) \/ Refuse(c)
  \/ Record(c) \/ RecordTwice(c) \/ Cache(c) \/ Fail(c)

\* A container's step keeps the state well typed.
LEMMA CallStepTyped ==
  ASSUME TypeOK, NEW c \in Containers, CallStep(c)
  PROVE  TypeOK'
<1> USE ModelCallsAssumption DEF ModelCallsAssumption
<1>a. Idle.pc = "idle" /\ NoKey \notin Keys
  BY DEF Idle
<1>1. CASE Begin(c)
  <2>0. PICK s \in Stages : \E k \in KeysOf[s] :
          call' = [call EXCEPT ![c] =
                     [pc |-> IF k = NoKey THEN "assert" ELSE "lookup",
                      stage |-> s, key |-> k, usd |-> 0]]
    BY <1>1 DEF Begin
  <2>1. PICK k \in KeysOf[s] :
          call' = [call EXCEPT ![c] =
                     [pc |-> IF k = NoKey THEN "assert" ELSE "lookup",
                      stage |-> s, key |-> k, usd |-> 0]]
    BY <2>0
  <2>2. k \in Keys \cup {NoKey}
    BY <2>1
  <2> QED BY <1>1, <2>1, <2>2 DEF Begin, TypeOK
<1>2. CASE Lookup(c)
  <2>1. call[c] \in Calling
    BY <1>2, <1>a, CallTyped DEF Lookup
  <2>2. call'[c] \in Calling \cup {Idle} /\ call' = [call EXCEPT ![c] = call'[c]]
    BY <1>2, <2>1 DEF Lookup, Finish, TypeOK, Calling, Steps
  <2> QED BY <1>2, <2>2 DEF Lookup, TypeOK, Calling, Steps
<1>3. CASE AssertCap(c)
  <2>1. call[c] \in Calling
    BY <1>3, <1>a, CallTyped DEF AssertCap
  <2>2. call'[c] \in Calling \cup {Idle} /\ call' = [call EXCEPT ![c] = call'[c]]
    BY <1>3, <2>1 DEF AssertCap, Finish, TypeOK, Calling, Steps
  <2> QED BY <1>3, <2>2 DEF AssertCap, TypeOK, Calling, Steps
<1>4. CASE Invoke(c)
  <2>1. call[c] \in Calling
    BY <1>4, <1>a, CallTyped DEF Invoke
  <2>0. PICK usd \in 0..MaxCost :
          call' = [call EXCEPT ![c].pc = "record", ![c].usd = usd]
    BY <1>4 DEF Invoke
  <2>2. call'[c] \in Calling /\ call' = [call EXCEPT ![c] = call'[c]]
    BY <2>0, <2>1 DEF TypeOK, Calling, Steps
  <2>3. bought' \in [Keys -> Nat]
    BY <1>4, <2>1 DEF Invoke, TypeOK, Calling
  <2> QED BY <1>4, <2>2, <2>3 DEF Invoke, TypeOK, Calling, Steps
<1>5. CASE Refuse(c)
  BY <1>5 DEF Refuse, Finish, TypeOK
<1>6. CASE Record(c)
  <2>1. call[c] \in Calling
    BY <1>6, <1>a, CallTyped DEF Record
  <2>2. call'[c] \in Calling \cup {Idle} /\ call' = [call EXCEPT ![c] = call'[c]]
    BY <1>6, <2>1 DEF Record, Finish, TypeOK, Calling, Steps
  <2>3. call[c].stage \in Stages /\ call[c].usd \in Nat
    BY <2>1 DEF Calling
  <2>4. ledger' \in [Stages -> Nat] /\ replica' \in [Stages -> Nat]
    BY <1>6, <2>3 DEF Record, TypeOK
  <2> QED BY <1>6, <2>2, <2>4 DEF Record, TypeOK, Calling, Steps
<1>7. CASE RecordTwice(c)
  <2>1. call[c] \in Calling
    BY <1>7, <1>a, CallTyped DEF RecordTwice
  <2>2. call[c].stage \in Stages /\ call[c].usd \in Nat
    BY <2>1 DEF Calling
  <2>3. ledger' \in [Stages -> Nat] /\ replica' \in [Stages -> Nat]
    BY <1>7, <2>2 DEF RecordTwice, TypeOK
  <2>4. faults' \in 0..MaxFaults
    BY <1>7 DEF RecordTwice, Fault, TypeOK
  <2> QED BY <1>7, <2>3, <2>4 DEF RecordTwice, Fault, Finish, TypeOK
<1>8. CASE Cache(c)
  <2>1. call[c] \in Calling
    BY <1>8, <1>a, CallTyped DEF Cache
  <2>2. cache' \in [Keys -> BOOLEAN]
    BY <1>8, <2>1 DEF Cache, TypeOK, Calling
  <2> QED BY <1>8, <2>2 DEF Cache, Finish, TypeOK
<1>9. CASE Fail(c)
  BY <1>9 DEF Fail, Fault, Finish, TypeOK
<1> QED BY <1>1, <1>2, <1>3, <1>4, <1>5, <1>6, <1>7, <1>8, <1>9 DEF CallStep

\* Every step keeps the state well typed.
LEMMA StepTyped == TypeOK /\ [Next]_vars => TypeOK'
<1> SUFFICES ASSUME TypeOK, [Next]_vars PROVE TypeOK'
  OBVIOUS
<1>1. ASSUME NEW s \in Stages, Replicate(s) PROVE TypeOK'
  BY <1>1 DEF Replicate, TypeOK
<1>4. ASSUME NEW k \in Keys, Expire(k) PROVE TypeOK'
  BY <1>4, ModelCallsAssumption DEF ModelCallsAssumption, Expire, TypeOK
<1>2. CASE Midnight
  BY <1>2, ModelCallsAssumption DEF ModelCallsAssumption, Midnight, TypeOK
<1>3. CASE UNCHANGED vars
  BY <1>3 DEF vars, TypeOK
<1> QED BY <1>1, <1>2, <1>3, <1>4, CallStepTyped DEF Next, CallStep

-----------------------------------------------------------------------------
(* Counting containers.                                                    *)

LEMMA CountType ==
  ASSUME NEW S \in SUBSET Containers
  PROVE  /\ IsFiniteSet(S)
         /\ Cardinality(S) \in Nat
         /\ Cardinality(Containers) \in Nat
         /\ Cardinality(S) <= Cardinality(Containers)
  BY ModelCallsAssumption, FS_Subset, FS_CardinalityType DEF ModelCallsAssumption

LEMMA CountMonotone ==
  ASSUME NEW S \in SUBSET Containers, NEW T \in SUBSET S
  PROVE  Cardinality(T) <= Cardinality(S)
  BY CountType, FS_Subset

\* One container fewer.
LEMMA CountDrops ==
  ASSUME NEW S \in SUBSET Containers, NEW c \in S, NEW T \in SUBSET (S \ {c})
  PROVE  Cardinality(T) + 1 <= Cardinality(S)
<1>1. IsFiniteSet(S \ {c}) /\ Cardinality(S \ {c}) = Cardinality(S) - 1
  BY CountType, FS_RemoveElement
<1>2. Cardinality(T) <= Cardinality(S \ {c})
  BY <1>1, FS_Subset
<1> QED BY <1>1, <1>2, CountType

\* At most one container fewer.
LEMMA CountLoses ==
  ASSUME NEW S \in SUBSET Containers, NEW c, NEW T \in SUBSET Containers, S \ {c} \subseteq T
  PROVE  Cardinality(S) <= Cardinality(T) + 1
<1>1. IsFiniteSet(S \ {c}) /\ Cardinality(S \ {c}) >= Cardinality(S) - 1
  BY CountType, FS_RemoveElement
<1>2. Cardinality(S \ {c}) <= Cardinality(T)
  BY CountMonotone
<1> QED BY <1>1, <1>2, CountType

LEMMA CountDisjoint ==
  ASSUME NEW S \in SUBSET Containers, NEW T \in SUBSET Containers, S \cap T = {}
  PROVE  Cardinality(S) + Cardinality(T) <= Cardinality(Containers)
<1>1. Cardinality(S \cup T) = Cardinality(S) + Cardinality(T) - Cardinality(S \cap T)
  BY CountType, FS_Union
<1>2. Cardinality(S \cap T) = 0
  BY FS_EmptySet
<1>3. Cardinality(S \cup T) <= Cardinality(Containers)
  BY CountType
<1> QED BY <1>1, <1>2, <1>3, CountType

-----------------------------------------------------------------------------
(* The spend of a day.                                                     *)

\* A read is at most one write behind, and one more for each repeated ADD.
ReplicaClose ==
  \A s \in Stages :
    /\ ~lags => replica[s] = ledger[s]
    /\ ledger[s] <= replica[s] + MaxCost * (1 + faults)

\* What is recorded, with what the calls past Assert may still record.
CommittedBounded ==
  \A s \in Stages :
    Cap[s] > 0 => ledger[s] + MaxCost * Cardinality(Admitted(s)) <= Ceiling(s)

SpendInv == TypeOK /\ ReplicaClose /\ CommittedBounded

LEMMA Multiples ==
  ASSUME NEW m \in Nat, NEW n \in Nat
  PROVE  m <= n => MaxCost * m <= MaxCost * n
<1>1. SUFFICES ASSUME m <= n PROVE MaxCost * m <= MaxCost * n
  OBVIOUS
<1>2. n - m \in Nat /\ MaxCost * (n - m) >= 0 /\ MaxCost * (n - m) = MaxCost * n - MaxCost * m
  BY <1>1, ModelCallsAssumption DEF ModelCallsAssumption
<1> QED BY <1>2, ModelCallsAssumption DEF ModelCallsAssumption

LEMMA ReplicaCloseStep == SpendInv /\ [Next]_vars => ReplicaClose'
<1> SUFFICES ASSUME SpendInv, [Next]_vars, NEW s \in Stages
             PROVE  /\ ~lags' => replica'[s] = ledger'[s]
                    /\ ledger'[s] <= replica'[s] + MaxCost * (1 + faults')
  BY DEF ReplicaClose
<1> USE ModelCallsAssumption DEF ModelCallsAssumption
<1>0. /\ TypeOK /\ faults \in Nat /\ ledger[s] \in Nat /\ replica[s] \in Nat
      /\ ~lags => replica[s] = ledger[s]
      /\ ledger[s] <= replica[s] + MaxCost * (1 + faults)
      /\ MaxCost * (1 + faults) = MaxCost + MaxCost * faults
      /\ MaxCost * (1 + (faults + 1)) = MaxCost + MaxCost + MaxCost * faults
      /\ MaxCost * faults >= 0
  BY DEF SpendInv, ReplicaClose, TypeOK
<1>1. CASE UNCHANGED <<ledger, replica, lags>> /\ faults' \in {faults, faults + 1}
  BY <1>0, <1>1
<1>2. ASSUME NEW c \in Containers, Record(c) \/ RecordTwice(c)
      PROVE  /\ ~lags' => replica'[s] = ledger'[s]
             /\ ledger'[s] <= replica'[s] + MaxCost * (1 + faults')
  <2>1. call[c].usd \in Nat /\ call[c].usd <= MaxCost /\ call[c].stage \in Stages
    BY <1>0, <1>2, CallTyped DEF Record, RecordTwice, Calling
  <2>2. CASE s # call[c].stage
    <3>1. ledger'[s] = ledger[s] /\ replica'[s] = replica[s] /\ lags' = lags
      BY <1>0, <1>2, <2>1, <2>2 DEF Record, RecordTwice, TypeOK
    <3>2. faults' \in {faults, faults + 1}
      BY <1>2 DEF Record, RecordTwice, Fault
    <3> QED BY <1>0, <3>1, <3>2
  <2>3. CASE s = call[c].stage /\ Record(c)
    <3>1. /\ ledger'[s] = ledger[s] + call[c].usd
          /\ replica'[s] = IF lags THEN ledger[s] ELSE ledger'[s]
          /\ lags' = lags /\ faults' = faults
      BY <1>0, <2>1, <2>3 DEF Record, TypeOK
    <3> QED BY <1>0, <2>1, <3>1
  <2>4. CASE s = call[c].stage /\ RecordTwice(c)
    <3>1. /\ ledger'[s] = ledger[s] + 2 * call[c].usd
          /\ replica'[s] = IF lags THEN ledger[s] ELSE ledger'[s]
          /\ lags' = lags /\ faults' = faults + 1
      BY <1>0, <2>1, <2>4 DEF RecordTwice, Fault, TypeOK
    <3> QED BY <1>0, <2>1, <3>1
  <2> QED BY <1>2, <2>2, <2>3, <2>4
<1>3. ASSUME NEW c \in Containers, CallStep(c), ~Record(c), ~RecordTwice(c)
      PROVE  UNCHANGED <<ledger, replica, lags>> /\ faults' \in {faults, faults + 1}
  BY <1>3 DEF CallStep, Begin, Lookup, AssertCap, Invoke, Refuse, Cache, Fail, Fault
<1>4. ASSUME NEW t \in Stages, Replicate(t)
      PROVE  /\ ~lags' => replica'[s] = ledger'[s]
             /\ ledger'[s] <= replica'[s] + MaxCost * (1 + faults')
  BY <1>0, <1>4 DEF Replicate, TypeOK
<1>5. CASE Midnight
  BY <1>0, <1>5 DEF Midnight
<1>6. CASE (\E k \in Keys : Expire(k)) \/ UNCHANGED vars
  BY <1>1, <1>6 DEF Expire, vars
<1> QED BY <1>1, <1>2, <1>3, <1>4, <1>5, <1>6 DEF Next, CallStep

\* A stage nobody writes and nobody is let into stays within its bound.
LEMMA QuietCommitted ==
  ASSUME SpendInv, NEW s \in Stages, Cap[s] > 0,
         ledger'[s] = ledger[s] \/ ledger'[s] = 0,
         Admitted(s)' \subseteq Admitted(s), UNCHANGED lags, faults' \in {faults, faults + 1}
  PROVE  ledger'[s] + MaxCost * Cardinality(Admitted(s)') <= Ceiling(s)'
<1> USE ModelCallsAssumption DEF ModelCallsAssumption
<1> DEFINE L == IF lags THEN 1 ELSE 0
           N == Cardinality(Containers)
<1>1. /\ ledger[s] \in Nat /\ faults \in Nat
      /\ ledger[s] + MaxCost * Cardinality(Admitted(s))
           <= Headroom(s) + MaxCost * (N + L + faults)
  BY DEF SpendInv, CommittedBounded, Ceiling, TypeOK
<1>2. /\ Cardinality(Admitted(s)') \in Nat /\ Cardinality(Admitted(s)) \in Nat /\ N \in Nat
      /\ Cardinality(Admitted(s)') <= Cardinality(Admitted(s))
  BY CountType, CountMonotone DEF Admitted
<1>3. MaxCost * Cardinality(Admitted(s)') <= MaxCost * Cardinality(Admitted(s))
  BY <1>2, Multiples
<1>4. MaxCost * (N + L + faults) <= MaxCost * (N + L + faults')
  BY <1>1, <1>2, Multiples
<1>5. Ceiling(s)' = Headroom(s) + MaxCost * (N + L + faults')
  BY DEF Ceiling, Headroom
<1>6. Headroom(s) \in Nat
  BY DEF Headroom
<1>7. /\ MaxCost * Cardinality(Admitted(s)') \in Nat
      /\ MaxCost * Cardinality(Admitted(s)) \in Nat
      /\ MaxCost * (N + L + faults) \in Nat /\ MaxCost * (N + L + faults') \in Nat
  BY <1>1, <1>2
<1> HIDE DEF L, N
<1> QED BY <1>1, <1>3, <1>4, <1>5, <1>6, <1>7

\* Assert lets a call in only if what it read, and so nearly what is recorded,
\* leaves room for an estimate.
LEMMA AssertCommitted ==
  ASSUME SpendInv, NEW c \in Containers, AssertCap(c), NEW s \in Stages, Cap[s] > 0
  PROVE  ledger'[s] + MaxCost * Cardinality(Admitted(s)') <= Ceiling(s)'
<1> USE ModelCallsAssumption DEF ModelCallsAssumption
<1>0. /\ TypeOK /\ call[c] \in Calling /\ UNCHANGED <<ledger, lags, faults>>
      /\ ledger[s] \in Nat /\ faults \in Nat
  <2>1. call[c] \in Calling
    BY CallTyped DEF AssertCap, SpendInv
  <2> QED BY <2>1 DEF SpendInv, AssertCap, TypeOK
<1>1. CASE Admitted(s)' \subseteq Admitted(s)
  BY <1>0, <1>1, QuietCommitted
<1>2. CASE ~(Admitted(s)' \subseteq Admitted(s))
  <2>1. /\ call[c].stage = s
        /\ \E spent \in Reads(s) : Affordable(s, spent)
    <3>1. PICK spent \in Reads(call[c].stage) :
            \/ /\ Affordable(call[c].stage, spent)
               /\ call' = [call EXCEPT ![c].pc = "invoke"]
            \/ /\ ~Affordable(call[c].stage, spent)
               /\ Finish(c)
      BY DEF AssertCap
    <3>2. CASE Finish(c)
      <4>1. call'[c].pc = "idle" /\ \A x \in Containers \ {c} : call'[x] = call[x]
        BY <1>0, <3>2 DEF Finish, Idle, TypeOK
      <4> QED BY <1>2, <4>1 DEF Admitted
    <3>3. CASE Affordable(call[c].stage, spent) /\ call' = [call EXCEPT ![c].pc = "invoke"]
      <4>1. call'[c].stage = call[c].stage /\ \A x \in Containers \ {c} : call'[x] = call[x]
        BY <1>0, <3>3 DEF TypeOK, Calling
      <4>2. call[c].stage # s => Admitted(s)' \subseteq Admitted(s)
        BY <4>1 DEF Admitted
      <4> QED BY <1>2, <3>1, <3>3, <4>2
    <3> QED BY <3>1, <3>2, <3>3
  <2>2. PICK spent \in Reads(s) : Affordable(s, spent)
    BY <2>1
  <2>3. spent \in Nat /\ spent <= Headroom(s) /\ Headroom(s) \in Nat
    BY <1>0, <2>2 DEF Affordable, Headroom, Reads, TypeOK
  <2> DEFINE N == Cardinality(Containers)
  <2>4. /\ Cardinality(Admitted(s)') \in Nat /\ N \in Nat
        /\ MaxCost * Cardinality(Admitted(s)') <= MaxCost * N
    BY CountType, Multiples DEF Admitted
  <2>5. CASE ~lags
    <3>1. ledger[s] = spent
      BY <2>2, <2>5 DEF Reads
    <3>2. Ceiling(s)' = Headroom(s) + MaxCost * (N + 0 + faults)
      BY <1>0, <2>5 DEF Ceiling, Headroom
    <3>3. MaxCost * N <= MaxCost * (N + 0 + faults)
      BY <1>0, <2>4, Multiples
    <3> QED BY <1>0, <2>3, <2>4, <3>1, <3>2, <3>3
  <2>6. CASE lags
    <3>1. ledger[s] <= spent + MaxCost * (1 + faults)
      <4>1. ledger[s] <= replica[s] + MaxCost * (1 + faults) /\ replica[s] \in Nat
        BY <1>0 DEF SpendInv, ReplicaClose, TypeOK
      <4>2. MaxCost * (1 + faults) \in Nat
        BY <1>0
      <4> QED BY <1>0, <2>2, <2>6, <4>1, <4>2 DEF Reads
    <3>2. Ceiling(s)' = Headroom(s) + MaxCost * (N + 1 + faults)
      BY <1>0, <2>6 DEF Ceiling, Headroom
    <3>3. MaxCost * (N + 1 + faults) = MaxCost * N + MaxCost * (1 + faults)
      BY <1>0, <2>4
    <3> QED BY <1>0, <2>3, <2>4, <3>1, <3>2, <3>3
  <2> QED BY <2>5, <2>6
<1> QED BY <1>1, <1>2

\* Record turns what a call may still cost into what it did cost.
LEMMA RecordCommitted ==
  ASSUME SpendInv, NEW c \in Containers, Record(c) \/ RecordTwice(c),
         NEW s \in Stages, Cap[s] > 0
  PROVE  ledger'[s] + MaxCost * Cardinality(Admitted(s)') <= Ceiling(s)'
<1> USE ModelCallsAssumption DEF ModelCallsAssumption
<1>0. /\ TypeOK /\ call[c] \in Calling /\ UNCHANGED lags /\ call[c].stage \in Stages
      /\ call[c].usd \in Nat /\ call[c].usd <= MaxCost
      /\ ledger[s] \in Nat /\ faults \in Nat
  <2>1. call[c] \in Calling
    BY CallTyped DEF Record, RecordTwice, SpendInv
  <2> QED BY <2>1 DEF SpendInv, Record, RecordTwice, TypeOK, Calling
<1>1. \A x \in Containers \ {c} : call'[x] = call[x]
  BY <1>0 DEF Record, RecordTwice, Fault, Finish, TypeOK
<1>2. call'[c].pc \notin {"invoke", "record"}
  BY <1>0 DEF Record, RecordTwice, Fault, Finish, TypeOK, Idle, Calling
<1>3. Admitted(s)' \subseteq Admitted(s) \ {c}
  BY <1>1, <1>2 DEF Admitted
<1>4. faults' \in {faults, faults + 1}
  BY DEF Record, RecordTwice, Fault
<1>5. CASE call[c].stage # s
  <2>1. ledger'[s] = ledger[s]
    BY <1>0, <1>5 DEF Record, RecordTwice, TypeOK
  <2> QED BY <1>0, <1>3, <1>4, <2>1, QuietCommitted
<1>6. CASE call[c].stage = s
  <2> DEFINE L == IF lags THEN 1 ELSE 0
             N == Cardinality(Containers)
             A == Cardinality(Admitted(s))
             B == Cardinality(Admitted(s)')
  <2>1. c \in Admitted(s)
    BY <1>6 DEF Admitted, Record, RecordTwice
  <2>2. A \in Nat /\ B \in Nat /\ N \in Nat /\ B + 1 <= A
    BY <1>3, <2>1, CountType, CountDrops DEF Admitted
  <2>3. MaxCost * (B + 1) <= MaxCost * A /\ MaxCost * (B + 1) = MaxCost * B + MaxCost
    BY <2>2, Multiples
  <2>4. ledger[s] + MaxCost * A <= Headroom(s) + MaxCost * (N + L + faults)
    BY DEF SpendInv, CommittedBounded, Ceiling
  <2>5. Ceiling(s)' = Headroom(s) + MaxCost * (N + L + faults')
    BY <1>0 DEF Ceiling, Headroom
  <2>6. MaxCost * (N + L + (faults + 1)) = MaxCost * (N + L + faults) + MaxCost
    BY <1>0, <2>2
  <2>7. \/ faults' = faults /\ ledger'[s] = ledger[s] + call[c].usd
        \/ faults' = faults + 1 /\ ledger'[s] = ledger[s] + 2 * call[c].usd
    BY <1>0, <1>6 DEF Record, RecordTwice, Fault, TypeOK
  <2>8. Headroom(s) \in Nat /\ L \in Nat
    BY DEF Headroom
  <2>9. MaxCost * A \in Nat /\ MaxCost * B \in Nat /\ MaxCost * (N + L + faults) \in Nat
    BY <1>0, <2>2, <2>8
  <2> HIDE DEF L, N, A, B
  <2> QED BY <1>0, <2>3, <2>4, <2>5, <2>6, <2>7, <2>8, <2>9 DEF B
<1> QED BY <1>5, <1>6

LEMMA CommittedBoundedStep == SpendInv /\ [Next]_vars => CommittedBounded'
<1> SUFFICES ASSUME SpendInv, [Next]_vars, NEW s \in Stages, Cap[s] > 0
             PROVE  ledger'[s] + MaxCost * Cardinality(Admitted(s)') <= Ceiling(s)'
  BY DEF CommittedBounded
<1>0. TypeOK
  BY DEF SpendInv
<1>1. ASSUME NEW c \in Containers, Invoke(c)
      PROVE  ledger'[s] + MaxCost * Cardinality(Admitted(s)') <= Ceiling(s)'
  <2>1. PICK usd \in 0..MaxCost :
          call' = [call EXCEPT ![c].pc = "record", ![c].usd = usd]
    BY <1>1 DEF Invoke
  <2>2. call[c] \in Calling
    BY <1>0, <1>1, CallTyped DEF Invoke
  <2>3. call'[c].stage = call[c].stage
    BY <1>0, <2>1, <2>2 DEF TypeOK, Calling
  <2>4. \A x \in Containers \ {c} : call'[x] = call[x]
    BY <1>0, <2>1 DEF TypeOK
  <2>5. Admitted(s)' \subseteq Admitted(s)
    BY <1>1, <2>3, <2>4 DEF Admitted, Invoke
  <2> QED BY <1>1, <2>5, QuietCommitted DEF Invoke
<1>2. ASSUME NEW c \in Containers, Begin(c) \/ Lookup(c) \/ Refuse(c) \/ Cache(c) \/ Fail(c)
      PROVE  ledger'[s] + MaxCost * Cardinality(Admitted(s)') <= Ceiling(s)'
  <2>1. call'[c].pc \notin {"invoke", "record"}
    <3>1. CASE Begin(c)
      BY <1>0, <3>1 DEF Begin, TypeOK
    <3>2. CASE Lookup(c)
      <4>1. call[c] \in Calling
        BY <1>0, <3>2, CallTyped DEF Lookup
      <4> QED BY <1>0, <3>2, <4>1 DEF Lookup, Finish, TypeOK, Idle, Calling
    <3>3. CASE Refuse(c) \/ Cache(c) \/ Fail(c)
      BY <1>0, <3>3 DEF Refuse, Cache, Fail, Fault, Finish, TypeOK, Idle
    <3> QED BY <1>2, <3>1, <3>2, <3>3
  <2>2. \A x \in Containers \ {c} : call'[x] = call[x]
    BY <1>0, <1>2 DEF Begin, Lookup, Refuse, Cache, Fail, Fault, Finish, TypeOK
  <2>3. Admitted(s)' \subseteq Admitted(s)
    BY <2>1, <2>2 DEF Admitted
  <2>4. UNCHANGED <<ledger, lags>> /\ faults' \in {faults, faults + 1}
    BY <1>2 DEF Begin, Lookup, Refuse, Cache, Fail, Fault
  <2> QED BY <2>3, <2>4, QuietCommitted
<1>3. ASSUME NEW t \in Stages, Replicate(t)
      PROVE  ledger'[s] + MaxCost * Cardinality(Admitted(s)') <= Ceiling(s)'
  BY <1>3, QuietCommitted DEF Replicate, Admitted
<1>4. CASE Midnight
  BY <1>4, QuietCommitted DEF Midnight, Admitted
<1>5. CASE (\E k \in Keys : Expire(k)) \/ UNCHANGED vars
  BY <1>5, QuietCommitted DEF Expire, vars, Admitted
<1> QED BY <1>1, <1>2, <1>3, <1>4, <1>5, AssertCommitted, RecordCommitted DEF Next

\* The invariant holds at the start, when nothing is spent.
LEMMA InitSpend == Init => SpendInv
<1> SUFFICES ASSUME Init PROVE SpendInv
  OBVIOUS
<1> USE ModelCallsAssumption DEF ModelCallsAssumption
<1>1. TypeOK
  BY InitTyped
<1>2. ReplicaClose
  BY DEF ReplicaClose, Init
<1>3. ASSUME NEW s \in Stages PROVE ledger[s] + MaxCost * Cardinality(Admitted(s)) <= Ceiling(s)
  <2>1. Admitted(s) = {} /\ Cardinality(Admitted(s)) = 0
    BY FS_EmptySet DEF Init, Admitted, Idle
  <2>2. Cardinality(Containers) \in Nat
    BY FS_CardinalityType
  <2>3. Cardinality(Containers) + (IF lags THEN 1 ELSE 0) + faults \in Nat
    BY <1>1, <2>2 DEF TypeOK
  <2>4. MaxCost * (Cardinality(Containers) + (IF lags THEN 1 ELSE 0) + faults) \in Nat
    BY <2>3
  <2>5. Headroom(s) \in Nat /\ ledger[s] = 0
    BY DEF Headroom, Init
  <2> QED BY <2>1, <2>4, <2>5 DEF Ceiling
<1> QED BY <1>1, <1>2, <1>3 DEF SpendInv, CommittedBounded

LEMMA StepSpend == SpendInv /\ [Next]_vars => SpendInv'
  BY StepTyped, ReplicaCloseStep, CommittedBoundedStep DEF SpendInv

LEMMA SpendFollows == SpendInv => SpendBounded
<1> SUFFICES ASSUME SpendInv, NEW s \in Stages, Cap[s] > 0 PROVE ledger[s] <= Ceiling(s)
  BY DEF SpendBounded
<1> USE ModelCallsAssumption DEF ModelCallsAssumption
<1>1. ledger[s] + MaxCost * Cardinality(Admitted(s)) <= Ceiling(s)
  BY DEF SpendInv, CommittedBounded
<1>2. Cardinality(Admitted(s)) \in Nat /\ Cardinality(Containers) \in Nat
  BY CountType DEF Admitted
<1>3. MaxCost * Cardinality(Admitted(s)) \in Nat
  BY <1>2
<1>4. /\ ledger[s] \in Nat /\ Headroom(s) \in Nat
      /\ Cardinality(Containers) + (IF lags THEN 1 ELSE 0) + faults \in Nat
  BY <1>2 DEF SpendInv, TypeOK, Headroom
<1>5. Ceiling(s) \in Nat
  BY <1>4 DEF Ceiling
<1> QED BY <1>1, <1>3, <1>4, <1>5

-----------------------------------------------------------------------------
(* How often one answer is bought.                                         *)

\* Those that missed the cache and may still pay, and those that have paid and
\* not stored the answer.
Buyers(k) == {c \in Containers : call[c].key = k /\ call[c].pc \in {"assert", "invoke"}}
Holders(k) == {c \in Containers : call[c].key = k /\ call[c].pc \in {"record", "cache"}}

\* Only a call with a key looks up and stores.
Keyed == \A c \in Containers : call[c].pc \in {"lookup", "cache"} => call[c].key \in Keys

\* What the expiries of a key may have cost.
Renewals(k) == Cardinality(Containers) * expiries[k]

\* As long as a key is not cached, whoever paid for it since the last expiry
\* holds the answer or has failed; those that may still pay came before it was
\* cached again.
BoughtByMisses ==
  ~lags => \A k \in Keys :
    /\ ~cache[k] => bought[k] <= Cardinality(Holders(k)) + Renewals(k) + faults
    /\ bought[k] + Cardinality(Buyers(k)) <= Cardinality(Containers) + Renewals(k) + faults

BuyInv == TypeOK /\ Keyed /\ BoughtByMisses

LEMMA HoldersBuyers ==
  ASSUME NEW k
  PROVE  /\ Holders(k) \subseteq Containers /\ Buyers(k) \subseteq Containers
         /\ Holders(k)' \subseteq Containers /\ Buyers(k)' \subseteq Containers
         /\ Cardinality(Holders(k)) \in Nat /\ Cardinality(Holders(k)') \in Nat
         /\ Cardinality(Buyers(k)) \in Nat /\ Cardinality(Buyers(k)') \in Nat
         /\ Cardinality(Containers) \in Nat
<1>1. /\ Holders(k) \subseteq Containers /\ Buyers(k) \subseteq Containers
      /\ Holders(k)' \subseteq Containers /\ Buyers(k)' \subseteq Containers
  BY DEF Holders, Buyers
<1> QED BY <1>1, CountType

\* A step touches the call of one container.
LEMMA OtherCallsStay ==
  ASSUME TypeOK, NEW c \in Containers, CallStep(c)
  PROVE  \A x \in Containers \ {c} : call'[x] = call[x]
<1>1. CASE Begin(c)
  BY <1>1 DEF Begin, TypeOK
<1>2. CASE AssertCap(c)
  BY <1>2 DEF AssertCap, Finish, TypeOK
<1>3. CASE Invoke(c)
  BY <1>3 DEF Invoke, TypeOK
<1>4. CASE Record(c)
  BY <1>4 DEF Record, Finish, TypeOK
<1>5. CASE Lookup(c) \/ Refuse(c) \/ RecordTwice(c) \/ Cache(c) \/ Fail(c)
  BY <1>5 DEF Lookup, Refuse, RecordTwice, Cache, Fail, Fault, Finish, TypeOK
<1> QED BY <1>1, <1>2, <1>3, <1>4, <1>5 DEF CallStep

\* What a step makes of its call.
LEMMA CallMoves ==
  ASSUME BuyInv, NEW c \in Containers, CallStep(c)
  PROVE  \/ call'[c] = Idle
         \/ /\ call[c].pc = "idle" /\ call'[c].pc = "assert" /\ call'[c].key = NoKey
         \/ /\ call[c].pc = "idle" /\ call'[c].pc = "lookup" /\ call'[c].key \in Keys
         \/ /\ call[c].pc = "lookup" /\ call'[c].pc = "assert" /\ call'[c].key = call[c].key
            /\ ~cache[call[c].key] \/ lags
         \/ /\ call[c].pc = "assert" /\ call'[c].pc = "invoke" /\ call'[c].key = call[c].key
         \/ /\ call[c].pc = "invoke" /\ call'[c].pc = "record" /\ call'[c].key = call[c].key
         \/ /\ call[c].pc = "record" /\ call'[c].pc = "cache" /\ call'[c].key = call[c].key
            /\ call[c].key \in Keys
<1> USE ModelCallsAssumption DEF ModelCallsAssumption
<1>0. TypeOK
  BY DEF BuyInv
<1>1. CASE Begin(c)
  <2>0. PICK s \in Stages : \E k \in KeysOf[s] :
          call' = [call EXCEPT ![c] =
                     [pc |-> IF k = NoKey THEN "assert" ELSE "lookup",
                      stage |-> s, key |-> k, usd |-> 0]]
    BY <1>1 DEF Begin
  <2>1. PICK k \in KeysOf[s] :
          call' = [call EXCEPT ![c] =
                     [pc |-> IF k = NoKey THEN "assert" ELSE "lookup",
                      stage |-> s, key |-> k, usd |-> 0]]
    BY <2>0
  <2>2. k \in Keys \cup {NoKey}
    BY <2>1
  <2>3. call[c].pc = "idle"
    BY <1>1 DEF Begin, Idle
  <2> QED BY <1>0, <2>1, <2>2, <2>3 DEF TypeOK
<1>2. CASE Lookup(c)
  <2>1. call[c] \in Calling
    BY <1>0, <1>2, CallTyped DEF Lookup
  <2>2. CASE /\ ~cache[call[c].key] \/ lags
             /\ call' = [call EXCEPT ![c].pc = "assert"]
    BY <1>0, <1>2, <2>1, <2>2 DEF TypeOK, Calling, Lookup
  <2>3. CASE Finish(c)
    BY <1>0, <2>3 DEF Finish, TypeOK
  <2> QED BY <1>2, <2>2, <2>3 DEF Lookup
<1>3. CASE AssertCap(c)
  <2>1. call[c] \in Calling
    BY <1>0, <1>3, CallTyped DEF AssertCap
  <2>2. CASE call' = [call EXCEPT ![c].pc = "invoke"]
    BY <1>0, <1>3, <2>1, <2>2 DEF TypeOK, Calling, AssertCap
  <2>3. CASE Finish(c)
    BY <1>0, <2>3 DEF Finish, TypeOK
  <2> QED BY <1>3, <2>2, <2>3 DEF AssertCap
<1>4. CASE Invoke(c)
  <2>1. call[c] \in Calling
    BY <1>0, <1>4, CallTyped DEF Invoke
  <2>2. PICK usd \in 0..MaxCost :
          call' = [call EXCEPT ![c].pc = "record", ![c].usd = usd]
    BY <1>4 DEF Invoke
  <2> QED BY <1>0, <1>4, <2>1, <2>2 DEF TypeOK, Calling, Invoke
<1>5. CASE Record(c)
  <2>1. call[c] \in Calling
    BY <1>0, <1>5, CallTyped DEF Record
  <2>2. CASE call[c].key = NoKey
    BY <1>0, <1>5, <2>2 DEF Record, Finish, TypeOK
  <2>3. CASE call[c].key # NoKey
    BY <1>0, <1>5, <2>1, <2>3 DEF Record, TypeOK, Calling
  <2> QED BY <2>2, <2>3
<1>6. CASE Refuse(c) \/ RecordTwice(c) \/ Cache(c) \/ Fail(c)
  BY <1>0, <1>6 DEF Refuse, RecordTwice, Cache, Fail, Fault, Finish, TypeOK
<1> QED BY <1>1, <1>2, <1>3, <1>4, <1>5, <1>6 DEF CallStep

LEMMA KeyedStep ==
  ASSUME BuyInv, NEW c \in Containers, CallStep(c)
  PROVE  Keyed'
<1>1. TypeOK /\ Keyed
  BY DEF BuyInv
<1>2. call'[c].pc \in {"lookup", "cache"} => call'[c].key \in Keys
  BY <1>1, CallMoves DEF Idle, Keyed, Record
<1> QED BY <1>1, <1>2, OtherCallsStay DEF Keyed

LEMMA RenewalsType ==
  ASSUME TypeOK, NEW k \in Keys
  PROVE  /\ Renewals(k) \in Nat /\ Cardinality(Containers) \in Nat
         /\ Renewals(k) + Cardinality(Containers) = Cardinality(Containers) * (1 + expiries[k])
<1>1. expiries[k] \in Nat /\ Cardinality(Containers) \in Nat
  BY ModelCallsAssumption, FS_CardinalityType DEF ModelCallsAssumption, TypeOK
<1> QED BY <1>1 DEF Renewals

\* One container's step keeps the counts of a key.
LEMMA BoughtStep ==
  ASSUME BuyInv, NEW c \in Containers, CallStep(c), ~lags, NEW k \in Keys
  PROVE  /\ ~cache'[k] => bought'[k] <= Cardinality(Holders(k)') + Renewals(k)' + faults'
         /\ bought'[k] + Cardinality(Buyers(k)')
              <= Cardinality(Containers) + Renewals(k)' + faults'
<1> USE ModelCallsAssumption DEF ModelCallsAssumption
<1>0. /\ TypeOK /\ Keyed /\ bought[k] \in Nat /\ faults \in Nat
      /\ ~cache[k] => bought[k] <= Cardinality(Holders(k)) + Renewals(k) + faults
      /\ bought[k] + Cardinality(Buyers(k)) <= Cardinality(Containers) + Renewals(k) + faults
  BY DEF BuyInv, BoughtByMisses, TypeOK
<1>c. Renewals(k) \in Nat /\ Renewals(k)' = Renewals(k)
  BY <1>0, RenewalsType
     DEF Renewals, CallStep, Begin, Lookup, AssertCap, Invoke, Refuse, Record, RecordTwice, Cache,
         Fail
<1>a. \A x \in Containers \ {c} : call'[x] = call[x]
  BY <1>0, OtherCallsStay
<1>b. NoKey # k
  OBVIOUS
<1> USE HoldersBuyers
<1>1. CASE Begin(c)
  <2>2. call[c].pc = "idle"
    BY <1>1 DEF Begin, Idle
  <2>1. call'[c].pc = "lookup" \/ call'[c].key = NoKey \/ call'[c] = Idle
    BY <2>2, CallMoves
  <2>3. Holders(k)' = Holders(k) /\ Buyers(k)' = Buyers(k)
    BY <1>a, <1>b, <2>1, <2>2 DEF Holders, Buyers, Idle
  <2> QED BY <1>0, <1>c, <1>1, <2>3 DEF Begin
<1>2. CASE Lookup(c) /\ call'[c] # Idle
  <2>1. /\ ~cache[call[c].key] /\ call[c].pc = "lookup"
        /\ call'[c].pc = "assert" /\ call'[c].key = call[c].key
    BY <1>2, CallMoves DEF Lookup
  <2>2. Holders(k)' = Holders(k)
    BY <1>a, <2>1 DEF Holders
  <2>3. CASE call[c].key = k
    <3>1. Holders(k)' \cap Buyers(k)' = {}
      BY DEF Holders, Buyers
    <3>2. Cardinality(Holders(k)') + Cardinality(Buyers(k)') <= Cardinality(Containers)
      BY <3>1, CountDisjoint
    <3> QED BY <1>0, <1>c, <1>2, <2>1, <2>2, <2>3, <3>2 DEF Lookup
  <2>4. CASE call[c].key # k
    <3>1. Buyers(k)' = Buyers(k)
      BY <1>a, <2>1, <2>4 DEF Buyers
    <3> QED BY <1>0, <1>c, <1>2, <2>2, <3>1 DEF Lookup
  <2> QED BY <2>3, <2>4
<1>3. CASE AssertCap(c) \/ Refuse(c) \/ (Lookup(c) /\ call'[c] = Idle)
  <2>1. call[c].pc \in {"lookup", "assert", "invoke"}
    BY <1>3 DEF AssertCap, Refuse, Lookup
  <2>2. /\ call'[c] = Idle \/ (call'[c].pc = "invoke" /\ call'[c].key = call[c].key)
        /\ call'[c] # Idle => call[c].pc = "assert"
    BY <1>0, <1>3, CallMoves DEF Lookup, AssertCap, Refuse, Finish, TypeOK
  <2>3. Holders(k)' = Holders(k)
    BY <1>a, <2>1, <2>2 DEF Holders, Idle
  <2>4. Buyers(k)' \subseteq Buyers(k)
    BY <1>a, <2>2 DEF Buyers, Idle
  <2>5. Cardinality(Buyers(k)') <= Cardinality(Buyers(k))
    BY <2>4, CountMonotone
  <2> QED BY <1>0, <1>c, <1>3, <2>3, <2>5 DEF AssertCap, Refuse, Lookup
<1>4. CASE Invoke(c)
  <2>1. /\ call[c].pc = "invoke" /\ call'[c].key = call[c].key
        /\ call'[c].pc = "record"
    <3>1. call[c] \in Calling
      BY <1>0, <1>4, CallTyped DEF Invoke
    <3>2. PICK usd \in 0..MaxCost :
            call' = [call EXCEPT ![c].pc = "record", ![c].usd = usd]
      BY <1>4 DEF Invoke
    <3> QED BY <1>0, <1>c, <1>4, <3>1, <3>2 DEF TypeOK, Calling, Invoke
  <2>2. CASE call[c].key = k
    <3>1. c \in Buyers(k) /\ Buyers(k)' \subseteq Buyers(k) \ {c}
      BY <1>a, <2>1, <2>2 DEF Buyers
    <3>2. c \in Holders(k)' /\ Holders(k) \subseteq Holders(k)' \ {c}
      BY <1>a, <2>1, <2>2 DEF Holders
    <3>3. /\ Cardinality(Buyers(k)') + 1 <= Cardinality(Buyers(k))
          /\ Cardinality(Holders(k)) + 1 <= Cardinality(Holders(k)')
      BY <3>1, <3>2, CountDrops
    <3>4. bought'[k] = bought[k] + 1 /\ UNCHANGED <<cache, faults>>
      BY <1>0, <1>4, <1>b, <2>2 DEF Invoke, TypeOK
    <3> QED BY <1>0, <1>c, <3>3, <3>4
  <2>3. CASE call[c].key # k
    <3>1. Holders(k)' = Holders(k) /\ Buyers(k)' = Buyers(k)
      BY <1>a, <2>1, <2>3 DEF Holders, Buyers
    <3>2. bought'[k] = bought[k] /\ UNCHANGED <<cache, faults>>
      BY <1>0, <1>4, <2>3 DEF Invoke, TypeOK
    <3> QED BY <1>0, <1>c, <3>1, <3>2
  <2> QED BY <2>2, <2>3
<1>5. CASE Record(c)
  <2>1. call[c].pc = "record"
    BY <1>5 DEF Record
  <2>2. \/ call'[c] = Idle /\ call[c].key = NoKey
        \/ call'[c].pc = "cache" /\ call'[c].key = call[c].key
    <3>1. call[c] \in Calling
      BY <1>0, <1>5, CallTyped DEF Record
    <3> QED BY <1>0, <1>c, <1>5, <3>1 DEF Record, Finish, TypeOK, Calling
  <2>3. Holders(k)' = Holders(k) /\ Buyers(k)' = Buyers(k)
    BY <1>a, <1>b, <2>1, <2>2 DEF Holders, Buyers, Idle
  <2> QED BY <1>0, <1>c, <1>5, <2>3 DEF Record
<1>6. CASE RecordTwice(c) \/ Fail(c)
  <2>1. call'[c] = Idle
    BY <1>0, <1>6 DEF RecordTwice, Fail, Fault, Finish, TypeOK
  <2>2. Holders(k) \ {c} \subseteq Holders(k)' /\ Buyers(k)' \subseteq Buyers(k)
    BY <1>a, <2>1 DEF Holders, Buyers, Idle
  <2>3. /\ Cardinality(Holders(k)) <= Cardinality(Holders(k)') + 1
        /\ Cardinality(Buyers(k)') <= Cardinality(Buyers(k))
    BY <2>2, CountLoses, CountMonotone
  <2>4. faults' = faults + 1 /\ UNCHANGED <<cache, bought>>
    BY <1>6 DEF RecordTwice, Fail, Fault
  <2> QED BY <1>0, <1>c, <2>3, <2>4
<1>7. CASE Cache(c)
  <2>1. /\ call'[c] = Idle /\ call[c].pc = "cache"
        /\ call[c].key \in Keys
    BY <1>0, <1>7 DEF Cache, Finish, TypeOK, Keyed
  <2>2. Buyers(k)' = Buyers(k)
    BY <1>a, <2>1 DEF Buyers, Idle
  <2>3. CASE call[c].key = k
    <3>1. cache'[k]
      BY <1>0, <1>7, <2>1, <2>3 DEF Cache, TypeOK
    <3> QED BY <1>0, <1>c, <1>7, <2>2, <3>1 DEF Cache
  <2>4. CASE call[c].key # k
    <3>1. Holders(k)' = Holders(k)
      BY <1>a, <1>b, <2>1, <2>4 DEF Holders, Idle
    <3>2. cache'[k] = cache[k]
      BY <1>0, <1>7, <2>4 DEF Cache, TypeOK
    <3> QED BY <1>0, <1>c, <1>7, <2>2, <3>1, <3>2 DEF Cache
  <2> QED BY <2>3, <2>4
<1> QED BY <1>1, <1>2, <1>3, <1>4, <1>5, <1>6, <1>7 DEF CallStep

LEMMA StepBuy == BuyInv /\ [Next]_vars => BuyInv'
<1> SUFFICES ASSUME BuyInv, [Next]_vars PROVE BuyInv'
  OBVIOUS
<1>1. TypeOK'
  BY StepTyped DEF BuyInv
<1>2. ASSUME NEW c \in Containers, CallStep(c) PROVE Keyed' /\ BoughtByMisses'
  <2>1. lags' = lags
    BY <1>2 DEF CallStep, Begin, Lookup, AssertCap, Invoke, Refuse, Record, RecordTwice, Cache,
                Fail
  <2> QED BY <1>2, <2>1, KeyedStep, BoughtStep DEF BoughtByMisses
<1>4. ASSUME NEW x \in Keys, Expire(x) PROVE Keyed' /\ BoughtByMisses'
  <2>1. UNCHANGED <<call, faults, lags, bought>>
    BY <1>4 DEF Expire
  <2>2. ASSUME NEW k \in Keys
        PROVE  /\ Holders(k)' = Holders(k) /\ Buyers(k)' = Buyers(k)
               /\ k # x => UNCHANGED <<cache[k], expiries[k]>>
               /\ expiries'[x] = expiries[x] + 1 /\ cache[x]
    BY <1>4, <2>1 DEF Expire, BuyInv, TypeOK, Holders, Buyers
  <2>3. ASSUME ~lags, NEW k \in Keys
        PROVE  /\ ~cache'[k] => bought'[k] <= Cardinality(Holders(k)') + Renewals(k)' + faults'
               /\ bought'[k] + Cardinality(Buyers(k)')
                    <= Cardinality(Containers) + Renewals(k)' + faults'
    <3>1. /\ ~cache[k] => bought[k] <= Cardinality(Holders(k)) + Renewals(k) + faults
          /\ bought[k] + Cardinality(Buyers(k))
               <= Cardinality(Containers) + Renewals(k) + faults
      BY <2>3 DEF BuyInv, BoughtByMisses
    <3>2. CASE k # x
      BY <2>1, <2>2, <3>1, <3>2 DEF Renewals
    <3>3. CASE k = x
      <4>0. expiries[k] \in Nat /\ expiries'[k] = expiries[k] + 1
        BY <2>2, <3>3 DEF BuyInv, TypeOK
      <4>1. /\ Renewals(k) \in Nat /\ Cardinality(Containers) \in Nat
            /\ Renewals(k)' = Renewals(k) + Cardinality(Containers)
        BY <4>0, RenewalsType DEF BuyInv, Renewals
      <4>2. bought[k] \in Nat /\ faults \in Nat
        BY DEF BuyInv, TypeOK
      <4> QED BY <2>1, <2>2, <3>1, <4>1, <4>2, HoldersBuyers
    <3> QED BY <3>2, <3>3
  <2> QED BY <2>1, <2>3 DEF BuyInv, Keyed, BoughtByMisses
<1>3. CASE (\E s \in Stages : Replicate(s)) \/ Midnight \/ UNCHANGED vars
  <2>1. UNCHANGED <<cache, call, faults, lags, bought, expiries>>
    BY <1>3 DEF Replicate, Midnight, vars
  <2>2. \A k \in Keys : UNCHANGED <<Holders(k), Buyers(k), Renewals(k)>>
    BY <2>1 DEF Holders, Buyers, Renewals
  <2> QED BY <1>1, <2>1, <2>2 DEF BuyInv, Keyed, BoughtByMisses
<1> QED BY <1>1, <1>2, <1>3, <1>4 DEF BuyInv, Next, CallStep

LEMMA InitBuy == Init => BuyInv
<1> SUFFICES ASSUME Init PROVE BuyInv
  OBVIOUS
<1>1. TypeOK /\ Keyed
  BY InitTyped DEF Init, Keyed, Idle
<1>2. ASSUME NEW k \in Keys
      PROVE  /\ bought[k] <= Cardinality(Holders(k)) + Renewals(k) + faults
             /\ bought[k] + Cardinality(Buyers(k))
                  <= Cardinality(Containers) + Renewals(k) + faults
  <2>1. Buyers(k) = {} /\ Cardinality(Buyers(k)) = 0
    BY FS_EmptySet DEF Init, Buyers, Idle
  <2> QED BY <1>1, <2>1, HoldersBuyers, RenewalsType DEF Init
<1> QED BY <1>1, <1>2 DEF BuyInv, BoughtByMisses

LEMMA BuyFollows == BuyInv => KeyBoughtBounded
<1> SUFFICES ASSUME BuyInv, ~lags, NEW k \in Keys
             PROVE  bought[k] <= Cardinality(Containers) * (1 + expiries[k]) + faults
  BY DEF KeyBoughtBounded
<1>1. bought[k] + Cardinality(Buyers(k)) <= Cardinality(Containers) + Renewals(k) + faults
  BY DEF BuyInv, BoughtByMisses
<1>2. bought[k] \in Nat /\ faults \in Nat /\ TypeOK
  BY DEF BuyInv, TypeOK
<1> QED BY <1>1, <1>2, HoldersBuyers, RenewalsType

-----------------------------------------------------------------------------
\* Every variable keeps its type.
THEOREM ModelCallsTypeCorrect == Spec => []TypeOK
  BY InitTyped, StepTyped, PTL DEF Spec

\* The day's ledger of a stage passes its cap by no more than one call for each
\* container, one for a read that lags and one for each repeated ADD, whatever
\* the interleaving of Assert, the paid call and Record.
THEOREM SpendBoundedTheorem == Spec => []SpendBounded
  BY InitSpend, StepSpend, SpendFollows, PTL DEF Spec

\* With reads that are up to date an answer is paid for and kept at most once for
\* each container, again after each expiry, and once more for each failure.
THEOREM KeyBoughtTheorem == Spec => []KeyBoughtBounded
  BY InitBuy, StepBuy, BuyFollows, PTL DEF Spec

\* With one container, no call dearer than its estimate, up-to-date reads and
\* nothing failed, what cost.go says of the cap holds: its overshoot is due to
\* concurrency, to estimates, to lagging reads and to repeated ADDs, and to
\* nothing else.
THEOREM LoneCallerTheorem ==
  ASSUME Cardinality(Containers) = 1, MaxCost <= Estimate, \A s \in Stages : Cap[s] >= Estimate
  PROVE  Spec => [](~lags /\ faults = 0 => SpendWithinCap)
<1>1. SpendInv => (~lags /\ faults = 0 => SpendWithinCap)
  <2> SUFFICES ASSUME SpendInv, ~lags, faults = 0, NEW s \in Stages, Cap[s] > 0
               PROVE  ledger[s] <= Cap[s]
    BY DEF SpendWithinCap
  <2>1. ledger[s] <= Ceiling(s)
    BY SpendFollows DEF SpendBounded
  <2>2. Cap[s] \in Nat /\ Estimate \in Nat /\ MaxCost \in Nat /\ ledger[s] \in Nat
    BY ModelCallsAssumption DEF ModelCallsAssumption, SpendInv, TypeOK
  <2>3. ~(Cap[s] < Estimate)
    BY <2>2
  <2>4. Headroom(s) = Cap[s] - Estimate
    BY <2>3 DEF Headroom
  <2>5. Ceiling(s) = Cap[s] - Estimate + MaxCost * (1 + 0 + 0)
    BY <2>4 DEF Ceiling
  <2> QED BY <2>1, <2>2, <2>5
<1> QED BY <1>1, InitSpend, StepSpend, PTL DEF Spec
=============================================================================
