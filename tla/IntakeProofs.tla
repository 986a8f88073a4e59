----------------------------- MODULE IntakeProofs -----------------------------
(***************************************************************************)
(* Proofs about Intake and the PoliteFetch it extends: slots of a host are *)
(* apart and permissions recent whatever the clocks of the containers say, *)
(* an audit's row and snapshot exist, and the rows of a domain are no more *)
(* than the discover runs that overlap.                                    *)
(***************************************************************************)
EXTENDS Intake, FiniteSetTheorems, TLAPS

\* How long after it was read a rule may be kept, over both clocks involved.
Life == TTL + Timeout + MaxSkew

Kept(record) == record # None => record.expires <= record.at + Life

\* A fetch in progress is within its invocation, and relies on a rule that was
\* within its life when the invocation began.
Progress(c) ==
  /\ fetch[c].since <= clock
  /\ fetch[c].pc # "idle" => clock <= fetch[c].since + Timeout
  /\ fetch[c].pc = "store" => fetch[c].rule \in Rules /\ fetch[c].since <= fetch[c].at
  /\ fetch[c].pc \in {"slot", "request"} =>
       /\ fetch[c].rule \in Rules /\ fetch[c].rule.ok
       /\ fetch[c].since < fetch[c].at + Life

\* The bucket is written by a clock that is never behind, but less than a second
\* of it is cut off.
BucketAhead ==
  /\ bucket = None <=> slotAt = None
  /\ bucket # None => slotAt < Second * bucket + Second /\ slotAt <= clock

FetchInv ==
  /\ FetchTypeOK
  /\ Kept(robots) /\ Kept(older) /\ \A c \in Containers : Kept(memo[c])
  /\ \A c \in Containers : Progress(c)
  /\ BucketAhead

FetchRow ==
  [pc : {"idle", "robots", "live", "store", "slot", "request", "done", "failed"},
   since : 0..MaxClock, at : 0..MaxClock, rule : Rules \cup {None}, attempt : 0..MaxRetries]

\* A time in whole seconds is less than a second behind.
LEMMA WholeSeconds ==
  ASSUME NEW t \in Int
  PROVE  Unix(t) \in Int /\ Second * Unix(t) <= t /\ t < Second * Unix(t) + Second
  BY PoliteFetchAssumption DEF PoliteFetchAssumption, Unix

LEMMA WholeSecondsNat ==
  ASSUME NEW t \in Nat
  PROVE  Unix(t) \in Nat /\ Second * Unix(t) \in Nat
<1> USE PoliteFetchAssumption DEF PoliteFetchAssumption
<1>1. Unix(t) \in Int /\ t < Second * Unix(t) + Second
  BY WholeSeconds
<1>2. SUFFICES ASSUME Unix(t) < 0 PROVE FALSE
  BY <1>1
<1>3. Second * (Unix(t) + 1) <= 0 /\ Second * (Unix(t) + 1) = Second * Unix(t) + Second
  BY <1>1, <1>2
<1> QED BY <1>1, <1>3

\* A step of c that leaves the clock alone concerns the fetch of c.
LEMMA OneFetch ==
  ASSUME FetchInv, NEW c \in Containers, NEW row \in FetchRow,
         fetch' = [fetch EXCEPT ![c] = row], clock' = clock, Progress(c)'
  PROVE  fetch' \in [Containers -> FetchRow] /\ \A x \in Containers : Progress(x)'
<1>1. fetch \in [Containers -> FetchRow]
  BY DEF FetchInv, FetchTypeOK, FetchRow
<1>2. fetch' \in [Containers -> FetchRow]
  BY <1>1
<1>3. ASSUME NEW x \in Containers, x # c PROVE Progress(x)'
  <2>1. fetch'[x] = fetch[x]
    BY <1>1, <1>3
  <2> QED BY <2>1 DEF Progress, FetchInv
<1> QED BY <1>2, <1>3

\* Fetch goes on with the rule of a record, or gives up.
LEMMA DecideKeeps ==
  ASSUME FetchInv, NEW c \in Containers, NEW record \in Record,
         fetch[c].since < record.at + Life,
         Decide(c, record), fetch[c].pc # "idle", clock' = clock
  PROVE  fetch' \in [Containers -> FetchRow] /\ \A x \in Containers : Progress(x)'
<1> USE PoliteFetchAssumption DEF PoliteFetchAssumption
<1>1. /\ fetch[c] \in FetchRow /\ fetch \in [Containers -> FetchRow]
      /\ record.rule \in Rules /\ record.at \in 0..MaxClock /\ Progress(c)
  BY DEF FetchInv, FetchTypeOK, Record, FetchRow
<1>0. PICK pc \in {"slot", "failed"} :
        /\ pc = "slot" => record.rule.ok
        /\ fetch' = [fetch EXCEPT ![c].pc = pc, ![c].rule = record.rule, ![c].at = record.at]
  <2>1. CASE record.rule.ok
    BY <2>1 DEF Decide
  <2>2. CASE ~record.rule.ok
    BY <2>2 DEF Decide
  <2> QED BY <2>1, <2>2
<1> DEFINE row == [fetch[c] EXCEPT !.pc = pc, !.rule = record.rule, !.at = record.at]
<1>2. row \in FetchRow
  BY <1>1 DEF FetchRow
<1>3. fetch' = [fetch EXCEPT ![c] = row]
  BY <1>0, <1>1
<1>4. fetch'[c] = row
  BY <1>1, <1>3
<1>5. Progress(c)'
  BY <1>0, <1>1, <1>2, <1>4 DEF Progress, FetchRow
<1> QED BY <1>2, <1>3, <1>5, OneFetch

\* The steps of a fetch.
LEMMA FetchStepKeeps ==
  ASSUME FetchInv, NEW c \in Containers, FetchStep(c)
  PROVE  FetchInv'
<1> USE PoliteFetchAssumption DEF PoliteFetchAssumption
<1>0. /\ FetchTypeOK /\ Progress(c) /\ fetch[c] \in FetchRow /\ Kept(memo[c]) /\ Kept(robots) /\ Kept(older)
      /\ fetch \in [Containers -> FetchRow]
      /\ clock \in 0..MaxClock /\ Skew[c] \in 0..MaxSkew
  BY DEF FetchInv, FetchTypeOK, FetchRow
<1>a. ASSUME NEW row \in FetchRow, fetch' = [fetch EXCEPT ![c] = row],
             UNCHANGED <<clock, robots, older, memo, bucket, slotAt>>, Progress(c)'
      PROVE  FetchInv'
  <2>1. fetch' \in [Containers -> FetchRow] /\ \A x \in Containers : Progress(x)'
    BY <1>a, OneFetch
  <2> QED BY <1>a, <2>1 DEF FetchInv, FetchTypeOK, FetchRow, Kept, BucketAhead
<1>b. ASSUME NEW record \in Record, Decide(c, record), fetch[c].pc \in {"robots", "store"},
             Kept(record), fetch[c].since < record.at + Life,
             UNCHANGED <<clock, bucket, slotAt>>,
             robots' \in Record \cup {None}, Kept(robots'), older' \in {older, robots},
             memo' \in {memo, [memo EXCEPT ![c] = record]}
      PROVE  FetchInv'
  <2>1. fetch' \in [Containers -> FetchRow] /\ \A x \in Containers : Progress(x)'
    BY <1>b, DecideKeeps
  <2>2. memo' \in [Containers -> Record \cup {None}] /\ \A x \in Containers : Kept(memo'[x])
    BY <1>b DEF FetchInv, FetchTypeOK
  <2>3. older' \in Record \cup {None} /\ Kept(older')
    BY <1>b DEF FetchInv, FetchTypeOK
  <2> QED BY <1>b, <2>1, <2>2, <2>3 DEF FetchInv, FetchTypeOK, FetchRow, Kept, BucketAhead
<1>c. ASSUME NEW record \in Record, Fresh(c, record), Kept(record)
      PROVE  fetch[c].since < record.at + Life
  <2>1. clock + Skew[c] < record.expires /\ record.expires <= record.at + Life
    BY <1>c DEF Fresh, Kept, Now, Record
  <2> QED BY <1>0, <2>1 DEF Progress, FetchRow, Record, Life
<1>1. CASE RecallRobots(c)
  <2>1. memo[c] \in Record /\ robots \in Record \cup {None}
    BY <1>0, <1>1 DEF RecallRobots, Fresh, FetchTypeOK
  <2> QED BY <1>0, <1>1, <1>b, <1>c, <2>1 DEF RecallRobots
<1>2. CASE LoadRobots(c)
  <2>1. PICK row \in RowsRead : /\ Fresh(c, row)
                                /\ memo' = [memo EXCEPT ![c] = row]
                                /\ Decide(c, row)
    BY <1>2 DEF LoadRobots
  <2>2. row \in Record /\ Kept(row) /\ robots \in Record \cup {None}
    BY <1>0, <2>1 DEF RowsRead, Fresh, FetchTypeOK
  <2>3. fetch[c].since < row.at + Life
    BY <1>c, <2>1, <2>2
  <2> QED BY <1>0, <1>2, <1>b, <2>1, <2>2, <2>3 DEF LoadRobots
<1>3. CASE MissRobots(c)
  <2> DEFINE row == [fetch[c] EXCEPT !.pc = "live"]
  <2>1. row \in FetchRow /\ fetch' = [fetch EXCEPT ![c] = row] /\ fetch'[c] = row
    BY <1>0, <1>3 DEF MissRobots, Goto, FetchRow
  <2>2. Progress(c)'
    BY <1>0, <1>3, <2>1 DEF Progress, MissRobots, FetchRow
  <2> QED BY <1>3, <1>a, <2>1, <2>2 DEF MissRobots
<1>4. CASE FetchRobots(c)
  <2>1. PICK rule \in Rules :
          fetch' = [fetch EXCEPT ![c].pc = "store", ![c].rule = rule, ![c].at = clock]
    BY <1>4 DEF FetchRobots
  <2> DEFINE row == [fetch[c] EXCEPT !.pc = "store", !.rule = rule, !.at = clock]
  <2>2. row \in FetchRow /\ fetch' = [fetch EXCEPT ![c] = row] /\ fetch'[c] = row
    BY <1>0, <2>1 DEF FetchRow
  <2>3. Progress(c)'
    BY <1>0, <1>4, <2>2 DEF Progress, FetchRobots, FetchRow
  <2> QED BY <1>4, <1>a, <2>2, <2>3 DEF FetchRobots
<1>5. CASE StoreRobots(c)
  <2> DEFINE expires == Now(c) + TTL
             whole == Second * Unix(expires)
             record == [rule |-> fetch[c].rule, at |-> fetch[c].at, expires |-> expires]
             row == [rule |-> fetch[c].rule, at |-> fetch[c].at, expires |-> whole]
  <2>4. expires \in Nat /\ expires = clock + Skew[c] + TTL
    BY <1>0 DEF Now
  <2>5. whole \in Nat /\ whole <= expires
    BY <2>4, WholeSeconds, WholeSecondsNat
  <2>6. robots' = row /\ older' = robots /\ Decide(c, record)
        /\ memo' = [memo EXCEPT ![c] = record] /\ UNCHANGED <<clock, bucket, slotAt>>
        /\ fetch[c].pc = "store"
    BY <1>5 DEF StoreRobots
  <2> HIDE DEF whole, expires
  <2>1. /\ fetch[c].rule \in Rules /\ fetch[c].since <= fetch[c].at
        /\ fetch[c].at \in 0..MaxClock /\ fetch[c].since \in 0..MaxClock
        /\ clock <= fetch[c].since + Timeout
    BY <1>0, <1>5 DEF StoreRobots, Progress, FetchRow
  <2>2. record \in Record /\ row \in Record
    BY <1>0, <2>1, <2>4, <2>5 DEF Record
  <2>3. /\ record.expires <= record.at + Life /\ fetch[c].since < record.at + Life
        /\ row.expires <= row.at + Life
    BY <1>0, <2>1, <2>4, <2>5 DEF Life
  <2> QED BY <1>b, <2>2, <2>3, <2>6 DEF Kept
<1>6. CASE Acquire(c)
  <2> DEFINE row == [fetch[c] EXCEPT !.pc = "request"]
  <2>1. row \in FetchRow /\ fetch' = [fetch EXCEPT ![c] = row] /\ fetch'[c] = row
    BY <1>0, <1>6 DEF Acquire, Goto, FetchRow
  <2>2. Progress(c)'
    BY <1>0, <1>6, <2>1 DEF Progress, Acquire, FetchRow
  <2>3. fetch' \in [Containers -> FetchRow] /\ \A x \in Containers : Progress(x)'
    BY <1>6, <2>1, <2>2, OneFetch DEF Acquire
  <2>4. bucket' = Unix(clock + Skew[c]) /\ slotAt' = clock /\ clock + Skew[c] \in Nat
    BY <1>0, <1>6 DEF Acquire, Now
  <2>6. bucket' \in Nat /\ clock + Skew[c] < Second * bucket' + Second
    BY <2>4, WholeSeconds, WholeSecondsNat
  <2>5. BucketAhead' /\ bucket' \in Nat /\ slotAt' \in Nat
    BY <1>0, <1>6, <2>4, <2>6 DEF BucketAhead, Acquire
  <2> QED BY <1>6, <2>3, <2>5 DEF Acquire, FetchInv, FetchTypeOK, FetchRow, Kept
<1>7. CASE Answer(c) \/ Fail(c)
  <2>1. PICK pc \in {"done", "failed"} : Goto(c, pc)
    BY <1>7 DEF Answer, Fail
  <2> DEFINE row == [fetch[c] EXCEPT !.pc = pc]
  <2>2. row \in FetchRow /\ fetch' = [fetch EXCEPT ![c] = row] /\ fetch'[c] = row
    BY <1>0, <2>1 DEF Goto, FetchRow
  <2>3. Progress(c)'
    BY <1>0, <1>7, <2>2 DEF Progress, Answer, Fail, FetchRow
  <2> QED BY <1>7, <1>a, <2>2, <2>3 DEF Answer, Fail
<1>8. CASE Retry(c)
  <2> DEFINE row == [fetch[c] EXCEPT !.attempt = @ + 1]
  <2>1. row \in FetchRow /\ fetch' = [fetch EXCEPT ![c] = row] /\ fetch'[c] = row
    BY <1>0, <1>8 DEF Retry, FetchRow
  <2>2. Progress(c)'
    BY <1>0, <1>8, <2>1 DEF Progress, Retry, FetchRow
  <2> QED BY <1>8, <1>a, <2>1, <2>2 DEF Retry
<1> QED BY <1>1, <1>2, <1>3, <1>4, <1>5, <1>6, <1>7, <1>8 DEF FetchStep

\* A fetch begins, ends with its invocation, or time passes.
LEMMA CallKeeps ==
  ASSUME FetchInv, NEW c \in Containers, Call(c) \/ EndAudit(c)
  PROVE  FetchInv'
<1> USE PoliteFetchAssumption DEF PoliteFetchAssumption
<1>1. PICK row \in FetchRow : /\ fetch' = [fetch EXCEPT ![c] = row]
                              /\ row.since <= clock
                              /\ row.pc = "idle" \/ (row.pc = "robots" /\ row.since = clock)
  <2>1. clock \in 0..MaxClock
    BY DEF FetchInv, FetchTypeOK
  <2>2. /\ NoFetch \in FetchRow /\ NoFetch.since = 0 /\ NoFetch.pc = "idle"
    BY DEF NoFetch, FetchRow
  <2> DEFINE begun == [NoFetch EXCEPT !.pc = "robots", !.since = clock]
  <2>3. begun \in FetchRow
    BY <2>1, <2>2 DEF FetchRow
  <2>4. begun.pc = "robots" /\ begun.since = clock
    BY <2>2 DEF FetchRow
  <2>5. \/ fetch' = [fetch EXCEPT ![c] = NoFetch]
        \/ fetch' = [fetch EXCEPT ![c] = begun]
    BY DEF Call, EndAudit
  <2> HIDE DEF begun
  <2> QED BY <2>1, <2>2, <2>3, <2>4, <2>5
<1>2. clock' = clock /\ clock \in 0..MaxClock /\ fetch'[c] = row
  BY <1>1 DEF Call, EndAudit, FetchInv, FetchTypeOK
<1>3. Progress(c)'
  BY <1>1, <1>2 DEF Progress
<1>4. fetch' \in [Containers -> FetchRow] /\ \A x \in Containers : Progress(x)'
  BY <1>1, <1>2, <1>3, OneFetch
<1> QED BY <1>4 DEF Call, EndAudit, FetchInv, FetchTypeOK, FetchRow, Kept, BucketAhead

LEMMA TickKeeps == FetchInv /\ Tick => FetchInv'
<1> SUFFICES ASSUME FetchInv, Tick PROVE FetchInv'
  OBVIOUS
<1> USE PoliteFetchAssumption DEF PoliteFetchAssumption
<1>1. clock \in 0..MaxClock /\ clock' = clock + 1 /\ clock' \in 0..MaxClock
  BY DEF FetchInv, FetchTypeOK, Tick
<1>2. ASSUME NEW c \in Containers PROVE Progress(c)'
  <2>1. Progress(c) /\ fetch[c] \in FetchRow /\ fetch'[c] = fetch[c]
    BY DEF FetchInv, FetchTypeOK, FetchRow, Tick
  <2> QED BY <1>1, <2>1 DEF Progress, Tick, FetchRow
<1>3. BucketAhead'
  BY <1>1 DEF FetchInv, FetchTypeOK, BucketAhead, Tick
<1> QED BY <1>1, <1>2, <1>3 DEF FetchInv, FetchTypeOK, Tick, Kept

LEMMA FetchInitInv == FetchInit => FetchInv
<1> SUFFICES ASSUME FetchInit PROVE FetchInv
  OBVIOUS
<1> USE PoliteFetchAssumption DEF PoliteFetchAssumption
<1>1. FetchTypeOK
  BY DEF FetchInit, FetchTypeOK, NoFetch
<1>2. Kept(robots) /\ Kept(older) /\ \A c \in Containers : Kept(memo[c])
  BY DEF FetchInit, Kept
<1>3. ASSUME NEW c \in Containers PROVE Progress(c)
  <2>1. fetch[c] = NoFetch /\ clock = 0
    BY DEF FetchInit
  <2> QED BY <2>1 DEF Progress, NoFetch
<1>4. BucketAhead
  BY DEF FetchInit, BucketAhead
<1> QED BY <1>1, <1>2, <1>3, <1>4 DEF FetchInv

LEMMA PermissionFollows == FetchInv => PermissionFresh
<1> SUFFICES ASSUME FetchInv, NEW c \in Containers, fetch[c].pc = "request"
             PROVE  /\ fetch[c].rule.ok
                    /\ clock < fetch[c].at + TTL + 2 * Timeout + MaxSkew
  BY DEF PermissionFresh
<1> USE PoliteFetchAssumption DEF PoliteFetchAssumption
<1>1. Progress(c) /\ fetch[c] \in FetchRow /\ clock \in 0..MaxClock
  BY DEF FetchInv, FetchTypeOK, FetchRow
<1> QED BY <1>1 DEF Progress, FetchRow, Life

\* The gate compares the clock of one container with that of another.
LEMMA SlotApart ==
  ASSUME FetchInv, NEW c \in Containers, Acquire(c), slotAt # None
  PROVE  clock - slotAt > Floor - MaxSkew - Second
<1> USE PoliteFetchAssumption DEF PoliteFetchAssumption
<1>1. /\ bucket # None /\ slotAt < Second * bucket + Second /\ bucket \in Nat /\ slotAt \in Nat
      /\ clock \in Nat /\ Skew[c] \in 0..MaxSkew
  BY DEF FetchInv, FetchTypeOK, BucketAhead
<1>2. fetch[c].rule \in Rules
  BY DEF FetchInv, Progress, Acquire
<1>3. Interval(c) \in Int /\ Interval(c) >= Floor
  BY <1>2 DEF Interval
<1>4. bucket <= Unix(Now(c) - Interval(c))
  BY <1>1, Zenon DEF Acquire, Gate
<1> DEFINE gate == Unix(Now(c) - Interval(c))
<1>5. gate \in Int /\ Second * gate <= Now(c) - Interval(c)
  BY <1>1, <1>3, WholeSeconds DEF Now
<1>6. Second * bucket <= Second * gate
  <2>1. gate - bucket \in Nat
    BY <1>1, <1>4, <1>5
  <2>2. Second * (gate - bucket) >= 0 /\ Second * (gate - bucket) = Second * gate - Second * bucket
    BY <1>1, <1>5, <2>1
  <2> QED BY <1>1, <1>5, <2>2
<1> HIDE DEF gate
<1> QED BY <1>1, <1>3, <1>5, <1>6 DEF Now

-----------------------------------------------------------------------------
(* discover and audit                                                      *)

DiscoverStep(d) == CheckDomain(d) \/ PutBusiness(d) \/ PublishFound(d) \/ FailPersist(d)

AuditStep(c) ==
  \/ StartAudit(c) \/ Fetching(c) \/ PutBlob(c)
  \/ FailBlob(c) \/ PutAudit(c) \/ PublishCompleted(c) \/ FailAudit(c) \/ TimeOut(c)

RunRow ==
  [pc : {"next", "put", "publish"}, domain : Domains \cup {None}, id : Ids \cup {None}]

AuditState ==
  [pc : {"idle", "fetch", "put", "publish"}, id : Ids \cup {None}, snapshot : BOOLEAN]

\* The state of discover and audit, without the fetches.
IntakeTypeOK ==
  /\ business \in [Ids -> Domains \cup {None}]
  /\ index \subseteq Ids
  /\ lags \in BOOLEAN
  /\ run \in [Runs -> RunRow]
  /\ found \subseteq Ids
  /\ audit \in [Containers -> AuditState]
  /\ blobs \subseteq Ids
  /\ audits \subseteq AuditRow
  /\ completed \subseteq Ids
  /\ faults \in 0..MaxFaults

IdleIsFree ==
  \A c \in Containers : audit[c].pc = "idle" => audit[c] = NoAudit /\ fetch[c] = NoFetch

\* Whatever is worked on is the id of a stored business.
StoredFirst ==
  /\ \A d \in Runs :
       /\ run[d].pc = "put" => run[d].domain \in Domains
       /\ run[d].pc = "publish" => run[d].id \in Ids /\ business[run[d].id] # None
  /\ \A i \in found : business[i] # None
  /\ \A c \in Containers :
       audit[c].pc # "idle" => audit[c].id \in Ids /\ business[audit[c].id] # None

\* A snapshot precedes its row and a row its event.
SnapshotFirst ==
  \A c \in Containers :
    /\ audit[c].snapshot /\ audit[c].pc # "idle" => audit[c].id \in blobs
    /\ audit[c].pc = "publish" =>
         [id |-> audit[c].id, snapshot |-> audit[c].snapshot] \in audits

\* An index that does not trail shows every row.
Indexed == ~lags => \A i \in Ids : business[i] # None => i \in index

IntakeInv ==
  /\ FetchInv /\ IntakeTypeOK /\ IdleIsFree
  /\ StoredFirst /\ SnapshotFirst /\ AuditsBacked
  /\ Indexed /\ DuplicatesBounded

LEMMA InitIntake == Init => IntakeInv
<1> SUFFICES ASSUME Init PROVE IntakeInv
  OBVIOUS
<1> USE IntakeAssumption DEF IntakeAssumption
<1>1. FetchInv
  BY FetchInitInv DEF Init
<1>2. IntakeTypeOK
  BY DEF Init, IntakeTypeOK, NoRun, NoAudit, RunRow, AuditState
<1>3. IdleIsFree
  BY DEF Init, FetchInit, IdleIsFree, NoAudit, NoFetch
<1>4. StoredFirst /\ SnapshotFirst
  BY DEF Init, StoredFirst, SnapshotFirst, NoRun, NoAudit
<1>5. AuditsBacked /\ Indexed
  BY DEF Init, AuditsBacked, Indexed
<1>6. DuplicatesBounded
  <2>1. ASSUME NEW dom \in Domains
        PROVE  Cardinality(Rows(dom)) + Cardinality(Storing(dom)) <= Cardinality(Runs)
    <3>1. Rows(dom) = {} /\ Storing(dom) = {}
      BY <2>1 DEF Init, Rows, Storing, NoRun
    <3> QED BY <3>1, FS_EmptySet, FS_CardinalityType
  <2> QED BY <2>1 DEF DuplicatesBounded
<1> QED BY <1>1, <1>2, <1>3, <1>4, <1>5, <1>6 DEF IntakeInv

\* The types of discover's and audit's own state.
LEMMA DiscoverTyped ==
  ASSUME IntakeTypeOK, StoredFirst,
         \/ \E d \in Runs : DiscoverStep(d)
         \/ \E i \in Ids : Index(i)
  PROVE  IntakeTypeOK'
<1> USE IntakeAssumption DEF IntakeAssumption
<1>0. NoRun \in RunRow
  BY DEF NoRun, RunRow
<1>1. ASSUME NEW d \in Runs, CheckDomain(d) PROVE IntakeTypeOK'
  <2>1. run' \in [Runs -> RunRow]
    BY <1>1 DEF CheckDomain, IntakeTypeOK, RunRow
  <2> QED BY <1>1, <2>1 DEF CheckDomain, IntakeTypeOK, audited
<1>2. ASSUME NEW d \in Runs, PutBusiness(d) PROVE IntakeTypeOK'
  <2>1. run[d].domain \in Domains
    BY <1>2 DEF PutBusiness, StoredFirst
  <2>2. PICK i \in Ids : /\ business' = [business EXCEPT ![i] = run[d].domain]
                         /\ index' = IF lags THEN index ELSE index \cup {i}
                         /\ run' = [run EXCEPT ![d].pc = "publish", ![d].id = i]
    BY <1>2 DEF PutBusiness
  <2>3. run' \in [Runs -> RunRow]
    BY <2>2 DEF IntakeTypeOK, RunRow
  <2>4. business' \in [Ids -> Domains \cup {None}] /\ index' \subseteq Ids
    BY <2>1, <2>2 DEF IntakeTypeOK
  <2> QED BY <1>2, <2>3, <2>4 DEF PutBusiness, IntakeTypeOK, audited
<1>3. ASSUME NEW d \in Runs, PublishFound(d) PROVE IntakeTypeOK'
  <2>1. run[d].id \in Ids
    BY <1>3 DEF PublishFound, StoredFirst
  <2> QED BY <1>0, <1>3, <2>1 DEF PublishFound, IntakeTypeOK, audited
<1>4. ASSUME NEW d \in Runs, FailPersist(d) PROVE IntakeTypeOK'
  BY <1>0, <1>4 DEF FailPersist, Fault, IntakeTypeOK, audited
<1>5. ASSUME NEW i \in Ids, Index(i) PROVE IntakeTypeOK'
  BY <1>5 DEF Index, IntakeTypeOK, audited
<1> QED BY <1>1, <1>2, <1>3, <1>4, <1>5 DEF DiscoverStep

LEMMA AuditTyped ==
  ASSUME IntakeTypeOK, StoredFirst, NEW c \in Containers, AuditStep(c)
  PROVE  IntakeTypeOK'
<1> USE IntakeAssumption DEF IntakeAssumption, discovered
<1>0. NoAudit \in AuditState /\ faults + 1 \in Nat /\ faults \in Nat
  BY DEF NoAudit, AuditState, IntakeTypeOK
<1>1. CASE StartAudit(c)
  <2>1. PICK i \in found : /\ found' = found \ {i}
                           /\ audit' = [audit EXCEPT ![c] = [NoAudit EXCEPT !.pc = "fetch", !.id = i]]
    BY <1>1 DEF StartAudit
  <2>2. [NoAudit EXCEPT !.pc = "fetch", !.id = i] \in AuditState
    BY <1>0 DEF AuditState, IntakeTypeOK
  <2>3. audit' \in [Containers -> AuditState] /\ found' \subseteq Ids
    BY <2>1, <2>2 DEF IntakeTypeOK
  <2> QED BY <1>1, <2>3 DEF StartAudit, IntakeTypeOK
<1>2. CASE Fetching(c)
  <2>1. UNCHANGED intakeVars
    BY <1>2 DEF Fetching
  <2> QED BY <2>1 DEF intakeVars, IntakeTypeOK
<1>3. CASE PutBlob(c)
  <2>1. audit' \in [Containers -> AuditState]
    BY <1>3 DEF PutBlob, IntakeTypeOK, AuditState
  <2>2. blobs' \subseteq Ids
    BY <1>3 DEF PutBlob, Scored, StoredFirst, IntakeTypeOK
  <2> QED BY <1>3, <2>1, <2>2 DEF PutBlob, IntakeTypeOK
<1>4. CASE FailBlob(c)
  <2>1. audit' \in [Containers -> AuditState]
    BY <1>4 DEF FailBlob, IntakeTypeOK, AuditState
  <2> QED BY <1>4, <2>1 DEF FailBlob, Fault, IntakeTypeOK
<1>5. CASE PutAudit(c)
  <2>1. audit' \in [Containers -> AuditState]
    BY <1>5 DEF PutAudit, IntakeTypeOK, AuditState
  <2>2. audit[c].id \in Ids /\ audit[c].snapshot \in BOOLEAN
    BY <1>5 DEF PutAudit, StoredFirst, IntakeTypeOK, AuditState
  <2>3. audits' \subseteq AuditRow
    BY <1>5, <2>2 DEF PutAudit, IntakeTypeOK, AuditRow
  <2> QED BY <1>5, <2>1, <2>3 DEF PutAudit, IntakeTypeOK
<1>6. CASE PublishCompleted(c)
  <2>1. completed' \subseteq Ids
    BY <1>6 DEF PublishCompleted, StoredFirst, IntakeTypeOK
  <2>2. audit' \in [Containers -> AuditState]
    BY <1>0, <1>6 DEF PublishCompleted, EndAudit, IntakeTypeOK
  <2> QED BY <1>6, <2>1, <2>2 DEF PublishCompleted, IntakeTypeOK
<1>7. CASE FailAudit(c) \/ TimeOut(c)
  <2>1. audit' \in [Containers -> AuditState]
    BY <1>0, <1>7 DEF FailAudit, TimeOut, EndAudit, IntakeTypeOK
  <2>2. faults' \in 0..MaxFaults
    BY <1>0, <1>7 DEF FailAudit, TimeOut, Fault, IntakeTypeOK
  <2>3. UNCHANGED <<discovered, found, blobs, audits, completed>>
    BY <1>7 DEF FailAudit, TimeOut
  <2> QED BY <2>1, <2>2, <2>3 DEF IntakeTypeOK
<1> QED BY <1>1, <1>2, <1>3, <1>4, <1>5, <1>6, <1>7 DEF AuditStep

\* A discover step keeps what is said of stored businesses.
LEMMA DiscoverStored ==
  ASSUME IntakeInv,
         \/ \E d \in Runs : DiscoverStep(d)
         \/ \E i \in Ids : Index(i)
  PROVE  StoredFirst' /\ SnapshotFirst' /\ AuditsBacked' /\ Indexed'
<1> USE IntakeAssumption DEF IntakeAssumption
<1>0. IntakeTypeOK /\ StoredFirst /\ SnapshotFirst /\ AuditsBacked /\ Indexed
  BY DEF IntakeInv
<1>1. UNCHANGED audited
  BY DEF DiscoverStep, CheckDomain, PutBusiness, PublishFound, FailPersist, Index
<1>2. \A i \in Ids : business[i] # None => business'[i] # None
  <2>1. ASSUME NEW d \in Runs, PutBusiness(d), NEW i \in Ids, business[i] # None
        PROVE  business'[i] # None
    BY <1>0, <2>1 DEF PutBusiness, IntakeTypeOK
  <2>2. (\A d \in Runs : ~PutBusiness(d)) => UNCHANGED business
    BY DEF DiscoverStep, CheckDomain, PublishFound, FailPersist, Index
  <2> QED BY <2>1, <2>2
<1>3. SnapshotFirst'
  BY <1>0, <1>1 DEF SnapshotFirst, audited
<1>4. AuditsBacked'
  BY <1>0, <1>1, <1>2 DEF AuditsBacked, audited, IntakeTypeOK, AuditRow
<1>5. ASSUME NEW d \in Runs, CheckDomain(d) PROVE StoredFirst' /\ Indexed'
  BY <1>0, <1>1, <1>5 DEF CheckDomain, StoredFirst, Indexed, audited, IntakeTypeOK
<1>6. ASSUME NEW d \in Runs, PutBusiness(d) PROVE StoredFirst' /\ Indexed'
  <2>1. PICK i \in Ids : /\ business[i] = None
                         /\ business' = [business EXCEPT ![i] = run[d].domain]
                         /\ index' = IF lags THEN index ELSE index \cup {i}
                         /\ run' = [run EXCEPT ![d].pc = "publish", ![d].id = i]
    BY <1>6 DEF PutBusiness
  <2>2. run[d].domain \in Domains
    BY <1>0, <1>6 DEF PutBusiness, StoredFirst
  <2>3. business'[i] # None
    BY <1>0, <2>1, <2>2 DEF IntakeTypeOK
  <2>4. Indexed'
    BY <1>0, <1>6, <2>1 DEF PutBusiness, Indexed, IntakeTypeOK
  <2>5. /\ run'[d].pc = "publish" /\ run'[d].id = i
        /\ \A x \in Runs \ {d} : run'[x] = run[x]
    BY <1>0, <2>1 DEF IntakeTypeOK
  <2> QED BY <1>0, <1>1, <1>2, <1>6, <2>3, <2>4, <2>5
          DEF PutBusiness, StoredFirst, audited, IntakeTypeOK
<1>7. ASSUME NEW d \in Runs, PublishFound(d) PROVE StoredFirst' /\ Indexed'
  BY <1>0, <1>1, <1>7 DEF PublishFound, StoredFirst, Indexed, NoRun, audited, IntakeTypeOK
<1>8. ASSUME NEW d \in Runs, FailPersist(d) PROVE StoredFirst' /\ Indexed'
  BY <1>0, <1>1, <1>8 DEF FailPersist, StoredFirst, Indexed, NoRun, audited, IntakeTypeOK
<1>9. ASSUME NEW i \in Ids, Index(i) PROVE StoredFirst' /\ Indexed'
  BY <1>0, <1>1, <1>9 DEF Index, StoredFirst, Indexed, audited
<1> QED BY <1>3, <1>4, <1>5, <1>6, <1>7, <1>8, <1>9 DEF DiscoverStep

\* So does a step of an audit.
LEMMA AuditStored ==
  ASSUME IntakeInv, NEW c \in Containers, AuditStep(c)
  PROVE  StoredFirst' /\ SnapshotFirst' /\ AuditsBacked' /\ Indexed' /\ IdleIsFree'
<1> USE IntakeAssumption DEF IntakeAssumption, discovered
<1>0. /\ IntakeTypeOK /\ StoredFirst /\ SnapshotFirst /\ AuditsBacked /\ Indexed /\ IdleIsFree
      /\ fetch \in [Containers -> FetchRow]
  BY DEF IntakeInv, FetchInv, FetchTypeOK, FetchRow
<1>1. UNCHANGED <<business, index, lags, run>>
  BY DEF AuditStep, StartAudit, Fetching, intakeVars, PutBlob, FailBlob, PutAudit,
         PublishCompleted, FailAudit, TimeOut
<1>2. Indexed'
  BY <1>0, <1>1 DEF Indexed
<1>3. ASSUME UNCHANGED fetchVars \/ EndAudit(c) \/ Call(c) \/ FetchStep(c)
      PROVE  \A x \in Containers \ {c} : fetch'[x] = fetch[x]
  BY <1>0, <1>3 DEF fetchVars, EndAudit, Call, FetchStep, RecallRobots, LoadRobots, MissRobots,
                    FetchRobots, StoreRobots, Decide, Goto, Acquire, Answer, Retry, Fail
<1>4. CASE StartAudit(c)
  <2>1. /\ audit'[c].pc = "fetch" /\ audit'[c].id \in found /\ audit'[c].snapshot = FALSE
        /\ \A x \in Containers \ {c} : audit'[x] = audit[x]
        /\ found' \subseteq found /\ UNCHANGED <<blobs, audits, completed>>
    BY <1>0, <1>4 DEF StartAudit, NoAudit, IntakeTypeOK
  <2> QED BY <1>0, <1>1, <1>2, <1>3, <1>4, <2>1
          DEF StartAudit, StoredFirst, SnapshotFirst, AuditsBacked, IdleIsFree, IntakeTypeOK
<1>5. CASE Fetching(c)
  <2>1. UNCHANGED intakeVars /\ audit[c].pc = "fetch" /\ FetchStep(c)
    BY <1>5 DEF Fetching
  <2> QED BY <1>0, <1>2, <1>3, <2>1
          DEF intakeVars, StoredFirst, SnapshotFirst, AuditsBacked, IdleIsFree
<1>6. CASE PutBlob(c) \/ FailBlob(c)
  <2>1. /\ audit[c].pc = "fetch"
        /\ audit'[c].pc = "put" /\ audit'[c].id = audit[c].id
        /\ \A x \in Containers \ {c} : audit'[x] = audit[x]
        /\ blobs \subseteq blobs' /\ UNCHANGED <<found, audits, completed, fetchVars>>
    BY <1>0, <1>6 DEF PutBlob, FailBlob, Scored, IntakeTypeOK, AuditState
  <2>2. audit'[c].snapshot => audit[c].id \in blobs'
    <3>1. CASE PutBlob(c)
      BY <3>1 DEF PutBlob
    <3>2. CASE FailBlob(c)
      <4>1. audit'[c].snapshot = audit[c].snapshot /\ blobs' = blobs
        BY <1>0, <3>2 DEF FailBlob, IntakeTypeOK, AuditState
      <4> QED BY <1>0, <2>1, <4>1 DEF SnapshotFirst
    <3> QED BY <1>6, <3>1, <3>2
  <2>3. StoredFirst'
    BY <1>0, <1>1, <2>1 DEF StoredFirst
  <2>4. SnapshotFirst'
    BY <1>0, <2>1, <2>2 DEF SnapshotFirst
  <2>5. AuditsBacked'
    BY <1>0, <1>1, <2>1 DEF AuditsBacked
  <2>6. IdleIsFree'
    BY <1>0, <2>1 DEF IdleIsFree, fetchVars
  <2> QED BY <1>2, <2>3, <2>4, <2>5, <2>6
<1>7. CASE PutAudit(c)
  <2>1. /\ audit[c].pc = "put"
        /\ audit'[c].pc = "publish" /\ audit'[c].id = audit[c].id
        /\ audit'[c].snapshot = audit[c].snapshot
        /\ \A x \in Containers \ {c} : audit'[x] = audit[x]
        /\ audits' = audits \cup {[id |-> audit[c].id, snapshot |-> audit[c].snapshot]}
        /\ UNCHANGED <<found, blobs, completed, fetchVars>>
    BY <1>0, <1>7 DEF PutAudit, IntakeTypeOK
  <2> QED BY <1>0, <1>1, <1>2, <1>3, <2>1
          DEF StoredFirst, SnapshotFirst, AuditsBacked, IdleIsFree, IntakeTypeOK
<1>8. CASE PublishCompleted(c) \/ FailAudit(c) \/ TimeOut(c)
  <2>1. /\ audit'[c] = NoAudit /\ fetch'[c] = NoFetch
        /\ \A x \in Containers \ {c} : audit'[x] = audit[x]
        /\ EndAudit(c) /\ UNCHANGED <<found, blobs, audits>>
        /\ \/ completed' = completed
           \/ completed' = completed \cup {audit[c].id} /\ audit[c].pc = "publish"
    BY <1>0, <1>8 DEF PublishCompleted, FailAudit, TimeOut, EndAudit, IntakeTypeOK
  <2>2. \A x \in Containers \ {c} : fetch'[x] = fetch[x]
    BY <1>3, <2>1
  <2>6. audit'[c].pc = "idle" /\ audit'[c].snapshot = FALSE
    BY <2>1 DEF NoAudit
  <2>3. StoredFirst'
    BY <1>0, <1>1, <2>1, <2>6 DEF StoredFirst
  <2>5. SnapshotFirst'
    BY <1>0, <2>1, <2>6 DEF SnapshotFirst
  <2>7. IdleIsFree'
    BY <1>0, <2>1, <2>2 DEF IdleIsFree
  <2>4. AuditsBacked'
    BY <1>0, <1>1, <2>1 DEF SnapshotFirst, AuditsBacked
  <2> QED BY <1>2, <2>3, <2>4, <2>5, <2>7
<1> QED BY <1>4, <1>5, <1>6, <1>7, <1>8 DEF AuditStep

\* A discover step leaves the audits and their fetches alone.
LEMMA DiscoverIdle ==
  ASSUME IdleIsFree,
         \/ \E d \in Runs : DiscoverStep(d)
         \/ \E i \in Ids : Index(i)
  PROVE  IdleIsFree' /\ UNCHANGED fetchVars
<1>1. UNCHANGED <<audited, fetchVars>>
  BY DEF DiscoverStep, CheckDomain, PutBusiness, PublishFound, FailPersist, Index
<1> QED BY <1>1 DEF IdleIsFree, audited, fetchVars

-----------------------------------------------------------------------------
(* Rows of a domain and overlapping runs                                   *)

LEMMA CountsFinite ==
  ASSUME NEW dom \in Domains
  PROVE  /\ IsFiniteSet(Runs) /\ IsFiniteSet(Rows(dom)) /\ IsFiniteSet(Storing(dom))
         /\ Cardinality(Rows(dom)) \in Nat /\ Cardinality(Storing(dom)) \in Nat
         /\ Cardinality(Runs) \in Nat
<1>1. Rows(dom) \subseteq Ids /\ Storing(dom) \subseteq Runs
  BY DEF Rows, Storing
<1>2. IsFiniteSet(Runs) /\ IsFiniteSet(Ids)
  BY IntakeAssumption DEF IntakeAssumption
<1>3. IsFiniteSet(Rows(dom)) /\ IsFiniteSet(Storing(dom))
  BY <1>1, <1>2, FS_Subset
<1> QED BY <1>2, <1>3, FS_CardinalityType

\* A run looks a domain up and is one more that may store it: without a row
\* shown there is none, so the runs alone bound the count.
LEMMA CheckBounded ==
  ASSUME IntakeInv, ~lags, NEW d \in Runs, CheckDomain(d), NEW dom \in Domains,
         Cardinality(Rows(dom)) + Cardinality(Storing(dom)) <= Cardinality(Runs)
  PROVE  Cardinality(Rows(dom)') + Cardinality(Storing(dom)') <= Cardinality(Runs)
<1>1. PICK new \in Domains :
        /\ ~Shown(new)
        /\ run' = [run EXCEPT ![d] = [pc |-> "put", domain |-> new, id |-> None]]
  BY DEF CheckDomain
<1>2. business' = business /\ run \in [Runs -> RunRow] /\ run[d].pc = "next"
  BY DEF CheckDomain, IntakeInv, IntakeTypeOK
<1>3. Rows(dom)' = Rows(dom)
  BY <1>2 DEF Rows
<1>4. CASE dom = new
  <2>1. ASSUME NEW i \in Rows(dom) PROVE FALSE
    <3>1. i \in Ids /\ business[i] = dom /\ dom # None
      BY <2>1, IntakeAssumption DEF Rows, IntakeAssumption
    <3>2. i \in index
      BY <3>1 DEF IntakeInv, Indexed
    <3> QED BY <1>1, <1>4, <3>1, <3>2 DEF Shown
  <2>2. Rows(dom) = {}
    BY <2>1
  <2>3. Storing(dom)' \subseteq Runs
    BY DEF Storing
  <2>4. Cardinality(Storing(dom)') <= Cardinality(Runs) /\ Cardinality(Storing(dom)') \in Nat
    BY <2>3, CountsFinite, FS_Subset, FS_CardinalityType
  <2> QED BY <1>3, <2>2, <2>4, CountsFinite, FS_EmptySet
<1>5. CASE dom # new
  <2>1. Storing(dom)' = Storing(dom)
    BY <1>1, <1>2, <1>5 DEF Storing
  <2> QED BY <1>3, <2>1
<1> QED BY <1>4, <1>5

\* A put moves a run's claim over to a row.
LEMMA PutBounded ==
  ASSUME IntakeInv, NEW d \in Runs, PutBusiness(d), NEW dom \in Domains,
         Cardinality(Rows(dom)) + Cardinality(Storing(dom)) <= Cardinality(Runs)
  PROVE  Cardinality(Rows(dom)') + Cardinality(Storing(dom)') <= Cardinality(Runs)
<1>1. PICK i \in Ids : /\ business[i] = None
                       /\ business' = [business EXCEPT ![i] = run[d].domain]
                       /\ run' = [run EXCEPT ![d].pc = "publish", ![d].id = i]
  BY DEF PutBusiness
<1>2. /\ business \in [Ids -> Domains \cup {None}] /\ run \in [Runs -> RunRow]
      /\ run[d].pc = "put" /\ dom # None
  BY IntakeAssumption DEF PutBusiness, IntakeInv, IntakeTypeOK, IntakeAssumption
<1>3. /\ business'[i] = run[d].domain /\ run'[d].pc = "publish"
      /\ \A x \in Ids \ {i} : business'[x] = business[x]
      /\ \A x \in Runs \ {d} : run'[x] = run[x]
  BY <1>1, <1>2
<1>4. CASE run[d].domain = dom
  <2>1. Rows(dom)' = Rows(dom) \cup {i} /\ i \notin Rows(dom)
    BY <1>1, <1>2, <1>3, <1>4 DEF Rows
  <2>2. Storing(dom)' = Storing(dom) \ {d} /\ d \in Storing(dom)
    BY <1>2, <1>3, <1>4 DEF Storing
  <2>3. Cardinality(Rows(dom)') = Cardinality(Rows(dom)) + 1
    BY <2>1, CountsFinite, FS_AddElement
  <2>4. Cardinality(Storing(dom)') = Cardinality(Storing(dom)) - 1
    BY <2>2, CountsFinite, FS_RemoveElement
  <2> QED BY <2>3, <2>4, CountsFinite
<1>5. CASE run[d].domain # dom
  <2>1. Rows(dom)' = Rows(dom)
    BY <1>1, <1>2, <1>3, <1>5 DEF Rows
  <2>2. Storing(dom)' = Storing(dom)
    BY <1>2, <1>3, <1>5 DEF Storing
  <2> QED BY <2>1, <2>2
<1> QED BY <1>4, <1>5

\* A run that has stored, or has failed, gives its claim up.
LEMMA DoneBounded ==
  ASSUME IntakeInv, NEW d \in Runs, PublishFound(d) \/ FailPersist(d), NEW dom \in Domains,
         Cardinality(Rows(dom)) + Cardinality(Storing(dom)) <= Cardinality(Runs)
  PROVE  Cardinality(Rows(dom)') + Cardinality(Storing(dom)') <= Cardinality(Runs)
<1>1. business' = business /\ run' = [run EXCEPT ![d] = NoRun] /\ run \in [Runs -> RunRow]
  BY DEF PublishFound, FailPersist, IntakeInv, IntakeTypeOK
<1>2. Rows(dom)' = Rows(dom) /\ Storing(dom)' \subseteq Storing(dom)
  BY <1>1 DEF Rows, Storing, NoRun
<1>3. Cardinality(Storing(dom)') <= Cardinality(Storing(dom)) /\ Cardinality(Storing(dom)') \in Nat
  BY <1>2, CountsFinite, FS_Subset, FS_CardinalityType
<1> QED BY <1>2, <1>3, CountsFinite

LEMMA DuplicatesStep ==
  ASSUME IntakeInv, [Next]_vars
  PROVE  DuplicatesBounded'
<1>1. CASE UNCHANGED <<business, run, lags>>
  BY <1>1 DEF IntakeInv, DuplicatesBounded, Rows, Storing
<1>2. ASSUME NEW d \in Runs, DiscoverStep(d) PROVE DuplicatesBounded'
  <2>1. UNCHANGED lags
    BY <1>2 DEF DiscoverStep, CheckDomain, PutBusiness, PublishFound, FailPersist
  <2>2. ASSUME ~lags, NEW dom \in Domains
        PROVE  Cardinality(Rows(dom)') + Cardinality(Storing(dom)') <= Cardinality(Runs)
    <3>1. Cardinality(Rows(dom)) + Cardinality(Storing(dom)) <= Cardinality(Runs)
      BY <2>2 DEF IntakeInv, DuplicatesBounded
    <3> QED BY <1>2, <2>2, <3>1, CheckBounded, PutBounded, DoneBounded DEF DiscoverStep
  <2> QED BY <2>1, <2>2 DEF DuplicatesBounded
<1>3. ASSUME NEW c \in Containers, AuditStep(c) PROVE UNCHANGED <<business, run, lags>>
  BY <1>3 DEF AuditStep, StartAudit, Fetching, intakeVars, PutBlob, FailBlob, PutAudit,
              PublishCompleted, FailAudit, TimeOut, discovered
<1>4. ASSUME NEW i \in Ids, Index(i) PROVE UNCHANGED <<business, run, lags>>
  BY <1>4 DEF Index
<1>5. (Tick /\ UNCHANGED intakeVars) \/ UNCHANGED vars => UNCHANGED <<business, run, lags>>
  BY DEF intakeVars, vars
<1> QED BY <1>1, <1>2, <1>3, <1>4, <1>5 DEF Next, DiscoverStep, AuditStep

-----------------------------------------------------------------------------
(* The specification                                                       *)

\* A step of an audit is a step of its fetch, its beginning or its end.
LEMMA AuditFetches ==
  ASSUME IntakeInv, NEW c \in Containers, AuditStep(c)
  PROVE  FetchInv'
<1>0. FetchInv
  BY DEF IntakeInv
<1>1. CASE UNCHANGED fetchVars
  BY <1>0, <1>1 DEF fetchVars, FetchInv, FetchTypeOK, Kept, Progress, BucketAhead
<1>2. CASE FetchStep(c)
  BY <1>0, <1>2, FetchStepKeeps
<1>3. CASE Call(c) \/ EndAudit(c)
  BY <1>0, <1>3, CallKeeps
<1> QED BY <1>1, <1>2, <1>3
        DEF AuditStep, StartAudit, Fetching, PutBlob, FailBlob, PutAudit,
            PublishCompleted, FailAudit, TimeOut

LEMMA StepIntake == IntakeInv /\ [Next]_vars => IntakeInv'
<1> SUFFICES ASSUME IntakeInv, [Next]_vars PROVE IntakeInv'
  OBVIOUS
<1>0. /\ FetchInv /\ IntakeTypeOK /\ IdleIsFree /\ StoredFirst /\ SnapshotFirst
      /\ AuditsBacked /\ Indexed
  BY DEF IntakeInv
<1>1. DuplicatesBounded'
  BY DuplicatesStep
<1>2. CASE (\E d \in Runs : DiscoverStep(d)) \/ (\E i \in Ids : Index(i))
  <2>1. IdleIsFree' /\ UNCHANGED fetchVars
    BY <1>0, <1>2, DiscoverIdle
  <2>2. FetchInv'
    BY <1>0, <2>1 DEF fetchVars, FetchInv, FetchTypeOK, Kept, Progress, BucketAhead
  <2>3. IntakeTypeOK'
    BY <1>0, <1>2, DiscoverTyped
  <2>4. StoredFirst' /\ SnapshotFirst' /\ AuditsBacked' /\ Indexed'
    BY <1>2, DiscoverStored
  <2> QED BY <1>1, <2>1, <2>2, <2>3, <2>4 DEF IntakeInv
<1>3. ASSUME NEW c \in Containers, AuditStep(c) PROVE IntakeInv'
  <2>1. FetchInv'
    BY <1>3, AuditFetches
  <2>2. IntakeTypeOK'
    BY <1>0, <1>3, AuditTyped
  <2>3. StoredFirst' /\ SnapshotFirst' /\ AuditsBacked' /\ Indexed' /\ IdleIsFree'
    BY <1>3, AuditStored
  <2> QED BY <1>1, <2>1, <2>2, <2>3 DEF IntakeInv
<1>4. CASE Tick /\ UNCHANGED intakeVars
  <2>1. FetchInv'
    BY <1>0, <1>4, TickKeeps
  <2>2. UNCHANGED fetch
    BY <1>4 DEF Tick
  <2> QED BY <1>0, <1>1, <1>4, <2>1, <2>2
          DEF IntakeInv, intakeVars, IntakeTypeOK, IdleIsFree, StoredFirst, SnapshotFirst,
              AuditsBacked, Indexed
<1>5. CASE UNCHANGED vars
  <2>1. UNCHANGED <<fetchVars, intakeVars>>
    BY <1>5 DEF vars
  <2>2. FetchInv'
    BY <1>0, <2>1 DEF fetchVars, FetchInv, FetchTypeOK, Kept, Progress, BucketAhead
  <2> QED BY <1>0, <1>1, <2>1, <2>2
          DEF fetchVars, IntakeInv, intakeVars, IntakeTypeOK, IdleIsFree, StoredFirst,
              SnapshotFirst, AuditsBacked, Indexed
<1> QED BY <1>2, <1>3, <1>4, <1>5 DEF Next, DiscoverStep, AuditStep

\* Only a gate that opens takes a fetch from its wait to its request.
LEMMA SlotStep ==
  ASSUME IntakeInv, [Next]_vars, NEW c \in Containers,
         fetch[c].pc = "slot", fetch'[c].pc = "request"
  PROVE  Acquire(c)
<1>0. fetch \in [Containers -> FetchRow]
  BY DEF IntakeInv, FetchInv, FetchTypeOK, FetchRow
<1>1. fetch' # fetch
  OBVIOUS
<1>2. ASSUME NEW x \in Containers, FetchStep(x) PROVE Acquire(c)
  <2>1. x = c
    BY <1>0, <1>2 DEF FetchStep, RecallRobots, LoadRobots, MissRobots, FetchRobots, StoreRobots,
                      Decide, Goto, Acquire, Answer, Retry, Fail
  <2>2. ~(RecallRobots(c) \/ LoadRobots(c) \/ MissRobots(c) \/ FetchRobots(c)
          \/ StoreRobots(c) \/ Answer(c) \/ Retry(c))
    BY DEF RecallRobots, LoadRobots, MissRobots, FetchRobots, StoreRobots, Answer, Retry
  <2>3. ~Fail(c)
    BY <1>0 DEF Fail, Goto, FetchRow
  <2> QED BY <1>2, <2>1, <2>2, <2>3 DEF FetchStep
<1>3. ASSUME NEW x \in Containers, Call(x) \/ EndAudit(x) PROVE FALSE
  <2>1. CASE Call(x)
    BY <1>0, <2>1 DEF Call, NoFetch
  <2>2. CASE EndAudit(x)
    BY <1>0, <2>2 DEF EndAudit, NoFetch
  <2> QED BY <1>3, <2>1, <2>2
<1>4. \/ UNCHANGED fetch
      \/ \E x \in Containers : FetchStep(x) \/ Call(x) \/ EndAudit(x)
  <2>1. CASE \E x \in Containers : AuditStep(x)
    BY <2>1 DEF AuditStep, StartAudit, Fetching, PutBlob, FailBlob, PutAudit,
                PublishCompleted, FailAudit, TimeOut, fetchVars
  <2>2. CASE ~ \E x \in Containers : AuditStep(x)
    <3>1. UNCHANGED fetchVars \/ Tick
      BY <2>2 DEF Next, AuditStep, vars, CheckDomain, PutBusiness, PublishFound, FailPersist, Index
    <3> QED BY <3>1 DEF fetchVars, Tick
  <2> QED BY <2>1, <2>2
<1> QED BY <1>1, <1>2, <1>3, <1>4

THEOREM IntakeInvariant == Spec => []IntakeInv
BY InitIntake, StepIntake, PTL DEF Spec

\* Every variable of discover, audit and their fetches keeps its type.
THEOREM IntakeTypeCorrect == Spec => []TypeOK
<1>1. IntakeInv => TypeOK
  BY DEF IntakeInv, FetchInv, IntakeTypeOK, IdleIsFree, TypeOK, RunRow, AuditState
<1> QED BY <1>1, IntakeInvariant, PTL

\* A request goes out under a permission of its host no older than the cache's
\* life, one invocation on each side and the skew of two clocks.
THEOREM PermissionTheorem == Spec => []PermissionFresh
<1>1. IntakeInv => PermissionFresh
  BY PermissionFollows DEF IntakeInv
<1> QED BY <1>1, IntakeInvariant, PTL

\* The slots of a host are Floor apart, less the skew of the clocks and less the
\* part of a second that is not stored, whatever the fleet does.
THEOREM SlotsApartTheorem == Spec => SlotsApart
<1>1. ASSUME IntakeInv, [Next]_vars
      PROVE  [\A c \in Containers :
                fetch[c].pc = "slot" /\ fetch'[c].pc = "request" /\ slotAt # None
                  => clock - slotAt > Floor - MaxSkew - Second]_fetchVars
  <2>1. ASSUME NEW c \in Containers, fetch[c].pc = "slot", fetch'[c].pc = "request", slotAt # None
        PROVE  clock - slotAt > Floor - MaxSkew - Second
    <3>1. Acquire(c)
      BY <1>1, <2>1, SlotStep
    <3> QED BY <1>1, <2>1, <3>1, SlotApart DEF IntakeInv
  <2> QED BY <2>1
<1> QED BY <1>1, IntakeInvariant, PTL DEF Spec, SlotsApart

\* A completed audit has its row, a row its business and the snapshot it names.
THEOREM AuditsBackedTheorem == Spec => []AuditsBacked
<1>1. IntakeInv => AuditsBacked
  BY DEF IntakeInv
<1> QED BY <1>1, IntakeInvariant, PTL

\* An index that does not trail leaves a domain no more rows than there are
\* discover runs that overlap.
THEOREM DuplicatesTheorem == Spec => []DuplicatesBounded
<1>1. IntakeInv => DuplicatesBounded
  BY DEF IntakeInv
<1> QED BY <1>1, IntakeInvariant, PTL

\* With one discover run at a time and an index that does not trail, a domain
\* has one business, as discover says: duplicates come of overlap only.
THEOREM OneRunTheorem ==
  ASSUME Cardinality(Runs) = 1
  PROVE  Spec => [](~lags => OneRowPerDomain)
<1>1. IntakeInv => (~lags => OneRowPerDomain)
  <2> SUFFICES ASSUME IntakeInv, ~lags, NEW dom \in Domains PROVE Cardinality(Rows(dom)) <= 1
    BY DEF OneRowPerDomain
  <2>1. Cardinality(Rows(dom)) + Cardinality(Storing(dom)) <= 1
    BY DEF IntakeInv, DuplicatesBounded
  <2> QED BY <2>1, CountsFinite
<1> QED BY <1>1, IntakeInvariant, PTL
=============================================================================
