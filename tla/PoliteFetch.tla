---------------------------- MODULE PoliteFetch ----------------------------
(***************************************************************************)
(* pkg/politefetch: one host, fetched by several Lambda containers.  Each  *)
(* asks robots.txt (its own memo, the row shared by the fleet, the host    *)
(* itself), then waits for a slot of the host's throttle bucket, then      *)
(* sends its request and retries it.  Containers read their own clocks.    *)
(*                                                                         *)
(* Time passes in ticks, of which a second has several: containers reckon  *)
(* in ticks, and what they store is in whole seconds (Unix()).  The 24     *)
(* hours of the robots cache and the 5 seconds of the throttle are scaled  *)
(* to a few ticks.  The ETag cache saves bytes and decides nothing, so a   *)
(* 304 is not told from a 200.                                             *)
(***************************************************************************)
EXTENDS Integers

CONSTANTS
  Containers,
  Second,      \* ticks of a second
  Skew,        \* Skew[c]: how far the clock of c is ahead
  MaxSkew,     \* bound of Skew
  Floor,       \* DefaultThrottle
  Rules,       \* what robots.txt may say: [ok : allowed, delay : Crawl-delay]
  TTL,         \* robotsTTL
  MaxRetries,  \* DefaultMaxRetries
  Timeout,     \* the Lambda function's timeout
  None,
  MaxClock     \* bound: ticks

ASSUME PoliteFetchAssumption ==
  /\ Second \in Nat \ {0}
  /\ MaxSkew \in Nat
  /\ Skew \in [Containers -> 0..MaxSkew]
  /\ Floor \in Nat /\ TTL \in Nat \ {0} /\ MaxRetries \in Nat /\ Timeout \in Nat
  /\ Rules \subseteq [ok : BOOLEAN, delay : Nat]
  /\ None \notin Nat
  /\ None \notin [rule : Rules, at : Nat, expires : Nat]
  /\ MaxClock \in Nat

VARIABLES
  clock,    \* real time
  robots,   \* the row ROBOTS#<host>, or None
  older,    \* the row before it, which a read may still return
  memo,     \* memo[c]: the robotsMemo of a container, or None
  bucket,   \* lastFetchAt of THROTTLE#<host> in seconds, or None
  fetch,    \* fetch[c]: a Client.Fetch in progress
  slotAt    \* history: when the last slot was given, in real time, or None

fetchVars == <<clock, robots, older, memo, bucket, fetch, slotAt>>

NoFetch == [pc |-> "idle", since |-> 0, at |-> 0, rule |-> None, attempt |-> 0]

\* at: when the rule in use was read from the host (history)
Record == [rule : Rules, at : 0..MaxClock, expires : Nat]

FetchTypeOK ==
  /\ clock \in 0..MaxClock
  /\ robots \in Record \cup {None}
  /\ older \in Record \cup {None}
  /\ memo \in [Containers -> Record \cup {None}]
  /\ bucket \in Nat \cup {None}
  /\ fetch \in [Containers ->
                  [pc : {"idle", "robots", "live", "store", "slot", "request", "done", "failed"},
                   since : 0..MaxClock, at : 0..MaxClock, rule : Rules \cup {None},
                   attempt : 0..MaxRetries]]
  /\ slotAt \in Nat \cup {None}

FetchInit ==
  /\ clock = 0
  /\ robots = None
  /\ older = None
  /\ memo = [c \in Containers |-> None]
  /\ bucket = None
  /\ fetch = [c \in Containers |-> NoFetch]
  /\ slotAt = None

Now(c) == clock + Skew[c]

\* time.Time.Unix: the whole seconds of a time.
Unix(t) == t \div Second

Goto(c, pc) == fetch' = [fetch EXCEPT ![c].pc = pc]

Call(c) ==
  /\ fetch[c].pc = "idle"
  /\ fetch' = [fetch EXCEPT ![c] = [NoFetch EXCEPT !.pc = "robots", !.since = clock]]
  /\ UNCHANGED <<clock, robots, older, memo, bucket, slotAt>>

-----------------------------------------------------------------------------
(* robots.go                                                               *)

Fresh(c, record) == record # None /\ Now(c) < record.expires

\* Fetch goes on with the rule of a record, or gives up with ErrDisallowed.
Decide(c, record) ==
  fetch' = [fetch EXCEPT ![c].pc = IF record.rule.ok THEN "slot" ELSE "failed",
                         ![c].rule = record.rule, ![c].at = record.at]

\* Variant: what a container remembers is good as long as the container.
RecallForGood(c) ==
  /\ fetch[c].pc = "robots"
  /\ memo[c] # None
  /\ Decide(c, memo[c])
  /\ UNCHANGED <<clock, robots, older, memo, bucket, slotAt>>

\* lookup: the memo of this container.
RecallRobots(c) ==
  /\ fetch[c].pc = "robots"
  /\ Fresh(c, memo[c])
  /\ Decide(c, memo[c])
  /\ UNCHANGED <<clock, robots, older, memo, bucket, slotAt>>

\* readDDB, without ConsistentRead.  Bound: a read is at most one write behind.
RowsRead == {robots, older}

\* loadOrFetch: the fleet's row keeps its own expiry in the memo.
LoadRobots(c) ==
  /\ fetch[c].pc = "robots" /\ ~Fresh(c, memo[c])
  /\ \E row \in RowsRead :
       /\ Fresh(c, row)
       /\ memo' = [memo EXCEPT ![c] = row]
       /\ Decide(c, row)
  /\ UNCHANGED <<clock, robots, older, bucket, slotAt>>

MissRobots(c) ==
  /\ fetch[c].pc = "robots" /\ ~Fresh(c, memo[c])
  /\ \E row \in RowsRead : ~Fresh(c, row)
  /\ Goto(c, "live")
  /\ UNCHANGED <<clock, robots, older, memo, bucket, slotAt>>

\* fetchLive: a 4xx allows everything, a 5xx nothing, and both are kept like
\* the text of a file.  This request takes no slot.
FetchRobots(c) ==
  /\ fetch[c].pc = "live"
  /\ \E rule \in Rules :
       fetch' = [fetch EXCEPT ![c].pc = "store", ![c].rule = rule, ![c].at = clock]
  /\ UNCHANGED <<clock, robots, older, memo, bucket, slotAt>>

\* writeDDB, unconditional: a slower container may store an older file.  The
\* row's expiry is cut to whole seconds, the memo's is not.
StoreRobots(c) ==
  LET expires == Now(c) + TTL
      read(e) == [rule |-> fetch[c].rule, at |-> fetch[c].at, expires |-> e]
  IN
  /\ fetch[c].pc = "store"
  /\ robots' = read(Second * Unix(expires))
  /\ older' = robots
  /\ memo' = [memo EXCEPT ![c] = read(expires)]
  /\ Decide(c, read(expires))
  /\ UNCHANGED <<clock, bucket, slotAt>>

-----------------------------------------------------------------------------
(* throttle.go and politefetch.go                                          *)

Interval(c) == IF fetch[c].rule.delay > Floor THEN fetch[c].rule.delay ELSE Floor

\* Variant: the gate leaves the interval out.
GateNow(c) == bucket # None => bucket <= Unix(Now(c))

\* The condition of tryAcquire, on the clock of the container and between whole
\* seconds.
Gate(c) == bucket # None => bucket <= Unix(Now(c) - Interval(c))

\* tryAcquire, one conditional UpdateItem; until it succeeds Wait sleeps.  A slot
\* is dated by the reading of the clock that the item carries.  The item's own
\* TTL, a week, is past every interval.
Acquire(c) ==
  /\ fetch[c].pc = "slot"
  /\ Gate(c)
  /\ bucket' = Unix(Now(c))
  /\ slotAt' = clock
  /\ Goto(c, "request")
  /\ UNCHANGED <<clock, robots, older, memo>>

\* fetchWithRetry: an attempt that succeeds,
Answer(c) ==
  /\ fetch[c].pc = "request"
  /\ Goto(c, "done")
  /\ UNCHANGED <<clock, robots, older, memo, bucket, slotAt>>

\* or gets a 429, a 5xx or no answer, and is repeated after its backoff,
Retry(c) ==
  /\ fetch[c].pc = "request" /\ fetch[c].attempt < MaxRetries
  /\ fetch' = [fetch EXCEPT ![c].attempt = @ + 1]
  /\ UNCHANGED <<clock, robots, older, memo, bucket, slotAt>>

\* or the last one fails; a store or robots.txt out of reach fails it too.
Fail(c) ==
  /\ \/ fetch[c].pc \in {"robots", "live", "store", "slot"}
     \/ fetch[c].pc = "request" /\ fetch[c].attempt = MaxRetries
  /\ Goto(c, "failed")
  /\ UNCHANGED <<clock, robots, older, memo, bucket, slotAt>>

FetchStep(c) ==
  \/ RecallRobots(c) \/ LoadRobots(c) \/ MissRobots(c) \/ FetchRobots(c) \/ StoreRobots(c)
  \/ Acquire(c) \/ Answer(c) \/ Retry(c) \/ Fail(c)

\* Lambda ends an invocation at its timeout, so no fetch outlives it.
Tick ==
  /\ clock < MaxClock
  /\ \A c \in Containers : fetch[c].pc # "idle" => clock < fetch[c].since + Timeout
  /\ clock' = clock + 1
  /\ UNCHANGED <<robots, older, memo, bucket, fetch, slotAt>>

-----------------------------------------------------------------------------
(* Properties                                                              *)

\* "no more than one fetch per host per floor": slots of the whole fleet are
\* Floor apart, less the difference of two clocks, and less the part of a second
\* that the stored time and the gate leave out (throttle.go tryAcquire).
SlotsApart ==
  [][\A c \in Containers :
       fetch[c].pc = "slot" /\ fetch'[c].pc = "request" /\ slotAt # None
         => clock - slotAt > Floor - MaxSkew - Second]_fetchVars

\* A request goes out under a permission the host gave no longer ago than the
\* cache keeps it, plus one invocation: the rule is looked up before the wait
\* for the slot, by one container's clock and stored by another's.
PermissionFresh ==
  \A c \in Containers :
    fetch[c].pc = "request" =>
      /\ fetch[c].rule.ok
      /\ clock < fetch[c].at + TTL + 2 * Timeout + MaxSkew

\* politefetch.go: "per-host floor between successive fetches"; a retry waits
\* for its backoff only.
EveryRequestHasASlot ==
  [][\A c \in Containers : fetch'[c].attempt > fetch[c].attempt => bucket' # bucket]_fetchVars
=============================================================================
