----------------------------- MODULE ModelCalls -----------------------------
(***************************************************************************)
(* Paid calls under a daily budget: pkg/cost's ledger (Assert, Record,     *)
(* WithCostCap), pkg/bedrock's InvokeStructured with its answer cache, and *)
(* prompts.Invoke above it.  Containers of any stage call at the same      *)
(* time; every store access and the paid call itself is a step, and        *)
(* midnight and a cached answer's expiry may fall between any two.         *)
(*                                                                         *)
(* Money is counted in units.  The ledger row is the one of today: at      *)
(* midnight every stage starts a new row, and the old ones are not read.   *)
(***************************************************************************)
EXTENDS Integers, FiniteSets

CONSTANTS
  Containers,  \* Lambda containers that make paid calls
  Stages,      \* ledger keys: the prompt's Stage, "places", "preview", ...
  Keys,        \* answer-cache keys (prompt and inputs)
  NoKey,       \* a call without a cache: WithCostCap's own callers
  KeysOf,      \* KeysOf[s]: keys a call of stage s may have
  Cap,         \* Cap[s]: the daily budget handed to the call; 0 disables it
  Estimate,    \* EstimateUSD
  MaxCost,     \* bound: the most one call can cost
  MaxCalls,    \* bound: calls begun
  MaxDays,     \* bound: midnights
  MaxExpiries, \* bound: expiries of each key
  MaxFaults    \* bound: failed or repeated store writes and crashes

ASSUME ModelCallsAssumption ==
  /\ IsFiniteSet(Containers)
  /\ NoKey \notin Keys
  /\ KeysOf \in [Stages -> SUBSET (Keys \cup {NoKey})]
  /\ Cap \in [Stages -> Nat]
  /\ Estimate \in Nat
  /\ MaxCost \in Nat
  /\ MaxCalls \in Nat
  /\ MaxDays \in Nat
  /\ MaxExpiries \in Nat
  /\ MaxFaults \in Nat

VARIABLES
  ledger,     \* ledger[s]: spentUsd of today's row
  replica,    \* replica[s]: what an eventually consistent read may return
  cache,      \* cache[k]: an answer for k is stored
  call,       \* call[c]: a paid call in progress
  calls, days, faults,
  lags,       \* TRUE: reads without ConsistentRead may return old values
  \* history, for the properties only
  bought,     \* bought[k]: answers for k that were paid and accepted
  expiries    \* expiries[k]: how often the stored answer for k expired

vars == <<ledger, replica, cache, call, calls, days, faults, lags,
          bought, expiries>>

Idle == [pc |-> "idle", stage |-> NoKey, key |-> NoKey, usd |-> 0]

TypeOK ==
  /\ ledger \in [Stages -> Nat]
  /\ replica \in [Stages -> Nat]
  /\ cache \in [Keys -> BOOLEAN]
  /\ call \in [Containers ->
                 [pc : {"lookup", "assert", "invoke", "record", "cache"},
                  stage : Stages, key : Keys \cup {NoKey}, usd : 0..MaxCost] \cup {Idle}]
  /\ calls \in 0..MaxCalls
  /\ days \in 0..MaxDays
  /\ faults \in 0..MaxFaults
  /\ lags \in BOOLEAN
  /\ bought \in [Keys -> Nat]
  /\ expiries \in [Keys -> 0..MaxExpiries]

Init ==
  /\ ledger = [s \in Stages |-> 0]
  /\ replica = ledger
  /\ cache = [k \in Keys |-> FALSE]
  /\ call = [c \in Containers |-> Idle]
  /\ calls = 0 /\ days = 0 /\ faults = 0
  /\ lags \in BOOLEAN
  /\ bought = [k \in Keys |-> 0]
  /\ expiries = bought

Finish(c) == call' = [call EXCEPT ![c] = Idle]

\* The call fails where its error says so; nothing it did is undone.
Fault(c) ==
  /\ faults < MaxFaults
  /\ faults' = faults + 1
  /\ Finish(c)

-----------------------------------------------------------------------------
(* prompts.Invoke with a cache key, or WithCostCap, which has no cache.    *)

Begin(c) ==
  /\ call[c] = Idle /\ calls < MaxCalls
  /\ calls' = calls + 1
  /\ \E s \in Stages : \E k \in KeysOf[s] :
       call' = [call EXCEPT ![c] =
                  [pc |-> IF k = NoKey THEN "assert" ELSE "lookup",
                   stage |-> s, key |-> k, usd |-> 0]]
  /\ UNCHANGED <<ledger, replica, cache, days, faults, lags, bought, expiries>>

\* getCached.  A lagging replica shows no item yet, or one that has expired; a
\* hit is validated again (PostValidate) and changes nothing.
Lookup(c) ==
  LET k == call[c].key IN
  /\ call[c].pc = "lookup"
  /\ \/ /\ ~cache[k] \/ lags
        /\ call' = [call EXCEPT ![c].pc = "assert"]
     \/ /\ cache[k] \/ (lags /\ expiries[k] > 0)
        /\ Finish(c)
  /\ UNCHANGED <<ledger, replica, cache, calls, days, faults, lags, bought, expiries>>

\* Variant: the estimate is left out of the comparison.
AffordableSoFar(s, spent) == Cap[s] = 0 \/ spent <= Cap[s]

\* cost.Assert's comparison, for the sum it has read.
Affordable(s, spent) == Cap[s] = 0 \/ spent + Estimate <= Cap[s]

\* cost.Get: today's row, without ConsistentRead.  Bound: a read is at most one
\* write behind.
Reads(s) == IF lags THEN {ledger[s], replica[s]} ELSE {ledger[s]}

\* cost.Assert: over the cap ends the call before anything is paid.
AssertCap(c) ==
  LET s == call[c].stage IN
  /\ call[c].pc = "assert"
  /\ \E spent \in Reads(s) :
       \/ /\ Affordable(s, spent)
          /\ call' = [call EXCEPT ![c].pc = "invoke"]
       \/ /\ ~Affordable(s, spent)
          /\ Finish(c)
  /\ UNCHANGED <<ledger, replica, cache, calls, days, faults, lags, bought, expiries>>

\* The provider answers and charges; ComputeUSD prices an unknown model at 0.
Invoke(c) ==
  LET k == call[c].key IN
  /\ call[c].pc = "invoke"
  /\ \E usd \in 0..MaxCost : call' = [call EXCEPT ![c].pc = "record", ![c].usd = usd]
  /\ bought' = IF k = NoKey THEN bought ELSE [bought EXCEPT ![k] = @ + 1]
  /\ UNCHANGED <<ledger, replica, cache, calls, days, faults, lags, expiries>>

\* The answer has no tool_use block, fails the JSON Schema, or what fn does
\* after the charge fails: the error comes before Record, and what the
\* provider charged never reaches the ledger.
Refuse(c) ==
  /\ call[c].pc = "invoke"
  /\ Finish(c)
  /\ UNCHANGED <<ledger, replica, cache, calls, days, faults, lags, bought, expiries>>

\* cost.Record: UpdateItem ADD on the row of the day it is by now.
Record(c) ==
  LET s == call[c].stage IN
  /\ call[c].pc = "record"
  /\ ledger' = [ledger EXCEPT ![s] = @ + call[c].usd]
  /\ replica' = [replica EXCEPT ![s] = IF lags THEN ledger[s] ELSE ledger'[s]]
  /\ IF call[c].key = NoKey
     THEN Finish(c)
     ELSE call' = [call EXCEPT ![c].pc = "cache"]
  /\ UNCHANGED <<cache, calls, days, faults, lags, bought, expiries>>

\* The SDK repeats an ADD whose answer was lost: "counter slop on retry".
RecordTwice(c) ==
  LET s == call[c].stage IN
  /\ call[c].pc = "record"
  /\ ledger' = [ledger EXCEPT ![s] = @ + 2 * call[c].usd]
  /\ replica' = [replica EXCEPT ![s] = IF lags THEN ledger[s] ELSE ledger'[s]]
  /\ Fault(c)
  /\ UNCHANGED <<cache, calls, days, lags, bought, expiries>>

\* Variant: the answer is stored under no key that a lookup uses.
CacheElsewhere(c) ==
  /\ call[c].pc = "cache"
  /\ Finish(c)
  /\ UNCHANGED <<ledger, replica, cache, calls, days, faults, lags, bought, expiries>>

\* setCached stores the answer; prompts.Invoke validates it after that, so a
\* rejected one stays stored.
Cache(c) ==
  /\ call[c].pc = "cache"
  /\ cache' = [cache EXCEPT ![call[c].key] = TRUE]
  /\ Finish(c)
  /\ UNCHANGED <<ledger, replica, calls, days, faults, lags, bought, expiries>>

\* A store or the provider fails, or the container is lost.  What was charged
\* and not yet recorded stays unrecorded.
Fail(c) ==
  /\ call[c] # Idle
  /\ Fault(c)
  /\ UNCHANGED <<ledger, replica, cache, calls, days, lags, bought, expiries>>

Replicate(s) ==
  /\ replica[s] # ledger[s]
  /\ replica' = [replica EXCEPT ![s] = ledger[s]]
  /\ UNCHANGED <<ledger, cache, call, calls, days, faults, lags, bought, expiries>>

\* The cached item's TTL runs out (CacheTTL) and the table drops it; whoever has
\* missed it before goes on, whoever comes now misses it again.
Expire(k) ==
  /\ cache[k] /\ expiries[k] < MaxExpiries
  /\ cache' = [cache EXCEPT ![k] = FALSE]
  /\ expiries' = [expiries EXCEPT ![k] = @ + 1]
  /\ UNCHANGED <<ledger, replica, call, calls, days, faults, lags, bought>>

\* PKForDate changes: every stage has a new row.
Midnight ==
  /\ days < MaxDays
  /\ days' = days + 1
  /\ ledger' = [s \in Stages |-> 0]
  /\ replica' = ledger'
  /\ UNCHANGED <<cache, call, calls, faults, lags, bought, expiries>>

Next ==
  \/ \E c \in Containers :
       \/ Begin(c) \/ Lookup(c) \/ AssertCap(c) \/ Invoke(c) \/ Refuse(c)
       \/ Record(c) \/ RecordTwice(c) \/ Cache(c) \/ Fail(c)
  \/ \E s \in Stages : Replicate(s)
  \/ \E k \in Keys : Expire(k)
  \/ Midnight

Spec == Init /\ [][Next]_vars

-----------------------------------------------------------------------------
(* Properties                                                              *)

\* Past Assert and not yet recorded.
Admitted(s) == {c \in Containers : call[c].stage = s /\ call[c].pc \in {"invoke", "record"}}

Headroom(s) == IF Cap[s] < Estimate THEN 0 ELSE Cap[s] - Estimate

\* What the ledger can reach: one call more than the cap for each container,
\* one for a lagging read and one for each repeated ADD.
Ceiling(s) ==
  Headroom(s) + MaxCost * (Cardinality(Containers) + (IF lags THEN 1 ELSE 0) + faults)

\* Today's ledger overshoots its cap by no more than the calls that were
\* admitted side by side: assert, call and record of one container may
\* interleave with those of every other (cost.go WithCostCap).
SpendBounded == \A s \in Stages : Cap[s] > 0 => ledger[s] <= Ceiling(s)

\* bedrock.go: with reads that are up to date, an answer is paid for and kept at
\* most once for each container that missed the cache together, again when the
\* stored one has expired, and once for each failure before it was stored.
\* Answers that were charged and refused (Refuse) are not kept and not counted.
KeyBoughtBounded ==
  ~lags => \A k \in Keys :
    bought[k] <= Cardinality(Containers) * (1 + expiries[k]) + faults

\* cost.go: "today's spend never exceeds the configured per-stage budget".
SpendWithinCap == \A s \in Stages : Cap[s] > 0 => ledger[s] <= Cap[s]

\* spec-generator: the cap "is shared across audit + spec": together the
\* stages that draw on one budget stay within it and what SpendBounded allows.
SharedBudget ==
  \A s, t \in Stages :
    (s # t /\ Cap[s] = Cap[t] /\ Cap[s] > 0) => ledger[s] + ledger[t] <= Ceiling(s)
=============================================================================
