------------------------------ MODULE Settings ------------------------------
(***************************************************************************)
(* The PipelineSettings row: the master switch and the stage flags with    *)
(* their pause reasons, the operator's concurrent PATCH requests           *)
(* (api-settings), the daily cost-rollover, and the 60-second cache of the *)
(* row that every warm container keeps (pkg/killswitch).                   *)
(*                                                                         *)
(* PATCH and rollover read the row, compute, and put the whole row back.   *)
(* Caps, thresholds and budgets are fields of the same row and travel with *)
(* it; no property tells them apart from the flags.  Nothing under src/    *)
(* pauses a stage for its budget yet: Pause is what settings.go says of    *)
(* pkg/cost.                                                               *)
(***************************************************************************)
EXTENDS Integers

CONSTANTS
  Stages,      \* the stages with a flag of their own
  Pipeline,    \* the master switch
  Apis,        \* api-settings containers
  Consumers,   \* containers of the pipeline's consumers
  TTL,         \* cacheTTL, in ticks
  CallTime,    \* bound: ticks between a DynamoDB access and what follows it
  MaxTime,     \* bound: the clock
  MaxPatches,  \* bound: PATCH requests
  MaxPauses    \* bound: budget pauses

ASSUME SettingsAssumption ==
  /\ Pipeline \notin Stages
  /\ TTL \in Nat \ {0}
  /\ CallTime \in Nat
  /\ MaxTime \in Nat
  /\ MaxPatches \in Nat
  /\ MaxPauses \in Nat

VARIABLES
  row,      \* the settings row
  req,      \* req[a]: a PATCH in progress
  roll,     \* the rollover in progress
  view,     \* view[c]: the container's cached view of the flags
  fetched,  \* fetched[c]: what Get has read and not cached yet
  now,      \* the clock
  patches,  \* PATCH requests so far
  pauses,   \* budget pauses so far
  seen,     \* history: the last time the row allowed the stage
  manual    \* history: stages whose flag an operator was the last to turn off

settingsVars == <<row, req, roll, view, fetched, now, patches, pauses, seen, manual>>

Keys == Stages \cup {Pipeline}
Containers == Apis \cup Consumers

\* on: the flags that are true; budget: stages whose pause reason is "budget".
Row == [on : SUBSET Keys, budget : SUBSET Stages]
Times == 0..MaxTime

NoCache == [on |-> {}, at |-> -TTL]
NoFetch == [pc |-> "idle", on |-> {}, since |-> 0]
NoPatch == [pc |-> "idle", copy |-> [on |-> {}, budget |-> {}],
            key |-> Pipeline, value |-> FALSE, since |-> 0]
NoRoll  == [pc |-> "idle", copy |-> [on |-> {}, budget |-> {}]]

SettingsTypeOK ==
  /\ row \in Row
  /\ req \in [Apis -> [pc : {"idle", "put", "cache"}, copy : Row, key : Keys,
                       value : BOOLEAN, since : Times]]
  /\ roll \in [pc : {"idle", "put"}, copy : Row]
  /\ view \in [Containers -> [on : SUBSET Keys, at : Times \cup {-TTL}]]
  /\ fetched \in [Containers -> [pc : {"idle", "store"}, on : SUBSET Keys, since : Times]]
  /\ now \in Times
  /\ patches \in 0..MaxPatches
  /\ pauses \in 0..MaxPauses
  /\ seen \in [Stages -> Times]
  /\ manual \subseteq Stages

SettingsInit ==
  /\ row = [on |-> Keys, budget |-> {}]
  /\ req = [a \in Apis |-> NoPatch]
  /\ roll = NoRoll
  /\ view = [c \in Containers |-> NoCache]
  /\ fetched = [c \in Containers |-> NoFetch]
  /\ now = 0
  /\ patches = 0
  /\ pauses = 0
  /\ seen = [s \in Stages |-> 0]
  /\ manual = {}

\* killswitch.Allowed for the flags that are on.
Allows(on, s) == {Pipeline, s} \subseteq on

\* PutItem of the row.
Put(new) ==
  /\ row' = new
  /\ seen' = [s \in Stages |->
                IF Allows(row.on, s) \/ Allows(new.on, s) THEN now ELSE seen[s]]

-----------------------------------------------------------------------------
(* killswitch.Get: a fresh enough view is returned as it is; otherwise the *)
(* row is read, and cached from the moment the answer is there.            *)

\* Variant: off by one tick.
UsableTooLong(c) == now - view[c].at <= TTL

Usable(c) == now - view[c].at < TTL

Fetch(c) ==
  /\ ~Usable(c)
  /\ fetched[c].pc = "idle"
  /\ c \in Apis => req[c].pc = "idle"  \* one request at a time
  /\ fetched' = [fetched EXCEPT ![c] = [pc |-> "store", on |-> row.on, since |-> now]]
  /\ UNCHANGED <<row, req, roll, view, now, patches, pauses, seen, manual>>

\* Variant: the view is cached with the time it expires at.
StoreExpiry(c) ==
  /\ fetched[c].pc = "store"
  /\ view' = [view EXCEPT ![c] = [on |-> fetched[c].on, at |-> now + TTL]]
  /\ fetched' = [fetched EXCEPT ![c] = NoFetch]
  /\ UNCHANGED <<row, req, roll, now, patches, pauses, seen, manual>>

Store(c) ==
  /\ fetched[c].pc = "store"
  /\ view' = [view EXCEPT ![c] = [on |-> fetched[c].on, at |-> now]]
  /\ fetched' = [fetched EXCEPT ![c] = NoFetch]
  /\ UNCHANGED <<row, req, roll, now, patches, pauses, seen, manual>>

-----------------------------------------------------------------------------
(* api-settings handlePatch                                                *)

\* readFresh, past the cache.
ReadFresh(a) ==
  /\ req[a].pc = "idle"
  /\ fetched[a].pc = "idle"
  /\ patches < MaxPatches
  /\ patches' = patches + 1
  /\ \E k \in Keys, v \in BOOLEAN :
       req' = [req EXCEPT ![a] =
                 [pc |-> "put", copy |-> row, key |-> k, value |-> v, since |-> now]]
  /\ UNCHANGED <<row, roll, view, fetched, now, pauses, seen, manual>>

\* applyPatch: one flag of the copy; the pause reasons cannot be patched.
Merged(a) ==
  [req[a].copy EXCEPT !.on = IF req[a].value THEN @ \cup {req[a].key}
                                             ELSE @ \ {req[a].key}]

WriteRow(a) ==
  /\ req[a].pc = "put"
  /\ Put(Merged(a))
  /\ manual' = IF req[a].value THEN manual \ {req[a].key}
                               ELSE manual \cup ({req[a].key} \cap Stages)
  /\ req' = [req EXCEPT ![a] =
               [@ EXCEPT !.pc = "cache", !.copy = Merged(a), !.since = now]]
  /\ UNCHANGED <<roll, view, fetched, now, patches, pauses>>

\* SetSettings with what was written.
SetSettings(a) ==
  /\ req[a].pc = "cache"
  /\ view' = [view EXCEPT ![a] = [on |-> req[a].copy.on, at |-> now]]
  /\ req' = [req EXCEPT ![a] = NoPatch]
  /\ UNCHANGED <<row, roll, fetched, now, patches, pauses, seen, manual>>

\* The put fails: 500, and the cache stays as it was.
FailPatch(a) ==
  /\ req[a].pc = "put"
  /\ req' = [req EXCEPT ![a] = NoPatch]
  /\ UNCHANGED <<row, roll, view, fetched, now, patches, pauses, seen, manual>>

-----------------------------------------------------------------------------
(* cost-rollover                                                           *)

\* Stages off with reason "budget".
Due(r) == r.budget \ r.on

RollRead ==
  /\ roll.pc = "idle"
  /\ Due(row) # {}
  /\ roll' = [pc |-> "put", copy |-> row]
  /\ UNCHANGED <<row, req, view, fetched, now, patches, pauses, seen, manual>>

\* Variant: the row is put back as it was read.
RollWriteUnchanged ==
  /\ roll.pc = "put"
  /\ Put(roll.copy)
  /\ roll' = NoRoll
  /\ UNCHANGED <<req, view, fetched, now, patches, pauses, manual>>

RollWrite ==
  /\ roll.pc = "put"
  /\ LET copy == roll.copy IN
       Put([on |-> copy.on \cup Due(copy), budget |-> copy.budget \ Due(copy)])
  /\ roll' = NoRoll
  /\ UNCHANGED <<req, view, fetched, now, patches, pauses, manual>>

\* The put fails; the next day's run reads anew.
FailRoll ==
  /\ roll.pc = "put"
  /\ roll' = NoRoll
  /\ UNCHANGED <<row, req, view, fetched, now, patches, pauses, seen, manual>>

-----------------------------------------------------------------------------
\* pkg/cost pauses a stage that has spent its daily budget.
Pause(s) ==
  /\ s \in row.on
  /\ pauses < MaxPauses
  /\ pauses' = pauses + 1
  /\ Put([on |-> row.on \ {s}, budget |-> row.budget \cup {s}])
  /\ manual' = manual \ {s}
  /\ UNCHANGED <<req, roll, view, fetched, now, patches>>

\* A DynamoDB answer and what is done with it lie at most CallTime apart.
Tick ==
  /\ now < MaxTime
  /\ \A c \in Containers : fetched[c].pc = "store" => now < fetched[c].since + CallTime
  /\ \A a \in Apis : req[a].pc = "cache" => now < req[a].since + CallTime
  /\ now' = now + 1
  /\ seen' = [s \in Stages |-> IF Allows(row.on, s) THEN now + 1 ELSE seen[s]]
  /\ UNCHANGED <<row, req, roll, view, fetched, patches, pauses, manual>>

SettingsNext ==
  \/ \E c \in Containers : Fetch(c) \/ Store(c)
  \/ \E a \in Apis : ReadFresh(a) \/ WriteRow(a) \/ SetSettings(a) \/ FailPatch(a)
  \/ RollRead \/ RollWrite \/ FailRoll
  \/ \E s \in Stages : Pause(s)
  \/ Tick

SettingsSpec == SettingsInit /\ [][SettingsNext]_settingsVars

\* The scheduler starts the rollover every day, and not every put of it fails.
SettingsFairness == WF_settingsVars(RollRead) /\ SF_settingsVars(RollWrite)

SettingsFairSpec == SettingsSpec /\ SettingsFairness

-----------------------------------------------------------------------------
(* Properties.                                                             *)

(* The kill switch kills: a container that would still let a stage run from
   its cache does so at most TTL, and one call, after the row last allowed
   it, whatever PATCHes, rollovers and refreshes overlap. *)
KillSwitchLatency ==
  \A c \in Containers, s \in Stages :
    (Usable(c) /\ Allows(view[c].on, s)) => now < seen[s] + TTL + CallTime

(* A budget pause does not outlive its day: the rollover lifts it even though
   operators' puts may bring it back. *)
BudgetPauseEnds ==
  \A s \in Stages : s \in Due(row) ~> s \notin Due(row)

(* api-settings/main.go: a PATCH "updates only that one" field "and leaves the
   others alone", and reads afresh because "otherwise concurrent edits could
   lose updates". *)
PatchLeavesOthersAlone ==
  [][\A a \in Apis : WriteRow(a) =>
       \A k \in Keys \ {req[a].key} : k \in row'.on <=> k \in row.on]_settingsVars

(* cost-rollover/main.go: stages an operator disabled via /settings "carry no
   pause reason; the rollover ignores them". *)
RolloverSparesOperator ==
  [][RollWrite => \A s \in manual : s \in row'.on => s \in row.on]_settingsVars
=============================================================================
