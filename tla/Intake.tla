------------------------------- MODULE Intake -------------------------------
(***************************************************************************)
(* The head of the pipeline: discover stores the businesses its providers  *)
(* find and announces them, audit fetches each one's home page politely,   *)
(* scores it, stores the audit and announces it.  Runs of discover overlap *)
(* and the index they look for duplicates in trails the table; the audits  *)
(* of one host share its throttle (module PoliteFetch).                    *)
(***************************************************************************)
EXTENDS PoliteFetch, FiniteSets

CONSTANTS
  Runs,        \* discover invocations that may overlap
  Domains,     \* domains as stored; two spellings of one site are two domains
  Ids,         \* business ids
  MaxFaults    \* bound: failed writes and publishes

ASSUME IntakeAssumption ==
  /\ IsFiniteSet(Runs) /\ IsFiniteSet(Ids)
  /\ None \notin Domains \cup Ids
  /\ MaxFaults \in Nat

VARIABLES
  business,  \* business[i]: domain of the Business row, or None
  index,     \* ids gsi3 shows
  lags,      \* TRUE: gsi3 may trail the table
  run,       \* run[d]: a result being persisted by a discover invocation
  found,     \* business.found events for the audit
  audit,     \* audit[c]: the audit in a container
  blobs,     \* ids with a home page snapshot in S3
  audits,    \* Audit rows: [id, snapshot]
  completed, \* ids of website.audit.completed
  faults

intakeVars == <<business, index, lags, run, found, audit, blobs, audits, completed, faults>>
vars == <<fetchVars, intakeVars>>

AuditRow == [id : Ids, snapshot : BOOLEAN]
NoRun == [pc |-> "next", domain |-> None, id |-> None]
NoAudit == [pc |-> "idle", id |-> None, snapshot |-> FALSE]

TypeOK ==
  /\ FetchTypeOK
  /\ business \in [Ids -> Domains \cup {None}]
  /\ index \subseteq Ids
  /\ lags \in BOOLEAN
  /\ run \in [Runs -> [pc : {"next", "put", "publish"},
                       domain : Domains \cup {None}, id : Ids \cup {None}]]
  /\ found \subseteq Ids
  /\ audit \in [Containers -> [pc : {"idle", "fetch", "put", "publish"},
                               id : Ids \cup {None}, snapshot : BOOLEAN]]
  /\ \A c \in Containers : audit[c].pc = "idle" => audit[c] = NoAudit /\ fetch[c] = NoFetch
  /\ blobs \subseteq Ids
  /\ audits \subseteq AuditRow
  /\ completed \subseteq Ids
  /\ faults \in 0..MaxFaults

Init ==
  /\ FetchInit
  /\ business = [i \in Ids |-> None]
  /\ index = {}
  /\ lags \in BOOLEAN
  /\ run = [d \in Runs |-> NoRun]
  /\ found = {}
  /\ audit = [c \in Containers |-> NoAudit]
  /\ blobs = {} /\ audits = {} /\ completed = {}
  /\ faults = 0

Fault == faults < MaxFaults /\ faults' = faults + 1

discovered == <<business, index, lags, run>>
audited == <<audit, blobs, audits, completed>>

-----------------------------------------------------------------------------
(* discover                                                                *)

\* run and runOne hand the results of every enabled profile and provider to
\* persistOne, one after the other.  A provider that fails or is over its
\* budget hands none; the next result may be any domain, or there is none.

\* domainExists
Shown(dom) == \E i \in index : business[i] = dom

\* Variant: nothing is looked up.
CheckNothing(d) ==
  /\ run[d].pc = "next"
  /\ \E dom \in Domains : run' = [run EXCEPT ![d] = [pc |-> "put", domain |-> dom, id |-> None]]
  /\ UNCHANGED <<fetchVars, business, index, lags, found, audited, faults>>

\* persistOne: the next result goes on when gsi3 shows no row of its domain.
CheckDomain(d) ==
  /\ run[d].pc = "next"
  /\ \E dom \in Domains :
       /\ ~Shown(dom)
       /\ run' = [run EXCEPT ![d] = [pc |-> "put", domain |-> dom, id |-> None]]
  /\ UNCHANGED <<fetchVars, business, index, lags, found, audited, faults>>

\* writeBusiness: attribute_not_exists holds for every new random id, so it
\* does not see another row of the domain.
PutBusiness(d) ==
  /\ run[d].pc = "put"
  /\ \E i \in Ids :
       /\ business[i] = None
       /\ business' = [business EXCEPT ![i] = run[d].domain]
       /\ index' = IF lags THEN index ELSE index \cup {i}
       /\ run' = [run EXCEPT ![d].pc = "publish", ![d].id = i]
  /\ UNCHANGED <<fetchVars, lags, found, audited, faults>>

PublishFound(d) ==
  /\ run[d].pc = "publish"
  /\ found' = found \cup {run[d].id}
  /\ run' = [run EXCEPT ![d] = NoRun]
  /\ UNCHANGED <<fetchVars, business, index, lags, audited, faults>>

\* A step of persistOne that fails is logged and the run goes on.  A row whose
\* publish failed stays "new" and is never audited.
FailPersist(d) ==
  /\ run[d].pc \in {"put", "publish"}
  /\ Fault
  /\ run' = [run EXCEPT ![d] = NoRun]
  /\ UNCHANGED <<fetchVars, business, index, lags, found, audited>>

Index(i) ==
  /\ business[i] # None /\ i \notin index
  /\ index' = index \cup {i}
  /\ UNCHANGED <<fetchVars, business, lags, run, found, audited, faults>>

-----------------------------------------------------------------------------
(* audit.  The marker keeps every business.found to one attempt.           *)

StartAudit(c) ==
  /\ audit[c].pc = "idle"
  /\ Call(c)
  /\ \E i \in found :
       /\ found' = found \ {i}
       /\ audit' = [audit EXCEPT ![c] = [NoAudit EXCEPT !.pc = "fetch", !.id = i]]
  /\ UNCHANGED <<discovered, blobs, audits, completed, faults>>

Fetching(c) ==
  /\ audit[c].pc = "fetch"
  /\ FetchStep(c)
  /\ UNCHANGED <<intakeVars>>

\* The page has been fetched and scored; a model is asked only above the threshold,
\* and its answer (module ModelCalls) changes nothing here unless it fails.
Scored(c) == audit[c].pc = "fetch" /\ fetch[c].pc = "done"

\* Variant: the row keeps the key of a snapshot that was not stored.
FailBlobKeepingKey(c) ==
  /\ Scored(c)
  /\ Fault
  /\ audit' = [audit EXCEPT ![c].pc = "put", ![c].snapshot = TRUE]
  /\ UNCHANGED <<fetchVars, discovered, found, blobs, audits, completed>>

\* PutHomepageBlob; a failure empties the key and does not end the audit.
PutBlob(c) ==
  /\ Scored(c)
  /\ blobs' = blobs \cup {audit[c].id}
  /\ audit' = [audit EXCEPT ![c].pc = "put", ![c].snapshot = TRUE]
  /\ UNCHANGED <<fetchVars, discovered, found, audits, completed, faults>>

FailBlob(c) ==
  /\ Scored(c)
  /\ Fault
  /\ audit' = [audit EXCEPT ![c].pc = "put"]
  /\ UNCHANGED <<fetchVars, discovered, found, blobs, audits, completed>>

PutAudit(c) ==
  /\ audit[c].pc = "put"
  /\ audits' = audits \cup {[id |-> audit[c].id, snapshot |-> audit[c].snapshot]}
  /\ audit' = [audit EXCEPT ![c].pc = "publish"]
  /\ UNCHANGED <<fetchVars, discovered, found, blobs, completed, faults>>

\* The audit ends and the container is free.
EndAudit(c) ==
  /\ audit' = [audit EXCEPT ![c] = NoAudit]
  /\ fetch' = [fetch EXCEPT ![c] = NoFetch]
  /\ UNCHANGED <<clock, robots, older, memo, bucket, slotAt>>

PublishCompleted(c) ==
  /\ audit[c].pc = "publish"
  /\ completed' = completed \cup {audit[c].id}
  /\ EndAudit(c)
  /\ UNCHANGED <<discovered, found, blobs, audits, faults>>

\* The page is out of reach or disallowed, the model, the put or the publish
\* fails: the record is reported failed, and its retry finds the marker.
FailAudit(c) ==
  /\ \/ audit[c].pc = "fetch" /\ fetch[c].pc = "failed" /\ UNCHANGED faults
     \/ (Scored(c) \/ audit[c].pc \in {"put", "publish"}) /\ Fault
  /\ EndAudit(c)
  /\ UNCHANGED <<discovered, found, blobs, audits, completed>>

\* Lambda's timeout, whatever the audit is waiting for.
TimeOut(c) ==
  /\ audit[c].pc # "idle"
  /\ clock >= fetch[c].since + Timeout
  /\ EndAudit(c)
  /\ UNCHANGED <<discovered, found, blobs, audits, completed, faults>>

Next ==
  \/ \E d \in Runs :
       CheckDomain(d) \/ PutBusiness(d) \/ PublishFound(d) \/ FailPersist(d)
  \/ \E i \in Ids : Index(i)
  \/ \E c \in Containers :
       \/ StartAudit(c) \/ Fetching(c) \/ PutBlob(c)
       \/ FailBlob(c) \/ PutAudit(c) \/ PublishCompleted(c) \/ FailAudit(c) \/ TimeOut(c)
  \/ Tick /\ UNCHANGED intakeVars

Spec == Init /\ [][Next]_vars

-----------------------------------------------------------------------------
(* Properties                                                              *)

Rows(dom) == {i \in Ids : business[i] = dom}

Storing(dom) == {d \in Runs : run[d].pc = "put" /\ run[d].domain = dom}

\* With an index that does not trail, the rows of a domain, those about to be
\* stored included, are no more than the discover runs that overlap
\* (persistOne: the check and the put are two steps).
DuplicatesBounded ==
  ~lags => \A dom \in Domains :
    Cardinality(Rows(dom)) + Cardinality(Storing(dom)) <= Cardinality(Runs)

\* What is announced can be read: a completed audit has its row, a row that
\* names a snapshot has it, and both are of a stored business (runOne).
AuditsBacked ==
  /\ \A i \in completed : \E row \in audits : row.id = i
  /\ \A row \in audits : business[row.id] # None /\ (row.snapshot => row.id \in blobs)

\* discover: "A business surfaced by multiple providers in one run gets ONE
\* business.found".
OneRowPerDomain == \A dom \in Domains : Cardinality(Rows(dom)) <= 1
=============================================================================
