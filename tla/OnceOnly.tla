------------------------------ MODULE OnceOnly ------------------------------
(***************************************************************************)
(* What the idempotency wrapper promises, with no queue, no markers and no *)
(* Lambdas in it: while an event's window is open one consumer container   *)
(* may begin its work; beginning closes the window; nobody else works on   *)
(* the event until the window is opened again (24 hours later).            *)
(***************************************************************************)

CONSTANTS
  Events,   \* events, identified by eventId
  Workers   \* containers of the one consumer

VARIABLES
  open,     \* open[e]: work on e may begin
  runners   \* runners[e]: the containers inside the work of e

vars == <<open, runners>>

TypeOK ==
  /\ open \in [Events -> BOOLEAN]
  /\ runners \in [Events -> SUBSET Workers]

Init ==
  /\ open = [e \in Events |-> TRUE]
  /\ runners = [e \in Events |-> {}]

Begin(e, w) ==
  /\ open[e]
  /\ runners[e] = {}
  /\ open' = [open EXCEPT ![e] = FALSE]
  /\ runners' = [runners EXCEPT ![e] = {w}]

\* The work ends, well or badly; the window stays closed.
End(e, w) ==
  /\ w \in runners[e]
  /\ runners' = [runners EXCEPT ![e] = @ \ {w}]
  /\ UNCHANGED open

\* The window closes and nobody works: the event's only chance is spent.
Forfeit(e) ==
  /\ open[e]
  /\ open' = [open EXCEPT ![e] = FALSE]
  /\ UNCHANGED runners

Reopen(e) ==
  /\ ~open[e]
  /\ runners[e] = {}
  /\ open' = [open EXCEPT ![e] = TRUE]
  /\ UNCHANGED runners

Next ==
  \E e \in Events :
    \/ \E w \in Workers : Begin(e, w) \/ End(e, w)
    \/ Forfeit(e)
    \/ Reopen(e)

Spec == Init /\ [][Next]_vars
=============================================================================
