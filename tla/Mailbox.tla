------------------------------ MODULE Mailbox ------------------------------
(***************************************************************************)
(* What the sender promises to prospects and operators, with no rows,      *)
(* events, markers or containers in it: a (contact, website) pair has one  *)
(* chance of a mail.  Taking the chance uses it up; then one approved text *)
(* goes out, or nothing ever does.                                         *)
(***************************************************************************)

CONSTANTS
  Drafts,      \* EmailDraft ids
  Bodies,      \* texts of drafts
  Journeys,    \* (contact, website) pairs
  JourneyOf    \* JourneyOf[d]: the pair a draft is for

VARIABLES
  approved,    \* approved[d]: texts an operator approved
  chance,      \* chance[j]: "open", "taken", "mailed" or "lost"
  mailed       \* mails that went out, as [draft, body]

vars == <<approved, chance, mailed>>

Chances == {"open", "taken", "mailed", "lost"}

Init ==
  /\ approved = [d \in Drafts |-> {}]
  /\ chance = [j \in Journeys |-> "open"]
  /\ mailed = {}

Approve(d, b) ==
  /\ approved' = [approved EXCEPT ![d] = @ \cup {b}]
  /\ UNCHANGED <<chance, mailed>>

Take(j) ==
  /\ chance[j] = "open"
  /\ chance' = [chance EXCEPT ![j] = "taken"]
  /\ UNCHANGED <<approved, mailed>>

\* The mail of an approved text uses the chance that was taken for its pair.
Mail(d, b) ==
  /\ b \in approved[d]
  /\ JourneyOf[d] \in Journeys
  /\ chance[JourneyOf[d]] = "taken"
  /\ chance' = [chance EXCEPT ![JourneyOf[d]] = "mailed"]
  /\ mailed' = mailed \cup {[draft |-> d, body |-> b]}
  /\ UNCHANGED approved

\* The sender failed after it took the chance: there is no second one.
Lose(j) ==
  /\ chance[j] = "taken"
  /\ chance' = [chance EXCEPT ![j] = "lost"]
  /\ UNCHANGED <<approved, mailed>>

Next ==
  \/ \E d \in Drafts, b \in Bodies : Approve(d, b) \/ Mail(d, b)
  \/ \E j \in Journeys : Take(j) \/ Lose(j)

Spec == Init /\ [][Next]_vars
=============================================================================
