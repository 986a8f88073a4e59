----------------------------- MODULE MCReplies -----------------------------
(***************************************************************************)
(* One prospect, one mail to it, one mail from it, one SES notification    *)
(* and one operator at the inbox.                                          *)
(***************************************************************************)
EXTENDS Replies

CONSTANTS d1, j1, a1, b1

MCJourneyOf == [d \in Drafts |-> j1]
MCAddressOf == [j \in Journeys |-> a1]
MCBusinessOf == [d \in Drafts |-> b1]
=============================================================================
