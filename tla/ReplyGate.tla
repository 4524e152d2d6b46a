------------------------------ MODULE ReplyGate ------------------------------
(***************************************************************************)
(* What the human-in-the-loop rule promises (FR-015, SC-002), whatever the *)
(* status of the ticket: a reply becomes final only in the step in which a *)
(* human approves it, and a final reply is never withdrawn or replaced by  *)
(* a text that no human approved.                                          *)
(***************************************************************************)
CONSTANTS Texts, None

VARIABLES
  approved,       \* the texts humans have approved so far
  final_response  \* the reply the ticket carries

Init == approved = {} /\ final_response = None

\* An approval that repeats an earlier one may leave a later reply in place.
Approve(text) ==
  /\ approved' = approved \cup {text}
  /\ \/ final_response' = text
     \/ text \in approved /\ final_response # None /\ UNCHANGED final_response

Next == \E text \in Texts : Approve(text)

Spec == Init /\ [][Next]_<<approved, final_response>>

=============================================================================
