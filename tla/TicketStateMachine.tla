------------------------- MODULE TicketStateMachine -------------------------
(***************************************************************************)
(* The ticket the documents describe: one row that every operation reads   *)
(* and writes in a single step, so the first decision wins and a decision  *)
(* that comes too late is refused (data-model.md, status state machine).   *)
(***************************************************************************)
EXTENDS TicketStates

CONSTANTS Texts, Blank, None

VARIABLES status, draft_response, final_response

vars == <<status, draft_response, final_response>>

Init == status = None /\ draft_response = None /\ final_response = None

Create ==
  /\ status = None
  /\ status' = "new"
  /\ UNCHANGED <<draft_response, final_response>>

Move(target) ==
  /\ status # None
  /\ can_transition(status, target)
  /\ status' = target

\* A run puts its draft up for approval, or hands the ticket to a human.
Run(target, draft) ==
  /\ Move(target)
  /\ draft_response' = draft
  /\ UNCHANGED final_response

Approve(text) ==
  /\ Move("approved")
  /\ final_response' = text
  /\ UNCHANGED draft_response

Reject == Move("rejected") /\ UNCHANGED <<draft_response, final_response>>

Edit(text) ==
  /\ status # None
  /\ draft_response' = text
  /\ UNCHANGED <<status, final_response>>

Next ==
  \/ Create
  \/ \E text \in Texts : Approve(text) \/ Edit(text) \/ Run("waiting_approval", text)
  \/ \E draft \in Texts \cup {Blank} : Run("escalated", draft)
  \/ Reject

Spec == Init /\ [][Next]_vars

=============================================================================
