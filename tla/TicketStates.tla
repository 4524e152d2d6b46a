---------------------------- MODULE TicketStates ----------------------------
(***************************************************************************)
(* The ticket state machine of backend/app/models/ticket.py: the statuses  *)
(* a ticket row can hold and the table can_transition consults.            *)
(***************************************************************************)

\* class TicketStatus
TicketStatus ==
  {"new", "triaged", "draft_ready", "waiting_approval",
   "approved", "rejected", "escalated", "closed"}

\* The table of permitted status changes, target set by current status.
\* FAULT: a ticket waiting for approval may be put up for approval again.
ALLOWED_TRANSITIONS_rerun ==
  [new              |-> {"triaged", "waiting_approval", "escalated", "closed"},
   triaged          |-> {"draft_ready", "waiting_approval", "escalated", "closed"},
   draft_ready      |-> {"waiting_approval", "escalated", "closed"},
   waiting_approval |-> {"waiting_approval", "approved", "rejected", "escalated", "closed"},
   approved         |-> {"closed"},
   rejected         |-> {"draft_ready", "waiting_approval", "escalated", "closed"},
   escalated        |-> {"waiting_approval", "closed"},
   closed           |-> {}]

ALLOWED_TRANSITIONS ==
  [new              |-> {"triaged", "waiting_approval", "escalated", "closed"},
   triaged          |-> {"draft_ready", "waiting_approval", "escalated", "closed"},
   draft_ready      |-> {"waiting_approval", "escalated", "closed"},
   waiting_approval |-> {"approved", "rejected", "escalated", "closed"},
   approved         |-> {"closed"},
   rejected         |-> {"draft_ready", "waiting_approval", "escalated", "closed"},
   escalated        |-> {"waiting_approval", "closed"},
   closed           |-> {}]

\* Every lookup names a TicketStatus, so the .get default is never used.
can_transition(current, target) == target \in ALLOWED_TRANSITIONS[current]

=============================================================================
