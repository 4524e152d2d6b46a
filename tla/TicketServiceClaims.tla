------------------------- MODULE TicketServiceClaims -------------------------
(***************************************************************************)
(* What the repository's documents say of a ticket that concurrent work    *)
(* does not always respect.  Each definition is refuted by one run.        *)
(***************************************************************************)
EXTENDS TicketService

Appended(types) ==
  Len(events') = Len(events) + 1 /\ events'[Len(events')].type \in types

\* data-model.md, validation rules: status transitions follow the state
\* machine; spec.md, edge cases: of a concurrent approval and rejection the
\* first wins, the second sees the resolved ticket and is rejected.  So
\* every change is a legal move from the status the ticket has at that time.
TransitionsFollowStateMachine ==
  [][Appended({"approved", "rejected", "agent_run"}) =>
       can_transition(status, events'[Len(events')].to)]_vars

\* FR-017 and SC-005: every retrieval completed and every draft generated is
\* audited, also those of a run whose outcome the state machine refuses.  (That
\* there is such a run contradicts another document: spec.md, edge cases, has
\* a ticket's workflow run again and the latest draft retained.)
WorkAudited ==
  \A r \in Requests :
    agent_runs[r].outcome # None \/ agent_runs[r].error = "transition" =>
      {"retrieval_completed", "draft_generated"} \subseteq
        {a.event : a \in {b \in audit_logs : b.run = r}}

\* FR-021: a notification is sent when a ticket is approved, as long as the
\* organization has an active webhook.
ApprovalsNotified ==
  []webhook_active =>
    \A i \in HistoryRows : Approval(i) ~> Notified(i)

=============================================================================
