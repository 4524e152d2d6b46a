---------------------------- MODULE TicketService ----------------------------
(***************************************************************************)
(* One ticket and everything that concurrently works on it: the request    *)
(* handlers of api/v1/{tickets,approvals,agent}.py on top of               *)
(* services/ticket_service.py, the Celery task run_agent on top of         *)
(* services/agent_run_service.py, and the webhook deliveries both record   *)
(* through webhook_service.enqueue_for_ticket.                             *)
(*                                                                         *)
(* Every handler and every task owns one SQLAlchemy session.  It loads the *)
(* ticket row, decides on that loaded copy, and commits later.  PostgreSQL *)
(* runs at its default READ COMMITTED and no query locks the row, so other *)
(* sessions may commit in between.  A commit is one atomic action here:    *)
(* the row lock the flushed UPDATE takes only orders commits, and the      *)
(* values written never depend on the row at that time.                    *)
(*                                                                         *)
(* No code path touches two tickets, so one ticket is modelled.            *)
(***************************************************************************)
EXTENDS Integers, Sequences, FiniteSets, TicketStates

CONSTANTS
  Requests,     \* HTTP requests about the ticket, each served once
  Workers,      \* Celery worker processes
  Texts,        \* non-blank replies: drafts, edits, final responses
  Blank,        \* an empty or whitespace-only reply
  None,         \* SQL NULL
  MaxInFlight,  \* bound: sessions at work at the same time
  MaxFailures   \* bound: processes that die, calls to database or broker that fail

ASSUME ConstantsAssumption ==
  /\ Requests \cap Workers = {}
  /\ None \notin Texts \cup {Blank} \cup TicketStatus \cup Requests
  /\ None \notin {"waiting_approval", "escalated", "workflow", "transition", "late"}
  /\ Blank \notin Texts
  /\ MaxInFlight \in Nat \ {0}
  /\ MaxFailures \in Nat

VARIABLES
  status, draft_response, final_response,  \* the committed ticket row
  events,          \* committed TicketEvent rows, in commit order
  audit_logs,      \* committed AuditLog rows about the ticket
  agent_runs,      \* committed AgentRun rows, each named by its request
  webhook_active,  \* whether the organization has an active webhook
  deliveries,      \* committed WebhookDelivery rows, in commit order
  queue,           \* run_agent messages waiting in the broker
  session,         \* what each request handler and worker is doing
  failures,        \* processes that died, calls that failed
  dropped          \* history: runs given up with no end recorded

ticketVars == <<status, draft_response, final_response>>
tableVars == <<events, audit_logs, agent_runs>>
faults == <<failures, dropped>>
vars == <<ticketVars, tableVars, webhook_active, deliveries, queue, session, faults>>

-----------------------------------------------------------------------------
(* Data *)

Sessions == Requests \cup Workers
Replies == Texts \cup {Blank, None}

Row == [status |-> status, draft |-> draft_response, final |-> final_response]
RowType == [status : TicketStatus \cup {None}, draft : Replies, final : Texts \cup {None}]

\* The text an event is about is not a column; it lets the properties say
\* which reply the operator approved or saved.  The same holds for the run.
TicketEvent ==
  [type : {"created", "agent_run", "approved", "rejected", "edited"},
   from : TicketStatus \cup {None}, to : TicketStatus \cup {None},
   text : Replies, run : Requests \cup {None}, since : Nat]

AuditLog ==
  [event : {"ticket_created", "agent_run_started", "retrieval_completed",
            "draft_generated", "response_approved", "response_rejected",
            "ticket_escalated"},
   run : Requests \cup {None}, at : Nat]

AgentRun ==
  [status : {"absent", "running", "completed", "failed"},
   outcome : {None, "waiting_approval", "escalated"},
   error : {None, "workflow", "transition", "late"}]

\* The part of the payload that depends on when the row was read, the
\* event that caused the delivery, and whether the task was queued.
WebhookDelivery ==
  [event : {"ticket.approved", "ticket.escalated"},
   status : TicketStatus \cup {None}, final : Texts \cup {None},
   cause : Nat, dispatched : BOOLEAN]

Session ==
  [pc : {"idle", "loaded", "started", "committed", "refreshed", "recorded",
         "completed", "finished", "done"},
   op : {"none", "approve", "reject", "edit", "run", "execute"},
   arg : Replies, run : Requests \cup {None}, seen : RowType,
   since : Nat, cause : Nat, delivery : Nat]

\* A session that holds nothing.
Fresh ==
  [pc |-> "idle", op |-> "none", arg |-> None, run |-> None,
   seen |-> [status |-> None, draft |-> None, final |-> None],
   since |-> 0, cause |-> 0, delivery |-> 0]

At(s, label) == session[s].pc = label
InFlight == {s \in Sessions : session[s].pc \notin {"idle", "done"}}

\* A flush emits only the columns whose value differs from the loaded one.
Flush(new, loaded, stored) == IF new = loaded THEN stored ELSE new

\* A history row; since is the length of the history when the session read
\* the ticket, shortly after its transaction (and so created_at) began.
\* FAULT: from_status read after ticket.status was assigned.
Event_from_after(s, type, to, text) ==
  [type |-> type, from |-> to, to |-> to, text |-> text,
   run |-> session[s].run, since |-> session[s].since]

Event(s, type, to, text) ==
  [type |-> type,
   from |-> IF to = None THEN None ELSE session[s].seen.status,
   to |-> to, text |-> text, run |-> session[s].run, since |-> session[s].since]

Audit(event, run, at) == [event |-> event, run |-> run, at |-> at]

\* A request is answered; a worker still has to acknowledge its message.
Finished(s) ==
  IF s \in Requests
  THEN [Fresh EXCEPT !.pc = "done"]
  ELSE [Fresh EXCEPT !.pc = "finished", !.run = session[s].run]

\* Committed, and a notification is due about the row just appended.
Committed(s) == [session[s] EXCEPT !.pc = "committed", !.cause = Len(events) + 1]

\* "not text.strip()".
\* FAULT: only a missing reply counts as empty.
IsEmpty_missing(text) == text = None

IsEmpty(text) == text \in {Blank, None}

\* The reply approve() is about to make final.
FinalText(q) ==
  IF session[q].arg # None THEN session[q].arg ELSE session[q].seen.draft

-----------------------------------------------------------------------------
(* Request handlers *)

\* POST /tickets
create_ticket ==
  /\ status = None
  /\ status' = "new"
  /\ events' = Append(events, [type |-> "created", from |-> None, to |-> "new",
                              text |-> None, run |-> None, since |-> 0])
  /\ audit_logs' = audit_logs \cup {Audit("ticket_created", None, Len(events) + 1)}
  /\ UNCHANGED <<draft_response, final_response, agent_runs, webhook_active,
                 deliveries, queue, session, faults>>

\* The body a request carries: an approval may bring an edited response.
Body(op) ==
  CASE op = "approve" -> Replies
    [] op = "edit"    -> Texts \cup {Blank}
    [] OTHER          -> {None}

\* A handler resolves the caller and loads the ticket in a new transaction.
load_ticket(q, op, arg) ==
  /\ At(q, "idle")
  /\ status # None
  /\ Cardinality(InFlight) < MaxInFlight
  /\ session' = [session EXCEPT ![q] =
       [Fresh EXCEPT !.pc = "loaded", !.op = op, !.arg = arg,
                     !.seen = Row, !.since = Len(events)]]
  /\ UNCHANGED <<ticketVars, tableVars, webhook_active, deliveries, queue, faults>>

\* 409 or 422: the handler answers from the loaded copy and writes nothing.
refuse(q) ==
  /\ At(q, "loaded")
  /\ \/ /\ session[q].op = "approve"
        /\ \/ IsEmpty(FinalText(q))
           \/ ~can_transition(session[q].seen.status, "approved")
     \/ /\ session[q].op = "reject"
        /\ ~can_transition(session[q].seen.status, "rejected")
     \/ session[q].op = "edit" /\ IsEmpty(session[q].arg)
     \/ session[q].op = "run" /\ session[q].seen.status = "closed"
  /\ session' = [session EXCEPT ![q] = Finished(q)]
  /\ UNCHANGED <<ticketVars, tableVars, webhook_active, deliveries, queue, faults>>

approve(q) ==
  /\ At(q, "loaded") /\ session[q].op = "approve"
  /\ ~IsEmpty(FinalText(q))
  /\ can_transition(session[q].seen.status, "approved")
  /\ status' = Flush("approved", session[q].seen.status, status)
  /\ final_response' = Flush(FinalText(q), session[q].seen.final, final_response)
  /\ events' = Append(events, Event(q, "approved", "approved", FinalText(q)))
  /\ audit_logs' = audit_logs \cup {Audit("response_approved", None, Len(events) + 1)}
  /\ session' = [session EXCEPT ![q] = Committed(q)]
  /\ UNCHANGED <<draft_response, agent_runs, webhook_active, deliveries, queue, faults>>

reject(q) ==
  /\ At(q, "loaded") /\ session[q].op = "reject"
  /\ can_transition(session[q].seen.status, "rejected")
  /\ status' = Flush("rejected", session[q].seen.status, status)
  /\ events' = Append(events, Event(q, "rejected", "rejected", None))
  /\ audit_logs' = audit_logs \cup {Audit("response_rejected", None, Len(events) + 1)}
  /\ session' = [session EXCEPT ![q] = Finished(q)]
  /\ UNCHANGED <<draft_response, final_response, agent_runs, webhook_active,
                 deliveries, queue, faults>>

\* FAULT: an edit also replaces the final response.
edit_draft_final(q) ==
  /\ At(q, "loaded") /\ session[q].op = "edit"
  /\ ~IsEmpty(session[q].arg)
  /\ draft_response' = session[q].arg
  /\ final_response' = session[q].arg
  /\ events' = Append(events, Event(q, "edited", None, session[q].arg))
  /\ session' = [session EXCEPT ![q] = Finished(q)]
  /\ UNCHANGED <<status, audit_logs, agent_runs, webhook_active, deliveries, queue, faults>>

\* PATCH edit-draft is accepted in every status.
edit_draft(q) ==
  /\ At(q, "loaded") /\ session[q].op = "edit"
  /\ ~IsEmpty(session[q].arg)
  /\ draft_response' = Flush(session[q].arg, session[q].seen.draft, draft_response)
  /\ events' = Append(events, Event(q, "edited", None, session[q].arg))
  /\ session' = [session EXCEPT ![q] = Finished(q)]
  /\ UNCHANGED <<status, final_response, audit_logs, agent_runs, webhook_active,
                 deliveries, queue, faults>>

\* POST run: commits the AgentRun row, before its message is published.
start_run(q) ==
  /\ At(q, "loaded") /\ session[q].op = "run"
  /\ session[q].seen.status # "closed"
  /\ agent_runs' = [agent_runs EXCEPT ![q].status = "running"]
  /\ audit_logs' = audit_logs \cup {Audit("agent_run_started", q, 0)}
  /\ session' = [session EXCEPT ![q].pc = "started"]
  /\ UNCHANGED <<ticketVars, events, webhook_active, deliveries, queue, faults>>

dispatch_run(q) ==
  /\ At(q, "started")
  /\ queue' = queue \cup {q}
  /\ session' = [session EXCEPT ![q] = Finished(q)]
  /\ UNCHANGED <<ticketVars, tableVars, webhook_active, deliveries, faults>>

\* The API process dies, or .delay() cannot reach the broker: what was
\* committed stays, the rest of the handler never happens.
abort_request(q) ==
  /\ session[q].pc \notin {"idle", "done"}
  /\ failures < MaxFailures
  /\ failures' = failures + 1
  /\ session' = [session EXCEPT ![q] = Finished(q)]
  /\ UNCHANGED <<ticketVars, tableVars, webhook_active, deliveries, queue, dropped>>

\* PUT /webhooks, as far as enqueue_for_ticket can tell.
upsert_config ==
  /\ webhook_active' = ~webhook_active
  /\ UNCHANGED <<ticketVars, tableVars, deliveries, queue, session, faults>>

-----------------------------------------------------------------------------
(* The run_agent task *)

\* A worker reserves a message (acks_late: it is acknowledged at the end)
\* and execute_run loads the run and the ticket.
receive_run(w, r) ==
  /\ At(w, "idle")
  /\ r \in queue
  /\ Cardinality(InFlight) < MaxInFlight
  /\ queue' = queue \ {r}
  /\ session' = [session EXCEPT ![w] =
       [Fresh EXCEPT !.pc = "loaded", !.op = "execute", !.run = r,
                     !.seen = Row, !.since = Len(events)]]
  /\ UNCHANGED <<ticketVars, tableVars, webhook_active, deliveries, faults>>

\* What the workflow can return: the critic scores a blank draft below the
\* confidence threshold, so only a non-blank one is put up for approval.
WorkflowResult ==
  [outcome : {"waiting_approval"}, draft : Texts]
    \cup [outcome : {"escalated"}, draft : Texts \cup {Blank}]

\* Audit rows written with an outcome.
\* FAULT: the escalation itself is not audited.
RunAudits_no_escalation(outcome) == {"retrieval_completed", "draft_generated"}

RunAudits(outcome) ==
  {"retrieval_completed", "draft_generated"} \cup
  (IF outcome = "escalated" THEN {"ticket_escalated"} ELSE {})

\* After the commit the run is refreshed, and only an escalation is notified.
\* FAULT: every outcome is.
AfterRun_always(w, outcome) == Committed(w)

AfterRun(w, outcome) ==
  IF outcome = "escalated" THEN Committed(w) ELSE [session[w] EXCEPT !.pc = "completed"]

\* The workflow returned and its outcome is a legal move from the ticket
\* loaded before it started: run, ticket, history and audit commit together.
complete_run(w, result) ==
  /\ At(w, "loaded") /\ session[w].op = "execute"
  /\ can_transition(session[w].seen.status, result.outcome)
  /\ status' = Flush(result.outcome, session[w].seen.status, status)
  /\ draft_response' = Flush(result.draft, session[w].seen.draft, draft_response)
  /\ agent_runs' = [agent_runs EXCEPT ![session[w].run].status = "completed",
                                      ![session[w].run].outcome = result.outcome]
  /\ events' = Append(events, Event(w, "agent_run", result.outcome, None))
  /\ audit_logs' = audit_logs \cup
       {Audit(e, session[w].run, Len(events) + 1) : e \in RunAudits(result.outcome)}
  /\ session' = [session EXCEPT ![w] = AfterRun(w, result.outcome)]
  /\ UNCHANGED <<final_response, webhook_active, deliveries, queue, faults>>

\* await db.refresh(run), and execute_run returns.
refresh_run(w) ==
  /\ At(w, "completed")
  /\ session' = [session EXCEPT ![w] = Finished(w)]
  /\ UNCHANGED <<ticketVars, tableVars, webhook_active, deliveries, queue, faults>>

\* FAULT: the failure is recorded without rolling the run's results back.
RunFailed_no_rollback(r, why) ==
  [agent_runs EXCEPT ![r].status = "failed", ![r].error = why, ![r].outcome = "escalated"]

RunFailed(r, why) == [agent_runs EXCEPT ![r].status = "failed", ![r].error = why]

\* The except branch: roll back, then record the failure on the run alone.
\* The workflow or the commit raised, or the outcome is not a legal move;
\* the audit rows of what the run did so far are rolled back with the rest.
fail_run(w, why) ==
  /\ At(w, "loaded") /\ session[w].op = "execute"
  /\ \/ why = "workflow"
     \/ /\ why = "transition"
        /\ \E result \in WorkflowResult :
             ~can_transition(session[w].seen.status, result.outcome)
  /\ agent_runs' = RunFailed(session[w].run, why)
  /\ session' = [session EXCEPT ![w] = Finished(w)]
  /\ UNCHANGED <<ticketVars, events, audit_logs, webhook_active, deliveries,
                 queue, faults>>

AfterCommit == {"completed", "committed", "refreshed", "recorded"}

\* The same branch, reached after the results were committed: a refresh, the
\* configuration query, the insert of the delivery or the broker failed, and
\* a run that took effect is marked failed.
fail_late(w) ==
  /\ session[w].pc \in AfterCommit
  /\ failures < MaxFailures
  /\ failures' = failures + 1
  /\ agent_runs' = RunFailed(session[w].run, "late")
  /\ session' = [session EXCEPT ![w] = Finished(w)]
  /\ UNCHANGED <<ticketVars, events, audit_logs, webhook_active, deliveries, queue, dropped>>

\* The run a worker's message is about, as long as its end is not recorded.
Unsettled(w) == {r \in Requests : r = session[w].run /\ agent_runs[r].status = "running"}

\* The first queries, which are outside the try, raise, or the except branch
\* itself does.  That takes no broken database: the pooled connections of
\* db/engine.py outlive the event loop of the task that opened them.  The
\* run stays as it is, and Celery acknowledges the message of a failed task.
abandon_run(w) ==
  /\ session[w].pc \in {"loaded"} \cup AfterCommit
  /\ failures < MaxFailures
  /\ failures' = failures + 1
  /\ dropped' = dropped \cup Unsettled(w)
  /\ session' = [session EXCEPT ![w] = Finished(w)]
  /\ UNCHANGED <<ticketVars, tableVars, webhook_active, deliveries, queue>>

\* Success or exception, Celery acknowledges the message.
ack_run(w) ==
  /\ At(w, "finished")
  /\ session' = [session EXCEPT ![w] = Fresh]
  /\ UNCHANGED <<ticketVars, tableVars, webhook_active, deliveries, queue, faults>>

\* The child process at work is killed, and the worker lives on: without
\* task_reject_on_worker_lost it acknowledges the message.
kill_child(w) ==
  /\ ~At(w, "idle")
  /\ failures < MaxFailures
  /\ failures' = failures + 1
  /\ dropped' = dropped \cup Unsettled(w)
  /\ session' = [session EXCEPT ![w] = Fresh]
  /\ UNCHANGED <<ticketVars, tableVars, webhook_active, deliveries, queue>>

\* FAULT: the message was acknowledged when it was reserved.
crash_worker_early_ack(w) ==
  /\ ~At(w, "idle")
  /\ failures < MaxFailures
  /\ failures' = failures + 1
  /\ session' = [session EXCEPT ![w] = Fresh]
  /\ UNCHANGED <<ticketVars, tableVars, webhook_active, deliveries, queue, dropped>>

\* The whole worker dies before acknowledging: the broker delivers the
\* message again.
crash_worker(w) ==
  /\ ~At(w, "idle")
  /\ failures < MaxFailures
  /\ failures' = failures + 1
  /\ queue' = queue \cup {session[w].run}
  /\ dropped' = dropped \ {session[w].run}
  /\ session' = [session EXCEPT ![w] = Fresh]
  /\ UNCHANGED <<ticketVars, tableVars, webhook_active, deliveries>>

-----------------------------------------------------------------------------
(* After the commit: notify (approve by a request, escalate by a worker) *)

\* await db.refresh(ticket), in a transaction of its own.
refresh_ticket(s) ==
  /\ At(s, "committed")
  /\ session' = [session EXCEPT ![s].pc = "refreshed", ![s].seen = Row]
  /\ UNCHANGED <<ticketVars, tableVars, webhook_active, deliveries, queue, faults>>

\* Nothing else depends on the time between reading the configuration and
\* inserting the row, so the two are one step.
record_delivery(s) ==
  /\ At(s, "refreshed")
  /\ IF webhook_active
     THEN /\ deliveries' = Append(deliveries,
               [event |-> IF s \in Requests THEN "ticket.approved" ELSE "ticket.escalated",
                status |-> session[s].seen.status, final |-> session[s].seen.final,
                cause |-> session[s].cause, dispatched |-> FALSE])
          /\ session' = [session EXCEPT ![s].pc = "recorded",
                                        ![s].delivery = Len(deliveries) + 1]
     ELSE /\ session' = [session EXCEPT ![s] = Finished(s)]
          /\ UNCHANGED deliveries
  /\ UNCHANGED <<ticketVars, tableVars, webhook_active, queue, faults>>

\* deliver_webhook.delay(delivery.id)
dispatch_delivery(s) ==
  /\ At(s, "recorded")
  /\ deliveries' = [deliveries EXCEPT ![session[s].delivery].dispatched = TRUE]
  /\ session' = [session EXCEPT ![s] = Finished(s)]
  /\ UNCHANGED <<ticketVars, tableVars, webhook_active, queue, faults>>

-----------------------------------------------------------------------------
Init ==
  /\ status = None /\ draft_response = None /\ final_response = None
  /\ events = <<>> /\ audit_logs = {}
  /\ agent_runs = [r \in Requests |-> [status |-> "absent", outcome |-> None, error |-> None]]
  /\ webhook_active \in BOOLEAN
  /\ deliveries = <<>> /\ queue = {}
  /\ session = [s \in Sessions |-> Fresh]
  /\ failures = 0 /\ dropped = {}

\* FAULT: the delivery is recorded only.
Notify_recorded_only(s) == refresh_ticket(s) \/ record_delivery(s)

Notify(s) == refresh_ticket(s) \/ record_delivery(s) \/ dispatch_delivery(s)

\* What a handler does by itself once it has loaded the ticket.
RequestStep(q) ==
  \/ refuse(q) \/ approve(q) \/ reject(q) \/ edit_draft(q)
  \/ start_run(q) \/ dispatch_run(q) \/ Notify(q)

\* What a worker does by itself once it has reserved a message.
WorkerStep(w) ==
  \/ \E result \in WorkflowResult : complete_run(w, result)
  \/ \E why \in {"workflow", "transition"} : fail_run(w, why)
  \/ refresh_run(w)
  \/ Notify(w)
  \/ ack_run(w)

\* What may happen to a worker.
WorkerFault(w) == fail_late(w) \/ abandon_run(w) \/ kill_child(w) \/ crash_worker(w)

Next ==
  \/ create_ticket
  \/ upsert_config
  \/ \E q \in Requests :
       \/ \E op \in {"approve", "reject", "edit", "run"} :
            \E arg \in Body(op) : load_ticket(q, op, arg)
       \/ RequestStep(q)
       \/ abort_request(q)
  \/ \E w \in Workers :
       \/ \E r \in Requests : receive_run(w, r)
       \/ WorkerStep(w)
       \/ WorkerFault(w)

Spec == Init /\ [][Next]_vars

\* A handler that started goes on unless its process dies, an idle worker
\* takes the messages that wait, and the provider call returns or raises.
\* Nobody has to send a request, and no process has to die.
Fairness ==
  /\ \A q \in Requests : WF_vars(RequestStep(q))
  /\ \A w \in Workers : WF_vars(WorkerStep(w))
  /\ \A r \in Requests : WF_vars(\E w \in Workers : receive_run(w, r))

FairSpec == Spec /\ Fairness

-----------------------------------------------------------------------------
(* Safety under every interleaving *)

TypeOK ==
  /\ status \in TicketStatus \cup {None}
  /\ draft_response \in Replies
  /\ final_response \in Texts \cup {None}
  /\ events \in Seq(TicketEvent)
  /\ audit_logs \subseteq AuditLog
  /\ agent_runs \in [Requests -> AgentRun]
  /\ webhook_active \in BOOLEAN
  /\ deliveries \in Seq(WebhookDelivery)
  /\ queue \subseteq Requests
  /\ session \in [Sessions -> Session]
  /\ failures \in 0..MaxFailures
  /\ dropped \subseteq Requests

\* events[i] is the last status change among the first n history rows.
LastChange(i, n) ==
  /\ i \in 1..n
  /\ events[i].to # None
  /\ \A j \in (i + 1)..n : events[j].to = None

\* The history explains the status: however sessions overlap, the ticket's
\* status is the target of the last status change that was committed.
HistoryExplainsStatus ==
  \A i \in DOMAIN events : LastChange(i, Len(events)) => events[i].to = status

\* Every recorded change is a legal move from the status the ticket really
\* had when the session that made it read the row.
ChangesLegalWhenRead ==
  \A j \in DOMAIN events :
    events[j].to # None /\ events[j].type # "created" =>
      /\ can_transition(events[j].from, events[j].to)
      /\ \E i \in DOMAIN events :
           LastChange(i, events[j].since) /\ events[i].to = events[j].from

ApprovedTexts == {events[i].text : i \in {j \in DOMAIN events : events[j].type = "approved"}}

\* No reply is final unless a human approved exactly that text, and an
\* approved ticket always has one (SC-002, FR-015).
FinalIsApproved ==
  /\ final_response # None => final_response \in ApprovedTexts
  /\ status = "approved" => final_response # None

\* Every notification is about one decision that was committed, of the kind
\* it announces; no decision is announced twice; and what announces an
\* approval carries a reply.
NotificationsJustified ==
  \A d \in DOMAIN deliveries :
    /\ deliveries[d].cause \in DOMAIN events
    /\ IF deliveries[d].event = "ticket.approved"
       THEN events[deliveries[d].cause].type = "approved" /\ deliveries[d].final # None
       ELSE /\ events[deliveries[d].cause].type = "agent_run"
            /\ events[deliveries[d].cause].to = "escalated"
    /\ \A e \in DOMAIN deliveries : deliveries[e].cause = deliveries[d].cause => e = d

\* A run's results appear all or not at all: it has an outcome exactly when
\* the history has a change made by it, the last of those made that outcome,
\* and a run that reports it completed has one.
RunsAtomic ==
  \A r \in Requests :
    LET steps == {i \in DOMAIN events : events[i].type = "agent_run" /\ events[i].run = r}
    IN /\ agent_runs[r].outcome # None <=> steps # {}
       /\ agent_runs[r].status = "completed" => agent_runs[r].outcome # None
       /\ \A i \in steps :
            (\A j \in steps : j <= i) => events[i].to = agent_runs[r].outcome

\* The audit row a history row must be accompanied by.
AuditOf(e) ==
  CASE e.type = "created"  -> {"ticket_created"}
    [] e.type = "approved" -> {"response_approved"}
    [] e.type = "rejected" -> {"response_rejected"}
    [] e.type = "edited"   -> {}
    [] e.type = "agent_run" ->
         {"retrieval_completed", "draft_generated"} \cup
         (IF e.to = "escalated" THEN {"ticket_escalated"} ELSE {})

\* The committed history and the audit trail tell the same story, in both
\* directions: a history row is accompanied by exactly its audit rows, no
\* audit row tells of a change that was rolled back, and a run's start is
\* audited exactly when its row exists.  That every retrieval and draft is
\* audited, too, is what the documents say and the code does not do: see
\* WorkAudited.
AuditMatchesHistory ==
  /\ \A i \in DOMAIN events :
       {a.event : a \in {b \in audit_logs : b.at = i}} = AuditOf(events[i])
  /\ \A a \in audit_logs : a.at = 0 \/ a.at \in DOMAIN events
  /\ \A r \in Requests :
       agent_runs[r].status # "absent" <=> Audit("agent_run_started", r, 0) \in audit_logs

-----------------------------------------------------------------------------
(* Refinement *)

Gate == INSTANCE ReplyGate WITH approved <- ApprovedTexts

\* Under every interleaving of sessions and crashes, a reply becomes final
\* only in the step in which a human approves it.
RefinesReplyGate == Gate!Spec

StateMachine == INSTANCE TicketStateMachine

\* Every step of the code is one of the documented ticket, unless it decides
\* on a copy of the row that another session has outdated meanwhile.
CurrentCopiesFollowStateMachine ==
  /\ StateMachine!Init
  /\ [][(\A s \in Sessions :
            At(s, "loaded") /\ session'[s] # session[s] => session[s].seen = Row)
          => [StateMachine!Next]_(StateMachine!vars)]_vars

\* The documented ticket: what the code implements while no two sessions
\* overlap (MaxInFlight = 1).
RefinesStateMachine == StateMachine!Spec

-----------------------------------------------------------------------------
(* Liveness, under FairSpec *)

\* A published run settles, so that the dashboard does not wait for it for
\* ever, although workers die and runs fail.  The exceptions are counted
\* among the failures: an exception outside the try or in the except branch
\* of execute_run, and a child process killed while the run is not settled.
Settled(r) == agent_runs[r].status \in {"completed", "failed"}

RunsSettle == \A r \in Requests : r \in queue ~> Settled(r) \/ r \in dropped

\* Row numbers of the history: one row from the creation and, while nothing
\* is redelivered, at most one from each request.
HistoryRows == 1..(Cardinality(Requests) + 1)
Approval(i) == i \in DOMAIN events /\ events[i].type = "approved"
Notified(i) == \E d \in DOMAIN deliveries : deliveries[d].cause = i /\ deliveries[d].dispatched

\* As long as nothing fails, every approval is followed by a notification
\* whose task is queued, whatever else works on the ticket (FR-021).
ApprovalsNotifiedUnlessFailed ==
  [](webhook_active /\ failures = 0) =>
    \A i \in HistoryRows : Approval(i) ~> Notified(i)

=============================================================================
