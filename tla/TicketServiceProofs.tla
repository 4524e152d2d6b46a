------------------------- MODULE TicketServiceProofs -------------------------
(***************************************************************************)
(* Proofs about TicketService for every set of requests, workers and       *)
(* texts and for every bound on overlapping sessions and failures.         *)
(***************************************************************************)
EXTENDS TicketService, TLAPS

-----------------------------------------------------------------------------
(* Type correctness *)

\* A worker that is not idle holds the message of a run, which is what a
\* crash puts back into the queue.
WorkersHoldRuns ==
  \A w \in Workers : session[w].pc # "idle" => session[w].run \in Requests

TypeInv == TypeOK /\ WorkersHoldRuns

\* The session values the actions build have the right type.
LEMMA FreshType == Fresh \in Session
BY DEF Fresh, Session, Replies, RowType

LEMMA RowHasType == ASSUME TypeOK PROVE Row \in RowType
BY DEF TypeOK, Row, RowType

LEMMA FinishedType ==
  ASSUME TypeOK, NEW s \in Sessions
  PROVE  Finished(s) \in Session
BY FreshType DEF TypeOK, Finished, Session, Fresh

LEMMA CommittedType ==
  ASSUME TypeOK, NEW s \in Sessions
  PROVE  Committed(s) \in Session
<1>1. session[s] \in Session /\ Len(events) + 1 \in Nat
  BY DEF TypeOK
<1> QED
  BY <1>1 DEF Committed, Session

LEMMA FinalTextType ==
  ASSUME TypeOK, NEW q \in Requests, ~IsEmpty(FinalText(q))
  PROVE  FinalText(q) \in Texts
BY DEF TypeOK, FinalText, IsEmpty, Sessions, Session, RowType, Replies

LEMMA EventType ==
  ASSUME TypeOK, NEW s \in Sessions,
         NEW type \in {"created", "agent_run", "approved", "rejected", "edited"},
         NEW to \in TicketStatus \cup {None}, NEW text \in Replies
  PROVE  Event(s, type, to, text) \in TicketEvent
BY DEF TypeOK, Event, TicketEvent, Session, RowType

LEMMA EventsGrow ==
  ASSUME TypeOK, NEW e \in TicketEvent
  PROVE  /\ Append(events, e) \in Seq(TicketEvent)
         /\ Len(events) + 1 \in Nat
BY DEF TypeOK

LEMMA TypeInit == Init => TypeInv
<1> SUFFICES ASSUME Init PROVE TypeInv
  OBVIOUS
<1>1. session \in [Sessions -> Session] /\ WorkersHoldRuns
  BY FreshType DEF Init, WorkersHoldRuns, Sessions, Fresh
<1>2. agent_runs \in [Requests -> AgentRun]
  BY DEF Init, AgentRun
<1> QED
  BY <1>1, <1>2, ConstantsAssumption DEF Init, TypeInv, TypeOK, Replies

-----------------------------------------------------------------------------

\* The steps a request and a worker share.
LEMMA TypeNotify ==
  ASSUME TypeInv, NEW s \in Sessions, Notify(s)
  PROVE  TypeInv'
<1> USE DEF TypeInv
<1>w. ASSUME NEW v \in Session, session' = [session EXCEPT ![s] = v],
             s \in Workers => v.run = session[s].run,
             session[s].pc # "idle"
      PROVE  session' \in [Sessions -> Session] /\ WorkersHoldRuns'
  BY <1>w DEF TypeOK, WorkersHoldRuns, Sessions
<1>f. /\ Finished(s) \in Session
      /\ s \in Workers => Finished(s).run = session[s].run
  BY FinishedType, ConstantsAssumption DEF Finished, Fresh
<1>1. CASE refresh_ticket(s)
  <2>1. [session[s] EXCEPT !.pc = "refreshed", !.seen = Row] \in Session
    BY RowHasType DEF TypeOK, Session
  <2>2. session' = [session EXCEPT ![s] = [session[s] EXCEPT !.pc = "refreshed", !.seen = Row]]
    BY <1>1 DEF refresh_ticket
  <2>3. [session[s] EXCEPT !.pc = "refreshed", !.seen = Row].run = session[s].run
    BY DEF TypeOK, Session
  <2>4. session[s].pc # "idle"
    BY <1>1 DEF refresh_ticket, At
  <2>5. session' \in [Sessions -> Session] /\ WorkersHoldRuns'
    BY <1>w, <2>1, <2>2, <2>3, <2>4
  <2> QED
    BY <1>1, <2>5 DEF TypeOK, refresh_ticket, ticketVars, tableVars, faults
<1>2. CASE record_delivery(s)
  <2> DEFINE d == [event |-> IF s \in Requests THEN "ticket.approved" ELSE "ticket.escalated",
                   status |-> session[s].seen.status, final |-> session[s].seen.final,
                   cause |-> session[s].cause, dispatched |-> FALSE]
             v == [session[s] EXCEPT !.pc = "recorded", !.delivery = Len(deliveries) + 1]
  <2>1. d \in WebhookDelivery
    BY DEF TypeOK, Session, RowType, WebhookDelivery
  <2>2. Len(deliveries) + 1 \in Nat
    BY DEF TypeOK
  <2>3. v \in Session /\ v.run = session[s].run
    BY <2>2 DEF TypeOK, Session
  <2>4. session[s].pc # "idle"
    BY <1>2 DEF record_delivery, At
  <2>5. CASE webhook_active
    <3>1. deliveries' = Append(deliveries, d) /\ session' = [session EXCEPT ![s] = v]
      BY <1>2, <2>5 DEF record_delivery
    <3>2. session' \in [Sessions -> Session] /\ WorkersHoldRuns'
      BY <1>w, <2>3, <2>4, <3>1
    <3>3. deliveries' \in Seq(WebhookDelivery)
      BY <2>1, <3>1 DEF TypeOK
    <3> QED
      BY <1>2, <3>2, <3>3 DEF TypeOK, record_delivery, ticketVars, tableVars, faults
  <2>6. CASE ~webhook_active
    <3>1. session' \in [Sessions -> Session] /\ WorkersHoldRuns'
      BY <1>2, <1>w, <1>f, <2>4, <2>6 DEF record_delivery
    <3> QED
      BY <1>2, <2>6, <3>1 DEF TypeOK, record_delivery, ticketVars, tableVars, faults
  <2> QED
    BY <2>5, <2>6
<1>3. CASE dispatch_delivery(s)
  <2>1. session' \in [Sessions -> Session] /\ WorkersHoldRuns'
    BY <1>3, <1>w, <1>f DEF dispatch_delivery, At
  <2>2. deliveries' \in Seq(WebhookDelivery)
    <3> DEFINE n == Len(deliveries)
    <3>1. n \in Nat /\ deliveries \in [1..n -> WebhookDelivery]
      BY DEF TypeOK
    <3>2. deliveries' \in [1..n -> WebhookDelivery]
      BY <1>3, <3>1 DEF dispatch_delivery, WebhookDelivery
    <3> QED
      BY <3>1, <3>2
  <2> QED
    BY <1>3, <2>1, <2>2 DEF TypeOK, dispatch_delivery, ticketVars, tableVars, faults
<1> QED
  BY <1>1, <1>2, <1>3 DEF Notify

LEMMA TypeRequests ==
  ASSUME TypeInv, NEW q \in Requests,
         \/ \E op \in {"approve", "reject", "edit", "run"} :
              \E arg \in Body(op) : load_ticket(q, op, arg)
         \/ RequestStep(q)
         \/ abort_request(q)
  PROVE  TypeInv'
<1> USE DEF TypeInv
<1>q. q \in Sessions /\ q \notin Workers
  BY ConstantsAssumption DEF Sessions
<1>w. ASSUME NEW v \in Session, session' = [session EXCEPT ![q] = v]
      PROVE  session' \in [Sessions -> Session] /\ WorkersHoldRuns'
  BY <1>q, <1>w DEF TypeOK, WorkersHoldRuns, Sessions
<1>f. Finished(q) \in Session
  BY <1>q, FinishedType
<1>c. Committed(q) \in Session
  BY <1>q, CommittedType
<1>1. ASSUME NEW op \in {"approve", "reject", "edit", "run"}, NEW arg \in Body(op),
             load_ticket(q, op, arg)
      PROVE  TypeInv'
  <2>1. arg \in Replies
    BY DEF Body, Replies
  <2>2. [Fresh EXCEPT !.pc = "loaded", !.op = op, !.arg = arg,
                      !.seen = Row, !.since = Len(events)] \in Session
    <3>1. Row \in RowType /\ Len(events) \in Nat
      BY RowHasType DEF TypeOK
    <3> QED
      BY <2>1, <3>1 DEF Fresh, Session
  <2> QED
    BY <1>1, <1>w, <2>2 DEF TypeOK, load_ticket, ticketVars, tableVars, faults
<1>2. CASE refuse(q)
  BY <1>2, <1>w, <1>f DEF TypeOK, refuse, ticketVars, tableVars, faults
<1>3. CASE approve(q)
  <2>1. FinalText(q) \in Texts
    BY <1>3, FinalTextType DEF approve
  <2>2. Event(q, "approved", "approved", FinalText(q)) \in TicketEvent
    BY <1>q, <2>1, EventType DEF TicketStatus, Replies
  <2>3. Audit("response_approved", None, Len(events) + 1) \in AuditLog
    BY DEF TypeOK, Audit, AuditLog
  <2>4. session' \in [Sessions -> Session] /\ WorkersHoldRuns'
    BY <1>3, <1>w, <1>c DEF approve
  <2>5. status' \in TicketStatus \cup {None} /\ final_response' \in Texts \cup {None}
    BY <1>3, <2>1 DEF approve, Flush, TypeOK, TicketStatus
  <2> QED
    BY <1>3, <2>2, <2>3, <2>4, <2>5 DEF TypeOK, approve, faults
<1>4. CASE reject(q)
  <2>1. Event(q, "rejected", "rejected", None) \in TicketEvent
    BY <1>q, EventType DEF TicketStatus, Replies
  <2>2. Audit("response_rejected", None, Len(events) + 1) \in AuditLog
    BY DEF TypeOK, Audit, AuditLog
  <2>3. session' \in [Sessions -> Session] /\ WorkersHoldRuns'
    BY <1>4, <1>w, <1>f DEF reject
  <2>4. status' \in TicketStatus \cup {None}
    BY <1>4 DEF reject, Flush, TypeOK, TicketStatus
  <2> QED
    BY <1>4, <2>1, <2>2, <2>3, <2>4 DEF TypeOK, reject, faults
<1>5. CASE edit_draft(q)
  <2>1. session[q].arg \in Replies
    BY <1>q DEF TypeOK, Session
  <2>2. Event(q, "edited", None, session[q].arg) \in TicketEvent
    BY <1>q, <2>1, EventType
  <2>3. session' \in [Sessions -> Session] /\ WorkersHoldRuns'
    BY <1>5, <1>w, <1>f DEF edit_draft
  <2>4. draft_response' \in Replies
    BY <1>5, <2>1 DEF edit_draft, Flush, TypeOK
  <2> QED
    BY <1>5, <2>2, <2>3, <2>4 DEF TypeOK, edit_draft, faults
<1>6. CASE start_run(q)
  <2>1. [session[q] EXCEPT !.pc = "started"] \in Session
    BY <1>q DEF TypeOK, Session
  <2>2. session' \in [Sessions -> Session] /\ WorkersHoldRuns'
    BY <1>6, <1>w, <2>1 DEF start_run
  <2>3. Audit("agent_run_started", q, 0) \in AuditLog
    BY DEF Audit, AuditLog
  <2>4. agent_runs' \in [Requests -> AgentRun]
    BY <1>6 DEF start_run, TypeOK, AgentRun
  <2> QED
    BY <1>6, <2>2, <2>3, <2>4 DEF TypeOK, start_run, ticketVars, faults
<1>7. CASE dispatch_run(q)
  BY <1>7, <1>w, <1>f DEF TypeOK, dispatch_run, ticketVars, tableVars, faults
<1>8. CASE Notify(q)
  BY <1>8, <1>q, TypeNotify
<1>9. CASE abort_request(q)
  <2>1. failures' \in 0..MaxFailures
    BY <1>9, ConstantsAssumption DEF abort_request, TypeOK
  <2> QED
    BY <1>9, <2>1, <1>w, <1>f DEF TypeOK, abort_request, ticketVars, tableVars
<1> QED
  BY <1>1, <1>2, <1>3, <1>4, <1>5, <1>6, <1>7, <1>8, <1>9 DEF RequestStep

LEMMA TypeWorkers ==
  ASSUME TypeInv, NEW w \in Workers,
         \/ \E r \in Requests : receive_run(w, r)
         \/ WorkerStep(w)
         \/ WorkerFault(w)
  PROVE  TypeInv'
<1> USE DEF TypeInv
<1>w. w \in Sessions /\ w \notin Requests
  BY ConstantsAssumption DEF Sessions
<1>v. ASSUME NEW v \in Session, session' = [session EXCEPT ![w] = v],
             v.pc = "idle" \/ v.run \in Requests
      PROVE  session' \in [Sessions -> Session] /\ WorkersHoldRuns'
  BY <1>v DEF TypeOK, WorkersHoldRuns, Sessions
<1>f. session[w].pc # "idle" => Finished(w) \in Session /\ Finished(w).run \in Requests
  BY <1>w, FinishedType DEF Finished, Fresh, WorkersHoldRuns
<1>c. session[w].pc # "idle" => Committed(w) \in Session /\ Committed(w).run \in Requests
  BY <1>w, CommittedType DEF Committed, WorkersHoldRuns, TypeOK, Session
<1>r. ASSUME NEW r \in Requests, NEW why \in {"workflow", "transition", "late"}
      PROVE  RunFailed(r, why) \in [Requests -> AgentRun]
  BY DEF RunFailed, TypeOK, AgentRun
<1>1. ASSUME NEW r \in Requests, receive_run(w, r)
      PROVE  TypeInv'
  <2> DEFINE v == [Fresh EXCEPT !.pc = "loaded", !.op = "execute", !.run = r,
                                !.seen = Row, !.since = Len(events)]
  <2>1. Row \in RowType /\ Len(events) \in Nat
    BY RowHasType DEF TypeOK
  <2>2. v \in Session /\ v.run = r
    BY <2>1 DEF Fresh, Session, Replies
  <2>3. session' \in [Sessions -> Session] /\ WorkersHoldRuns'
    BY <1>1, <1>v, <2>2 DEF receive_run
  <2> QED
    BY <1>1, <2>3 DEF TypeOK, receive_run, ticketVars, tableVars, faults
<1>2. ASSUME NEW result \in WorkflowResult, complete_run(w, result)
      PROVE  TypeInv'
  <2>1. /\ result.outcome \in {"waiting_approval", "escalated"}
        /\ result.draft \in Replies
    BY DEF WorkflowResult, Replies
  <2>2. session[w].pc # "idle"
    BY <1>2 DEF complete_run, At
  <2>3. Event(w, "agent_run", result.outcome, None) \in TicketEvent
    BY <1>w, <2>1, EventType DEF TicketStatus, Replies
  <2>4. {Audit(e, session[w].run, Len(events) + 1) : e \in RunAudits(result.outcome)}
          \subseteq AuditLog
    BY <2>2 DEF TypeOK, Audit, AuditLog, RunAudits, WorkersHoldRuns
  <2>5. AfterRun(w, result.outcome) \in Session /\ AfterRun(w, result.outcome).run \in Requests
    <3>1. /\ [session[w] EXCEPT !.pc = "completed"] \in Session
          /\ [session[w] EXCEPT !.pc = "completed"].run \in Requests
      BY <1>w, <2>2 DEF TypeOK, Session, WorkersHoldRuns
    <3> QED
      BY <1>c, <2>2, <3>1 DEF AfterRun
  <2>6. session' \in [Sessions -> Session] /\ WorkersHoldRuns'
    BY <1>2, <1>v, <2>5 DEF complete_run
  <2>7. agent_runs' \in [Requests -> AgentRun]
    BY <1>2, <2>1 DEF complete_run, TypeOK, AgentRun
  <2>8. status' \in TicketStatus \cup {None} /\ draft_response' \in Replies
    BY <1>2, <2>1 DEF complete_run, Flush, TypeOK, TicketStatus
  <2> QED
    BY <1>2, <2>3, <2>4, <2>6, <2>7, <2>8 DEF TypeOK, complete_run, faults
<1>3. ASSUME NEW why \in {"workflow", "transition"}, fail_run(w, why)
      PROVE  TypeInv'
  <2>1. session[w].pc # "idle"
    BY <1>3 DEF fail_run, At
  <2>2. session' \in [Sessions -> Session] /\ WorkersHoldRuns'
    BY <1>3, <1>v, <1>f, <2>1 DEF fail_run
  <2>3. agent_runs' \in [Requests -> AgentRun]
    BY <1>3, <1>r, <2>1 DEF fail_run, WorkersHoldRuns
  <2> QED
    BY <1>3, <2>2, <2>3 DEF TypeOK, fail_run, ticketVars, faults
<1>4. CASE Notify(w)
  BY <1>4, <1>w, TypeNotify
<1>5. CASE ack_run(w)
  <2>1. session' \in [Sessions -> Session] /\ WorkersHoldRuns'
    BY <1>5, <1>v, FreshType DEF ack_run, Fresh
  <2> QED
    BY <1>5, <2>1 DEF TypeOK, ack_run, ticketVars, tableVars, faults
<1>6. CASE fail_late(w)
  <2>1. session[w].pc # "idle"
    BY <1>6 DEF fail_late, AfterCommit
  <2>2. session' \in [Sessions -> Session] /\ WorkersHoldRuns'
    BY <1>6, <1>v, <1>f, <2>1 DEF fail_late
  <2>3. agent_runs' \in [Requests -> AgentRun]
    BY <1>6, <1>r, <2>1 DEF fail_late, WorkersHoldRuns
  <2>4. failures' \in 0..MaxFailures
    BY <1>6, ConstantsAssumption DEF fail_late, TypeOK
  <2> QED
    BY <1>6, <2>2, <2>3, <2>4 DEF TypeOK, fail_late, ticketVars
<1>7. CASE crash_worker(w)
  <2>1. session[w].run \in Requests
    BY <1>7 DEF crash_worker, At, WorkersHoldRuns
  <2>2. session' \in [Sessions -> Session] /\ WorkersHoldRuns'
    BY <1>7, <1>v, FreshType DEF crash_worker, Fresh
  <2>3. failures' \in 0..MaxFailures
    BY <1>7, ConstantsAssumption DEF crash_worker, TypeOK
  <2> QED
    BY <1>7, <2>1, <2>2, <2>3 DEF TypeOK, crash_worker, ticketVars, tableVars
<1>8. CASE refresh_run(w)
  <2>1. session[w].pc # "idle"
    BY <1>8 DEF refresh_run, At
  <2>2. session' \in [Sessions -> Session] /\ WorkersHoldRuns'
    BY <1>8, <1>v, <1>f, <2>1 DEF refresh_run
  <2> QED
    BY <1>8, <2>2 DEF TypeOK, refresh_run, ticketVars, tableVars, faults
<1>9. CASE abandon_run(w) \/ kill_child(w)
  <2>1. session[w].pc # "idle"
    BY <1>9 DEF abandon_run, kill_child, AfterCommit, At
  <2>2. session' \in [Sessions -> Session] /\ WorkersHoldRuns'
    <3>1. CASE abandon_run(w)
      BY <3>1, <1>v, <1>f, <2>1 DEF abandon_run
    <3>2. CASE kill_child(w)
      BY <3>2, <1>v, FreshType DEF kill_child, Fresh
    <3> QED
      BY <1>9, <3>1, <3>2
  <2>3. failures' \in 0..MaxFailures /\ dropped' \subseteq Requests
    BY <1>9, ConstantsAssumption DEF abandon_run, kill_child, Unsettled, TypeOK
  <2> QED
    BY <1>9, <2>2, <2>3 DEF TypeOK, abandon_run, kill_child, ticketVars, tableVars
<1> QED
  BY <1>1, <1>2, <1>3, <1>4, <1>5, <1>6, <1>7, <1>8, <1>9 DEF WorkerStep, WorkerFault

LEMMA TypeStep == TypeInv /\ [Next]_vars => TypeInv'
<1> SUFFICES ASSUME TypeInv, [Next]_vars PROVE TypeInv'
  OBVIOUS
<1>1. CASE create_ticket
  <2>1. [type |-> "created", from |-> None, to |-> "new", text |-> None,
         run |-> None, since |-> 0] \in TicketEvent
    BY DEF TicketEvent, TicketStatus, Replies
  <2>2. Audit("ticket_created", None, Len(events) + 1) \in AuditLog
    BY DEF TypeInv, TypeOK, Audit, AuditLog
  <2> QED
    BY <1>1, <2>1, <2>2 DEF TypeInv, TypeOK, WorkersHoldRuns, create_ticket, TicketStatus, faults
<1>2. CASE upsert_config
  BY <1>2 DEF TypeInv, TypeOK, WorkersHoldRuns, upsert_config, ticketVars, tableVars, faults
<1>3. CASE UNCHANGED vars
  BY <1>3 DEF TypeInv, TypeOK, WorkersHoldRuns, vars, ticketVars, tableVars, faults
<1> QED
  BY <1>1, <1>2, <1>3, TypeRequests, TypeWorkers DEF Next

\* Every variable keeps its type.
THEOREM TypeCorrect == Spec => []TypeOK
<1>1. Spec => []TypeInv
  BY TypeInit, TypeStep, PTL DEF Spec
<1> QED
  BY <1>1, PTL DEF TypeInv

-----------------------------------------------------------------------------
(* What a step does to the history, the status and the final response *)

LEMMA NoSelfTransition == \A t \in TicketStatus : ~can_transition(t, t)
BY DEF TicketStatus, can_transition, ALLOWED_TRANSITIONS

LEMMA FlushMoves ==
  ASSUME NEW current \in TicketStatus \cup {None}, NEW target \in TicketStatus,
         can_transition(current, target)
  PROVE  Flush(target, current, status) = target
BY NoSelfTransition DEF Flush

\* A step that commits the history row e.
Writes(e) ==
  /\ events' = Append(events, e)
  /\ status' = IF e.to = None THEN status ELSE e.to
  /\ e.to = "approved" => e.type = "approved"
  /\ IF e.type = "approved"
     THEN /\ e.text \in Texts
          /\ \/ final_response' = e.text
             \/ /\ \E s \in Sessions : session[s].seen.final = e.text
                /\ UNCHANGED final_response
     ELSE UNCHANGED final_response

LEMMA StepWrites ==
  ASSUME TypeInv, [Next]_vars
  PROVE  UNCHANGED <<status, final_response, events>> \/ \E e \in TicketEvent : Writes(e)
<1> USE DEF TypeInv
<1>1. CASE create_ticket
  <2> DEFINE e == [type |-> "created", from |-> None, to |-> "new", text |-> None,
                   run |-> None, since |-> 0]
  <2>1. e \in TicketEvent
    BY DEF TicketEvent, TicketStatus, Replies
  <2>2. Writes(e)
    BY <1>1, ConstantsAssumption DEF create_ticket, Writes, TicketStatus
  <2> QED
    BY <2>1, <2>2
<1>2. ASSUME NEW q \in Requests, RequestStep(q)
      PROVE  UNCHANGED <<status, final_response, events>> \/ \E e \in TicketEvent : Writes(e)
  <2>q. /\ q \in Sessions
        /\ session[q].seen.status \in TicketStatus \cup {None}
    BY DEF TypeOK, Sessions, Session, RowType
  <2>1. CASE approve(q)
    <3> DEFINE e == Event(q, "approved", "approved", FinalText(q))
    <3>1. FinalText(q) \in Texts
      BY <2>1, FinalTextType DEF approve
    <3>2. e \in TicketEvent
      BY <2>q, <3>1, EventType DEF TicketStatus, Replies
    <3>3. status' = "approved"
      BY <2>1, <2>q, FlushMoves DEF approve, TicketStatus
    <3>4. \/ final_response' = FinalText(q)
          \/ session[q].seen.final = FinalText(q) /\ UNCHANGED final_response
      BY <2>1 DEF approve, Flush
    <3>5. e.type = "approved" /\ e.to = "approved" /\ e.text = FinalText(q)
      BY DEF Event
    <3>6. "approved" # None
      BY ConstantsAssumption DEF TicketStatus
    <3>7. events' = Append(events, e)
      BY <2>1 DEF approve
    <3>8. Writes(e)
      BY <2>q, <3>1, <3>3, <3>4, <3>5, <3>6, <3>7 DEF Writes
    <3> QED
      BY <3>2, <3>8
  <2>2. CASE reject(q)
    <3> DEFINE e == Event(q, "rejected", "rejected", None)
    <3>1. e \in TicketEvent
      BY <2>q, EventType DEF TicketStatus, Replies
    <3>2. status' = "rejected"
      BY <2>2, <2>q, FlushMoves DEF reject, TicketStatus
    <3>3. e.type = "rejected" /\ e.to = "rejected"
      BY DEF Event
    <3>4. Writes(e)
      BY <2>2, <3>2, <3>3, ConstantsAssumption DEF reject, Writes, TicketStatus
    <3> QED
      BY <3>1, <3>4
  <2>3. CASE edit_draft(q)
    <3> DEFINE e == Event(q, "edited", None, session[q].arg)
    <3>1. e \in TicketEvent
      BY <2>q, EventType DEF TypeOK, Session
    <3>2. e.type = "edited" /\ e.to = None
      BY DEF Event
    <3>3. Writes(e)
      BY <2>3, <3>2, ConstantsAssumption DEF edit_draft, Writes, TicketStatus
    <3> QED
      BY <3>1, <3>3
  <2>4. CASE refuse(q) \/ start_run(q) \/ dispatch_run(q) \/ Notify(q)
    BY <2>4 DEF refuse, start_run, dispatch_run, Notify, refresh_ticket, record_delivery,
                dispatch_delivery, ticketVars, tableVars
  <2> QED
    BY <1>2, <2>1, <2>2, <2>3, <2>4 DEF RequestStep
<1>3. ASSUME NEW w \in Workers, NEW result \in WorkflowResult, complete_run(w, result)
      PROVE  \E e \in TicketEvent : Writes(e)
  <2> DEFINE e == Event(w, "agent_run", result.outcome, None)
  <2>w. /\ w \in Sessions
        /\ session[w].seen.status \in TicketStatus \cup {None}
    BY DEF TypeOK, Sessions, Session, RowType
  <2>1. result.outcome \in {"waiting_approval", "escalated"}
    BY DEF WorkflowResult
  <2>2. e \in TicketEvent
    BY <2>w, <2>1, EventType DEF TicketStatus, Replies
  <2>3. status' = result.outcome
    BY <1>3, <2>w, <2>1, FlushMoves DEF complete_run, TicketStatus
  <2>4. e.type = "agent_run" /\ e.to = result.outcome
    BY DEF Event
  <2>5. Writes(e)
    BY <1>3, <2>1, <2>3, <2>4, ConstantsAssumption DEF complete_run, Writes
  <2> QED
    BY <2>2, <2>5
<1>4. ASSUME NEW w \in Workers,
             \/ \E r \in Requests : receive_run(w, r)
             \/ \E why \in {"workflow", "transition"} : fail_run(w, why)
             \/ Notify(w) \/ ack_run(w) \/ refresh_run(w) \/ WorkerFault(w)
      PROVE  UNCHANGED <<status, final_response, events>>
  BY <1>4 DEF receive_run, fail_run, Notify, refresh_ticket, record_delivery,
              dispatch_delivery, ack_run, refresh_run, WorkerFault, fail_late, abandon_run,
              kill_child, crash_worker, ticketVars, tableVars
<1>5. ASSUME NEW q \in Requests,
             \/ \E op \in {"approve", "reject", "edit", "run"} :
                  \E arg \in Body(op) : load_ticket(q, op, arg)
             \/ abort_request(q)
      PROVE  UNCHANGED <<status, final_response, events>>
  BY <1>5 DEF load_ticket, abort_request, ticketVars, tableVars
<1>6. CASE upsert_config
  BY <1>6 DEF upsert_config, ticketVars, tableVars
<1>7. CASE UNCHANGED vars
  BY <1>7 DEF vars, ticketVars, tableVars, faults
<1> QED
  BY <1>1, <1>2, <1>3, <1>4, <1>5, <1>6, <1>7 DEF Next, WorkerStep, WorkerFault

-----------------------------------------------------------------------------
(* The history explains the status *)

LEMMA HistoryStep ==
  ASSUME TypeInv, HistoryExplainsStatus, [Next]_vars
  PROVE  HistoryExplainsStatus'
<1>1. CASE UNCHANGED <<status, final_response, events>>
  BY <1>1 DEF HistoryExplainsStatus, LastChange
<1>2. ASSUME NEW e \in TicketEvent, Writes(e)
      PROVE  HistoryExplainsStatus'
  <2> DEFINE n == Len(events)
  <2>1. /\ n \in Nat
        /\ events' = Append(events, e)
        /\ Len(events') = n + 1 /\ DOMAIN events' = 1..(n + 1)
        /\ DOMAIN events = 1..n
        /\ \A k \in 1..n : events'[k] = events[k]
        /\ events'[n + 1] = e
    BY <1>2 DEF Writes, TypeInv, TypeOK
  <2>2. SUFFICES ASSUME NEW i \in 1..(n + 1), LastChange(i, Len(events))'
                 PROVE  events'[i].to = status'
    BY <2>1 DEF HistoryExplainsStatus
  <2>3. /\ events'[i].to # None
        /\ \A j \in (i + 1)..(n + 1) : events'[j].to = None
    BY <2>1, <2>2 DEF LastChange
  <2>4. CASE e.to = None
    <3>1. i \in 1..n /\ events'[i] = events[i]
      BY <2>1, <2>3, <2>4
    <3>2. \A j \in (i + 1)..n : events[j].to = None
      BY <2>1, <2>3
    <3>3. events[i].to = status
      BY <2>1, <2>3, <3>1, <3>2 DEF HistoryExplainsStatus, LastChange
    <3> QED
      BY <1>2, <2>4, <3>1, <3>3 DEF Writes
  <2>5. CASE e.to # None
    <3>1. i = n + 1
      BY <2>1, <2>3, <2>5
    <3> QED
      BY <1>2, <2>1, <2>5, <3>1 DEF Writes
  <2> QED
    BY <2>4, <2>5
<1> QED
  BY <1>1, <1>2, StepWrites

\* However sessions overlap, the last committed status change is the status.
THEOREM HistoryCorrect == Spec => []HistoryExplainsStatus
<1>1. Init => HistoryExplainsStatus
  BY DEF Init, HistoryExplainsStatus
<1>2. TypeInv /\ HistoryExplainsStatus /\ [Next]_vars => HistoryExplainsStatus'
  BY HistoryStep
<1> QED
  BY TypeInit, TypeStep, <1>1, <1>2, PTL DEF Spec

-----------------------------------------------------------------------------
(* The reply gate *)

\* What a session has seen is never ahead of the ticket: the final response
\* it loaded was approved, and the ticket still has one.
SeenFinalKept ==
  \A s \in Sessions : session[s].seen.final # None =>
    /\ session[s].seen.final \in ApprovedTexts
    /\ final_response # None

GateInv == TypeInv /\ FinalIsApproved /\ SeenFinalKept

\* A session's copy of the row changes only by loading the committed one.
LEMMA StepSeen ==
  ASSUME TypeInv, [Next]_vars, NEW s \in Sessions
  PROVE  session'[s].seen \in {session[s].seen, Fresh.seen, Row}
<1> USE DEF TypeInv
<1>1. ASSUME NEW t \in Sessions, NEW v, session' = [session EXCEPT ![t] = v],
             v.seen \in {session[t].seen, Fresh.seen, Row}
      PROVE  session'[s].seen \in {session[s].seen, Fresh.seen, Row}
  BY <1>1 DEF TypeOK
<1>2. \A t \in Sessions : Finished(t).seen = Fresh.seen
  BY DEF Finished, Fresh
<1>3. \A t \in Sessions : Committed(t).seen = session[t].seen
  BY DEF Committed, TypeOK, Session
<1>4. CASE UNCHANGED session
  BY <1>4
<1>5. ASSUME NEW t \in Sessions, Notify(t)
      PROVE  session'[s].seen \in {session[s].seen, Fresh.seen, Row}
  <2>1. session[t] \in Session
    BY DEF TypeOK
  <2>2. CASE refresh_ticket(t)
    <3> DEFINE v == [session[t] EXCEPT !.pc = "refreshed", !.seen = Row]
    <3>1. session' = [session EXCEPT ![t] = v] /\ v.seen = Row
      BY <2>1, <2>2 DEF refresh_ticket, Session
    <3> QED
      BY <1>1, <3>1
  <2>3. CASE record_delivery(t)
    <3> DEFINE v == [session[t] EXCEPT !.pc = "recorded", !.delivery = Len(deliveries) + 1]
    <3>1. v.seen = session[t].seen
      BY <2>1 DEF Session
    <3>2. \/ session' = [session EXCEPT ![t] = v]
          \/ session' = [session EXCEPT ![t] = Finished(t)]
      BY <2>3 DEF record_delivery
    <3> QED
      BY <1>1, <1>2, <3>1, <3>2
  <2>4. CASE dispatch_delivery(t)
    BY <1>1, <1>2, <2>4 DEF dispatch_delivery
  <2> QED
    BY <1>5, <2>2, <2>3, <2>4 DEF Notify
<1>6. ASSUME NEW q \in Requests, NEW op, NEW arg, load_ticket(q, op, arg)
      PROVE  session'[s].seen \in {session[s].seen, Fresh.seen, Row}
  <2> DEFINE v == [Fresh EXCEPT !.pc = "loaded", !.op = op, !.arg = arg,
                                !.seen = Row, !.since = Len(events)]
  <2>1. session' = [session EXCEPT ![q] = v] /\ v.seen = Row
    BY <1>6 DEF load_ticket, Fresh
  <2> QED
    BY <1>1, <2>1 DEF Sessions
<1>7. ASSUME NEW q \in Requests, RequestStep(q) \/ abort_request(q)
      PROVE  session'[s].seen \in {session[s].seen, Fresh.seen, Row}
  <2>1. q \in Sessions /\ session[q] \in Session
    BY DEF TypeOK, Sessions
  <2>2. CASE approve(q)
    BY <1>1, <1>3, <2>1, <2>2 DEF approve
  <2>3. CASE start_run(q)
    <3>1. /\ session' = [session EXCEPT ![q] = [session[q] EXCEPT !.pc = "started"]]
          /\ [session[q] EXCEPT !.pc = "started"].seen = session[q].seen
      BY <2>1, <2>3 DEF start_run, Session
    <3> QED
      BY <1>1, <2>1, <3>1
  <2>4. CASE refuse(q) \/ reject(q) \/ edit_draft(q) \/ dispatch_run(q) \/ abort_request(q)
    <3>1. session' = [session EXCEPT ![q] = Finished(q)]
      BY <2>4 DEF refuse, reject, edit_draft, dispatch_run, abort_request
    <3> QED
      BY <1>1, <1>2, <2>1, <3>1
  <2> QED
    BY <1>5, <1>7, <2>1, <2>2, <2>3, <2>4 DEF RequestStep
<1>8. ASSUME NEW w \in Workers, NEW r \in Requests, receive_run(w, r)
      PROVE  session'[s].seen \in {session[s].seen, Fresh.seen, Row}
  <2> DEFINE v == [Fresh EXCEPT !.pc = "loaded", !.op = "execute", !.run = r,
                                !.seen = Row, !.since = Len(events)]
  <2>1. session' = [session EXCEPT ![w] = v] /\ v.seen = Row
    BY <1>8 DEF receive_run, Fresh
  <2> QED
    BY <1>1, <2>1 DEF Sessions
<1>9. ASSUME NEW w \in Workers, WorkerStep(w) \/ WorkerFault(w)
      PROVE  session'[s].seen \in {session[s].seen, Fresh.seen, Row}
  <2>1. w \in Sessions
    BY DEF Sessions
  <2>2. ASSUME NEW result \in WorkflowResult, complete_run(w, result)
        PROVE  session'[s].seen \in {session[s].seen, Fresh.seen, Row}
    <3>1. session' = [session EXCEPT ![w] = AfterRun(w, result.outcome)]
      BY <2>2 DEF complete_run
    <3>2. AfterRun(w, result.outcome).seen \in {session[w].seen, Fresh.seen, Row}
      <4>1. [session[w] EXCEPT !.pc = "completed"].seen = session[w].seen
        BY <2>1 DEF TypeOK, Session
      <4> QED
        BY <1>3, <2>1, <4>1 DEF AfterRun
    <3> QED
      BY <1>1, <2>1, <3>1, <3>2
  <2>3. CASE \/ (\E why \in {"workflow", "transition"} : fail_run(w, why))
             \/ refresh_run(w) \/ fail_late(w) \/ abandon_run(w)
    BY <1>1, <1>2, <2>1, <2>3 DEF fail_run, refresh_run, fail_late, abandon_run, AfterCommit
  <2>4. CASE ack_run(w) \/ kill_child(w) \/ crash_worker(w)
    BY <1>1, <2>1, <2>4 DEF ack_run, kill_child, crash_worker
  <2> QED
    BY <1>5, <1>9, <2>1, <2>2, <2>3, <2>4 DEF WorkerStep, WorkerFault
<1> QED
  BY <1>4, <1>6, <1>7, <1>8, <1>9 DEF Next, vars, create_ticket, upsert_config

LEMMA GateInit == Init => GateInv
<1> SUFFICES ASSUME Init PROVE GateInv
  OBVIOUS
<1>1. FinalIsApproved
  BY ConstantsAssumption DEF Init, FinalIsApproved, TicketStatus
<1>2. SeenFinalKept
  BY DEF Init, SeenFinalKept, Fresh
<1> QED
  BY <1>1, <1>2, TypeInit DEF GateInv

\* Approved texts only accumulate: e adds its text when it is an approval.
LEMMA ApprovedTextsGrow ==
  ASSUME TypeInv, NEW e \in TicketEvent, events' = Append(events, e)
  PROVE  ApprovedTexts' =
           ApprovedTexts \cup (IF e.type = "approved" THEN {e.text} ELSE {})
<1> DEFINE n == Len(events)
<1>1. /\ n \in Nat
      /\ DOMAIN events' = 1..(n + 1) /\ DOMAIN events = 1..n
      /\ \A k \in 1..n : events'[k] = events[k]
      /\ events'[n + 1] = e
  BY DEF TypeInv, TypeOK
<1>2. 1..(n + 1) = 1..n \cup {n + 1}
  BY <1>1
<1>3. CASE e.type = "approved"
  <2>1. {j \in DOMAIN events' : events'[j].type = "approved"} =
          {j \in DOMAIN events : events[j].type = "approved"} \cup {n + 1}
    BY <1>1, <1>2, <1>3
  <2> QED
    BY <1>1, <1>3, <2>1 DEF ApprovedTexts
<1>4. CASE e.type # "approved"
  <2>1. {j \in DOMAIN events' : events'[j].type = "approved"} =
          {j \in DOMAIN events : events[j].type = "approved"}
    BY <1>1, <1>2, <1>4
  <2> QED
    BY <1>1, <1>4, <2>1 DEF ApprovedTexts
<1> QED
  BY <1>3, <1>4

LEMMA GateStep == GateInv /\ [Next]_vars => GateInv'
<1> SUFFICES ASSUME GateInv, [Next]_vars PROVE GateInv'
  OBVIOUS
<1> USE DEF GateInv
<1>1. /\ FinalIsApproved'
      /\ ApprovedTexts \subseteq ApprovedTexts'
      /\ final_response # None => final_response' # None
  <2>1. CASE UNCHANGED <<status, final_response, events>>
    BY <2>1 DEF FinalIsApproved, ApprovedTexts
  <2>2. ASSUME NEW e \in TicketEvent, Writes(e)
        PROVE  /\ FinalIsApproved'
               /\ ApprovedTexts \subseteq ApprovedTexts'
               /\ final_response # None => final_response' # None
    <3>1. ApprovedTexts' = ApprovedTexts \cup (IF e.type = "approved" THEN {e.text} ELSE {})
      BY <2>2, ApprovedTextsGrow DEF Writes
    <3>2. e.to = None => status' = status
      BY <2>2 DEF Writes
    <3>3. CASE e.type = "approved"
      <4>1. e.text # None
        BY <2>2, <3>3, ConstantsAssumption DEF Writes
      <4>2. \/ final_response' = e.text
            \/ final_response' = final_response /\ final_response # None
        BY <2>2, <3>3, <4>1 DEF Writes, SeenFinalKept
      <4> QED
        BY <3>1, <3>3, <4>1, <4>2 DEF FinalIsApproved
    <3>4. CASE e.type # "approved"
      <4>1. final_response' = final_response /\ ApprovedTexts' = ApprovedTexts
        BY <2>2, <3>1, <3>4 DEF Writes
      <4>2. status' = "approved" => status = "approved"
        BY <2>2, <3>4 DEF Writes
      <4> QED
        BY <4>1, <4>2 DEF FinalIsApproved
    <3> QED
      BY <3>3, <3>4
  <2> QED
    BY <2>1, <2>2, StepWrites
<1>2. SeenFinalKept'
  <2> SUFFICES ASSUME NEW s \in Sessions, session'[s].seen.final # None
               PROVE  /\ session'[s].seen.final \in ApprovedTexts'
                      /\ final_response' # None
    BY DEF SeenFinalKept, Sessions
  <2>1. session'[s].seen \in {session[s].seen, Fresh.seen, Row}
    BY StepSeen
  <2>2. Fresh.seen.final = None /\ Row.final = final_response
    BY DEF Fresh, Row
  <2> QED
    BY <1>1, <2>1, <2>2 DEF SeenFinalKept, FinalIsApproved
<1> QED
  BY <1>1, <1>2, TypeStep

\* No reply is final unless exactly that text was approved, and an approved
\* ticket always has one.
THEOREM FinalCorrect == Spec => []FinalIsApproved
<1>1. Spec => []GateInv
  BY GateInit, GateStep, PTL DEF Spec
<1> QED
  BY <1>1, PTL DEF GateInv

\* Every step of the ticket is a step of the abstract gate or leaves it alone.
LEMMA GateSimulation ==
  ASSUME GateInv, [Next]_vars
  PROVE  [Gate!Next]_<<ApprovedTexts, final_response>>
<1> USE DEF GateInv
<1>1. CASE UNCHANGED <<status, final_response, events>>
  BY <1>1 DEF ApprovedTexts
<1>2. ASSUME NEW e \in TicketEvent, Writes(e)
      PROVE  [Gate!Next]_<<ApprovedTexts, final_response>>
  <2>1. ApprovedTexts' = ApprovedTexts \cup (IF e.type = "approved" THEN {e.text} ELSE {})
    BY <1>2, ApprovedTextsGrow DEF Writes
  <2>2. CASE e.type = "approved"
    <3>1. e.text \in Texts /\ e.text # None
      BY <1>2, <2>2, ConstantsAssumption DEF Writes
    <3>2. \/ final_response' = e.text
          \/ /\ e.text \in ApprovedTexts
             /\ final_response # None
             /\ UNCHANGED final_response
      BY <1>2, <2>2, <3>1 DEF Writes, SeenFinalKept
    <3>3. Gate!Approve(e.text)
      BY <2>1, <2>2, <3>2 DEF Gate!Approve
    <3> QED
      BY <3>1, <3>3 DEF Gate!Next
  <2>3. CASE e.type # "approved"
    BY <1>2, <2>1, <2>3 DEF Writes
  <2> QED
    BY <2>2, <2>3
<1> QED
  BY <1>1, <1>2, StepWrites

\* The ticket implements the reply gate: whatever overlaps or crashes, a
\* reply becomes final only in the step in which a human approves it.
THEOREM ReplyGateRefined == Spec => RefinesReplyGate
<1>1. Init => Gate!Init
  BY DEF Init, Gate!Init, ApprovedTexts
<1>2. GateInv /\ [Next]_vars => [Gate!Next]_<<ApprovedTexts, final_response>>
  BY GateSimulation
<1> QED
  BY GateInit, GateStep, <1>1, <1>2, PTL DEF Spec, Gate!Spec, RefinesReplyGate

=============================================================================
